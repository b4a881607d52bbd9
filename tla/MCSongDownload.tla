--------------------------- MODULE MCSongDownload ---------------------------
(* SongDownload on a few goroutines: three of them are enough for a leader, *)
(* a call that joins it and a call that was slow between Has and Do.        *)
EXTENDS SongDownload, TLC

CONSTANTS c1, c2, c3, s1, s2

MCCalls == {c1, c2, c3}
MCSongs == {s1, s2}
MCOneSong == {s1}
MCOneCall == {c1}
=============================================================================
