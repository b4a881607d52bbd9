----------------------------- MODULE MCStreaming -----------------------------
(* s1 is an album of its own and s2 has none; both are in one playlist.  The *)
(* semaphore has one slot, so that the second song has to wait for it, and   *)
(* two goroutines let a redirected request leave one behind.                 *)
EXTENDS Streaming

CONSTANTS s1, s2, r1, b1, c1, c2

MCSongs == {s1, s2}
MCRequests == {r1}
MCJobs == {b1}
MCCalls == {c1, c2}
MCAlbum == [s \in MCSongs |-> IF s = s1 THEN {s1} ELSE {}]
MCPlaylists == {{s1, s2}}
=============================================================================
