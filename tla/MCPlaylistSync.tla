--------------------------- MODULE MCPlaylistSync ---------------------------
(* Two sessions, so that one can join or follow the other's sync, and one   *)
(* editor beside them; versions of one and two tracks, so that entries can  *)
(* be lost, doubled and out of order.                                       *)
EXTENDS PlaylistSync

CONSTANTS s1, s2, e1, a, b

MCSessions == {s1, s2}
MCEditors == {e1}
MCNoEditors == {}
MCTracks == {a, b}
MCVersions == {<<a>>, <<a, b>>}
=============================================================================
