----------------------------- MODULE SongStore -----------------------------
(* What the download path promises its callers, with no mention of how:    *)
(* the store only ever grows by whole songs somebody asked for, a call is  *)
(* told "ok" only when its song is there, and a crash of the server loses  *)
(* the calls but none of the songs. SongDownload implements it.            *)
EXTENDS FiniteSets

CONSTANTS Songs,   \* catalogue ids that may be asked for
          Calls    \* goroutines that may call EnsureSong

VARIABLES available,  \* the songs that can be served, whole
          asked,      \* Calls -> the set holding the song a call asked for
          state       \* Calls -> "idle", "pending", "ok" or "error"

vars == <<available, asked, state>>

TypeOK ==
  /\ available \subseteq Songs
  /\ asked \in [Calls -> SUBSET Songs]
  /\ state \in [Calls -> {"idle", "pending", "ok", "error"}]

Init ==
  /\ available \in SUBSET Songs
  /\ asked = [c \in Calls |-> {}]
  /\ state = [c \in Calls |-> "idle"]

Ask(c, s) ==
  /\ state[c] = "idle"
  /\ asked' = [asked EXCEPT ![c] = {s}]
  /\ state' = [state EXCEPT ![c] = "pending"]
  /\ UNCHANGED available

\* A song becomes available in one piece, and only because it was asked for.
Add(s) ==
  /\ \E c \in Calls : state[c] = "pending" /\ asked[c] = {s}
  /\ available' = available \cup {s}
  /\ UNCHANGED <<asked, state>>

\* Calls that wait for the same song may be answered together.
Answer(s, answered, r) ==
  /\ \A c \in answered : state[c] = "pending" /\ asked[c] = {s}
  /\ r = "ok" => s \in available
  /\ state' = [c \in Calls |-> IF c \in answered THEN r ELSE state[c]]
  /\ UNCHANGED <<available, asked>>

\* The caller takes its answer; its goroutine is free again.
Take(c) ==
  /\ state[c] \in {"ok", "error"}
  /\ asked' = [asked EXCEPT ![c] = {}]
  /\ state' = [state EXCEPT ![c] = "idle"]
  /\ UNCHANGED available

Crash ==
  /\ asked' = [c \in Calls |-> {}]
  /\ state' = [c \in Calls |-> "idle"]
  /\ UNCHANGED available

Next ==
  \/ \E c \in Calls, s \in Songs : Ask(c, s)
  \/ \E s \in Songs : Add(s)
  \/ \E s \in Songs, answered \in SUBSET Calls, r \in {"ok", "error"} :
        Answer(s, answered, r)
  \/ \E c \in Calls : Take(c)
  \/ Crash

Spec == Init /\ [][Next]_vars
=============================================================================
