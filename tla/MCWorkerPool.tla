---------------------------- MODULE MCWorkerPool ----------------------------
(* Two goroutines that may hold different cookies of one user, and two       *)
(* processes: a worker, and its successor under the same key or the worker   *)
(* of the other cookies or user.                                             *)
EXTENDS WorkerPool, TLC

CONSTANTS g1, g2, w1, w2, alice, bob, k1, k2

MCCallers == {g1, g2}
MCWorkers == {w1, w2}
MCUsers == {alice, bob}
MCCookies == {k1, k2}
MCPrefix == {<<alice, bob>>}   \* bob stands for a name such as "alice:2"
=============================================================================
