----------------------------- MODULE WorkerPool -----------------------------
(* The table of gamdl workers: WorkerFor under poolMu (look up, stop the     *)
(* user's other workers, start a new one), what startWorkerWith can end in,  *)
(* the death of a process and the end of its readLoop.  What happens inside  *)
(* a worker while it is used is GamdlWorker's business.                      *)
EXTENDS FiniteSets

CONSTANTS Users,
          Cookies,     \* contents of a user's cookies.txt
          Callers,     \* goroutines in downloadViaWorker
          Workers,     \* worker processes that may ever be started
          NoWorker,
          NoCaller,
          NoKey,
          ColonPrefix  \* pairs <<u, v>> of users where v starts with u and ":"

ASSUME WorkerAssumption == NoWorker \notin Workers
ASSUME CallerAssumption == NoCaller \notin Callers
ASSUME KeyAssumption == NoKey \notin Users \X Cookies
ASSUME PrefixAssumption == ColonPrefix \subseteq Users \X Users

Keys == Users \X Cookies

VARIABLES pool,      \* key -> worker
          poolMu,    \* the caller that holds poolMu
          pc,        \* caller -> stage
          cred,      \* caller -> username and cookies of its User value
          worker,    \* caller -> the worker it starts or has been given
          proc,      \* worker -> its process and readLoop
          killed,    \* worker -> stop() was called
          key        \* worker -> w.key

vars == <<pool, poolMu, pc, cred, worker, proc, killed, key>>

Stages     == {"idle", "want", "starting", "using", "failed"}
ProcStates == {"unborn", "starting", "ready", "exited", "closed", "gone"}

TypeOK ==
  /\ pool \in [Keys -> Workers \cup {NoWorker}]
  /\ poolMu \in Callers \cup {NoCaller}
  /\ pc \in [Callers -> Stages]
  /\ cred \in [Callers -> Keys \cup {NoKey}]
  /\ worker \in [Callers -> Workers \cup {NoWorker}]
  /\ \A c \in Callers : pc[c] \in {"starting", "using"} => worker[c] \in Workers
  /\ proc \in [Workers -> ProcStates]
  /\ killed \in [Workers -> BOOLEAN]
  /\ key \in [Workers -> Keys \cup {NoKey}]

Init ==
  /\ pool = [k \in Keys |-> NoWorker]
  /\ poolMu = NoCaller
  /\ pc = [c \in Callers |-> "idle"]
  /\ cred = [c \in Callers |-> NoKey]
  /\ worker = [c \in Callers |-> NoWorker]
  /\ proc = [w \in Workers |-> "unborn"]
  /\ killed = [w \in Workers |-> FALSE]
  /\ key = [w \in Workers |-> NoKey]

Alive(w) == w # NoWorker /\ proc[w] \in {"ready", "exited"}  \* done not closed

\* The key of v has the prefix username + ":".
Prefixed(u, v) == v = u \/ <<u, v>> \in ColonPrefix

-----------------------------------------------------------------------------
\* A download begins with the User value that its request, or a batch, loaded
\* some time ago: with any cookies the user has had.
Begin(c) ==
  /\ pc[c] = "idle"
  /\ \E k \in Keys : cred' = [cred EXCEPT ![c] = k]
  /\ pc' = [pc EXCEPT ![c] = "want"]
  /\ UNCHANGED <<pool, poolMu, worker, proc, killed, key>>

Mutant_ReuseUser(c) ==
  /\ pc[c] = "want" /\ poolMu = NoCaller
  /\ \E k \in Keys :
       /\ k[1] = cred[c][1] /\ Alive(pool[k])
       /\ worker' = [worker EXCEPT ![c] = pool[k]]
  /\ pc' = [pc EXCEPT ![c] = "using"]
  /\ UNCHANGED <<pool, poolMu, cred, proc, killed, key>>

\* WorkerFor finds a worker for the very same cookies.
Reuse(c) ==
  /\ pc[c] = "want" /\ poolMu = NoCaller
  /\ Alive(pool[cred[c]])
  /\ worker' = [worker EXCEPT ![c] = pool[cred[c]]]
  /\ pc' = [pc EXCEPT ![c] = "using"]
  /\ UNCHANGED <<pool, poolMu, cred, proc, killed, key>>

Replaced(c) == {k \in Keys : Prefixed(cred[c][1], k[1]) /\ pool[k] # NoWorker}

Mutant_StartBeside(c) ==
  /\ pc[c] = "want" /\ poolMu = NoCaller
  /\ ~Alive(pool[cred[c]])
  /\ poolMu' = c
  /\ pool' = [pool EXCEPT ![cred[c]] = NoWorker]
  /\ pc' = [pc EXCEPT ![c] = "starting"]
  /\ \E w \in Workers :
       /\ proc[w] = "unborn"
       /\ proc' = [proc EXCEPT ![w] = "starting"]
       /\ key' = [key EXCEPT ![w] = cred[c]]
       /\ worker' = [worker EXCEPT ![c] = w]
  /\ UNCHANGED <<cred, killed>>

\* Otherwise it stops every worker of the user, takes them out, and starts a
\* process for the new key, keeping poolMu until that is ready or has failed.
Start(c) ==
  /\ pc[c] = "want" /\ poolMu = NoCaller
  /\ ~Alive(pool[cred[c]])
  /\ poolMu' = c
  /\ killed' = [w \in Workers |-> killed[w] \/ \E k \in Replaced(c) : pool[k] = w]
  /\ pool' = [k \in Keys |-> IF k \in Replaced(c) THEN NoWorker ELSE pool[k]]
  /\ pc' = [pc EXCEPT ![c] = "starting"]
  /\ \E w \in Workers :
       /\ proc[w] = "unborn"
       /\ proc' = [proc EXCEPT ![w] = "starting"]
       /\ key' = [key EXCEPT ![w] = cred[c]]
       /\ worker' = [worker EXCEPT ![c] = w]
  /\ UNCHANGED <<cred>>

\* The same when the process cannot even be started: no script, no python.
StartImpossible(c) ==
  /\ pc[c] = "want" /\ poolMu = NoCaller
  /\ ~Alive(pool[cred[c]])
  /\ killed' = [w \in Workers |-> killed[w] \/ \E k \in Replaced(c) : pool[k] = w]
  /\ pool' = [k \in Keys |-> IF k \in Replaced(c) THEN NoWorker ELSE pool[k]]
  /\ pc' = [pc EXCEPT ![c] = "failed"]
  /\ UNCHANGED <<poolMu, cred, worker, proc, key>>

\* "ready" came: readLoop is started, the worker goes into the pool.
Ready(c) ==
  /\ pc[c] = "starting" /\ proc[worker[c]] = "starting"
  /\ proc' = [proc EXCEPT ![worker[c]] = "ready"]
  /\ pool' = [pool EXCEPT ![key[worker[c]]] = worker[c]]
  /\ poolMu' = NoCaller
  /\ pc' = [pc EXCEPT ![c] = "using"]
  /\ UNCHANGED <<cred, worker, killed, key>>

Mutant_NotReadyNoUnlock(c) ==
  /\ pc[c] = "starting"
  /\ proc' = [proc EXCEPT ![worker[c]] = "gone"]
  /\ killed' = [killed EXCEPT ![worker[c]] = TRUE]
  /\ worker' = [worker EXCEPT ![c] = NoWorker]
  /\ pc' = [pc EXCEPT ![c] = "failed"]
  /\ UNCHANGED <<pool, poolMu, cred, key>>

Mutant_NotReadyNoError(c) ==
  /\ pc[c] = "starting"
  /\ proc' = [proc EXCEPT ![worker[c]] = "gone"]
  /\ killed' = [killed EXCEPT ![worker[c]] = TRUE]
  /\ worker' = [worker EXCEPT ![c] = NoWorker]
  /\ poolMu' = NoCaller
  /\ pc' = [pc EXCEPT ![c] = "using"]
  /\ UNCHANGED <<pool, cred, key>>

\* "fatal", a bad handshake, the process's exit or 120 seconds: it is killed
\* and reaped, and WorkerFor returns ErrWorkerUnavailable.
NotReady(c) ==
  /\ pc[c] = "starting"
  /\ proc' = [proc EXCEPT ![worker[c]] = "gone"]
  /\ killed' = [killed EXCEPT ![worker[c]] = TRUE]
  /\ worker' = [worker EXCEPT ![c] = NoWorker]
  /\ poolMu' = NoCaller
  /\ pc' = [pc EXCEPT ![c] = "failed"]
  /\ UNCHANGED <<pool, cred, key>>

\* Download on the worker has come back, or there was no worker and the caller
\* goes on with the gamdl CLI.
Finish(c) ==
  /\ pc[c] \in {"using", "failed"}
  /\ pc' = [pc EXCEPT ![c] = "idle"]
  /\ cred' = [cred EXCEPT ![c] = NoKey]
  /\ worker' = [worker EXCEPT ![c] = NoWorker]
  /\ UNCHANGED <<pool, poolMu, proc, killed, key>>

-----------------------------------------------------------------------------
\* The process of a started worker ends: killed, crashed, or stdin closed.
Exit(w) ==
  /\ proc[w] = "ready"
  /\ proc' = [proc EXCEPT ![w] = "exited"]
  /\ UNCHANGED <<pool, poolMu, pc, cred, worker, killed, key>>

\* readLoop saw the end of stdout: Wait, close(done), the drain
CloseDone(w) ==
  /\ proc[w] = "exited"
  /\ proc' = [proc EXCEPT ![w] = "closed"]
  /\ UNCHANGED <<pool, poolMu, pc, cred, worker, killed, key>>

Mutant_LeavePoolUnchecked(w) ==
  /\ proc[w] = "closed" /\ poolMu = NoCaller
  /\ proc' = [proc EXCEPT ![w] = "gone"]
  /\ pool' = [pool EXCEPT ![key[w]] = NoWorker]
  /\ UNCHANGED <<poolMu, pc, cred, worker, killed, key>>

Mutant_StayInPool(w) ==
  /\ proc[w] = "closed" /\ poolMu = NoCaller
  /\ proc' = [proc EXCEPT ![w] = "gone"]
  /\ UNCHANGED <<pool, poolMu, pc, cred, worker, killed, key>>

\* and takes its worker out of the pool, if it is still the one there
LeavePool(w) ==
  /\ proc[w] = "closed" /\ poolMu = NoCaller
  /\ proc' = [proc EXCEPT ![w] = "gone"]
  /\ pool' = IF pool[key[w]] = w THEN [pool EXCEPT ![key[w]] = NoWorker] ELSE pool
  /\ UNCHANGED <<poolMu, pc, cred, worker, killed, key>>

-----------------------------------------------------------------------------
WorkerFor(c) == Reuse(c) \/ Start(c) \/ StartImpossible(c)
StartEnds(c) == Ready(c) \/ NotReady(c)
ReadLoop(w)  == CloseDone(w) \/ LeavePool(w)

Next ==
  \/ \E c \in Callers : Begin(c) \/ WorkerFor(c) \/ StartEnds(c) \/ Finish(c)
  \/ \E w \in Workers : Exit(w) \/ ReadLoop(w)

Spec == Init /\ [][Next]_vars

\* poolMu starves nobody, a start ends after 120 seconds at the latest, a killed
\* process dies, and goroutines run.  A worker nobody stops may live for ever.
Fairness ==
  /\ \A c \in Callers : SF_vars(WorkerFor(c)) /\ WF_vars(StartEnds(c))
  /\ \A w \in Workers : WF_vars(killed[w] /\ Exit(w)) /\ SF_vars(ReadLoop(w))

FairSpec == Spec /\ Fairness
-----------------------------------------------------------------------------
(* Properties *)

\* A process that runs unasked-to-stop can be found in the pool: the exit of an
\* old worker must not take its successor out, or a gamdl with the user's
\* session would run on for ever beside the next one.
NoOrphanProcess ==
  \A w \in Workers :
    proc[w] = "ready" /\ ~killed[w] => pool[key[w]] = w

\* A user has one worker at a time: the others are on their way out.
OneWorkerPerUser ==
  \A v, w \in Workers :
    /\ proc[v] \in {"starting", "ready"} /\ ~killed[v]
    /\ proc[w] \in {"starting", "ready"} /\ ~killed[w]
    /\ key[v][1] = key[w][1]
    => v = w

\* A download runs in a session made from exactly the cookies it came with,
\* never another user's and never older ones.
OwnSession ==
  \A c \in Callers : pc[c] = "using" => key[worker[c]] = cred[c]

\* WorkerFor comes back, whatever processes do meanwhile: poolMu is never lost.
WorkerForReturns ==
  \A c \in Callers : pc[c] = "want" ~> pc[c] \in {"using", "failed"}

\* The worker that died makes room: its entry does not stay in the pool.
DeadLeavePool ==
  \A w \in Workers :
    proc[w] = "exited" ~> \A k \in Keys : pool[k] # w
-----------------------------------------------------------------------------
(* The invariant the proofs need *)

\* poolMu is held by the one caller that is starting a worker.
MuInv == \A c \in Callers : pc[c] = "starting" <=> poolMu = c

CredInv == \A c \in Callers : pc[c] # "idle" => cred[c] \in Keys

\* While a worker starts the pool holds none of its user's.
StartInv ==
  \A c \in Callers : pc[c] = "starting" =>
    /\ proc[worker[c]] = "starting" /\ ~killed[worker[c]]
    /\ key[worker[c]] = cred[c]
    /\ \A k \in Keys : k[1] = cred[c][1] => pool[k] = NoWorker

StarterInv ==
  \A w \in Workers : proc[w] = "starting" =>
    \E c \in Callers : pc[c] = "starting" /\ worker[c] = w

UnbornInv ==
  /\ \A w \in Workers : IF proc[w] = "unborn" THEN ~killed[w] ELSE key[w] \in Keys
  /\ \A c \in Callers : pc[c] = "using" => proc[worker[c]] # "unborn"

\* What is in the pool was started for that key and never stopped.
EntryInv ==
  \A k \in Keys : pool[k] # NoWorker =>
    /\ key[pool[k]] = k
    /\ proc[pool[k]] \in {"ready", "exited", "closed"}
    /\ ~killed[pool[k]]

OneEntryInv ==
  \A j, k \in Keys :
    pool[j] # NoWorker /\ pool[k] # NoWorker /\ j[1] = k[1] => j = k

PoolInv ==
  /\ TypeOK
  /\ MuInv /\ CredInv /\ StartInv /\ StarterInv /\ UnbornInv
  /\ EntryInv /\ OneEntryInv
  /\ NoOrphanProcess /\ OwnSession
=============================================================================
