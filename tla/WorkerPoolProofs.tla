-------------------------- MODULE WorkerPoolProofs --------------------------
(* For any users, callers and worker processes: PoolInv is an invariant of   *)
(* WorkerPool, and with it no process is orphaned, a user has one worker at  *)
(* a time and a download runs in the session of its own cookies.             *)
EXTENDS WorkerPool, TLAPS

LEMMA InitInv == Init => PoolInv
<1> SUFFICES ASSUME Init PROVE PoolInv
  OBVIOUS
<1> USE WorkerAssumption, CallerAssumption DEF Init
<1>1. TypeOK
  BY DEF TypeOK, Stages, ProcStates
<1>2. MuInv /\ CredInv /\ StartInv /\ StarterInv /\ UnbornInv
  BY DEF MuInv, CredInv, StartInv, StarterInv, UnbornInv
<1>3. EntryInv /\ OneEntryInv /\ NoOrphanProcess /\ OwnSession
  BY DEF EntryInv, OneEntryInv, NoOrphanProcess, OwnSession
<1> QED
  BY <1>1, <1>2, <1>3 DEF PoolInv

LEMMA BeginInv ==
  ASSUME PoolInv, NEW c \in Callers, Begin(c) PROVE PoolInv'
<1> USE CallerAssumption DEF Begin, PoolInv
<1>1. TypeOK'
  BY DEF TypeOK, Stages
<1>2. MuInv' /\ CredInv' /\ StartInv' /\ StarterInv' /\ UnbornInv'
  BY DEF TypeOK, MuInv, CredInv, StartInv, StarterInv, UnbornInv
<1>3. EntryInv' /\ OneEntryInv' /\ NoOrphanProcess' /\ OwnSession'
  BY DEF TypeOK, EntryInv, OneEntryInv, NoOrphanProcess, OwnSession
<1> QED
  BY <1>1, <1>2, <1>3

LEMMA ReuseInv ==
  ASSUME PoolInv, NEW c \in Callers, Reuse(c) PROVE PoolInv'
<1> USE CallerAssumption DEF Reuse, Alive, PoolInv
<1>1. cred[c] \in Keys
  BY DEF CredInv
<1>2. TypeOK'
  BY <1>1 DEF TypeOK, Stages
<1>3. MuInv' /\ CredInv' /\ StartInv' /\ StarterInv' /\ UnbornInv'
  BY <1>1 DEF TypeOK, MuInv, CredInv, StartInv, StarterInv, UnbornInv
<1>4. EntryInv' /\ OneEntryInv' /\ NoOrphanProcess' /\ OwnSession'
  BY <1>1 DEF TypeOK, EntryInv, OneEntryInv, NoOrphanProcess, OwnSession
<1> QED
  BY <1>2, <1>3, <1>4

\* What the loop over the pool does: the user's entries go, their workers are
\* stopped, nobody else's are touched.
LEMMA ClearUser ==
  ASSUME PoolInv, NEW c \in Callers, cred[c] \in Keys,
         killed' = [w \in Workers |-> killed[w] \/ \E k \in Replaced(c) : pool[k] = w],
         pool' = [k \in Keys |-> IF k \in Replaced(c) THEN NoWorker ELSE pool[k]]
  PROVE  /\ killed' \in [Workers -> BOOLEAN]
         /\ pool' \in [Keys -> Workers \cup {NoWorker}]
         /\ \A k \in Keys : k[1] = cred[c][1] => pool'[k] = NoWorker
         /\ \A k \in Keys : pool'[k] = NoWorker \/ pool'[k] = pool[k]
         /\ \A w \in Workers : ~killed'[w] => ~killed[w]
         /\ \A k \in Keys : pool'[k] # NoWorker => ~killed'[pool'[k]]
         /\ \A w \in Workers : (\A k \in Keys : pool[k] # w) => killed'[w] = killed[w]
         /\ \A w \in Workers, k \in Keys : pool[k] = w /\ ~killed'[w] => pool'[k] = w
<1> USE DEF PoolInv
<1>1. Replaced(c) \subseteq Keys
  BY DEF Replaced
<1>2. \A k \in Keys : k[1] = cred[c][1] => k \in Replaced(c) \/ pool[k] = NoWorker
  BY DEF Replaced, Prefixed
<1>3. \A j, k \in Keys : pool[j] = pool[k] /\ pool[j] # NoWorker => j = k
  BY DEF EntryInv
<1>4. pool \in [Keys -> Workers \cup {NoWorker}] /\ killed \in [Workers -> BOOLEAN]
  BY DEF TypeOK
<1>5. \A k \in Keys : pool[k] # NoWorker => ~killed[pool[k]]
  BY DEF EntryInv
<1>6. \A k \in Replaced(c) : pool[k] # NoWorker
  BY DEF Replaced
<1> QED
  BY <1>1, <1>2, <1>3, <1>4, <1>5, <1>6, WorkerAssumption

LEMMA StartStepInv ==
  ASSUME PoolInv, NEW c \in Callers, Start(c) PROVE PoolInv'
<1> USE CallerAssumption, WorkerAssumption DEF PoolInv
<1>1. cred[c] \in Keys
  BY DEF CredInv, Start
<1>2. PICK w \in Workers : /\ proc[w] = "unborn"
                           /\ proc' = [proc EXCEPT ![w] = "starting"]
                           /\ key' = [key EXCEPT ![w] = cred[c]]
                           /\ worker' = [worker EXCEPT ![c] = w]
  BY DEF Start
<1>3. /\ pc[c] = "want" /\ poolMu = NoCaller /\ poolMu' = c
      /\ pc' = [pc EXCEPT ![c] = "starting"] /\ cred' = cred
  BY DEF Start
<1>4. /\ killed' \in [Workers -> BOOLEAN]
      /\ pool' \in [Keys -> Workers \cup {NoWorker}]
      /\ \A k \in Keys : k[1] = cred[c][1] => pool'[k] = NoWorker
      /\ \A k \in Keys : pool'[k] = NoWorker \/ pool'[k] = pool[k]
      /\ \A v \in Workers : ~killed'[v] => ~killed[v]
      /\ \A k \in Keys : pool'[k] # NoWorker => ~killed'[pool'[k]]
      /\ \A v \in Workers : (\A k \in Keys : pool[k] # v) => killed'[v] = killed[v]
      /\ \A v \in Workers, k \in Keys : pool[k] = v /\ ~killed'[v] => pool'[k] = v
  BY <1>1, ClearUser DEF Start
<1>5. \A k \in Keys : pool[k] # w
  BY <1>2 DEF EntryInv
<1>6. TypeOK'
  <2>1. proc' \in [Workers -> ProcStates] /\ key' \in [Workers -> Keys \cup {NoKey}]
    BY <1>1, <1>2 DEF TypeOK, ProcStates
  <2>2. /\ worker' \in [Callers -> Workers \cup {NoWorker}]
        /\ \A d \in Callers : pc'[d] \in {"starting", "using"} => worker'[d] \in Workers
    BY <1>2, <1>3 DEF TypeOK
  <2>3. pc' \in [Callers -> Stages] /\ poolMu' \in Callers \cup {NoCaller}
    BY <1>3 DEF TypeOK, Stages
  <2>4. cred' \in [Callers -> Keys \cup {NoKey}]
    BY <1>3 DEF TypeOK
  <2> QED
    BY <1>4, <2>1, <2>2, <2>3, <2>4 DEF TypeOK
<1>7. MuInv' /\ CredInv'
  BY <1>1, <1>2, <1>3 DEF TypeOK, MuInv, CredInv
<1>8. StartInv'
  BY <1>1, <1>2, <1>3, <1>4, <1>5 DEF TypeOK, MuInv, StartInv, UnbornInv
<1>9. StarterInv' /\ UnbornInv'
  BY <1>1, <1>2, <1>3, <1>4, <1>5 DEF TypeOK, MuInv, StarterInv, UnbornInv, EntryInv
<1>10. EntryInv' /\ OneEntryInv'
  BY <1>1, <1>2, <1>4, <1>5 DEF TypeOK, EntryInv, OneEntryInv
<1>11. NoOrphanProcess'
  BY <1>1, <1>2, <1>4, <1>5 DEF TypeOK, NoOrphanProcess, UnbornInv, EntryInv
<1>12. OwnSession'
  BY <1>1, <1>2, <1>3 DEF TypeOK, OwnSession, UnbornInv
<1> QED
  BY <1>6, <1>7, <1>8, <1>9, <1>10, <1>11, <1>12

LEMMA StartImpossibleInv ==
  ASSUME PoolInv, NEW c \in Callers, StartImpossible(c) PROVE PoolInv'
<1> USE CallerAssumption, WorkerAssumption DEF PoolInv
<1>1. cred[c] \in Keys
  BY DEF CredInv, StartImpossible
<1>2. /\ pc[c] = "want" /\ pc' = [pc EXCEPT ![c] = "failed"]
      /\ UNCHANGED <<poolMu, cred, worker, proc, key>>
  BY DEF StartImpossible
<1>3. /\ killed' \in [Workers -> BOOLEAN]
      /\ pool' \in [Keys -> Workers \cup {NoWorker}]
      /\ \A k \in Keys : k[1] = cred[c][1] => pool'[k] = NoWorker
      /\ \A k \in Keys : pool'[k] = NoWorker \/ pool'[k] = pool[k]
      /\ \A v \in Workers : ~killed'[v] => ~killed[v]
      /\ \A k \in Keys : pool'[k] # NoWorker => ~killed'[pool'[k]]
      /\ \A v \in Workers : (\A k \in Keys : pool[k] # v) => killed'[v] = killed[v]
      /\ \A v \in Workers, k \in Keys : pool[k] = v /\ ~killed'[v] => pool'[k] = v
  BY <1>1, ClearUser DEF StartImpossible
<1>4. \A v \in Workers : proc[v] \in {"unborn", "starting"} => \A k \in Keys : pool[k] # v
  BY DEF EntryInv
<1>5. TypeOK'
  BY <1>2, <1>3 DEF TypeOK, Stages
<1>6. MuInv' /\ CredInv'
  BY <1>2 DEF TypeOK, MuInv, CredInv
<1>7. StartInv'
  BY <1>2, <1>3, <1>4 DEF TypeOK, StartInv
<1>8. StarterInv' /\ UnbornInv'
  BY <1>2, <1>3, <1>4 DEF TypeOK, StarterInv, UnbornInv
<1>9. EntryInv' /\ OneEntryInv'
  BY <1>2, <1>3 DEF TypeOK, EntryInv, OneEntryInv
<1>10. NoOrphanProcess'
  BY <1>2, <1>3 DEF TypeOK, NoOrphanProcess, UnbornInv
<1>11. OwnSession'
  BY <1>2 DEF TypeOK, OwnSession
<1> QED
  BY <1>5, <1>6, <1>7, <1>8, <1>9, <1>10, <1>11

LEMMA ReadyInv ==
  ASSUME PoolInv, NEW c \in Callers, Ready(c) PROVE PoolInv'
<1> USE CallerAssumption, WorkerAssumption DEF PoolInv
<1>1. PICK w \in Workers : w = worker[c]
  BY DEF TypeOK, Ready
<1>2. /\ pc[c] = "starting" /\ poolMu = c /\ cred[c] \in Keys
      /\ proc[w] = "starting" /\ ~killed[w] /\ key[w] = cred[c]
      /\ \A k \in Keys : k[1] = cred[c][1] => pool[k] = NoWorker
  BY <1>1 DEF Ready, MuInv, CredInv, StartInv
<1>3. /\ proc' = [proc EXCEPT ![w] = "ready"]
      /\ pool' = [pool EXCEPT ![cred[c]] = w]
      /\ poolMu' = NoCaller
      /\ pc' = [pc EXCEPT ![c] = "using"]
      /\ UNCHANGED <<cred, worker, killed, key>>
  BY <1>1, <1>2 DEF Ready
<1>4. \A d \in Callers : pc[d] = "starting" => d = c
  BY <1>2 DEF MuInv
<1>5. TypeOK'
  BY <1>1, <1>2, <1>3 DEF TypeOK, Stages, ProcStates
<1>6. MuInv' /\ CredInv' /\ StartInv'
  BY <1>2, <1>3, <1>4 DEF TypeOK, MuInv, CredInv, StartInv
<1>7. StarterInv' /\ UnbornInv'
  BY <1>1, <1>2, <1>3, <1>4 DEF TypeOK, StarterInv, UnbornInv
<1>8. \A k \in Keys : pool[k] # w
  BY <1>2 DEF EntryInv
<1>9. EntryInv' /\ OneEntryInv'
  BY <1>2, <1>3, <1>8 DEF TypeOK, EntryInv, OneEntryInv
<1>10. NoOrphanProcess'
  BY <1>2, <1>3, <1>8 DEF TypeOK, NoOrphanProcess, UnbornInv
<1>11. OwnSession'
  BY <1>1, <1>2, <1>3 DEF TypeOK, OwnSession
<1> QED
  BY <1>5, <1>6, <1>7, <1>9, <1>10, <1>11

LEMMA NotReadyInv ==
  ASSUME PoolInv, NEW c \in Callers, NotReady(c) PROVE PoolInv'
<1> USE CallerAssumption, WorkerAssumption DEF PoolInv
<1>1. PICK w \in Workers : w = worker[c]
  BY DEF TypeOK, NotReady
<1>2. /\ pc[c] = "starting" /\ poolMu = c /\ proc[w] = "starting"
      /\ \A d \in Callers : pc[d] = "starting" => d = c
  BY <1>1 DEF NotReady, MuInv, StartInv
<1>3. /\ proc' = [proc EXCEPT ![w] = "gone"]
      /\ killed' = [killed EXCEPT ![w] = TRUE]
      /\ worker' = [worker EXCEPT ![c] = NoWorker]
      /\ poolMu' = NoCaller
      /\ pc' = [pc EXCEPT ![c] = "failed"]
      /\ UNCHANGED <<pool, cred, key>>
  BY <1>1 DEF NotReady
<1>4. \A k \in Keys : pool[k] # w
  BY <1>2 DEF EntryInv
<1>5. TypeOK'
  BY <1>3 DEF TypeOK, Stages, ProcStates
<1>6. MuInv' /\ CredInv' /\ StartInv'
  BY <1>2, <1>3 DEF TypeOK, MuInv, CredInv, StartInv
<1>7. StarterInv' /\ UnbornInv'
  BY <1>1, <1>2, <1>3 DEF TypeOK, StarterInv, UnbornInv
<1>8. EntryInv' /\ OneEntryInv'
  BY <1>3, <1>4 DEF TypeOK, EntryInv, OneEntryInv
<1>9. NoOrphanProcess' /\ OwnSession'
  BY <1>2, <1>3 DEF TypeOK, NoOrphanProcess, OwnSession
<1> QED
  BY <1>5, <1>6, <1>7, <1>8, <1>9

LEMMA FinishInv ==
  ASSUME PoolInv, NEW c \in Callers, Finish(c) PROVE PoolInv'
<1> USE CallerAssumption DEF Finish, PoolInv
<1>1. TypeOK'
  BY DEF TypeOK, Stages
<1>2. MuInv' /\ CredInv' /\ StartInv' /\ StarterInv' /\ UnbornInv'
  BY DEF TypeOK, MuInv, CredInv, StartInv, StarterInv, UnbornInv
<1>3. EntryInv' /\ OneEntryInv' /\ NoOrphanProcess' /\ OwnSession'
  BY DEF TypeOK, EntryInv, OneEntryInv, NoOrphanProcess, OwnSession
<1> QED
  BY <1>1, <1>2, <1>3

LEMMA ExitInv ==
  ASSUME PoolInv, NEW w \in Workers, Exit(w) \/ CloseDone(w) PROVE PoolInv'
<1> USE CallerAssumption, WorkerAssumption DEF Exit, CloseDone, PoolInv
<1>1. TypeOK'
  BY DEF TypeOK, ProcStates
<1>2. MuInv' /\ CredInv' /\ StartInv'
  BY DEF TypeOK, MuInv, CredInv, StartInv
<1>3. StarterInv' /\ UnbornInv'
  BY DEF TypeOK, StarterInv, UnbornInv
<1>4. EntryInv' /\ OneEntryInv'
  BY DEF TypeOK, EntryInv, OneEntryInv
<1>5. NoOrphanProcess' /\ OwnSession'
  BY DEF TypeOK, NoOrphanProcess, OwnSession
<1> QED
  BY <1>1, <1>2, <1>3, <1>4, <1>5

LEMMA LeavePoolInv ==
  ASSUME PoolInv, NEW w \in Workers, LeavePool(w) PROVE PoolInv'
<1> USE CallerAssumption, WorkerAssumption DEF PoolInv
<1>1. key[w] \in Keys /\ proc[w] = "closed"
  BY DEF LeavePool, UnbornInv
<1>2. /\ proc' = [proc EXCEPT ![w] = "gone"]
      /\ UNCHANGED <<poolMu, pc, cred, worker, killed, key>>
  BY DEF LeavePool
<1>3. /\ pool' \in [Keys -> Workers \cup {NoWorker}]
      /\ \A k \in Keys : pool'[k] # NoWorker => pool'[k] = pool[k] /\ pool[k] # w
      /\ \A k \in Keys : pool[k] \notin {w, NoWorker} => pool'[k] = pool[k]
  <2>1. \A k \in Keys : pool[k] = w => k = key[w]
    BY DEF EntryInv
  <2>2. CASE pool[key[w]] = w
    BY <1>1, <2>1, <2>2 DEF LeavePool, TypeOK
  <2>3. CASE pool[key[w]] # w
    BY <1>1, <2>1, <2>3 DEF LeavePool, TypeOK
  <2> QED
    BY <2>2, <2>3
<1>4. TypeOK'
  BY <1>2, <1>3 DEF TypeOK, ProcStates
<1>5. MuInv' /\ CredInv'
  BY <1>2 DEF MuInv, CredInv
<1>6. StartInv' /\ StarterInv' /\ UnbornInv'
  BY <1>1, <1>2, <1>3 DEF TypeOK, StartInv, StarterInv, UnbornInv
<1>7. EntryInv' /\ OneEntryInv'
  BY <1>2, <1>3 DEF TypeOK, EntryInv, OneEntryInv
<1>8. NoOrphanProcess'
  BY <1>1, <1>2, <1>3 DEF TypeOK, NoOrphanProcess, UnbornInv
<1>9. OwnSession'
  BY <1>2 DEF OwnSession
<1> QED
  BY <1>4, <1>5, <1>6, <1>7, <1>8, <1>9

LEMMA StutterInv == PoolInv /\ UNCHANGED vars => PoolInv'
  BY DEF vars, PoolInv, TypeOK, MuInv, CredInv, StartInv, StarterInv, UnbornInv,
         EntryInv, OneEntryInv, NoOrphanProcess, OwnSession

\* WorkerFor, worker deaths and readLoop exits, in any order, keep the table,
\* the mutex and the processes in step.
THEOREM Invariant == Spec => []PoolInv
<1>1. Init => PoolInv
  BY InitInv
<1>2. PoolInv /\ [Next]_vars => PoolInv'
  <2> SUFFICES ASSUME PoolInv, [Next]_vars PROVE PoolInv'
    OBVIOUS
  <2>1. ASSUME NEW c \in Callers, Begin(c) \/ WorkerFor(c) \/ StartEnds(c) \/ Finish(c)
        PROVE  PoolInv'
    BY <2>1, BeginInv, ReuseInv, StartStepInv, StartImpossibleInv, ReadyInv,
       NotReadyInv, FinishInv DEF WorkerFor, StartEnds
  <2>2. ASSUME NEW w \in Workers, Exit(w) \/ ReadLoop(w)
        PROVE  PoolInv'
    BY <2>2, ExitInv, LeavePoolInv DEF ReadLoop
  <2> QED
    BY <2>1, <2>2, StutterInv DEF Next
<1> QED
  BY <1>1, <1>2, PTL DEF Spec

\* The pool, its workers and what each caller knows of its own stay of their types.
THEOREM TypeCorrect == Spec => []TypeOK
<1>1. PoolInv => TypeOK
  BY DEF PoolInv
<1> QED
  BY <1>1, Invariant, PTL

\* A gamdl process nobody asked to stop is always reachable through the pool:
\* an old worker's readLoop never throws its successor out.
THEOREM NoProcessOrphaned == Spec => []NoOrphanProcess
<1>1. PoolInv => NoOrphanProcess
  BY DEF PoolInv
<1> QED
  BY <1>1, Invariant, PTL

\* However stale the cookies of concurrent downloads are, a user has at most
\* one worker that has not been told to stop.
THEOREM OneWorker == Spec => []OneWorkerPerUser
<1>1. PoolInv => OneWorkerPerUser
  <2> SUFFICES ASSUME PoolInv, NEW v \in Workers, NEW w \in Workers,
                      proc[v] \in {"starting", "ready"}, ~killed[v],
                      proc[w] \in {"starting", "ready"}, ~killed[w],
                      key[v][1] = key[w][1]
               PROVE  v = w
    BY DEF OneWorkerPerUser
  <2> USE DEF PoolInv
  <2>1. key[v] \in Keys /\ key[w] \in Keys
    BY DEF UnbornInv
  <2>2. CASE proc[v] = "starting" /\ proc[w] = "starting"
    BY <2>2 DEF StarterInv, MuInv
  <2>3. CASE proc[v] = "ready" /\ proc[w] = "ready"
    BY <2>1, <2>3, WorkerAssumption DEF NoOrphanProcess, OneEntryInv, EntryInv
  <2>4. ASSUME NEW x \in Workers, NEW y \in Workers, proc[x] = "starting",
               proc[y] = "ready", ~killed[y], key[y] \in Keys
        PROVE  key[x][1] # key[y][1]
    <3>1. PICK c \in Callers : pc[c] = "starting" /\ worker[c] = x
      BY <2>4 DEF StarterInv
    <3>2. pool[key[y]] = y
      BY <2>4 DEF NoOrphanProcess
    <3> QED
      BY <2>4, <3>1, <3>2, WorkerAssumption DEF StartInv
  <2> QED
    BY <2>1, <2>2, <2>3, <2>4
<1> QED
  BY <1>1, Invariant, PTL

\* No download ever runs in another user's session, or in one made from other
\* cookies than its own.
THEOREM SessionIsOwn == Spec => []OwnSession
<1>1. PoolInv => OwnSession
  BY DEF PoolInv
<1> QED
  BY <1>1, Invariant, PTL

=============================================================================
