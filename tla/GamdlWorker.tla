---------------------------- MODULE GamdlWorker ----------------------------
(* One gamdl worker: the goroutines inside Worker.Download, the table of     *)
(* pending requests under mu, the two pipes, the Python process behind them *)
(* (reader thread, event loop, semaphore) and readLoop, which hands replies *)
(* to the callers and clears up when the process is gone.  Everything may   *)
(* go wrong at any point: the process dies or is stopped, a deadline passes.*)
EXTENDS Naturals, Sequences, FiniteSets

CONSTANTS Callers,      \* goroutines that call Download
          NoCaller,
          Verdicts,     \* how a download can end: paths, or gamdl's error
          MaxSeq,       \* bound: requests sent to one worker
          StdinCap,     \* requests the stdin pipe holds
          StdoutCap,    \* replies the stdout pipe holds
          Concurrency   \* workerConcurrency, the semaphore of worker.py

ASSUME CallerAssumption ==
  /\ IsFiniteSet(Callers)
  /\ NoCaller \notin Callers /\ "readLoop" \notin Callers \cup {NoCaller}
ASSUME VerdictAssumption ==
  Verdicts \cap {"empty", "none", "unavailable", "deadline"} = {}
ASSUME SeqAssumption == MaxSeq \in Nat
ASSUME PipeAssumption == StdinCap \in Nat \ {0} /\ StdoutCap \in Nat \ {0}
ASSUME ConcurrencyAssumption == Concurrency \in Nat \ {0}

Ids == 1 .. MaxSeq
NoId == 0
Reader == "readLoop"

VARIABLES
  \* Download
  pc,        \* Callers -> where the call is
  id,        \* Callers -> its request id
  got,       \* Callers -> what Download returns
  \* Worker
  mu,        \* who holds w.mu
  seq,       \* w.seq
  pending,   \* ids in w.pending
  ch,        \* id -> content of its result channel (capacity one)
  done,      \* w.done is closed
  \* readLoop
  rpc,       \* where the goroutine is
  msg,       \* the reply it holds
  \* pipes: ids of requests, and replies
  stdin, stdinOpen, stdout,
  \* worker.py
  alive,     \* the process runs
  killed,    \* stop() was called
  queued,    \* ids read and waiting for the semaphore
  running,   \* ids inside the semaphore
  loop,      \* id whose reply the event loop is writing
  verdict    \* id -> how its download ended

callerVars == <<pc, id, got>>
workerVars == <<mu, seq, pending, ch, done>>
readerVars == <<rpc, msg>>
pythonVars == <<alive, killed, queued, running, loop, verdict>>
vars == <<callerVars, workerVars, readerVars, stdin, stdinOpen, stdout, pythonVars>>

CallerStages == {"idle", "lock", "write", "select", "forget", "returned"}
ReaderStages == {"read", "lookup", "send", "wait", "close", "lock", "drain", "gone"}
Outcomes     == Verdicts \cup {"unavailable", "deadline"}
Replies      == [id : Ids, res : Verdicts]
NoReply      == [id |-> NoId, res |-> "none"]

TypeOK ==
  /\ pc \in [Callers -> CallerStages]
  /\ id \in [Callers -> Ids \cup {NoId}]
  /\ got \in [Callers -> Outcomes \cup {"none"}]
  /\ mu \in Callers \cup {NoCaller, Reader}
  /\ seq \in 0 .. MaxSeq
  /\ pending \in SUBSET Ids
  /\ ch \in [Ids -> Verdicts \cup {"empty", "unavailable"}]
  /\ done \in BOOLEAN
  /\ rpc \in ReaderStages
  /\ msg \in Replies \cup {NoReply}
  /\ stdin \in Seq(Ids) /\ Len(stdin) <= StdinCap
  /\ stdout \in Seq(Replies) /\ Len(stdout) <= StdoutCap
  /\ stdinOpen \in BOOLEAN /\ alive \in BOOLEAN /\ killed \in BOOLEAN
  /\ queued \in SUBSET Ids /\ running \in SUBSET Ids
  /\ loop \in Ids \cup {NoId}
  /\ verdict \in [Ids -> Verdicts \cup {"none"}]

\* startWorkerWith has seen "ready" and started readLoop.
Init ==
  /\ pc = [c \in Callers |-> "idle"]
  /\ id = [c \in Callers |-> NoId]
  /\ got = [c \in Callers |-> "none"]
  /\ mu = NoCaller /\ seq = 0 /\ pending = {}
  /\ ch = [i \in Ids |-> "empty"] /\ done = FALSE
  /\ rpc = "read" /\ msg = NoReply
  /\ stdin = <<>> /\ stdinOpen = TRUE /\ stdout = <<>>
  /\ alive = TRUE /\ killed = FALSE
  /\ queued = {} /\ running = {} /\ loop = NoId
  /\ verdict = [i \in Ids |-> "none"]

-----------------------------------------------------------------------------
(* Worker.Download *)

Free == mu = NoCaller

Locking == {d \in Callers : pc[d] = "lock"}

ReturnWith(c, r) ==
  /\ pc' = [pc EXCEPT ![c] = "returned"]
  /\ got' = [got EXCEPT ![c] = r]

\* The alive() test, before any lock; the bound counts requests not yet made.
Download(c) ==
  /\ pc[c] = "idle"
  /\ seq + Cardinality(Locking) < MaxSeq
  /\ \/ done /\ ReturnWith(c, "unavailable")
     \/ ~done /\ pc' = [pc EXCEPT ![c] = "lock"] /\ UNCHANGED got
  /\ UNCHANGED <<id, workerVars, readerVars, stdin, stdinOpen, stdout, pythonVars>>

\* mu.Lock, a new id, its channel in the table
Register(c) ==
  /\ pc[c] = "lock" /\ Free
  /\ mu' = c
  /\ seq' = seq + 1
  /\ id' = [id EXCEPT ![c] = seq']
  /\ pending' = pending \cup {seq'}
  /\ pc' = [pc EXCEPT ![c] = "write"]
  /\ UNCHANGED <<got, ch, done, readerVars, stdin, stdinOpen, stdout, pythonVars>>

WriteFails == ~stdinOpen \/ ~alive

Mutant_WriteKeepsEntry(c) ==
  /\ pc[c] = "write"
  /\ mu' = NoCaller
  /\ \/ /\ WriteFails
        /\ ReturnWith(c, "unavailable")
        /\ UNCHANGED stdin
     \/ /\ ~WriteFails /\ Len(stdin) < StdinCap
        /\ stdin' = Append(stdin, id[c])
        /\ pc' = [pc EXCEPT ![c] = "select"]
        /\ UNCHANGED got
  /\ UNCHANGED <<id, seq, pending, ch, done, readerVars, stdinOpen, stdout, pythonVars>>

\* stdin.Write under mu: it blocks while the pipe is full, and fails once the
\* write end is closed or nobody holds the read end; then mu.Unlock
Write(c) ==
  /\ pc[c] = "write"
  /\ mu' = NoCaller
  /\ \/ /\ WriteFails
        /\ pc' = [pc EXCEPT ![c] = "forget"]
        /\ got' = [got EXCEPT ![c] = "unavailable"]
        /\ UNCHANGED stdin
     \/ /\ ~WriteFails /\ Len(stdin) < StdinCap
        /\ stdin' = Append(stdin, id[c])
        /\ pc' = [pc EXCEPT ![c] = "select"]
        /\ UNCHANGED got
  /\ UNCHANGED <<id, seq, pending, ch, done, readerVars, stdinOpen, stdout, pythonVars>>

\* The select: any case that is ready may be taken, also when the result is.
SelectResult(c) ==
  /\ pc[c] = "select" /\ ch[id[c]] # "empty"
  /\ ReturnWith(c, ch[id[c]])
  /\ ch' = [ch EXCEPT ![id[c]] = "empty"]
  /\ UNCHANGED <<id, mu, seq, pending, done, readerVars, stdin, stdinOpen, stdout, pythonVars>>

SelectDone(c) ==
  /\ pc[c] = "select" /\ done
  /\ ReturnWith(c, "unavailable")
  /\ UNCHANGED <<id, workerVars, readerVars, stdin, stdinOpen, stdout, pythonVars>>

Mutant_DeadlineIsUnavailable(c) ==
  /\ pc[c] = "select"
  /\ pc' = [pc EXCEPT ![c] = "forget"]
  /\ got' = [got EXCEPT ![c] = "unavailable"]
  /\ UNCHANGED <<id, workerVars, readerVars, stdin, stdinOpen, stdout, pythonVars>>

SelectDeadline(c) ==
  /\ pc[c] = "select"
  /\ pc' = [pc EXCEPT ![c] = "forget"]
  /\ got' = [got EXCEPT ![c] = "deadline"]
  /\ UNCHANGED <<id, workerVars, readerVars, stdin, stdinOpen, stdout, pythonVars>>

\* forget: lock, delete, unlock, and Download returns
Forget(c) ==
  /\ pc[c] = "forget" /\ Free
  /\ pending' = pending \ {id[c]}
  /\ pc' = [pc EXCEPT ![c] = "returned"]
  /\ UNCHANGED <<id, got, mu, seq, ch, done, readerVars, stdin, stdinOpen, stdout, pythonVars>>

\* downloadViaWorker is over; the goroutine may come back with another song.
Leave(c) ==
  /\ pc[c] = "returned"
  /\ pc' = [pc EXCEPT ![c] = "idle"]
  /\ id' = [id EXCEPT ![c] = NoId]
  /\ got' = [got EXCEPT ![c] = "none"]
  /\ UNCHANGED <<workerVars, readerVars, stdin, stdinOpen, stdout, pythonVars>>

-----------------------------------------------------------------------------
(* readLoop *)

ReadLine ==
  /\ rpc = "read"
  /\ \/ /\ stdout # <<>>
        /\ msg' = Head(stdout) /\ stdout' = Tail(stdout)
        /\ rpc' = "lookup"
     \/ /\ stdout = <<>> /\ ~alive
        /\ rpc' = "wait"
        /\ UNCHANGED <<msg, stdout>>
  /\ UNCHANGED <<callerVars, workerVars, stdin, stdinOpen, pythonVars>>

Mutant_LookupKeepsEntry ==
  /\ rpc = "lookup" /\ Free
  /\ \/ /\ msg.id \in pending
        /\ rpc' = "send" /\ UNCHANGED msg
     \/ /\ msg.id \notin pending
        /\ rpc' = "read" /\ msg' = NoReply
  /\ UNCHANGED <<callerVars, workerVars, stdin, stdinOpen, stdout, pythonVars>>

Mutant_LookupOldest ==
  /\ rpc = "lookup" /\ Free
  /\ \/ /\ pending # {}
        /\ msg' = [msg EXCEPT !.id = CHOOSE i \in pending : \A j \in pending : i <= j]
        /\ pending' = pending \ {msg'.id}
        /\ rpc' = "send"
     \/ /\ pending = {}
        /\ rpc' = "read" /\ msg' = NoReply
        /\ UNCHANGED pending
  /\ UNCHANGED <<callerVars, mu, seq, ch, done, stdin, stdinOpen, stdout, pythonVars>>

\* under mu: the channel of the reply's id is taken out of the table; a reply
\* that nobody waits for any more is dropped
Lookup ==
  /\ rpc = "lookup" /\ Free
  /\ \/ /\ msg.id \in pending
        /\ pending' = pending \ {msg.id}
        /\ rpc' = "send" /\ UNCHANGED msg
     \/ /\ msg.id \notin pending
        /\ rpc' = "read" /\ msg' = NoReply
        /\ UNCHANGED pending
  /\ UNCHANGED <<callerVars, mu, seq, ch, done, stdin, stdinOpen, stdout, pythonVars>>

\* ch <- res, after mu is released
Send ==
  /\ rpc = "send" /\ ch[msg.id] = "empty"
  /\ ch' = [ch EXCEPT ![msg.id] = msg.res]
  /\ rpc' = "read" /\ msg' = NoReply
  /\ UNCHANGED <<callerVars, mu, seq, pending, done, stdin, stdinOpen, stdout, pythonVars>>

\* cmd.Wait reaps the process and closes the parent's end of stdin.
Wait ==
  /\ rpc = "wait"
  /\ stdinOpen' = FALSE
  /\ rpc' = "close"
  /\ UNCHANGED <<callerVars, workerVars, msg, stdin, stdout, pythonVars>>

CloseDone ==
  /\ rpc = "close"
  /\ done' = TRUE
  /\ rpc' = "lock"
  /\ UNCHANGED <<callerVars, mu, seq, pending, ch, msg, stdin, stdinOpen, stdout, pythonVars>>

DrainLock ==
  /\ rpc = "lock" /\ Free
  /\ mu' = Reader
  /\ rpc' = "drain"
  /\ UNCHANGED <<callerVars, seq, pending, ch, done, msg, stdin, stdinOpen, stdout, pythonVars>>

\* delete and send, holding mu: the send must find the channel empty
DrainOne(i) ==
  /\ rpc = "drain" /\ i \in pending /\ ch[i] = "empty"
  /\ pending' = pending \ {i}
  /\ ch' = [ch EXCEPT ![i] = "unavailable"]
  /\ UNCHANGED <<callerVars, mu, seq, done, readerVars, stdin, stdinOpen, stdout, pythonVars>>

\* mu is released; what follows concerns the pool only (WorkerPool).
DrainUnlock ==
  /\ rpc = "drain" /\ pending = {}
  /\ mu' = NoCaller
  /\ rpc' = "gone"
  /\ UNCHANGED <<callerVars, seq, pending, ch, done, msg, stdin, stdinOpen, stdout, pythonVars>>

ReadLoop ==
  \/ ReadLine \/ Lookup \/ Send \/ Wait \/ CloseDone
  \/ DrainLock \/ DrainUnlock
  \/ \E i \in Ids : DrainOne(i)

-----------------------------------------------------------------------------
(* worker.py *)

LoopFree == alive /\ loop = NoId

\* The reader thread empties stdin whatever the event loop does.
PyRead ==
  /\ alive /\ stdin # <<>>
  /\ queued' = queued \cup {Head(stdin)}
  /\ stdin' = Tail(stdin)
  /\ UNCHANGED <<callerVars, workerVars, readerVars, stdinOpen, stdout,
                 alive, killed, running, loop, verdict>>

\* a task enters the semaphore
PyStart(i) ==
  /\ LoopFree /\ i \in queued
  /\ Cardinality(running) < Concurrency
  /\ queued' = queued \ {i} /\ running' = running \cup {i}
  /\ UNCHANGED <<callerVars, workerVars, readerVars, stdin, stdinOpen, stdout,
                 alive, killed, loop, verdict>>

\* the download of i is over and the event loop enters reply()
PyFinish(i) ==
  /\ LoopFree /\ i \in running
  /\ loop' = i
  /\ \E v \in Verdicts : verdict' = [verdict EXCEPT ![i] = v]
  /\ UNCHANGED <<callerVars, workerVars, readerVars, stdin, stdinOpen, stdout,
                 alive, killed, queued, running>>

\* out.write and flush: the whole event loop waits while the pipe is full
PyFlush ==
  /\ alive /\ loop # NoId /\ Len(stdout) < StdoutCap
  /\ stdout' = Append(stdout, [id |-> loop, res |-> verdict[loop]])
  /\ running' = running \ {loop}
  /\ loop' = NoId
  /\ UNCHANGED <<callerVars, workerVars, readerVars, stdin, stdinOpen,
                 alive, killed, queued, verdict>>

Gone ==
  /\ alive' = FALSE
  /\ stdin' = <<>> /\ queued' = {} /\ running' = {} /\ loop' = NoId
  /\ UNCHANGED <<callerVars, workerVars, readerVars, stdinOpen, stdout, killed, verdict>>

\* End of stdin: main leaves its loop and gathers the tasks.
PyExit ==
  /\ LoopFree /\ ~stdinOpen /\ stdin = <<>> /\ queued = {} /\ running = {}
  /\ Gone

\* The process crashes or the kill arrives; replies in the pipe stay readable.
PyDie == alive /\ Gone

\* stop(), called by WorkerFor when it replaces the worker
Stop ==
  /\ ~killed
  /\ killed' = TRUE /\ stdinOpen' = FALSE
  /\ UNCHANGED <<callerVars, workerVars, readerVars, stdin, stdout,
                 alive, queued, running, loop, verdict>>

EventLoop == PyFlush \/ PyExit \/ \E i \in Ids : PyStart(i) \/ PyFinish(i)
-----------------------------------------------------------------------------
\* What a caller's goroutine does by itself, the deadline apart.
CallerStep(c) ==
  \/ Register(c) \/ Write(c) \/ SelectResult(c) \/ SelectDone(c) \/ Forget(c)

Next ==
  \/ \E c \in Callers :
        Download(c) \/ CallerStep(c) \/ SelectDeadline(c) \/ Leave(c)
  \/ ReadLoop
  \/ PyRead
  \/ EventLoop
  \/ PyDie
  \/ Stop

Spec == Init /\ [][Next]_vars

\* Runnable goroutines run, and sync.Mutex starves nobody (its starvation mode);
\* the Python thread and the event loop run, downloads end, and a killed process
\* dies.  Nothing is assumed of the deadline: it need not save anyone.
Fairness ==
  /\ \A c \in Callers : SF_vars(CallerStep(c))
  /\ SF_vars(ReadLoop)
  /\ WF_vars(PyRead) /\ WF_vars(EventLoop)
  /\ WF_vars(killed /\ PyDie)

FairSpec == Spec /\ Fairness
-----------------------------------------------------------------------------
(* Properties *)

\* A send on a result channel never blocks: readLoop would stop reading, or
\* keep mu for ever while it drains, and with it every Download.
SendNeverBlocks ==
  /\ rpc = "send" => ch[msg.id] = "empty"
  /\ \A i \in pending : ch[i] = "empty"

\* Replies come back out of order and late; what Download returns is how its
\* own request ended, or that nobody knows.
RightAnswer ==
  \A c \in Callers :
    pc[c] = "returned" /\ got[c] \in Verdicts => got[c] = verdict[id[c]]

\* Two calls in progress never share a request id.
IdsUnique ==
  \A c, d \in Callers : id[c] = id[d] /\ id[c] # NoId => c = d

\* When readLoop is gone nothing is left in the table but entries of calls that
\* are about to take theirs out: nobody waits on a channel no one will fill.
NoOrphanEntry ==
  rpc = "gone" =>
    \A i \in pending :
      \E c \in Callers : id[c] = i /\ pc[c] \in {"write", "forget"}

\* Every Download returns: no cycle of full pipes, mu and readLoop holds it up,
\* the process dying at any point included.
EveryDownloadReturns ==
  \A c \in Callers : pc[c] = "lock" ~> pc[c] = "returned"

\* Once the process is gone readLoop clears up and ends.
DeadWorkerCleared == ~alive ~> rpc = "gone"
-----------------------------------------------------------------------------
(* Refinement of WorkerCalls *)

InSeq(q, i) == \E k \in 1 .. Len(q) : q[k] = i

\* Where a request can be before its download has ended.
Travelling(i) == InSeq(stdin, i) \/ i \in queued \/ (i \in running /\ i # loop)

AbsStatus == IF ~alive THEN "gone" ELSE IF killed THEN "stopping" ELSE "serving"

AbsAccepted == {i \in Ids : Travelling(i) \/ verdict[i] # "none"}

\* forget only tidies up: what Download returns is settled before.
Stage(p) ==
  CASE p \in {"idle", "lock"}       -> "idle"
    [] p \in {"write", "select"}    -> "asked"
    [] p \in {"forget", "returned"} -> "answered"

AbsState == [c \in Callers |-> Stage(pc[c])]

Calls == INSTANCE WorkerCalls WITH
  Requests <- Ids, NoRequest <- NoId, Results <- Verdicts,
  status <- AbsStatus, used <- 1 .. seq, accepted <- AbsAccepted,
  outcome <- verdict, state <- AbsState, request <- id, answer <- got

\* A worker keeps its promise to the calls: replies out of order, deadlines, a
\* full pipe, stop and a death at any point never make it run a request twice,
\* answer a call with another's result, or say "unavailable" (on which
\* downloadSong starts the command line, download.go:72) of a
\* request it runs or may still run.
CallSpec == Calls!Spec
-----------------------------------------------------------------------------
(* The invariant the proofs need *)

BoundInv == seq + Cardinality(Locking) <= MaxSeq

\* mu is held by the Download that writes, or by readLoop while it drains.
MuInv ==
  /\ \A c \in Callers : pc[c] = "write" <=> mu = c
  /\ rpc = "drain" <=> mu = Reader

IdInv ==
  \A c \in Callers :
    /\ id[c] <= seq
    /\ pc[c] \in {"write", "select", "forget"} => id[c] # NoId
    /\ pc[c] \in {"idle", "lock"} => id[c] = NoId
    /\ pc[c] = "forget" => got[c] \in {"unavailable", "deadline"}

\* An id beyond seq is nowhere yet.
FreshInv ==
  \A i \in Ids : i > seq =>
    /\ ch[i] = "empty" /\ verdict[i] = "none"
    /\ i \notin pending /\ ~Travelling(i)

\* A request is written once, so it is in one place at a time and its download
\* is run once.
OnceInv ==
  /\ \A j, k \in 1 .. Len(stdin) : stdin[j] = stdin[k] => j = k
  /\ \A i \in queued : ~InSeq(stdin, i) /\ i \notin running
  /\ \A i \in running : ~InSeq(stdin, i)
  /\ \A i \in Ids : Travelling(i) => verdict[i] = "none"
  /\ loop # NoId => loop \in running /\ verdict[loop] \in Verdicts
  /\ \A c \in Callers :
       pc[c] = "write" => ~Travelling(id[c]) /\ verdict[id[c]] = "none"

\* A reply on its way says how the download of its id ended.
ReplyInv ==
  /\ \A k \in 1 .. Len(stdout) : stdout[k].res = verdict[stdout[k].id]
  /\ rpc \in {"lookup", "send"} => msg \in Replies /\ msg.res = verdict[msg.id]
  /\ \A i \in Ids : ch[i] \in Verdicts => ch[i] = verdict[i]

\* The reply in readLoop's hand has left the table.
TakenInv == rpc = "send" => msg.id \notin pending /\ msg.id <= seq

ClosedInv == rpc \in {"close", "lock", "drain", "gone"} => ~stdinOpen

\* readLoop clears up only after the death; until then nobody is told of one.
HonestInv ==
  /\ rpc \in {"wait", "close", "lock", "drain", "gone"} => ~alive
  /\ ~stdinOpen => ~alive \/ killed
  /\ done => rpc \in {"lock", "drain", "gone"}
  /\ \A i \in Ids : ch[i] = "unavailable" => rpc \in {"drain", "gone"}

WorkerInv ==
  /\ TypeOK /\ BoundInv /\ MuInv /\ IdInv /\ IdsUnique
  /\ FreshInv /\ OnceInv /\ ReplyInv /\ TakenInv /\ ClosedInv
  /\ SendNeverBlocks /\ RightAnswer /\ NoOrphanEntry
=============================================================================
