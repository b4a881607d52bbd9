------------------------- MODULE GamdlWorkerProofs -------------------------
(* For any number of callers, requests, pipe sizes and any semaphore:        *)
(* WorkerInv is an invariant of GamdlWorker.  With it no send on a result    *)
(* channel ever blocks, no reply reaches the wrong caller and no entry of    *)
(* the table is left without an owner.                                       *)
EXTENDS GamdlWorker, FiniteSetTheorems, TLAPS

USE DEF NoId, Reader, NoReply, Free

(* What the pipes do to the requests and replies in them *)

LEMMA AppendFacts ==
  ASSUME NEW S, NEW q \in Seq(S), NEW e \in S
  PROVE  /\ Append(q, e) \in Seq(S) /\ Len(Append(q, e)) = Len(q) + 1
         /\ \A k \in 1 .. Len(q) : Append(q, e)[k] = q[k]
         /\ Append(q, e)[Len(q) + 1] = e
OBVIOUS

LEMMA TailFacts ==
  ASSUME NEW S, NEW q \in Seq(S), q # <<>>
  PROVE  /\ Head(q) \in S /\ Head(q) = q[1]
         /\ Len(q) \in Nat /\ Len(q) >= 1
         /\ Tail(q) \in Seq(S) /\ Len(Tail(q)) = Len(q) - 1
         /\ \A k \in 1 .. Len(q) - 1 : Tail(q)[k] = q[k + 1]
OBVIOUS

LEMMA InAppend ==
  ASSUME NEW S, NEW q \in Seq(S), NEW e \in S, NEW i, InSeq(Append(q, e), i)
  PROVE  InSeq(q, i) \/ i = e
<1>1. PICK k \in 1 .. Len(Append(q, e)) : Append(q, e)[k] = i
  BY DEF InSeq
<1> QED
  BY <1>1, AppendFacts DEF InSeq

LEMMA InTail ==
  ASSUME NEW S, NEW q \in Seq(S), q # <<>>, NEW i, InSeq(Tail(q), i)
  PROVE  InSeq(q, i)
<1>1. PICK k \in 1 .. Len(Tail(q)) : Tail(q)[k] = i
  BY DEF InSeq
<1>2. k + 1 \in 1 .. Len(q) /\ q[k + 1] = i
  BY <1>1, TailFacts
<1> QED
  BY <1>2 DEF InSeq

LEMMA AppendHolds ==
  ASSUME NEW S, NEW q \in Seq(S), NEW e \in S
  PROVE  \A i : InSeq(Append(q, e), i) <=> InSeq(q, i) \/ i = e
<1>1. ASSUME NEW i, InSeq(q, i) PROVE InSeq(Append(q, e), i)
  <2>1. PICK k \in 1 .. Len(q) : q[k] = i
    BY <1>1 DEF InSeq
  <2>2. k \in 1 .. Len(Append(q, e)) /\ Append(q, e)[k] = i
    BY <2>1, AppendFacts
  <2> QED
    BY <2>2 DEF InSeq
<1>2. InSeq(Append(q, e), e)
  <2>1. Len(q) + 1 \in 1 .. Len(Append(q, e)) /\ Append(q, e)[Len(q) + 1] = e
    BY AppendFacts
  <2> QED
    BY <2>1 DEF InSeq
<1> QED
  BY <1>1, <1>2, InAppend

LEMMA TailHolds ==
  ASSUME NEW S, NEW q \in Seq(S), q # <<>>
  PROVE  \A i : InSeq(q, i) <=> i = Head(q) \/ InSeq(Tail(q), i)
<1>1. ASSUME NEW i, InSeq(q, i), i # Head(q) PROVE InSeq(Tail(q), i)
  <2>1. PICK k \in 1 .. Len(q) : q[k] = i
    BY <1>1 DEF InSeq
  <2>2. k # 1
    BY <1>1, <2>1, TailFacts
  <2>3. k - 1 \in 1 .. Len(Tail(q)) /\ Tail(q)[k - 1] = i
    BY <2>1, <2>2, TailFacts
  <2> QED
    BY <2>3 DEF InSeq
<1>2. InSeq(q, Head(q))
  <2>1. 1 \in 1 .. Len(q) /\ q[1] = Head(q)
    BY TailFacts
  <2> QED
    BY <2>1 DEF InSeq
<1> QED
  BY <1>1, <1>2, InTail

(* The bound: callers past alive() have an id reserved for them. *)

LEMMA LockingFinite == IsFiniteSet(Locking) /\ Cardinality(Locking) \in Nat
<1>1. Locking \subseteq Callers
  BY DEF Locking
<1> QED
  BY <1>1, CallerAssumption, FS_Subset, FS_CardinalityType

LEMMA EnterLocking ==
  ASSUME TypeOK, NEW c \in Callers, pc[c] # "lock", pc' = [pc EXCEPT ![c] = "lock"]
  PROVE  Cardinality(Locking') = Cardinality(Locking) + 1
<1>1. Locking' = Locking \cup {c} /\ c \notin Locking
  BY DEF Locking, TypeOK
<1> QED
  BY <1>1, LockingFinite, FS_AddElement

LEMMA LeaveLocking ==
  ASSUME TypeOK, NEW c \in Callers, pc[c] = "lock", pc' = [pc EXCEPT ![c] = "write"]
  PROVE  /\ Cardinality(Locking') = Cardinality(Locking) - 1
         /\ Cardinality(Locking) >= 1
<1>1. Locking' = Locking \ {c} /\ c \in Locking
  BY DEF Locking, TypeOK
<1>2. Cardinality(Locking') = Cardinality(Locking) - 1
  BY <1>1, LockingFinite, FS_RemoveElement
<1>3. Cardinality(Locking) # 0
  BY <1>1, LockingFinite, FS_EmptySet
<1> QED
  BY <1>2, <1>3, LockingFinite

LEMMA SameLocking ==
  ASSUME TypeOK, NEW c \in Callers, pc[c] # "lock",
         NEW stage, stage # "lock", pc' = [pc EXCEPT ![c] = stage]
  PROVE  Locking' = Locking
BY DEF Locking, TypeOK

-----------------------------------------------------------------------------
(* The initial states *)

LEMMA InitInv == ASSUME Init PROVE WorkerInv
<1>1. TypeOK
  <2>1. stdin \in Seq(Ids) /\ Len(stdin) <= StdinCap
    BY PipeAssumption DEF Init
  <2>2. stdout \in Seq(Replies) /\ Len(stdout) <= StdoutCap
    BY PipeAssumption DEF Init
  <2> QED
    <3>1. /\ pc \in [Callers -> CallerStages] /\ id \in [Callers -> Ids \cup {NoId}]
          /\ got \in [Callers -> Outcomes \cup {"none"}]
      BY DEF Init, CallerStages
    <3>2. /\ ch \in [Ids -> Verdicts \cup {"empty", "unavailable"}]
          /\ verdict \in [Ids -> Verdicts \cup {"none"}]
      BY DEF Init
    <3>3. mu \in Callers \cup {NoCaller, Reader} /\ seq \in 0 .. MaxSeq
      BY SeqAssumption DEF Init
    <3>4. /\ pending \in SUBSET Ids /\ queued \in SUBSET Ids /\ running \in SUBSET Ids
          /\ done \in BOOLEAN /\ stdinOpen \in BOOLEAN /\ alive \in BOOLEAN /\ killed \in BOOLEAN
          /\ rpc \in ReaderStages /\ msg \in Replies \cup {NoReply} /\ loop \in Ids \cup {NoId}
      BY DEF Init, ReaderStages
    <3> QED
      BY <2>1, <2>2, <3>1, <3>2, <3>3, <3>4 DEF TypeOK
<1>2. BoundInv
  <2>1. Locking = {}
    BY DEF Init, Locking
  <2> QED
    BY <2>1, FS_EmptySet, SeqAssumption DEF Init, BoundInv
<1>3. MuInv /\ IdInv /\ IdsUnique
  BY CallerAssumption DEF Init, MuInv, IdInv, IdsUnique
<1>4. FreshInv /\ OnceInv
  BY DEF Init, FreshInv, OnceInv, Travelling, InSeq
<1>5. ReplyInv /\ TakenInv /\ ClosedInv
  BY VerdictAssumption DEF Init, ReplyInv, TakenInv, ClosedInv
<1>6. SendNeverBlocks /\ RightAnswer /\ NoOrphanEntry
  BY DEF Init, SendNeverBlocks, RightAnswer, NoOrphanEntry
<1> QED
  BY <1>1, <1>2, <1>3, <1>4, <1>5, <1>6 DEF WorkerInv

-----------------------------------------------------------------------------
(* Worker.Download *)

LEMMA DownloadInv ==
  ASSUME WorkerInv, NEW c \in Callers, Download(c) PROVE WorkerInv'
<1>1. TypeOK'
  BY SeqAssumption DEF WorkerInv, TypeOK, CallerStages, ReaderStages, Outcomes, Download, ReturnWith, workerVars, readerVars, pythonVars
<1>2. BoundInv'
  <2>1. CASE done
    BY <2>1, SameLocking DEF WorkerInv, BoundInv, Download, ReturnWith, workerVars
  <2>2. CASE ~done
    BY <2>2, EnterLocking, LockingFinite, SeqAssumption
    DEF WorkerInv, TypeOK, BoundInv, Download, workerVars
  <2> QED
    BY <2>1, <2>2
<1>3. MuInv' /\ IdInv' /\ IdsUnique'
  BY CallerAssumption DEF WorkerInv, TypeOK, MuInv, IdInv, IdsUnique, Download, ReturnWith, workerVars, readerVars, pythonVars
<1>4. FreshInv'
  BY DEF WorkerInv, TypeOK, FreshInv, IdInv, Travelling, InSeq, Download, ReturnWith, workerVars, readerVars, pythonVars
<1>5. OnceInv'
  BY DEF WorkerInv, TypeOK, OnceInv, Travelling, InSeq, Download, ReturnWith, workerVars, readerVars, pythonVars
<1>6. ReplyInv' /\ TakenInv' /\ ClosedInv'
  BY VerdictAssumption DEF WorkerInv, TypeOK, ReplyInv, TakenInv, ClosedInv, Download, ReturnWith, workerVars, readerVars, pythonVars
<1>7. SendNeverBlocks' /\ RightAnswer' /\ NoOrphanEntry'
  BY VerdictAssumption DEF WorkerInv, TypeOK, SendNeverBlocks, RightAnswer, NoOrphanEntry, IdInv, IdsUnique, Download, ReturnWith, workerVars, readerVars, pythonVars
<1> QED
  BY <1>1, <1>2, <1>3, <1>4, <1>5, <1>6, <1>7 DEF WorkerInv

LEMMA RegisterInv ==
  ASSUME WorkerInv, NEW c \in Callers, Register(c) PROVE WorkerInv'
<1>0. /\ seq \in Nat /\ seq' = seq + 1 /\ seq' \in Ids /\ seq' \in 0 .. MaxSeq
      /\ seq' \notin pending
      /\ Cardinality(Locking') = Cardinality(Locking) - 1
      /\ ch[seq'] = "empty" /\ verdict[seq'] = "none" /\ ~Travelling(seq')
  <2>1. /\ Cardinality(Locking') = Cardinality(Locking) - 1
        /\ Cardinality(Locking) >= 1
    BY LeaveLocking DEF WorkerInv, Register
  <2>2. seq \in Nat /\ seq' = seq + 1 /\ seq' \in Ids
    BY <2>1, LockingFinite, SeqAssumption DEF WorkerInv, TypeOK, BoundInv, Register, Ids
  <2> QED
    BY <2>1, <2>2, SeqAssumption DEF WorkerInv, FreshInv, Ids
<1>1. TypeOK'
  BY <1>0 DEF WorkerInv, TypeOK, CallerStages, Register, readerVars, pythonVars
<1>2. BoundInv'
  BY <1>0, LockingFinite, SeqAssumption DEF WorkerInv, BoundInv
<1>3. MuInv' /\ IdInv' /\ IdsUnique'
  <2>1. \A d \in Callers : id[d] \in Ids \cup {NoId} /\ id[d] <= seq /\ id[d] # seq'
    BY <1>0 DEF WorkerInv, TypeOK, IdInv, Ids
  <2>2. id' = [id EXCEPT ![c] = seq'] /\ pc' = [pc EXCEPT ![c] = "write"] /\ UNCHANGED got
    BY DEF Register
  <2>3. MuInv'
    BY <2>2, CallerAssumption DEF WorkerInv, TypeOK, MuInv, Register, readerVars
  <2>4. IdInv'
    BY <1>0, <2>1, <2>2 DEF WorkerInv, TypeOK, IdInv, Ids
  <2>5. IdsUnique'
    BY <1>0, <2>1, <2>2 DEF WorkerInv, TypeOK, IdsUnique
  <2> QED
    BY <2>3, <2>4, <2>5
<1>4. FreshInv'
  <2>1. \A i \in Ids : i > seq' => i > seq /\ i # seq'
    BY <1>0 DEF Ids
  <2> QED
    BY <2>1 DEF WorkerInv, FreshInv, Travelling, InSeq, Register, pythonVars
<1>5. OnceInv'
  <2>1. \A d \in Callers : pc'[d] = "write" => ~Travelling(id'[d]) /\ verdict[id'[d]] = "none"
    BY <1>0 DEF WorkerInv, TypeOK, OnceInv, Register
  <2> QED
    BY <2>1 DEF WorkerInv, OnceInv, Travelling, InSeq, Register, pythonVars
<1>6. ReplyInv' /\ TakenInv' /\ ClosedInv'
  <2>1. rpc = "send" => msg.id \notin pending' /\ msg.id <= seq'
    <3>1. rpc = "send" => msg.id \in Ids
      BY DEF WorkerInv, ReplyInv, Replies
    <3> QED
      BY <1>0, <3>1 DEF WorkerInv, TakenInv, Register, Ids
  <2> QED
    BY <2>1 DEF WorkerInv, ReplyInv, TakenInv, ClosedInv, Register, readerVars, pythonVars
<1>7. SendNeverBlocks' /\ RightAnswer' /\ NoOrphanEntry'
  <2>1. SendNeverBlocks'
    BY <1>0 DEF WorkerInv, SendNeverBlocks, Register, readerVars
  <2>2. RightAnswer'
    BY <1>0 DEF WorkerInv, TypeOK, RightAnswer, Register, pythonVars
  <2>3. NoOrphanEntry'
    <3>1. id'[c] = seq' /\ pc'[c] = "write"
      BY DEF WorkerInv, TypeOK, Register
    <3>2. \A d \in Callers : d # c => id'[d] = id[d] /\ pc'[d] = pc[d]
      BY DEF WorkerInv, TypeOK, Register
    <3> QED
      BY <3>1, <3>2 DEF WorkerInv, NoOrphanEntry, Register, readerVars
  <2> QED
    BY <2>1, <2>2, <2>3
<1> QED
  BY <1>1, <1>2, <1>3, <1>4, <1>5, <1>6, <1>7 DEF WorkerInv

LEMMA WriteInv ==
  ASSUME WorkerInv, NEW c \in Callers, Write(c) PROVE WorkerInv'
<1>0. id[c] \in Ids /\ rpc # "drain"
  BY CallerAssumption DEF WorkerInv, TypeOK, IdInv, MuInv, Write
<1>1. TypeOK'
  <2>1. stdin' \in Seq(Ids) /\ Len(stdin') <= StdinCap
    <3>1. stdin' = stdin \/ (Len(stdin) < StdinCap /\ stdin' = Append(stdin, id[c]))
      BY DEF Write
    <3>2. stdin \in Seq(Ids) /\ Len(stdin) <= StdinCap /\ StdinCap \in Nat
      BY PipeAssumption DEF WorkerInv, TypeOK
    <3>3. Append(stdin, id[c]) \in Seq(Ids) /\ Len(Append(stdin, id[c])) = Len(stdin) + 1
      BY <1>0, <3>2, AppendFacts
    <3> QED
      BY <3>1, <3>2, <3>3
  <2> QED
    BY <2>1 DEF WorkerInv, TypeOK, CallerStages, Outcomes, Write, readerVars, pythonVars
<1>2. BoundInv'
  <2>1. Locking' = Locking
    BY SameLocking DEF WorkerInv, Write
  <2> QED
    BY <2>1 DEF WorkerInv, BoundInv, Write
<1>3. MuInv' /\ IdInv' /\ IdsUnique'
  BY CallerAssumption DEF WorkerInv, TypeOK, MuInv, IdInv, IdsUnique, Write, WriteFails, readerVars, pythonVars
<1>4. FreshInv'
  <2>1. \A i \in Ids : i > seq => ~InSeq(stdin', i)
    <3>1. CASE UNCHANGED stdin
      BY <3>1 DEF WorkerInv, FreshInv, Travelling, InSeq
    <3>2. CASE stdin' = Append(stdin, id[c])
      <4>1. ~(id[c] > seq)
        BY <1>0 DEF WorkerInv, TypeOK, IdInv, Ids
      <4> QED
        BY <1>0, <3>2, <4>1, InAppend DEF WorkerInv, TypeOK, FreshInv, Travelling
    <3> QED
      BY <3>1, <3>2 DEF Write
  <2> QED
    BY <2>1 DEF WorkerInv, FreshInv, Travelling, Write, pythonVars
<1>5. OnceInv'
  <2>1. CASE UNCHANGED stdin
    BY <2>1 DEF WorkerInv, TypeOK, OnceInv, Travelling, InSeq, Write, pythonVars
  <2>2. CASE stdin' = Append(stdin, id[c])
    <3>1. ~Travelling(id[c]) /\ verdict[id[c]] = "none"
      BY DEF WorkerInv, OnceInv, Write
    <3>2. \A i : InSeq(stdin', i) => InSeq(stdin, i) \/ i = id[c]
      BY <1>0, <2>2, InAppend DEF WorkerInv, TypeOK
    <3>3. \A j, k \in 1 .. Len(stdin') : stdin'[j] = stdin'[k] => j = k
      <4>1. \A j \in 1 .. Len(stdin) : stdin[j] # id[c]
        BY <3>1 DEF Travelling, InSeq
      <4>2. Len(stdin) \in Nat
        BY DEF WorkerInv, TypeOK
      <4> QED
        BY <1>0, <2>2, <4>1, <4>2, AppendFacts DEF WorkerInv, TypeOK, OnceInv
    <3>4. loop # id[c] /\ id[c] \notin running
      BY <1>0, <3>1, VerdictAssumption DEF WorkerInv, TypeOK, OnceInv, Travelling, Ids
    <3>5. \A d \in Callers : pc'[d] # "write"
      BY DEF WorkerInv, TypeOK, MuInv, Write
    <3> QED
      BY <3>1, <3>2, <3>3, <3>4, <3>5 DEF WorkerInv, OnceInv, Travelling, Write, pythonVars
  <2> QED
    BY <2>1, <2>2 DEF Write
<1>6. ReplyInv' /\ TakenInv' /\ ClosedInv'
  BY VerdictAssumption DEF WorkerInv, TypeOK, ReplyInv, TakenInv, ClosedInv, Write, WriteFails, readerVars, pythonVars
<1>7. SendNeverBlocks' /\ RightAnswer' /\ NoOrphanEntry'
  <2>1. SendNeverBlocks'
    BY DEF WorkerInv, SendNeverBlocks, Write, readerVars
  <2>2. RightAnswer'
    BY DEF WorkerInv, TypeOK, RightAnswer, Write, pythonVars
  <2>3. NoOrphanEntry'
    <3>1. rpc = "gone" => pc' = [pc EXCEPT ![c] = "forget"]
      BY DEF WorkerInv, ClosedInv, Write, WriteFails
    <3> QED
      BY <3>1 DEF WorkerInv, TypeOK, NoOrphanEntry, Write, readerVars
  <2> QED
    BY <2>1, <2>2, <2>3
<1> QED
  BY <1>1, <1>2, <1>3, <1>4, <1>5, <1>6, <1>7 DEF WorkerInv

LEMMA SelectResultInv ==
  ASSUME WorkerInv, NEW c \in Callers, SelectResult(c) PROVE WorkerInv'
<1>0. id[c] \in Ids /\ id[c] <= seq /\ ch[id[c]] \in Outcomes
  BY DEF WorkerInv, TypeOK, IdInv, SelectResult, Outcomes
<1>1. TypeOK'
  BY <1>0 DEF WorkerInv, TypeOK, CallerStages, Outcomes, SelectResult, ReturnWith, readerVars, pythonVars
<1>2. BoundInv'
  BY DEF WorkerInv, BoundInv, Locking, SelectResult, ReturnWith, readerVars, pythonVars
<1>3. MuInv' /\ IdInv' /\ IdsUnique'
  BY CallerAssumption DEF WorkerInv, TypeOK, MuInv, IdInv, IdsUnique, SelectResult, ReturnWith, readerVars, pythonVars
<1>4. FreshInv'
  BY DEF WorkerInv, TypeOK, FreshInv, IdInv, Travelling, InSeq, SelectResult, ReturnWith, readerVars, pythonVars
<1>5. OnceInv'
  BY DEF WorkerInv, TypeOK, OnceInv, Travelling, InSeq, SelectResult, ReturnWith, readerVars, pythonVars
<1>6. ReplyInv' /\ TakenInv' /\ ClosedInv'
  BY VerdictAssumption DEF WorkerInv, TypeOK, ReplyInv, TakenInv, ClosedInv, SelectResult, ReturnWith, readerVars, pythonVars
<1>7. SendNeverBlocks' /\ RightAnswer' /\ NoOrphanEntry'
  <2>1. SendNeverBlocks'
    BY <1>0 DEF WorkerInv, TypeOK, SendNeverBlocks, SelectResult, readerVars
  <2>2. RightAnswer'
    <3>1. ch[id[c]] \in Verdicts => ch[id[c]] = verdict[id[c]]
      BY <1>0 DEF WorkerInv, ReplyInv
    <3> QED
      BY <3>1 DEF WorkerInv, TypeOK, RightAnswer, SelectResult, ReturnWith, pythonVars
  <2>3. NoOrphanEntry'
    BY DEF WorkerInv, TypeOK, NoOrphanEntry, SelectResult, ReturnWith, readerVars
  <2> QED
    BY <2>1, <2>2, <2>3
<1> QED
  BY <1>1, <1>2, <1>3, <1>4, <1>5, <1>6, <1>7 DEF WorkerInv

LEMMA SelectDoneInv ==
  ASSUME WorkerInv, NEW c \in Callers, SelectDone(c) PROVE WorkerInv'
<1>1. TypeOK'
  BY SeqAssumption DEF WorkerInv, TypeOK, CallerStages, ReaderStages, Outcomes, SelectDone, ReturnWith, workerVars, readerVars, pythonVars
<1>2. BoundInv'
  BY DEF WorkerInv, BoundInv, Locking, SelectDone, ReturnWith, workerVars, readerVars, pythonVars
<1>3. MuInv' /\ IdInv' /\ IdsUnique'
  BY CallerAssumption DEF WorkerInv, TypeOK, MuInv, IdInv, IdsUnique, SelectDone, ReturnWith, workerVars, readerVars, pythonVars
<1>4. FreshInv'
  BY DEF WorkerInv, TypeOK, FreshInv, IdInv, Travelling, InSeq, SelectDone, ReturnWith, workerVars, readerVars, pythonVars
<1>5. OnceInv'
  BY DEF WorkerInv, TypeOK, OnceInv, Travelling, InSeq, SelectDone, ReturnWith, workerVars, readerVars, pythonVars
<1>6. ReplyInv' /\ TakenInv' /\ ClosedInv'
  BY VerdictAssumption DEF WorkerInv, TypeOK, ReplyInv, TakenInv, ClosedInv, SelectDone, ReturnWith, workerVars, readerVars, pythonVars
<1>7. SendNeverBlocks' /\ RightAnswer' /\ NoOrphanEntry'
  BY VerdictAssumption DEF WorkerInv, TypeOK, SendNeverBlocks, RightAnswer, NoOrphanEntry, IdInv, IdsUnique, SelectDone, ReturnWith, workerVars, readerVars, pythonVars
<1> QED
  BY <1>1, <1>2, <1>3, <1>4, <1>5, <1>6, <1>7 DEF WorkerInv

LEMMA SelectDeadlineInv ==
  ASSUME WorkerInv, NEW c \in Callers, SelectDeadline(c) PROVE WorkerInv'
<1>1. TypeOK'
  BY SeqAssumption DEF WorkerInv, TypeOK, CallerStages, ReaderStages, Outcomes, SelectDeadline, workerVars, readerVars, pythonVars
<1>2. BoundInv'
  BY DEF WorkerInv, BoundInv, Locking, SelectDeadline, workerVars, readerVars, pythonVars
<1>3. MuInv' /\ IdInv' /\ IdsUnique'
  BY CallerAssumption DEF WorkerInv, TypeOK, MuInv, IdInv, IdsUnique, SelectDeadline, workerVars, readerVars, pythonVars
<1>4. FreshInv'
  BY DEF WorkerInv, TypeOK, FreshInv, IdInv, Travelling, InSeq, SelectDeadline, workerVars, readerVars, pythonVars
<1>5. OnceInv'
  BY DEF WorkerInv, TypeOK, OnceInv, Travelling, InSeq, SelectDeadline, workerVars, readerVars, pythonVars
<1>6. ReplyInv' /\ TakenInv' /\ ClosedInv'
  BY VerdictAssumption DEF WorkerInv, TypeOK, ReplyInv, TakenInv, ClosedInv, SelectDeadline, workerVars, readerVars, pythonVars
<1>7. SendNeverBlocks' /\ RightAnswer' /\ NoOrphanEntry'
  BY VerdictAssumption DEF WorkerInv, TypeOK, SendNeverBlocks, RightAnswer, NoOrphanEntry, IdInv, IdsUnique, SelectDeadline, workerVars, readerVars, pythonVars
<1> QED
  BY <1>1, <1>2, <1>3, <1>4, <1>5, <1>6, <1>7 DEF WorkerInv

LEMMA ForgetInv ==
  ASSUME WorkerInv, NEW c \in Callers, Forget(c) PROVE WorkerInv'
<1>1. TypeOK'
  BY SeqAssumption DEF WorkerInv, TypeOK, CallerStages, ReaderStages, Outcomes, Forget, readerVars, pythonVars
<1>2. BoundInv'
  BY DEF WorkerInv, BoundInv, Locking, Forget, readerVars, pythonVars
<1>3. MuInv' /\ IdInv' /\ IdsUnique'
  BY CallerAssumption DEF WorkerInv, TypeOK, MuInv, IdInv, IdsUnique, Forget, readerVars, pythonVars
<1>4. FreshInv'
  BY DEF WorkerInv, TypeOK, FreshInv, IdInv, Travelling, InSeq, Forget, readerVars, pythonVars
<1>5. OnceInv'
  BY DEF WorkerInv, TypeOK, OnceInv, Travelling, InSeq, Forget, readerVars, pythonVars
<1>6. ReplyInv' /\ TakenInv' /\ ClosedInv'
  BY VerdictAssumption DEF WorkerInv, TypeOK, ReplyInv, TakenInv, ClosedInv, Forget, readerVars, pythonVars
<1>7. SendNeverBlocks' /\ RightAnswer' /\ NoOrphanEntry'
  BY VerdictAssumption DEF WorkerInv, TypeOK, SendNeverBlocks, RightAnswer, NoOrphanEntry, IdInv, IdsUnique, Forget, readerVars, pythonVars
<1> QED
  BY <1>1, <1>2, <1>3, <1>4, <1>5, <1>6, <1>7 DEF WorkerInv

LEMMA LeaveInv ==
  ASSUME WorkerInv, NEW c \in Callers, Leave(c) PROVE WorkerInv'
<1>1. TypeOK'
  BY SeqAssumption DEF WorkerInv, TypeOK, CallerStages, ReaderStages, Outcomes, Leave, workerVars, readerVars, pythonVars
<1>2. BoundInv'
  BY DEF WorkerInv, BoundInv, Locking, Leave, workerVars, readerVars, pythonVars
<1>3. MuInv' /\ IdInv' /\ IdsUnique'
  BY CallerAssumption DEF WorkerInv, TypeOK, MuInv, IdInv, IdsUnique, Leave, workerVars, readerVars, pythonVars
<1>4. FreshInv'
  BY DEF WorkerInv, TypeOK, FreshInv, IdInv, Travelling, InSeq, Leave, workerVars, readerVars, pythonVars
<1>5. OnceInv'
  BY DEF WorkerInv, TypeOK, OnceInv, Travelling, InSeq, Leave, workerVars, readerVars, pythonVars
<1>6. ReplyInv' /\ TakenInv' /\ ClosedInv'
  BY VerdictAssumption DEF WorkerInv, TypeOK, ReplyInv, TakenInv, ClosedInv, Leave, workerVars, readerVars, pythonVars
<1>7. SendNeverBlocks' /\ RightAnswer' /\ NoOrphanEntry'
  BY VerdictAssumption DEF WorkerInv, TypeOK, SendNeverBlocks, RightAnswer, NoOrphanEntry, IdInv, IdsUnique, Leave, workerVars, readerVars, pythonVars
<1> QED
  BY <1>1, <1>2, <1>3, <1>4, <1>5, <1>6, <1>7 DEF WorkerInv

-----------------------------------------------------------------------------
(* readLoop *)

LEMMA ReadLineInv ==
  ASSUME WorkerInv, ReadLine PROVE WorkerInv'
<1>0. stdout # <<>> =>
        /\ Head(stdout) \in Replies /\ Head(stdout) = stdout[1] /\ 1 \in 1 .. Len(stdout)
        /\ Len(stdout) \in Nat
        /\ Tail(stdout) \in Seq(Replies) /\ Len(Tail(stdout)) = Len(stdout) - 1
        /\ \A k \in 1 .. Len(stdout) - 1 : Tail(stdout)[k] = stdout[k + 1]
  BY TailFacts DEF WorkerInv, TypeOK
<1>1. TypeOK'
  <2>1. stdout' \in Seq(Replies) /\ Len(stdout') <= StdoutCap
    <3>1. CASE UNCHANGED stdout
      BY <3>1 DEF WorkerInv, TypeOK
    <3>2. CASE stdout # <<>> /\ stdout' = Tail(stdout)
      <4>1. Len(stdout) <= StdoutCap /\ StdoutCap \in Nat
        BY PipeAssumption DEF WorkerInv, TypeOK
      <4> QED
        BY <1>0, <3>2, <4>1
    <3> QED
      BY <3>1, <3>2 DEF ReadLine
  <2>2. msg' \in Replies \cup {NoReply} /\ rpc' \in ReaderStages
    BY <1>0 DEF WorkerInv, TypeOK, ReaderStages, ReadLine
  <2> QED
    BY <2>1, <2>2 DEF WorkerInv, TypeOK, ReadLine, callerVars, workerVars, pythonVars
<1>2. BoundInv'
  BY DEF WorkerInv, BoundInv, Locking, ReadLine, callerVars, workerVars, pythonVars
<1>3. MuInv' /\ IdInv' /\ IdsUnique'
  BY CallerAssumption DEF WorkerInv, TypeOK, MuInv, IdInv, IdsUnique, ReadLine, callerVars, workerVars, pythonVars
<1>4. FreshInv'
  BY DEF WorkerInv, TypeOK, FreshInv, IdInv, Travelling, InSeq, ReadLine, callerVars, workerVars, pythonVars
<1>5. OnceInv'
  BY DEF WorkerInv, TypeOK, OnceInv, Travelling, InSeq, ReadLine, callerVars, workerVars, pythonVars
<1>6. ReplyInv' /\ TakenInv' /\ ClosedInv'
  <2>1. \A k \in 1 .. Len(stdout') : stdout'[k].res = verdict[stdout'[k].id]
    <3>1. CASE UNCHANGED stdout
      BY <3>1 DEF WorkerInv, ReplyInv
    <3>2. CASE stdout # <<>> /\ stdout' = Tail(stdout)
      <4>1. \A k \in 1 .. Len(stdout') : k + 1 \in 1 .. Len(stdout) /\ stdout'[k] = stdout[k + 1]
        BY <1>0, <3>2
      <4> QED
        BY <4>1 DEF WorkerInv, ReplyInv
    <3> QED
      BY <3>1, <3>2 DEF ReadLine
  <2>2. rpc' \in {"lookup", "send"} => msg' \in Replies /\ msg'.res = verdict[msg'.id]
    BY <1>0 DEF WorkerInv, ReplyInv, ReadLine
  <2> QED
    BY <2>1, <2>2 DEF WorkerInv, ReplyInv, TakenInv, ClosedInv, ReadLine, workerVars, pythonVars
<1>7. SendNeverBlocks' /\ RightAnswer' /\ NoOrphanEntry'
  BY VerdictAssumption DEF WorkerInv, TypeOK, SendNeverBlocks, RightAnswer, NoOrphanEntry, IdInv, IdsUnique, ReadLine, callerVars, workerVars, pythonVars
<1> QED
  BY <1>1, <1>2, <1>3, <1>4, <1>5, <1>6, <1>7 DEF WorkerInv

LEMMA LookupInv ==
  ASSUME WorkerInv, Lookup PROVE WorkerInv'
<1>0. msg \in Replies /\ msg.res = verdict[msg.id] /\ msg.id \in Ids
  BY DEF WorkerInv, ReplyInv, Replies, Lookup
<1>1. TypeOK'
  BY SeqAssumption DEF WorkerInv, TypeOK, CallerStages, ReaderStages, Outcomes, Lookup, callerVars, pythonVars
<1>2. BoundInv'
  BY DEF WorkerInv, BoundInv, Locking, Lookup, callerVars, pythonVars
<1>3. MuInv' /\ IdInv' /\ IdsUnique'
  BY CallerAssumption DEF WorkerInv, TypeOK, MuInv, IdInv, IdsUnique, Lookup, callerVars, pythonVars
<1>4. FreshInv'
  BY DEF WorkerInv, TypeOK, FreshInv, IdInv, Travelling, InSeq, Lookup, callerVars, pythonVars
<1>5. OnceInv'
  BY DEF WorkerInv, TypeOK, OnceInv, Travelling, InSeq, Lookup, callerVars, pythonVars
<1>6. ReplyInv' /\ TakenInv' /\ ClosedInv'
  <2>1. msg.id \in pending => msg.id <= seq
    BY <1>0 DEF WorkerInv, TypeOK, FreshInv, Ids
  <2> QED
    BY <1>0, <2>1 DEF WorkerInv, ReplyInv, TakenInv, ClosedInv, Lookup, pythonVars
<1>7. SendNeverBlocks' /\ RightAnswer' /\ NoOrphanEntry'
  BY VerdictAssumption DEF WorkerInv, TypeOK, SendNeverBlocks, RightAnswer, NoOrphanEntry, IdInv, IdsUnique, Lookup, callerVars, pythonVars
<1> QED
  BY <1>1, <1>2, <1>3, <1>4, <1>5, <1>6, <1>7 DEF WorkerInv

LEMMA SendInv ==
  ASSUME WorkerInv, Send PROVE WorkerInv'
<1>0. /\ msg.res = verdict[msg.id] /\ msg.id \in Ids /\ msg.res \in Verdicts
      /\ msg.id \notin pending /\ msg.id <= seq
  BY DEF WorkerInv, ReplyInv, Replies, TakenInv, Send
<1>1. TypeOK'
  BY <1>0 DEF WorkerInv, TypeOK, ReaderStages, Send, callerVars, pythonVars
<1>2. BoundInv'
  BY DEF WorkerInv, BoundInv, Locking, Send, callerVars, pythonVars
<1>3. MuInv' /\ IdInv' /\ IdsUnique'
  BY CallerAssumption DEF WorkerInv, TypeOK, MuInv, IdInv, IdsUnique, Send, callerVars, pythonVars
<1>4. FreshInv'
  <2>1. \A i \in Ids : i > seq => i # msg.id
    BY <1>0 DEF WorkerInv, TypeOK, Ids
  <2> QED
    BY <1>0, <2>1 DEF WorkerInv, TypeOK, FreshInv, Travelling, InSeq, Send, pythonVars
<1>5. OnceInv'
  BY DEF WorkerInv, TypeOK, OnceInv, Travelling, InSeq, Send, callerVars, pythonVars
<1>6. ReplyInv' /\ TakenInv' /\ ClosedInv'
  BY VerdictAssumption DEF WorkerInv, TypeOK, ReplyInv, TakenInv, ClosedInv, Send, callerVars, pythonVars
<1>7. SendNeverBlocks' /\ RightAnswer' /\ NoOrphanEntry'
  BY <1>0 DEF WorkerInv, TypeOK, SendNeverBlocks, RightAnswer, NoOrphanEntry, Send,
              callerVars, pythonVars
<1> QED
  BY <1>1, <1>2, <1>3, <1>4, <1>5, <1>6, <1>7 DEF WorkerInv

LEMMA WaitInv ==
  ASSUME WorkerInv, Wait PROVE WorkerInv'
<1>1. TypeOK'
  BY SeqAssumption DEF WorkerInv, TypeOK, CallerStages, ReaderStages, Outcomes, Wait, callerVars, workerVars, pythonVars
<1>2. BoundInv'
  BY DEF WorkerInv, BoundInv, Locking, Wait, callerVars, workerVars, pythonVars
<1>3. MuInv' /\ IdInv' /\ IdsUnique'
  BY CallerAssumption DEF WorkerInv, TypeOK, MuInv, IdInv, IdsUnique, Wait, callerVars, workerVars, pythonVars
<1>4. FreshInv'
  BY DEF WorkerInv, TypeOK, FreshInv, IdInv, Travelling, InSeq, Wait, callerVars, workerVars, pythonVars
<1>5. OnceInv'
  BY DEF WorkerInv, TypeOK, OnceInv, Travelling, InSeq, Wait, callerVars, workerVars, pythonVars
<1>6. ReplyInv' /\ TakenInv' /\ ClosedInv'
  BY VerdictAssumption DEF WorkerInv, TypeOK, ReplyInv, TakenInv, ClosedInv, Wait, callerVars, workerVars, pythonVars
<1>7. SendNeverBlocks' /\ RightAnswer' /\ NoOrphanEntry'
  BY VerdictAssumption DEF WorkerInv, TypeOK, SendNeverBlocks, RightAnswer, NoOrphanEntry, IdInv, IdsUnique, Wait, callerVars, workerVars, pythonVars
<1> QED
  BY <1>1, <1>2, <1>3, <1>4, <1>5, <1>6, <1>7 DEF WorkerInv

LEMMA CloseDoneInv ==
  ASSUME WorkerInv, CloseDone PROVE WorkerInv'
<1>1. TypeOK'
  BY SeqAssumption DEF WorkerInv, TypeOK, CallerStages, ReaderStages, Outcomes, CloseDone, callerVars, pythonVars
<1>2. BoundInv'
  BY DEF WorkerInv, BoundInv, Locking, CloseDone, callerVars, pythonVars
<1>3. MuInv' /\ IdInv' /\ IdsUnique'
  BY CallerAssumption DEF WorkerInv, TypeOK, MuInv, IdInv, IdsUnique, CloseDone, callerVars, pythonVars
<1>4. FreshInv'
  BY DEF WorkerInv, TypeOK, FreshInv, IdInv, Travelling, InSeq, CloseDone, callerVars, pythonVars
<1>5. OnceInv'
  BY DEF WorkerInv, TypeOK, OnceInv, Travelling, InSeq, CloseDone, callerVars, pythonVars
<1>6. ReplyInv' /\ TakenInv' /\ ClosedInv'
  BY VerdictAssumption DEF WorkerInv, TypeOK, ReplyInv, TakenInv, ClosedInv, CloseDone, callerVars, pythonVars
<1>7. SendNeverBlocks' /\ RightAnswer' /\ NoOrphanEntry'
  BY VerdictAssumption DEF WorkerInv, TypeOK, SendNeverBlocks, RightAnswer, NoOrphanEntry, IdInv, IdsUnique, CloseDone, callerVars, pythonVars
<1> QED
  BY <1>1, <1>2, <1>3, <1>4, <1>5, <1>6, <1>7 DEF WorkerInv

LEMMA DrainLockInv ==
  ASSUME WorkerInv, DrainLock PROVE WorkerInv'
<1>1. TypeOK'
  BY SeqAssumption DEF WorkerInv, TypeOK, CallerStages, ReaderStages, Outcomes, DrainLock, callerVars, pythonVars
<1>2. BoundInv'
  BY DEF WorkerInv, BoundInv, Locking, DrainLock, callerVars, pythonVars
<1>3. MuInv' /\ IdInv' /\ IdsUnique'
  BY CallerAssumption DEF WorkerInv, TypeOK, MuInv, IdInv, IdsUnique, DrainLock, callerVars, pythonVars
<1>4. FreshInv'
  BY DEF WorkerInv, TypeOK, FreshInv, IdInv, Travelling, InSeq, DrainLock, callerVars, pythonVars
<1>5. OnceInv'
  BY DEF WorkerInv, TypeOK, OnceInv, Travelling, InSeq, DrainLock, callerVars, pythonVars
<1>6. ReplyInv' /\ TakenInv' /\ ClosedInv'
  BY VerdictAssumption DEF WorkerInv, TypeOK, ReplyInv, TakenInv, ClosedInv, DrainLock, callerVars, pythonVars
<1>7. SendNeverBlocks' /\ RightAnswer' /\ NoOrphanEntry'
  BY VerdictAssumption DEF WorkerInv, TypeOK, SendNeverBlocks, RightAnswer, NoOrphanEntry, IdInv, IdsUnique, DrainLock, callerVars, pythonVars
<1> QED
  BY <1>1, <1>2, <1>3, <1>4, <1>5, <1>6, <1>7 DEF WorkerInv

LEMMA DrainOneInv ==
  ASSUME WorkerInv, NEW i \in Ids, DrainOne(i) PROVE WorkerInv'
<1>1. TypeOK'
  BY SeqAssumption DEF WorkerInv, TypeOK, CallerStages, ReaderStages, Outcomes, DrainOne, callerVars, readerVars, pythonVars
<1>2. BoundInv'
  BY DEF WorkerInv, BoundInv, Locking, DrainOne, callerVars, readerVars, pythonVars
<1>3. MuInv' /\ IdInv' /\ IdsUnique'
  BY CallerAssumption DEF WorkerInv, TypeOK, MuInv, IdInv, IdsUnique, DrainOne, callerVars, readerVars, pythonVars
<1>4. FreshInv'
  BY DEF WorkerInv, TypeOK, FreshInv, IdInv, Travelling, InSeq, DrainOne, callerVars, readerVars, pythonVars
<1>5. OnceInv'
  BY DEF WorkerInv, TypeOK, OnceInv, Travelling, InSeq, DrainOne, callerVars, readerVars, pythonVars
<1>6. ReplyInv' /\ TakenInv' /\ ClosedInv'
  BY VerdictAssumption DEF WorkerInv, TypeOK, ReplyInv, TakenInv, ClosedInv, DrainOne, callerVars, readerVars, pythonVars
<1>7. SendNeverBlocks' /\ RightAnswer' /\ NoOrphanEntry'
  BY VerdictAssumption DEF WorkerInv, TypeOK, SendNeverBlocks, RightAnswer, NoOrphanEntry, IdInv, IdsUnique, DrainOne, callerVars, readerVars, pythonVars
<1> QED
  BY <1>1, <1>2, <1>3, <1>4, <1>5, <1>6, <1>7 DEF WorkerInv

LEMMA DrainUnlockInv ==
  ASSUME WorkerInv, DrainUnlock PROVE WorkerInv'
<1>1. TypeOK'
  BY SeqAssumption DEF WorkerInv, TypeOK, CallerStages, ReaderStages, Outcomes, DrainUnlock, callerVars, pythonVars
<1>2. BoundInv'
  BY DEF WorkerInv, BoundInv, Locking, DrainUnlock, callerVars, pythonVars
<1>3. MuInv' /\ IdInv' /\ IdsUnique'
  BY CallerAssumption DEF WorkerInv, TypeOK, MuInv, IdInv, IdsUnique, DrainUnlock, callerVars, pythonVars
<1>4. FreshInv'
  BY DEF WorkerInv, TypeOK, FreshInv, IdInv, Travelling, InSeq, DrainUnlock, callerVars, pythonVars
<1>5. OnceInv'
  BY DEF WorkerInv, TypeOK, OnceInv, Travelling, InSeq, DrainUnlock, callerVars, pythonVars
<1>6. ReplyInv' /\ TakenInv' /\ ClosedInv'
  BY VerdictAssumption DEF WorkerInv, TypeOK, ReplyInv, TakenInv, ClosedInv, DrainUnlock, callerVars, pythonVars
<1>7. SendNeverBlocks' /\ RightAnswer' /\ NoOrphanEntry'
  BY VerdictAssumption DEF WorkerInv, TypeOK, SendNeverBlocks, RightAnswer, NoOrphanEntry, IdInv, IdsUnique, DrainUnlock, callerVars, pythonVars
<1> QED
  BY <1>1, <1>2, <1>3, <1>4, <1>5, <1>6, <1>7 DEF WorkerInv

-----------------------------------------------------------------------------
(* worker.py *)

LEMMA PyReadInv ==
  ASSUME WorkerInv, PyRead PROVE WorkerInv'
<1>1. TypeOK'
  <2>1. /\ stdin' \in Seq(Ids) /\ Len(stdin') <= StdinCap /\ Head(stdin) \in Ids
    BY TailFacts, PipeAssumption DEF WorkerInv, TypeOK, PyRead
  <2> QED
    BY <2>1 DEF WorkerInv, TypeOK, PyRead, callerVars, workerVars, readerVars
<1>2. BoundInv'
  BY DEF WorkerInv, BoundInv, Locking, PyRead, callerVars, workerVars, readerVars
<1>3. MuInv' /\ IdInv' /\ IdsUnique'
  BY CallerAssumption DEF WorkerInv, TypeOK, MuInv, IdInv, IdsUnique, PyRead, callerVars, workerVars, readerVars
<1>4. FreshInv'
  BY DEF WorkerInv, TypeOK, FreshInv, IdInv, Travelling, InSeq, PyRead, callerVars, workerVars, readerVars
<1>5. OnceInv'
  BY DEF WorkerInv, TypeOK, OnceInv, Travelling, InSeq, PyRead, callerVars, workerVars, readerVars
<1>6. ReplyInv' /\ TakenInv' /\ ClosedInv'
  BY VerdictAssumption DEF WorkerInv, TypeOK, ReplyInv, TakenInv, ClosedInv, PyRead, callerVars, workerVars, readerVars
<1>7. SendNeverBlocks' /\ RightAnswer' /\ NoOrphanEntry'
  BY VerdictAssumption DEF WorkerInv, TypeOK, SendNeverBlocks, RightAnswer, NoOrphanEntry, IdInv, IdsUnique, PyRead, callerVars, workerVars, readerVars
<1> QED
  BY <1>1, <1>2, <1>3, <1>4, <1>5, <1>6, <1>7 DEF WorkerInv

LEMMA PyStartInv ==
  ASSUME WorkerInv, NEW i \in Ids, PyStart(i) PROVE WorkerInv'
<1>1. TypeOK'
  BY SeqAssumption DEF WorkerInv, TypeOK, CallerStages, ReaderStages, Outcomes, PyStart, LoopFree, callerVars, workerVars, readerVars
<1>2. BoundInv'
  BY DEF WorkerInv, BoundInv, Locking, PyStart, LoopFree, callerVars, workerVars, readerVars
<1>3. MuInv' /\ IdInv' /\ IdsUnique'
  BY CallerAssumption DEF WorkerInv, TypeOK, MuInv, IdInv, IdsUnique, PyStart, LoopFree, callerVars, workerVars, readerVars
<1>4. FreshInv'
  BY DEF WorkerInv, TypeOK, FreshInv, IdInv, Travelling, InSeq, PyStart, LoopFree, callerVars, workerVars, readerVars
<1>5. OnceInv'
  BY DEF WorkerInv, TypeOK, OnceInv, Travelling, InSeq, PyStart, LoopFree, callerVars, workerVars, readerVars
<1>6. ReplyInv' /\ TakenInv' /\ ClosedInv'
  BY VerdictAssumption DEF WorkerInv, TypeOK, ReplyInv, TakenInv, ClosedInv, PyStart, LoopFree, callerVars, workerVars, readerVars
<1>7. SendNeverBlocks' /\ RightAnswer' /\ NoOrphanEntry'
  BY VerdictAssumption DEF WorkerInv, TypeOK, SendNeverBlocks, RightAnswer, NoOrphanEntry, IdInv, IdsUnique, PyStart, LoopFree, callerVars, workerVars, readerVars
<1> QED
  BY <1>1, <1>2, <1>3, <1>4, <1>5, <1>6, <1>7 DEF WorkerInv

LEMMA PyFinishInv ==
  ASSUME WorkerInv, NEW i \in Ids, PyFinish(i) PROVE WorkerInv'
<1>0. verdict[i] = "none"
  BY VerdictAssumption DEF WorkerInv, TypeOK, OnceInv, Travelling, PyFinish, LoopFree, Ids
<1>a. PICK v \in Verdicts : verdict' = [verdict EXCEPT ![i] = v]
  BY DEF PyFinish
<1>b. v # "none" /\ "none" \notin Verdicts
  BY VerdictAssumption
<1>1. TypeOK'
  BY SeqAssumption DEF WorkerInv, TypeOK, CallerStages, ReaderStages, Outcomes, PyFinish, LoopFree, callerVars, workerVars, readerVars
<1>2. BoundInv'
  BY DEF WorkerInv, BoundInv, Locking, PyFinish, LoopFree, callerVars, workerVars, readerVars
<1>3. MuInv' /\ IdInv' /\ IdsUnique'
  BY CallerAssumption DEF WorkerInv, TypeOK, MuInv, IdInv, IdsUnique, PyFinish, LoopFree, callerVars, workerVars, readerVars
<1>4. FreshInv'
  BY DEF WorkerInv, TypeOK, FreshInv, IdInv, Travelling, InSeq, PyFinish, LoopFree, callerVars, workerVars, readerVars
<1>5. OnceInv'
  <2>1. \A c \in Callers : pc[c] = "write" => id[c] # i
    BY DEF WorkerInv, OnceInv, Travelling, PyFinish, LoopFree, Ids
  <2>2. \A j \in Ids : Travelling(j)' => Travelling(j) /\ j # i
    BY DEF WorkerInv, OnceInv, Travelling, InSeq, PyFinish, LoopFree, Ids
  <2>3. verdict'[i] = v /\ \A j \in Ids : j # i => verdict'[j] = verdict[j]
    BY <1>a DEF WorkerInv, TypeOK
  <2>4. \A c \in Callers : pc[c] = "write" => id[c] \in Ids
    BY DEF WorkerInv, TypeOK, IdInv
  <2> QED
    BY <2>1, <2>2, <2>3, <2>4 DEF WorkerInv, OnceInv, PyFinish, callerVars, InSeq
<1>6. ReplyInv' /\ TakenInv' /\ ClosedInv'
  <2>1. \A j \in Ids : verdict[j] \in Verdicts => verdict'[j] = verdict[j]
    BY <1>0, <1>a, <1>b DEF WorkerInv, TypeOK
  <2>2. \A k \in 1 .. Len(stdout) : stdout[k] \in Replies
    BY DEF WorkerInv, TypeOK
  <2>3. \A k \in 1 .. Len(stdout) : stdout[k].res = verdict'[stdout[k].id]
    BY <2>1, <2>2 DEF WorkerInv, ReplyInv, Replies
  <2>4. rpc \in {"lookup", "send"} => msg \in Replies /\ msg.res = verdict'[msg.id]
    BY <2>1 DEF WorkerInv, ReplyInv, Replies
  <2>5. \A j \in Ids : ch[j] \in Verdicts => ch[j] = verdict'[j]
    BY <2>1 DEF WorkerInv, ReplyInv
  <2> QED
    BY <2>3, <2>4, <2>5
    DEF WorkerInv, ReplyInv, TakenInv, ClosedInv, PyFinish, workerVars, readerVars
<1>7. SendNeverBlocks' /\ RightAnswer' /\ NoOrphanEntry'
  <2>1. RightAnswer'
    <3>1. \A c \in Callers : pc[c] = "returned" /\ got[c] \in Verdicts =>
            got[c] = verdict'[id[c]]
      BY <1>0, <1>a, <1>b DEF WorkerInv, TypeOK, RightAnswer
    <3> QED
      BY <3>1 DEF RightAnswer, PyFinish, callerVars
  <2> QED
    BY <2>1 DEF WorkerInv, SendNeverBlocks, NoOrphanEntry, PyFinish,
                callerVars, workerVars, readerVars
<1> QED
  BY <1>1, <1>2, <1>3, <1>4, <1>5, <1>6, <1>7 DEF WorkerInv

LEMMA PyFlushInv ==
  ASSUME WorkerInv, PyFlush PROVE WorkerInv'
<1>1. TypeOK'
  <2>1. [id |-> loop, res |-> verdict[loop]] \in Replies
    BY DEF WorkerInv, TypeOK, OnceInv, Replies, PyFlush
  <2>2. stdout' \in Seq(Replies) /\ Len(stdout') <= StdoutCap
    BY <2>1, AppendFacts, PipeAssumption DEF WorkerInv, TypeOK, PyFlush
  <2> QED
    BY <2>2 DEF WorkerInv, TypeOK, PyFlush, callerVars, workerVars, readerVars
<1>2. BoundInv'
  BY DEF WorkerInv, BoundInv, Locking, PyFlush, callerVars, workerVars, readerVars
<1>3. MuInv' /\ IdInv' /\ IdsUnique'
  BY CallerAssumption DEF WorkerInv, TypeOK, MuInv, IdInv, IdsUnique, PyFlush, callerVars, workerVars, readerVars
<1>4. FreshInv'
  BY DEF WorkerInv, TypeOK, FreshInv, IdInv, Travelling, InSeq, PyFlush, callerVars, workerVars, readerVars
<1>5. OnceInv'
  BY DEF WorkerInv, TypeOK, OnceInv, Travelling, InSeq, PyFlush, callerVars, workerVars, readerVars
<1>6. ReplyInv' /\ TakenInv' /\ ClosedInv'
  BY VerdictAssumption DEF WorkerInv, TypeOK, ReplyInv, TakenInv, ClosedInv, PyFlush, callerVars, workerVars, readerVars
<1>7. SendNeverBlocks' /\ RightAnswer' /\ NoOrphanEntry'
  BY VerdictAssumption DEF WorkerInv, TypeOK, SendNeverBlocks, RightAnswer, NoOrphanEntry, IdInv, IdsUnique, PyFlush, callerVars, workerVars, readerVars
<1> QED
  BY <1>1, <1>2, <1>3, <1>4, <1>5, <1>6, <1>7 DEF WorkerInv

LEMMA GoneInv ==
  ASSUME WorkerInv, Gone PROVE WorkerInv'
<1>1. TypeOK'
  <2>1. stdin' \in Seq(Ids) /\ Len(stdin') <= StdinCap
    BY PipeAssumption DEF Gone
  <2> QED
    BY <2>1 DEF WorkerInv, TypeOK, Gone, callerVars, workerVars, readerVars
<1>2. BoundInv'
  BY DEF WorkerInv, BoundInv, Locking, Gone, callerVars, workerVars, readerVars
<1>3. MuInv' /\ IdInv' /\ IdsUnique'
  BY CallerAssumption DEF WorkerInv, TypeOK, MuInv, IdInv, IdsUnique, Gone, callerVars, workerVars, readerVars
<1>4. FreshInv'
  BY DEF WorkerInv, TypeOK, FreshInv, IdInv, Travelling, InSeq, Gone, callerVars, workerVars, readerVars
<1>5. OnceInv'
  BY DEF WorkerInv, TypeOK, OnceInv, Travelling, InSeq, Gone, callerVars, workerVars, readerVars
<1>6. ReplyInv' /\ TakenInv' /\ ClosedInv'
  BY VerdictAssumption DEF WorkerInv, TypeOK, ReplyInv, TakenInv, ClosedInv, Gone, callerVars, workerVars, readerVars
<1>7. SendNeverBlocks' /\ RightAnswer' /\ NoOrphanEntry'
  BY VerdictAssumption DEF WorkerInv, TypeOK, SendNeverBlocks, RightAnswer, NoOrphanEntry, IdInv, IdsUnique, Gone, callerVars, workerVars, readerVars
<1> QED
  BY <1>1, <1>2, <1>3, <1>4, <1>5, <1>6, <1>7 DEF WorkerInv

LEMMA StopInv ==
  ASSUME WorkerInv, Stop PROVE WorkerInv'
<1>1. TypeOK'
  BY SeqAssumption DEF WorkerInv, TypeOK, CallerStages, ReaderStages, Outcomes, Stop, callerVars, workerVars, readerVars
<1>2. BoundInv'
  BY DEF WorkerInv, BoundInv, Locking, Stop, callerVars, workerVars, readerVars
<1>3. MuInv' /\ IdInv' /\ IdsUnique'
  BY CallerAssumption DEF WorkerInv, TypeOK, MuInv, IdInv, IdsUnique, Stop, callerVars, workerVars, readerVars
<1>4. FreshInv'
  BY DEF WorkerInv, TypeOK, FreshInv, IdInv, Travelling, InSeq, Stop, callerVars, workerVars, readerVars
<1>5. OnceInv'
  BY DEF WorkerInv, TypeOK, OnceInv, Travelling, InSeq, Stop, callerVars, workerVars, readerVars
<1>6. ReplyInv' /\ TakenInv' /\ ClosedInv'
  BY VerdictAssumption DEF WorkerInv, TypeOK, ReplyInv, TakenInv, ClosedInv, Stop, callerVars, workerVars, readerVars
<1>7. SendNeverBlocks' /\ RightAnswer' /\ NoOrphanEntry'
  BY VerdictAssumption DEF WorkerInv, TypeOK, SendNeverBlocks, RightAnswer, NoOrphanEntry, IdInv, IdsUnique, Stop, callerVars, workerVars, readerVars
<1> QED
  BY <1>1, <1>2, <1>3, <1>4, <1>5, <1>6, <1>7 DEF WorkerInv

-----------------------------------------------------------------------------
(* The theorems *)

LEMMA StutterInv == ASSUME WorkerInv, UNCHANGED vars PROVE WorkerInv'
BY DEF vars, callerVars, workerVars, readerVars, pythonVars, WorkerInv, TypeOK,
       BoundInv, Locking, MuInv, IdInv, IdsUnique, FreshInv, OnceInv, Travelling, InSeq,
       ReplyInv, TakenInv, ClosedInv, SendNeverBlocks, RightAnswer, NoOrphanEntry

LEMMA NextInv == ASSUME WorkerInv, [Next]_vars PROVE WorkerInv'
<1>1. CASE \E c \in Callers :
             Download(c) \/ CallerStep(c) \/ SelectDeadline(c) \/ Leave(c)
  BY <1>1, DownloadInv, RegisterInv, WriteInv, SelectResultInv, SelectDoneInv,
     SelectDeadlineInv, ForgetInv, LeaveInv DEF CallerStep
<1>2. CASE ReadLoop
  BY <1>2, ReadLineInv, LookupInv, SendInv, WaitInv, CloseDoneInv, DrainLockInv,
     DrainOneInv, DrainUnlockInv DEF ReadLoop
<1>3. CASE PyRead \/ EventLoop \/ PyDie \/ Stop
  BY <1>3, PyReadInv, PyStartInv, PyFinishInv, PyFlushInv, GoneInv, StopInv
  DEF EventLoop, PyExit, PyDie
<1>4. CASE UNCHANGED vars
  BY <1>4, StutterInv
<1> QED
  BY <1>1, <1>2, <1>3, <1>4 DEF Next

\* Every reachable state of a worker, its callers and its process satisfies the
\* inductive invariant, TypeOK included.
THEOREM Invariant == Spec => []WorkerInv
BY InitInv, NextInv, PTL DEF Spec

\* The table, the channels, both pipes and the queues of worker.py stay what their
\* types say, for any number of requests and whatever dies.
THEOREM TypeCorrect == Spec => []TypeOK
<1>1. WorkerInv => TypeOK
  BY DEF WorkerInv
<1> QED
  BY <1>1, Invariant, PTL

\* readLoop never blocks on a result channel (worker.go:239 and :252, the second
\* with mu held): whatever arrives, late, twice asked or after the deadline.
THEOREM NoSendBlocks == Spec => []SendNeverBlocks
<1>1. WorkerInv => SendNeverBlocks
  BY DEF WorkerInv
<1> QED
  BY <1>1, Invariant, PTL

\* What Download returns as a result is how the download it asked for ended.
THEOREM AnswersAreRight == Spec => []RightAnswer
<1>1. WorkerInv => RightAnswer
  BY DEF WorkerInv
<1> QED
  BY <1>1, Invariant, PTL

\* The ids under which two Downloads in progress wait differ.
THEOREM IdsDiffer == Spec => []IdsUnique
<1>1. WorkerInv => IdsUnique
  BY DEF WorkerInv
<1> QED
  BY <1>1, Invariant, PTL

\* After readLoop has cleared up no Download waits on a channel of the table.
THEOREM NothingLeftBehind == Spec => []NoOrphanEntry
<1>1. WorkerInv => NoOrphanEntry
  BY DEF WorkerInv
<1> QED
  BY <1>1, Invariant, PTL
-----------------------------------------------------------------------------
(* WorkerCalls: first the invariant that ties "unavailable" to the death of  *)
(* the process, then one lemma for each group of actions, which either takes *)
(* a step of the promise or is not seen by the calls.                        *)

LEMMA HonestInit == ASSUME Init PROVE HonestInv
BY DEF Init, HonestInv

LEMMA HonestCaller ==
  ASSUME TypeOK, HonestInv, NEW c \in Callers,
         Download(c) \/ CallerStep(c) \/ SelectDeadline(c) \/ Leave(c)
  PROVE  HonestInv'
<1>1. CASE SelectResult(c)
  <2>1. \A i \in Ids : ch'[i] = "unavailable" => ch[i] = "unavailable"
    BY <1>1 DEF SelectResult, TypeOK
  <2> QED
    BY <1>1, <2>1 DEF SelectResult, HonestInv, readerVars, pythonVars
<1>2. CASE ~SelectResult(c)
  <2>1. UNCHANGED <<rpc, alive, stdinOpen, killed, done, ch>>
    BY <1>2 DEF Download, CallerStep, Register, Write, SelectDone, SelectDeadline, Forget,
                Leave, ReturnWith, workerVars, readerVars, pythonVars
  <2> QED
    BY <2>1 DEF HonestInv
<1> QED
  BY <1>1, <1>2

LEMMA HonestReader ==
  ASSUME TypeOK, ReplyInv, HonestInv, ReadLoop PROVE HonestInv'
<1>1. CASE Send
  <2>1. msg.res \in Verdicts /\ msg.res # "unavailable"
    BY <1>1, VerdictAssumption DEF Send, ReplyInv, Replies
  <2>2. \A i \in Ids : ch'[i] = "unavailable" => ch[i] = "unavailable"
    BY <1>1, <2>1 DEF Send, TypeOK
  <2>3. \A i \in Ids : ch[i] # "unavailable"
    BY <1>1 DEF Send, HonestInv
  <2> QED
    BY <1>1, <2>2, <2>3 DEF Send, HonestInv, pythonVars
<1>2. ASSUME NEW i \in Ids, DrainOne(i) PROVE HonestInv'
  BY <1>2 DEF DrainOne, HonestInv, readerVars, pythonVars
<1>3. CASE ReadLine \/ Lookup \/ Wait \/ CloseDone \/ DrainLock \/ DrainUnlock
  BY <1>3 DEF ReadLine, Lookup, Wait, CloseDone, DrainLock, DrainUnlock, HonestInv, TypeOK,
              ReaderStages, workerVars, pythonVars
<1> QED
  BY <1>1, <1>2, <1>3 DEF ReadLoop

LEMMA HonestStep ==
  ASSUME TypeOK, ReplyInv, HonestInv, [Next]_vars PROVE HonestInv'
<1>1. CASE PyRead \/ EventLoop \/ PyDie \/ Stop
  BY <1>1 DEF PyRead, EventLoop, PyStart, PyFinish, PyFlush, PyExit, PyDie, Gone, Stop,
              HonestInv, workerVars, readerVars
<1>2. CASE UNCHANGED vars
  BY <1>2 DEF HonestInv, vars, workerVars, readerVars, pythonVars
<1> QED
  BY <1>1, <1>2, HonestCaller, HonestReader DEF Next

LEMMA CallsInit == ASSUME Init PROVE Calls!Init
<1>1. 1 .. seq = {}
  BY DEF Init
<1>2. AbsStatus = "serving" /\ AbsAccepted = {}
  BY DEF Init, AbsStatus, AbsAccepted, Travelling, InSeq
<1>3. AbsState = [c \in Callers |-> "idle"]
  BY DEF Init, AbsState, Stage
<1> QED
  BY <1>1, <1>2, <1>3 DEF Init, Calls!Init

\* What the calls see of a caller that moves on
LEMMA MoveState ==
  ASSUME TypeOK, NEW c \in Callers, NEW p, pc' = [pc EXCEPT ![c] = p]
  PROVE  AbsState' = [AbsState EXCEPT ![c] = Stage(p)] /\ AbsState[c] = Stage(pc[c])
BY DEF TypeOK, AbsState

LEMMA StageFacts ==
  /\ Stage("idle") = "idle" /\ Stage("lock") = "idle"
  /\ Stage("write") = "asked" /\ Stage("select") = "asked"
  /\ Stage("forget") = "answered" /\ Stage("returned") = "answered"
BY DEF Stage

\* A step that leaves pc alone, or stays within a stage, does not move the call.
LEMMA SameState ==
  ASSUME TypeOK, NEW c \in Callers, NEW p, pc' = [pc EXCEPT ![c] = p],
         Stage(p) = Stage(pc[c])
  PROVE  AbsState' = AbsState
BY DEF TypeOK, AbsState

LEMMA SamePython ==
  ASSUME UNCHANGED <<stdin, pythonVars>>
  PROVE  AbsStatus' = AbsStatus /\ AbsAccepted' = AbsAccepted
BY DEF AbsStatus, AbsAccepted, Travelling, InSeq, pythonVars

\* An answer that is no result and is true of the process
LEMMA AnswerStep ==
  ASSUME TypeOK, NEW c \in Callers, NEW p, NEW a \in Outcomes,
         pc[c] \in {"write", "select"}, Stage(p) = "answered",
         pc' = [pc EXCEPT ![c] = p], got' = [got EXCEPT ![c] = a],
         UNCHANGED <<id, seq, stdin, pythonVars>>,
         a \in Verdicts => a = verdict[id[c]],
         a = "unavailable" =>
           AbsStatus # "serving" /\ (id[c] \in AbsAccepted => AbsStatus = "gone")
  PROVE  Calls!Next
<1>1. AbsState[c] = "asked" /\ AbsState' = [AbsState EXCEPT ![c] = "answered"]
  <2>1. AbsState[c] = Stage(pc[c]) /\ AbsState' = [AbsState EXCEPT ![c] = Stage(p)]
    BY MoveState
  <2>2. Stage(pc[c]) = "asked"
    BY StageFacts
  <2> QED
    BY <2>1, <2>2
<1>2. AbsStatus' = AbsStatus /\ AbsAccepted' = AbsAccepted
  BY SamePython
<1>3. (1 .. seq)' = 1 .. seq /\ verdict' = verdict
  BY DEF pythonVars
<1>4. Calls!Answer(c, a)
  BY <1>1, <1>2, <1>3 DEF Calls!Answer
<1> QED
  BY <1>4 DEF Calls!Next, Calls!Answers, Outcomes

LEMMA DownloadRefines ==
  ASSUME WorkerInv, HonestInv, NEW c \in Callers, Download(c)
  PROVE  Calls!Next \/ UNCHANGED Calls!vars
<1>1. AbsStatus' = AbsStatus /\ AbsAccepted' = AbsAccepted /\ (1 .. seq)' = 1 .. seq
      /\ verdict' = verdict /\ id' = id
  BY SamePython DEF Download, workerVars, pythonVars
<1>2. CASE done
  <2>1. AbsStatus = "gone"
    BY <1>2 DEF HonestInv, AbsStatus
  <2>2. AbsState[c] = "idle" /\ AbsState' = [AbsState EXCEPT ![c] = "answered"]
    BY <1>2, MoveState, StageFacts DEF Download, ReturnWith, WorkerInv
  <2>3. Calls!Refuse(c)
    BY <1>1, <1>2, <2>1, <2>2 DEF Calls!Refuse, Download, ReturnWith
  <2> QED
    BY <2>3 DEF Calls!Next
<1>3. CASE ~done
  <2>1. AbsState' = AbsState
    BY <1>3, SameState, StageFacts DEF Download, WorkerInv
  <2> QED
    BY <1>1, <1>3, <2>1 DEF Calls!vars, Download
<1> QED
  BY <1>2, <1>3

LEMMA RegisterRefines ==
  ASSUME WorkerInv, NEW c \in Callers, Register(c) PROVE Calls!Next
<1>1. seq + 1 \in Ids /\ seq + 1 \notin 1 .. seq /\ seq' = seq + 1
  <2>1. pc[c] = "lock" /\ pc' = [pc EXCEPT ![c] = "write"]
    BY DEF Register
  <2>2. Cardinality(Locking) >= 1
    BY <2>1, LeaveLocking DEF WorkerInv
  <2> QED
    BY <2>2, LockingFinite, SeqAssumption DEF WorkerInv, TypeOK, BoundInv, Register, Ids
<1>2. (1 .. seq)' = (1 .. seq) \cup {seq + 1}
  BY <1>1, SeqAssumption DEF WorkerInv, TypeOK
<1>3. AbsStatus' = AbsStatus /\ AbsAccepted' = AbsAccepted /\ verdict' = verdict
  BY SamePython DEF Register, pythonVars
<1>4. AbsState[c] = "idle" /\ AbsState' = [AbsState EXCEPT ![c] = "asked"]
  <2>1. TypeOK /\ pc[c] = "lock" /\ pc' = [pc EXCEPT ![c] = "write"]
    BY DEF Register, WorkerInv
  <2>2. Stage(pc[c]) = "idle" /\ Stage("write") = "asked"
    BY <2>1, StageFacts
  <2> QED
    BY <2>1, <2>2, MoveState
<1>5. Calls!Ask(c, seq + 1)
  BY <1>1, <1>2, <1>3, <1>4 DEF Calls!Ask, Register
<1> QED
  BY <1>1, <1>5 DEF Calls!Next

LEMMA WriteRefines ==
  ASSUME WorkerInv, HonestInv, NEW c \in Callers, Write(c) PROVE Calls!Next
<1>1. id[c] \in Ids /\ id[c] \notin AbsAccepted /\ pc[c] = "write"
  BY DEF Write, WorkerInv, TypeOK, IdInv, OnceInv, AbsAccepted
<1>2. CASE WriteFails /\ pc' = [pc EXCEPT ![c] = "forget"]
  <2>1. AbsStatus # "serving"
    BY <1>2 DEF WriteFails, HonestInv, AbsStatus
  <2>2. "unavailable" \in Outcomes /\ "unavailable" \notin Verdicts
    BY VerdictAssumption DEF Outcomes
  <2>3. got' = [got EXCEPT ![c] = "unavailable"] /\ UNCHANGED <<id, seq, stdin, pythonVars>>
    BY <1>2 DEF Write, WriteFails
  <2> QED
    BY <1>1, <1>2, <2>1, <2>2, <2>3, AnswerStep, StageFacts DEF WorkerInv
<1>3. CASE ~WriteFails /\ stdin' = Append(stdin, id[c])
  <2>1. AbsStatus' = AbsStatus /\ AbsStatus # "gone"
    BY <1>3 DEF WriteFails, Write, AbsStatus, pythonVars
  <2>2. AbsState[c] = "asked" /\ AbsState' = AbsState
    <3>1. pc' = [pc EXCEPT ![c] = "select"] \/ pc' = [pc EXCEPT ![c] = "forget"]
      BY DEF Write
    <3>2. pc' = [pc EXCEPT ![c] = "select"]
      BY <1>3 DEF Write
    <3> QED
      BY <1>1, <3>2, MoveState, SameState, StageFacts DEF WorkerInv
  <2>3. \A i \in Ids : InSeq(stdin', i) <=> InSeq(stdin, i) \/ i = id[c]
    BY <1>1, <1>3, AppendHolds DEF WorkerInv, TypeOK
  <2>4. AbsAccepted' = AbsAccepted \cup {id[c]}
    BY <1>1, <2>3 DEF AbsAccepted, Travelling, Write, pythonVars
  <2>5. Calls!Accept(c)
    BY <1>1, <1>3, <2>1, <2>2, <2>4 DEF Calls!Accept, Write, WriteFails, pythonVars
  <2> QED
    BY <2>5 DEF Calls!Next
<1> QED
  BY <1>2, <1>3 DEF Write

LEMMA SelectRefines ==
  ASSUME WorkerInv, HonestInv, NEW c \in Callers,
         SelectResult(c) \/ SelectDone(c) \/ SelectDeadline(c)
  PROVE  Calls!Next
<1>1. id[c] \in Ids /\ pc[c] = "select"
  BY DEF SelectResult, SelectDone, SelectDeadline, WorkerInv, TypeOK, IdInv
<1>2. UNCHANGED <<id, seq, stdin, pythonVars>>
  BY DEF SelectResult, SelectDone, SelectDeadline, workerVars
<1>3. "unavailable" \notin Verdicts /\ "deadline" \notin Verdicts /\ "empty" \notin Verdicts
  BY VerdictAssumption
<1>4. CASE SelectResult(c)
  <2>1. ch[id[c]] \in Outcomes
    BY <1>1, <1>4 DEF SelectResult, WorkerInv, TypeOK, Outcomes
  <2>2. ch[id[c]] \in Verdicts => ch[id[c]] = verdict[id[c]]
    BY <1>1 DEF WorkerInv, ReplyInv
  <2>3. ch[id[c]] = "unavailable" => AbsStatus = "gone"
    BY <1>1 DEF HonestInv, AbsStatus
  <2>4. pc' = [pc EXCEPT ![c] = "returned"] /\ got' = [got EXCEPT ![c] = ch[id[c]]]
    BY <1>4 DEF SelectResult, ReturnWith
  <2> QED
    BY <1>1, <1>2, <2>1, <2>2, <2>3, <2>4, AnswerStep, StageFacts DEF WorkerInv
<1>5. CASE SelectDone(c)
  <2>1. AbsStatus = "gone"
    BY <1>5 DEF SelectDone, HonestInv, AbsStatus
  <2>2. pc' = [pc EXCEPT ![c] = "returned"] /\ got' = [got EXCEPT ![c] = "unavailable"]
    BY <1>5 DEF SelectDone, ReturnWith
  <2>3. "unavailable" \in Outcomes
    BY DEF Outcomes
  <2> QED
    BY <1>1, <1>2, <1>3, <2>1, <2>2, <2>3, AnswerStep, StageFacts DEF WorkerInv
<1>6. CASE SelectDeadline(c)
  <2>1. pc' = [pc EXCEPT ![c] = "forget"] /\ got' = [got EXCEPT ![c] = "deadline"]
    BY <1>6 DEF SelectDeadline
  <2>2. "deadline" \in Outcomes
    BY DEF Outcomes
  <2> QED
    BY <1>1, <1>2, <1>3, <2>1, <2>2, AnswerStep, StageFacts DEF WorkerInv
<1> QED
  BY <1>4, <1>5, <1>6

LEMMA ForgetRefines ==
  ASSUME WorkerInv, NEW c \in Callers, Forget(c) PROVE UNCHANGED Calls!vars
<1>1. AbsState' = AbsState
  <2>1. TypeOK /\ pc[c] = "forget" /\ pc' = [pc EXCEPT ![c] = "returned"]
    BY DEF Forget, WorkerInv
  <2>2. Stage(pc[c]) = Stage("returned")
    BY <2>1, StageFacts
  <2> QED
    BY <2>1, <2>2, SameState
<1> QED
  BY <1>1, SamePython DEF Forget, Calls!vars, pythonVars

LEMMA LeaveRefines ==
  ASSUME WorkerInv, NEW c \in Callers, Leave(c) PROVE Calls!Next
<1>1. AbsState[c] = "answered" /\ AbsState' = [AbsState EXCEPT ![c] = "idle"]
  <2>1. TypeOK /\ pc[c] = "returned" /\ pc' = [pc EXCEPT ![c] = "idle"]
    BY DEF Leave, WorkerInv
  <2>2. Stage(pc[c]) = "answered" /\ Stage("idle") = "idle"
    BY <2>1, StageFacts
  <2> QED
    BY <2>1, <2>2, MoveState
<1>2. AbsStatus' = AbsStatus /\ AbsAccepted' = AbsAccepted /\ (1 .. seq)' = 1 .. seq
      /\ verdict' = verdict
  BY SamePython DEF Leave, workerVars, pythonVars
<1>3. Calls!Take(c)
  BY <1>1, <1>2 DEF Calls!Take, Leave
<1> QED
  BY <1>3 DEF Calls!Next

\* readLoop moves replies, and no call sees it before it takes its own.
LEMMA ReadLoopRefines == ASSUME ReadLoop PROVE UNCHANGED Calls!vars
<1>1. UNCHANGED <<callerVars, seq, stdin, pythonVars>>
  BY DEF ReadLoop, ReadLine, Lookup, Send, Wait, CloseDone, DrainLock, DrainOne, DrainUnlock,
         workerVars
<1>2. AbsState' = AbsState
  BY <1>1 DEF AbsState, callerVars
<1> QED
  BY <1>1, <1>2, SamePython DEF Calls!vars, callerVars, pythonVars

\* The requests the process has are the same wherever in it they are.
LEMMA PythonMoves ==
  ASSUME WorkerInv, PyRead \/ PyFlush \/ \E i \in Ids : PyStart(i)
  PROVE  UNCHANGED Calls!vars
<1>1. UNCHANGED <<callerVars, seq, alive, killed, verdict>>
  BY DEF PyRead, PyFlush, PyStart, workerVars
<1>2. \A i \in Ids : Travelling(i)' <=> Travelling(i)
  <2>1. CASE PyRead
    <3>1. \A i \in Ids : InSeq(stdin, i) <=> i = Head(stdin) \/ InSeq(Tail(stdin), i)
      BY <2>1, TailHolds DEF PyRead, WorkerInv, TypeOK
    <3> QED
      BY <2>1, <3>1 DEF PyRead, Travelling
  <2>2. CASE PyFlush
    BY <2>2 DEF PyFlush, Travelling, InSeq, Ids
  <2>3. ASSUME NEW j \in Ids, PyStart(j)
        PROVE  \A i \in Ids : Travelling(i)' <=> Travelling(i)
    BY <2>3 DEF PyStart, LoopFree, Travelling, InSeq, Ids
  <2> QED
    BY <2>1, <2>2, <2>3
<1>3. AbsAccepted' = AbsAccepted
  BY <1>1, <1>2 DEF AbsAccepted
<1>4. AbsStatus' = AbsStatus /\ AbsState' = AbsState
  BY <1>1 DEF AbsStatus, AbsState, callerVars
<1> QED
  BY <1>1, <1>3, <1>4 DEF Calls!vars, callerVars

LEMMA PyFinishRefines ==
  ASSUME WorkerInv, NEW i \in Ids, PyFinish(i) PROVE Calls!Next
<1>1. i \in running /\ i # loop /\ loop' = i /\ alive
  BY DEF PyFinish, LoopFree, Ids
<1>2. Travelling(i) /\ verdict[i] = "none" /\ i \in AbsAccepted
  BY <1>1 DEF Travelling, WorkerInv, OnceInv, AbsAccepted
<1>3. PICK v \in Verdicts : verdict' = [verdict EXCEPT ![i] = v]
  BY DEF PyFinish
<1>4. v # "none" /\ verdict' [i] = v
  BY <1>3, VerdictAssumption DEF WorkerInv, TypeOK
<1>5. AbsAccepted' = AbsAccepted
  <2>1. \A j \in Ids \ {i} : (Travelling(j)' <=> Travelling(j)) /\ verdict'[j] = verdict[j]
    BY <1>1, <1>3 DEF PyFinish, LoopFree, Travelling, InSeq, Ids, WorkerInv, TypeOK
  <2> QED
    BY <1>2, <1>4, <2>1 DEF AbsAccepted
<1>6. AbsStatus = AbsStatus' /\ AbsStatus # "gone" /\ AbsState' = AbsState
  BY <1>1 DEF PyFinish, AbsStatus, AbsState, callerVars
<1>7. Calls!Decide(i, v)
  BY <1>2, <1>3, <1>5, <1>6 DEF Calls!Decide, PyFinish, callerVars, workerVars
<1> QED
  BY <1>7 DEF Calls!Next

LEMMA DeathRefines ==
  ASSUME WorkerInv, alive, Gone PROVE Calls!Next
<1>1. AbsStatus # "gone" /\ AbsStatus' = "gone"
  BY DEF AbsStatus, Gone
<1>2. \A i \in Ids : ~Travelling(i)'
  BY DEF Travelling, InSeq, Gone
<1>3. AbsAccepted' = {i \in AbsAccepted : verdict[i] # "none"}
  BY <1>2 DEF AbsAccepted, Gone
<1>4. AbsState' = AbsState
  BY DEF AbsState, Gone, callerVars
<1>5. Calls!Die
  BY <1>1, <1>3, <1>4 DEF Calls!Die, Gone, callerVars, workerVars
<1> QED
  BY <1>5 DEF Calls!Next

LEMMA StopRefines ==
  ASSUME Stop PROVE Calls!Next \/ UNCHANGED Calls!vars
<1>1. AbsAccepted' = AbsAccepted /\ AbsState' = AbsState
  BY DEF AbsAccepted, Travelling, InSeq, AbsState, Stop, callerVars
<1>2. UNCHANGED <<id, got, seq, verdict>>
  BY DEF Stop, callerVars, workerVars
<1>3. CASE alive
  <2>1. AbsStatus = "serving" /\ AbsStatus' = "stopping"
    BY <1>3 DEF AbsStatus, Stop
  <2> QED
    BY <1>1, <1>2, <2>1 DEF Calls!Stop, Calls!Next
<1>4. CASE ~alive
  <2>1. AbsStatus' = AbsStatus
    BY <1>4 DEF AbsStatus, Stop
  <2> QED
    BY <1>1, <1>2, <2>1 DEF Calls!vars
<1> QED
  BY <1>3, <1>4

LEMMA CallsStep ==
  ASSUME WorkerInv, HonestInv, [Next]_vars PROVE [Calls!Next]_(Calls!vars)
<1> SUFFICES Calls!Next \/ UNCHANGED Calls!vars
  BY DEF Calls!vars
<1>1. ASSUME NEW c \in Callers,
             Download(c) \/ CallerStep(c) \/ SelectDeadline(c) \/ Leave(c)
      PROVE  Calls!Next \/ UNCHANGED Calls!vars
  BY <1>1, DownloadRefines, RegisterRefines, WriteRefines, SelectRefines, ForgetRefines,
     LeaveRefines DEF CallerStep
<1>2. CASE ReadLoop
  BY <1>2, ReadLoopRefines
<1>3. CASE PyRead \/ EventLoop
  BY <1>3, PythonMoves, PyFinishRefines, DeathRefines DEF EventLoop, PyExit, LoopFree
<1>4. CASE PyDie
  BY <1>4, DeathRefines DEF PyDie
<1>5. CASE Stop
  BY <1>5, StopRefines
<1>6. CASE UNCHANGED vars
  <2>1. UNCHANGED <<callerVars, seq, stdin, pythonVars>>
    BY <1>6 DEF vars, workerVars
  <2>2. AbsState' = AbsState
    BY <2>1 DEF AbsState, callerVars
  <2> QED
    BY <2>1, <2>2, SamePython DEF Calls!vars, callerVars, pythonVars
<1> QED
  BY <1>1, <1>2, <1>3, <1>4, <1>5, <1>6 DEF Next

\* The worker keeps the promise of WorkerCalls for any callers, requests, pipes and
\* semaphore: a request is run at most once, a result reaches the call that asked,
\* and a call that hears "unavailable", on which the command line is started
\* (download.go:72), has a request this worker does not run, then or later.
THEOREM ImplementsCalls == Spec => CallSpec
<1>1. Init => WorkerInv /\ HonestInv /\ Calls!Init
  BY InitInv, HonestInit, CallsInit
<1>2. WorkerInv /\ HonestInv /\ [Next]_vars => HonestInv'
  BY HonestStep DEF WorkerInv
<1>3. WorkerInv /\ HonestInv /\ [Next]_vars => [Calls!Next]_(Calls!vars)
  BY CallsStep
<1>4. WorkerInv /\ [Next]_vars => WorkerInv'
  BY NextInv
<1> QED
  BY <1>1, <1>2, <1>3, <1>4, PTL DEF Spec, CallSpec, Calls!Spec
=============================================================================
