-------------------------- MODULE StreamingProofs --------------------------
(* Proofs about Streaming: what lies in a done channel is true of the song   *)
(* its request asks for, and a job's goroutines are those in its semaphore.  *)
EXTENDS Streaming, FiniteSetTheorems, TLAPS

\* A request that is not in the select has no channel, and nothing in one.
OnlyHeld ==
  \A r \in Requests : stage[r] # "held" => call[r] = NoCall /\ reply[r] = "none"

\* The goroutine whose channel a request reads was started for its song.
OwnSong ==
  \A r \in Requests, c \in Calls :
    call[r] = c /\ owner[c] = r => asked[c] = {song[r]}

\* "ok" is told of stored songs, by a call and through a channel.
OkIsStored ==
  /\ \A c \in Calls, s \in Songs : state[c] = "ok" /\ asked[c] = {s} => s \in available
  /\ \A r \in Requests : reply[r] = "ok" => song[r] \in available

Admitted == Stages \ {"idle"}

HasSong == \A r \in Requests : stage[r] \in Admitted => song[r] \in Songs

\* The semaphore holds exactly the goroutines of the job.
SemIsRunning == \A b \in Jobs : sem[b] = Running(b) /\ Cardinality(sem[b]) <= Slots

IInv == TypeOK /\ OnlyHeld /\ OwnSong /\ OkIsStored /\ HasSong /\ SemIsRunning /\ ReadFindsSong

USE DEF Store!TypeOK, Stages, Final

LEMMA InitHolds == Init => IInv
<1> SUFFICES ASSUME Init PROVE IInv
  OBVIOUS
<1>1. TypeOK
  BY DEF Init, Store!Init, TypeOK
<1>2. OnlyHeld /\ OwnSong /\ OkIsStored /\ HasSong /\ ReadFindsSong
  BY NoCallAssumption DEF Init, Store!Init, OnlyHeld, OwnSong, OkIsStored, HasSong,
     Admitted, ReadFindsSong
<1>3. ASSUME NEW b \in Jobs PROVE sem[b] = Running(b) /\ Cardinality(sem[b]) <= Slots
  BY JobsAssumption, SlotsAssumption, FS_EmptySet DEF Init, Running
<1> QED
  BY <1>1, <1>2, <1>3 DEF IInv, SemIsRunning

-----------------------------------------------------------------------------
(* Types *)

LEMMA StartTypes ==
  ASSUME TypeOK, NEW r \in Requests, NEW b \in Jobs, NEW to \in Stages, Goto(r, to),
         NEW lists \in SUBSET SUBSET Songs,
         StartJob(b, lists) \/ UNCHANGED <<store, owner, jobs>>,
         UNCHANGED <<song, attached, call, reply>>
  PROVE  TypeOK'
<1>1. CASE StartJob(b, lists)
  BY <1>1 DEF TypeOK, StartJob, Goto, store
<1>2. CASE UNCHANGED <<store, owner, jobs>>
  BY <1>2 DEF TypeOK, Goto, store, jobs
<1> QED
  BY <1>1, <1>2

LEMMA RequestTypes ==
  ASSUME TypeOK, HasSong, NEW r \in Requests,
         \/ \E s \in Songs, attachment \in BOOLEAN : Ask(r, s, attachment)
         \/ Admit(r) \/ HasStored(r) \/ Receive(r) \/ TimerFires(r) \/ ClientLeaves(r)
         \/ RedirectToSelf(r) \/ Read(r)
         \/ \E b \in Jobs : EnsureAlbum(r, b) \/ EnsureSongPlaylists(r, b)
         \/ \E c \in Calls : HoldUntilDownloaded(r, c)
  PROVE  TypeOK'
<1>1. ASSUME NEW s \in Songs, NEW attachment \in BOOLEAN, Ask(r, s, attachment) PROVE TypeOK'
  BY <1>1 DEF TypeOK, Ask, Goto, store, jobs
<1>2. CASE Admit(r) \/ HasStored(r) \/ RedirectToSelf(r) \/ Read(r)
  BY <1>2 DEF TypeOK, Admit, HasStored, RedirectToSelf, Read, Goto, store, jobs
<1>3. CASE Receive(r) \/ TimerFires(r) \/ ClientLeaves(r)
  BY <1>3 DEF TypeOK, Receive, TimerFires, ClientLeaves, LeaveSelect, Goto, store, jobs
<1>4. ASSUME NEW b \in Jobs, EnsureAlbum(r, b) PROVE TypeOK'
  <2>1. song[r] \in Songs
    BY <1>4 DEF EnsureAlbum, HasSong, Admitted
  <2>2. {Album[song[r]]} \in SUBSET SUBSET Songs
    BY <2>1, AlbumAssumption
  <2> QED
    BY <1>4, <2>2, StartTypes DEF EnsureAlbum, store
<1>5. ASSUME NEW b \in Jobs, EnsureSongPlaylists(r, b) PROVE TypeOK'
  <2>1. {list \in Playlists : song[r] \in list} \in SUBSET SUBSET Songs
    BY PlaylistsAssumption
  <2> QED
    BY <1>5, <2>1, StartTypes DEF EnsureSongPlaylists, store
<1>6. ASSUME NEW c \in Calls, HoldUntilDownloaded(r, c) PROVE TypeOK'
  <2>1. song[r] \in Songs
    BY <1>6 DEF HoldUntilDownloaded, HasSong, Admitted
  <2> QED
    BY <1>6, <2>1 DEF TypeOK, HoldUntilDownloaded, StartCall, Store!Ask, Goto, jobs
<1> QED
  BY <1>1, <1>2, <1>3, <1>4, <1>5, <1>6

LEMMA JobTypes ==
  ASSUME TypeOK, NEW b \in Jobs,
         \/ NextList(b)
         \/ \E s \in Songs : Look(b, s)
         \/ \E c \in Calls : Acquire(b, c)
  PROVE  TypeOK'
<1>1. CASE NextList(b)
  <2>1. CASE later[b] = {}
    BY <1>1, <2>1 DEF TypeOK, NextList, store, requests
  <2>2. CASE later[b] # {}
    <3>1. PICK list \in later[b] : todo' = [todo EXCEPT ![b] = list]
                                   /\ later' = [later EXCEPT ![b] = @ \ {list}]
      BY <1>1, <2>2 DEF NextList
    <3>2. list \in SUBSET Songs /\ later[b] \ {list} \in SUBSET SUBSET Songs
      BY <3>1 DEF TypeOK
    <3> QED
      BY <1>1, <2>2, <3>1, <3>2 DEF TypeOK, NextList, store, requests
  <2> QED
    BY <2>1, <2>2
<1>2. ASSUME NEW s \in Songs, Look(b, s) PROVE TypeOK'
  BY <1>2 DEF TypeOK, Look, store, requests
<1>3. ASSUME NEW c \in Calls, Acquire(b, c) PROVE TypeOK'
  BY <1>3 DEF TypeOK, Acquire, StartCall, Store!Ask, requests
<1> QED
  BY <1>1, <1>2, <1>3

LEMMA CallTypes ==
  ASSUME TypeOK, NEW c \in Calls, Send(c) \/ Release(c)
  PROVE  TypeOK'
<1>1. CASE Send(c)
  <2>1. state[c] \in {"ok", "error"}
    BY <1>1 DEF Send, Store!Take
  <2> QED
    BY <1>1, <2>1 DEF TypeOK, Send, Store!Take, jobs
<1>2. CASE Release(c)
  BY <1>2 DEF TypeOK, Release, Store!Take, requests
<1> QED
  BY <1>1, <1>2

LEMMA StoreTypes ==
  ASSUME TypeOK, EnsureSong
  PROVE  TypeOK'
<1>1. UNCHANGED <<requests, owner, jobs>>
  BY DEF EnsureSong
<1>2. ASSUME NEW s \in Songs, Store!Add(s) PROVE Store!TypeOK'
  BY <1>2 DEF TypeOK, Store!Add
<1>3. ASSUME NEW s \in Songs, NEW answered \in SUBSET Calls, NEW r \in {"ok", "error"},
             Store!Answer(s, answered, r)
      PROVE  Store!TypeOK'
  BY <1>3 DEF TypeOK, Store!Answer
<1> QED
  BY <1>1, <1>2, <1>3 DEF EnsureSong, TypeOK, requests, jobs

LEMMA TypesKept == IInv /\ [Next]_vars => TypeOK'
<1>1. ASSUME IInv, Next PROVE TypeOK'
  BY <1>1, RequestTypes, JobTypes, CallTypes, StoreTypes DEF Next, IInv
<1>2. ASSUME IInv, UNCHANGED vars PROVE TypeOK'
  BY <1>2 DEF IInv, TypeOK, vars, store, requests, jobs
<1> QED
  BY <1>1, <1>2

-----------------------------------------------------------------------------
(* Requests *)

RequestInv == OnlyHeld /\ OwnSong /\ OkIsStored /\ HasSong /\ ReadFindsSong

\* A request that leaves the select, or moves on outside of it, and whose next
\* stage reads only a stored song.
LEMMA MovesOn ==
  ASSUME TypeOK, RequestInv, NEW r \in Requests, NEW to \in Stages \ {"held"},
         Goto(r, to), to \in Admitted => song[r] \in Songs, to = "read" => song[r] \in available,
         UNCHANGED <<store, song, owner>>,
         \/ stage[r] # "held" /\ UNCHANGED <<call, reply>>
         \/ /\ call' = [call EXCEPT ![r] = NoCall]
            /\ reply' = [reply EXCEPT ![r] = "none"]
  PROVE  RequestInv'
<1>1. OnlyHeld' /\ HasSong' /\ ReadFindsSong'
  BY DEF RequestInv, TypeOK, OnlyHeld, HasSong, ReadFindsSong, Goto, store
<1>2. OwnSong'
  BY NoCallAssumption DEF RequestInv, TypeOK, OwnSong, store
<1>3. OkIsStored'
  BY DEF RequestInv, TypeOK, OkIsStored, store
<1> QED
  BY <1>1, <1>2, <1>3 DEF RequestInv

LEMMA AskKeeps ==
  ASSUME TypeOK, RequestInv, NEW r \in Requests, NEW s \in Songs,
         NEW attachment \in BOOLEAN, Ask(r, s, attachment)
  PROVE  RequestInv'
<1>1. stage[r] # "held" /\ call[r] = NoCall /\ reply[r] = "none"
  BY DEF Ask, RequestInv, OnlyHeld
<1>2. OnlyHeld' /\ HasSong' /\ ReadFindsSong'
  BY DEF Ask, RequestInv, TypeOK, OnlyHeld, HasSong, ReadFindsSong, Goto, store
<1>3. OwnSong' /\ OkIsStored'
  BY <1>1, NoCallAssumption DEF Ask, RequestInv, TypeOK, OwnSong, OkIsStored, store
<1> QED
  BY <1>2, <1>3 DEF RequestInv

LEMMA HoldKeeps ==
  ASSUME TypeOK, RequestInv, NEW r \in Requests, NEW c \in Calls, HoldUntilDownloaded(r, c)
  PROVE  RequestInv'
<1>1. asked' = [asked EXCEPT ![c] = {song[r]}] /\ owner' = [owner EXCEPT ![c] = r]
      /\ state' = [state EXCEPT ![c] = "pending"] /\ available' = available
      /\ owner[c] = Nobody /\ song' = song
  BY DEF HoldUntilDownloaded, StartCall, Store!Ask
<1>2. call' = [call EXCEPT ![r] = c] /\ reply' = [reply EXCEPT ![r] = "none"]
      /\ stage[r] = "has" /\ stage' = [stage EXCEPT ![r] = "held"]
  BY DEF HoldUntilDownloaded, Goto
<1>3. OnlyHeld' /\ HasSong' /\ ReadFindsSong'
  BY <1>1, <1>2 DEF RequestInv, TypeOK, OnlyHeld, HasSong, Admitted, ReadFindsSong
<1>4. OwnSong'
  BY <1>1, <1>2, JobsAssumption DEF RequestInv, TypeOK, OwnSong
<1>5. OkIsStored'
  BY <1>1, <1>2 DEF RequestInv, TypeOK, OkIsStored
<1> QED
  BY <1>3, <1>4, <1>5 DEF RequestInv

LEMMA RequestKeeps ==
  ASSUME TypeOK, RequestInv, NEW r \in Requests,
         \/ \E s \in Songs, attachment \in BOOLEAN : Ask(r, s, attachment)
         \/ Admit(r) \/ HasStored(r) \/ Receive(r) \/ TimerFires(r) \/ ClientLeaves(r)
         \/ RedirectToSelf(r) \/ Read(r)
         \/ \E b \in Jobs : EnsureAlbum(r, b) \/ EnsureSongPlaylists(r, b)
         \/ \E c \in Calls : HoldUntilDownloaded(r, c)
  PROVE  RequestInv'
<1> USE DEF store
<1>0. stage[r] \in Admitted => song[r] \in Songs
  BY DEF RequestInv, HasSong
<1>1. CASE Admit(r)
  BY <1>0, <1>1, MovesOn DEF Admit, Admitted
<1>2. CASE HasStored(r)
  BY <1>0, <1>2, MovesOn DEF HasStored, Admitted
<1>3. CASE Receive(r)
  <2>1. reply[r] = "ok" => song[r] \in available
    BY DEF RequestInv, OkIsStored
  <2> QED
    BY <1>0, <1>3, <2>1, MovesOn DEF Receive, LeaveSelect, Admitted
<1>4. CASE TimerFires(r) \/ ClientLeaves(r)
  BY <1>0, <1>4, MovesOn DEF TimerFires, ClientLeaves, LeaveSelect, Admitted
<1>5. CASE RedirectToSelf(r)
  BY <1>0, <1>5, MovesOn DEF RedirectToSelf, Admitted
<1>6. CASE Read(r)
  BY <1>0, <1>6, MovesOn DEF Read, Admitted
<1>7. ASSUME NEW b \in Jobs, EnsureAlbum(r, b) \/ EnsureSongPlaylists(r, b) PROVE RequestInv'
  <2>1. UNCHANGED <<store, owner>>
    BY <1>7 DEF EnsureAlbum, EnsureSongPlaylists, StartJob
  <2> QED
    BY <1>0, <1>7, <2>1, MovesOn DEF EnsureAlbum, EnsureSongPlaylists, Admitted
<1> QED
  BY <1>1, <1>2, <1>3, <1>4, <1>5, <1>6, <1>7, AskKeeps, HoldKeeps

\* A goroutine that starts for a job, or ends, leaves the requests in order.
LEMMA CallKeeps ==
  ASSUME TypeOK, RequestInv, NEW c \in Calls,
         \/ Send(c) \/ Release(c)
         \/ \E b \in Jobs : Acquire(b, c)
  PROVE  RequestInv'
<1>1. CASE Send(c)
  <2>1. song' = song /\ stage' = stage /\ call' = call /\ available' = available
        /\ owner' = [owner EXCEPT ![c] = Nobody] /\ owner[c] \in Requests
        /\ asked' = [asked EXCEPT ![c] = {}] /\ state' = [state EXCEPT ![c] = "idle"]
    BY <1>1 DEF Send, Store!Take
  <2>2. ASSUME NEW r \in Requests, reply'[r] # reply[r]
        PROVE  call[r] = c /\ owner[c] = r /\ reply'[r] = state[c]
    BY <1>1, <2>2 DEF Send, TypeOK
  <2>3. OnlyHeld'
    BY <2>1, <2>2, NoCallAssumption DEF RequestInv, OnlyHeld
  <2>4. OwnSong'
    BY <2>1, JobsAssumption DEF RequestInv, TypeOK, OwnSong
  <2>5. ASSUME NEW r \in Requests, reply'[r] = "ok" PROVE song[r] \in available
    <3>1. CASE reply'[r] = reply[r]
      BY <2>5, <3>1 DEF RequestInv, OkIsStored
    <3>2. CASE reply'[r] # reply[r]
      <4>1. stage[r] = "held" /\ asked[c] = {song[r]} /\ state[c] = "ok"
        BY <2>2, <2>5, <3>2, NoCallAssumption DEF RequestInv, OnlyHeld, OwnSong
      <4> QED
        BY <4>1 DEF RequestInv, OkIsStored, HasSong, Admitted
    <3> QED
      BY <3>1, <3>2
  <2>6. OkIsStored'
    BY <2>1, <2>5 DEF RequestInv, TypeOK, OkIsStored
  <2>7. HasSong' /\ ReadFindsSong'
    BY <2>1 DEF RequestInv, HasSong, ReadFindsSong
  <2> QED
    BY <2>3, <2>4, <2>6, <2>7 DEF RequestInv
<1>2. CASE Release(c)
  <2>1. UNCHANGED <<requests, available>> /\ owner' = [owner EXCEPT ![c] = Nobody]
        /\ asked' = [asked EXCEPT ![c] = {}] /\ state' = [state EXCEPT ![c] = "idle"]
    BY <1>2 DEF Release, Store!Take
  <2> QED
    BY <2>1, JobsAssumption DEF requests, RequestInv, TypeOK, OnlyHeld, OwnSong, OkIsStored,
       HasSong, ReadFindsSong
<1>3. ASSUME NEW b \in Jobs, Acquire(b, c) PROVE RequestInv'
  <2>1. UNCHANGED <<requests, available>> /\ owner' = [owner EXCEPT ![c] = b]
        /\ asked' = [asked EXCEPT ![c] = {next[b]}] /\ state' = [state EXCEPT ![c] = "pending"]
    BY <1>3 DEF Acquire, StartCall, Store!Ask
  <2> QED
    BY <2>1, JobsAssumption DEF requests, RequestInv, TypeOK, OnlyHeld, OwnSong, OkIsStored,
       HasSong, ReadFindsSong
<1> QED
  BY <1>1, <1>2, <1>3

LEMMA StoreKeeps ==
  ASSUME TypeOK, RequestInv, EnsureSong
  PROVE  RequestInv'
<1>1. UNCHANGED <<requests, owner>> /\ asked' = asked /\ available \subseteq available'
  BY DEF EnsureSong, Store!Add, Store!Answer
<1>2. OnlyHeld' /\ OwnSong' /\ HasSong' /\ ReadFindsSong'
  BY <1>1 DEF requests, RequestInv, OnlyHeld, OwnSong, HasSong, ReadFindsSong
<1>3. ASSUME NEW c \in Calls, NEW s \in Songs, state'[c] = "ok", asked[c] = {s}
      PROVE  s \in available'
  <2>1. CASE state[c] = "ok"
    BY <1>1, <1>3, <2>1 DEF RequestInv, OkIsStored
  <2>2. CASE state[c] # "ok"
    <3>1. PICK t \in Songs, answered \in SUBSET Calls, r \in {"ok", "error"} :
            Store!Answer(t, answered, r)
      BY <1>3, <2>2 DEF EnsureSong, Store!Add
    <3>2. c \in answered /\ r = "ok"
      BY <1>3, <2>2, <3>1 DEF Store!Answer
    <3> QED
      BY <1>1, <1>3, <3>1, <3>2 DEF Store!Answer
  <2> QED
    BY <2>1, <2>2
<1>4. OkIsStored'
  BY <1>1, <1>3 DEF requests, RequestInv, OkIsStored
<1> QED
  BY <1>2, <1>4 DEF RequestInv

LEMMA RequestsKept == IInv /\ [Next]_vars => RequestInv'
<1>1. ASSUME IInv, Next PROVE RequestInv'
  <2>1. TypeOK /\ RequestInv
    BY <1>1 DEF IInv, RequestInv
  <2>2. ASSUME NEW b \in Jobs, NextList(b) \/ \E s \in Songs : Look(b, s) PROVE RequestInv'
    <3>1. UNCHANGED <<store, requests, owner>>
      BY <2>2 DEF NextList, Look
    <3> QED
      BY <2>1, <3>1 DEF store, requests, RequestInv, OnlyHeld, OwnSong, OkIsStored, HasSong,
         ReadFindsSong
  <2> QED
    BY <1>1, <2>1, <2>2, RequestKeeps, CallKeeps, StoreKeeps DEF Next
<1>2. ASSUME IInv, UNCHANGED vars PROVE RequestInv'
  BY <1>2 DEF IInv, vars, store, requests, RequestInv, OnlyHeld, OwnSong, OkIsStored,
     HasSong, ReadFindsSong
<1> QED
  BY <1>1, <1>2

-----------------------------------------------------------------------------
(* Semaphores *)

LEMMA SemUnchanged ==
  ASSUME TypeOK, SemIsRunning, UNCHANGED sem,
         \A c \in Calls, b \in Jobs : owner'[c] = b <=> owner[c] = b
  PROVE  SemIsRunning'
<1>1. \A b \in Jobs : Running(b)' = Running(b)
  BY DEF Running
<1> QED
  BY <1>1 DEF SemIsRunning

LEMMA SemKept == IInv /\ [Next]_vars => SemIsRunning'
<1> SUFFICES ASSUME IInv, [Next]_vars PROVE SemIsRunning'
  OBVIOUS
<1>0. TypeOK /\ SemIsRunning
  BY DEF IInv
<1>1. ASSUME NEW r \in Requests, NEW c \in Calls, HoldUntilDownloaded(r, c) PROVE SemIsRunning'
  <2>1. owner[c] = Nobody /\ owner' = [owner EXCEPT ![c] = r] /\ sem' = sem
    BY <1>1 DEF HoldUntilDownloaded, StartCall, jobs
  <2> QED
    BY <1>0, <2>1, SemUnchanged, JobsAssumption DEF TypeOK
<1>2. ASSUME NEW c \in Calls, Send(c) PROVE SemIsRunning'
  <2>1. owner[c] \in Requests /\ owner' = [owner EXCEPT ![c] = Nobody] /\ sem' = sem
    BY <1>2 DEF Send, jobs
  <2> QED
    BY <1>0, <2>1, SemUnchanged, JobsAssumption DEF TypeOK
<1>3. ASSUME NEW b \in Jobs, NextList(b) PROVE SemIsRunning'
  <2>1. Running(b) = {} /\ owner' = owner /\ sem[b] = {}
    BY <1>0, <1>3 DEF NextList, Waited, SemIsRunning
  <2>2. sem' = sem
    <3>1. sem \in [Jobs -> SUBSET Calls] /\ (sem' = sem \/ sem' = [sem EXCEPT ![b] = {}])
      BY <1>0, <1>3 DEF NextList, TypeOK
    <3> QED
      BY <2>1, <3>1
  <2> QED
    BY <1>0, <2>1, <2>2, SemUnchanged
<1>4. ASSUME NEW b \in Jobs, NEW c \in Calls, Acquire(b, c) PROVE SemIsRunning'
  <2>1. owner[c] = Nobody /\ owner' = [owner EXCEPT ![c] = b]
        /\ sem' = [sem EXCEPT ![b] = @ \cup {c}] /\ Cardinality(sem[b]) < Slots
    BY <1>4 DEF Acquire, StartCall
  <2>2. Running(b)' = Running(b) \cup {c}
    BY <1>0, <2>1 DEF Running, TypeOK
  <2>3. \A d \in Jobs \ {b} : Running(d)' = Running(d)
    BY <1>0, <2>1, JobsAssumption DEF Running, TypeOK
  <2>4. sem[b] \subseteq Calls /\ IsFiniteSet(sem[b])
    BY <1>0, CallsAssumption, FS_Subset DEF TypeOK
  <2>5. c \notin sem[b]
    BY <1>0, <2>1, JobsAssumption DEF SemIsRunning, Running
  <2>6. Cardinality(sem[b]) \in Nat /\ Cardinality(sem[b] \cup {c}) = Cardinality(sem[b]) + 1
    BY <2>4, <2>5, FS_AddElement, FS_CardinalityType
  <2>7. sem'[b] = sem[b] \cup {c} /\ Cardinality(sem'[b]) <= Slots
    BY <1>0, <2>1, <2>6, SlotsAssumption DEF TypeOK
  <2> QED
    BY <1>0, <2>1, <2>2, <2>3, <2>7 DEF SemIsRunning, TypeOK
<1>5. ASSUME NEW c \in Calls, Release(c) PROVE SemIsRunning'
  <2>0. PICK b \in Jobs : b = owner[c]
    BY <1>5 DEF Release
  <2>1. owner[c] = b /\ owner' = [owner EXCEPT ![c] = Nobody]
        /\ sem' = [sem EXCEPT ![b] = @ \ {c}]
    BY <1>5, <2>0 DEF Release
  <2>2. Running(b)' = Running(b) \ {c}
    BY <1>0, <2>1, JobsAssumption DEF Running, TypeOK
  <2>3. \A d \in Jobs \ {b} : Running(d)' = Running(d)
    BY <1>0, <2>1, JobsAssumption DEF Running, TypeOK
  <2>4. IsFiniteSet(sem[b]) /\ c \in sem[b]
    BY <1>0, <2>1, CallsAssumption, FS_Subset DEF TypeOK, SemIsRunning, Running
  <2>5. Cardinality(sem[b]) \in Nat /\ Cardinality(sem[b] \ {c}) = Cardinality(sem[b]) - 1
    BY <2>4, FS_RemoveElement, FS_CardinalityType
  <2>6. sem'[b] = sem[b] \ {c} /\ Cardinality(sem'[b]) <= Slots
    BY <1>0, <2>1, <2>5, SlotsAssumption DEF TypeOK, SemIsRunning
  <2> QED
    BY <1>0, <2>1, <2>2, <2>3, <2>6 DEF SemIsRunning, TypeOK
<1>6. CASE UNCHANGED <<owner, sem>>
  BY <1>0, <1>6, SemUnchanged
<1>7. ASSUME NEW r \in Requests,
             \/ \E s \in Songs, attachment \in BOOLEAN : Ask(r, s, attachment)
             \/ Admit(r) \/ HasStored(r) \/ Receive(r) \/ TimerFires(r) \/ ClientLeaves(r)
             \/ RedirectToSelf(r) \/ Read(r)
      PROVE  UNCHANGED <<owner, sem>>
  BY <1>7 DEF Ask, Admit, HasStored, Receive, TimerFires, ClientLeaves, RedirectToSelf, Read,
     LeaveSelect, jobs
<1>8. ASSUME NEW r \in Requests, NEW b \in Jobs, EnsureAlbum(r, b) \/ EnsureSongPlaylists(r, b)
      PROVE  UNCHANGED <<owner, sem>>
  BY <1>8 DEF EnsureAlbum, EnsureSongPlaylists, StartJob, jobs
<1>9. ASSUME NEW b \in Jobs, NEW s \in Songs, Look(b, s) PROVE UNCHANGED <<owner, sem>>
  BY <1>9 DEF Look
<1>10. CASE EnsureSong \/ UNCHANGED vars
  BY <1>6, <1>10 DEF EnsureSong, vars, jobs
<1> QED
  BY <1>1, <1>2, <1>3, <1>4, <1>5, <1>6, <1>7, <1>8, <1>9, <1>10 DEF Next

-----------------------------------------------------------------------------

\* The inductive invariant of the handlers, their goroutines and their jobs.
THEOREM Invariant == Spec => []IInv
<1>1. IInv /\ [Next]_vars => IInv'
  BY TypesKept, RequestsKept, SemKept DEF IInv, RequestInv
<1> QED
  BY <1>1, InitHolds, PTL DEF Spec

\* Whatever the jobs and goroutines in progress, each variable keeps its type.
THEOREM TypeCorrect == Spec => []TypeOK
<1>1. IInv => TypeOK
  BY DEF IInv
<1> QED
  BY <1>1, Invariant, PTL

\* A request let through to storage.Get finds its song, for any number of
\* requests, jobs and goroutines.
THEOREM ReadsAreServed == Spec => []ReadFindsSong
<1>1. IInv => ReadFindsSong
  BY DEF IInv
<1> QED
  BY <1>1, Invariant, PTL

\* No job has more downloads going than its semaphore has slots.
THEOREM SlotsHold == Spec => []SlotsRespected
<1>1. IInv => SlotsRespected
  BY DEF IInv, SemIsRunning, SlotsRespected
<1> QED
  BY <1>1, Invariant, PTL
=============================================================================
