------------------------- MODULE SongDownloadProofs -------------------------
(* For any songs, any number of goroutines and any number of crashes:       *)
(* DownloadInv is an invariant of SongDownload, with it the safety          *)
(* properties, and SongDownload implements SongStore.                       *)
EXTENDS SongDownload, TLAPS

\* What the steps of the code keep, stage names and outcomes spelt out.
USE DEF Leading, LeadStages, FetchStages, PutStages

LEMMA InitInv == Init => DownloadInv
<1> SUFFICES ASSUME Init PROVE DownloadInv
  OBVIOUS
<1> USE NoCallAssumption, NoSongAssumption, CrashAssumption DEF Init
<1>1. TypeOK
  BY DEF TypeOK, Stages
<1>2. HasSongInv /\ LeaderInv /\ FlightHasLeader
  BY DEF HasSongInv, LeaderInv, FlightHasLeader
<1>3. TempInv /\ WholeInv /\ MarkInv /\ ResultInv
  BY DEF TempInv, WholeInv, MarkInv, ResultInv
<1>4. NeverRedownload /\ MarkedIsStored
  BY DEF NeverRedownload, MarkedIsStored
<1> QED
  BY <1>1, <1>2, <1>3, <1>4 DEF DownloadInv

\* What storage.Has tells: a positive answer is never wrong, a negative one
\* never on the filesystem.
LEMMA HasTells ==
  ASSUME NEW s \in Songs
  PROVE  /\ TRUE \in HasOutcomes(s) => file[s] # "absent"
         /\ FALSE \in HasOutcomes(s) /\ Backend = "filesystem" => file[s] = "absent"
<1>1. CASE file[s] = "absent"
  BY <1>1 DEF HasOutcomes
<1>2. CASE file[s] # "absent"
  BY <1>2 DEF HasOutcomes
<1> QED
  BY <1>1, <1>2

LEMMA EnsureInv ==
  ASSUME DownloadInv, NEW c \in Calls, NEW s \in Songs, EnsureSong(c, s)
  PROVE  DownloadInv'
<1> USE NoCallAssumption DEF EnsureSong, durable, DownloadInv
<1>1. TypeOK'
  BY DEF TypeOK, Stages
<1>2. HasSongInv' /\ LeaderInv' /\ FlightHasLeader'
  BY DEF TypeOK, HasSongInv, LeaderInv, FlightHasLeader
<1>3. TempInv' /\ WholeInv' /\ MarkInv' /\ ResultInv'
  BY DEF TypeOK, TempInv, WholeInv, MarkInv, ResultInv
<1>4. NeverRedownload' /\ MarkedIsStored'
  BY DEF TypeOK, NeverRedownload, MarkedIsStored
<1> QED
  BY <1>1, <1>2, <1>3, <1>4

LEMMA HasOutsideInv ==
  ASSUME DownloadInv, NEW c \in Calls, HasOutside(c)
  PROVE  DownloadInv'
<1> USE NoCallAssumption DEF durable, DownloadInv
<1>1. /\ pc[c] = "has" /\ song[c] \in Songs
      /\ UNCHANGED <<file, marked, flight, song, temp, crashes>>
  BY DEF HasOutside, HasSongInv
<1>2. CASE \E r \in {"ok", "error"} :
             /\ ReturnWith(c, r)
             /\ r = "ok" => file[song[c]] = "complete"
  <2> USE <1>1, <1>2 DEF ReturnWith
  <2>1. TypeOK'
    BY DEF TypeOK, Stages
  <2>2. HasSongInv' /\ LeaderInv' /\ FlightHasLeader'
    BY DEF TypeOK, HasSongInv, LeaderInv, FlightHasLeader
  <2>3. TempInv' /\ WholeInv' /\ MarkInv' /\ ResultInv'
    BY DEF TypeOK, TempInv, WholeInv, MarkInv, ResultInv
  <2>4. NeverRedownload' /\ MarkedIsStored'
    BY DEF TypeOK, NeverRedownload, MarkedIsStored
  <2> QED
    BY <2>1, <2>2, <2>3, <2>4
<1>3. CASE Goto(c, "do")
  <2> USE <1>1, <1>3 DEF Goto
  <2>1. TypeOK'
    BY DEF TypeOK, Stages
  <2>2. HasSongInv' /\ LeaderInv' /\ FlightHasLeader'
    BY DEF TypeOK, HasSongInv, LeaderInv, FlightHasLeader
  <2>3. TempInv' /\ WholeInv' /\ MarkInv' /\ ResultInv'
    BY DEF TypeOK, TempInv, WholeInv, MarkInv, ResultInv
  <2>4. NeverRedownload' /\ MarkedIsStored'
    BY DEF TypeOK, NeverRedownload, MarkedIsStored
  <2> QED
    BY <2>1, <2>2, <2>3, <2>4
<1>4. TRUE \in HasOutcomes(song[c]) => file[song[c]] = "complete"
  BY <1>1, HasTells DEF TypeOK, WholeInv
<1> QED
  BY <1>2, <1>3, <1>4 DEF HasOutside

LEMMA GroupDoInv ==
  ASSUME DownloadInv, NEW c \in Calls, GroupDo(c)
  PROVE  DownloadInv'
<1> USE NoCallAssumption DEF GroupDo, durable, DownloadInv
<1>1. TypeOK'
  BY DEF TypeOK, Stages
<1>2. HasSongInv' /\ LeaderInv' /\ FlightHasLeader'
  BY DEF TypeOK, HasSongInv, LeaderInv, FlightHasLeader
<1>3. TempInv' /\ WholeInv' /\ MarkInv' /\ ResultInv'
  BY DEF TypeOK, HasSongInv, LeaderInv, TempInv, WholeInv, MarkInv, ResultInv
<1>4. NeverRedownload' /\ MarkedIsStored'
  BY DEF TypeOK, HasSongInv, LeaderInv, TempInv, MarkInv, NeverRedownload, MarkedIsStored
<1> QED
  BY <1>1, <1>2, <1>3, <1>4

LEMMA HasInsideInv ==
  ASSUME DownloadInv, NEW c \in Calls, HasInside(c)
  PROVE  DownloadInv'
<1> USE NoCallAssumption DEF durable, DownloadInv
<1>1. /\ pc[c] = "recheck" /\ song[c] \in Songs
      /\ UNCHANGED <<file, marked, flight, song, temp, crashes>>
  BY DEF HasInside, HasSongInv
<1>2. CASE EndFlight(c, "ok") /\ file[song[c]] = "complete"
  <2> USE <1>1, <1>2 DEF EndFlight
  <2>1. TypeOK'
    BY DEF TypeOK, Stages
  <2>2. HasSongInv' /\ LeaderInv' /\ FlightHasLeader'
    BY DEF TypeOK, HasSongInv, LeaderInv, FlightHasLeader
  <2>3. TempInv' /\ WholeInv' /\ MarkInv' /\ ResultInv'
    BY DEF TypeOK, TempInv, WholeInv, MarkInv, ResultInv
  <2>4. NeverRedownload' /\ MarkedIsStored'
    BY DEF TypeOK, NeverRedownload, MarkedIsStored
  <2> QED
    BY <2>1, <2>2, <2>3, <2>4
<1>3. CASE /\ Goto(c, "prepare")
           /\ Backend = "filesystem" => file[song[c]] = "absent"
  <2> USE <1>1, <1>3 DEF Goto
  <2>1. TypeOK'
    BY DEF TypeOK, Stages
  <2>2. HasSongInv' /\ LeaderInv' /\ FlightHasLeader'
    BY DEF TypeOK, HasSongInv, LeaderInv, FlightHasLeader
  <2>3. TempInv' /\ WholeInv' /\ MarkInv' /\ ResultInv'
    BY DEF TypeOK, TempInv, WholeInv, MarkInv, ResultInv
  <2>4. NeverRedownload' /\ MarkedIsStored'
    BY DEF TypeOK, NeverRedownload, MarkedIsStored
  <2> QED
    BY <2>1, <2>2, <2>3, <2>4
<1>4. TRUE \in HasOutcomes(song[c]) => file[song[c]] = "complete"
  BY <1>1, HasTells DEF TypeOK, WholeInv
<1>5. FALSE \in HasOutcomes(song[c]) =>
        (Backend = "filesystem" => file[song[c]] = "absent")
  BY <1>1, HasTells
<1> QED
  BY <1>2, <1>3, <1>4, <1>5 DEF HasInside

LEMMA FetchInv ==
  ASSUME DownloadInv, NEW c \in Calls, Prepare(c) \/ ViaWorker(c) \/ ViaCli(c) \/ FindAudioFile(c)
  PROVE  DownloadInv'
<1> USE NoCallAssumption DEF Prepare, ViaWorker, ViaCli, FindAudioFile, EndFlight, Goto, durable, DownloadInv
<1>1. TypeOK'
  BY DEF TypeOK, Stages
<1>2. HasSongInv' /\ LeaderInv' /\ FlightHasLeader'
  BY DEF TypeOK, HasSongInv, LeaderInv, FlightHasLeader
<1>3. TempInv' /\ WholeInv' /\ MarkInv' /\ ResultInv'
  BY DEF TypeOK, HasSongInv, LeaderInv, TempInv, WholeInv, MarkInv, ResultInv
<1>4. NeverRedownload' /\ MarkedIsStored'
  BY DEF TypeOK, HasSongInv, LeaderInv, TempInv, MarkInv, NeverRedownload, MarkedIsStored
<1> QED
  BY <1>1, <1>2, <1>3, <1>4

LEMMA PutStartInv ==
  ASSUME DownloadInv, NEW c \in Calls, PutStart(c) \/ PutCopy(c)
  PROVE  DownloadInv'
<1> USE NoCallAssumption DEF PutStart, PutCopy, EndFlight, Goto, durable, DownloadInv
<1>1. TypeOK'
  BY DEF TypeOK, Stages
<1>2. HasSongInv' /\ LeaderInv' /\ FlightHasLeader'
  BY DEF TypeOK, HasSongInv, LeaderInv, FlightHasLeader
<1>3. TempInv' /\ WholeInv' /\ MarkInv' /\ ResultInv'
  BY DEF TypeOK, HasSongInv, LeaderInv, TempInv, WholeInv, MarkInv, ResultInv
<1>4. NeverRedownload' /\ MarkedIsStored'
  BY DEF TypeOK, HasSongInv, LeaderInv, TempInv, MarkInv, NeverRedownload, MarkedIsStored
<1> QED
  BY <1>1, <1>2, <1>3, <1>4

LEMMA PutEndInv ==
  ASSUME DownloadInv, NEW c \in Calls, PutRename(c) \/ PutObject(c)
  PROVE  DownloadInv'
<1> USE NoCallAssumption DEF PutRename, PutObject, EndFlight, Goto, durable, DownloadInv
<1>1. TypeOK'
  BY DEF TypeOK, Stages, HasSongInv, TempInv
<1>2. HasSongInv' /\ LeaderInv' /\ FlightHasLeader'
  BY DEF TypeOK, HasSongInv, LeaderInv, FlightHasLeader
<1>3. TempInv' /\ WholeInv' /\ MarkInv' /\ ResultInv'
  BY DEF TypeOK, HasSongInv, LeaderInv, TempInv, WholeInv, MarkInv, ResultInv
<1>4. NeverRedownload' /\ MarkedIsStored'
  BY DEF TypeOK, HasSongInv, LeaderInv, TempInv, MarkInv, NeverRedownload, MarkedIsStored
<1> QED
  BY <1>1, <1>2, <1>3, <1>4

LEMMA MarkStepInv ==
  ASSUME DownloadInv, NEW c \in Calls, Mark(c)
  PROVE  DownloadInv'
<1> USE NoCallAssumption DEF Mark, EndFlight, durable, DownloadInv
<1>1. TypeOK'
  BY DEF TypeOK, Stages, HasSongInv, TempInv
<1>2. HasSongInv' /\ LeaderInv' /\ FlightHasLeader'
  BY DEF TypeOK, HasSongInv, LeaderInv, FlightHasLeader
<1>3. TempInv' /\ WholeInv' /\ MarkInv' /\ ResultInv'
  BY DEF TypeOK, HasSongInv, LeaderInv, TempInv, WholeInv, MarkInv, ResultInv
<1>4. NeverRedownload' /\ MarkedIsStored'
  BY DEF TypeOK, HasSongInv, LeaderInv, TempInv, MarkInv, NeverRedownload, MarkedIsStored
<1> QED
  BY <1>1, <1>2, <1>3, <1>4

LEMMA LeaveInv ==
  ASSUME DownloadInv, NEW c \in Calls, Leave(c)
  PROVE  DownloadInv'
<1> USE NoCallAssumption DEF Leave, Waiting, durable, DownloadInv
<1>1. TypeOK'
  BY DEF TypeOK, Stages
<1>2. HasSongInv' /\ LeaderInv' /\ FlightHasLeader'
  BY DEF TypeOK, HasSongInv, LeaderInv, FlightHasLeader
<1>3. TempInv' /\ WholeInv' /\ MarkInv' /\ ResultInv'
  BY DEF TypeOK, HasSongInv, LeaderInv, TempInv, WholeInv, MarkInv, ResultInv
<1>4. NeverRedownload' /\ MarkedIsStored'
  BY DEF TypeOK, HasSongInv, LeaderInv, TempInv, MarkInv, NeverRedownload, MarkedIsStored
<1> QED
  BY <1>1, <1>2, <1>3, <1>4

LEMMA ReturnInv ==
  ASSUME DownloadInv, NEW c \in Calls, Return(c)
  PROVE  DownloadInv'
<1> USE NoCallAssumption DEF Return, durable, DownloadInv
<1>1. TypeOK'
  BY DEF TypeOK, Stages
<1>2. HasSongInv' /\ LeaderInv' /\ FlightHasLeader'
  BY DEF TypeOK, HasSongInv, LeaderInv, FlightHasLeader
<1>3. TempInv' /\ WholeInv' /\ MarkInv' /\ ResultInv'
  BY DEF TypeOK, HasSongInv, LeaderInv, TempInv, WholeInv, MarkInv, ResultInv
<1>4. NeverRedownload' /\ MarkedIsStored'
  BY DEF TypeOK, HasSongInv, LeaderInv, TempInv, MarkInv, NeverRedownload, MarkedIsStored
<1> QED
  BY <1>1, <1>2, <1>3, <1>4

LEMMA CrashInv ==
  ASSUME DownloadInv, Crash
  PROVE  DownloadInv'
<1> USE NoCallAssumption, CrashAssumption DEF Crash, durable, DownloadInv
<1>1. TypeOK'
  BY DEF TypeOK, Stages
<1>2. HasSongInv' /\ LeaderInv' /\ FlightHasLeader'
  BY DEF TypeOK, HasSongInv, LeaderInv, FlightHasLeader
<1>3. TempInv' /\ WholeInv' /\ MarkInv' /\ ResultInv'
  BY DEF TypeOK, HasSongInv, LeaderInv, TempInv, WholeInv, MarkInv, ResultInv
<1>4. NeverRedownload' /\ MarkedIsStored'
  BY DEF TypeOK, HasSongInv, LeaderInv, TempInv, MarkInv, NeverRedownload, MarkedIsStored
<1> QED
  BY <1>1, <1>2, <1>3, <1>4

LEMMA StutterInv ==
  ASSUME DownloadInv, UNCHANGED vars
  PROVE  DownloadInv'
<1> USE DEF vars, DownloadInv
<1>1. TypeOK' /\ HasSongInv' /\ LeaderInv' /\ FlightHasLeader'
  BY DEF TypeOK, HasSongInv, LeaderInv, FlightHasLeader
<1>2. TempInv' /\ WholeInv' /\ MarkInv' /\ ResultInv'
  BY DEF TempInv, WholeInv, MarkInv, ResultInv
<1>3. NeverRedownload' /\ MarkedIsStored'
  BY DEF NeverRedownload, MarkedIsStored
<1> QED
  BY <1>1, <1>2, <1>3

LEMMA NextInv == DownloadInv /\ [Next]_vars => DownloadInv'
<1> SUFFICES ASSUME DownloadInv, [Next]_vars PROVE DownloadInv'
  OBVIOUS
<1>1. ASSUME NEW c \in Calls, NEW s \in Songs, EnsureSong(c, s)
      PROVE  DownloadInv'
  BY <1>1, EnsureInv
<1>2. ASSUME NEW c \in Calls, Step(c)
      PROVE  DownloadInv'
  BY <1>2, HasOutsideInv, GroupDoInv, HasInsideInv, FetchInv, PutStartInv,
     PutEndInv, MarkStepInv, LeaveInv DEF Step
<1>3. ASSUME NEW c \in Calls, Return(c)
      PROVE  DownloadInv'
  BY <1>3, ReturnInv
<1> QED
  BY <1>1, <1>2, <1>3, CrashInv, StutterInv DEF Next

\* The stages of the code establish what they are supposed to, in every
\* interleaving of any number of calls and with any number of crashes.
THEOREM Invariant == Spec => []DownloadInv
<1>1. Init => DownloadInv
  BY InitInv
<1>2. DownloadInv /\ [Next]_vars => DownloadInv'
  BY NextInv
<1> QED
  BY <1>1, <1>2, PTL DEF Spec

\* Calls, flights, files and marks stay of their types, crashes included.
THEOREM TypeCorrect == Spec => []TypeOK
<1>1. DownloadInv => TypeOK
  BY DEF DownloadInv
<1> QED
  BY <1>1, Invariant, PTL

\* EnsureSong never runs gamdl for, nor writes, a song that is stored already
\* (filesystem backend): the second Has, inside the group, sees to it.
THEOREM NothingRedownloaded == Spec => []NeverRedownload
<1>1. DownloadInv => NeverRedownload
  BY DEF DownloadInv
<1> QED
  BY <1>1, Invariant, PTL

\* Two calls never lead a download of the same song at the same time.
THEOREM SingleFlight == Spec => []OneFetchPerSong
<1>1. DownloadInv => OneFetchPerSong
  BY DEF DownloadInv, LeaderInv, OneFetchPerSong
<1> QED
  BY <1>1, Invariant, PTL

\* Whoever waits on a flight has a running leader.
THEOREM JoinersHaveLeader == Spec => []FlightHasLeader
<1>1. DownloadInv => FlightHasLeader
  BY DEF DownloadInv
<1> QED
  BY <1>1, Invariant, PTL

\* A row marked "downloaded" belongs to a song that is stored whole, also after
\* crashes.
THEOREM MarksAreTrue == Spec => []MarkedIsStored
<1>1. DownloadInv => MarkedIsStored
  BY DEF DownloadInv
<1> QED
  BY <1>1, Invariant, PTL


-----------------------------------------------------------------------------
(* The refinement: each step of the code is one step of the store's promise *)
(* or changes nothing a caller could tell.                                  *)

Open == Stages \ {"idle", "returned"}

\* A call in the middle of EnsureSong stays in the middle, and the store is
\* left alone: the abstract store stutters.
LEMMA InsideStutters ==
  ASSUME DownloadInv, NEW c \in Calls, pc[c] \in Open,
         \/ \E stage \in Open : Goto(c, stage)
         \/ \E r \in {"ok", "error"} : EndFlight(c, r),
         UNCHANGED <<file, song>>
  PROVE  UNCHANGED Store!vars
<1>1. \A d \in Calls : AbsState(d)' = AbsState(d)
  <2>1. \E stage \in Open : pc' = [pc EXCEPT ![c] = stage]
    BY DEF Goto, EndFlight, Open, Stages
  <2>2. \A d \in Calls \ {c} : result'[d] = result[d]
    BY DEF Goto, EndFlight, DownloadInv, TypeOK
  <2> QED
    BY <2>1, <2>2 DEF DownloadInv, TypeOK, Open, AbsState
<1>2. [d \in Calls |-> AbsState(d)]' = [d \in Calls |-> AbsState(d)]
  BY <1>1
<1> QED
  BY <1>2 DEF Store!vars

LEMMA StoreInit == Init => Store!Init
  BY NoSongAssumption DEF Init, Store!Init, AbsState

LEMMA EnsureIsAsk ==
  ASSUME DownloadInv, NEW c \in Calls, NEW s \in Songs, EnsureSong(c, s)
  PROVE  Store!Next
<1>1. Store!Ask(c, s)
  BY NoSongAssumption DEF DownloadInv, TypeOK, EnsureSong, durable, Store!Ask, AbsState
<1> QED
  BY <1>1 DEF Store!Next

LEMMA HasOutsideRefines ==
  ASSUME DownloadInv, NEW c \in Calls, HasOutside(c)
  PROVE  Store!Next \/ UNCHANGED Store!vars
<1>1. song[c] \in Songs /\ pc[c] = "has" /\ UNCHANGED <<file, song>>
  BY DEF HasOutside, HasSongInv, DownloadInv, durable
<1>2. CASE Goto(c, "do")
  <2>1. pc[c] \in Open /\ "do" \in Open
    BY <1>1 DEF Open, Stages
  <2> QED
    BY <1>1, <1>2, <2>1, InsideStutters
<1>3. ASSUME NEW r \in {"ok", "error"}, ReturnWith(c, r),
             r = "ok" => file[song[c]] = "complete"
      PROVE  Store!Answer(song[c], {c}, r)
  BY <1>1, <1>3, NoSongAssumption
     DEF DownloadInv, TypeOK, ReturnWith, Store!Answer, AbsState
<1>4. TRUE \in HasOutcomes(song[c]) => file[song[c]] = "complete"
  BY <1>1, HasTells DEF DownloadInv, TypeOK, WholeInv
<1>5. ASSUME NEW r \in {"ok", "error"}, Store!Answer(song[c], {c}, r)
      PROVE  Store!Next
  BY <1>1, <1>5 DEF Store!Next
<1> QED
  BY <1>2, <1>3, <1>4, <1>5 DEF HasOutside

\* All the steps of a leader before it stores the song, and the mark.
LEMMA LeaderStutters ==
  ASSUME DownloadInv, NEW c \in Calls,
         GroupDo(c) \/ HasInside(c) \/ Prepare(c) \/ ViaWorker(c) \/ ViaCli(c)
           \/ FindAudioFile(c) \/ PutStart(c) \/ PutCopy(c) \/ Mark(c)
  PROVE  UNCHANGED Store!vars
<1>1. {"do", "recheck", "joined", "prepare", "worker", "cli", "find", "put",
       "copy", "rename", "mark", "leave"} \subseteq Open
  BY DEF Open, Stages
<1>2. CASE GroupDo(c)
  <2>1. pc[c] \in Open /\ \E stage \in Open : Goto(c, stage)
    BY <1>1, <1>2 DEF GroupDo, Goto
  <2> QED
    BY <1>2, <2>1, InsideStutters DEF GroupDo, durable
<1>3. CASE HasInside(c)
  <2>1. /\ pc[c] \in Open
        /\ EndFlight(c, "ok") \/ \E stage \in Open : Goto(c, stage)
    BY <1>1, <1>3 DEF HasInside
  <2> QED
    BY <1>3, <2>1, InsideStutters DEF HasInside, durable
<1>4. ASSUME Prepare(c) \/ ViaWorker(c) \/ ViaCli(c) \/ FindAudioFile(c)
      PROVE  UNCHANGED Store!vars
  <2>1. /\ pc[c] \in Open
        /\ EndFlight(c, "error") \/ \E stage \in Open : Goto(c, stage)
    BY <1>1, <1>4 DEF Prepare, ViaWorker, ViaCli, FindAudioFile
  <2>2. UNCHANGED <<file, song>>
    BY <1>4 DEF Prepare, ViaWorker, ViaCli, FindAudioFile, durable
  <2> QED
    BY <2>1, <2>2, InsideStutters
<1>5. ASSUME PutStart(c) \/ PutCopy(c)
      PROVE  UNCHANGED Store!vars
  <2>1. /\ pc[c] \in Open
        /\ EndFlight(c, "error") \/ \E stage \in Open : Goto(c, stage)
    BY <1>1, <1>5 DEF PutStart, PutCopy
  <2>2. UNCHANGED <<file, song>>
    BY <1>5 DEF PutStart, PutCopy, durable
  <2> QED
    BY <2>1, <2>2, InsideStutters
<1>6. CASE Mark(c)
  <2>1. pc[c] \in Open /\ EndFlight(c, "ok") /\ UNCHANGED <<file, song>>
    BY <1>1, <1>6 DEF Mark
  <2> QED
    BY <2>1, InsideStutters
<1> QED
  BY <1>2, <1>3, <1>4, <1>5, <1>6

\* The song appears: by the rename, or by the object's upload.
LEMMA PutRefines ==
  ASSUME DownloadInv, NEW c \in Calls, PutRename(c) \/ PutObject(c)
  PROVE  Store!Next \/ UNCHANGED Store!vars
<1>1. song[c] \in Songs /\ pc[c] \in {"rename", "put"} /\ UNCHANGED song
  BY DEF PutRename, PutObject, HasSongInv, DownloadInv
<1>2. EndFlight(c, "error") \/ \E stage \in Open : Goto(c, stage)
  <2>1. EndFlight(c, "error") \/ Goto(c, "mark")
    BY DEF PutRename, PutObject
  <2>2. "mark" \in Open
    BY DEF Open, Stages
  <2> QED
    BY <2>1, <2>2
<1>3. file' = file \/ file' = [file EXCEPT ![song[c]] = "complete"]
  BY DEF PutRename, PutObject, DownloadInv, TempInv
<1>4. CASE file' = file
  <2>1. pc[c] \in Open
    BY <1>1 DEF Open, Stages
  <2> QED
    BY <1>1, <1>2, <1>4, <2>1, InsideStutters
<1>5. CASE file' = [file EXCEPT ![song[c]] = "complete"]
  <2>1. \A d \in Calls : AbsState(d)' = AbsState(d)
    BY <1>1, <1>2 DEF DownloadInv, TypeOK, Open, Stages, EndFlight, Goto, AbsState
  <2>2. [d \in Calls |-> AbsState(d)]' = [d \in Calls |-> AbsState(d)]
    BY <2>1
  <2>3. {s \in Songs : file[s] = "complete"}'
          = {s \in Songs : file[s] = "complete"} \cup {song[c]}
    BY <1>1, <1>5 DEF DownloadInv, TypeOK
  <2>4. AbsState(c) = "pending" /\ song[c] # NoSong
    BY <1>1, NoSongAssumption DEF AbsState
  <2>5. PICK s \in Songs : s = song[c]
    BY <1>1
  <2>6. Store!Add(s)
    BY <1>1, <2>2, <2>3, <2>4, <2>5 DEF Store!Add
  <2> QED
    BY <2>6 DEF Store!Next
<1> QED
  BY <1>3, <1>4, <1>5

\* The end of Do answers the leader and everyone who joined it.
LEMMA LeaveIsAnswer ==
  ASSUME DownloadInv, NEW c \in Calls, Leave(c)
  PROVE  Store!Next
<1> DEFINE back == {c} \cup Waiting(song[c])
<1>1. song[c] \in Songs /\ pc[c] = "leave" /\ UNCHANGED <<file, song>>
  BY DEF Leave, HasSongInv, DownloadInv, durable
<1>2. /\ result[c] \in {"ok", "error"}
      /\ result[c] = "ok" => file[song[c]] = "complete"
  BY <1>1 DEF DownloadInv, TypeOK, ResultInv
<1>3. /\ back \subseteq Calls
      /\ \A d \in back : pc[d] \in {"leave", "joined"} /\ song[d] = song[c]
  BY <1>1 DEF Waiting
<1>4. /\ pc' = [d \in Calls |-> IF d \in back THEN "returned" ELSE pc[d]]
      /\ result' = [d \in Calls |-> IF d \in back THEN result[c] ELSE result[d]]
  BY DEF Leave
<1>5. \A d \in Calls : AbsState(d)' = IF d \in back THEN result[c] ELSE AbsState(d)
  <2> HIDE DEF back
  <2> QED
    BY <1>4 DEF AbsState
<1>6. \A d \in back : AbsState(d) = "pending" /\ song[d] # NoSong
  BY <1>1, <1>3, NoSongAssumption DEF AbsState
<1>7. Store!Answer(song[c], back, result[c])
  <2> HIDE DEF back
  <2>1. [d \in Calls |-> AbsState(d)]'
          = [d \in Calls |-> IF d \in back THEN result[c] ELSE AbsState(d)]
    BY <1>5
  <2> QED
    BY <1>1, <1>2, <1>3, <1>6, <2>1 DEF Store!Answer
<1> HIDE DEF back
<1> QED
  BY <1>1, <1>2, <1>3, <1>7 DEF Store!Next

LEMMA ReturnIsTake ==
  ASSUME DownloadInv, NEW c \in Calls, Return(c)
  PROVE  Store!Next
<1>1. result[c] \in {"ok", "error"}
  BY DEF Return, DownloadInv, TypeOK, ResultInv
<1>2. Store!Take(c)
  BY <1>1, NoSongAssumption
     DEF DownloadInv, TypeOK, Return, durable, Store!Take, AbsState
<1> QED
  BY <1>2 DEF Store!Next

LEMMA CrashIsCrash == DownloadInv /\ Crash => Store!Next
<1>1. Crash => Store!Crash
  BY DEF Crash, durable, Store!Crash, AbsState
<1> QED
  BY <1>1 DEF Store!Next

LEMMA StepRefines ==
  DownloadInv /\ [Next]_vars => [Store!Next]_(Store!vars)
<1> SUFFICES ASSUME DownloadInv, [Next]_vars
             PROVE  Store!Next \/ UNCHANGED Store!vars
  BY DEF Store!vars
<1>1. CASE \E c \in Calls, s \in Songs : EnsureSong(c, s)
  BY <1>1, EnsureIsAsk
<1>2. ASSUME NEW c \in Calls, Step(c)
      PROVE  Store!Next \/ UNCHANGED Store!vars
  BY <1>2, HasOutsideRefines, LeaderStutters, PutRefines, LeaveIsAnswer DEF Step
<1>3. CASE \E c \in Calls : Return(c)
  BY <1>3, ReturnIsTake
<1>4. CASE Crash
  BY <1>4, CrashIsCrash
<1>5. CASE UNCHANGED vars
  BY <1>5 DEF vars, Store!vars, AbsState
<1> QED
  BY <1>1, <1>2, <1>3, <1>4, <1>5 DEF Next

\* The download path keeps the store's promises for any songs and callers: a
\* song becomes visible in one piece, "ok" is only said of a song that is there,
\* and a crash takes calls away but never a stored song.
THEOREM ImplementsStore == Spec => StoreSpec
<1>1. Init => Store!Init
  BY StoreInit
<1>2. DownloadInv /\ [Next]_vars => [Store!Next]_(Store!vars)
  BY StepRefines
<1> QED
  BY <1>1, <1>2, Invariant, PTL DEF Spec, StoreSpec, Store!Spec
=============================================================================
