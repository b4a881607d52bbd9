---------------------------- MODULE SongDownload ----------------------------
(* download.EnsureSong and everything below it up to the storage backend:  *)
(* the unlocked Has, the singleflight group, downloadSong with its worker  *)
(* and CLI attempts, the backend's Put and the "downloaded" marker of the  *)
(* song row.  Each call of EnsureSong is a goroutine; a stage of pc is the *)
(* point it has reached in the code.  The server may crash at any point:   *)
(* the files and the row survive it, goroutines and the group do not.      *)
EXTENDS Naturals, FiniteSets

CONSTANTS Songs,       \* catalogue ids
          Calls,       \* goroutines that call EnsureSong
          NoCall,      \* the value of flight for a song nobody downloads
          NoSong,      \* the song of an idle call
          Backend,     \* storage.mode: "filesystem", "s3", or "none"
          MaxCrashes   \* bound: crashes of the server in one behaviour

ASSUME NoCallAssumption == NoCall \notin Calls
ASSUME NoSongAssumption == NoSong \notin Songs
ASSUME BackendAssumption == Backend \in {"filesystem", "s3", "none"}
ASSUME CrashAssumption == MaxCrashes \in Nat

VARIABLES file,     \* durable: the song's final object in the backend
          marked,   \* durable: songs whose row has path, size, suffix set
          flight,   \* singleflight: song -> the call that leads its flight
          pc,       \* call -> the stage it has reached
          song,     \* call -> the song it ensures
          temp,     \* call -> the .part file of its PutSong
          result,   \* call -> what EnsureSong will return
          crashes

durable == <<file, marked>>
vars == <<file, marked, flight, pc, song, temp, result, crashes>>

\* Stages that only the leader of a flight goes through, in code order.
FetchStages == {"prepare", "worker", "cli", "find"}
PutStages   == {"put", "copy", "rename"}
LeadStages  == {"recheck"} \cup FetchStages \cup PutStages \cup {"mark", "leave"}
Stages      == {"idle", "has", "do", "joined", "returned"} \cup LeadStages

TypeOK ==
  /\ file \in [Songs -> {"absent", "partial", "complete"}]
  /\ marked \in SUBSET Songs
  /\ flight \in [Songs -> Calls \cup {NoCall}]
  /\ pc \in [Calls -> Stages]
  /\ song \in [Calls -> Songs \cup {NoSong}]
  /\ temp \in [Calls -> {"none", "partial", "complete"}]
  /\ result \in [Calls -> {"none", "ok", "error"}]
  /\ crashes \in 0 .. MaxCrashes

\* Songs stored by earlier runs of the server are there and marked.
Init ==
  /\ file \in [Songs -> {"absent", "complete"}]
  /\ marked = {s \in Songs : file[s] = "complete"}
  /\ flight = [s \in Songs |-> NoCall]
  /\ pc = [c \in Calls |-> "idle"]
  /\ song = [c \in Calls |-> NoSong]
  /\ temp = [c \in Calls |-> "none"]
  /\ result = [c \in Calls |-> "none"]
  /\ crashes = 0

Ready == Backend # "none"

Mutant_StatErrorIsPresent(s) ==
  IF Backend = "s3" THEN {TRUE, FALSE} ELSE {file[s] # "absent"}

\* HasSong is "no error from stat": S3's StatObject may fail on an object that
\* is there, and a file cut short would still be found by name.
HasOutcomes(s) ==
  IF file[s] = "absent" THEN {FALSE}
  ELSE IF Backend = "s3" THEN {TRUE, FALSE} ELSE {TRUE}

-----------------------------------------------------------------------------
(* EnsureSong: the checks outside the group *)

EnsureSong(c, s) ==
  /\ pc[c] = "idle"
  /\ song' = [song EXCEPT ![c] = s]
  /\ pc' = [pc EXCEPT ![c] = "has"]
  /\ UNCHANGED <<durable, flight, temp, result, crashes>>

ReturnWith(c, r) ==
  /\ pc' = [pc EXCEPT ![c] = "returned"]
  /\ result' = [result EXCEPT ![c] = r]

Goto(c, stage) == pc' = [pc EXCEPT ![c] = stage] /\ UNCHANGED result

HasOutside(c) ==
  /\ pc[c] = "has"
  /\ \/ ~Ready /\ ReturnWith(c, "error")
     \/ Ready /\ TRUE \in HasOutcomes(song[c]) /\ ReturnWith(c, "ok")
     \/ Ready /\ FALSE \in HasOutcomes(song[c]) /\ Goto(c, "do")
  /\ UNCHANGED <<durable, flight, song, temp, crashes>>

Mutant_DoWithoutJoin(c) ==
  /\ pc[c] = "do"
  /\ flight' = [flight EXCEPT ![song[c]] = c]
  /\ pc' = [pc EXCEPT ![c] = "recheck"]
  /\ UNCHANGED <<durable, song, temp, result, crashes>>

Mutant_DoOneKey(c) ==
  LET k == CHOOSE s \in Songs : TRUE IN
    /\ pc[c] = "do"
    /\ IF flight[k] = NoCall
         THEN /\ flight' = [flight EXCEPT ![k] = c]
              /\ pc' = [pc EXCEPT ![c] = "recheck"]
         ELSE /\ pc' = [pc EXCEPT ![c] = "joined"]
              /\ UNCHANGED flight
    /\ UNCHANGED <<durable, song, temp, result, crashes>>

\* group.Do: the first caller leads, the others wait for its result.
GroupDo(c) ==
  /\ pc[c] = "do"
  /\ IF flight[song[c]] = NoCall
       THEN /\ flight' = [flight EXCEPT ![song[c]] = c]
            /\ pc' = [pc EXCEPT ![c] = "recheck"]
       ELSE /\ pc' = [pc EXCEPT ![c] = "joined"]
            /\ UNCHANGED flight
  /\ UNCHANGED <<durable, song, temp, result, crashes>>

-----------------------------------------------------------------------------
(* The leader of a flight *)

\* The function given to Do is over, with r, without a temporary file left.
EndFlight(c, r) ==
  /\ pc' = [pc EXCEPT ![c] = "leave"]
  /\ result' = [result EXCEPT ![c] = r]

Mutant_NoRecheck(c) ==
  /\ pc[c] = "recheck"
  /\ pc' = [pc EXCEPT ![c] = "prepare"]
  /\ UNCHANGED <<durable, flight, song, temp, result, crashes>>

HasInside(c) ==
  /\ pc[c] = "recheck"
  /\ \/ TRUE \in HasOutcomes(song[c]) /\ EndFlight(c, "ok")
     \/ FALSE \in HasOutcomes(song[c]) /\ Goto(c, "prepare")
  /\ UNCHANGED <<durable, flight, song, temp, crashes>>

\* MkdirTemp, the cookie file, NewGamDL
Prepare(c) ==
  /\ pc[c] = "prepare"
  /\ Goto(c, "worker") \/ EndFlight(c, "error")
  /\ UNCHANGED <<durable, flight, song, temp, crashes>>

\* downloadViaWorker: done, ErrWorkerUnavailable, or any other error (the
\* worker's own answer, or the ten-minute deadline)
ViaWorker(c) ==
  /\ pc[c] = "worker"
  /\ Goto(c, "find") \/ Goto(c, "cli") \/ EndFlight(c, "error")
  /\ UNCHANGED <<durable, flight, song, temp, crashes>>

Mutant_CliBackToWorker(c) ==
  /\ pc[c] = "cli"
  /\ Goto(c, "find") \/ Goto(c, "worker")
  /\ UNCHANGED <<durable, flight, song, temp, crashes>>

ViaCli(c) ==
  /\ pc[c] = "cli"
  /\ Goto(c, "find") \/ EndFlight(c, "error")
  /\ UNCHANGED <<durable, flight, song, temp, crashes>>

\* findAudioFile: what gamdl reported as done need not have left a file
FindAudioFile(c) ==
  /\ pc[c] = "find"
  /\ Goto(c, "put") \/ EndFlight(c, "error")
  /\ UNCHANGED <<durable, flight, song, temp, crashes>>

Mutant_CopyInPlace(c) ==
  /\ Backend = "filesystem"
  /\ pc[c] = "put"
  /\ Goto(c, "copy")
  /\ file' = [file EXCEPT ![song[c]] = "partial"]
  /\ temp' = [temp EXCEPT ![c] = "partial"]
  /\ UNCHANGED <<marked, flight, song, crashes>>

\* fsBackend.PutSong: open, CreateTemp, and the first bytes of the copy
PutStart(c) ==
  /\ Backend = "filesystem"
  /\ pc[c] = "put"
  /\ \/ /\ Goto(c, "copy")
        /\ temp' = [temp EXCEPT ![c] = "partial"]
     \/ /\ EndFlight(c, "error")
        /\ UNCHANGED temp
  /\ UNCHANGED <<durable, flight, song, crashes>>

\* io.Copy and Close: all of it, or an error that removes the .part file
PutCopy(c) ==
  /\ pc[c] = "copy"
  /\ \/ /\ Goto(c, "rename")
        /\ temp' = [temp EXCEPT ![c] = "complete"]
     \/ /\ EndFlight(c, "error")
        /\ temp' = [temp EXCEPT ![c] = "none"]
  /\ UNCHANGED <<durable, flight, song, crashes>>

Mutant_RenameAfterRemove(c) ==
  /\ pc[c] = "rename"
  /\ temp' = [temp EXCEPT ![c] = "none"]
  /\ Goto(c, "mark")
  /\ file' = [file EXCEPT ![song[c]] = temp'[c]]
  /\ UNCHANGED <<marked, flight, song, crashes>>

Mutant_IgnoreRenameError(c) ==
  /\ pc[c] = "rename"
  /\ temp' = [temp EXCEPT ![c] = "none"]
  /\ Goto(c, "mark")
  /\ file' \in {file, [file EXCEPT ![song[c]] = temp[c]]}
  /\ UNCHANGED <<marked, flight, song, crashes>>

\* os.Rename: the .part file becomes the song's file
PutRename(c) ==
  /\ pc[c] = "rename"
  /\ temp' = [temp EXCEPT ![c] = "none"]
  /\ \/ /\ Goto(c, "mark")
        /\ file' = [file EXCEPT ![song[c]] = temp[c]]
     \/ /\ EndFlight(c, "error")
        /\ UNCHANGED file
  /\ UNCHANGED <<marked, flight, song, crashes>>

\* s3Backend.PutSong: an object appears whole or not at all; an error may come
\* after the server has taken it
PutObject(c) ==
  /\ Backend = "s3"
  /\ pc[c] = "put"
  /\ \/ /\ Goto(c, "mark")
        /\ file' = [file EXCEPT ![song[c]] = "complete"]
     \/ /\ EndFlight(c, "error")
        /\ file' \in {file, [file EXCEPT ![song[c]] = "complete"]}
  /\ UNCHANGED <<marked, flight, song, temp, crashes>>

\* the Updates of the song row; its error is not looked at
Mark(c) ==
  /\ pc[c] = "mark"
  /\ EndFlight(c, "ok")
  /\ marked' \in {marked, marked \cup {song[c]}}
  /\ UNCHANGED <<file, flight, song, temp, crashes>>

Waiting(s) == {d \in Calls : pc[d] = "joined" /\ song[d] = s}

\* The end of Do: the flight is forgotten and all who joined get its result.
Leave(c) ==
  /\ pc[c] = "leave"
  /\ LET back == {c} \cup Waiting(song[c]) IN
       /\ pc' = [d \in Calls |-> IF d \in back THEN "returned" ELSE pc[d]]
       /\ result' = [d \in Calls |-> IF d \in back THEN result[c] ELSE result[d]]
  /\ flight' = [flight EXCEPT ![song[c]] = NoCall]
  /\ UNCHANGED <<durable, song, temp, crashes>>

-----------------------------------------------------------------------------
\* The caller has its error or nil; the goroutine can serve another request.
Return(c) ==
  /\ pc[c] = "returned"
  /\ pc' = [pc EXCEPT ![c] = "idle"]
  /\ song' = [song EXCEPT ![c] = NoSong]
  /\ result' = [result EXCEPT ![c] = "none"]
  /\ UNCHANGED <<durable, flight, temp, crashes>>

\* The process dies and is started again: .part files stay behind under names
\* nobody looks for, and the temporary directory with them.
Crash ==
  /\ crashes < MaxCrashes
  /\ crashes' = crashes + 1
  /\ flight' = [s \in Songs |-> NoCall]
  /\ pc' = [c \in Calls |-> "idle"]
  /\ song' = [c \in Calls |-> NoSong]
  /\ temp' = [c \in Calls |-> "none"]
  /\ result' = [c \in Calls |-> "none"]
  /\ UNCHANGED durable

\* What the goroutine itself does next.
Step(c) ==
  \/ HasOutside(c) \/ GroupDo(c) \/ HasInside(c) \/ Prepare(c)
  \/ ViaWorker(c) \/ ViaCli(c) \/ FindAudioFile(c)
  \/ PutStart(c) \/ PutCopy(c) \/ PutRename(c) \/ PutObject(c)
  \/ Mark(c) \/ Leave(c)

Next ==
  \/ \E c \in Calls, s \in Songs : EnsureSong(c, s)
  \/ \E c \in Calls : Step(c)
  \/ \E c \in Calls : Return(c)
  \/ Crash

Spec == Init /\ [][Next]_vars

\* A runnable goroutine runs; gamdl and the backend answer in the end (a gamdl
\* CLI process has no deadline: without this assumption a flight may last).
Fairness == \A c \in Calls : WF_vars(Step(c))

FairSpec == Spec /\ Fairness

\* Clients that never tire of asking for every song.
EagerSpec ==
  /\ FairSpec
  /\ \A c \in Calls : WF_vars(Return(c))
  /\ \A c \in Calls, s \in Songs : SF_vars(EnsureSong(c, s))
-----------------------------------------------------------------------------
(* Properties *)

Leading(c) == pc[c] \in LeadStages

\* At most one call at a time downloads or stores a song: simultaneous streams,
\* album and playlist downloads of it share one run of gamdl.
OneFetchPerSong ==
  \A c, d \in Calls : Leading(c) /\ Leading(d) /\ song[c] = song[d] => c = d

\* "so nothing is re-downloaded" (README): on the filesystem backend nobody runs
\* gamdl for, or writes, a song that is already stored; the Has outside the group
\* alone would let a call that was slow to reach Do fetch the song again.
NeverRedownload ==
  Backend = "filesystem" =>
    \A c \in Calls :
      pc[c] \in FetchStages \cup PutStages => file[song[c]] = "absent"

\* A call joined to a flight always has a leader to wake it, and a flight in the
\* group always belongs to a call that is inside Do: nobody waits for ever on a
\* flight that is over.
FlightHasLeader ==
  /\ \A s \in Songs : flight[s] # NoCall =>
        Leading(flight[s]) /\ song[flight[s]] = s
  /\ \A c \in Calls : pc[c] = "joined" => flight[song[c]] # NoCall

\* The row never says "downloaded" of a song that storage does not hold whole.
MarkedIsStored == \A s \in marked : file[s] = "complete"

\* Every call of EnsureSong comes back, unless the server dies under it.
EveryCallReturns ==
  \A c \in Calls : pc[c] = "has" ~> pc[c] \in {"returned", "idle"}

\* "persist the "downloaded" marker on the song row" (download.go:100): a stored
\* song gets its mark in the end, at the latest by the calls that keep coming.
StoredIsMarked ==
  \A s \in Songs : file[s] = "complete" ~> s \in marked

-----------------------------------------------------------------------------
(* Refinement of SongStore *)

AbsState(c) ==
  CASE pc[c] = "idle"     -> "idle"
    [] pc[c] = "returned" -> result[c]
    [] OTHER              -> "pending"

Store == INSTANCE SongStore WITH
  available <- {s \in Songs : file[s] = "complete"},
  asked     <- [c \in Calls |-> IF song[c] = NoSong THEN {} ELSE {song[c]}],
  state     <- [c \in Calls |-> AbsState(c)]

\* EnsureSong keeps the store's promises: ok means the song is there whole.
StoreSpec == Store!Spec
-----------------------------------------------------------------------------
(* The invariant the proofs need: what each stage of the code has            *)
(* established about the group, the temporary file and the store.            *)

HasSongInv == \A c \in Calls : pc[c] # "idle" => song[c] \in Songs

LeaderInv == \A c \in Calls : Leading(c) => flight[song[c]] = c

TempInv ==
  \A c \in Calls :
    /\ pc[c] \in {"copy", "rename"} => Backend = "filesystem"
    /\ pc[c] = "rename" => temp[c] = "complete"

WholeInv == \A s \in Songs : file[s] # "partial"

MarkInv == \A c \in Calls : pc[c] = "mark" => file[song[c]] = "complete"

\* The answers: "ok" is only ever said of a stored song, and a call that is
\* over has one.
ResultInv ==
  \A c \in Calls :
    pc[c] \in {"leave", "returned"} =>
      /\ result[c] # "none"
      /\ result[c] = "ok" => file[song[c]] = "complete"

\* Everything above, with the safety properties themselves: inductive.
DownloadInv ==
  /\ TypeOK
  /\ HasSongInv /\ LeaderInv /\ FlightHasLeader
  /\ TempInv /\ WholeInv /\ MarkInv /\ ResultInv
  /\ NeverRedownload /\ MarkedIsStored
=============================================================================
