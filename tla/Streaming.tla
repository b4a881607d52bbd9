------------------------------ MODULE Streaming ------------------------------
(* The stream and download handlers over the store that SongStore promises: *)
(* a request for a song that is not stored holds a goroutine that calls     *)
(* EnsureSong, and is redirected to itself when that takes too long; a      *)
(* streamed song also starts jobs that fetch the rest of its album and of   *)
(* the playlists it is in, each with a semaphore of its own.  Every         *)
(* redirected request runs the whole handler again, jobs included.          *)
EXTENDS Naturals, FiniteSets

CONSTANTS Songs,             \* catalogue ids
          Requests,          \* clients, one request (and its redirects) each
          Jobs,              \* bound: EnsureAlbum / EnsureSongPlaylists at once
          Calls,             \* bound: goroutines inside EnsureSong at once
          Nobody, NoSong, NoCall,
          Album,             \* song -> the songs of its album, none if it has no album
          Playlists,         \* the user's playlists, as sets of songs
          Slots,             \* capacity of a job's semaphore (3 in the code)
          Hold,              \* config stream_hold > 0
          PlayAlbum,         \* config download = "playAlbum"
          DownloadPlaylist   \* config download_playlist

ASSUME JobsAssumption == Jobs \cap Requests = {} /\ Nobody \notin Jobs \cup Requests
ASSUME NoSongAssumption == NoSong \notin Songs
ASSUME NoCallAssumption == NoCall \notin Calls
ASSUME AlbumAssumption == Album \in [Songs -> SUBSET Songs]
ASSUME PlaylistsAssumption == Playlists \subseteq SUBSET Songs
ASSUME SlotsAssumption == Slots \in Nat \ {0}
ASSUME CallsAssumption == IsFiniteSet(Calls)

VARIABLES available, asked, state,   \* the store, see SongStore
          stage,    \* request -> the point of serveAudio it has reached
          song,     \* request -> the id it asks for
          attached, \* request -> it is a download and not a stream
          call,     \* request -> the goroutine whose done channel it reads
          reply,    \* request -> what lies in that channel
          owner,    \* goroutine -> the request or the job that started it
          live,     \* job -> it runs
          todo,     \* job -> songs of the current list it has not looked at
          next,     \* job -> the song that waits for the semaphore
          later,    \* job -> the lists still to come, in any order
          sem       \* job -> the goroutines in the semaphore of its current list

store == <<available, asked, state>>
requests == <<stage, song, attached, call, reply>>
jobs == <<live, todo, next, later, sem>>
vars == <<store, requests, owner, jobs>>

Store == INSTANCE SongStore

Final == {"served", "failed"}
Stages == {"idle", "asked", "album", "playlists", "has", "held", "redirected", "read"}
            \cup Final

TypeOK ==
  /\ Store!TypeOK
  /\ stage \in [Requests -> Stages]
  /\ song \in [Requests -> Songs \cup {NoSong}]
  /\ attached \in [Requests -> BOOLEAN]
  /\ call \in [Requests -> Calls \cup {NoCall}]
  /\ reply \in [Requests -> {"none", "ok", "error"}]
  /\ owner \in [Calls -> Requests \cup Jobs \cup {Nobody}]
  /\ live \in [Jobs -> BOOLEAN]
  /\ todo \in [Jobs -> SUBSET Songs]
  /\ next \in [Jobs -> Songs \cup {NoSong}]
  /\ later \in [Jobs -> SUBSET SUBSET Songs]
  /\ sem \in [Jobs -> SUBSET Calls]

Init ==
  /\ Store!Init
  /\ stage = [r \in Requests |-> "idle"]
  /\ song = [r \in Requests |-> NoSong]
  /\ attached = [r \in Requests |-> FALSE]
  /\ call = [r \in Requests |-> NoCall]
  /\ reply = [r \in Requests |-> "none"]
  /\ owner = [c \in Calls |-> Nobody]
  /\ live = [b \in Jobs |-> FALSE]
  /\ todo = [b \in Jobs |-> {}]
  /\ next = [b \in Jobs |-> NoSong]
  /\ later = [b \in Jobs |-> {}]
  /\ sem = [b \in Jobs |-> {}]

-----------------------------------------------------------------------------
(* serveAudio *)

Goto(r, to) == stage' = [stage EXCEPT ![r] = to]

Ask(r, s, attachment) ==
  /\ stage[r] \in {"idle"} \cup Final
  /\ Goto(r, "asked")
  /\ song' = [song EXCEPT ![r] = s]
  /\ attached' = [attached EXCEPT ![r] = attachment]
  /\ UNCHANGED <<store, call, reply, owner, jobs>>

\* Authenticate, the role of the user, the id and loadSong: each may refuse.
Admit(r) ==
  /\ stage[r] = "asked"
  /\ \/ Goto(r, "failed")
     \/ Goto(r, IF attached[r] THEN "has" ELSE "album")
  /\ UNCHANGED <<store, song, attached, call, reply, owner, jobs>>

\* `go`: an idle job takes the song lists it is to ensure, one after another.
StartJob(b, lists) ==
  /\ ~live[b]
  /\ live' = [live EXCEPT ![b] = TRUE]
  /\ later' = [later EXCEPT ![b] = lists]
  /\ UNCHANGED <<store, owner, todo, next, sem>>

EnsureAlbum(r, b) ==
  /\ stage[r] = "album"
  /\ Goto(r, "playlists")
  /\ IF PlayAlbum /\ Album[song[r]] # {} THEN StartJob(b, {Album[song[r]]}) ELSE UNCHANGED <<store, owner, jobs>>
  /\ UNCHANGED <<song, attached, call, reply>>

\* The playlists of the user that hold the song.
EnsureSongPlaylists(r, b) ==
  /\ stage[r] = "playlists"
  /\ Goto(r, "has")
  /\ IF DownloadPlaylist THEN StartJob(b, {list \in Playlists : song[r] \in list})
     ELSE UNCHANGED <<store, owner, jobs>>
  /\ UNCHANGED <<song, attached, call, reply>>

\* `go EnsureSong`, for a request or for a job
StartCall(c, who, s) ==
  /\ owner[c] = Nobody
  /\ Store!Ask(c, s)
  /\ owner' = [owner EXCEPT ![c] = who]

\* storage.Has says no of a song that is not stored, and of any other when its
\* stat fails, on either backend.
HoldUntilDownloaded(r, c) ==
  /\ stage[r] = "has"
  /\ StartCall(c, r, song[r])
  /\ Goto(r, "held")
  /\ call' = [call EXCEPT ![r] = c]
  /\ reply' = [reply EXCEPT ![r] = "none"]
  /\ UNCHANGED <<song, attached, jobs>>

HasStored(r) ==
  /\ stage[r] = "has"
  /\ song[r] \in available
  /\ Goto(r, "read")
  /\ UNCHANGED <<store, song, attached, call, reply, owner, jobs>>

Mutant_NoRoom == 0

\* the capacity of the channel done
DoneCapacity == 1

\* The send waits for the select, or ends at once if the channel has room: then
\* the value may lie there with nobody to read it.
Send(c) ==
  /\ owner[c] \in Requests
  /\ call[owner[c]] = c \/ DoneCapacity > 0
  /\ reply' = IF call[owner[c]] = c THEN [reply EXCEPT ![owner[c]] = state[c]] ELSE reply
  /\ Store!Take(c)
  /\ owner' = [owner EXCEPT ![c] = Nobody]
  /\ UNCHANGED <<stage, song, attached, call, jobs>>

LeaveSelect(r, to) ==
  /\ Goto(r, to)
  /\ call' = [call EXCEPT ![r] = NoCall]
  /\ reply' = [reply EXCEPT ![r] = "none"]
  /\ UNCHANGED <<store, song, attached, owner, jobs>>

Mutant_ReceiveAnything(r) ==
  /\ stage[r] = "held"
  /\ reply[r] # "none"
  /\ LeaveSelect(r, "read")

Receive(r) ==
  /\ stage[r] = "held"
  /\ reply[r] # "none"
  /\ LeaveSelect(r, IF reply[r] = "ok" THEN "read" ELSE "failed")

Mutant_TimerCancels(r) ==
  /\ Hold
  /\ stage[r] = "held"
  /\ Goto(r, "redirected")
  /\ call' = [call EXCEPT ![r] = NoCall]
  /\ reply' = [reply EXCEPT ![r] = "none"]
  /\ owner' = [c \in Calls |-> IF owner[c] = r THEN Nobody ELSE owner[c]]
  /\ asked' = [c \in Calls |-> IF owner[c] = r THEN {} ELSE asked[c]]
  /\ state' = [c \in Calls |-> IF owner[c] = r THEN "idle" ELSE state[c]]
  /\ UNCHANGED <<available, song, attached, jobs>>

\* With stream_hold 0 there is no select: the call is made in the handler.
TimerFires(r) ==
  /\ Hold
  /\ stage[r] = "held"
  /\ LeaveSelect(r, "redirected")

ClientLeaves(r) ==
  /\ Hold
  /\ stage[r] = "held"
  /\ LeaveSelect(r, "failed")

\* The redirect names the same request: all of serveAudio runs again.
RedirectToSelf(r) ==
  /\ stage[r] = "redirected"
  /\ Goto(r, "asked")
  /\ UNCHANGED <<store, song, attached, call, reply, owner, jobs>>

Read(r) ==
  /\ stage[r] = "read"
  /\ Goto(r, IF song[r] \in available THEN "served" ELSE "failed")
  /\ UNCHANGED <<store, song, attached, call, reply, owner, jobs>>

-----------------------------------------------------------------------------
(* EnsureAlbum, EnsurePlaylist *)

Running(b) == {c \in Calls : owner[c] = b}

Mutant_NoWait(b) == todo[b] = {} /\ next[b] = NoSong

\* The loop is over and wg.Wait returns.
Waited(b) == todo[b] = {} /\ next[b] = NoSong /\ Running(b) = {}

NextList(b) ==
  /\ live[b] /\ Waited(b)
  /\ IF later[b] = {}
       THEN /\ live' = [live EXCEPT ![b] = FALSE]
            /\ UNCHANGED <<todo, later, sem>>
       ELSE /\ \E list \in later[b] :
                 /\ todo' = [todo EXCEPT ![b] = list]
                 /\ later' = [later EXCEPT ![b] = @ \ {list}]
            /\ sem' = [sem EXCEPT ![b] = {}]
            /\ UNCHANGED live
  /\ UNCHANGED <<store, requests, owner, next>>

\* A song that is stored, or of which no query finds the row, is passed over; the
\* others, and a stored one whose stat fails, wait for the semaphore.
Look(b, s) ==
  /\ live[b] /\ next[b] = NoSong
  /\ s \in todo[b]
  /\ todo' = [todo EXCEPT ![b] = @ \ {s}]
  /\ UNCHANGED next \/ next' = [next EXCEPT ![b] = s]
  /\ UNCHANGED <<store, requests, owner, live, later, sem>>

\* `sem <-` goes through
Acquire(b, c) ==
  /\ next[b] # NoSong
  /\ Cardinality(sem[b]) < Slots
  /\ StartCall(c, b, next[b])
  /\ sem' = [sem EXCEPT ![b] = @ \cup {c}]
  /\ next' = [next EXCEPT ![b] = NoSong]
  /\ UNCHANGED <<requests, live, todo, later>>

\* The deferred release and wg.Done run whatever EnsureSong returned.
Release(c) ==
  /\ owner[c] \in Jobs
  /\ Store!Take(c)
  /\ owner' = [owner EXCEPT ![c] = Nobody]
  /\ sem' = [sem EXCEPT ![owner[c]] = @ \ {c}]
  /\ UNCHANGED <<requests, live, todo, next, later>>

-----------------------------------------------------------------------------
(* EnsureSong, as SongStore has it *)

EnsureSong ==
  /\ \/ \E s \in Songs : Store!Add(s)
     \/ \E s \in Songs, answered \in SUBSET Calls, r \in {"ok", "error"} :
          answered # {} /\ Store!Answer(s, answered, r)
  /\ UNCHANGED <<requests, owner, jobs>>

Answered(c) ==
  /\ \E r \in {"ok", "error"}, s \in asked[c] : Store!Answer(s, {c}, r)
  /\ UNCHANGED <<requests, owner, jobs>>

Next ==
  \/ \E r \in Requests :
       \/ \E s \in Songs, attachment \in BOOLEAN : Ask(r, s, attachment)
       \/ Admit(r) \/ HasStored(r) \/ Receive(r) \/ TimerFires(r) \/ ClientLeaves(r)
       \/ RedirectToSelf(r) \/ Read(r)
       \/ \E b \in Jobs : EnsureAlbum(r, b) \/ EnsureSongPlaylists(r, b)
       \/ \E c \in Calls : HoldUntilDownloaded(r, c)
  \/ \E b \in Jobs :
       \/ NextList(b)
       \/ \E s \in Songs : Look(b, s)
       \/ \E c \in Calls : Acquire(b, c)
  \/ \E c \in Calls : Send(c) \/ Release(c)
  \/ EnsureSong

Spec == Init /\ [][Next]_vars

(* Goroutines that can run do run.  A step that starts one is strongly fair: *)
(* Jobs and Calls are bounds of the model, the Go runtime always starts one. *)
(* That EnsureSong comes back is what SongDownload is checked for.  The stat *)
(* of a stored song succeeds now and then: HasStored is strongly fair.       *)
Fairness ==
  /\ \A r \in Requests :
       /\ WF_vars(Admit(r)) /\ SF_vars(HasStored(r)) /\ WF_vars(Receive(r))
       /\ WF_vars(RedirectToSelf(r)) /\ WF_vars(Read(r))
       /\ SF_vars(\E b \in Jobs : EnsureAlbum(r, b) \/ EnsureSongPlaylists(r, b))
       /\ SF_vars(\E c \in Calls : HoldUntilDownloaded(r, c))
  /\ \A b \in Jobs :
       /\ WF_vars(NextList(b)) /\ WF_vars(\E s \in Songs : Look(b, s))
       /\ SF_vars(\E c \in Calls : Acquire(b, c))
  /\ \A c \in Calls : WF_vars(Answered(c)) /\ WF_vars(Send(c) \/ Release(c))

FairSpec == Spec /\ Fairness

-----------------------------------------------------------------------------
(* Properties *)

\* A request that is let through to storage.Get finds its song there, whatever
\* way it came: stored before, downloaded in time, or by the goroutine of an
\* earlier request that was redirected.
ReadFindsSong == \A r \in Requests : stage[r] = "read" => song[r] \in available

\* A job has at most Slots downloads going, over all the playlists it visits.
SlotsRespected == \A b \in Jobs : Cardinality(Running(b)) <= Slots

\* Every job ends, though songs fail or are stored by others meanwhile, and the
\* goroutine of a request that was redirected or has left ends as well.
NoStrayGoroutine ==
  /\ \A b \in Jobs : live[b] ~> ~live[b]
  /\ \A c \in Calls : owner[c] # Nobody ~> owner[c] = Nobody

\* A download of s has failed.
Failing(s) == \E c \in Calls : asked[c] = {s} /\ state[c] = "error"

\* A client that follows its redirects is answered in the end, unless a download
\* of its song fails: the song is fetched by the goroutines left behind, and each
\* round asks storage again, which may deny what it has for a while.
AnsweredUnlessFailing ==
  \A r \in Requests : stage[r] = "asked" ~> (stage[r] \in Final \/ Failing(song[r]))
=============================================================================
