----------------------------- MODULE LyricsCache -----------------------------
(* SongLyrics for one song: the cached row with its two ages, the            *)
(* singleflight group, the two kinds of lyrics asked of Apple, and under     *)
(* them browserDo: one headless page for the whole server behind a mutex,    *)
(* launched when it is missing and replaced once when an evaluation fails.   *)
EXTENDS Integers

CONSTANTS Calls,        \* goroutines inside SongLyrics
          NoCall,
          Other,        \* any other request to Apple, holding the browser
          Signed,       \* the calls whose user has a media-user-token
          MissingTTL,   \* days a "missing" row is believed
          LyricsTTL,    \* days a row with lyrics is served without asking
          MaxTime,      \* bound: days the clock goes on
          MaxChanges    \* bound: how often Apple's lyrics change

ASSUME CallsAssumption == Calls \cap {NoCall, Other} = {} /\ NoCall # Other /\ Signed \subseteq Calls
ASSUME TimeAssumption ==
  {LyricsTTL, MaxTime, MaxChanges} \subseteq Nat /\ MissingTTL \in 1 .. LyricsTTL

VARIABLES now,       \* days
          apple,     \* what Apple has: "none", "line" or "word" timing
          changes,
          lacked,    \* ghost: the last day on which Apple had none
          row,       \* the SongLyrics row
          pc,        \* call -> the point it has reached
          cached,    \* call -> the row as it read it
          began,     \* ghost: call -> the day it read the row
          kind,      \* call -> the kind of lyrics it asks for, 1 or 2
          failed,    \* call -> lastErr is set
          answer,    \* call -> what it has learnt or returns
          flight,    \* lyricsGroup: the call that leads, or NoCall
          mu,        \* browserMu: the call that holds it, or NoCall
          page       \* bPage: "none", "ready", or "broken" and not yet noticed

world == <<now, apple, changes, lacked>>
local == <<cached, began, kind, failed>>
vars == <<world, row, pc, local, answer, flight, mu, page>>

Levels == {"none", "line", "word"}
Rows == [level : Levels \cup {"no row"}, at : 0 .. MaxTime]
NoRow == [level |-> "no row", at |-> 0]

Asking == {"lock", "ensure", "eval", "relaunch", "again"}
Leading == Asking \cup {"client", "store", "leave"}

TypeOK ==
  /\ now \in 0 .. MaxTime /\ changes \in 0 .. MaxChanges /\ lacked \in -1 .. MaxTime
  /\ apple \in Levels
  /\ row \in Rows
  /\ pc \in [Calls -> {"idle", "do", "joined", "returned"} \cup Leading]
  /\ cached \in [Calls -> Rows]
  /\ began \in [Calls -> 0 .. MaxTime]
  /\ kind \in [Calls -> 1 .. 2]
  /\ failed \in [Calls -> BOOLEAN]
  /\ answer \in [Calls -> Levels \cup {"error"}]
  /\ flight \in Calls \cup {NoCall}
  /\ mu \in Calls \cup {NoCall, Other}
  /\ page \in {"none", "ready", "broken"}

Init ==
  /\ now = 0 /\ changes = 0
  /\ apple \in Levels
  /\ lacked = IF apple = "none" THEN 0 ELSE -1
  /\ row = NoRow
  /\ pc = [c \in Calls |-> "idle"]
  /\ cached = [c \in Calls |-> NoRow]
  /\ began = [c \in Calls |-> 0]
  /\ kind = [c \in Calls |-> 1]
  /\ failed = [c \in Calls |-> FALSE]
  /\ answer = [c \in Calls |-> "none"]
  /\ flight = NoCall /\ mu = NoCall /\ page = "none"

-----------------------------------------------------------------------------
(* The world: days pass between fetches, Apple changes, the page dies *)

NextDay ==
  /\ now < MaxTime
  /\ \A c \in Calls : pc[c] \in {"idle", "returned"}
  /\ now' = now + 1
  /\ lacked' = IF apple = "none" THEN now + 1 ELSE lacked
  /\ UNCHANGED <<apple, changes, row, pc, local, answer, flight, mu, page>>

AppleChanges ==
  /\ changes < MaxChanges
  /\ changes' = changes + 1
  /\ \E level \in Levels \ {apple} :
       /\ apple' = level
       /\ lacked' = IF level = "none" THEN now ELSE lacked
  /\ UNCHANGED <<now, row, pc, local, answer, flight, mu, page>>

PageDies ==
  /\ page = "ready"
  /\ page' = "broken"
  /\ UNCHANGED <<world, row, pc, local, answer, flight, mu>>

\* Warm, at the start of the server: it may fail.
Warm ==
  /\ mu = NoCall
  /\ page = "none"
  /\ page' = "ready"
  /\ UNCHANGED <<world, row, pc, local, answer, flight, mu>>

\* Searches, albums, playlists: each takes the browser and leaves it somehow.
OtherLocks ==
  /\ mu = NoCall
  /\ mu' = Other
  /\ UNCHANGED <<world, row, pc, local, answer, flight, page>>

OtherDone ==
  /\ mu = Other
  /\ mu' = NoCall
  /\ page' \in {"none", "ready", "broken"}
  /\ UNCHANGED <<world, row, pc, local, answer, flight>>

-----------------------------------------------------------------------------
(* SongLyrics outside the group *)

Goto(c, to) == pc' = [pc EXCEPT ![c] = to]

Fresh(u) ==
  /\ u.level # "no row"
  /\ now - u.at < (IF u.level = "none" THEN MissingTTL ELSE LyricsTTL)

SongLyrics(c) ==
  /\ pc[c] \in {"idle", "returned"}
  /\ cached' = [cached EXCEPT ![c] = row]
  /\ began' = [began EXCEPT ![c] = now]
  /\ IF Fresh(row)
       THEN /\ Goto(c, "returned")
            /\ answer' = [answer EXCEPT ![c] = row.level]
       ELSE /\ Goto(c, "do")
            /\ answer' = [answer EXCEPT ![c] = "none"]
  /\ UNCHANGED <<world, row, kind, failed, flight, mu, page>>

GroupDo(c) ==
  /\ pc[c] = "do"
  /\ IF flight = NoCall
       THEN flight' = c /\ Goto(c, "client")
       ELSE Goto(c, "joined") /\ UNCHANGED flight
  /\ UNCHANGED <<world, row, local, answer, mu, page>>

\* Stale lyrics are better than an error.
Outcome(c, r) ==
  IF r = "error" /\ cached[c].level \in {"line", "word"} THEN cached[c].level ELSE r

\* The leader returns and with it every call that joined.
LeaveGroup(c) ==
  LET inside == {d \in Calls : d = c \/ pc[d] = "joined"} IN
  /\ pc[c] = "leave"
  /\ pc' = [d \in Calls |-> IF d \in inside THEN "returned" ELSE pc[d]]
  /\ answer' = [d \in Calls |-> IF d \in inside THEN Outcome(d, answer[c]) ELSE answer[d]]
  /\ flight' = NoCall
  /\ UNCHANGED <<world, row, local, mu, page>>

-----------------------------------------------------------------------------
(* The leader: NewClientFromCookies, GetLyricsTTML, the row *)

NewClient(c) ==
  /\ pc[c] = "client"
  /\ kind' = [kind EXCEPT ![c] = 1]
  /\ failed' = [failed EXCEPT ![c] = FALSE]
  /\ IF c \in Signed
       THEN Goto(c, "lock") /\ UNCHANGED answer
       ELSE Goto(c, "leave") /\ answer' = [answer EXCEPT ![c] = "error"]
  /\ UNCHANGED <<world, row, cached, began, flight, mu, page>>

Mutant_ErrorIsAbsence(c, err) ==
  /\ UNCHANGED failed
  /\ IF kind[c] = 1
       THEN Goto(c, "lock") /\ kind' = [kind EXCEPT ![c] = 2] /\ UNCHANGED answer
       ELSE /\ UNCHANGED kind
            /\ Goto(c, "store") /\ answer' = [answer EXCEPT ![c] = "none"]

\* One kind has been asked: go on with the other, or with what is known.
NextKind(c, err) ==
  /\ failed' = [failed EXCEPT ![c] = @ \/ err]
  /\ IF kind[c] = 1
       THEN Goto(c, "lock") /\ kind' = [kind EXCEPT ![c] = 2] /\ UNCHANGED answer
       ELSE /\ UNCHANGED kind
            /\ IF failed'[c]
                 THEN Goto(c, "leave") /\ answer' = [answer EXCEPT ![c] = "error"]
                 ELSE Goto(c, "store") /\ answer' = [answer EXCEPT ![c] = "none"]

\* "syllable-lyrics" is there with word timing only, "lyrics" with either.
Offers(k) == apple = "word" \/ (k = 2 /\ apple = "line")

\* The evaluation came back: the lyrics, a 404, or another error.
Reply(c) ==
  \/ /\ Offers(kind[c])
     /\ Goto(c, "store")
     /\ answer' = [answer EXCEPT ![c] = IF kind[c] = 1 THEN "word" ELSE "line"]
     /\ UNCHANGED <<kind, failed>>
  \/ ~Offers(kind[c]) /\ NextKind(c, FALSE)
  \/ NextKind(c, TRUE)

Store(c) ==
  /\ pc[c] = "store"
  /\ row' = [level |-> answer[c], at |-> now]
  /\ Goto(c, "leave")
  /\ UNCHANGED <<world, local, answer, flight, mu, page>>

-----------------------------------------------------------------------------
(* browserDo *)

Lock(c) ==
  /\ pc[c] = "lock"
  /\ mu = NoCall
  /\ mu' = c
  /\ Goto(c, "ensure")
  /\ UNCHANGED <<world, row, local, answer, flight, page>>

BrowserFails(c) ==
  /\ mu' = NoCall
  /\ NextKind(c, TRUE)

\* ensureBrowser: launch, connect, open the page, wait for MusicKit.
EnsureBrowser(c, at, to) ==
  /\ pc[c] = at
  /\ \/ Goto(c, to) /\ page' = (IF page = "none" THEN "ready" ELSE page)
        /\ UNCHANGED <<kind, failed, answer, mu>>
     \/ page = "none" /\ BrowserFails(c) /\ UNCHANGED page
  /\ UNCHANGED <<world, row, cached, began, flight>>

Evaluates(c) ==
  /\ page = "ready"
  /\ Reply(c)
  /\ mu' = NoCall
  /\ UNCHANGED <<world, row, cached, began, flight, page>>

ResetBrowser == page' = "none"

EvalFirst(c) ==
  /\ pc[c] = "eval"
  /\ \/ Evaluates(c)
     \/ /\ page = "broken"
        /\ ResetBrowser
        /\ Goto(c, "relaunch")
        /\ UNCHANGED <<world, row, local, answer, flight, mu>>

Mutant_EvalUntilItWorks(c) ==
  /\ pc[c] = "again"
  /\ \/ Evaluates(c)
     \/ /\ page = "broken"
        /\ ResetBrowser
        /\ Goto(c, "relaunch")
        /\ UNCHANGED <<world, row, local, answer, flight, mu>>

\* The second failure is returned; the page stays for the next request to find.
EvalAgain(c) ==
  /\ pc[c] = "again"
  /\ \/ Evaluates(c)
     \/ /\ page = "broken"
        /\ BrowserFails(c)
        /\ UNCHANGED <<world, row, cached, began, flight, page>>

Step(c) ==
  \/ GroupDo(c) \/ LeaveGroup(c) \/ NewClient(c) \/ Store(c)
  \/ EnsureBrowser(c, "ensure", "eval") \/ EvalFirst(c)
  \/ EnsureBrowser(c, "relaunch", "again") \/ EvalAgain(c)

Next ==
  \/ NextDay \/ AppleChanges \/ PageDies \/ Warm \/ OtherLocks \/ OtherDone
  \/ \E c \in Calls : SongLyrics(c) \/ Lock(c) \/ Step(c)

Spec == Init /\ [][Next]_vars

\* Goroutines run, and Go's mutex lets every waiter in some time.
FairSpec ==
  Spec /\ WF_vars(OtherDone) /\ \A c \in Calls : WF_vars(Step(c)) /\ SF_vars(Lock(c))

-----------------------------------------------------------------------------
(* Properties *)

\* "No lyrics" is answered, and stored, only when Apple had neither kind no
\* longer than MissingTTL before, errors of one kind or of the browser never
\* reading as absence; and an error is returned only where no lyrics are known.
AnswersTrue ==
  /\ row.level = "none" => lacked >= row.at
  /\ \A c \in Calls : pc[c] = "returned" =>
       /\ answer[c] = "none" => lacked > began[c] - MissingTTL
       /\ answer[c] = "error" => cached[c].level \notin {"line", "word"}

\* Every call returns, though pages die at any time and calls wait for each
\* other in the group and at the browser's mutex.
EveryCallReturns == \A c \in Calls : pc[c] = "do" ~> pc[c] = "returned"
=============================================================================
