---------------------------- MODULE LyricsProofs ----------------------------
(* Proofs about LyricsCache: absence is answered only when Apple showed it   *)
(* lately, and whoever waits in the group or at the browser waits for a call *)
(* that is at work.  Then about LyricsText, for every document: the cues of  *)
(* a line name its words and can be read in turn, and a track is in order    *)
(* and lists the agents that its cues name.                                  *)
EXTENDS Lyrics, FiniteSetTheorems, SequenceTheorems, WellFoundedInduction, TLAPS

\* No day passes while a call is in progress.
Today == \A c \in Calls : pc[c] \notin {"idle", "returned"} => began[c] = now

\* The last day without lyrics is not to come, and is today when Apple has none.
Lacked == lacked <= now /\ (apple = "none" => lacked = now)

\* A leader that has learnt of an absence did so today, and stores no error.
Learnt ==
  \A c \in Calls :
    /\ pc[c] \in {"store", "leave"} /\ answer[c] = "none" => lacked >= now
    /\ pc[c] = "store" => answer[c] # "error"

\* One call leads at a time, and whoever has joined has a leader at work.
Led ==
  /\ flight # NoCall => pc[flight] \in Leading
  /\ \A c \in Calls :
       /\ pc[c] \in Leading => flight = c
       /\ pc[c] = "joined" => flight # NoCall

\* The browser is held exactly by the call that is working with it.
Held == \A c \in Calls : mu = c <=> pc[c] \in Asking \ {"lock"}

IInv == TypeOK /\ Today /\ Lacked /\ Learnt /\ Led /\ Held /\ AnswersTrue

LEMMA Times ==
  /\ MissingTTL \in Nat /\ LyricsTTL \in Nat /\ MaxTime \in Nat /\ MaxChanges \in Nat
  /\ 1 <= MissingTTL /\ MissingTTL <= LyricsTTL
  BY TimeAssumption

LEMMA RowTypes ==
  /\ NoRow \in Rows /\ NoRow.level = "no row"
  /\ \A u \in Rows : u.level \in Levels \cup {"no row"} /\ u.at \in 0 .. MaxTime
<1>1. NoRow \in Rows /\ NoRow.level = "no row"
  BY Times DEF NoRow, Rows
<1>2. \A u \in Rows : u.level \in Levels \cup {"no row"} /\ u.at \in 0 .. MaxTime
  BY DEF Rows
<1> QED
  BY <1>1, <1>2

LEMMA NewRow ==
  ASSUME NEW level \in Levels, NEW at \in 0 .. MaxTime
  PROVE  /\ [level |-> level, at |-> at] \in Rows
         /\ [level |-> level, at |-> at].level = level
         /\ [level |-> level, at |-> at].at = at
  BY DEF Rows

LEMMA InitHolds == Init => IInv
<1> SUFFICES ASSUME Init PROVE IInv
  OBVIOUS
<1>1. TypeOK
  <2>1. now \in 0 .. MaxTime /\ changes \in 0 .. MaxChanges /\ lacked \in -1 .. MaxTime
    BY Times DEF Init
  <2>2. row \in Rows /\ cached \in [Calls -> Rows]
    BY RowTypes DEF Init
  <2>3. failed \in [Calls -> BOOLEAN]
    BY Zenon DEF Init
  <2>4. /\ apple \in Levels /\ flight = NoCall /\ mu = NoCall /\ page = "none"
        /\ pc = [c \in Calls |-> "idle"] /\ began = [c \in Calls |-> 0]
        /\ kind = [c \in Calls |-> 1] /\ answer = [c \in Calls |-> "none"]
    BY Zenon DEF Init
  <2> QED
    BY <2>1, <2>2, <2>3, <2>4, Times DEF TypeOK, Levels
<1>2. Today /\ Lacked /\ Learnt /\ Led /\ Held
  BY Times, CallsAssumption DEF Init, Today, Lacked, Learnt, Led, Held, Leading, Asking
<1>3. AnswersTrue
  BY RowTypes DEF Init, AnswersTrue
<1> QED
  BY <1>1, <1>2, <1>3 DEF IInv

-----------------------------------------------------------------------------
(* What a call does with the browser *)

Working == {"eval", "relaunch", "again"}

\* A call goes on working, or gives the browser back: to ask for the other kind,
\* with an error, or with lyrics or the absence that Apple shows now.
Works(c) ==
  /\ pc[c] \in Asking \ {"lock"}
  /\ failed' \in [Calls -> BOOLEAN]
  /\ kind' \in [Calls -> 1 .. 2]
  /\ page' \in {"none", "ready", "broken"}
  /\ \E to \in Working \cup {"lock", "leave", "store"}, a \in Levels \cup {"error"} :
       /\ pc' = [pc EXCEPT ![c] = to]
       /\ answer' = [answer EXCEPT ![c] = a]
       /\ mu' = IF to \in Working THEN mu ELSE NoCall
       /\ to = "leave" => a = "error"
       /\ to = "store" => a # "error" /\ (a = "none" => apple = "none")
  /\ UNCHANGED <<world, row, cached, began, flight>>

\* A call turns to the other kind, fails, or stores an absence.
Turns(c, err) ==
  /\ failed' \in [Calls -> BOOLEAN]
  /\ kind' \in [Calls -> 1 .. 2]
  /\ \E to \in {"lock", "leave", "store"}, a \in Levels \cup {"error"} :
       /\ pc' = [pc EXCEPT ![c] = to]
       /\ answer' = [answer EXCEPT ![c] = a]
       /\ to = "leave" => a = "error"
       /\ to = "store" => a = "none" /\ ~err /\ kind[c] = 2

LEMMA KindTurns ==
  ASSUME TypeOK, NEW c \in Calls, NEW err \in BOOLEAN, NextKind(c, err)
  PROVE  Turns(c, err)
<1>1. failed' = [failed EXCEPT ![c] = failed[c] \/ err] /\ failed \in [Calls -> BOOLEAN]
  BY DEF NextKind, TypeOK
<1>2. failed' \in [Calls -> BOOLEAN] /\ (err => failed'[c])
  BY <1>1, Zenon
<1>3. kind' \in [Calls -> 1 .. 2]
  BY DEF NextKind, TypeOK
<1>4. CASE kind[c] = 1
  <2>1. pc' = [pc EXCEPT ![c] = "lock"] /\ answer' = [answer EXCEPT ![c] = answer[c]]
    BY <1>4 DEF NextKind, Goto, TypeOK
  <2>2. answer[c] \in Levels \cup {"error"}
    BY DEF TypeOK
  <2> QED
    BY <1>2, <1>3, <2>1, <2>2 DEF Turns
<1>5. CASE kind[c] # 1 /\ failed'[c]
  <2>1. pc' = [pc EXCEPT ![c] = "leave"] /\ answer' = [answer EXCEPT ![c] = "error"]
    BY <1>5, Zenon DEF NextKind, Goto
  <2> QED
    BY <1>2, <1>3, <2>1 DEF Turns
<1>6. CASE kind[c] # 1 /\ ~failed'[c]
  <2>1. pc' = [pc EXCEPT ![c] = "store"] /\ answer' = [answer EXCEPT ![c] = "none"]
    BY <1>6, Zenon DEF NextKind, Goto
  <2>2. ~err /\ kind[c] = 2
    BY <1>2, <1>6 DEF TypeOK
  <2> QED
    BY <1>2, <1>3, <2>1, <2>2 DEF Levels, Turns
<1> QED
  BY <1>4, <1>5, <1>6

LEMMA TurningWorks ==
  ASSUME NEW c \in Calls, NEW err \in BOOLEAN, Turns(c, err), pc[c] \in Asking \ {"lock"},
         mu' = NoCall, page' \in {"none", "ready", "broken"},
         ~err /\ kind[c] = 2 => apple = "none", UNCHANGED <<world, row, cached, began, flight>>
  PROVE  Works(c)
<1>1. PICK to \in {"lock", "leave", "store"}, a \in Levels \cup {"error"} :
        /\ pc' = [pc EXCEPT ![c] = to]
        /\ answer' = [answer EXCEPT ![c] = a]
        /\ to = "leave" => a = "error"
        /\ to = "store" => a = "none" /\ ~err /\ kind[c] = 2
  BY Zenon DEF Turns
<1>2. to \notin Working /\ to \in Working \cup {"lock", "leave", "store"}
  BY DEF Working
<1>3. mu' = (IF to \in Working THEN mu ELSE NoCall) /\ (to = "store" => a # "error" /\ (a = "none" => apple = "none"))
  BY <1>1, <1>2
<1>4. failed' \in [Calls -> BOOLEAN] /\ kind' \in [Calls -> 1 .. 2]
  BY DEF Turns
<1> QED
  BY <1>1, <1>2, <1>3, <1>4, Zenon DEF Works

LEMMA EnsureWorks ==
  ASSUME TypeOK, NEW c \in Calls,
         EnsureBrowser(c, "ensure", "eval") \/ EnsureBrowser(c, "relaunch", "again")
  PROVE  Works(c)
<1>1. PICK at \in {"ensure", "relaunch"}, to \in Working : EnsureBrowser(c, at, to)
  BY DEF Working
<1>2. CASE Goto(c, to) /\ page' = (IF page = "none" THEN "ready" ELSE page)
           /\ UNCHANGED <<kind, failed, answer, mu>>
  <2>1. answer[c] \in Levels \cup {"error"} /\ answer' = [answer EXCEPT ![c] = answer[c]]
    BY <1>2 DEF TypeOK
  <2>2. page' \in {"none", "ready", "broken"}
    BY <1>2 DEF TypeOK
  <2> QED
    BY <1>1, <1>2, <2>1, <2>2 DEF EnsureBrowser, Goto, Works, Working, Asking, TypeOK
<1>3. CASE page = "none" /\ BrowserFails(c) /\ UNCHANGED page
  <2>1. NextKind(c, TRUE) /\ mu' = NoCall
    BY <1>3 DEF BrowserFails
  <2>2. pc[c] \in Asking \ {"lock"} /\ page' \in {"none", "ready", "broken"}
        /\ UNCHANGED <<world, row, cached, began, flight>>
    BY <1>1, <1>3 DEF EnsureBrowser, Asking
  <2> QED
    BY <2>1, <2>2, KindTurns, TurningWorks
<1> QED
  BY <1>1, <1>2, <1>3 DEF EnsureBrowser

LEMMA ReplyTurns ==
  ASSUME TypeOK, NEW c \in Calls, Evaluates(c), pc[c] \in Working
  PROVE  Works(c)
<1>4. /\ pc[c] \in Asking \ {"lock"} /\ mu' = NoCall /\ page' \in {"none", "ready", "broken"}
      /\ UNCHANGED <<world, row, cached, began, flight>>
  BY DEF Evaluates, Working, Asking
<1>1. CASE Offers(kind[c]) /\ Goto(c, "store") /\ UNCHANGED <<kind, failed>>
           /\ answer' = [answer EXCEPT ![c] = IF kind[c] = 1 THEN "word" ELSE "line"]
  <2>1. \E a \in {"word", "line"} : answer' = [answer EXCEPT ![c] = a]
    BY <1>1
  <2> QED
    BY <1>1, <2>1 DEF Evaluates, Goto, Works, Working, Asking, TypeOK, Levels
<1>2. CASE ~Offers(kind[c]) /\ NextKind(c, FALSE)
  <2>1. kind[c] = 2 => apple = "none"
    BY <1>2 DEF Offers, TypeOK, Levels
  <2> QED
    BY <1>2, <1>4, <2>1, KindTurns, TurningWorks
<1>3. CASE NextKind(c, TRUE)
  BY <1>3, <1>4, KindTurns, TurningWorks
<1> QED
  BY <1>1, <1>2, <1>3 DEF Evaluates, Reply

LEMMA BrowserWorks ==
  ASSUME TypeOK, NEW c \in Calls,
         \/ EnsureBrowser(c, "ensure", "eval") \/ EvalFirst(c)
         \/ EnsureBrowser(c, "relaunch", "again") \/ EvalAgain(c)
  PROVE  Works(c)
<1>1. CASE Evaluates(c) /\ pc[c] \in {"eval", "again"}
  BY <1>1, ReplyTurns DEF Working
<1>2. CASE EvalFirst(c) /\ page = "broken"
  <2>1. answer[c] \in Levels \cup {"error"} /\ (UNCHANGED answer => answer' = [answer EXCEPT ![c] = answer[c]])
    BY DEF TypeOK
  <2> QED
    BY <1>2, <2>1 DEF EvalFirst, Evaluates, ResetBrowser, Goto, Works, Working, Asking, TypeOK, local
<1>3. CASE EvalAgain(c) /\ page = "broken"
  <2>1. NextKind(c, TRUE) /\ mu' = NoCall
    BY <1>3 DEF EvalAgain, Evaluates, BrowserFails
  <2>2. pc[c] \in Asking \ {"lock"} /\ page' \in {"none", "ready", "broken"}
        /\ UNCHANGED <<world, row, cached, began, flight>>
    BY <1>3 DEF EvalAgain, Evaluates, Asking, TypeOK
  <2> QED
    BY <2>1, <2>2, KindTurns, TurningWorks
<1> QED
  BY <1>1, <1>2, <1>3, EnsureWorks DEF EvalFirst, EvalAgain

-----------------------------------------------------------------------------
(* The conjuncts of the invariant *)

LEMMA TypesKept ==
  ASSUME TypeOK, Learnt, [Next]_vars
  PROVE  TypeOK'
<1> USE Times, CallsAssumption DEF TypeOK, Learnt, Levels, Leading, Asking, Working
<1>1. CASE UNCHANGED vars
  BY <1>1 DEF vars, world, local
<1>2. CASE NextDay
  BY <1>2 DEF NextDay, local, world
<1>3. CASE AppleChanges
  BY <1>3 DEF AppleChanges, local, world
<1>4. CASE PageDies
  BY <1>4 DEF PageDies, local, world
<1>5. CASE Warm
  BY <1>5 DEF Warm, local, world
<1>6. CASE OtherLocks
  BY <1>6 DEF OtherLocks, local, world
<1>7. CASE OtherDone
  BY <1>7 DEF OtherDone, local, world
<1>8. ASSUME NEW c \in Calls, SongLyrics(c) PROVE TypeOK'
  <2>1. row.level \in Levels \cup {"no row"}
    BY RowTypes
  <2> QED
    BY <1>8, <2>1 DEF SongLyrics, Goto, Fresh, world
<1>9. ASSUME NEW c \in Calls, Lock(c) PROVE TypeOK'
  BY <1>9 DEF Lock, Goto, world, local
<1>10. ASSUME NEW c \in Calls, GroupDo(c) PROVE TypeOK'
  BY <1>10 DEF GroupDo, Goto, world, local
<1>11. ASSUME NEW c \in Calls, LeaveGroup(c) PROVE TypeOK'
  BY <1>11 DEF LeaveGroup, Outcome, world, local
<1>12. ASSUME NEW c \in Calls, NewClient(c) PROVE TypeOK'
  <2>1. failed' \in [Calls -> BOOLEAN]
    BY <1>12, Zenon DEF NewClient, TypeOK
  <2>2. kind' \in [Calls -> 1 .. 2] /\ answer' \in [Calls -> Levels \cup {"error"}]
    BY <1>12 DEF NewClient
  <2> QED
    BY <1>12, <2>1, <2>2 DEF NewClient, Goto, world
<1>13. ASSUME NEW c \in Calls, Store(c) PROVE TypeOK'
  BY <1>13, NewRow DEF Store, Goto, world, local
<1>14. ASSUME NEW c \in Calls, Works(c) PROVE TypeOK'
  BY <1>14 DEF Works, world
<1> QED
  BY <1>1, <1>2, <1>3, <1>4, <1>5, <1>6, <1>7, <1>8, <1>9, <1>10, <1>11, <1>12, <1>13, <1>14, BrowserWorks DEF Next, Step

LEMMA DaysKept ==
  ASSUME TypeOK, Today, Lacked, Learnt, [Next]_vars
  PROVE  (Today /\ Lacked /\ Learnt)'
<1> USE Times, CallsAssumption DEF TypeOK, Today, Lacked, Learnt, Levels, Asking, Working
<1>1. CASE UNCHANGED vars
  BY <1>1 DEF vars, world, local
<1>2. CASE NextDay
  BY <1>2 DEF NextDay, local, world
<1>3. CASE AppleChanges
  BY <1>3 DEF AppleChanges, local, world
<1>4. CASE PageDies
  BY <1>4 DEF PageDies, local, world
<1>5. CASE Warm
  BY <1>5 DEF Warm, local, world
<1>6. CASE OtherLocks
  BY <1>6 DEF OtherLocks, local, world
<1>7. CASE OtherDone
  BY <1>7 DEF OtherDone, local, world
<1>8. ASSUME NEW c \in Calls, SongLyrics(c) PROVE (Today /\ Lacked /\ Learnt)'
  BY <1>8 DEF SongLyrics, Goto, Fresh, world
<1>9. ASSUME NEW c \in Calls, Lock(c) PROVE (Today /\ Lacked /\ Learnt)'
  BY <1>9 DEF Lock, Goto, world, local
<1>10. ASSUME NEW c \in Calls, GroupDo(c) PROVE (Today /\ Lacked /\ Learnt)'
  BY <1>10 DEF GroupDo, Goto, world, local
<1>11. ASSUME NEW c \in Calls, LeaveGroup(c) PROVE (Today /\ Lacked /\ Learnt)'
  BY <1>11 DEF LeaveGroup, Outcome, world, local
<1>12. ASSUME NEW c \in Calls, NewClient(c) PROVE (Today /\ Lacked /\ Learnt)'
  BY <1>12 DEF NewClient, Goto, world
<1>13. ASSUME NEW c \in Calls, Store(c) PROVE (Today /\ Lacked /\ Learnt)'
  BY <1>13 DEF Store, Goto, world, local
<1>14. ASSUME NEW c \in Calls, Works(c) PROVE (Today /\ Lacked /\ Learnt)'
  BY <1>14 DEF Works, world
<1> QED
  BY <1>1, <1>2, <1>3, <1>4, <1>5, <1>6, <1>7, <1>8, <1>9, <1>10, <1>11, <1>12, <1>13, <1>14, BrowserWorks DEF Next, Step

LEMMA LeadersKept ==
  ASSUME TypeOK, Led, Held, [Next]_vars
  PROVE  (Led /\ Held)'
<1> USE Times, CallsAssumption DEF TypeOK, Led, Held, Leading, Asking, Working
<1>1. CASE UNCHANGED vars
  BY <1>1 DEF vars, world, local
<1>2. CASE NextDay
  BY <1>2 DEF NextDay, local, world
<1>3. CASE AppleChanges
  BY <1>3 DEF AppleChanges, local, world
<1>4. CASE PageDies
  BY <1>4 DEF PageDies, local, world
<1>5. CASE Warm
  BY <1>5 DEF Warm, local, world
<1>6. CASE OtherLocks
  BY <1>6 DEF OtherLocks, local, world
<1>7. CASE OtherDone
  BY <1>7 DEF OtherDone, local, world
<1>8. ASSUME NEW c \in Calls, SongLyrics(c) PROVE (Led /\ Held)'
  <2>1. PICK to \in {"do", "returned"} : pc' = [pc EXCEPT ![c] = to]
    BY <1>8 DEF SongLyrics, Goto
  <2>2. pc[c] \in {"idle", "returned"} /\ UNCHANGED <<flight, mu>>
    BY <1>8 DEF SongLyrics
  <2> QED
    BY <2>1, <2>2
<1>9. ASSUME NEW c \in Calls, Lock(c) PROVE (Led /\ Held)'
  BY <1>9 DEF Lock, Goto, world, local
<1>10. ASSUME NEW c \in Calls, GroupDo(c) PROVE (Led /\ Held)'
  <2>1. CASE flight = NoCall
    <3>1. flight' = c /\ pc' = [pc EXCEPT ![c] = "client"] /\ UNCHANGED mu /\ pc[c] = "do"
      BY <1>10, <2>1 DEF GroupDo, Goto
    <3>2. \A d \in Calls : pc[d] \notin Leading \cup {"joined"}
      BY <2>1
    <3> QED
      BY <3>1, <3>2
  <2>2. CASE flight # NoCall
    <3>1. UNCHANGED <<flight, mu>> /\ pc' = [pc EXCEPT ![c] = "joined"] /\ pc[c] = "do"
      BY <1>10, <2>2 DEF GroupDo, Goto
    <3> QED
      BY <2>2, <3>1
  <2> QED
    BY <2>1, <2>2
<1>11. ASSUME NEW c \in Calls, LeaveGroup(c) PROVE (Led /\ Held)'
  BY <1>11 DEF LeaveGroup, Outcome, world, local
<1>12. ASSUME NEW c \in Calls, NewClient(c) PROVE (Led /\ Held)'
  BY <1>12 DEF NewClient, Goto, world
<1>13. ASSUME NEW c \in Calls, Store(c) PROVE (Led /\ Held)'
  BY <1>13 DEF Store, Goto, world, local
<1>14. ASSUME NEW c \in Calls, Works(c) PROVE (Led /\ Held)'
  BY <1>14 DEF Works, world
<1> QED
  BY <1>1, <1>2, <1>3, <1>4, <1>5, <1>6, <1>7, <1>8, <1>9, <1>10, <1>11, <1>12, <1>13, <1>14, BrowserWorks DEF Next, Step

LEMMA LaterStays ==
  ASSUME TypeOK, AnswersTrue, lacked' \in Int, lacked' >= lacked,
         UNCHANGED <<row, pc, cached, began, answer>>
  PROVE  AnswersTrue'
<1>1. row.at \in Int /\ lacked \in Int /\ \A c \in Calls : began[c] \in Int
  <2>1. row.at \in 0 .. MaxTime
    BY RowTypes DEF TypeOK
  <2>2. lacked \in -1 .. MaxTime /\ \A c \in Calls : began[c] \in 0 .. MaxTime
    BY DEF TypeOK
  <2> QED
    BY <2>1, <2>2
<1>2. row.level = "none" => lacked' >= row.at
  BY <1>1 DEF AnswersTrue
<1>3. ASSUME NEW c \in Calls, pc[c] = "returned", answer[c] = "none"
      PROVE  lacked' > began[c] - MissingTTL
  BY <1>1, <1>3, Times DEF AnswersTrue
<1> QED
  BY <1>2, <1>3 DEF AnswersTrue

LEMMA AnswersKept ==
  ASSUME TypeOK, Today, Lacked, Learnt, AnswersTrue, TypeOK', [Next]_vars
  PROVE  AnswersTrue'
<1> USE Times, CallsAssumption DEF TypeOK, Today, Lacked, Learnt, AnswersTrue, Levels, Asking, Working
<1>1. CASE UNCHANGED vars
  BY <1>1 DEF vars, world, local
<1>2. CASE NextDay
  <2>1. lacked' >= lacked /\ UNCHANGED <<row, pc, cached, began, answer>>
    BY <1>2, Times DEF NextDay, local
  <2> QED
    BY <2>1, LaterStays
<1>3. CASE AppleChanges
  <2>1. lacked' >= lacked /\ UNCHANGED <<row, pc, cached, began, answer>>
    BY <1>3, Times DEF AppleChanges, local
  <2> QED
    BY <2>1, LaterStays
<1>4. CASE PageDies
  BY <1>4 DEF PageDies, local, world
<1>5. CASE Warm
  BY <1>5 DEF Warm, local, world
<1>6. CASE OtherLocks
  BY <1>6 DEF OtherLocks, local, world
<1>7. CASE OtherDone
  BY <1>7 DEF OtherDone, local, world
<1>8. ASSUME NEW c \in Calls, SongLyrics(c) PROVE AnswersTrue'
  <2>1. row.level \in Levels \cup {"no row"} /\ row.at \in 0 .. MaxTime
    BY RowTypes
  <2>2. /\ UNCHANGED <<row, lacked>>
        /\ cached' = [cached EXCEPT ![c] = row] /\ began' = [began EXCEPT ![c] = now]
    BY <1>8 DEF SongLyrics, world
  <2>3. CASE Fresh(row)
    <3>1. pc' = [pc EXCEPT ![c] = "returned"] /\ answer' = [answer EXCEPT ![c] = row.level]
      BY <1>8, <2>3 DEF SongLyrics, Goto
    <3>2. row.level # "error" /\ (row.level = "none" => now - row.at < MissingTTL)
      BY <2>1, <2>3 DEF Fresh
    <3>3. row.level = "none" => lacked > now - MissingTTL
      BY <2>1, <3>2
    <3>4. answer'[c] = row.level /\ began'[c] = now
      BY <2>2, <3>1
    <3>5. \A d \in Calls \ {c} : /\ pc'[d] = pc[d] /\ answer'[d] = answer[d]
                               /\ cached'[d] = cached[d] /\ began'[d] = began[d]
      BY <2>2, <3>1
    <3> QED
      BY <2>2, <3>2, <3>3, <3>4, <3>5
  <2>4. CASE ~Fresh(row)
    <3>1. pc' = [pc EXCEPT ![c] = "do"] /\ answer' = [answer EXCEPT ![c] = "none"]
      BY <1>8, <2>4 DEF SongLyrics, Goto
    <3> QED
      BY <2>2, <3>1
  <2> QED
    BY <2>3, <2>4
<1>9. ASSUME NEW c \in Calls, Lock(c) PROVE AnswersTrue'
  BY <1>9 DEF Lock, Goto, world, local
<1>10. ASSUME NEW c \in Calls, GroupDo(c) PROVE AnswersTrue'
  BY <1>10 DEF GroupDo, Goto, world, local
<1>11. ASSUME NEW c \in Calls, LeaveGroup(c) PROVE AnswersTrue'
  BY <1>11 DEF LeaveGroup, Outcome, world, local
<1>12. ASSUME NEW c \in Calls, NewClient(c) PROVE AnswersTrue'
  BY <1>12 DEF NewClient, Goto, world
<1>13. ASSUME NEW c \in Calls, Store(c) PROVE AnswersTrue'
  BY <1>13, NewRow DEF Store, Goto, world, local
<1>14. ASSUME NEW c \in Calls, Works(c) PROVE AnswersTrue'
  BY <1>14 DEF Works, world
<1> QED
  BY <1>1, <1>2, <1>3, <1>4, <1>5, <1>6, <1>7, <1>8, <1>9, <1>10, <1>11, <1>12, <1>13, <1>14, BrowserWorks DEF Next, Step

-----------------------------------------------------------------------------

\* The inductive invariant of the row, the group, its calls and the browser.
THEOREM Invariant == Spec => []IInv
<1>1. IInv /\ [Next]_vars => IInv'
  BY TypesKept, DaysKept, LeadersKept, AnswersKept DEF IInv
<1> QED
  BY <1>1, InitHolds, PTL DEF Spec

\* Whatever fails and whoever waits, each variable keeps its type.
THEOREM TypeCorrect == Spec => []TypeOK
<1>1. IInv => TypeOK
  BY DEF IInv
<1> QED
  BY <1>1, Invariant, PTL

\* "No lyrics" is answered and stored only when Apple had none lately, and no
\* error is returned where lyrics are known, for any number of calls and days.
THEOREM AbsenceIsTrue == Spec => []AnswersTrue
<1>1. IInv => AnswersTrue
  BY DEF IInv
<1> QED
  BY <1>1, Invariant, PTL

\* Whoever waits in the group has a leader at work, and whoever waits for the
\* browser waits for one call that is working with it, or for another request.
THEOREM WaitersHaveLeaders == Spec => [](Led /\ Held)
<1>1. IInv => Led /\ Held
  BY DEF IInv
<1> QED
  BY <1>1, Invariant, PTL

-----------------------------------------------------------------------------
(* Induction over numbers, for functions that are defined by recursion *)

LEMMA LeastNumber ==
  ASSUME NEW T \in SUBSET Nat, T # {}
  PROVE  \E n \in T : \A m \in T : n <= m
<1>1. IsWellFoundedOn(OpToRel(<, Nat), Nat)
  BY NatLessThanWellFounded
<1>2. PICK n \in T : \A m \in T : <<m, n>> \notin OpToRel(<, Nat)
  BY <1>1, WFMin
<1>3. \A m, k \in Nat : <<m, k>> \in OpToRel(<, Nat) <=> m < k
  BY DEF OpToRel
<1>4. \A m \in T : ~(m < n)
  BY <1>2, <1>3, Zenon
<1> QED
  BY <1>4

\* What holds at 0, and at each number up to n when it holds at the one before.
LEMMA Induction ==
  ASSUME NEW n \in Nat, NEW T, 0 \in T, \A i \in 1 .. n : i - 1 \in T => i \in T
  PROVE  0 .. n \subseteq T
<1> SUFFICES ASSUME (0 .. n) \ T # {} PROVE FALSE
  OBVIOUS
<1> DEFINE U == (0 .. n) \ T
<1>1. U \in SUBSET Nat /\ U # {}
  OBVIOUS
<1> HIDE DEF U
<1>2. PICK i \in U : \A j \in U : i <= j
  BY <1>1, LeastNumber
<1> USE DEF U
<1>3. i \in 1 .. n /\ i - 1 \in 0 .. n /\ i - 1 \in T
  BY <1>2
<1> QED
  BY <1>2, <1>3

\* A function that goes from each place to the next by a step of S exists.
Runs(f, n, S, a, steps) ==
  f \in [0 .. n -> S] /\ f[0] = a /\ \A i \in 1 .. n : f[i] = steps[i][f[i - 1]]

LEMMA Recursion ==
  ASSUME NEW n \in Nat, NEW S, NEW a \in S, NEW steps \in [1 .. n -> [S -> S]]
  PROVE  \E f : Runs(f, n, S, a, steps)
<1> DEFINE T == {m \in 0 .. n : \E f : Runs(f, m, S, a, steps)}
<1>1. 0 \in T
  <2>1. Runs([i \in 0 .. 0 |-> a], 0, S, a, steps)
    BY DEF Runs
  <2> QED
    BY <2>1
<1>2. ASSUME NEW m \in 1 .. n, m - 1 \in T PROVE m \in T
  <2>1. PICK f : Runs(f, m - 1, S, a, steps)
    BY <1>2
  <2> DEFINE g == [i \in 0 .. m |-> IF i = m THEN steps[m][f[m - 1]] ELSE f[i]]
  <2>2. m - 1 \in 0 .. m - 1 /\ f[m - 1] \in S /\ steps[m] \in [S -> S] /\ steps[m][f[m - 1]] \in S
    BY <2>1 DEF Runs
  <2>3. /\ g \in [0 .. m -> S] /\ g[0] = a /\ g[m] = steps[m][f[m - 1]]
        /\ \A i \in 0 .. m - 1 : g[i] = f[i]
    BY <2>1, <2>2 DEF Runs
  <2> HIDE DEF g
  <2>4. ASSUME NEW i \in 1 .. m PROVE g[i] = steps[i][g[i - 1]]
    <3>1. CASE i = m
      BY <2>3, <3>1
    <3>2. CASE i # m
      <4>1. i \in 1 .. m - 1 /\ i \in 0 .. m - 1 /\ i - 1 \in 0 .. m - 1
        BY <3>2
      <4> QED
        BY <2>1, <2>3, <4>1 DEF Runs
    <3> QED
      BY <3>1, <3>2
  <2>5. Runs(g, m, S, a, steps)
    BY <2>3, <2>4 DEF Runs
  <2> QED
    BY <2>5
<1> HIDE DEF T
<1>3. 0 .. n \subseteq T
  BY <1>1, <1>2, Induction
<1> QED
  BY <1>3 DEF T

-----------------------------------------------------------------------------
(* Offsets of a text *)

Pieces == Words \cup {Space}

LEMMA PiecesHaveBytes == \A w \in Pieces : BytesOf(w) \in Nat /\ BytesOf(w) > 0
  BY BytesAssumption DEF Pieces, BytesOf

LEMMA OffsetsAdd ==
  ASSUME NEW text \in Seq(Pieces)
  PROVE  /\ Offsets(text)[0] = 0
         /\ \A i \in 1 .. Len(text) : Offsets(text)[i] = Offsets(text)[i - 1] + BytesOf(text[i])
         /\ \A i \in 0 .. Len(text) : Offsets(text)[i] \in Nat
<1> DEFINE n == Len(text)
           G == [i \in 1 .. n |-> [total \in Nat |-> total + BytesOf(text[i])]]
           h == Offsets(text)
<1>1. n \in Nat /\ \A i \in 1 .. n : text[i] \in Pieces /\ BytesOf(text[i]) \in Nat
  BY PiecesHaveBytes
<1>2. G \in [1 .. n -> [Nat -> Nat]]
  BY <1>1
<1>3. PICK f : Runs(f, n, Nat, 0, G)
  <2>1. 0 \in Nat
    OBVIOUS
  <2> HIDE DEF G, n
  <2> QED
    BY <1>1, <1>2, <2>1, Recursion, Zenon
<1>4. ASSUME NEW i \in 1 .. n PROVE f[i] = f[i - 1] + BytesOf(text[i])
  <2>1. i - 1 \in 0 .. n /\ f[i - 1] \in Nat
    <3> HIDE DEF G, n
    <3> QED
      BY <1>1, <1>3 DEF Runs
  <2>2. G[i][f[i - 1]] = f[i - 1] + BytesOf(text[i])
    BY <2>1
  <2>3. f[i] = G[i][f[i - 1]]
    <3> HIDE DEF G, n
    <3> QED
      BY <1>3 DEF Runs
  <2> QED
    BY <2>2, <2>3
<1>5. f = [i \in 0 .. n |-> IF i = 0 THEN 0 ELSE f[i - 1] + BytesOf(text[i])]
  <2>1. n \in Nat /\ f \in [0 .. n -> Nat] /\ f[0] = 0
    BY <1>1, <1>3 DEF Runs
  <2> HIDE DEF n, G
  <2> QED
    BY <1>4, <2>1
<1>6. \E g : g = [i \in 0 .. Len(text) |-> IF i = 0 THEN 0 ELSE g[i - 1] + BytesOf(text[i])]
  BY <1>5
<1>7. h = [i \in 0 .. Len(text) |-> IF i = 0 THEN 0 ELSE h[i - 1] + BytesOf(text[i])]
  BY <1>6, Zenon DEF Offsets
<1> HIDE DEF h, n, G
<1>8. h[0] = 0 /\ \A i \in 1 .. n : h[i] = h[i - 1] + BytesOf(text[i])
  BY <1>1, <1>7 DEF n
<1>9. 0 .. n \subseteq {i \in 0 .. n : h[i] \in Nat}
  <2>1. \A i \in 1 .. n : h[i - 1] \in Nat => h[i] \in Nat
    BY <1>1, <1>8
  <2> DEFINE T == {i \in 0 .. n : h[i] \in Nat}
  <2>2. 0 \in T /\ \A i \in 1 .. n : i - 1 \in T => i \in T
    BY <1>1, <1>8, <2>1
  <2> HIDE DEF T
  <2>3. 0 .. n \subseteq T
    BY <1>1, <2>2, Induction
  <2> QED
    BY <2>3 DEF T
<1> QED
  BY <1>8, <1>9 DEF h, n

\* What is appended to a text moves nothing in it.
LEMMA OffsetsStay ==
  ASSUME NEW text \in Seq(Pieces), NEW more \in Seq(Pieces)
  PROVE  /\ text \o more \in Seq(Pieces)
         /\ \A i \in 0 .. Len(text) : Offsets(text \o more)[i] = Offsets(text)[i]
<1> DEFINE n == Len(text)
           whole == text \o more
<1>1. /\ whole \in Seq(Pieces) /\ n \in Nat /\ Len(whole) \in Nat /\ n <= Len(whole)
      /\ \A i \in 1 .. n : whole[i] = text[i] /\ i \in 1 .. Len(whole)
  OBVIOUS
<1> HIDE DEF whole, n
<1> DEFINE T == {i \in 0 .. n : Offsets(whole)[i] = Offsets(text)[i]}
<1>2. 0 \in T
  BY <1>1, OffsetsAdd
<1>3. ASSUME NEW i \in 1 .. n, i - 1 \in T PROVE i \in T
  <2>1. Offsets(whole)[i] = Offsets(whole)[i - 1] + BytesOf(whole[i])
    BY <1>1, OffsetsAdd
  <2>2. Offsets(text)[i] = Offsets(text)[i - 1] + BytesOf(text[i])
    BY OffsetsAdd DEF n
  <2> QED
    BY <1>1, <1>3, <2>1, <2>2
<1> HIDE DEF T
<1>4. 0 .. n \subseteq T
  BY <1>1, <1>2, <1>3, Induction
<1> QED
  BY <1>1, <1>4 DEF T, n, whole

-----------------------------------------------------------------------------
(* vocalBuilder *)

LEMMA TimesAreNumbers ==
  ASSUME NEW parts \in Seq(Nat)
  PROVE  ParseTime(parts) \in Int
<1> DEFINE n == Len(parts)
           G == [i \in 1 .. n |-> [total \in Nat |-> total * 60 + parts[i]]]
           h == CHOOSE f : f = [i \in 0 .. n |-> IF i = 0 THEN 0 ELSE f[i - 1] * 60 + parts[i]]
<1>1. n \in Nat /\ \A i \in 1 .. n : parts[i] \in Nat
  OBVIOUS
<1>2. G \in [1 .. n -> [Nat -> Nat]]
  BY <1>1
<1>3. PICK f : Runs(f, n, Nat, 0, G)
  <2>1. 0 \in Nat
    OBVIOUS
  <2> HIDE DEF G, n
  <2> QED
    BY <1>1, <1>2, <2>1, Recursion, Zenon
<1>4. ASSUME NEW i \in 1 .. n PROVE f[i] = f[i - 1] * 60 + parts[i]
  <2>1. i - 1 \in 0 .. n /\ f[i - 1] \in Nat
    <3> HIDE DEF G, n
    <3> QED
      BY <1>1, <1>3 DEF Runs
  <2>2. G[i][f[i - 1]] = f[i - 1] * 60 + parts[i]
    BY <2>1
  <2>3. f[i] = G[i][f[i - 1]]
    <3> HIDE DEF G, n
    <3> QED
      BY <1>3 DEF Runs
  <2> QED
    BY <2>2, <2>3
<1>5. f = [i \in 0 .. n |-> IF i = 0 THEN 0 ELSE f[i - 1] * 60 + parts[i]]
  <2>1. n \in Nat /\ f \in [0 .. n -> Nat] /\ f[0] = 0
    BY <1>1, <1>3 DEF Runs
  <2> HIDE DEF n, G
  <2> QED
    BY <1>4, <2>1
<1>6. h = [i \in 0 .. n |-> IF i = 0 THEN 0 ELSE h[i - 1] * 60 + parts[i]]
  <2>1. \E g : g = [i \in 0 .. n |-> IF i = 0 THEN 0 ELSE g[i - 1] * 60 + parts[i]]
    BY <1>5
  <2> QED
    BY <2>1, Zenon
<1>7. ParseTime(parts) = IF n \in 1 .. 3 THEN h[n] ELSE NoTime
  BY Zenon DEF ParseTime
<1> HIDE DEF h, G, n
<1>8. h[0] = 0 /\ \A i \in 1 .. n : h[i] = h[i - 1] * 60 + parts[i]
  BY <1>1, <1>6
<1> DEFINE T == {i \in 0 .. n : h[i] \in Nat}
<1>9. 0 \in T
  BY <1>1, <1>8
<1>10. ASSUME NEW i \in 1 .. n, i - 1 \in T PROVE i \in T
  <2>1. i \in 0 .. n /\ h[i - 1] \in Nat /\ h[i] = h[i - 1] * 60 + parts[i] /\ parts[i] \in Nat
    BY <1>1, <1>8, <1>10
  <2> QED
    BY <2>1
<1> HIDE DEF T
<1>11. 0 .. n \subseteq T
  BY <1>1, <1>9, <1>10, Induction
<1>12. n \in T
  BY <1>1, <1>11
<1> QED
  BY <1>7, <1>12 DEF T, NoTime

Syllable == [begin : Int, end : Int, text : Words, byteStart : Nat, byteEnd : Nat]

\* A builder whose syllables name their words in its text, each past the one before.
Builders ==
  {b \in [text : Seq(Pieces), size : Nat, pending : BOOLEAN, syllables : Seq(Syllable)] :
     /\ b.size = Offsets(b.text)[Len(b.text)]
     /\ \A k \in 1 .. Len(b.syllables) :
          Names(b.text, b.syllables[k]) /\ b.syllables[k].byteEnd < b.size
     /\ \A k \in 1 .. Len(b.syllables) - 1 :
          b.syllables[k].byteEnd < b.syllables[k + 1].byteStart}

LEMMA EmptyIsBuilder == EmptyBuilder \in Builders
<1> DEFINE none == <<>>
<1>1. none \in Seq(Pieces) /\ Len(none) = 0
  OBVIOUS
<1> HIDE DEF none
<1>2. Offsets(none)[0] = 0
  BY <1>1, OffsetsAdd
<1> QED
  BY <1>2 DEF EmptyBuilder, Builders, none

\* A syllable keeps its name when the text grows.
LEMMA NamesStay ==
  ASSUME NEW text \in Seq(Pieces), NEW more \in Seq(Pieces), NEW s, Names(text, s)
  PROVE  Names(text \o more, s)
<1>1. PICK i \in 1 .. Len(text) :
        /\ text[i] = s.text
        /\ s.byteStart = Offsets(text)[i - 1] /\ s.byteEnd = Offsets(text)[i] - 1
  BY DEF Names
<1>2. i \in 0 .. Len(text) /\ i - 1 \in 0 .. Len(text)
  OBVIOUS
<1>3. /\ Offsets(text \o more)[i] = Offsets(text)[i]
      /\ Offsets(text \o more)[i - 1] = Offsets(text)[i - 1]
  BY <1>2, OffsetsStay
<1>4. i \in DOMAIN (text \o more) /\ (text \o more)[i] = text[i]
  OBVIOUS
<1> QED
  BY <1>1, <1>3, <1>4 DEF Names

LEMMA AddKeeps ==
  ASSUME NEW b \in Builders, NEW s, s.core \in Words \cup {None}, s.lead \in BOOLEAN,
         s.trail \in BOOLEAN, s.begin \in Int, s.end \in Int, NEW timed \in BOOLEAN
  PROVE  Add(b, s, timed) \in Builders
<1>1. /\ b \in [text : Seq(Pieces), size : Nat, pending : BOOLEAN, syllables : Seq(Syllable)]
      /\ b.size = Offsets(b.text)[Len(b.text)]
      /\ \A k \in 1 .. Len(b.syllables) :
           Names(b.text, b.syllables[k]) /\ b.syllables[k].byteEnd < b.size
      /\ \A k \in 1 .. Len(b.syllables) - 1 :
           b.syllables[k].byteEnd < b.syllables[k + 1].byteStart
  BY DEF Builders
<1>2. CASE s.core = None
  <2> DEFINE pending == b.pending \/ b.size > 0
  <2>1. Add(b, s, timed) = [b EXCEPT !.pending = pending] /\ pending \in BOOLEAN
    BY <1>1, <1>2 DEF Add
  <2> HIDE DEF pending
  <2> QED
    BY <1>1, <2>1 DEF Builders
<1>3. CASE s.core # None
  <2> DEFINE gap == IF Spaced(b, s) THEN <<Space>> ELSE <<>>
             wide == IF Spaced(b, s) THEN 1 ELSE 0
             more == gap \o <<s.core>>
             text == b.text \o gap \o <<s.core>>
             start == b.size + wide
             size == b.size + wide + Bytes[s.core]
             syllable == [begin |-> s.begin, end |-> s.end, text |-> s.core,
                          byteStart |-> start, byteEnd |-> start + Bytes[s.core] - 1]
             syllables == IF timed THEN Append(b.syllables, syllable) ELSE b.syllables
  <2>1. Add(b, s, timed) = [text |-> text, size |-> size, pending |-> s.trail, syllables |-> syllables]
    BY <1>3 DEF Add, StartOf
  <2>2. s.core \in Words /\ Bytes[s.core] \in Nat /\ Bytes[s.core] > 0 /\ wide \in Nat
        /\ s.core # Space /\ s.core \in Pieces /\ Space \in Pieces
    BY <1>3, BytesAssumption DEF Pieces
  <2>3. gap \in Seq(Pieces) /\ b.text \o gap \in Seq(Pieces) /\ <<s.core>> \in Seq(Pieces)
        /\ text \in Seq(Pieces)
    BY <1>1, <2>2
  <2>4. Offsets(b.text \o gap)[Len(b.text \o gap)] = start
    <3>1. Offsets(b.text \o gap)[Len(b.text)] = b.size
      <4>1. Len(b.text) \in 0 .. Len(b.text) /\ gap \in Seq(Pieces) /\ b.text \in Seq(Pieces)
        BY <1>1, <2>3
      <4> HIDE DEF gap
      <4> QED
        BY <1>1, <4>1, OffsetsStay
    <3>2. CASE Spaced(b, s)
      <4> DEFINE n == Len(b.text) + 1
      <4>1. /\ b.text \o gap \in Seq(Pieces) /\ Len(b.text \o gap) = n /\ n \in 1 .. n
            /\ n - 1 = Len(b.text) /\ (b.text \o gap)[n] = Space
        BY <1>1, <2>3, <3>2
      <4>2. Offsets(b.text \o gap)[n] = Offsets(b.text \o gap)[n - 1] + BytesOf((b.text \o gap)[n])
        <5> HIDE DEF gap, n
        <5> QED
          BY <4>1, OffsetsAdd
      <4> QED
        BY <3>1, <3>2, <4>1, <4>2 DEF BytesOf
    <3>3. CASE ~Spaced(b, s)
      <4>1. b.text \o gap = b.text
        BY <1>1, <3>3
      <4> QED
        BY <1>1, <3>3, <4>1
    <3> QED
      BY <3>2, <3>3
  <2> DEFINE before == b.text \o gap
  <2>5. /\ text = before \o <<s.core>> /\ before \in Seq(Pieces)
        /\ Offsets(before)[Len(before)] = start /\ start \in Nat /\ start >= b.size
    BY <1>1, <2>2, <2>3, <2>4
  <2>6. /\ Len(text) = Len(before) + 1 /\ text[Len(before) + 1] = s.core
        /\ Offsets(text)[Len(before)] = start /\ Offsets(text)[Len(before) + 1] = size
    <3> HIDE DEF before, start, text
    <3>1. Len(before) \in Nat /\ Len(text) = Len(before) + 1 /\ text[Len(before) + 1] = s.core
      BY <2>2, <2>5
    <3>2. Offsets(text)[Len(before)] = start
      <4>1. Len(before) \in 0 .. Len(before) /\ <<s.core>> \in Seq(Pieces)
        BY <2>3, <3>1
      <4> QED
        BY <2>5, <4>1, OffsetsStay
    <3>3. Offsets(text)[Len(before) + 1] = Offsets(text)[Len(before)] + BytesOf(s.core)
      <4>1. Len(before) + 1 \in 1 .. Len(text) /\ (Len(before) + 1) - 1 = Len(before)
        BY <3>1
      <4> QED
        BY <2>3, <3>1, <4>1, OffsetsAdd
    <3>4. BytesOf(s.core) = Bytes[s.core]
      BY <2>2 DEF BytesOf
    <3> QED
      BY <3>1, <3>2, <3>3, <3>4 DEF start, size
  <2>7. Names(text, syllable)
    <3>1. Len(before) + 1 \in DOMAIN text /\ (Len(before) + 1) - 1 = Len(before)
      <4> HIDE DEF text, before, start, size
      <4>1. Len(before) \in Nat /\ text \in Seq(Pieces) /\ Len(text) = Len(before) + 1
        BY <2>3, <2>5, <2>6
      <4> QED
        BY <4>1
    <3>2. syllable.text = s.core /\ syllable.byteStart = start /\ syllable.byteEnd = size - 1
      BY <1>1, <2>2
    <3> HIDE DEF text, before, syllable, start, size
    <3> QED
      BY <2>6, <3>1, <3>2 DEF Names
  <2>8. \A k \in 1 .. Len(b.syllables) : Names(text, b.syllables[k])
    <3>1. gap \in Seq(Pieces) /\ <<s.core>> \in Seq(Pieces) /\ b.text \in Seq(Pieces)
          /\ before \in Seq(Pieces)
      BY <1>1, <2>3
    <3> HIDE DEF gap
    <3> QED
      BY <1>1, <3>1, NamesStay
  <2>9. syllable \in Syllable /\ syllable.byteEnd < size /\ b.size <= syllable.byteStart /\ b.size <= size
    <3> DEFINE end == start + Bytes[s.core] - 1
    <3>1. b.size \in Nat /\ start \in Nat /\ end \in Nat
          /\ end < size /\ b.size <= start /\ b.size <= size
      <4>1. b.size \in Nat /\ wide \in Nat /\ Bytes[s.core] \in Nat /\ Bytes[s.core] > 0
        BY <1>1, <2>2
      <4> HIDE DEF wide
      <4> QED
        BY <4>1
    <3>2. syllable.byteStart = start /\ syllable.byteEnd = end
      OBVIOUS
    <3>3. syllable \in Syllable
      <4> HIDE DEF start, end, size
      <4> QED
        BY <2>2, <3>1 DEF Syllable
    <3> HIDE DEF syllable, start, end, size
    <3> QED
      BY <3>1, <3>2, <3>3
  <2> HIDE DEF text, size, syllable, gap, wide, start
  <2>10. size \in Nat /\ size = Offsets(text)[Len(text)]
    <3>1. size \in Nat
      BY <1>1, <2>2 DEF size
    <3> HIDE DEF before
    <3> QED
      BY <2>6, <3>1
  <2>11. /\ syllables \in Seq(Syllable)
         /\ \A k \in 1 .. Len(syllables) : Names(text, syllables[k]) /\ syllables[k].byteEnd < size
         /\ \A k \in 1 .. Len(syllables) - 1 : syllables[k].byteEnd < syllables[k + 1].byteStart
    <3> DEFINE old == b.syllables
    <3>1. /\ old \in Seq(Syllable) /\ Len(old) \in Nat
          /\ \A k \in 1 .. Len(old) : Names(text, old[k]) /\ old[k].byteEnd < b.size
          /\ \A k \in 1 .. Len(old) : old[k].byteEnd \in Nat
          /\ \A k \in 1 .. Len(old) - 1 : old[k].byteEnd < old[k + 1].byteStart
      <4>1. old \in Seq(Syllable)
        BY <1>1
      <4>2. Len(old) \in Nat /\ \A k \in 1 .. Len(old) : old[k] \in Syllable
        BY <4>1
      <4>3. \A syl \in Syllable : syl.byteEnd \in Nat
        BY DEF Syllable
      <4>4. \A k \in 1 .. Len(old) : old[k].byteEnd \in Nat
        BY <4>2, <4>3
      <4>5. \A k \in 1 .. Len(old) : Names(text, old[k]) /\ old[k].byteEnd < b.size
        BY <1>1, <2>8
      <4>6. \A k \in 1 .. Len(old) - 1 : old[k].byteEnd < old[k + 1].byteStart
        BY <1>1
      <4> HIDE DEF old
      <4> QED
        BY <4>1, <4>2, <4>4, <4>5, <4>6
    <3>2. b.size \in Nat /\ syllable.byteStart \in Nat
      BY <1>1, <2>9 DEF Syllable
    <3>3. CASE timed
      <4>1. /\ syllables = Append(old, syllable)
            /\ Len(syllables) = Len(old) + 1 /\ syllables[Len(old) + 1] = syllable
            /\ \A k \in 1 .. Len(old) : syllables[k] = old[k]
            /\ syllables \in Seq(Syllable)
        BY <2>9, <3>1, <3>3
      <4> HIDE DEF syllables, old
      <4>2. \A k \in 1 .. Len(syllables) : k = Len(old) + 1 \/ k \in 1 .. Len(old)
        BY <3>1, <4>1
      <4>3. \A k \in 1 .. Len(syllables) : Names(text, syllables[k]) /\ syllables[k].byteEnd < size
        BY <2>7, <2>9, <2>10, <3>1, <3>2, <4>1, <4>2
      <4>4. ASSUME NEW k \in 1 .. Len(syllables) - 1
            PROVE  syllables[k].byteEnd < syllables[k + 1].byteStart
        <5>1. k \in 1 .. Len(old) /\ syllables[k] = old[k]
          BY <3>1, <4>1
        <5>2. CASE k = Len(old)
          BY <2>9, <3>1, <3>2, <4>1, <5>1, <5>2
        <5>3. CASE k # Len(old)
          <6>1. k \in 1 .. Len(old) - 1 /\ k + 1 \in 1 .. Len(old)
            BY <3>1, <5>1, <5>3
          <6> QED
            BY <3>1, <4>1, <5>1, <6>1
        <5> QED
          BY <5>2, <5>3
      <4> QED
        BY <4>1, <4>3, <4>4
    <3>4. CASE ~timed
      <4>1. syllables = old
        BY <3>4
      <4> HIDE DEF syllables, old
      <4> QED
        BY <2>9, <2>10, <3>1, <3>2, <4>1
    <3> QED
      BY <3>3, <3>4
  <2> HIDE DEF syllables
  <2> QED
    BY <2>1, <2>3, <2>10, <2>11 DEF Builders
<1> QED
  BY <1>2, <1>3

LEMMA HandedKeeps ==
  ASSUME NEW b \in Builders, NEW s \in String, NEW wordTimed \in BOOLEAN
  PROVE  Handed(b, s, wordTimed) \in Builders
<1> DEFINE begin == ParseTime(s.begin)
           u == [s EXCEPT !.begin = begin, !.end = ParseTime(@)]
           timed == wordTimed /\ begin # NoTime
<1>1. begin \in Int /\ ParseTime(s.end) \in Int
  BY TimesAreNumbers DEF String
<1>2. /\ u.core \in Words \cup {None} /\ u.lead \in BOOLEAN /\ u.trail \in BOOLEAN
      /\ u.begin \in Int /\ u.end \in Int
  BY <1>1 DEF String
<1>3. Handed(b, s, wordTimed) = Add(b, u, timed) /\ timed \in BOOLEAN
  BY DEF Handed
<1> HIDE DEF u, timed
<1> QED
  BY <1>2, <1>3, AddKeeps

\* Whatever a paragraph is made of, both its layers are built right.
LEMMA BuiltRight ==
  ASSUME NEW strings \in Seq(String), NEW layer, NEW wordTimed \in BOOLEAN
  PROVE  Built(strings, layer, wordTimed)[Len(strings)] \in Builders
<1> DEFINE n == Len(strings)
           Next1(i, b) == IF strings[i].layer = layer THEN Handed(b, strings[i], wordTimed) ELSE b
           G == [i \in 1 .. n |-> [b \in Builders |-> Next1(i, b)]]
           h == Built(strings, layer, wordTimed)
<1>1. n \in Nat /\ \A i \in 1 .. n : strings[i] \in String
  OBVIOUS
<1>2. \A i \in 1 .. n, b \in Builders : Next1(i, b) \in Builders
  BY <1>1, HandedKeeps
<1>3. G \in [1 .. n -> [Builders -> Builders]]
  <2> HIDE DEF Next1, n
  <2> QED
    BY <1>2
<1>4. PICK f : Runs(f, n, Builders, EmptyBuilder, G)
  <2> HIDE DEF G, n
  <2> QED
    BY <1>1, <1>3, EmptyIsBuilder, Recursion, Zenon
<1> HIDE DEF n
<1>5. /\ f \in [0 .. n -> Builders] /\ f[0] = EmptyBuilder
      /\ \A i \in 1 .. n : f[i] = Next1(i, f[i - 1]) /\ f[i - 1] \in Builders
  <2>1. f \in [0 .. n -> Builders] /\ f[0] = EmptyBuilder /\ \A i \in 1 .. n : f[i] = G[i][f[i - 1]]
    <3> HIDE DEF G
    <3> QED
      BY <1>4 DEF Runs
  <2>2. \A i \in 1 .. n : i - 1 \in 0 .. n /\ f[i - 1] \in Builders
    BY <1>1, <2>1
  <2> HIDE DEF Next1
  <2>3. \A i \in 1 .. n : G[i][f[i - 1]] = Next1(i, f[i - 1])
    BY <2>2
  <2> QED
    BY <2>1, <2>2, <2>3
<1>6. f = [i \in 0 .. n |->
             IF i = 0 THEN EmptyBuilder
             ELSE IF strings[i].layer = layer THEN Handed(f[i - 1], strings[i], wordTimed)
             ELSE f[i - 1]]
  BY <1>1, <1>5
<1>7. h = [i \in 0 .. n |->
             IF i = 0 THEN EmptyBuilder
             ELSE IF strings[i].layer = layer THEN Handed(h[i - 1], strings[i], wordTimed)
             ELSE h[i - 1]]
  <2>1. \E g : g = [i \in 0 .. Len(strings) |->
                      IF i = 0 THEN EmptyBuilder
                      ELSE IF strings[i].layer = layer THEN Handed(g[i - 1], strings[i], wordTimed)
                      ELSE g[i - 1]]
    BY <1>6 DEF n
  <2> QED
    BY <2>1, Zenon DEF Built, n
<1> HIDE DEF h, G, Next1
<1>8. h[0] = EmptyBuilder /\ \A i \in 1 .. n : h[i] = Next1(i, h[i - 1])
  BY <1>1, <1>7 DEF Next1
<1> DEFINE T == {i \in 0 .. n : h[i] \in Builders}
<1>9. 0 \in T
  BY <1>1, <1>8, EmptyIsBuilder
<1>10. ASSUME NEW i \in 1 .. n, i - 1 \in T PROVE i \in T
  BY <1>1, <1>2, <1>8, <1>10
<1> HIDE DEF T
<1>11. 0 .. n \subseteq T
  BY <1>1, <1>9, <1>10, Induction
<1>12. n \in T
  BY <1>1, <1>11
<1> QED
  BY <1>12 DEF T, h, n

\* vocal() moves no syllable and leaves none open or overlapping the next.
LEMMA VocalRight ==
  ASSUME NEW b \in Builders
  PROVE  LET vocal == Vocal(b)
         IN  OffsetsExact(vocal) /\ (InOrder(vocal.syllables) => Readable(vocal.syllables))
<1> DEFINE old == b.syllables
           new == Vocal(b).syllables
<1>1. /\ old \in Seq(Syllable) /\ Len(old) \in Nat
      /\ \A k \in 1 .. Len(old) : old[k] \in Syllable /\ Names(b.text, old[k])
      /\ \A k \in 1 .. Len(old) - 1 : old[k].byteEnd < old[k + 1].byteStart
  BY DEF Builders
<1>2. /\ Vocal(b).text = b.text /\ new \in Seq({[old[i] EXCEPT !.end = End(old, i)] : i \in 1 .. Len(old)})
      /\ Len(new) = Len(old) /\ DOMAIN new = 1 .. Len(old)
      /\ \A k \in 1 .. Len(old) : new[k] = [old[k] EXCEPT !.end = End(old, k)]
  BY <1>1 DEF Vocal
<1> HIDE DEF old, new
<1>3. ASSUME NEW k \in 1 .. Len(old)
      PROVE  /\ new[k].text = old[k].text /\ new[k].begin = old[k].begin /\ new[k].end = End(old, k)
             /\ new[k].byteStart = old[k].byteStart /\ new[k].byteEnd = old[k].byteEnd
  <2>1. old[k] \in Syllable /\ new[k] = [old[k] EXCEPT !.end = End(old, k)]
    BY <1>1, <1>2
  <2> QED
    BY <2>1 DEF Syllable
<1>4. OffsetsExact(Vocal(b))
  <2>1. \A k \in 1 .. Len(old) : Names(b.text, new[k])
    BY <1>1, <1>3 DEF Names
  <2>2. \A s \in ToSet(new) : Names(b.text, s)
    BY <1>2, <2>1 DEF ToSet
  <2>3. \A k \in 1 .. Len(new) - 1 : new[k].byteEnd < new[k + 1].byteStart
    BY <1>1, <1>2, <1>3
  <2> QED
    BY <1>2, <2>2, <2>3 DEF OffsetsExact, new
<1>5. ASSUME InOrder(new) PROVE Readable(new)
  <2>1. ASSUME NEW k \in 1 .. Len(old)
        PROVE  /\ new[k].begin <= new[k].end
               /\ k < Len(old) => new[k].end <= new[k + 1].begin
    <3>1. old[k].begin \in Int /\ old[k].end \in Int
      BY <1>1 DEF Syllable
    <3>2. CASE k < Len(old)
      <4>1. k + 1 \in 1 .. Len(old) /\ k \in 1 .. Len(new) - 1
        BY <1>1, <1>2, <3>2
      <4>2. old[k + 1].begin \in Int /\ old[k].begin <= old[k + 1].begin
        BY <1>1, <1>3, <1>5, <4>1 DEF Syllable, InOrder
      <4>3. old[k].begin <= End(old, k) /\ End(old, k) <= old[k + 1].begin
        BY <3>1, <3>2, <4>2 DEF End, AtLeast, AtMost
      <4> QED
        BY <1>3, <4>1, <4>3
    <3>3. CASE ~(k < Len(old))
      <4>1. old[k].begin <= End(old, k)
        BY <3>1, <3>3 DEF End, AtLeast, AtMost
      <4> QED
        BY <1>3, <3>3, <4>1
    <3> QED
      BY <3>2, <3>3
  <2>2. \A k \in 1 .. Len(new) : new[k].begin <= new[k].end
    BY <1>2, <2>1
  <2>3. ASSUME NEW k \in 1 .. Len(new) - 1 PROVE new[k].end <= new[k + 1].begin
    <3>1. k \in 1 .. Len(old) /\ k < Len(old)
      BY <1>1, <1>2
    <3> QED
      BY <2>1, <3>1
  <2> QED
    BY <2>2, <2>3 DEF Readable
<1> QED
  BY <1>4, <1>5 DEF new

LEMMA AllCuesRight ==
  ASSUME NEW paragraphs \in SUBSET Seq(String)
  PROVE  CuesRightFor(paragraphs)
<1>1. ASSUME NEW p \in paragraphs, NEW layer \in {"main", "bg"}
      PROVE  LET vocal == ParseVocal(p, layer, TRUE)
             IN  OffsetsExact(vocal) /\ (InOrder(vocal.syllables) => Readable(vocal.syllables))
  <2>1. Built(p, layer, TRUE)[Len(p)] \in Builders
    BY BuiltRight
  <2> QED
    BY <2>1, VocalRight DEF ParseVocal
<1> QED
  BY <1>1 DEF CuesRightFor

-----------------------------------------------------------------------------
(* The order of lines *)

\* A strict order in which any two elements of I can be compared.
Orders(before, I) ==
  /\ \A i \in I : <<i, i>> \notin before
  /\ \A i, j, k \in I : <<i, j>> \in before /\ <<j, k>> \in before => <<i, k>> \in before
  /\ \A i, j \in I : i = j \/ <<i, j>> \in before \/ <<j, i>> \in before

Rank(i, I, before) == Cardinality({j \in I : <<j, i>> \in before})

\* Each place below the number of elements is the rank of one of them.
LEMMA Ranking ==
  ASSUME NEW I, IsFiniteSet(I), NEW before, Orders(before, I)
  PROVE  /\ Cardinality(I) \in Nat
         /\ \A i \in I : Rank(i, I, before) \in 0 .. Cardinality(I) - 1
         /\ \A i, j \in I : <<i, j>> \in before => Rank(i, I, before) < Rank(j, I, before)
         /\ \A k \in 1 .. Cardinality(I) : \E i \in I : Rank(i, I, before) = k - 1
<1> DEFINE n == Cardinality(I)
           Below(i) == {j \in I : <<j, i>> \in before}
           rank == [i \in I |-> Rank(i, I, before)]
<1>1. n \in Nat /\ \A i \in I : IsFiniteSet(Below(i)) /\ Cardinality(Below(i)) \in Nat
  <2>1. \A i \in I : Below(i) \in SUBSET I
    OBVIOUS
  <2> QED
    BY <2>1, FS_Subset, FS_CardinalityType
<1>2. ASSUME NEW i \in I PROVE Rank(i, I, before) \in 0 .. n - 1
  <2>1. Below(i) \in SUBSET I /\ i \notin Below(i)
    BY DEF Orders
  <2>2. Cardinality(Below(i)) <= n /\ Cardinality(Below(i)) # n
    <3> HIDE DEF Below
    <3> QED
      BY <2>1, FS_Subset
  <2>3. Cardinality(Below(i)) \in Nat
    BY <1>1
  <2>4. Rank(i, I, before) = Cardinality(Below(i))
    BY DEF Rank
  <2> HIDE DEF Below, n
  <2> QED
    BY <1>1, <2>2, <2>3, <2>4
<1>3. ASSUME NEW i \in I, NEW j \in I, <<i, j>> \in before
      PROVE  Rank(i, I, before) < Rank(j, I, before)
  <2>1. Below(i) \in SUBSET Below(j) /\ i \in Below(j) /\ i \notin Below(i)
    BY <1>3 DEF Orders
  <2>2. Cardinality(Below(i)) <= Cardinality(Below(j)) /\ Cardinality(Below(i)) # Cardinality(Below(j))
    <3> HIDE DEF Below
    <3> QED
      BY <1>1, <2>1, FS_Subset
  <2> QED
    BY <1>1, <2>2 DEF Rank
<1>4. rank \in Injection(I, 0 .. n - 1)
  <2>1. rank \in [I -> 0 .. n - 1]
    BY <1>2
  <2>2. ASSUME NEW i \in I, NEW j \in I, rank[i] = rank[j] PROVE i = j
    <3>1. Rank(i, I, before) = Rank(j, I, before) /\ Rank(i, I, before) \in Nat
      BY <1>1, <1>2, <2>2
    <3>2. ~(<<i, j>> \in before)
      BY <1>3, <3>1
    <3>3. ~(<<j, i>> \in before)
      BY <1>3, <3>1
    <3> QED
      BY <3>2, <3>3 DEF Orders
  <2> HIDE DEF rank
  <2>3. DOMAIN rank = I
    BY <2>1
  <2> QED
    BY <2>1, <2>2, <2>3 DEF Injection, IsInjective
<1>5. IsFiniteSet(0 .. n - 1) /\ Cardinality(0 .. n - 1) = n
  BY <1>1, FS_Interval
<1>6. rank \in Surjection(I, 0 .. n - 1)
  <2> HIDE DEF rank
  <2> QED
    BY <1>4, <1>5, FS_Injection
<1>7. \A k \in 1 .. n : k - 1 \in 0 .. n - 1
  BY <1>1
<1>8. \A k \in 1 .. n : \E i \in I : Rank(i, I, before) = k - 1
  BY <1>6, <1>7 DEF Surjection
<1> QED
  BY <1>1, <1>2, <1>3, <1>8

\* The places that Arranged lists: every element of I once, in order.
Lists(places, s, I, before) ==
  /\ Cardinality(I) \in Nat
  /\ places \in [1 .. Cardinality(I) -> I]
  /\ Arranged(s, I, before) = [k \in 1 .. Cardinality(I) |-> s[places[k]]]
  /\ \A k, m \in 1 .. Cardinality(I) : k < m => <<places[k], places[m]>> \in before
  /\ \A i \in I : \E k \in 1 .. Cardinality(I) : places[k] = i

LEMMA ArrangedRight ==
  ASSUME NEW I, IsFiniteSet(I), NEW before, Orders(before, I), NEW s
  PROVE  \E places : Lists(places, s, I, before)
<1> DEFINE n == Cardinality(I)
           places == [k \in 1 .. n |-> CHOOSE i \in I : Rank(i, I, before) = k - 1]
<1>1. /\ n \in Nat
      /\ \A i \in I : Rank(i, I, before) \in 0 .. n - 1
      /\ \A i, j \in I : <<i, j>> \in before => Rank(i, I, before) < Rank(j, I, before)
      /\ \A k \in 1 .. n : \E i \in I : Rank(i, I, before) = k - 1
  BY Ranking
<1>2. \A k \in 1 .. n : places[k] \in I /\ Rank(places[k], I, before) = k - 1
  BY <1>1
<1>3. Arranged(s, I, before) = [k \in 1 .. n |-> s[places[k]]]
  <2>1. \A k \in 1 .. n : places[k] = CHOOSE i \in I : Cardinality({j \in I : <<j, i>> \in before}) = k - 1
    BY DEF Rank
  <2>2. ASSUME NEW k \in 1 .. n
        PROVE  Arranged(s, I, before)[k] = s[places[k]]
    BY <2>1 DEF Arranged
  <2>3. Arranged(s, I, before) = [k \in 1 .. n |-> Arranged(s, I, before)[k]]
    BY DEF Arranged
  <2> HIDE DEF places, n
  <2> QED
    BY <2>2, <2>3
<1>4. places \in [1 .. n -> I]
  BY <1>2
<1> HIDE DEF places, n
<1>5. ASSUME NEW i \in I, NEW j \in I, Rank(i, I, before) = Rank(j, I, before)
      PROVE  i = j
  <2>1. Rank(i, I, before) \in Nat
    BY <1>1
  <2>2. ~(<<i, j>> \in before)
    BY <1>1, <1>5, <2>1
  <2>3. ~(<<j, i>> \in before)
    BY <1>1, <1>5, <2>1
  <2> QED
    BY <2>2, <2>3 DEF Orders
<1>6. ASSUME NEW k \in 1 .. n, NEW m \in 1 .. n, k < m
      PROVE  <<places[k], places[m]>> \in before
  <2>1. ~(<<places[m], places[k]>> \in before) /\ places[k] # places[m]
    BY <1>1, <1>2, <1>6
  <2> QED
    BY <1>2, <2>1 DEF Orders
<1>7. ASSUME NEW i \in I PROVE \E k \in 1 .. n : places[k] = i
  <2>1. Rank(i, I, before) + 1 \in 1 .. n
    BY <1>1
  <2>2. Rank(places[Rank(i, I, before) + 1], I, before) = Rank(i, I, before)
    BY <1>1, <1>2, <2>1
  <2> QED
    BY <1>2, <1>5, <2>1, <2>2
<1>8. Lists(places, s, I, before)
  BY <1>1, <1>3, <1>4, <1>6, <1>7 DEF Lists, n
<1> QED
  BY <1>8

\* The places of I in s that its selection lists, in their order.
Selects(places, s, I) ==
  /\ places \in [1 .. Len(Kept(s, I)) -> I]
  /\ \A k \in 1 .. Len(Kept(s, I)) : Kept(s, I)[k] = s[places[k]]
  /\ \A k, m \in 1 .. Len(Kept(s, I)) : k < m => places[k] < places[m]
  /\ \A i \in I : \E k \in 1 .. Len(Kept(s, I)) : places[k] = i

LEMMA KeptRight ==
  ASSUME NEW T, NEW s \in Seq(T), NEW I \in SUBSET (DOMAIN s)
  PROVE  Kept(s, I) \in Seq(T) /\ \E places : Selects(places, s, I)
<1> DEFINE before == {p \in I \X I : p[1] < p[2]}
<1>1. IsFiniteSet(I) /\ I \subseteq 1 .. Len(s) /\ \A i \in I : i \in Int /\ s[i] \in T
  <2>1. IsFiniteSet(1 .. Len(s))
    BY FS_Interval
  <2> QED
    BY <2>1, FS_Subset
<1>2. \A i, j \in I : <<i, j>> \in before <=> i < j
  OBVIOUS
<1>3. Kept(s, I) = Arranged(s, I, before)
  BY DEF Kept
<1> HIDE DEF before
<1>4. Orders(before, I)
  BY <1>1, <1>2 DEF Orders
<1>8. PICK places : Lists(places, s, I, before)
  BY <1>1, <1>4, ArrangedRight
<1>5. /\ places \in [1 .. Cardinality(I) -> I]
      /\ Kept(s, I) = [k \in 1 .. Cardinality(I) |-> s[places[k]]]
      /\ \A k, m \in 1 .. Cardinality(I) : k < m => <<places[k], places[m]>> \in before
      /\ \A i \in I : \E k \in 1 .. Cardinality(I) : places[k] = i
      /\ Cardinality(I) \in Nat
  BY <1>3, <1>8 DEF Lists
<1>6. Len(Kept(s, I)) = Cardinality(I) /\ Kept(s, I) \in Seq(T)
  <2> DEFINE n == Cardinality(I)
             kept == [k \in 1 .. n |-> s[places[k]]]
  <2>1. \A k \in 1 .. n : s[places[k]] \in T
    BY <1>1, <1>5
  <2>2. n \in Nat /\ Kept(s, I) = kept
    BY <1>5
  <2>3. kept \in [1 .. n -> T]
    BY <2>1
  <2> HIDE DEF n, kept
  <2>4. kept \in Seq(T) /\ Len(kept) = n
    BY <2>2, <2>3
  <2> QED
    BY <2>2, <2>4 DEF n
<1>7. \A k, m \in 1 .. Cardinality(I) : k < m => places[k] < places[m]
  BY <1>2, <1>5
<1>9. Selects(places, s, I)
  BY <1>5, <1>6, <1>7 DEF Selects
<1> QED
  BY <1>6, <1>9

-----------------------------------------------------------------------------
(* The lines of ParseTTML *)

Vocals == {Vocal(b) : b \in Builders}

LinesFrom(begins) ==
  [key : Keys \cup {None}, agent : AgentIDs \cup {None}, begin : begins,
   main : Vocals, bg : Vocals]

LyricLines == LinesFrom(Nat)

InTime(lines) == \A i, j \in DOMAIN lines : i < j => lines[i].begin <= lines[j].begin

LEMMA VocalsParsed ==
  ASSUME NEW strings \in Seq(String), NEW layer, NEW wordTimed \in BOOLEAN
  PROVE  ParseVocal(strings, layer, wordTimed) \in Vocals
  BY BuiltRight DEF ParseVocal, Vocals

LEMMA LinesParsed ==
  ASSUME NEW p \in Paragraph, NEW wordTimed \in BOOLEAN
  PROVE  ParseLine(p, wordTimed) \in LinesFrom(Int)
<1>1. p.strings \in Seq(String) /\ p.begin \in Seq(Nat)
      /\ p.key \in Keys \cup {None} /\ p.agent \in AgentIDs \cup {None}
  BY DEF Paragraph
<1>2. ParseTime(p.begin) \in Int
  BY <1>1, TimesAreNumbers
<1>3. ParseVocal(p.strings, "main", wordTimed) \in Vocals /\ ParseVocal(p.strings, "bg", wordTimed) \in Vocals
  BY <1>1, VocalsParsed
<1> QED
  BY <1>1, <1>2, <1>3 DEF ParseLine, LinesFrom

LEMMA KeptInTime ==
  ASSUME NEW T, NEW s \in Seq(T), NEW I \in SUBSET (DOMAIN s), InTime(s)
  PROVE  InTime(Kept(s, I))
<1>3. Kept(s, I) \in Seq(T) /\ \E places : Selects(places, s, I)
  BY KeptRight
<1>1. /\ Kept(s, I) \in Seq(T)
      /\ \E places \in [1 .. Len(Kept(s, I)) -> I] :
           /\ \A k \in 1 .. Len(Kept(s, I)) : Kept(s, I)[k] = s[places[k]]
           /\ \A k, m \in 1 .. Len(Kept(s, I)) : k < m => places[k] < places[m]
  BY <1>3, Zenon DEF Selects
<1>2. DOMAIN Kept(s, I) = 1 .. Len(Kept(s, I))
  BY <1>1
<1> QED
  BY <1>1, <1>2 DEF InTime

LEMMA TextsRight ==
  ASSUME NEW T, NEW lines \in Seq(T)
  PROVE  WithText(lines) \in Seq(T) /\ (InTime(lines) => InTime(WithText(lines)))
  BY KeptRight, KeptInTime DEF WithText

\* sort.SliceStable by Begin.
LEMMA SortedRight ==
  ASSUME NEW lines \in Seq(LyricLines)
  PROVE  SortLines(lines) \in Seq(LyricLines) /\ InTime(SortLines(lines))
<1> DEFINE n == Len(lines)
           I == DOMAIN lines
           before == Before(lines)
           begins == [i \in I |-> lines[i].begin]
<1>1. n \in Nat /\ I = 1 .. n /\ IsFiniteSet(I)
  BY FS_Interval
<1>9. I \subseteq Int /\ begins \in [I -> Int]
  <2>1. \A i \in I : lines[i] \in LyricLines
    OBVIOUS
  <2>2. \A line \in LyricLines : line.begin \in Int
    BY DEF LyricLines, LinesFrom
  <2> QED
    BY <1>1, <2>1, <2>2
<1>2. \A i, j \in I : <<i, j>> \in before
        <=> begins[i] < begins[j] \/ (begins[i] = begins[j] /\ i < j)
  BY DEF Before
<1>10. \A i \in I : lines[i] \in LyricLines /\ lines[i].begin = begins[i]
  OBVIOUS
<1> HIDE DEF n, I, before, begins
<1>3. Orders(before, I)
  <2>1. \A i \in I : <<i, i>> \notin before
    BY <1>9, <1>2
  <2>2. ASSUME NEW i \in I, NEW j \in I, NEW k \in I, <<i, j>> \in before, <<j, k>> \in before
        PROVE  <<i, k>> \in before
    <3>1. /\ i \in Int /\ j \in Int /\ k \in Int
          /\ begins[i] \in Int /\ begins[j] \in Int /\ begins[k] \in Int
      BY <1>9
    <3> QED
      BY <1>2, <2>2, <3>1
  <2>3. ASSUME NEW i \in I, NEW j \in I
        PROVE  i = j \/ <<i, j>> \in before \/ <<j, i>> \in before
    <3>1. i \in Int /\ j \in Int /\ begins[i] \in Int /\ begins[j] \in Int
      BY <1>9
    <3> QED
      BY <1>2, <3>1
  <2> QED
    BY <2>1, <2>2, <2>3 DEF Orders
<1>4. SortLines(lines) = Arranged(lines, I, before)
  BY DEF SortLines, I, before
<1>11. PICK places : Lists(places, lines, I, before)
  BY <1>1, <1>3, ArrangedRight
<1>5. /\ places \in [1 .. Cardinality(I) -> I] /\ Cardinality(I) \in Nat
      /\ SortLines(lines) = [k \in 1 .. Cardinality(I) |-> lines[places[k]]]
      /\ \A k, m \in 1 .. Cardinality(I) : k < m => <<places[k], places[m]>> \in before
  BY <1>4, <1>11 DEF Lists
<1> DEFINE c == Cardinality(I)
           sorted == [k \in 1 .. c |-> lines[places[k]]]
<1>6. sorted \in Seq(LyricLines)
  <2>1. c \in Nat /\ sorted \in [1 .. c -> LyricLines]
    BY <1>10, <1>5
  <2> HIDE DEF c, sorted
  <2> QED
    BY <2>1
<1>7. InTime(sorted)
  <2>1. ASSUME NEW k \in 1 .. c, NEW m \in 1 .. c, k < m
        PROVE  lines[places[k]].begin <= lines[places[m]].begin
    <3>1. places[k] \in I /\ places[m] \in I /\ <<places[k], places[m]>> \in before
      BY <1>5, <2>1
    <3>2. /\ begins[places[k]] \in Int /\ begins[places[m]] \in Int
          /\ lines[places[k]].begin = begins[places[k]]
          /\ lines[places[m]].begin = begins[places[m]]
      BY <1>9, <1>10, <3>1
    <3> QED
      BY <1>2, <3>1, <3>2
  <2> QED
    BY <2>1 DEF InTime
<1> QED
  BY <1>5, <1>6, <1>7

LEMMA Greatest ==
  ASSUME NEW n \in Nat, NEW T \in SUBSET (1 .. n), T # {}
  PROVE  Max(T) \in T
<1> DEFINE U == {u \in 0 .. n : n - u \in T}
<1>1. U \in SUBSET Nat
  OBVIOUS
<1>5. U # {}
  <2>1. \A t \in T : n - t \in 0 .. n /\ n - (n - t) = t
    OBVIOUS
  <2>2. PICK t \in T : n - t \in 0 .. n /\ n - (n - t) \in T
    BY <2>1
  <2>3. n - t \in U
    BY <2>2
  <2> QED
    BY <2>3
<1>2. PICK u \in U : \A v \in U : u <= v
  <2> HIDE DEF U
  <2> QED
    BY <1>1, <1>5, LeastNumber
<1>3. ASSUME NEW v \in T PROVE n - u >= v
  <2>1. n - v \in 0 .. n /\ n - (n - v) = v
    OBVIOUS
  <2>2. u <= n - v /\ u \in 0 .. n
    BY <1>2, <2>1
  <2> QED
    BY <2>1, <2>2
<1>4. \E t \in T : \A v \in T : t >= v
  BY <1>2, <1>3
<1> QED
  BY <1>4 DEF Max

LEMMA Least ==
  ASSUME NEW T \in SUBSET Nat, T # {}
  PROVE  Min(T) \in T
<1>1. \E t \in T : \A v \in T : t <= v
  BY LeastNumber
<1> QED
  BY <1>1 DEF Min

LEMMA TrackLines ==
  ASSUME NEW texts \in Seq([key : Keys, strings : Seq(String)]),
         NEW lines \in Seq(LyricLines), NEW wordTimed \in BOOLEAN
  PROVE  /\ ParseTrack(texts, lines, wordTimed) \in Seq(LyricLines)
         /\ InTime(lines) => InTime(ParseTrack(texts, lines, wordTimed))
<1> DEFINE Mine(key) == {i \in DOMAIN texts : texts[i].key = key}
           Known(line) == line.key # None /\ Mine(line.key) # {}
           StringsOf(line) == texts[Max(Mine(line.key))].strings
           Translated(line) ==
             [line EXCEPT !.main = ParseVocal(StringsOf(line), "main", wordTimed),
                          !.bg = ParseVocal(StringsOf(line), "bg", wordTimed)]
           I == {i \in DOMAIN lines : Known(lines[i])}
           known == Kept(lines, I)
           new == [i \in DOMAIN known |-> Translated(known[i])]
<1>1. I \in SUBSET (DOMAIN lines)
  OBVIOUS
<1>2. /\ known \in Seq(LyricLines)
      /\ \E places \in [1 .. Len(known) -> I] : \A k \in 1 .. Len(known) : known[k] = lines[places[k]]
  <2> HIDE DEF I
  <2>1. known \in Seq(LyricLines) /\ \E places : Selects(places, lines, I)
    BY <1>1, KeptRight
  <2> QED
    BY <2>1, Zenon DEF Selects
<1>3. InTime(lines) => InTime(known)
  <2> HIDE DEF I
  <2> QED
    BY <1>1, KeptInTime
<1>4. \A k \in 1 .. Len(known) : known[k] \in LyricLines /\ Known(known[k])
  <2>1. \A i \in I : Known(lines[i])
    OBVIOUS
  <2> HIDE DEF I, known, Known
  <2> QED
    BY <1>2, <2>1
<1>5. ASSUME NEW line \in LyricLines, Known(line)
      PROVE  Translated(line) \in LyricLines /\ Translated(line).begin = line.begin
  <2>1. Mine(line.key) \in SUBSET (1 .. Len(texts)) /\ Len(texts) \in Nat /\ Mine(line.key) # {}
    BY <1>5
  <2>2. Max(Mine(line.key)) \in 1 .. Len(texts)
    <3> HIDE DEF Mine
    <3> QED
      BY <2>1, Greatest
  <2>3. StringsOf(line) \in Seq(String)
    <3>1. texts[Max(Mine(line.key))] \in [key : Keys, strings : Seq(String)]
      <4> DEFINE S == [key : Keys, strings : Seq(String)]
      <4>1. texts \in Seq(S)
        OBVIOUS
      <4>2. \A i \in 1 .. Len(texts) : texts[i] \in S
        <5> HIDE DEF S
        <5> QED
          BY <4>1
      <4> HIDE DEF Mine
      <4> QED
        BY <2>2, <4>2
    <3> HIDE DEF Mine
    <3> QED
      BY <3>1
  <2>4. /\ ParseVocal(StringsOf(line), "main", wordTimed) \in Vocals
        /\ ParseVocal(StringsOf(line), "bg", wordTimed) \in Vocals
    <3> HIDE DEF StringsOf
    <3> QED
      BY <2>3, VocalsParsed
  <2> HIDE DEF StringsOf
  <2> QED
    BY <2>4 DEF LyricLines, LinesFrom
<1>6. new \in Seq(LyricLines) /\ (InTime(lines) => InTime(new))
  <2>1. DOMAIN known = 1 .. Len(known) /\ Len(known) \in Nat
    BY <1>2
  <2>2. \A k \in 1 .. Len(known) :
          Translated(known[k]) \in LyricLines /\ Translated(known[k]).begin = known[k].begin
    <3> HIDE DEF known, Translated, Known
    <3> QED
      BY <1>4, <1>5
  <2> HIDE DEF known, Translated, Known
  <2>3. new \in [1 .. Len(known) -> LyricLines] /\ \A k \in 1 .. Len(known) : new[k] = Translated(known[k])
    BY <2>1, <2>2
  <2>4. new \in Seq(LyricLines) /\ DOMAIN new = 1 .. Len(known)
    BY <2>1, <2>3
  <2>5. ASSUME InTime(lines) PROVE InTime(new)
    <3>1. InTime(known)
      BY <1>3, <2>5
    <3> HIDE DEF new
    <3> QED
      BY <2>1, <2>2, <2>3, <2>4, <3>1 DEF InTime
  <2> QED
    BY <2>4, <2>5
<1>7. ParseTrack(texts, lines, wordTimed) = WithText(new)
  BY DEF ParseTrack
<1> HIDE DEF new
<1> QED
  BY <1>6, <1>7, TextsRight

HeadAgent == [id : AgentIDs, type : STRING]

ParsedRight(lyrics) ==
  /\ lyrics.agents \in Seq(HeadAgent) /\ lyrics.synced \in BOOLEAN
  /\ \A lines \in {lyrics.lines, lyrics.translation, lyrics.pronunciation} :
       lines \in Seq(LyricLines) /\ (lyrics.synced => InTime(lines))

LEMMA DocumentsParsed ==
  ASSUME NEW doc \in Document
  PROVE  ParsedRight(ParseTTML(doc))
<1> DEFINE wordTimed == doc.timing = "word"
           all == [i \in DOMAIN doc.body |-> ParseLine(doc.body[i], wordTimed)]
           begun == \E i \in DOMAIN all : all[i].begin # NoTime
           synced == begun /\ doc.timing # "none"
           timed == [i \in DOMAIN all |-> [all[i] EXCEPT !.begin = AtLeast(@, 0)]]
           texts == WithText(timed)
           lines == IF synced THEN SortLines(texts) ELSE texts
           both == wordTimed /\ synced
<1>1. /\ ParseTTML(doc).lines = lines /\ ParseTTML(doc).agents = doc.agents
      /\ ParseTTML(doc).synced = synced
      /\ ParseTTML(doc).translation = ParseTrack(doc.texts, lines, FALSE)
      /\ ParseTTML(doc).pronunciation = ParseTrack(doc.texts, lines, both)
  BY DEF ParseTTML
<1>2. /\ wordTimed \in BOOLEAN /\ synced \in BOOLEAN /\ both \in BOOLEAN
      /\ doc.body \in Seq(Paragraph) /\ doc.agents \in Seq(HeadAgent)
      /\ doc.texts \in Seq([key : Keys, strings : Seq(String)])
  BY DEF Document, HeadAgent
<1>3. timed \in Seq(LyricLines)
  <2> DEFINE n == Len(doc.body)
  <2>1. n \in Nat /\ DOMAIN doc.body = 1 .. n
    BY <1>2
  <2>2. \A i \in 1 .. n : doc.body[i] \in Paragraph /\ ParseLine(doc.body[i], wordTimed) \in LinesFrom(Int)
    <3> HIDE DEF wordTimed
    <3> QED
      BY <1>2, LinesParsed
  <2>3. ASSUME NEW line \in LinesFrom(Int)
        PROVE  [line EXCEPT !.begin = AtLeast(@, 0)] \in LyricLines
    BY DEF LyricLines, LinesFrom, AtLeast
  <2>4. timed \in [1 .. n -> LyricLines]
    <3> HIDE DEF n, wordTimed
    <3> QED
      BY <2>1, <2>2, <2>3
  <2> HIDE DEF n, timed
  <2> QED
    BY <2>1, <2>4
<1>4. texts \in Seq(LyricLines)
  <2> HIDE DEF timed
  <2> QED
    BY <1>3, TextsRight
<1>5. lines \in Seq(LyricLines) /\ (synced => InTime(lines))
  <2> HIDE DEF texts, synced
  <2> QED
    BY <1>4, SortedRight
<1>6. /\ ParseTrack(doc.texts, lines, FALSE) \in Seq(LyricLines)
      /\ ParseTrack(doc.texts, lines, both) \in Seq(LyricLines)
      /\ synced => InTime(ParseTrack(doc.texts, lines, FALSE))
      /\ synced => InTime(ParseTrack(doc.texts, lines, both))
  <2> HIDE DEF lines, synced, both
  <2> QED
    BY <1>2, <1>5, TrackLines
<1> HIDE DEF lines, synced, both
<1> QED
  BY <1>1, <1>2, <1>5, <1>6 DEF ParsedRight

-----------------------------------------------------------------------------
(* Sequences put together *)

LEMMA ElementsOfConcat ==
  ASSUME NEW T, NEW p \in Seq(T), NEW q \in Seq(T)
  PROVE  p \o q \in Seq(T) /\ ToSet(p \o q) = ToSet(p) \cup ToSet(q)
<1>1. /\ p \o q \in Seq(T) /\ Len(p) \in Nat /\ Len(q) \in Nat
      /\ Len(p \o q) = Len(p) + Len(q)
      /\ \A i \in 1 .. Len(p) + Len(q) :
           (p \o q)[i] = IF i <= Len(p) THEN p[i] ELSE q[i - Len(p)]
  BY ConcatProperties
<1>2. /\ DOMAIN p = 1 .. Len(p) /\ DOMAIN q = 1 .. Len(q)
      /\ DOMAIN (p \o q) = 1 .. Len(p) + Len(q)
  BY <1>1
<1>3. ASSUME NEW x \in ToSet(p \o q) PROVE x \in ToSet(p) \cup ToSet(q)
  <2>1. PICK i \in 1 .. Len(p) + Len(q) : x = (p \o q)[i]
    BY <1>2, <1>3 DEF ToSet
  <2>2. CASE i <= Len(p)
    <3>1. i \in 1 .. Len(p) /\ x = p[i]
      BY <1>1, <2>1, <2>2
    <3> QED
      BY <1>2, <3>1 DEF ToSet
  <2>3. CASE ~(i <= Len(p))
    <3>1. i - Len(p) \in 1 .. Len(q) /\ x = q[i - Len(p)]
      BY <1>1, <2>1, <2>3
    <3> QED
      BY <1>2, <3>1 DEF ToSet
  <2> QED
    BY <2>2, <2>3
<1>4. ASSUME NEW x \in ToSet(p) PROVE x \in ToSet(p \o q)
  <2>1. PICK i \in 1 .. Len(p) : x = p[i]
    BY <1>2 DEF ToSet
  <2>2. i \in 1 .. Len(p) + Len(q) /\ x = (p \o q)[i]
    BY <1>1, <2>1
  <2> QED
    BY <1>2, <2>2 DEF ToSet
<1>5. ASSUME NEW x \in ToSet(q) PROVE x \in ToSet(p \o q)
  <2>1. PICK i \in 1 .. Len(q) : x = q[i]
    BY <1>2 DEF ToSet
  <2>2. i + Len(p) \in 1 .. Len(p) + Len(q) /\ x = (p \o q)[i + Len(p)]
    BY <1>1, <2>1
  <2> QED
    BY <1>2, <2>2 DEF ToSet
<1> QED
  BY <1>1, <1>3, <1>4, <1>5

\* FlattenSeq has the elements of its sequences and no others.
LEMMA ElementsOfFlatten ==
  ASSUME NEW T, NEW seqs \in Seq(Seq(T))
  PROVE  FlattenSeq(seqs) \in Seq(T)
         /\ ToSet(FlattenSeq(seqs)) = UNION {ToSet(seqs[i]) : i \in DOMAIN seqs}
<1> DEFINE n == Len(seqs)
           Eq(g) == g = [i \in 1 .. Len(seqs) |-> IF i = 1 THEN seqs[i] ELSE g[i - 1] \o seqs[i]]
           h == CHOOSE g : Eq(g)
           steps == [i \in 1 .. n |-> [t \in Seq(T) |-> t \o seqs[i]]]
<1>1. n \in Nat /\ DOMAIN seqs = 1 .. n /\ (\A i \in 1 .. n : seqs[i] \in Seq(T))
      /\ <<>> \in Seq(T)
  <2> DEFINE S == Seq(T)
  <2>1. seqs \in Seq(S)
    OBVIOUS
  <2>2. n \in Nat /\ DOMAIN seqs = 1 .. n /\ \A i \in 1 .. n : seqs[i] \in S
    <3> HIDE DEF S
    <3> QED
      BY <2>1
  <2> QED
    BY <2>2
<1>2. CASE n = 0
  <2>1. FlattenSeq(seqs) = <<>> /\ DOMAIN seqs = {}
    BY <1>1, <1>2 DEF FlattenSeq
  <2> QED
    BY <2>1 DEF ToSet
<1>3. CASE n # 0
  <2>1. FlattenSeq(seqs) = h[n]
    BY <1>3, Zenon DEF FlattenSeq
  <2>2. steps \in [1 .. n -> [Seq(T) -> Seq(T)]]
    <3>1. \A i \in 1 .. n, t \in Seq(T) : t \o seqs[i] \in Seq(T)
      BY <1>1, ElementsOfConcat
    <3> HIDE DEF n
    <3> QED
      BY <3>1
  <2>3. PICK f : Runs(f, n, Seq(T), <<>>, steps)
    <3> HIDE DEF steps, n
    <3> QED
      BY <1>1, <2>2, Recursion, Zenon
  <2>4. n \in 1 .. n /\ f[0] = <<>> /\ \A i \in 1 .. n : f[i - 1] \in Seq(T) /\ f[i] = steps[i][f[i - 1]]
    <3> HIDE DEF steps, n
    <3> QED
      BY <1>1, <1>3, <2>3 DEF Runs
  <2>5. ASSUME NEW i \in 1 .. n PROVE f[i] = f[i - 1] \o seqs[i]
    <3> HIDE DEF n
    <3> QED
      BY <2>4
  <2>6. ASSUME NEW i \in 1 .. n PROVE f[i] = IF i = 1 THEN seqs[i] ELSE f[i - 1] \o seqs[i]
    <3>1. CASE i = 1
      <4>2. i - 1 = 0 /\ f[0] = <<>>
        BY <2>4, <3>1
      <4>1. f[i] = <<>> \o seqs[i] /\ seqs[i] \in Seq(T)
        <5> HIDE DEF steps, n
        <5> QED
          BY <1>1, <2>5, <4>2
      <4> QED
        BY <3>1, <4>1, ConcatEmptySeq
    <3>2. CASE i # 1
      BY <2>5, <3>2
    <3> QED
      BY <3>1, <3>2
  <2> DEFINE g == [i \in 1 .. n |-> f[i]]
  <2>7. Eq(g)
    <3>1. ASSUME NEW i \in 1 .. n
          PROVE  f[i] = IF i = 1 THEN seqs[i] ELSE g[i - 1] \o seqs[i]
      <4>1. i # 1 => i - 1 \in 1 .. n /\ g[i - 1] = f[i - 1]
        BY <1>1
      <4> QED
        BY <2>6, <4>1
    <3> QED
      BY <3>1
  <2>8. Eq(h)
    <3>1. \E g1 : Eq(g1)
      BY <2>7
    <3> HIDE DEF Eq
    <3> QED
      BY <3>1
  <2>9. \A i \in 1 .. n : h[i] = IF i = 1 THEN seqs[i] ELSE h[i - 1] \o seqs[i]
    <3> HIDE DEF h
    <3> QED
      BY <2>8
  <2> HIDE DEF h, n
  <2> DEFINE Right(i) ==
        i # 0 => h[i] \in Seq(T) /\ ToSet(h[i]) = UNION {ToSet(seqs[k]) : k \in 1 .. i}
             U == {i \in 0 .. n : Right(i)}
  <2>10. 0 \in U
    BY <1>1
  <2>11. ASSUME NEW i \in 1 .. n, i - 1 \in U PROVE i \in U
    <3>1. seqs[i] \in Seq(T) /\ h[i] = IF i = 1 THEN seqs[i] ELSE h[i - 1] \o seqs[i]
      BY <1>1, <2>9
    <3>2. CASE i = 1
      <4>1. 1 .. i = {1}
        BY <3>2
      <4>2. h[i] = seqs[i] /\ UNION {ToSet(seqs[k]) : k \in 1 .. i} = ToSet(seqs[i])
        BY <3>1, <3>2, <4>1
      <4>3. Right(i)
        <5>1. h[i] \in Seq(T) /\ ToSet(h[i]) = UNION {ToSet(seqs[k]) : k \in 1 .. i}
          BY <3>1, <4>2
        <5> QED
          BY <5>1
      <4>4. i \in 0 .. n
        BY <1>1
      <4> HIDE DEF Right
      <4> QED
        BY <4>3, <4>4
    <3>3. CASE i # 1
      <4>1. h[i - 1] \in Seq(T) /\ ToSet(h[i - 1]) = UNION {ToSet(seqs[k]) : k \in 1 .. i - 1}
        BY <1>1, <2>11, <3>3
      <4>2. h[i] \in Seq(T) /\ ToSet(h[i]) = ToSet(h[i - 1]) \cup ToSet(seqs[i])
        BY <3>1, <3>3, <4>1, ElementsOfConcat
      <4>3. 1 .. i = (1 .. i - 1) \cup {i}
        BY <1>1
      <4>4. ToSet(h[i]) = UNION {ToSet(seqs[k]) : k \in 1 .. i}
        BY <4>1, <4>2, <4>3
      <4> QED
        BY <1>1, <4>2, <4>4
    <3> QED
      BY <3>2, <3>3
  <2>12. 0 .. n \subseteq U
    <3> HIDE DEF U
    <3> QED
      BY <1>1, <2>10, <2>11, Induction
  <2>13. Right(n)
    <3>1. n \in 0 .. n
      BY <1>1
    <3> HIDE DEF Right
    <3> QED
      BY <2>12, <3>1
  <2> QED
    BY <1>1, <1>3, <2>1, <2>13
<1> QED
  BY <1>2, <1>3

-----------------------------------------------------------------------------
(* The agents of a track *)

LEMMA LeadIsSinger ==
  ASSUME NEW agents \in Seq(HeadAgent)
  PROVE  Lead(agents) \in AgentIDs \cup {"main"}
<1> DEFINE persons == {i \in DOMAIN agents : agents[i].type = "person"}
<1>1. \A i \in DOMAIN agents : i \in Nat /\ agents[i].id \in AgentIDs
  <2>1. \A i \in DOMAIN agents : i \in Nat /\ agents[i] \in HeadAgent
    OBVIOUS
  <2> QED
    BY <2>1 DEF HeadAgent
<1>2. CASE persons # {}
  <2>1. persons \in SUBSET Nat
    BY <1>1
  <2>2. Min(persons) \in persons
    <3> HIDE DEF persons
    <3> QED
      BY <1>2, <2>1, Least
  <2>3. Lead(agents) = agents[Min(persons)].id
    BY <1>2 DEF Lead
  <2>4. Min(persons) \in DOMAIN agents
    BY <2>2
  <2> HIDE DEF persons
  <2> QED
    BY <1>1, <2>3, <2>4
<1>3. CASE persons = {} /\ agents # <<>>
  <2>1. Lead(agents) = agents[1].id /\ 1 \in DOMAIN agents
    BY <1>3 DEF Lead
  <2> QED
    BY <1>1, <2>1
<1>4. CASE persons = {} /\ agents = <<>>
  BY <1>4 DEF Lead
<1> QED
  BY <1>2, <1>3, <1>4

\* Who sings the lines: the same agents whether the unnamed lines are the lead's
\* or the main agent's, who is one of them.
LEMMA MainSings ==
  ASSUME NEW lines \in Seq(LyricLines), NEW agents \in Seq(HeadAgent)
  PROVE  LET used == Used(lines, agents)
             main == MainAgent(lines, agents)
         IN  /\ used \in SUBSET (AgentIDs \cup {"main"}) /\ IsFiniteSet(used)
             /\ main \in AgentIDs \cup {"main"}
             /\ used # {} => main \in used
             /\ {AgentOf(lines[i], main) : i \in Singing(lines)} = used
<1> DEFINE used == Used(lines, agents)
           main == MainAgent(lines, agents)
           lead == Lead(agents)
           singing == Singing(lines)
<1>1. lead \in AgentIDs \cup {"main"}
  BY LeadIsSinger
<1>2. singing \in SUBSET (DOMAIN lines) /\ singing \in SUBSET Nat
  BY DEF Singing
<1>3. \A i \in singing : lines[i].agent \in AgentIDs \cup {None}
  <2>1. \A i \in DOMAIN lines : lines[i] \in LyricLines
    OBVIOUS
  <2>2. \A line \in LyricLines : line.agent \in AgentIDs \cup {None}
    BY DEF LyricLines, LinesFrom
  <2> QED
    BY <1>2, <2>1, <2>2
<1>4. used = {AgentOf(lines[i], lead) : i \in singing}
  BY DEF Used
<1>5. used \in SUBSET (AgentIDs \cup {"main"})
  BY <1>1, <1>3, <1>4 DEF AgentOf
<1>6. IsFiniteSet(used)
  <2> DEFINE f == [i \in singing |-> AgentOf(lines[i], lead)]
  <2>1. IsFiniteSet(singing)
    <3>1. DOMAIN lines = 1 .. Len(lines) /\ IsFiniteSet(1 .. Len(lines))
      BY FS_Interval
    <3> QED
      BY <1>2, <3>1, FS_Subset
  <2>2. f \in Surjection(singing, used)
    BY <1>4 DEF Surjection
  <2> HIDE DEF f
  <2> QED
    BY <2>1, <2>2, FS_Surjection
<1>7. CASE singing = {} \/ lead \in used
  <2>1. main = lead
    BY <1>7 DEF MainAgent
  <2>2. used # {} => main \in used
    BY <1>4, <1>7, <2>1
  <2> HIDE DEF used, main, lead, singing
  <2>3. {AgentOf(lines[i], main) : i \in singing} = used
    BY <1>4, <2>1
  <2> QED
    BY <1>1, <1>5, <1>6, <2>1, <2>2, <2>3 DEF used, main, singing
<1>8. CASE singing # {} /\ lead \notin used
  <2>1. main = AgentOf(lines[Min(singing)], lead)
    BY <1>8 DEF MainAgent
  <2>2. Min(singing) \in singing
    <3> HIDE DEF singing
    <3> QED
      BY <1>2, <1>8, Least
  <2>3. main \in used
    <3> HIDE DEF used, main, lead, singing
    <3> QED
      BY <1>4, <2>1, <2>2
  <2>4. ASSUME NEW i \in singing PROVE AgentOf(lines[i], main) = AgentOf(lines[i], lead)
    <3>1. AgentOf(lines[i], lead) # lead
      <4> HIDE DEF used, lead, singing
      <4> QED
        BY <1>4, <1>8
    <3> QED
      BY <3>1 DEF AgentOf
  <2> HIDE DEF used, main, lead, singing
  <2>5. {AgentOf(lines[i], main) : i \in singing} = used
    BY <1>4, <2>4
  <2> QED
    BY <1>5, <1>6, <2>3, <2>5 DEF used, main, singing
<1> QED
  BY <1>7, <1>8

CueAgents == AgentIDs \cup {"main", BgAgent}

\* The agents that a track's cue lines name.
LEMMA CuesName ==
  ASSUME NEW lines \in Seq(LyricLines), NEW main \in AgentIDs \cup {"main"}
  PROVE  LET sung == {AgentOf(lines[i], main) : i \in Singing(lines)}
             hasBg == \E i \in DOMAIN lines : lines[i].bg.syllables # <<>>
         IN  {cl.agent : cl \in ToSet(CueLines(lines, main, TRUE))}
               = sung \cup (IF hasBg THEN {BgAgent} ELSE {})
<1> DEFINE n == Len(lines)
           Mine(i) == CueLine(i, lines[i].main, AgentOf(lines[i], main))
           Bg(i) == CueLine(i, lines[i].bg, BgAgent)
           T == {Mine(i) : i \in DOMAIN lines} \cup {Bg(i) : i \in DOMAIN lines}
           First(i) == IF Sung(lines[i]) THEN <<Mine(i)>> ELSE <<>>
           Second(i) == IF lines[i].bg.syllables # <<>> THEN <<Bg(i)>> ELSE <<>>
           all == [i \in DOMAIN lines |-> First(i) \o Second(i)]
<1>1. n \in Nat /\ DOMAIN lines = 1 .. n
  OBVIOUS
<1>2. CueLines(lines, main, TRUE) = FlattenSeq(all)
  BY DEF CueLines
<1>3. ASSUME NEW i \in DOMAIN lines
      PROVE  /\ First(i) \in Seq(T) /\ ToSet(First(i)) = IF Sung(lines[i]) THEN {Mine(i)} ELSE {}
             /\ Second(i) \in Seq(T)
             /\ ToSet(Second(i)) = IF lines[i].bg.syllables # <<>> THEN {Bg(i)} ELSE {}
  <2>1. Mine(i) \in T /\ Bg(i) \in T
    OBVIOUS
  <2> HIDE DEF Mine, Bg, T
  <2>2. \A x \in T : <<x>> \in Seq(T) /\ ToSet(<<x>>) = {x}
    BY DEF ToSet
  <2>3. <<>> \in Seq(T) /\ ToSet(<<>>) = {}
    BY DEF ToSet
  <2> QED
    BY <2>1, <2>2, <2>3
<1> HIDE DEF T, First, Second
<1>4. ASSUME NEW i \in DOMAIN lines
      PROVE  First(i) \o Second(i) \in Seq(T)
             /\ ToSet(First(i) \o Second(i)) = ToSet(First(i)) \cup ToSet(Second(i))
  BY <1>3, ElementsOfConcat
<1>5. all \in Seq(Seq(T)) /\ DOMAIN all = DOMAIN lines
  <2> DEFINE S == Seq(T)
  <2>1. \A i \in DOMAIN lines : First(i) \o Second(i) \in S
    BY <1>4
  <2> HIDE DEF S, n
  <2>2. all \in [1 .. n -> S]
    BY <1>1, <2>1
  <2> QED
    BY <1>1, <2>2 DEF S
<1>6. ToSet(FlattenSeq(all)) = UNION {ToSet(all[i]) : i \in DOMAIN all}
  <2> HIDE DEF all
  <2> QED
    BY <1>5, ElementsOfFlatten
<1> DEFINE Named(i) == (IF Sung(lines[i]) THEN {Mine(i)} ELSE {})
                         \cup (IF lines[i].bg.syllables # <<>> THEN {Bg(i)} ELSE {})
<1>7. ToSet(FlattenSeq(all)) = UNION {Named(i) : i \in DOMAIN lines}
  <2>1. \A i \in DOMAIN lines : ToSet(all[i]) = Named(i)
    <3> HIDE DEF Mine, Bg
    <3> QED
      BY <1>3, <1>4
  <2> HIDE DEF Named, all
  <2> QED
    BY <1>5, <1>6, <2>1
<1>8. \A i \in DOMAIN lines : Mine(i).agent = AgentOf(lines[i], main) /\ Bg(i).agent = BgAgent
  BY DEF CueLine
<1>9. \A i : i \in Singing(lines) <=> i \in DOMAIN lines /\ Sung(lines[i])
  BY DEF Singing
<1> DEFINE cues == UNION {Named(i) : i \in DOMAIN lines}
           sung == {AgentOf(lines[i], main) : i \in Singing(lines)}
           hasBg == \E i \in DOMAIN lines : lines[i].bg.syllables # <<>>
<1>10. {cl.agent : cl \in cues} = sung \cup (IF hasBg THEN {BgAgent} ELSE {})
  <2> HIDE DEF Mine, Bg
  <2>1. ASSUME NEW cl \in cues PROVE cl.agent \in sung \cup (IF hasBg THEN {BgAgent} ELSE {})
    <3>1. PICK i \in DOMAIN lines :
            \/ Sung(lines[i]) /\ cl = Mine(i)
            \/ lines[i].bg.syllables # <<>> /\ cl = Bg(i)
      OBVIOUS
    <3>2. CASE Sung(lines[i]) /\ cl = Mine(i)
      BY <1>8, <1>9, <3>2
    <3>3. CASE lines[i].bg.syllables # <<>> /\ cl = Bg(i)
      BY <1>8, <3>3
    <3> QED
      BY <3>1, <3>2, <3>3
  <2>2. ASSUME NEW i \in Singing(lines) PROVE AgentOf(lines[i], main) \in {cl.agent : cl \in cues}
    <3>1. i \in DOMAIN lines /\ Mine(i) \in cues
      BY <1>9
    <3> QED
      BY <1>8, <3>1
  <2>3. ASSUME hasBg PROVE BgAgent \in {cl.agent : cl \in cues}
    <3>1. PICK i \in DOMAIN lines : lines[i].bg.syllables # <<>>
      BY <2>3
    <3>2. Bg(i) \in cues
      BY <3>1
    <3> QED
      BY <1>8, <3>2
  <2> HIDE DEF cues, hasBg
  <2> QED
    BY <2>1, <2>2, <2>3
<1> QED
  BY <1>2, <1>7, <1>10

Entries == [id : CueAgents, role : {"main", "group", "voice", "bg"}]

IDsOf(entries) == {a.id : a \in ToSet(entries)}

Distinct(entries) == \A i, j \in DOMAIN entries : entries[i].id = entries[j].id => i = j

\* A list of agents, each once, of whom main is the main one.
Listed(entries, ids, main) ==
  /\ entries \in Seq(Entries)
  /\ IDsOf(entries) = ids
  /\ Distinct(entries)
  /\ \A a \in ToSet(entries) : a.role = "main" <=> a.id = main

LEMMA ListsJoin ==
  ASSUME NEW main, NEW p, NEW q, NEW P, NEW Q, Listed(p, P, main), Listed(q, Q, main),
         P \cap Q = {}
  PROVE  Listed(p \o q, P \cup Q, main)
<1>1. /\ p \in Seq(Entries) /\ q \in Seq(Entries)
      /\ {a.id : a \in ToSet(p)} = P /\ {a.id : a \in ToSet(q)} = Q
      /\ \A i, j \in DOMAIN p : p[i].id = p[j].id => i = j
      /\ \A i, j \in DOMAIN q : q[i].id = q[j].id => i = j
      /\ \A a \in ToSet(p) \cup ToSet(q) : a.role = "main" <=> a.id = main
  BY DEF Listed, IDsOf, Distinct
<1>2. p \o q \in Seq(Entries) /\ ToSet(p \o q) = ToSet(p) \cup ToSet(q)
  BY <1>1, ElementsOfConcat
<1>3. {a.id : a \in ToSet(p \o q)} = P \cup Q
  BY <1>1, <1>2
<1>4. /\ Len(p) \in Nat /\ Len(q) \in Nat /\ DOMAIN p = 1 .. Len(p) /\ DOMAIN q = 1 .. Len(q)
      /\ DOMAIN (p \o q) = 1 .. Len(p) + Len(q)
      /\ \A i \in 1 .. Len(p) + Len(q) :
           (p \o q)[i] = IF i <= Len(p) THEN p[i] ELSE q[i - Len(p)]
  BY <1>1, ConcatProperties
<1>5. (\A i \in DOMAIN p : p[i].id \in P) /\ \A i \in DOMAIN q : q[i].id \in Q
  BY <1>1 DEF ToSet
<1>6. ASSUME NEW i \in 1 .. Len(p) + Len(q), NEW j \in 1 .. Len(p) + Len(q),
             (p \o q)[i].id = (p \o q)[j].id
      PROVE  i = j
  <2>1. CASE i <= Len(p) /\ j <= Len(p)
    <3>1. i \in DOMAIN p /\ j \in DOMAIN p /\ p[i].id = p[j].id
      BY <1>4, <1>6, <2>1
    <3> QED
      BY <1>1, <3>1
  <2>2. CASE i <= Len(p) /\ ~(j <= Len(p))
    <3>1. i \in DOMAIN p /\ j - Len(p) \in DOMAIN q /\ p[i].id = q[j - Len(p)].id
      BY <1>4, <1>6, <2>2
    <3> QED
      BY <1>5, <3>1
  <2>3. CASE ~(i <= Len(p)) /\ j <= Len(p)
    <3>1. j \in DOMAIN p /\ i - Len(p) \in DOMAIN q /\ p[j].id = q[i - Len(p)].id
      BY <1>4, <1>6, <2>3
    <3> QED
      BY <1>5, <3>1
  <2>4. CASE ~(i <= Len(p)) /\ ~(j <= Len(p))
    <3>1. /\ i - Len(p) \in DOMAIN q /\ j - Len(p) \in DOMAIN q
          /\ q[i - Len(p)].id = q[j - Len(p)].id
      BY <1>4, <1>6, <2>4
    <3>2. i - Len(p) = j - Len(p)
      BY <1>1, <3>1
    <3> QED
      BY <1>4, <3>2
  <2> QED
    BY <2>1, <2>2, <2>3, <2>4
<1> QED
  BY <1>1, <1>2, <1>3, <1>4, <1>6 DEF Listed, IDsOf, Distinct

LEMMA ListGiven ==
  ASSUME NEW main, NEW n \in Nat, NEW list \in [1 .. n -> Entries], NEW P,
         P = {list[k].id : k \in 1 .. n},
         \A i, j \in 1 .. n : list[i].id = list[j].id => i = j,
         \A k \in 1 .. n : list[k].role = "main" <=> list[k].id = main
  PROVE  Listed(list, P, main)
<1>1. list \in Seq(Entries) /\ DOMAIN list = 1 .. n
  OBVIOUS
<1>2. ToSet(list) = {list[k] : k \in 1 .. n}
  BY <1>1 DEF ToSet
<1>3. IDsOf(list) = P
  BY <1>2 DEF IDsOf
<1>4. Distinct(list)
  BY <1>1 DEF Distinct
<1>5. \A a \in ToSet(list) : a.role = "main" <=> a.id = main
  BY <1>2
<1> QED
  BY <1>1, <1>3, <1>4, <1>5 DEF Listed

LEMMA SetInSeq ==
  ASSUME NEW S, IsFiniteSet(S)
  PROVE  /\ Cardinality(S) \in Nat
         /\ SetToSeq(S) \in [1 .. Cardinality(S) -> S]
         /\ \A i, j \in 1 .. Cardinality(S) : SetToSeq(S)[i] = SetToSeq(S)[j] => i = j
         /\ S = {SetToSeq(S)[k] : k \in 1 .. Cardinality(S)}
<1> DEFINE n == Cardinality(S)
           f == SetToSeq(S)
<1>1. n \in Nat /\ \E g \in [1 .. n -> S] : IsInjective(g)
  <2>1. n \in Nat /\ ExistsBijection(1 .. n, S)
    BY FS_CardinalityType
  <2> QED
    BY <2>1 DEF ExistsBijection, Bijection, Injection
<1>2. f \in [1 .. n -> S] /\ IsInjective(f)
  BY <1>1 DEF SetToSeq
<1>3. f \in Injection(1 .. n, S)
  BY <1>2 DEF Injection
<1>4. IsFiniteSet(1 .. n) /\ Cardinality(1 .. n) = n
  BY <1>1, FS_Interval
<1> HIDE DEF f, n
<1>5. f \in Surjection(1 .. n, S)
  BY <1>3, <1>4, FS_Injection DEF n
<1>6. S = {f[k] : k \in 1 .. n}
  BY <1>2, <1>5 DEF Surjection
<1>7. \A i, j \in 1 .. n : f[i] = f[j] => i = j
  BY <1>2 DEF IsInjective
<1> QED
  BY <1>1, <1>2, <1>6, <1>7 DEF f, n

\* agentRoles lists who sings, each once, and the background.
LEMMA AgentsListed ==
  ASSUME NEW agents \in Seq(HeadAgent), NEW used \in SUBSET (AgentIDs \cup {"main"}),
         IsFiniteSet(used), NEW main \in AgentIDs \cup {"main"}, NEW hasBg \in BOOLEAN
  PROVE  Listed(Agents(used, main, agents, hasBg), used \cup (IF hasBg THEN {BgAgent} ELSE {}), main)
<1> DEFINE first == {i \in DOMAIN agents : agents[i].id \in used
                       /\ \A j \in 1 .. i - 1 : agents[j].id # agents[i].id}
           headed == {agents[i].id : i \in first}
           inHead == Kept(agents, first)
           rest == used \ (headed \cup {main})
           Entry(id) == [id |-> id, role |-> Role(id, main, agents)]
           heading == IF main \in used \ headed THEN {main} ELSE {}
           last == IF hasBg THEN {BgAgent} ELSE {}
           p1 == IF main \in used \ headed THEN <<Entry(main)>> ELSE <<>>
           p2 == [k \in DOMAIN inHead |-> Entry(inHead[k].id)]
           p3 == [k \in 1 .. Cardinality(rest) |-> Entry(SetToSeq(rest)[k])]
           p4 == IF hasBg THEN <<[id |-> BgAgent, role |-> "bg"]>> ELSE <<>>
           entry == [id \in CueAgents |-> Entry(id)]
<1>1. Agents(used, main, agents, hasBg) = p1 \o p2 \o p3 \o p4
  BY DEF Agents
<1>2. entry \in [CueAgents -> Entries]
      /\ \A id \in CueAgents : entry[id].id = id /\ (entry[id].role = "main" <=> id = main)
  <2>1. \A id : Role(id, main, agents) \in {"main", "group", "voice"}
          /\ (Role(id, main, agents) = "main" <=> id = main)
    BY DEF Role
  <2> QED
    BY <2>1 DEF Entries
<1>3. main \in CueAgents /\ BgAgent \in CueAgents /\ BgAgent # main /\ used \subseteq CueAgents
      /\ BgAgent \notin used
  BY AgentsAssumption DEF CueAgents
<1>4. headed \subseteq used
  OBVIOUS
<1>5. Listed(<<>>, {}, main)
  BY DEF Listed, IDsOf, Distinct, ToSet
<1>6. Listed(p1, heading, main)
  <2>1. Listed(<<Entry(main)>>, {main}, main)
    <3>1. Entry(main) \in Entries /\ Entry(main).id = main /\ Entry(main).role = "main"
      BY <1>2, <1>3 DEF Role
    <3> HIDE DEF Entry
    <3> QED
      BY <3>1 DEF Listed, IDsOf, Distinct, ToSet
  <2> HIDE DEF Entry
  <2> QED
    BY <1>5, <2>1
<1>7. Listed(p4, last, main)
  <2>1. Listed(<<[id |-> BgAgent, role |-> "bg"]>>, {BgAgent}, main)
    <3> DEFINE e == [id |-> BgAgent, role |-> "bg"]
    <3>1. e \in Entries /\ e.id = BgAgent /\ e.role = "bg"
      BY <1>3 DEF Entries
    <3> HIDE DEF e
    <3>2. Listed(<<e>>, {BgAgent}, main)
      BY <1>3, <3>1 DEF Listed, IDsOf, Distinct, ToSet
    <3> QED
      BY <3>2 DEF e
  <2> QED
    BY <1>5, <2>1
<1>8. Listed(p2, headed, main)
  <2> DEFINE n == Len(inHead)
             ids == [k \in 1 .. n |-> inHead[k].id]
  <2>1. first \in SUBSET (DOMAIN agents)
    OBVIOUS
  <2>2. inHead \in Seq(HeadAgent) /\ \E places : Selects(places, agents, first)
    <3> HIDE DEF first
    <3> QED
      BY <2>1, KeptRight
  <2>3. n \in Nat /\ DOMAIN inHead = 1 .. n
    <3> HIDE DEF inHead
    <3> QED
      BY <2>2
  <2>4. PICK places \in [1 .. n -> first] :
             /\ \A k \in 1 .. n : inHead[k] = agents[places[k]]
             /\ \A k, m \in 1 .. n : k < m => places[k] < places[m]
             /\ \A i \in first : \E k \in 1 .. n : places[k] = i
    BY <2>2, Zenon DEF Selects
  <2>5. \A i \in first : i \in DOMAIN agents /\ i \in Nat /\ i >= 1 /\ agents[i].id \in used
          /\ \A j \in 1 .. i - 1 : agents[j].id # agents[i].id
    OBVIOUS
  <2> HIDE DEF inHead, n, first
  <2>6. headed = {ids[k] : k \in 1 .. n}
    BY <2>4
  <2>7. ids \in [1 .. n -> CueAgents]
    BY <1>3, <2>4, <2>5
  <2>8. ASSUME NEW k \in 1 .. n, NEW m \in 1 .. n, k < m
        PROVE  ids[k] # ids[m]
    <3>1. places[k] \in first /\ places[m] \in first /\ places[k] < places[m]
      BY <2>4, <2>8
    <3>2. places[k] \in 1 .. places[m] - 1
      BY <2>5, <3>1
    <3> QED
      BY <2>4, <2>5, <3>1, <3>2
  <2>9. \A i, j \in 1 .. n : ids[i] = ids[j] => i = j
    <3> HIDE DEF ids
    <3> QED
      BY <2>3, <2>8
  <2>10. p2 \in [1 .. n -> Entries]
         /\ \A k \in 1 .. n : p2[k].id = ids[k] /\ (p2[k].role = "main" <=> p2[k].id = main)
    <3>1. \A k \in 1 .. n : p2[k] = entry[ids[k]]
      BY <2>3, <2>7
    <3>2. p2 = [k \in 1 .. n |-> p2[k]]
      BY <2>3
    <3>3. \A k \in 1 .. n : ids[k] \in CueAgents
      <4> HIDE DEF ids
      <4> QED
        BY <2>7
    <3> HIDE DEF p2, entry, ids
    <3>4. \A k \in 1 .. n : p2[k] \in Entries /\ p2[k].id = ids[k]
            /\ (p2[k].role = "main" <=> p2[k].id = main)
      BY <1>2, <3>1, <3>3
    <3> QED
      BY <3>2, <3>4
  <2> HIDE DEF p2, ids, entry, headed
  <2>11. headed = {p2[k].id : k \in 1 .. n}
         /\ \A i, j \in 1 .. n : p2[i].id = p2[j].id => i = j
    BY <2>6, <2>9, <2>10
  <2> QED
    BY <2>3, <2>10, <2>11, ListGiven
<1>9. Listed(p3, rest, main)
  <2> DEFINE n == Cardinality(rest)
             ids == SetToSeq(rest)
  <2>1. rest \in SUBSET used /\ IsFiniteSet(rest)
    BY FS_Subset
  <2>2. /\ n \in Nat /\ ids \in [1 .. n -> rest]
        /\ \A i, j \in 1 .. n : ids[i] = ids[j] => i = j
        /\ rest = {ids[k] : k \in 1 .. n}
    <3> HIDE DEF rest
    <3> QED
      BY <2>1, SetInSeq
  <2>3. ids \in [1 .. n -> CueAgents]
    <3> HIDE DEF ids, n, rest
    <3> QED
      BY <1>3, <2>1, <2>2
  <2>4. p3 \in [1 .. n -> Entries]
        /\ \A k \in 1 .. n : p3[k].id = ids[k] /\ (p3[k].role = "main" <=> p3[k].id = main)
    <3>1. \A k \in 1 .. n : p3[k] = entry[ids[k]]
      <4>1. \A k \in 1 .. n : ids[k] \in CueAgents /\ p3[k] = Entry(ids[k])
        <5>1. \A k \in 1 .. n : p3[k] = Entry(ids[k])
          OBVIOUS
        <5> HIDE DEF p3, Entry, ids, n, rest
        <5> QED
          BY <2>3, <5>1
      <4> HIDE DEF p3, Entry, ids, n, rest
      <4> QED
        BY <4>1
    <3>2. p3 = [k \in 1 .. n |-> p3[k]]
      OBVIOUS
    <3> HIDE DEF p3, entry, ids, n, rest
    <3> QED
      BY <1>2, <2>3, <3>1, <3>2
  <2> HIDE DEF p3, ids, entry, rest, n
  <2>5. rest = {p3[k].id : k \in 1 .. n}
        /\ \A i, j \in 1 .. n : p3[i].id = p3[j].id => i = j
    BY <2>2, <2>4
  <2> QED
    BY <2>2, <2>4, <2>5, ListGiven
<1>10. /\ heading \cap headed = {} /\ (heading \cup headed) \cap rest = {}
       /\ (heading \cup headed \cup rest) \cap last = {}
       /\ heading \cup headed \cup rest = used
  <2> HIDE DEF headed
  <2> QED
    BY <1>3, <1>4
<1> HIDE DEF p1, p2, p3, p4, heading, headed, rest, last
<1>11. Listed(p1 \o p2, heading \cup headed, main)
  BY <1>6, <1>8, <1>10, ListsJoin
<1>12. Listed(p1 \o p2 \o p3, heading \cup headed \cup rest, main)
  BY <1>9, <1>10, <1>11, ListsJoin
<1>13. Listed(p1 \o p2 \o p3 \o p4, heading \cup headed \cup rest \cup last, main)
  BY <1>7, <1>10, <1>12, ListsJoin
<1> QED
  BY <1>1, <1>10, <1>13 DEF last

\* lyricTrack: what a track says of its agents, and the order of its lines.
LEMMA TrackRight ==
  ASSUME NEW lines \in Seq(LyricLines), NEW agents \in Seq(HeadAgent),
         NEW synced \in BOOLEAN, NEW cues, synced => InTime(lines)
  PROVE  LET track == LyricTrack(lines, agents, synced, cues)
         IN  /\ AgentsMatch(track)
             /\ \A i \in 1 .. Len(track.lines) - 1 : track.lines[i].start <= track.lines[i + 1].start
<1> DEFINE track == LyricTrack(lines, agents, synced, cues)
           main == MainAgent(lines, agents)
           used == Used(lines, agents)
           hasBg == \E i \in DOMAIN lines : lines[i].bg.syllables # <<>>
           withAgents == Cardinality(used) > 1 \/ hasBg
           cueLines == IF synced /\ cues THEN CueLines(lines, main, withAgents) ELSE <<>>
           listed == IF cueLines # <<>> /\ withAgents THEN Agents(used, main, agents, hasBg)
                     ELSE <<>>
           told == [i \in DOMAIN lines |-> [value |-> LineText(lines[i]),
                                            start |-> IF synced THEN lines[i].begin ELSE NoTime]]
           n == Len(lines)
<1>1. track.lines = told /\ track.cueLines = cueLines /\ track.agents = listed
  BY DEF LyricTrack
<1>2. \A i \in 1 .. Len(told) - 1 : told[i].start <= told[i + 1].start
  <2>1. n \in Nat /\ DOMAIN lines = 1 .. n /\ told \in [1 .. n -> {told[i] : i \in 1 .. n}]
    OBVIOUS
  <2>2. Len(told) = n
    <3> HIDE DEF told, n
    <3> QED
      BY <2>1
  <2>3. ASSUME NEW i \in 1 .. n - 1 PROVE told[i].start <= told[i + 1].start
    <3>1. i \in DOMAIN lines /\ i + 1 \in DOMAIN lines /\ i < i + 1
      BY <2>1
    <3>2. CASE synced
      <4>1. lines[i].begin <= lines[i + 1].begin
        BY <3>1, <3>2 DEF InTime
      <4> QED
        BY <3>1, <3>2, <4>1
    <3>3. CASE ~synced
      BY <3>1, <3>3 DEF NoTime
    <3> QED
      BY <3>2, <3>3
  <2> QED
    BY <2>2, <2>3
<1>3. /\ used \in SUBSET (AgentIDs \cup {"main"}) /\ IsFiniteSet(used)
      /\ main \in AgentIDs \cup {"main"}
      /\ used # {} => main \in used
      /\ {AgentOf(lines[i], main) : i \in Singing(lines)} = used
  BY MainSings
<1> DEFINE named == {cl.agent : cl \in ToSet(cueLines)}
           ids == used \cup (IF hasBg THEN {BgAgent} ELSE {})
<1>4. ASSUME listed # <<>>
      PROVE  /\ IDsOf(listed) = named /\ Distinct(listed)
             /\ named # {BgAgent} => Cardinality({i \in DOMAIN listed : listed[i].role = "main"}) = 1
  <2>1. /\ cueLines = CueLines(lines, main, TRUE) /\ cueLines # <<>>
        /\ listed = Agents(used, main, agents, hasBg)
    <3>1. cueLines # <<>> /\ withAgents
      BY <1>4
    <3>2. cueLines = CueLines(lines, main, withAgents) /\ withAgents = TRUE
      <4> HIDE DEF withAgents
      <4> QED
        BY <3>1
    <3> QED
      BY <3>1, <3>2
  <2>2. named = ids
    <3> HIDE DEF cueLines, main, used
    <3> QED
      BY <1>3, <2>1, CuesName
  <2>3. Listed(listed, ids, main)
    <3>1. hasBg \in BOOLEAN
      OBVIOUS
    <3> HIDE DEF listed, cueLines, main, used, hasBg
    <3> QED
      BY <1>3, <2>1, <3>1, AgentsListed
  <2>4. listed \in Seq(Entries) /\ IDsOf(listed) = ids /\ Distinct(listed)
        /\ \A a \in ToSet(listed) : a.role = "main" <=> a.id = main
    BY <2>3 DEF Listed
  <2>5. listed # <<>> /\ Len(listed) \in Nat /\ DOMAIN listed = 1 .. Len(listed)
        /\ 1 \in DOMAIN listed
    <3> HIDE DEF listed
    <3> QED
      BY <1>4, <2>4
  <2>6. ids # {}
    <3> HIDE DEF listed, ids, main
    <3>1. listed[1] \in ToSet(listed)
      BY <2>5 DEF ToSet
    <3>2. listed[1].id \in IDsOf(listed)
      BY <3>1 DEF IDsOf
    <3> QED
      BY <2>4, <3>2
  <2>7. ASSUME named # {BgAgent}
        PROVE  Cardinality({i \in DOMAIN listed : listed[i].role = "main"}) = 1
    <3>1. used # {}
      BY <2>2, <2>6, <2>7
    <3>2. main \in ids
      BY <1>3, <3>1
    <3> HIDE DEF listed, ids, main, used, named
    <3>3. PICK k \in DOMAIN listed : listed[k].id = main
      BY <2>4, <3>2 DEF IDsOf, ToSet
    <3>4. \A i \in DOMAIN listed : listed[i].role = "main" <=> listed[i].id = main
      BY <2>4 DEF ToSet
    <3>5. {i \in DOMAIN listed : listed[i].role = "main"} = {k}
      BY <2>4, <3>3, <3>4 DEF Distinct
    <3> QED
      BY <3>5, FS_Singleton
  <2> QED
    BY <2>2, <2>4, <2>7
<1>5. AgentsMatch(track)
  <2> HIDE DEF track, listed, cueLines
  <2> QED
    BY <1>1, <1>4 DEF AgentsMatch, IDsOf, Distinct
<1> HIDE DEF track, told, listed, cueLines
<1>6. \A i \in 1 .. Len(track.lines) - 1 : track.lines[i].start <= track.lines[i + 1].start
  BY <1>1, <1>2
<1> QED
  BY <1>5, <1>6 DEF track

LEMMA AllTracksRight ==
  ASSUME NEW documents \in SUBSET Document
  PROVE  TracksRightFor(documents)
<1>1. ASSUME NEW doc \in documents, NEW track \in StructuredLyrics(ParseTTML(doc))
      PROVE  /\ AgentsMatch(track)
             /\ \A i \in 1 .. Len(track.lines) - 1 : track.lines[i].start <= track.lines[i + 1].start
  <2> DEFINE lyrics == ParseTTML(doc)
  <2>1. ParsedRight(lyrics)
    BY DocumentsParsed
  <2> HIDE DEF lyrics
  <2>2. PICK lines \in {lyrics.lines, lyrics.translation, lyrics.pronunciation},
             cues \in {FALSE, lyrics.wordTimed} :
          track = LyricTrack(lines, lyrics.agents, lyrics.synced, cues)
    BY <1>1 DEF StructuredLyrics, lyrics
  <2>3. /\ lines \in Seq(LyricLines) /\ (lyrics.synced => InTime(lines))
        /\ lyrics.agents \in Seq(HeadAgent) /\ lyrics.synced \in BOOLEAN
    BY <2>1 DEF ParsedRight
  <2> QED
    BY <2>2, <2>3, TrackRight
<1> QED
  BY <1>1 DEF TracksRightFor

\* The cues of the word-timed lyrics that a call returns name their words in the
\* text and can be read one after another, whatever paragraphs Apple sends.
THEOREM CuesAreRight == Spec => []CuesRight
<1>1. CuesRightFor(Paragraphs)
  BY ParagraphsAssumption, AllCuesRight
<1>2. CuesRight
  BY <1>1 DEF CuesRight, CuesRightAt
<1> QED
  BY <1>2, PTL

\* The tracks of the lyrics that a call returns are in order and list the agents
\* that their cues name, each once and one of them main, whatever documents
\* Apple sends.
THEOREM TracksAreRight == Spec => []TracksRight
<1>1. ASSUME NEW timing \in {"line", "word"}
      PROVE  TracksRightFor({d \in Documents : d.timing = timing})
  <2>1. {d \in Documents : d.timing = timing} \in SUBSET Document
    BY DocumentsAssumption
  <2> QED
    BY <2>1, AllTracksRight
<1>2. TracksRight
  BY <1>1 DEF TracksRight, TracksRightAt
<1> QED
  BY <1>2, PTL
=============================================================================
