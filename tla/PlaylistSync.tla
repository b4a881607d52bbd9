---------------------------- MODULE PlaylistSync ----------------------------
(* One playlist of one user's Apple Music library and its mirror: the row    *)
(* with its fingerprint and the entries, which have no transaction around    *)
(* them.  Sessions run SyncUserPlaylists (GetPlaylists, and the import at    *)
(* the start of the server); editors run updatePlaylist, createPlaylist with *)
(* an id, and deletePlaylist on the same rows.  A crash stops them anywhere. *)
EXTENDS Naturals, Sequences, FiniteSets

CONSTANTS Sessions,
          Editors,
          NoSession,
          Tracks,
          Versions,       \* contents the playlist may be given on Apple's side
          NoPrint,        \* the fingerprint of a row that is not there
          MaxVersions,    \* bound: changes made on Apple's side
          MaxEdits,       \* bound: local edits
          MaxFailures,    \* bound: statements the database refuses
          MaxFaults       \* bound: these and crashes of the server together

ASSUME SessionAssumption == NoSession \notin Sessions
ASSUME VersionAssumption == Versions \subseteq Seq(Tracks) /\ Versions # {}
ASSUME PrintAssumption == NoPrint \notin Seq(Tracks)
ASSUME BoundAssumption == {MaxVersions, MaxEdits, MaxFailures, MaxFaults} \subseteq Nat

VARIABLES
  apple,      \* the tracks of the playlist in the library
  row,        \* the playlists row: "none", "live", "deleted" (deleted_at set)
  print,      \* its fingerprint: the content it was computed from
  entries,    \* rows of playlist_entries, by id
  lastSync,   \* playlistLastSync: "fresh", or "stale": none or older than the TTL
  flight,     \* playlistSyncGroup: who syncs this user
  pc, snap,   \* session -> stage, and the tracks it has fetched
  same,       \* session -> unchanged
  next,       \* session -> position it writes next
  epc, plan, added, enext,   \* the same for editors; plan is the new content
  spoiled,    \* history: a crash, an edit or a failed statement came between
              \* print and entries
  versions, edits, failures, crashes

library    == <<apple, versions>>
tables     == <<row, print, entries, spoiled>>
syncVars   == <<lastSync, flight, pc, snap, same, next>>
editorVars == <<epc, plan, added, enext, edits>>
faults     == <<failures, crashes>>
vars == <<library, tables, syncVars, editorVars, faults>>

SyncStages   == {"fetch", "compare", "upsert", "clear", "fill", "stamp", "leave"}
Stages       == {"idle", "ttl", "do", "joined"} \cup SyncStages
EditorStages == {"idle", "clear", "fill", "push", "drop", "hide"}
Entries      == [song : Tracks, pos : Nat]

TypeOK ==
  /\ apple \in Seq(Tracks)
  /\ row \in {"none", "live", "deleted"}
  /\ print \in Seq(Tracks) \cup {NoPrint} /\ (row = "none" <=> print = NoPrint)
  /\ entries \in Seq(Entries)
  /\ lastSync \in {"fresh", "stale"}
  /\ flight \in Sessions \cup {NoSession}
  /\ pc \in [Sessions -> Stages] /\ snap \in [Sessions -> Seq(Tracks)]
  /\ same \in [Sessions -> BOOLEAN] /\ next \in [Sessions -> Nat]
  /\ epc \in [Editors -> EditorStages] /\ plan \in [Editors -> Seq(Tracks)]
  /\ added \in [Editors -> Seq(Tracks)] /\ enext \in [Editors -> Nat]
  /\ spoiled \in BOOLEAN
  /\ versions \in 0 .. MaxVersions /\ edits \in 0 .. MaxEdits
  /\ failures \in 0 .. MaxFailures /\ crashes \in 0 .. MaxFaults

Init ==
  /\ apple \in Versions
  /\ row = "none" /\ print = NoPrint /\ entries = <<>>
  /\ lastSync = "stale" /\ flight = NoSession
  /\ pc = [s \in Sessions |-> "idle"] /\ snap = [s \in Sessions |-> <<>>]
  /\ same = [s \in Sessions |-> FALSE] /\ next = [s \in Sessions |-> 0]
  /\ epc = [e \in Editors |-> "idle"] /\ plan = [e \in Editors |-> <<>>]
  /\ added = [e \in Editors |-> <<>>] /\ enext = [e \in Editors |-> 0]
  /\ spoiled = FALSE
  /\ versions = 0 /\ edits = 0 /\ failures = 0 /\ crashes = 0

Goto(s, stage) == pc' = [pc EXCEPT ![s] = stage]

-----------------------------------------------------------------------------
(* SyncUserPlaylists *)

\* A user without any playlist row is synced whatever the time.
GetPlaylists(s) ==
  /\ pc[s] = "idle"
  /\ Goto(s, IF row = "live" THEN "ttl" ELSE "do")
  /\ UNCHANGED <<library, tables, lastSync, flight, snap, same, next, editorVars, faults>>

Mutant_NeverStale(s) ==
  /\ pc[s] = "ttl"
  /\ Goto(s, "idle")
  /\ UNCHANGED <<library, tables, lastSync, flight, snap, same, next, editorVars, faults>>

CheckTTL(s) ==
  /\ pc[s] = "ttl"
  /\ Goto(s, IF lastSync = "fresh" THEN "idle" ELSE "do")
  /\ UNCHANGED <<library, tables, lastSync, flight, snap, same, next, editorVars, faults>>

Mutant_DoAlone(s) ==
  /\ pc[s] = "do"
  /\ flight' = s /\ Goto(s, "fetch")
  /\ UNCHANGED <<library, tables, lastSync, snap, same, next, editorVars, faults>>

GroupDo(s) ==
  /\ pc[s] = "do"
  /\ \/ flight = NoSession /\ flight' = s /\ Goto(s, "fetch")
     \/ flight # NoSession /\ UNCHANGED flight /\ Goto(s, "joined")
  /\ UNCHANGED <<library, tables, lastSync, snap, same, next, editorVars, faults>>

\* The group forgets the flight; all who joined go on to read the tables.
LeaveGroup(s) ==
  /\ pc[s] = "leave"
  /\ flight' = NoSession
  /\ pc' = [t \in Sessions |-> IF t = s \/ pc[t] = "joined" THEN "idle" ELSE pc[t]]
  /\ UNCHANGED <<library, tables, lastSync, snap, same, next, editorVars, faults>>

-----------------------------------------------------------------------------
(* syncUserPlaylists *)

\* No client, or no list of playlists: an error, and no time stamp.
FetchFails(s) ==
  /\ pc[s] = "fetch"
  /\ Goto(s, "leave")
  /\ UNCHANGED <<library, tables, lastSync, flight, snap, same, next, editorVars, faults>>

\* No tracks for this playlist: it is passed over, the sync still counts.
SkipTracks(s) ==
  /\ pc[s] = "fetch"
  /\ Goto(s, "stamp")
  /\ UNCHANGED <<library, tables, lastSync, flight, snap, same, next, editorVars, faults>>

FetchTracks(s) ==
  /\ pc[s] = "fetch"
  /\ snap' = [snap EXCEPT ![s] = apple]
  /\ Goto(s, "compare")
  /\ UNCHANGED <<library, tables, lastSync, flight, same, next, editorVars, faults>>

\* First does not see a row whose deleted_at is set.
Compare(s) ==
  /\ pc[s] = "compare"
  /\ same' = [same EXCEPT ![s] = row = "live" /\ print = snap[s]]
  /\ Goto(s, "upsert")
  /\ UNCHANGED <<library, tables, lastSync, flight, snap, next, editorVars, faults>>

\* The loop is done with the playlist: its locals are gone.
EndPlaylist(s) ==
  /\ Goto(s, "stamp")
  /\ snap' = [snap EXCEPT ![s] = <<>>]
  /\ same' = [same EXCEPT ![s] = FALSE] /\ next' = [next EXCEPT ![s] = 0]

\* An unchanged playlist is left at the upsert, any other goes on to its entries.
SkipUnchanged(s) ==
  \/ same[s] /\ EndPlaylist(s)
  \/ ~same[s] /\ Goto(s, "clear") /\ UNCHANGED <<snap, same, next>>

Mutant_UpsertNoFingerprint(s) ==
  /\ pc[s] = "upsert"
  /\ row' = IF row = "none" THEN "live" ELSE row
  /\ SkipUnchanged(s)
  /\ UNCHANGED <<library, print, entries, spoiled, lastSync, flight, editorVars, faults>>

\* The upsert leaves deleted_at alone: a playlist deleted here stays deleted.
Upsert(s) ==
  /\ pc[s] = "upsert"
  /\ row' = IF row = "none" THEN "live" ELSE row
  /\ print' = snap[s]
  /\ SkipUnchanged(s)
  /\ UNCHANGED <<library, entries, spoiled, lastSync, flight, editorVars, faults>>

Mutant_ClearNothing(s) ==
  /\ pc[s] = "clear"
  /\ next' = [next EXCEPT ![s] = 0]
  /\ spoiled' = (spoiled /\ print # snap[s])
  /\ Goto(s, "fill")
  /\ UNCHANGED <<library, row, print, entries, lastSync, flight, snap, same, editorVars, faults>>

\* The entries are rewritten from nothing, which heals them if the row has taken
\* their fingerprint.
Clear(s) ==
  /\ pc[s] = "clear"
  /\ entries' = <<>>
  /\ next' = [next EXCEPT ![s] = 0]
  /\ spoiled' = (spoiled /\ print # snap[s])
  /\ Goto(s, "fill")
  /\ UNCHANGED <<library, row, print, lastSync, flight, snap, same, editorVars, faults>>

Fill(s) ==
  /\ pc[s] = "fill"
  /\ \/ /\ next[s] < Len(snap[s])
        /\ entries' = Append(entries, [song |-> snap[s][next[s] + 1], pos |-> next[s]])
        /\ next' = [next EXCEPT ![s] = @ + 1]
        /\ UNCHANGED <<pc, snap, same>>
     \/ /\ next[s] >= Len(snap[s])
        /\ EndPlaylist(s)
        /\ UNCHANGED entries
  /\ UNCHANGED <<library, row, print, spoiled, lastSync, flight, editorVars, faults>>

Stamp(s) ==
  /\ pc[s] = "stamp"
  /\ lastSync' = "fresh"
  /\ Goto(s, "leave")
  /\ UNCHANGED <<library, tables, flight, snap, same, next, editorVars, faults>>

MayFault == failures + crashes < MaxFaults

Refuse == MayFault /\ failures < MaxFailures /\ failures' = failures + 1

\* A query fails: no row is counted, or no row is found to compare with.
QueryFails(s) ==
  /\ Refuse
  /\ \/ pc[s] = "idle" /\ Goto(s, "do") /\ UNCHANGED same
     \/ pc[s] = "compare" /\ Goto(s, "upsert") /\ same' = [same EXCEPT ![s] = FALSE]
  /\ UNCHANGED <<library, tables, lastSync, flight, snap, next, editorVars, crashes>>

\* A statement that writes fails.  Its error is ignored: the sync goes on with
\* the next one and stamps the time.
StatementFails(s) ==
  /\ Refuse
  /\ \/ /\ pc[s] = "upsert" /\ SkipUnchanged(s)
        /\ spoiled' = (spoiled \/ ~same[s])
     \/ /\ pc[s] = "clear" /\ Goto(s, "fill")
        /\ spoiled' = TRUE /\ next' = [next EXCEPT ![s] = 0] /\ UNCHANGED <<snap, same>>
     \/ /\ pc[s] = "fill" /\ next[s] < Len(snap[s])
        /\ spoiled' = TRUE /\ next' = [next EXCEPT ![s] = @ + 1] /\ UNCHANGED <<pc, snap, same>>
  /\ UNCHANGED <<library, row, print, entries, lastSync, flight, editorVars, crashes>>

-----------------------------------------------------------------------------
(* Local edits *)

\* What ORDER BY position may return: the rows of one position are together, in
\* any order.
Listings(rows) ==
  LET Below(q) == Cardinality({k \in DOMAIN rows : rows[k].pos < q})
      Copies(e) == Cardinality({k \in DOMAIN rows : rows[k] = e})
  IN {list \in [DOMAIN rows -> {rows[k].song : k \in DOMAIN rows}] :
        \A k \in DOMAIN rows :
          LET q == rows[k].pos IN
            Copies(rows[k]) =
              Cardinality({j \in Below(q) + 1 .. Below(q + 1) : list[j] = rows[k].song})}

Without(list, i) == SubSeq(list, 1, i - 1) \o SubSeq(list, i + 1, Len(list))

BeginEdit(e, stage, content, new) ==
  /\ epc[e] = "idle" /\ row = "live" /\ edits < MaxEdits
  /\ edits' = edits + 1
  /\ epc' = [epc EXCEPT ![e] = stage]
  /\ plan' = [plan EXCEPT ![e] = content]
  /\ added' = [added EXCEPT ![e] = new]
  /\ UNCHANGED <<library, tables, syncVars, enext, faults>>

\* UpdatePlaylist: reads the entries, none if the query fails, takes one out or
\* puts one at the end
UpdatePlaylist(e) ==
  \E list \in Listings(entries) \cup {<<>>} :
    \/ \E i \in DOMAIN list : BeginEdit(e, "clear", Without(list, i), <<>>)
    \/ \E t \in Tracks : BeginEdit(e, "clear", Append(list, t), <<t>>)

\* updatePlaylistSongs: the request holds the whole list, the songs that the
\* entries did not hold, which are sent to Apple, coming last
UpdatePlaylistSongs(e) ==
  \E content \in Versions :
    \E n \in 0 .. Len(content) :
      \E old \in {{entries[k].song : k \in DOMAIN entries}, {}} :
        /\ \A i \in 1 .. Len(content) : content[i] \in old <=> i <= n
        /\ BeginEdit(e, "clear", content, SubSeq(content, n + 1, Len(content)))

DeletePlaylist(e) == BeginEdit(e, "drop", <<>>, <<>>)

EditClear(e) ==
  /\ epc[e] = "clear"
  /\ entries' = <<>> /\ spoiled' = TRUE
  /\ enext' = [enext EXCEPT ![e] = 0]
  /\ epc' = [epc EXCEPT ![e] = "fill"]
  /\ UNCHANGED <<library, row, print, syncVars, plan, added, edits, faults>>

EndEdit(e) ==
  /\ epc' = [epc EXCEPT ![e] = "idle"]
  /\ plan' = [plan EXCEPT ![e] = <<>>] /\ added' = [added EXCEPT ![e] = <<>>]
  /\ enext' = [enext EXCEPT ![e] = 0]

EditFill(e) ==
  /\ epc[e] = "fill"
  /\ \/ /\ enext[e] < Len(plan[e])
        /\ entries' = Append(entries, [song |-> plan[e][enext[e] + 1], pos |-> enext[e]])
        /\ enext' = [enext EXCEPT ![e] = @ + 1]
        /\ spoiled' = TRUE
        /\ UNCHANGED <<epc, plan, added>>
     \/ /\ enext[e] >= Len(plan[e]) /\ added[e] = <<>>
        /\ EndEdit(e)
        /\ UNCHANGED <<entries, spoiled>>
     \/ /\ enext[e] >= Len(plan[e]) /\ added[e] # <<>>
        /\ epc' = [epc EXCEPT ![e] = "push"]
        /\ plan' = [plan EXCEPT ![e] = <<>>] /\ enext' = [enext EXCEPT ![e] = 0]
        /\ UNCHANGED <<entries, spoiled, added>>
  /\ UNCHANGED <<library, row, print, syncVars, edits, faults>>

\* AddTracksToLibraryPlaylist, whose error is only logged; removals stay local
Push(e) ==
  /\ epc[e] = "push"
  /\ apple' \in {apple, apple \o added[e]}
  /\ EndEdit(e)
  /\ UNCHANGED <<versions, tables, syncVars, edits, faults>>

DeleteEntries(e) ==
  /\ epc[e] = "drop"
  /\ entries' = <<>> /\ spoiled' = TRUE
  /\ epc' = [epc EXCEPT ![e] = "hide"]
  /\ UNCHANGED <<library, row, print, syncVars, plan, added, enext, edits, faults>>

DeleteRow(e) ==
  /\ epc[e] = "hide"
  /\ row' = "deleted"
  /\ EndEdit(e)
  /\ UNCHANGED <<library, print, entries, spoiled, syncVars, edits, faults>>

\* The errors of an editor's statements are ignored as well.
EditStatementFails(e) ==
  /\ Refuse
  /\ \/ /\ epc[e] = "clear" /\ epc' = [epc EXCEPT ![e] = "fill"]
        /\ enext' = [enext EXCEPT ![e] = 0] /\ UNCHANGED <<plan, added>>
     \/ /\ epc[e] = "fill" /\ enext[e] < Len(plan[e])
        /\ enext' = [enext EXCEPT ![e] = @ + 1] /\ UNCHANGED <<epc, plan, added>>
     \/ /\ epc[e] = "drop" /\ epc' = [epc EXCEPT ![e] = "hide"]
        /\ UNCHANGED <<plan, added, enext>>
     \/ epc[e] = "hide" /\ EndEdit(e)
  /\ UNCHANGED <<library, tables, syncVars, edits, crashes>>

-----------------------------------------------------------------------------
\* The user changes the playlist on Apple's side.
ChangeOnApple ==
  /\ versions < MaxVersions
  /\ versions' = versions + 1
  /\ apple' \in Versions \ {apple}
  /\ UNCHANGED <<tables, syncVars, editorVars, faults>>

\* playlistSyncTTL has gone by.
Expire ==
  /\ lastSync = "fresh"
  /\ lastSync' = "stale"
  /\ UNCHANGED <<library, tables, flight, pc, snap, same, next, editorVars, faults>>

\* The tables survive; the goroutines, the group and the time stamps do not.
Crash ==
  /\ MayFault
  /\ crashes' = crashes + 1
  /\ pc' = [s \in Sessions |-> "idle"] /\ epc' = [e \in Editors |-> "idle"]
  /\ flight' = NoSession /\ lastSync' = "stale"
  /\ spoiled' = (spoiled \/ \E s \in Sessions : pc[s] \in {"clear", "fill"})
  /\ snap' = [s \in Sessions |-> <<>>] /\ same' = [s \in Sessions |-> FALSE]
  /\ next' = [s \in Sessions |-> 0]
  /\ plan' = [e \in Editors |-> <<>>] /\ added' = [e \in Editors |-> <<>>]
  /\ enext' = [e \in Editors |-> 0]
  /\ UNCHANGED <<library, row, print, entries, edits, failures>>

SyncStep(s) ==
  \/ CheckTTL(s) \/ GroupDo(s)
  \/ FetchFails(s) \/ SkipTracks(s) \/ FetchTracks(s)
  \/ Compare(s) \/ Upsert(s) \/ Clear(s) \/ Fill(s) \/ Stamp(s) \/ LeaveGroup(s)

EditStep(e) ==
  EditClear(e) \/ EditFill(e) \/ Push(e) \/ DeleteEntries(e) \/ DeleteRow(e)

Next ==
  \/ \E s \in Sessions : GetPlaylists(s) \/ SyncStep(s) \/ QueryFails(s) \/ StatementFails(s)
  \/ \E e \in Editors :
        \/ UpdatePlaylist(e) \/ UpdatePlaylistSongs(e) \/ DeletePlaylist(e)
        \/ EditStep(e) \/ EditStatementFails(e)
  \/ ChangeOnApple
  \/ Expire
  \/ Crash

Spec == Init /\ [][Next]_vars

\* Goroutines run, time goes by, clients keep opening the list of playlists, and
\* Apple answers in the end.
Fairness ==
  /\ \A s \in Sessions : WF_vars(GetPlaylists(s)) /\ WF_vars(SyncStep(s))
  /\ \A e \in Editors : WF_vars(EditStep(e))
  /\ WF_vars(Expire)
  /\ SF_vars(\E s \in Sessions : FetchTracks(s))

FairSpec == Spec /\ Fairness
-----------------------------------------------------------------------------
(* Properties *)

Syncing(s) == pc[s] \in SyncStages

Songs(rows) == [k \in 1 .. Len(rows) |-> rows[k].song]

\* However many clients open their playlists at once, and whether or not the
\* import of the start is under way, one goroutine syncs a user.
OneSyncAtATime == \A s, t \in Sessions : Syncing(s) /\ Syncing(t) => s = t

\* "unchanged" trusts the fingerprint in place of the entries.  When no sync is
\* between the upsert and the last entry the entries are the content it was
\* computed from, in order, unless a crash, a local edit or a statement whose
\* error was ignored came between them and no rewrite has healed it since.
FingerprintTells ==
  row # "none" /\ ~spoiled /\ (\A s \in Sessions : pc[s] \notin {"clear", "fill"})
    => Songs(entries) = print

\* Once the library is left alone the mirror shows it in the end: changes are
\* not missed between the TTL, the group and the fingerprint, unless something
\* keeps fingerprint and entries apart for good.  (A playlist
\* deleted here is hidden; its entries are rewritten at every sync.)
ReflectedUnlessSpoiled ==
  \/ <>[](row = "live" /\ Songs(entries) = apple)
  \/ <>[](row = "deleted")
  \/ <>[]spoiled

\* "syncing playlists so apple music playlists are reflected in the local db"
\* (sync.go:20)
LibraryReflected == <>[](Songs(entries) = apple)
-----------------------------------------------------------------------------
(* The invariant the proofs need *)

\* While the entries are rewritten nobody but an editor, who spoils them, writes
\* beside the one sync, and no statement of it has failed.
FillInv ==
  \A s \in Sessions : pc[s] = "fill" /\ ~spoiled =>
    /\ print = snap[s]
    /\ next[s] = Len(entries) /\ next[s] <= Len(snap[s])
    /\ \A k \in 1 .. Len(entries) : entries[k].song = snap[s][k]

LeaderInv == \A s \in Sessions : Syncing(s) <=> flight = s

\* What a sync is about to upsert as unchanged is what the row says.
SameInv ==
  \A s \in Sessions :
    /\ pc[s] = "upsert" /\ same[s] => row # "none" /\ print = snap[s]
    /\ pc[s] = "clear" /\ ~spoiled => print = snap[s]

EditInv == \A e \in Editors : epc[e] # "idle" => row # "none"

MirrorInv ==
  /\ TypeOK /\ LeaderInv /\ SameInv /\ EditInv /\ FillInv /\ FingerprintTells
=============================================================================
