------------------------ MODULE PlaylistSyncProofs ------------------------
(* For any number of sessions, editors, tracks, crashes and failed          *)
(* statements: the fingerprint of a mirrored playlist tells what its entries *)
(* are, but for the crashes, edits and failures that spoil it, and one      *)
(* goroutine at a time syncs a user.                                        *)
EXTENDS PlaylistSync, SequenceTheorems, TLAPS

USE DEF SyncStages, Syncing, Songs, Goto, faults

LEMMA AppendEntry ==
  ASSUME NEW S, NEW q \in Seq(S), NEW e \in S
  PROVE  /\ Append(q, e) \in Seq(S) /\ Len(Append(q, e)) = Len(q) + 1
         /\ \A k \in 1 .. Len(q) : Append(q, e)[k] = q[k]
         /\ Append(q, e)[Len(q) + 1] = e
OBVIOUS

LEMMA ElementIn ==
  ASSUME NEW S, NEW q \in Seq(S), NEW k \in Nat, k < Len(q)
  PROVE  q[k + 1] \in S
OBVIOUS

LEMMA ListingsType ==
  ASSUME NEW rows \in Seq(Entries), NEW list \in Listings(rows) \cup {<<>>}
  PROVE  list \in Seq(Tracks)
<1>1. CASE list = <<>>
  BY <1>1
<1>2. CASE list \in Listings(rows)
  <2>1. /\ DOMAIN rows = 1 .. Len(rows) /\ Len(rows) \in Nat
        /\ \A k \in DOMAIN rows : rows[k] \in Entries
    OBVIOUS
  <2>2. \A k \in DOMAIN rows : rows[k].song \in Tracks
    BY <2>1 DEF Entries
  <2>3. list \in [DOMAIN rows -> {rows[k].song : k \in DOMAIN rows}]
    BY <1>2 DEF Listings
  <2>4. list \in [1 .. Len(rows) -> Tracks]
    BY <2>1, <2>2, <2>3
  <2> QED
    BY <2>1, <2>4
<1> QED
  BY <1>1, <1>2

LEMMA WithoutType ==
  ASSUME NEW list \in Seq(Tracks), NEW i \in DOMAIN list
  PROVE  Without(list, i) \in Seq(Tracks)
<1>1. SubSeq(list, 1, i - 1) \in Seq(Tracks)
  BY SubSeqProperties
<1>2. SubSeq(list, i + 1, Len(list)) \in Seq(Tracks)
  BY SubSeqProperties
<1> QED
  BY <1>1, <1>2, ConcatProperties DEF Without

LEMMA EndPlaylistType ==
  ASSUME TypeOK, NEW s \in Sessions, EndPlaylist(s)
  PROVE  /\ pc' \in [Sessions -> Stages] /\ snap' \in [Sessions -> Seq(Tracks)]
         /\ same' \in [Sessions -> BOOLEAN] /\ next' \in [Sessions -> Nat]
<1>1. <<>> \in Seq(Tracks) /\ "stamp" \in Stages
  BY DEF Stages
<1> QED
  BY <1>1 DEF TypeOK, EndPlaylist

LEMMA SkipUnchangedType ==
  ASSUME TypeOK, NEW s \in Sessions, SkipUnchanged(s)
  PROVE  /\ pc' \in [Sessions -> Stages] /\ snap' \in [Sessions -> Seq(Tracks)]
         /\ same' \in [Sessions -> BOOLEAN] /\ next' \in [Sessions -> Nat]
<1>1. CASE same[s] /\ EndPlaylist(s)
  BY <1>1, EndPlaylistType
<1>2. CASE ~same[s] /\ Goto(s, "clear") /\ UNCHANGED <<snap, same, next>>
  BY <1>2 DEF TypeOK, Stages
<1> QED
  BY <1>1, <1>2 DEF SkipUnchanged

LEMMA EndEditType ==
  ASSUME TypeOK, NEW e \in Editors, EndEdit(e)
  PROVE  /\ epc' \in [Editors -> EditorStages] /\ plan' \in [Editors -> Seq(Tracks)]
         /\ added' \in [Editors -> Seq(Tracks)] /\ enext' \in [Editors -> Nat]
<1>1. <<>> \in Seq(Tracks) /\ "idle" \in EditorStages
  BY DEF EditorStages
<1> QED
  BY <1>1 DEF TypeOK, EndEdit

LEMMA InitInv == ASSUME Init PROVE MirrorInv
<1>1. TypeOK
  <2>1. /\ <<>> \in Seq(Tracks) /\ <<>> \in Seq(Entries) /\ apple \in Seq(Tracks)
        /\ 0 \in 0 .. MaxVersions /\ 0 \in 0 .. MaxEdits /\ 0 \in 0 .. MaxFailures /\ 0 \in 0 .. MaxFaults
    BY VersionAssumption, BoundAssumption DEF Init
  <2>2. /\ pc \in [Sessions -> Stages] /\ snap \in [Sessions -> Seq(Tracks)]
        /\ same \in [Sessions -> BOOLEAN] /\ next \in [Sessions -> Nat]
    BY <2>1 DEF Init, Stages
  <2>3. /\ epc \in [Editors -> EditorStages] /\ plan \in [Editors -> Seq(Tracks)]
        /\ added \in [Editors -> Seq(Tracks)] /\ enext \in [Editors -> Nat]
    BY <2>1 DEF Init, EditorStages
  <2> QED
    BY <2>1, <2>2, <2>3 DEF Init, TypeOK
<1>2. LeaderInv /\ SameInv /\ EditInv /\ FillInv /\ FingerprintTells
  BY SessionAssumption DEF Init, LeaderInv, SameInv, EditInv, FillInv, FingerprintTells
<1> QED
  BY <1>1, <1>2 DEF MirrorInv

-----------------------------------------------------------------------------
(* The syncs *)

LEMMA GetPlaylistsInv ==
  ASSUME MirrorInv, NEW s \in Sessions, GetPlaylists(s) PROVE MirrorInv'
<1>1. TypeOK'
  BY PrintAssumption DEF MirrorInv, TypeOK, Stages, EditorStages, GetPlaylists, library, tables, editorVars
<1>2. LeaderInv' /\ SameInv' /\ EditInv'
  BY SessionAssumption DEF MirrorInv, TypeOK, LeaderInv, SameInv, EditInv, GetPlaylists, library, tables, editorVars
<1>3. FillInv'
  BY SessionAssumption DEF MirrorInv, TypeOK, LeaderInv, SameInv, EditInv, FillInv, GetPlaylists, library, tables, editorVars
<1>4. FingerprintTells'
  BY SessionAssumption DEF MirrorInv, TypeOK, LeaderInv, SameInv, EditInv, FillInv, FingerprintTells, GetPlaylists, library, tables, editorVars
<1> QED
  BY <1>1, <1>2, <1>3, <1>4 DEF MirrorInv

LEMMA CheckTTLInv ==
  ASSUME MirrorInv, NEW s \in Sessions, CheckTTL(s) PROVE MirrorInv'
<1>1. TypeOK'
  BY PrintAssumption DEF MirrorInv, TypeOK, Stages, EditorStages, CheckTTL, library, tables, editorVars
<1>2. LeaderInv' /\ SameInv' /\ EditInv'
  BY SessionAssumption DEF MirrorInv, TypeOK, LeaderInv, SameInv, EditInv, CheckTTL, library, tables, editorVars
<1>3. FillInv'
  BY SessionAssumption DEF MirrorInv, TypeOK, LeaderInv, SameInv, EditInv, FillInv, CheckTTL, library, tables, editorVars
<1>4. FingerprintTells'
  BY SessionAssumption DEF MirrorInv, TypeOK, LeaderInv, SameInv, EditInv, FillInv, FingerprintTells, CheckTTL, library, tables, editorVars
<1> QED
  BY <1>1, <1>2, <1>3, <1>4 DEF MirrorInv

LEMMA GroupDoInv ==
  ASSUME MirrorInv, NEW s \in Sessions, GroupDo(s) PROVE MirrorInv'
<1>1. TypeOK'
  BY PrintAssumption DEF MirrorInv, TypeOK, Stages, EditorStages, GroupDo, library, tables, editorVars
<1>2. LeaderInv' /\ SameInv' /\ EditInv'
  BY SessionAssumption DEF MirrorInv, TypeOK, LeaderInv, SameInv, EditInv, GroupDo, library, tables, editorVars
<1>3. FillInv'
  BY SessionAssumption DEF MirrorInv, TypeOK, LeaderInv, SameInv, EditInv, FillInv, GroupDo, library, tables, editorVars
<1>4. FingerprintTells'
  BY SessionAssumption DEF MirrorInv, TypeOK, LeaderInv, SameInv, EditInv, FillInv, FingerprintTells, GroupDo, library, tables, editorVars
<1> QED
  BY <1>1, <1>2, <1>3, <1>4 DEF MirrorInv

LEMMA LeaveGroupInv ==
  ASSUME MirrorInv, NEW s \in Sessions, LeaveGroup(s) PROVE MirrorInv'
<1>1. TypeOK'
  BY PrintAssumption DEF MirrorInv, TypeOK, Stages, EditorStages, LeaveGroup, library, tables, editorVars
<1>2. LeaderInv' /\ SameInv' /\ EditInv'
  BY SessionAssumption DEF MirrorInv, TypeOK, LeaderInv, SameInv, EditInv, LeaveGroup, library, tables, editorVars
<1>3. FillInv'
  BY SessionAssumption DEF MirrorInv, TypeOK, LeaderInv, SameInv, EditInv, FillInv, LeaveGroup, library, tables, editorVars
<1>4. FingerprintTells'
  BY SessionAssumption DEF MirrorInv, TypeOK, LeaderInv, SameInv, EditInv, FillInv, FingerprintTells, LeaveGroup, library, tables, editorVars
<1> QED
  BY <1>1, <1>2, <1>3, <1>4 DEF MirrorInv

LEMMA FetchFailsInv ==
  ASSUME MirrorInv, NEW s \in Sessions, FetchFails(s) PROVE MirrorInv'
<1>1. TypeOK'
  BY PrintAssumption DEF MirrorInv, TypeOK, Stages, EditorStages, FetchFails, library, tables, editorVars
<1>2. LeaderInv' /\ SameInv' /\ EditInv'
  BY SessionAssumption DEF MirrorInv, TypeOK, LeaderInv, SameInv, EditInv, FetchFails, library, tables, editorVars
<1>3. FillInv'
  BY SessionAssumption DEF MirrorInv, TypeOK, LeaderInv, SameInv, EditInv, FillInv, FetchFails, library, tables, editorVars
<1>4. FingerprintTells'
  BY SessionAssumption DEF MirrorInv, TypeOK, LeaderInv, SameInv, EditInv, FillInv, FingerprintTells, FetchFails, library, tables, editorVars
<1> QED
  BY <1>1, <1>2, <1>3, <1>4 DEF MirrorInv

LEMMA SkipTracksInv ==
  ASSUME MirrorInv, NEW s \in Sessions, SkipTracks(s) PROVE MirrorInv'
<1>1. TypeOK'
  BY PrintAssumption DEF MirrorInv, TypeOK, Stages, EditorStages, SkipTracks, library, tables, editorVars
<1>2. LeaderInv' /\ SameInv' /\ EditInv'
  BY SessionAssumption DEF MirrorInv, TypeOK, LeaderInv, SameInv, EditInv, SkipTracks, library, tables, editorVars
<1>3. FillInv'
  BY SessionAssumption DEF MirrorInv, TypeOK, LeaderInv, SameInv, EditInv, FillInv, SkipTracks, library, tables, editorVars
<1>4. FingerprintTells'
  BY SessionAssumption DEF MirrorInv, TypeOK, LeaderInv, SameInv, EditInv, FillInv, FingerprintTells, SkipTracks, library, tables, editorVars
<1> QED
  BY <1>1, <1>2, <1>3, <1>4 DEF MirrorInv

LEMMA FetchTracksInv ==
  ASSUME MirrorInv, NEW s \in Sessions, FetchTracks(s) PROVE MirrorInv'
<1>1. TypeOK'
  BY PrintAssumption DEF MirrorInv, TypeOK, Stages, EditorStages, FetchTracks, library, tables, editorVars
<1>2. LeaderInv' /\ SameInv' /\ EditInv'
  BY SessionAssumption DEF MirrorInv, TypeOK, LeaderInv, SameInv, EditInv, FetchTracks, library, tables, editorVars
<1>3. FillInv'
  BY SessionAssumption DEF MirrorInv, TypeOK, LeaderInv, SameInv, EditInv, FillInv, FetchTracks, library, tables, editorVars
<1>4. FingerprintTells'
  BY SessionAssumption DEF MirrorInv, TypeOK, LeaderInv, SameInv, EditInv, FillInv, FingerprintTells, FetchTracks, library, tables, editorVars
<1> QED
  BY <1>1, <1>2, <1>3, <1>4 DEF MirrorInv

LEMMA CompareInv ==
  ASSUME MirrorInv, NEW s \in Sessions, Compare(s) PROVE MirrorInv'
<1>1. TypeOK'
  BY PrintAssumption DEF MirrorInv, TypeOK, Stages, EditorStages, Compare, library, tables, editorVars
<1>2. LeaderInv' /\ SameInv' /\ EditInv'
  BY SessionAssumption DEF MirrorInv, TypeOK, LeaderInv, SameInv, EditInv, Compare, library, tables, editorVars
<1>3. FillInv'
  BY SessionAssumption DEF MirrorInv, TypeOK, LeaderInv, SameInv, EditInv, FillInv, Compare, library, tables, editorVars
<1>4. FingerprintTells'
  BY SessionAssumption DEF MirrorInv, TypeOK, LeaderInv, SameInv, EditInv, FillInv, FingerprintTells, Compare, library, tables, editorVars
<1> QED
  BY <1>1, <1>2, <1>3, <1>4 DEF MirrorInv

LEMMA UpsertInv ==
  ASSUME MirrorInv, NEW s \in Sessions, Upsert(s) PROVE MirrorInv'
<1>1. TypeOK'
  <2>1. snap[s] \in Seq(Tracks) /\ snap[s] # NoPrint
    BY PrintAssumption DEF MirrorInv, TypeOK
  <2> QED
    BY <2>1, SkipUnchangedType DEF MirrorInv, TypeOK, Upsert, library, editorVars
<1>2. LeaderInv' /\ SameInv' /\ EditInv'
  BY SessionAssumption DEF MirrorInv, TypeOK, LeaderInv, SameInv, EditInv, Upsert, SkipUnchanged, EndPlaylist, library, editorVars
<1>3. FillInv'
  BY SessionAssumption DEF MirrorInv, TypeOK, LeaderInv, SameInv, EditInv, FillInv, Upsert, SkipUnchanged, EndPlaylist, library, editorVars
<1>4. FingerprintTells'
  BY SessionAssumption DEF MirrorInv, TypeOK, LeaderInv, SameInv, EditInv, FillInv, FingerprintTells, Upsert, SkipUnchanged, EndPlaylist, library, editorVars
<1> QED
  BY <1>1, <1>2, <1>3, <1>4 DEF MirrorInv

LEMMA ClearInv ==
  ASSUME MirrorInv, NEW s \in Sessions, Clear(s) PROVE MirrorInv'
<1>1. TypeOK'
  <2>1. entries' \in Seq(Entries)
    BY DEF Clear
  <2> QED
    BY <2>1 DEF MirrorInv, TypeOK, Stages, Clear, library, editorVars
<1>2. LeaderInv' /\ SameInv' /\ EditInv'
  BY SessionAssumption DEF MirrorInv, TypeOK, LeaderInv, SameInv, EditInv, Clear, library, editorVars
<1>3. FillInv'
  BY SessionAssumption DEF MirrorInv, TypeOK, LeaderInv, SameInv, EditInv, FillInv, Clear, library, editorVars
<1>4. FingerprintTells'
  BY SessionAssumption DEF MirrorInv, TypeOK, LeaderInv, SameInv, EditInv, FillInv, FingerprintTells, Clear, library, editorVars
<1> QED
  BY <1>1, <1>2, <1>3, <1>4 DEF MirrorInv

LEMMA FillStepInv ==
  ASSUME MirrorInv, NEW s \in Sessions, Fill(s) PROVE MirrorInv'
<1>1. PICK entry : entry = [song |-> snap[s][next[s] + 1], pos |-> next[s]]
  OBVIOUS
<1>2. CASE /\ next[s] < Len(snap[s]) /\ entries' = Append(entries, entry)
           /\ next' = [next EXCEPT ![s] = next[s] + 1] /\ UNCHANGED <<pc, snap, same>>
  <2>1. entry \in Entries /\ entry.song = snap[s][next[s] + 1]
    BY <1>1, <1>2, ElementIn DEF MirrorInv, TypeOK, Entries
  <2>2. TypeOK'
    <3>1. entries' \in Seq(Entries) /\ next' \in [Sessions -> Nat]
      BY <1>2, <2>1, AppendEntry DEF MirrorInv, TypeOK
    <3> QED
      BY <1>2, <3>1 DEF MirrorInv, TypeOK, Fill, library, editorVars
  <2>3. LeaderInv' /\ SameInv' /\ EditInv' /\ FingerprintTells'
    BY <1>2 DEF MirrorInv, TypeOK, LeaderInv, SameInv, EditInv, FingerprintTells, Fill, library, editorVars
  <2>4. FillInv'
    <3>1. \A t \in Sessions : pc[t] = "fill" => t = s
      BY DEF MirrorInv, LeaderInv, Fill
    <3>2. ASSUME ~spoiled
          PROVE  /\ print = snap[s] /\ next'[s] = Len(entries') /\ next'[s] <= Len(snap[s])
                 /\ \A k \in 1 .. Len(entries') : entries'[k].song = snap[s][k]
      <4>1. /\ print = snap[s] /\ next[s] = Len(entries)
            /\ \A k \in 1 .. Len(entries) : entries[k].song = snap[s][k]
        BY <3>2 DEF MirrorInv, FillInv, Fill
      <4>2. next'[s] = next[s] + 1 /\ next[s] \in Nat /\ Len(snap[s]) \in Nat
        BY <1>2 DEF MirrorInv, TypeOK
      <4>3. /\ Len(entries') = Len(entries) + 1 /\ entries'[Len(entries) + 1] = entry
            /\ \A k \in 1 .. Len(entries) : entries'[k] = entries[k]
        BY <1>2, <2>1, AppendEntry DEF MirrorInv, TypeOK
      <4> QED
        BY <1>2, <2>1, <4>1, <4>2, <4>3
    <3> QED
      BY <1>2, <3>1, <3>2 DEF FillInv, Fill
  <2> QED
    BY <2>2, <2>3, <2>4 DEF MirrorInv
<1>3. CASE next[s] >= Len(snap[s]) /\ EndPlaylist(s) /\ UNCHANGED entries
  <2>1. TypeOK'
    BY <1>3, EndPlaylistType DEF MirrorInv, TypeOK, Fill, library, editorVars
  <2>2. LeaderInv' /\ SameInv' /\ EditInv' /\ FillInv'
    BY <1>3 DEF MirrorInv, TypeOK, LeaderInv, SameInv, EditInv, FillInv, Fill, EndPlaylist, library, editorVars
  <2>3. FingerprintTells'
    BY <1>3 DEF MirrorInv, TypeOK, LeaderInv, FillInv, FingerprintTells, Fill, EndPlaylist, library, editorVars
  <2> QED
    BY <2>1, <2>2, <2>3 DEF MirrorInv
<1> QED
  BY <1>1, <1>2, <1>3 DEF Fill

LEMMA StampInv ==
  ASSUME MirrorInv, NEW s \in Sessions, Stamp(s) PROVE MirrorInv'
<1>1. TypeOK'
  BY PrintAssumption DEF MirrorInv, TypeOK, Stages, EditorStages, Stamp, library, tables, editorVars
<1>2. LeaderInv' /\ SameInv' /\ EditInv'
  BY SessionAssumption DEF MirrorInv, TypeOK, LeaderInv, SameInv, EditInv, Stamp, library, tables, editorVars
<1>3. FillInv'
  BY SessionAssumption DEF MirrorInv, TypeOK, LeaderInv, SameInv, EditInv, FillInv, Stamp, library, tables, editorVars
<1>4. FingerprintTells'
  BY SessionAssumption DEF MirrorInv, TypeOK, LeaderInv, SameInv, EditInv, FillInv, FingerprintTells, Stamp, library, tables, editorVars
<1> QED
  BY <1>1, <1>2, <1>3, <1>4 DEF MirrorInv

LEMMA RefuseType == ASSUME TypeOK, Refuse PROVE failures' \in 0 .. MaxFailures
BY BoundAssumption DEF TypeOK, Refuse

LEMMA QueryFailsInv ==
  ASSUME MirrorInv, NEW s \in Sessions, QueryFails(s) PROVE MirrorInv'
<1>1. TypeOK'
  BY RefuseType DEF MirrorInv, TypeOK, Stages, QueryFails, library, tables, editorVars
<1>2. LeaderInv' /\ SameInv' /\ EditInv'
  BY SessionAssumption DEF MirrorInv, TypeOK, LeaderInv, SameInv, EditInv, QueryFails, library, tables, editorVars
<1>3. FillInv'
  BY SessionAssumption DEF MirrorInv, TypeOK, LeaderInv, SameInv, EditInv, FillInv, QueryFails, library, tables, editorVars
<1>4. FingerprintTells'
  BY SessionAssumption DEF MirrorInv, TypeOK, LeaderInv, SameInv, EditInv, FillInv, FingerprintTells, QueryFails, library, tables, editorVars
<1> QED
  BY <1>1, <1>2, <1>3, <1>4 DEF MirrorInv

LEMMA StatementFailsInv ==
  ASSUME MirrorInv, NEW s \in Sessions, StatementFails(s) PROVE MirrorInv'
<1>1. TypeOK'
  <2>1. /\ pc' \in [Sessions -> Stages] /\ snap' \in [Sessions -> Seq(Tracks)]
        /\ same' \in [Sessions -> BOOLEAN] /\ next' \in [Sessions -> Nat]
        /\ spoiled' \in BOOLEAN
    <3>1. CASE pc[s] = "upsert" /\ SkipUnchanged(s) /\ spoiled' = (spoiled \/ ~same[s])
      BY <3>1, SkipUnchangedType DEF MirrorInv
    <3>2. CASE /\ pc[s] = "clear" /\ Goto(s, "fill") /\ UNCHANGED <<snap, same>>
               /\ spoiled' = TRUE /\ next' = [next EXCEPT ![s] = 0]
      BY <3>2 DEF MirrorInv, TypeOK, Stages
    <3>3. CASE /\ UNCHANGED <<pc, snap, same>>
               /\ spoiled' = TRUE /\ next' = [next EXCEPT ![s] = next[s] + 1]
      BY <3>3 DEF MirrorInv, TypeOK
    <3> QED
      BY <3>1, <3>2, <3>3 DEF StatementFails
  <2> QED
    BY <2>1, RefuseType DEF MirrorInv, TypeOK, StatementFails, library, editorVars
<1>2. LeaderInv' /\ SameInv' /\ EditInv'
  BY SessionAssumption DEF MirrorInv, TypeOK, LeaderInv, SameInv, EditInv, StatementFails, SkipUnchanged, EndPlaylist, library, editorVars
<1>3. FillInv'
  BY SessionAssumption DEF MirrorInv, TypeOK, LeaderInv, SameInv, EditInv, FillInv, StatementFails, SkipUnchanged, EndPlaylist, library, editorVars
<1>4. FingerprintTells'
  BY SessionAssumption DEF MirrorInv, TypeOK, LeaderInv, SameInv, EditInv, FillInv, FingerprintTells, StatementFails, SkipUnchanged, EndPlaylist, library, editorVars
<1> QED
  BY <1>1, <1>2, <1>3, <1>4 DEF MirrorInv

-----------------------------------------------------------------------------
(* The local edits *)

LEMMA BeginEditInv ==
  ASSUME MirrorInv, NEW e \in Editors, NEW stage \in {"clear", "drop"},
         NEW content \in Seq(Tracks), NEW new \in Seq(Tracks),
         BeginEdit(e, stage, content, new)
  PROVE  MirrorInv'
<1>1. TypeOK'
  <2>1. edits' \in 0 .. MaxEdits
    BY BoundAssumption DEF MirrorInv, TypeOK, BeginEdit
  <2> QED
    BY <2>1 DEF MirrorInv, TypeOK, EditorStages, BeginEdit, library, tables, syncVars
<1>2. LeaderInv' /\ SameInv' /\ EditInv' /\ FillInv' /\ FingerprintTells'
  BY DEF MirrorInv, LeaderInv, SameInv, EditInv, FillInv, FingerprintTells, BeginEdit,
         library, tables, syncVars
<1> QED
  BY <1>1, <1>2 DEF MirrorInv

LEMMA UpdatePlaylistInv ==
  ASSUME MirrorInv, NEW e \in Editors, UpdatePlaylist(e) PROVE MirrorInv'
<1>1. PICK list \in Listings(entries) \cup {<<>>} :
        \/ \E i \in DOMAIN list : BeginEdit(e, "clear", Without(list, i), <<>>)
        \/ \E t \in Tracks : BeginEdit(e, "clear", Append(list, t), <<t>>)
  BY DEF UpdatePlaylist
<1>2. list \in Seq(Tracks) /\ <<>> \in Seq(Tracks)
  BY ListingsType DEF MirrorInv, TypeOK
<1>3. ASSUME NEW i \in DOMAIN list, BeginEdit(e, "clear", Without(list, i), <<>>)
      PROVE  MirrorInv'
  BY <1>2, <1>3, WithoutType, BeginEditInv
<1>4. ASSUME NEW t \in Tracks, BeginEdit(e, "clear", Append(list, t), <<t>>)
      PROVE  MirrorInv'
  <2>1. Append(list, t) \in Seq(Tracks) /\ <<t>> \in Seq(Tracks)
    BY <1>2
  <2> QED
    BY <1>4, <2>1, BeginEditInv
<1> QED
  BY <1>1, <1>3, <1>4

LEMMA UpdatePlaylistSongsInv ==
  ASSUME MirrorInv, NEW e \in Editors, UpdatePlaylistSongs(e) PROVE MirrorInv'
<1>1. PICK content \in Versions : \E n \in 0 .. Len(content) :
        BeginEdit(e, "clear", content, SubSeq(content, n + 1, Len(content)))
  BY DEF UpdatePlaylistSongs
<1>a. PICK n \in 0 .. Len(content) :
        BeginEdit(e, "clear", content, SubSeq(content, n + 1, Len(content)))
  BY <1>1
<1>2. content \in Seq(Tracks) /\ SubSeq(content, n + 1, Len(content)) \in Seq(Tracks)
  BY VersionAssumption, SubSeqProperties
<1> QED
  BY <1>a, <1>2, BeginEditInv

LEMMA DeletePlaylistInv ==
  ASSUME MirrorInv, NEW e \in Editors, DeletePlaylist(e) PROVE MirrorInv'
<1>1. <<>> \in Seq(Tracks)
  OBVIOUS
<1> QED
  BY <1>1, BeginEditInv DEF DeletePlaylist

LEMMA EditClearInv ==
  ASSUME MirrorInv, NEW e \in Editors, EditClear(e) PROVE MirrorInv'
<1>1. TypeOK'
  BY PrintAssumption DEF MirrorInv, TypeOK, Stages, EditorStages, EditClear, library, syncVars
<1>2. LeaderInv' /\ SameInv' /\ EditInv'
  BY SessionAssumption DEF MirrorInv, TypeOK, LeaderInv, SameInv, EditInv, EditClear, library, syncVars
<1>3. FillInv'
  BY SessionAssumption DEF MirrorInv, TypeOK, LeaderInv, SameInv, EditInv, FillInv, EditClear, library, syncVars
<1>4. FingerprintTells'
  BY SessionAssumption DEF MirrorInv, TypeOK, LeaderInv, SameInv, EditInv, FillInv, FingerprintTells, EditClear, library, syncVars
<1> QED
  BY <1>1, <1>2, <1>3, <1>4 DEF MirrorInv

LEMMA EditFillInv ==
  ASSUME MirrorInv, NEW e \in Editors, EditFill(e) PROVE MirrorInv'
<1>1. /\ entries' \in Seq(Entries) /\ epc' \in [Editors -> EditorStages]
      /\ plan' \in [Editors -> Seq(Tracks)] /\ added' \in [Editors -> Seq(Tracks)]
      /\ enext' \in [Editors -> Nat] /\ spoiled' \in BOOLEAN
  <2>1. PICK entry : entry = [song |-> plan[e][enext[e] + 1], pos |-> enext[e]]
    OBVIOUS
  <2>2. CASE /\ enext[e] < Len(plan[e]) /\ entries' = Append(entries, entry)
             /\ enext' = [enext EXCEPT ![e] = enext[e] + 1]
             /\ spoiled' = TRUE /\ UNCHANGED <<epc, plan, added>>
    <3>1. entry \in Entries
      BY <2>1, <2>2, ElementIn DEF MirrorInv, TypeOK, Entries
    <3> QED
      BY <2>2, <3>1, AppendEntry DEF MirrorInv, TypeOK
  <2>3. CASE EndEdit(e) /\ UNCHANGED <<entries, spoiled>>
    <3>1. entries' \in Seq(Entries) /\ spoiled' \in BOOLEAN
      BY <2>3 DEF MirrorInv, TypeOK
    <3> QED
      BY <2>3, <3>1, EndEditType DEF MirrorInv
  <2>4. CASE /\ epc' = [epc EXCEPT ![e] = "push"]
             /\ plan' = [plan EXCEPT ![e] = <<>>] /\ enext' = [enext EXCEPT ![e] = 0]
             /\ UNCHANGED <<entries, spoiled, added>>
    <3>1. <<>> \in Seq(Tracks) /\ "push" \in EditorStages
      BY DEF EditorStages
    <3> QED
      BY <2>4, <3>1 DEF MirrorInv, TypeOK
  <2> QED
    BY <2>1, <2>2, <2>3, <2>4 DEF EditFill
<1>2. TypeOK'
  BY <1>1 DEF MirrorInv, TypeOK, EditFill, library, syncVars
<1>3. spoiled' \/ (~spoiled /\ ~spoiled' /\ UNCHANGED entries)
  BY <1>1 DEF MirrorInv, TypeOK, EditFill
<1>4. \A f \in Editors : epc'[f] # "idle" => epc[f] # "idle"
  BY DEF MirrorInv, TypeOK, EditFill, EndEdit
<1>5. LeaderInv' /\ SameInv' /\ EditInv'
  BY <1>3, <1>4 DEF MirrorInv, LeaderInv, SameInv, EditInv, EditFill, library, syncVars
<1>6. FillInv' /\ FingerprintTells'
  BY <1>3 DEF MirrorInv, FillInv, FingerprintTells, EditFill, library, syncVars
<1> QED
  BY <1>2, <1>5, <1>6 DEF MirrorInv

LEMMA PushInv ==
  ASSUME MirrorInv, NEW e \in Editors, Push(e) PROVE MirrorInv'
<1>1. TypeOK'
  <2>1. /\ epc' \in [Editors -> EditorStages] /\ plan' \in [Editors -> Seq(Tracks)]
        /\ added' \in [Editors -> Seq(Tracks)] /\ enext' \in [Editors -> Nat]
    BY EndEditType DEF MirrorInv, Push
  <2>2. apple' \in Seq(Tracks)
    <3>1. apple \in Seq(Tracks) /\ added[e] \in Seq(Tracks)
      BY DEF MirrorInv, TypeOK
    <3> QED
      BY <3>1, ConcatProperties DEF Push
  <2> QED
    BY <2>1, <2>2 DEF MirrorInv, TypeOK, Push, tables, syncVars
<1>2. LeaderInv' /\ SameInv' /\ EditInv'
  BY SessionAssumption DEF MirrorInv, TypeOK, LeaderInv, SameInv, EditInv, Push, EndEdit, tables, syncVars
<1>3. FillInv'
  BY SessionAssumption DEF MirrorInv, TypeOK, LeaderInv, SameInv, EditInv, FillInv, Push, EndEdit, tables, syncVars
<1>4. FingerprintTells'
  BY SessionAssumption DEF MirrorInv, TypeOK, LeaderInv, SameInv, EditInv, FillInv, FingerprintTells, Push, EndEdit, tables, syncVars
<1> QED
  BY <1>1, <1>2, <1>3, <1>4 DEF MirrorInv

LEMMA DeleteEntriesInv ==
  ASSUME MirrorInv, NEW e \in Editors, DeleteEntries(e) PROVE MirrorInv'
<1>1. TypeOK'
  BY PrintAssumption DEF MirrorInv, TypeOK, Stages, EditorStages, DeleteEntries, library, syncVars
<1>2. LeaderInv' /\ SameInv' /\ EditInv'
  BY SessionAssumption DEF MirrorInv, TypeOK, LeaderInv, SameInv, EditInv, DeleteEntries, library, syncVars
<1>3. FillInv'
  BY SessionAssumption DEF MirrorInv, TypeOK, LeaderInv, SameInv, EditInv, FillInv, DeleteEntries, library, syncVars
<1>4. FingerprintTells'
  BY SessionAssumption DEF MirrorInv, TypeOK, LeaderInv, SameInv, EditInv, FillInv, FingerprintTells, DeleteEntries, library, syncVars
<1> QED
  BY <1>1, <1>2, <1>3, <1>4 DEF MirrorInv

LEMMA DeleteRowInv ==
  ASSUME MirrorInv, NEW e \in Editors, DeleteRow(e) PROVE MirrorInv'
<1>1. TypeOK'
  <2>1. /\ epc' \in [Editors -> EditorStages] /\ plan' \in [Editors -> Seq(Tracks)]
        /\ added' \in [Editors -> Seq(Tracks)] /\ enext' \in [Editors -> Nat]
    BY EndEditType DEF MirrorInv, DeleteRow
  <2> QED
    BY <2>1 DEF MirrorInv, TypeOK, EditInv, DeleteRow, library, syncVars
<1>2. LeaderInv' /\ SameInv' /\ EditInv'
  BY SessionAssumption DEF MirrorInv, TypeOK, LeaderInv, SameInv, EditInv, DeleteRow, EndEdit, library, syncVars
<1>3. FillInv'
  BY SessionAssumption DEF MirrorInv, TypeOK, LeaderInv, SameInv, EditInv, FillInv, DeleteRow, EndEdit, library, syncVars
<1>4. FingerprintTells'
  BY SessionAssumption DEF MirrorInv, TypeOK, LeaderInv, SameInv, EditInv, FillInv, FingerprintTells, DeleteRow, EndEdit, library, syncVars
<1> QED
  BY <1>1, <1>2, <1>3, <1>4 DEF MirrorInv

LEMMA EditStatementFailsInv ==
  ASSUME MirrorInv, NEW e \in Editors, EditStatementFails(e) PROVE MirrorInv'
<1>1. TypeOK'
  <2>1. /\ epc' \in [Editors -> EditorStages] /\ plan' \in [Editors -> Seq(Tracks)]
        /\ added' \in [Editors -> Seq(Tracks)] /\ enext' \in [Editors -> Nat]
    <3>1. CASE EndEdit(e)
      BY <3>1, EndEditType DEF MirrorInv
    <3>2. CASE /\ epc' = [epc EXCEPT ![e] = "fill"] /\ enext' = [enext EXCEPT ![e] = 0]
               /\ UNCHANGED <<plan, added>>
      BY <3>2 DEF MirrorInv, TypeOK, EditorStages
    <3>3. CASE enext' = [enext EXCEPT ![e] = enext[e] + 1] /\ UNCHANGED <<epc, plan, added>>
      BY <3>3 DEF MirrorInv, TypeOK
    <3>4. CASE epc' = [epc EXCEPT ![e] = "hide"] /\ UNCHANGED <<plan, added, enext>>
      BY <3>4 DEF MirrorInv, TypeOK, EditorStages
    <3> QED
      BY <3>1, <3>2, <3>3, <3>4 DEF EditStatementFails
  <2> QED
    BY <2>1, RefuseType DEF MirrorInv, TypeOK, EditStatementFails, library, tables, syncVars
<1>2. LeaderInv' /\ SameInv' /\ EditInv'
  BY SessionAssumption DEF MirrorInv, TypeOK, LeaderInv, SameInv, EditInv, EditStatementFails, EndEdit, library, tables, syncVars
<1>3. FillInv'
  BY SessionAssumption DEF MirrorInv, TypeOK, LeaderInv, SameInv, EditInv, FillInv, EditStatementFails, EndEdit, library, tables, syncVars
<1>4. FingerprintTells'
  BY SessionAssumption DEF MirrorInv, TypeOK, LeaderInv, SameInv, EditInv, FillInv, FingerprintTells, EditStatementFails, EndEdit, library, tables, syncVars
<1> QED
  BY <1>1, <1>2, <1>3, <1>4 DEF MirrorInv

-----------------------------------------------------------------------------
(* Apple, time and crashes *)

LEMMA ChangeOnAppleInv ==
  ASSUME MirrorInv, ChangeOnApple PROVE MirrorInv'
<1>1. TypeOK'
  <2>1. apple' \in Seq(Tracks)
    BY VersionAssumption DEF ChangeOnApple
  <2>2. versions' \in 0 .. MaxVersions
    BY BoundAssumption DEF MirrorInv, TypeOK, ChangeOnApple
  <2> QED
    BY <2>1, <2>2 DEF MirrorInv, TypeOK, ChangeOnApple, tables, syncVars, editorVars
<1>2. LeaderInv' /\ SameInv' /\ EditInv'
  BY SessionAssumption DEF MirrorInv, TypeOK, LeaderInv, SameInv, EditInv, ChangeOnApple, tables, syncVars, editorVars
<1>3. FillInv'
  BY SessionAssumption DEF MirrorInv, TypeOK, LeaderInv, SameInv, EditInv, FillInv, ChangeOnApple, tables, syncVars, editorVars
<1>4. FingerprintTells'
  BY SessionAssumption DEF MirrorInv, TypeOK, LeaderInv, SameInv, EditInv, FillInv, FingerprintTells, ChangeOnApple, tables, syncVars, editorVars
<1> QED
  BY <1>1, <1>2, <1>3, <1>4 DEF MirrorInv

LEMMA ExpireInv ==
  ASSUME MirrorInv, Expire PROVE MirrorInv'
<1>1. TypeOK'
  BY PrintAssumption DEF MirrorInv, TypeOK, Stages, EditorStages, Expire, library, tables, editorVars
<1>2. LeaderInv' /\ SameInv' /\ EditInv'
  BY SessionAssumption DEF MirrorInv, TypeOK, LeaderInv, SameInv, EditInv, Expire, library, tables, editorVars
<1>3. FillInv'
  BY SessionAssumption DEF MirrorInv, TypeOK, LeaderInv, SameInv, EditInv, FillInv, Expire, library, tables, editorVars
<1>4. FingerprintTells'
  BY SessionAssumption DEF MirrorInv, TypeOK, LeaderInv, SameInv, EditInv, FillInv, FingerprintTells, Expire, library, tables, editorVars
<1> QED
  BY <1>1, <1>2, <1>3, <1>4 DEF MirrorInv

LEMMA CrashInv ==
  ASSUME MirrorInv, Crash PROVE MirrorInv'
<1>1. TypeOK'
  <2>1. crashes' \in 0 .. MaxFaults /\ <<>> \in Seq(Tracks)
    BY BoundAssumption DEF MirrorInv, TypeOK, Crash, MayFault
  <2>2. /\ pc' \in [Sessions -> Stages] /\ snap' \in [Sessions -> Seq(Tracks)]
        /\ same' \in [Sessions -> BOOLEAN] /\ next' \in [Sessions -> Nat]
    BY <2>1 DEF Crash, Stages
  <2>3. /\ epc' \in [Editors -> EditorStages] /\ plan' \in [Editors -> Seq(Tracks)]
        /\ added' \in [Editors -> Seq(Tracks)] /\ enext' \in [Editors -> Nat]
    BY <2>1 DEF Crash, EditorStages
  <2> QED
    BY <2>1, <2>2, <2>3 DEF MirrorInv, TypeOK, Crash, library
<1>2. LeaderInv' /\ SameInv' /\ EditInv'
  BY SessionAssumption DEF MirrorInv, TypeOK, LeaderInv, SameInv, EditInv, Crash, library
<1>3. FillInv'
  BY SessionAssumption DEF MirrorInv, TypeOK, LeaderInv, SameInv, EditInv, FillInv, Crash, library
<1>4. FingerprintTells'
  BY SessionAssumption DEF MirrorInv, TypeOK, LeaderInv, SameInv, EditInv, FillInv, FingerprintTells, Crash, library
<1> QED
  BY <1>1, <1>2, <1>3, <1>4 DEF MirrorInv

-----------------------------------------------------------------------------
LEMMA StutterInv == ASSUME MirrorInv, UNCHANGED vars PROVE MirrorInv'
BY DEF vars, library, tables, syncVars, editorVars, MirrorInv, TypeOK, LeaderInv, SameInv, EditInv,
       FillInv, FingerprintTells

LEMMA NextInv == ASSUME MirrorInv, [Next]_vars PROVE MirrorInv'
<1>1. CASE \E s \in Sessions : GetPlaylists(s) \/ SyncStep(s) \/ QueryFails(s) \/ StatementFails(s)
  BY <1>1, GetPlaylistsInv, CheckTTLInv, GroupDoInv, FetchFailsInv, SkipTracksInv,
     FetchTracksInv, CompareInv, UpsertInv, ClearInv, FillStepInv, StampInv, LeaveGroupInv,
     QueryFailsInv, StatementFailsInv
  DEF SyncStep
<1>2. CASE \E e \in Editors :
             \/ UpdatePlaylist(e) \/ UpdatePlaylistSongs(e) \/ DeletePlaylist(e)
             \/ EditStep(e) \/ EditStatementFails(e)
  BY <1>2, UpdatePlaylistInv, UpdatePlaylistSongsInv, DeletePlaylistInv, EditClearInv,
     EditFillInv, PushInv, DeleteEntriesInv, DeleteRowInv, EditStatementFailsInv DEF EditStep
<1>3. CASE ChangeOnApple \/ Expire \/ Crash
  BY <1>3, ChangeOnAppleInv, ExpireInv, CrashInv
<1>4. CASE UNCHANGED vars
  BY <1>4, StutterInv
<1> QED
  BY <1>1, <1>2, <1>3, <1>4 DEF Next

\* Every reachable state of the mirror satisfies the inductive invariant, TypeOK
\* included.
THEOREM Invariant == Spec => []MirrorInv
BY InitInv, NextInv, PTL DEF Spec

\* The rows of the playlist, what a session fetched and what an editor read stay
\* of their types.
THEOREM TypeCorrect == Spec => []TypeOK
<1>1. MirrorInv => TypeOK
  BY DEF MirrorInv
<1> QED
  BY <1>1, Invariant, PTL

\* syncUserPlaylists may take an unchanged fingerprint for unchanged entries
\* (sync.go:320), for any library and any number of sessions, as long as no
\* crash, local edit or failed statement has come between the two.
THEOREM FingerprintIsTrue == Spec => []FingerprintTells
<1>1. MirrorInv => FingerprintTells
  BY DEF MirrorInv
<1> QED
  BY <1>1, Invariant, PTL

\* Never two syncs of one user at a time (sync.go:253).
THEOREM OneSync == Spec => []OneSyncAtATime
<1>1. MirrorInv => OneSyncAtATime
  BY DEF MirrorInv, LeaderInv, OneSyncAtATime
<1> QED
  BY <1>1, Invariant, PTL
=============================================================================
