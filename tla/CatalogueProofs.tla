-------------------------- MODULE CatalogueProofs --------------------------
(* Proofs about Catalogue, for any catalogue, any number of requests and any *)
(* size of the cache: what is still to be written by a request is well typed,*)
(* names the right artist, and comes after what it refers to; so do the rows,*)
(* the hints, the links and the stars.                                       *)
EXTENDS Catalogue, FiniteSetTheorems, SequenceTheorems, TLAPS

ArtistRow == [name : MayBe(Names), appleID : MayBe(AppleArtists), synced : BOOLEAN]
SongRow == [album : MayBe(Albums), path : BOOLEAN]
Hint == [name : Names, appleID : MayBe(AppleArtists), expired : BOOLEAN]
Items == Albums \cup Songs \cup ArtistIDs

Hints ==
  {w \in [op : {"hint"}, key : ArtistIDs, name : Names, appleID : MayBe(AppleArtists)] :
     Matches(w.key, w.appleID)}

Saves ==
  {w \in [op : {"save"}, id : ArtistIDs, name : MayBe(Names), appleID : MayBe(AppleArtists),
          relink : BOOLEAN, albums : SUBSET Albums] :
     Matches(w.id, w.appleID)}

\* What a request may have to write.
Statements ==
  [op : {"stub", "ref"}, name : MayBe(Names)] \cup [op : {"album"}, id : Albums] \cup
  [op : {"song", "create"}, id : Songs, album : MayBe(Albums)] \cup
  [op : {"artist"}, id : AppleArtists] \cup
  [op : {"star", "unstar"}, row : {"album", "artist", "song"} \X Items] \cup Hints \cup Saves

Stages == {"idle", "find", "hint", "group", "sync", "joined", "leave", "ask"}

ByName(id) == \E name \in Names : id = ArtistIDFromName(name)

\* What a request has still to write is well typed, and past findArtist it works
\* on an artist; on one known by its name when it asks for top songs.
Working ==
  /\ todo \in [Requests -> Seq(Statements)]
  /\ pc \in [Requests -> Stages]
  /\ task = [r \in Requests |-> task[r]]
  /\ \A r \in Requests :
       /\ pc[r] = "find" => task[r].of \in ArtistIDs
       /\ pc[r] \notin {"idle", "find"} => artist[r].id \in ArtistIDs
       /\ task[r].kind = "top" =>
            /\ pc[r] = "find" => ByName(task[r].of)
            /\ pc[r] \notin {"idle", "find"} => ByName(artist[r].id)

IInv == TypeOK /\ RightArtist /\ Working /\ IsFiniteSet(DOMAIN hints)

-----------------------------------------------------------------------------
(* The lists of statements *)

LEMMA SetElements ==
  ASSUME NEW S, IsFiniteSet(S)
  PROVE  /\ Cardinality(S) \in Nat
         /\ \A i \in 1 .. Cardinality(S) : SetToSeq(S)[i] \in S
<1>1. Cardinality(S) \in Nat /\ ExistsBijection(1 .. Cardinality(S), S)
  BY FS_CardinalityType
<1>2. \E f \in [1 .. Cardinality(S) -> S] : IsInjective(f)
  BY <1>1 DEF ExistsBijection, Bijection, Injection
<1>3. SetToSeq(S) \in [1 .. Cardinality(S) -> S]
  BY <1>2 DEF SetToSeq
<1> QED
  BY <1>1, <1>3

LEMMA FiniteParts ==
  /\ \A S \in SUBSET Albums : IsFiniteSet(S)
  /\ \A S \in SUBSET Songs : IsFiniteSet(S)
  /\ \A S \in SUBSET AppleArtists : IsFiniteSet(S)
  BY FiniteAssumption, FS_Subset

LEMMA OneIsFinite ==
  /\ \A b \in Albums : {b} \subseteq Albums
  /\ \A s \in Songs : {s} \subseteq Songs
  OBVIOUS

\* Lists of two statements for each element of a set.
LEMMA Halves ==
  ASSUME NEW n \in Nat, NEW i \in 1 .. 2 * n
  PROVE  (i + 1) \div 2 \in 1 .. n
  OBVIOUS

LEMMA Concat ==
  ASSUME NEW T, NEW s \in Seq(T), NEW t \in Seq(T)
  PROVE  s \o t \in Seq(T)
  OBVIOUS

LEMMA ListAlbums ==
  ASSUME NEW S \in SUBSET Albums
  PROVE  SyncAlbums(S) \in Seq(Statements)
<1>1. Cardinality(S) \in Nat /\ \A i \in 1 .. Cardinality(S) : SetToSeq(S)[i] \in Albums
  BY FiniteParts, SetElements
<1>2. \A b \in Albums : Credit[b] \in MayBe(Names)
  BY AppleAssumption
<1>3. \A b \in Albums : /\ [op |-> "stub", name |-> Credit[b]] \in Statements
                        /\ [op |-> "album", id |-> b] \in Statements
  BY <1>2 DEF Statements
<1>4. \A i \in 1 .. 2 * Cardinality(S) : SetToSeq(S)[(i + 1) \div 2] \in Albums
  BY <1>1, Halves
<1>5. 2 * Cardinality(S) \in Nat
  BY <1>1
<1>6. ASSUME NEW i \in 1 .. 2 * Cardinality(S) PROVE SyncAlbums(S)[i] \in Statements
  <2>1. CASE i % 2 = 1
    BY <1>3, <1>4, <2>1 DEF SyncAlbums
  <2>2. CASE i % 2 # 1
    BY <1>3, <1>4, <2>2 DEF SyncAlbums
  <2> QED
    BY <2>1, <2>2
<1>7. SyncAlbums(S) = [i \in 1 .. 2 * Cardinality(S) |-> SyncAlbums(S)[i]]
  BY DEF SyncAlbums
<1> QED
  BY <1>5, <1>6, <1>7

LEMMA ListSongs ==
  ASSUME NEW S \in SUBSET Songs, NEW related \in BOOLEAN
  PROVE  SyncSongs(S, related) \in Seq(Statements)
<1>1. Cardinality(S) \in Nat /\ \A i \in 1 .. Cardinality(S) : SetToSeq(S)[i] \in Songs
  BY FiniteParts, SetElements
<1>2. \A s \in Songs : (IF related THEN AlbumOf[s] ELSE None) \in MayBe(Albums)
  BY AppleAssumption DEF MayBe
<1>3. \A s \in Songs, album \in MayBe(Albums) :
        [op |-> "song", id |-> s, album |-> album] \in Statements
  BY DEF Statements
<1> QED
  BY <1>1, <1>2, <1>3 DEF SyncSongs

LEMMA ListAlbum ==
  ASSUME NEW b \in Albums, NEW tracks \in SUBSET Songs
  PROVE  SyncAlbum(b, tracks) \in Seq(Statements)
<1>1. SyncAlbums({b}) \in Seq(Statements)
  BY ListAlbums, OneIsFinite
<1>2. SyncSongs(tracks, TRUE) \in Seq(Statements)
  BY ListSongs
<1> QED
  BY <1>1, <1>2, Concat DEF SyncAlbum

LEMMA ListArtists ==
  ASSUME NEW S \in SUBSET AppleArtists
  PROVE  SyncArtists(S) \in Seq(Statements)
<1>1. Cardinality(S) \in Nat /\ \A i \in 1 .. Cardinality(S) : SetToSeq(S)[i] \in AppleArtists
  BY FiniteParts, SetElements
<1>2. \A a \in AppleArtists : [op |-> "artist", id |-> a] \in Statements
  BY DEF Statements
<1> QED
  BY <1>1, <1>2 DEF SyncArtists

LEMMA OneHint ==
  ASSUME NEW key \in ArtistIDs, NEW name \in Names, NEW appleID \in MayBe(AppleArtists),
         Matches(key, appleID)
  PROVE  [op |-> "hint", key |-> key, name |-> name, appleID |-> appleID] \in Statements
  BY DEF Statements, Hints

LEMMA ListHints ==
  ASSUME NEW S \in SUBSET AppleArtists
  PROVE  Remember(S) \in Seq(Statements)
<1>1. Cardinality(S) \in Nat /\ \A i \in 1 .. Cardinality(S) : SetToSeq(S)[i] \in AppleArtists
  BY FiniteParts, SetElements
<1>2. ASSUME NEW a \in AppleArtists, NEW key \in {a, ArtistIDFromName(NameOf[a])}
      PROVE  HintFor(a, key) \in Statements
  <2>1. NameOf[a] \in Names /\ key \in ArtistIDs /\ Matches(key, a)
    BY AppleAssumption DEF ArtistIDs, Matches
  <2> QED
    BY <2>1, OneHint DEF HintFor, MayBe
<1>3. \A i \in 1 .. 2 * Cardinality(S) : SetToSeq(S)[(i + 1) \div 2] \in AppleArtists
  BY <1>1, Halves
<1>4. 2 * Cardinality(S) \in Nat
  BY <1>1
<1> QED
  BY <1>2, <1>3, <1>4 DEF Remember

LEMMA ListRefs ==
  ASSUME NEW S, S \subseteq Albums \/ S \subseteq Songs
  PROVE  ArtistRefs(S) \in Seq(Statements)
<1>1. Cardinality(S) \in Nat /\ \A i \in 1 .. Cardinality(S) : SetToSeq(S)[i] \in Albums \cup Songs
  BY FiniteParts, SetElements
<1>2. \A x \in Albums \cup Songs : Credit[x] \in MayBe(Names)
  BY AppleAssumption
<1>3. \A n \in MayBe(Names) : [op |-> "ref", name |-> n] \in Statements
  BY DEF Statements
<1> QED
  BY <1>1, <1>2, <1>3 DEF ArtistRefs

-----------------------------------------------------------------------------
(* Rows and hints *)

\* TypeOK with the rows' names.
Typed ==
  /\ DOMAIN artists \subseteq ArtistIDs /\ artists \in [DOMAIN artists -> ArtistRow]
  /\ albums \subseteq Albums
  /\ DOMAIN songs \subseteq Songs /\ songs \in [DOMAIN songs -> SongRow]
  /\ links \subseteq Albums \X ArtistIDs
  /\ DOMAIN hints \subseteq ArtistIDs /\ hints \in [DOMAIN hints -> Hint]
  /\ Cardinality(DOMAIN hints) <= HintsMax
  /\ flight \in [ArtistIDs -> MayBe(Requests)]
  /\ artist \in [Requests -> Artist]
  /\ syncOnSearch \in BOOLEAN /\ begun \in 0 .. MaxRequests

LEMMA TypedIsTypeOK == TypeOK <=> Typed
  BY Zenon DEF TypeOK, Typed, ArtistRow, SongRow, Hint

\* set keeps the cache within its limit, typed and right.
LEMMA SetKeeps ==
  ASSUME Typed, IsFiniteSet(DOMAIN hints), RightArtist,
         NEW key \in ArtistIDs, NEW hint \in Hint, Matches(key, hint.appleID),
         NEW new, new = AfterSet(key, hint)
  PROVE  /\ DOMAIN new \subseteq ArtistIDs /\ new \in [DOMAIN new -> Hint]
         /\ IsFiniteSet(DOMAIN new) /\ Cardinality(DOMAIN new) <= HintsMax
         /\ \A k \in DOMAIN new : Matches(k, new[k].appleID)
<1> DEFINE live == {k \in DOMAIN hints : ~hints[k].expired}
           full == key \notin DOMAIN hints /\ Cardinality(DOMAIN hints) >= HintsMax
           kept == IF ~full THEN DOMAIN hints ELSE IF Cardinality(live) >= HintsMax THEN {} ELSE live
           old == [k \in kept |-> hints[k]]
<1>1. new = With(old, key, hint)
  BY DEF AfterSet
<1>2. kept \subseteq DOMAIN hints /\ DOMAIN old = kept /\ \A k \in kept : old[k] = hints[k]
  OBVIOUS
<1>3. old \in [DOMAIN old -> Hint] /\ DOMAIN old \subseteq ArtistIDs
  BY <1>2 DEF Typed
<1>4. /\ DOMAIN new = kept \cup {key} /\ DOMAIN new \subseteq ArtistIDs
      /\ new \in [DOMAIN new -> Hint]
      /\ new[key] = hint /\ \A k \in kept \ {key} : new[k] = hints[k]
  <2> HIDE DEF kept, old
  <2> QED
    BY <1>1, <1>2, <1>3 DEF With
<1>5. IsFiniteSet(kept) /\ Cardinality(kept) \in Nat /\ Cardinality(kept) <= Cardinality(DOMAIN hints)
  BY <1>2, FS_Subset, FS_CardinalityType
<1>6. HintsMax \in Nat /\ HintsMax > 0 /\ Cardinality({}) = 0 /\ Cardinality(DOMAIN hints) \in Nat
      /\ Cardinality(DOMAIN hints) <= HintsMax
  BY LimitAssumption, FS_EmptySet, FS_CardinalityType DEF Typed
<1>7. Cardinality(kept) < HintsMax \/ key \in kept
  <2>1. CASE full
    <3>1. CASE Cardinality(live) >= HintsMax
      BY <1>6, <2>1, <3>1
    <3>2. CASE ~(Cardinality(live) >= HintsMax)
      <4>1. Cardinality(live) \in Nat
        BY FS_Subset, FS_CardinalityType
      <4> QED
        BY <1>6, <2>1, <3>2, <4>1
    <3> QED
      BY <3>1, <3>2
  <2>2. CASE ~full
    BY <1>6, <2>2
  <2> QED
    BY <2>1, <2>2
<1>8. IsFiniteSet(DOMAIN new) /\ Cardinality(DOMAIN new) <= HintsMax
  <2> HIDE DEF kept
  <2>1. /\ IsFiniteSet(kept \cup {key})
        /\ Cardinality(kept \cup {key}) = IF key \in kept THEN Cardinality(kept) ELSE Cardinality(kept) + 1
    BY <1>5, FS_AddElement
  <2> QED
    BY <1>4, <1>5, <1>6, <1>7, <2>1
<1>9. ASSUME NEW k \in DOMAIN new PROVE Matches(k, new[k].appleID)
  <2>1. k = key \/ (k \in DOMAIN hints /\ new[k] = hints[k])
    BY <1>2, <1>4
  <2> QED
    BY <1>4, <2>1 DEF RightArtist
<1> QED
  BY <1>4, <1>8, <1>9

\* get only drops an entry.
LEMMA GetKeeps ==
  ASSUME Typed, IsFiniteSet(DOMAIN hints), RightArtist, NEW key, NEW new, new = AfterGet(key)
  PROVE  /\ DOMAIN new \subseteq ArtistIDs /\ new \in [DOMAIN new -> Hint]
         /\ IsFiniteSet(DOMAIN new) /\ Cardinality(DOMAIN new) <= HintsMax
         /\ \A k \in DOMAIN new : Matches(k, new[k].appleID)
<1>1. DOMAIN new \subseteq DOMAIN hints /\ \A k \in DOMAIN new : new[k] = hints[k]
  BY DEF AfterGet
<1>2. new = [k \in DOMAIN new |-> new[k]]
  BY DEF AfterGet, Typed
<1>3. IsFiniteSet(DOMAIN new) /\ Cardinality(DOMAIN new) <= Cardinality(DOMAIN hints)
  BY <1>1, FS_Subset
<1>4. Cardinality(DOMAIN new) \in Nat /\ Cardinality(DOMAIN hints) \in Nat /\ HintsMax \in Nat
  BY <1>3, FS_CardinalityType, LimitAssumption
<1> QED
  BY <1>1, <1>2, <1>3, <1>4 DEF Typed, RightArtist

-----------------------------------------------------------------------------
(* One statement *)

LEMMA StatementTypes ==
  ASSUME NEW w \in Statements
  PROVE  /\ w.op \in {"stub", "ref"} => w.name \in MayBe(Names)
         /\ w.op = "album" => w.id \in Albums
         /\ w.op \in {"song", "create"} => w.id \in Songs /\ w.album \in MayBe(Albums)
         /\ w.op = "artist" => w.id \in AppleArtists
         /\ w.op = "hint" => /\ w.key \in ArtistIDs /\ w.name \in Names
                             /\ w.appleID \in MayBe(AppleArtists) /\ Matches(w.key, w.appleID)
         /\ w.op = "save" => /\ w.id \in ArtistIDs /\ w.name \in MayBe(Names)
                             /\ w.appleID \in MayBe(AppleArtists) /\ Matches(w.id, w.appleID)
                             /\ w.albums \subseteq Albums
  BY DEF Statements, Hints, Saves

LEMMA NameIDs == \A name \in Names : ArtistIDFromName(name) \in ArtistIDs
  BY DEF ArtistIDs

LEMMA ArtistsKeep ==
  ASSUME Typed, RightArtist, NEW w \in Statements, Execute(w)
  PROVE  /\ DOMAIN artists' \subseteq ArtistIDs /\ artists' \in [DOMAIN artists' -> ArtistRow]
         /\ \A id \in DOMAIN artists' : Matches(id, artists'[id].appleID)
<1>0. artists \in [DOMAIN artists -> ArtistRow] /\ DOMAIN artists \subseteq ArtistIDs
      /\ \A id \in DOMAIN artists : Matches(id, artists[id].appleID)
  BY DEF Typed, RightArtist
<1>1. ASSUME NEW id \in ArtistIDs, NEW u \in ArtistRow, Matches(id, u.appleID),
             artists' = With(artists, id, u)
      PROVE  /\ DOMAIN artists' \subseteq ArtistIDs /\ artists' \in [DOMAIN artists' -> ArtistRow]
             /\ \A a \in DOMAIN artists' : Matches(a, artists'[a].appleID)
  BY <1>0, <1>1 DEF With
<1>2. CASE w.op = "stub" /\ w.name # None /\ ArtistIDFromName(w.name) \notin DOMAIN artists
  <2>1. artists' = With(artists, ArtistIDFromName(w.name), NewArtist(w.name, None))
    BY <1>2 DEF Execute
  <2>2. w.name \in Names
    BY <1>2, StatementTypes DEF MayBe
  <2>3. NewArtist(w.name, None) \in ArtistRow /\ NewArtist(w.name, None).appleID = None
    BY <2>2 DEF NewArtist, ArtistRow, MayBe
  <2> QED
    BY <1>1, <2>1, <2>2, <2>3, NameIDs DEF Matches
<1>3. CASE w.op = "artist" /\ w.id \in DOMAIN artists
  <2>1. artists' = [artists EXCEPT ![w.id].name = NameOf[w.id], ![w.id].appleID = w.id]
    BY <1>3 DEF Execute
  <2>2. w.id \in AppleArtists /\ NameOf[w.id] \in Names
    BY <1>3, StatementTypes, AppleAssumption
  <2>3. DOMAIN artists' = DOMAIN artists /\ artists' \in [DOMAIN artists' -> ArtistRow]
    BY <1>0, <2>1, <2>2 DEF ArtistRow, MayBe
  <2>4. \A id \in DOMAIN artists : artists'[id].appleID \in {artists[id].appleID, id}
    BY <1>0, <2>1 DEF ArtistRow
  <2> QED
    BY <1>0, <2>3, <2>4 DEF Matches
<1>4. CASE w.op = "artist" /\ w.id \notin DOMAIN artists
  <2>1. artists' = With(artists, w.id, NewArtist(NameOf[w.id], w.id))
    BY <1>4 DEF Execute
  <2>2. w.id \in AppleArtists /\ NameOf[w.id] \in Names /\ w.id \in ArtistIDs
    BY <1>4, StatementTypes, AppleAssumption DEF ArtistIDs
  <2>3. NewArtist(NameOf[w.id], w.id) \in ArtistRow /\ NewArtist(NameOf[w.id], w.id).appleID = w.id
    BY <2>2 DEF NewArtist, ArtistRow, MayBe
  <2> QED
    BY <1>1, <2>1, <2>2, <2>3 DEF Matches
<1>5. CASE w.op = "save"
  <2> DEFINE u == [name |-> w.name, appleID |-> w.appleID, synced |-> TRUE]
  <2>1. artists' = With(artists, w.id, u)
    BY <1>5 DEF Execute
  <2>2. u \in ArtistRow /\ u.appleID = w.appleID
    BY <1>5, StatementTypes DEF ArtistRow
  <2> HIDE DEF u
  <2> QED
    BY <1>1, <1>5, <2>1, <2>2, StatementTypes
<1>6. CASE artists' = artists
  BY <1>0, <1>6
<1> QED
  BY <1>2, <1>3, <1>4, <1>5, <1>6 DEF Execute

LEMMA SongsKeep ==
  ASSUME Typed, NEW w \in Statements, Execute(w)
  PROVE  /\ DOMAIN songs' \subseteq Songs /\ songs' \in [DOMAIN songs' -> SongRow]
         /\ NothingForgotten
<1>0. songs \in [DOMAIN songs -> SongRow] /\ DOMAIN songs \subseteq Songs
  BY DEF Typed
<1>1. CASE w.op = "song" /\ w.id \in DOMAIN songs
  <2> DEFINE u == [songs[w.id] EXCEPT !.album = IF w.album = None THEN @ ELSE w.album]
  <2>1. songs' = With(songs, w.id, u)
    BY <1>1 DEF Execute, UpdateSong
  <2>2. w.id \in Songs /\ w.album \in MayBe(Albums)
    BY <1>1, StatementTypes
  <2>3. /\ u \in SongRow /\ u.path = songs[w.id].path
        /\ songs[w.id].album # None => u.album # None
    BY <1>0, <1>1, <2>2 DEF SongRow
  <2> HIDE DEF u
  <2>4. /\ DOMAIN songs' = DOMAIN songs \cup {w.id} /\ songs' \in [DOMAIN songs' -> SongRow]
        /\ songs'[w.id] = u /\ \A s \in DOMAIN songs \ {w.id} : songs'[s] = songs[s]
    BY <1>0, <1>1, <2>1, <2>2, <2>3 DEF With
  <2> QED
    BY <1>0, <1>1, <2>2, <2>3, <2>4 DEF NothingForgotten
<1>2. CASE w.op = "create" /\ w.id \notin DOMAIN songs
  <2> DEFINE u == [album |-> w.album, path |-> FALSE]
  <2>1. songs' = With(songs, w.id, u)
    BY <1>2 DEF Execute
  <2>2. w.id \in Songs /\ u \in SongRow
    BY <1>2, StatementTypes DEF SongRow
  <2> HIDE DEF u
  <2>3. /\ DOMAIN songs' = DOMAIN songs \cup {w.id} /\ songs' \in [DOMAIN songs' -> SongRow]
        /\ \A s \in DOMAIN songs \ {w.id} : songs'[s] = songs[s]
    BY <1>0, <2>1, <2>2 DEF With
  <2> QED
    BY <1>0, <1>2, <2>2, <2>3 DEF NothingForgotten
<1>3. CASE songs' = songs
  BY <1>0, <1>3 DEF NothingForgotten
<1> QED
  BY <1>1, <1>2, <1>3 DEF Execute

LEMMA HintsKeep ==
  ASSUME Typed, IsFiniteSet(DOMAIN hints), RightArtist, NEW w \in Statements, Execute(w)
  PROVE  /\ DOMAIN hints' \subseteq ArtistIDs /\ hints' \in [DOMAIN hints' -> Hint]
         /\ IsFiniteSet(DOMAIN hints') /\ Cardinality(DOMAIN hints') <= HintsMax
         /\ \A k \in DOMAIN hints' : Matches(k, hints'[k].appleID)
<1>1. CASE w.op = "hint"
  <2> DEFINE hint == [name |-> w.name, appleID |-> w.appleID, expired |-> FALSE]
  <2>1. hints' = AfterSet(w.key, hint)
    BY <1>1 DEF Execute
  <2>2. hint \in Hint /\ hint.appleID = w.appleID /\ w.key \in ArtistIDs /\ Matches(w.key, w.appleID)
    BY <1>1, StatementTypes DEF Hint
  <2> HIDE DEF hint
  <2> QED
    BY <2>1, <2>2, SetKeeps
<1>2. CASE w.op = "ref"
  <2>1. hints' = AfterGet(ArtistIDFromName(w.name))
    BY <1>2 DEF Execute
  <2> QED
    BY <2>1, GetKeeps
<1>3. CASE hints' = hints
  BY <1>3 DEF Typed, RightArtist
<1> QED
  BY <1>1, <1>2, <1>3 DEF Execute

LEMMA ThenList ==
  ASSUME NEW w \in Statements
  PROVE  Then(w) \in Seq(Statements)
<1>1. CASE w.op = "song" /\ w.id \notin DOMAIN songs
  <2>1. [w EXCEPT !.op = "create"] \in Statements
    BY <1>1 DEF Statements, Hints, Saves
  <2> QED
    BY <1>1, <2>1 DEF Then
<1>2. CASE w.op = "ref" /\ w.name # None /\ ~Known(ArtistIDFromName(w.name))
  <2>1. w.name \in Names /\ ArtistIDFromName(w.name) \in ArtistIDs
    BY <1>2, StatementTypes, NameIDs DEF MayBe
  <2>2. [op |-> "hint", key |-> ArtistIDFromName(w.name), name |-> w.name, appleID |-> None] \in Statements
    BY <2>1, OneHint DEF MayBe, Matches
  <2> QED
    BY <1>2, <2>2 DEF Then
<1>3. CASE Then(w) = <<>>
  BY <1>3
<1> QED
  BY <1>1, <1>2, <1>3 DEF Then

Good == Typed /\ RightArtist /\ Working /\ IsFiniteSet(DOMAIN hints)

LEMMA GoodIsIInv == Good <=> IInv
  BY TypedIsTypeOK DEF Good, IInv

LEMMA WriteKeeps ==
  ASSUME Good, NEW r \in Requests, Write(r)
  PROVE  Good' /\ NothingForgotten
<1> DEFINE w == Head(todo[r])
<1>1. todo[r] \in Seq(Statements) /\ w \in Statements /\ Tail(todo[r]) \in Seq(Statements)
  BY DEF Good, Working, Write
<1>2. Execute(w) /\ todo' = [todo EXCEPT ![r] = Then(w) \o Tail(todo[r])]
  BY DEF Write
<1>3. Then(w) \o Tail(todo[r]) \in Seq(Statements)
  BY <1>1, ThenList, Concat
<1> HIDE DEF w
<1>4. albums' \subseteq Albums /\ links' \subseteq Albums \X ArtistIDs
  <2>1. albums \subseteq Albums /\ links \subseteq Albums \X ArtistIDs
    BY DEF Good, Typed
  <2>2. CASE w.op = "album"
    BY <1>1, <1>2, <2>1, <2>2, StatementTypes DEF Execute
  <2>3. CASE w.op = "save"
    <3>1. w.id \in ArtistIDs /\ w.albums \subseteq Albums
      BY <1>1, <2>3, StatementTypes
    <3> QED
      BY <1>2, <2>1, <2>3, <3>1 DEF Execute
  <2>4. CASE w.op \notin {"album", "save"}
    BY <1>2, <2>1, <2>4 DEF Execute
  <2> QED
    BY <2>2, <2>3, <2>4
<1>5. UNCHANGED <<flight, syncOnSearch, begun, pc, task, artist>>
  BY DEF Write
<1>6. Typed'
  BY <1>1, <1>2, <1>4, <1>5, ArtistsKeep, SongsKeep, HintsKeep DEF Good, Typed
<1>7. RightArtist'
  BY <1>1, <1>2, <1>5, ArtistsKeep, HintsKeep DEF Good, RightArtist
<1>8. Working'
  BY <1>2, <1>3, <1>5 DEF Good, Working
<1>9. IsFiniteSet(DOMAIN hints') /\ NothingForgotten
  BY <1>1, <1>2, SongsKeep, HintsKeep DEF Good
<1> QED
  BY <1>6, <1>7, <1>8, <1>9 DEF Good

-----------------------------------------------------------------------------
(* Requests *)

\* A step that writes no row of the tables that matter here, and no hint.
LEMMA RowsStay ==
  ASSUME Good, UNCHANGED <<artists, albums, songs, links, hints>>,
         flight' \in [ArtistIDs -> MayBe(Requests)], artist' \in [Requests -> Artist],
         \A r \in Requests : Matches(artist'[r].id, artist'[r].appleID),
         UNCHANGED syncOnSearch, begun' \in 0 .. MaxRequests, Working'
  PROVE  Good' /\ NothingForgotten
<1>1. Typed' /\ RightArtist'
  BY DEF Good, Typed, RightArtist
<1>2. NothingForgotten
  BY DEF NothingForgotten
<1> QED
  BY <1>1, <1>2 DEF Good

\* A request begins that only has a list to write.
LEMMA BeginKeeps ==
  ASSUME Good, NEW r \in Requests, Begin(r), NEW l \in Seq(Statements),
         todo' = [todo EXCEPT ![r] = l],
         UNCHANGED <<artists, albums, songs, links, hints, flight, syncOnSearch, pc, task, artist>>
  PROVE  Good' /\ NothingForgotten
<1>1. begun' \in 0 .. MaxRequests
  BY LimitAssumption DEF Good, Typed, Begin
<1>2. Working'
  BY DEF Good, Working, Begin
<1>3. artist \in [Requests -> Artist] /\ flight \in [ArtistIDs -> MayBe(Requests)]
      /\ \A q \in Requests : Matches(artist[q].id, artist[q].appleID)
  BY DEF Good, Typed, RightArtist
<1> QED
  BY <1>1, <1>2, <1>3, RowsStay

LEMMA SearchKeeps ==
  ASSUME Good, NEW r \in Requests, NEW A \in SUBSET Albums, NEW S \in SUBSET Songs, NEW B \in Answers,
         NEW shown \in SUBSET B, Search(r, [albums |-> A, songs |-> S, artists |-> B], shown)
  PROVE  Good' /\ NothingForgotten
<1> DEFINE found == [albums |-> A, songs |-> S, artists |-> B]
           l == Remember(shown) \o
                  IF syncOnSearch THEN SyncSearchResults(found) ELSE ArtistRefs(A) \o ArtistRefs(S)
<1>1. Begin(r) /\ todo' = [todo EXCEPT ![r] = l]
      /\ UNCHANGED <<artists, albums, songs, links, hints, flight, syncOnSearch, pc, task, artist>>
  BY DEF Search, shared, tables
<1>2. B \subseteq AppleArtists /\ shown \subseteq AppleArtists
  BY DEF Answers
<1>3. SyncSearchResults(found) = SyncAlbums(A) \o SyncSongs(S, TRUE) \o SyncArtists(B)
  BY DEF SyncSearchResults
<1>4. SyncSearchResults(found) \in Seq(Statements)
  <2>1. SyncAlbums(A) \in Seq(Statements) /\ SyncArtists(B) \in Seq(Statements)
    BY <1>2, ListAlbums, ListArtists
  <2>2. SyncSongs(S, TRUE) \in Seq(Statements)
    BY ListSongs
  <2>3. SyncAlbums(A) \o SyncSongs(S, TRUE) \in Seq(Statements)
    BY <2>1, <2>2, Concat
  <2> QED
    BY <1>3, <2>1, <2>3, Concat
<1>5. ArtistRefs(A) \o ArtistRefs(S) \in Seq(Statements)
  BY ListRefs, Concat
<1>6. l \in Seq(Statements)
  BY <1>2, <1>4, <1>5, ListHints, Concat
<1> HIDE DEF l
<1> QED
  BY <1>1, <1>6, BeginKeeps

LEMMA AlbumOrSongKeeps ==
  ASSUME Good, NEW r \in Requests,
         (\E b \in Albums : GetAlbum(r, b)) \/ (\E s \in Songs : GetSong(r, s))
  PROVE  Good' /\ NothingForgotten
<1>1. ASSUME NEW b \in Albums, GetAlbum(r, b) PROVE Good' /\ NothingForgotten
  <2>1. PICK tracks \in SUBSET TracksOf(b) : todo' = [todo EXCEPT ![r] = SyncAlbum(b, tracks)]
    BY <1>1 DEF GetAlbum
  <2>2. Begin(r)
        /\ UNCHANGED <<artists, albums, songs, links, hints, flight, syncOnSearch, pc, task, artist>>
    BY <1>1 DEF GetAlbum, shared, tables
  <2>3. SyncAlbum(b, tracks) \in Seq(Statements)
    BY ListAlbum DEF TracksOf
  <2> QED
    BY <2>1, <2>2, <2>3, BeginKeeps
<1>2. ASSUME NEW s \in Songs, GetSong(r, s) PROVE Good' /\ NothingForgotten
  <2>1. Begin(r) /\ todo' = [todo EXCEPT ![r] = LoadSong(s)]
        /\ UNCHANGED <<artists, albums, songs, links, hints, flight, syncOnSearch, pc, task, artist>>
    BY <1>2 DEF GetSong, shared, tables
  <2>2. LoadSong(s) \in Seq(Statements)
    BY ListSongs, OneIsFinite DEF LoadSong
  <2> QED
    BY <2>1, <2>2, BeginKeeps
<1> QED
  BY <1>1, <1>2

\* Only an album is starred as an album.
LEMMA AlbumTypes ==
  ASSUME Typed, NEW item, NEW type \in Types(item)
  PROVE  type \in {"album", "artist", "song"} /\ (type = "album" => item \in Albums)
<1>1. CASE type \in InferType(item)
  <2>1. PICK album \in Reads(Stored("album", item)), song \in Reads(Stored("song", item)),
             byArtist \in Reads(Stored("artist", item)) :
          type = CASE album -> "album" [] ~album /\ ~song /\ byArtist -> "artist" [] OTHER -> "song"
    BY <1>1 DEF InferType
  <2>2. album \in BOOLEAN /\ song \in BOOLEAN /\ byArtist \in BOOLEAN
        /\ (album => item \in albums)
    BY DEF Reads, Stored
  <2>3. type = "album" => album
    BY <2>1, <2>2
  <2>4. type \in {"album", "artist", "song"}
    BY <2>1, <2>2
  <2> QED
    BY <2>2, <2>3, <2>4 DEF Typed
<1>2. CASE type \notin InferType(item)
  BY <1>2 DEF Types
<1> QED
  BY <1>1, <1>2

LEMMA StarKeeps ==
  ASSUME Good, NEW r \in Requests, NEW item \in Items, NEW type \in Types(item),
         Star(r, type, item) \/ Unstar(r, type, item)
  PROVE  Good' /\ NothingForgotten
<1>1. type \in {"album", "artist", "song"} /\ (type = "album" => item \in Albums)
  BY AlbumTypes DEF Good
<1>2. ASSUME NEW op \in {"star", "unstar"}
      PROVE  <<[op |-> op, row |-> <<type, item>>]>> \in Seq(Statements)
  <2>1. [op |-> op, row |-> <<type, item>>] \in Statements
    BY <1>1 DEF Statements
  <2> QED
    BY <2>1
<1>3. CASE Unstar(r, type, item)
  <2>1. Begin(r)
        /\ todo' = [todo EXCEPT ![r] = <<[op |-> "unstar", row |-> <<type, item>>]>>]
        /\ UNCHANGED <<artists, albums, songs, links, hints, flight, syncOnSearch, pc, task, artist>>
    BY <1>3 DEF Unstar, shared, tables
  <2> QED
    BY <1>2, <2>1, BeginKeeps
<1>4. CASE Star(r, type, item)
  <2> DEFINE row == <<[op |-> "star", row |-> <<type, item>>]>>
  <2>1. Begin(r)
        /\ UNCHANGED <<artists, albums, songs, links, hints, flight, syncOnSearch, pc, task, artist>>
    BY <1>4 DEF Star
  <2>2. row \in Seq(Statements)
    BY <1>2
  <2>3. CASE todo' = [todo EXCEPT ![r] = row]
    <3> HIDE DEF row
    <3> QED
      BY <2>1, <2>2, <2>3, BeginKeeps
  <2>4. CASE item \in Songs /\ todo' = [todo EXCEPT ![r] = LoadSong(item) \o row]
    <3> HIDE DEF row
    <3>1. LoadSong(item) \in Seq(Statements)
      BY <2>4, ListSongs, OneIsFinite DEF LoadSong
    <3>2. LoadSong(item) \o row \in Seq(Statements)
      BY <2>2, <3>1, Concat
    <3> QED
      BY <2>1, <2>4, <3>2, BeginKeeps
  <2>5. CASE /\ type = "album"
             /\ \E tracks \in SUBSET TracksOf(item) :
                  todo' = [todo EXCEPT ![r] = SyncAlbum(item, tracks) \o row]
    <3> HIDE DEF row
    <3>1. PICK tracks \in SUBSET TracksOf(item) :
            todo' = [todo EXCEPT ![r] = SyncAlbum(item, tracks) \o row]
      BY <2>5
    <3>2. SyncAlbum(item, tracks) \in Seq(Statements)
      BY <1>1, <2>5, ListAlbum DEF TracksOf
    <3>3. SyncAlbum(item, tracks) \o row \in Seq(Statements)
      BY <2>2, <3>2, Concat
    <3> QED
      BY <2>1, <3>1, <3>3, BeginKeeps
  <2> QED
    BY <1>4, <2>3, <2>4, <2>5, Zenon DEF Star
<1> QED
  BY <1>3, <1>4

LEMMA AskArtistKeeps ==
  ASSUME Good, NEW r \in Requests, NEW kind, NEW id \in ArtistIDs, AskArtist(r, kind, id),
         kind = "top" => ByName(id)
  PROVE  Good' /\ NothingForgotten
<1>1. begun' \in 0 .. MaxRequests
  BY LimitAssumption DEF Good, Typed, AskArtist, Begin
<1>2. /\ UNCHANGED <<artists, albums, songs, links, hints, flight, syncOnSearch, artist, todo>>
      /\ pc' = [pc EXCEPT ![r] = "find"]
      /\ task' = [task EXCEPT ![r] = [kind |-> kind, of |-> id]]
  BY DEF AskArtist, Begin, Goto, shared, tables
<1>3. Working'
  <2> HIDE DEF ByName
  <2> QED
    BY <1>2 DEF Good, Working, Stages
<1>4. artist \in [Requests -> Artist] /\ flight \in [ArtistIDs -> MayBe(Requests)]
      /\ \A q \in Requests : Matches(artist[q].id, artist[q].appleID)
  BY DEF Good, Typed, RightArtist
<1> QED
  BY <1>1, <1>2, <1>3, <1>4, RowsStay

-----------------------------------------------------------------------------
(* findArtist and the sync *)

LEMMA FindRowKeeps ==
  ASSUME Good, NEW r \in Requests, FindRow(r)
  PROVE  Good' /\ NothingForgotten
<1> DEFINE id == task[r].of
           sung == {s \in DOMAIN songs : ArtistIDFromName(Credit[s]) = id}
           row == [id |-> id, name |-> artists[id].name, appleID |-> artists[id].appleID,
                   synced |-> artists[id].synced]
           Sung(heard) == [NoArtist EXCEPT !.id = id,
                              !.name = IF heard THEN Credit[CHOOSE s \in sung : TRUE] ELSE None]
<1>1. pc' = [pc EXCEPT ![r] = "hint"] /\ pc[r] = "find"
      /\ UNCHANGED <<artists, albums, songs, links, hints, flight, syncOnSearch, begun, task, todo>>
  BY DEF FindRow, Goto, shared, tables
<1>2. id \in ArtistIDs /\ (task[r].kind = "top" => ByName(id))
  BY <1>1 DEF Good, Working
<1>3. PICK found \in Reads(id \in DOMAIN artists), heard \in Reads(sung # {}) :
        artist' = [artist EXCEPT ![r] = IF found THEN row ELSE Sung(heard)]
  BY DEF FindRow
<1> DEFINE u == IF found THEN row ELSE Sung(heard)
<1>4. u \in Artist /\ u.id = id /\ Matches(u.id, u.appleID)
  <2>1. CASE found
    <3>1. id \in DOMAIN artists
      BY <2>1 DEF Reads
    <3> HIDE DEF id
    <3> QED
      BY <1>2, <2>1, <3>1 DEF Good, Typed, RightArtist, ArtistRow, Artist, MayBe
  <2>2. CASE ~found
    <3> DEFINE name == IF heard THEN Credit[CHOOSE s \in sung : TRUE] ELSE None
    <3>1. name \in MayBe(Names)
      <4>1. heard => sung # {}
        BY DEF Reads
      <4>2. sung \subseteq Songs /\ (sung # {} => (CHOOSE s \in sung : TRUE) \in sung)
        BY DEF Good, Typed
      <4> HIDE DEF sung
      <4> QED
        BY <4>1, <4>2, AppleAssumption DEF MayBe
    <3>2. u = [NoArtist EXCEPT !.id = id, !.name = name]
      BY <2>2
    <3> HIDE DEF name, id, u
    <3> QED
      BY <1>2, <3>1, <3>2 DEF NoArtist, Artist, MayBe, Matches
  <2> QED
    BY <2>1, <2>2
<1>5. artist' = [artist EXCEPT ![r] = u]
  BY <1>3
<1> HIDE DEF id, u
<1>6. Working'
  <2> HIDE DEF ByName
  <2> QED
    BY <1>1, <1>2, <1>4, <1>5 DEF Good, Working, Stages, Typed
<1>7. /\ artist' \in [Requests -> Artist] /\ flight' \in [ArtistIDs -> MayBe(Requests)]
      /\ \A q \in Requests : Matches(artist'[q].id, artist'[q].appleID)
      /\ begun' \in 0 .. MaxRequests
  BY <1>1, <1>4, <1>5 DEF Good, Typed, RightArtist
<1> QED
  BY <1>1, <1>6, <1>7, RowsStay

\* A request that is over asks for no artist.
LEMMA DoneKeeps ==
  ASSUME Good, NEW R \in SUBSET Requests, Done(R), todo' \in [Requests -> Seq(Statements)]
  PROVE  /\ Working' /\ artist' \in [Requests -> Artist]
         /\ \A q \in Requests : Matches(artist'[q].id, artist'[q].appleID)
<1>1. NoArtist \in Artist /\ Matches(NoArtist.id, NoArtist.appleID)
  BY DEF NoArtist, Artist, MayBe, Matches
<1>2. artist' \in [Requests -> Artist] /\ \A q \in Requests : Matches(artist'[q].id, artist'[q].appleID)
  BY <1>1 DEF Done, Good, Typed, RightArtist
<1>3. pc' \in [Requests -> Stages] /\ task' = [q \in Requests |-> task'[q]]
  BY DEF Done, Good, Working, Stages
<1>4. ASSUME NEW q \in Requests
      PROVE  /\ q \in R => pc'[q] = "idle" /\ task'[q].kind = "none"
             /\ q \notin R => pc'[q] = pc[q] /\ task'[q] = task[q] /\ artist'[q] = artist[q]
  BY DEF Done, Idle
<1>5. Working'
  <2> HIDE DEF ByName
  <2> QED
    BY <1>3, <1>4 DEF Good, Working
<1> QED
  BY <1>2, <1>5

LEMMA FindHintKeeps ==
  ASSUME Good, NEW r \in Requests, FindHint(r)
  PROVE  Good' /\ NothingForgotten
<1> DEFINE id == artist[r].id
           u == Fill(r)
<1>1. /\ hints' = AfterGet(id) /\ pc[r] = "hint"
      /\ UNCHANGED <<artists, albums, songs, links, flight, syncOnSearch, begun, todo>>
  BY DEF FindHint, tables
<1>2. /\ artist[r] \in Artist /\ Matches(id, artist[r].appleID) /\ id \in ArtistIDs
      /\ (task[r].kind = "top" => ByName(id))
  BY <1>1 DEF Good, Working, Typed, RightArtist
<1>3. u \in Artist /\ u.id = id /\ Matches(u.id, u.appleID)
  <2>1. CASE Known(id)
    <3> DEFINE hint == hints[id]
    <3>1. hint \in Hint /\ Matches(id, hint.appleID)
      BY <2>1 DEF Good, Typed, RightArtist, Known
    <3>2. u = [artist[r] EXCEPT !.name = IF @ = None THEN hint.name ELSE @,
                                !.appleID = IF @ = None THEN hint.appleID ELSE @]
      BY <2>1 DEF Fill
    <3> HIDE DEF u, hint
    <3> QED
      BY <1>2, <3>1, <3>2 DEF Artist, Hint, MayBe
  <2>2. CASE ~Known(id)
    BY <1>2, <2>2 DEF Fill
  <2> QED
    BY <2>1, <2>2
<1>4. /\ Working' /\ artist' \in [Requests -> Artist]
      /\ \A q \in Requests : Matches(artist'[q].id, artist'[q].appleID)
  <2>1. CASE Done({r})
    BY <1>1, <2>1, DoneKeeps DEF Good, Working
  <2>2. ASSUME NEW to \in {"group", "ask"}, pc' = [pc EXCEPT ![r] = to],
               artist' = [artist EXCEPT ![r] = u], UNCHANGED task
        PROVE  /\ Working' /\ artist' \in [Requests -> Artist]
               /\ \A q \in Requests : Matches(artist'[q].id, artist'[q].appleID)
    <3> HIDE DEF u, id
    <3>1. Working'
      <4> HIDE DEF ByName
      <4> QED
        BY <1>1, <1>2, <1>3, <2>2 DEF Good, Working, Stages, Typed
    <3> QED
      BY <1>3, <2>2, <3>1 DEF Good, Typed, RightArtist
  <2> QED
    BY <2>1, <2>2 DEF FindHint, Goto
<1> HIDE DEF u, id
<1>5. /\ DOMAIN hints' \subseteq ArtistIDs /\ hints' \in [DOMAIN hints' -> Hint]
      /\ IsFiniteSet(DOMAIN hints') /\ Cardinality(DOMAIN hints') <= HintsMax
      /\ \A k \in DOMAIN hints' : Matches(k, hints'[k].appleID)
  BY <1>1, GetKeeps DEF Good
<1>6. Typed' /\ RightArtist'
  BY <1>1, <1>4, <1>5 DEF Good, Typed, RightArtist
<1>7. NothingForgotten
  BY <1>1 DEF NothingForgotten
<1> QED
  BY <1>4, <1>5, <1>6, <1>7 DEF Good

LEMMA GroupKeeps ==
  ASSUME Good, NEW r \in Requests, GroupDo(r) \/ LeaveGroup(r)
  PROVE  Good' /\ NothingForgotten
<1>1. UNCHANGED <<artists, albums, songs, links, hints, syncOnSearch, begun, todo>>
  BY DEF GroupDo, LeaveGroup, tables
<1>2. /\ artist \in [Requests -> Artist] /\ flight \in [ArtistIDs -> MayBe(Requests)]
      /\ \A q \in Requests : Matches(artist[q].id, artist[q].appleID)
      /\ begun \in 0 .. MaxRequests /\ todo \in [Requests -> Seq(Statements)]
  BY DEF Good, Typed, RightArtist, Working
<1>3. flight' \in [ArtistIDs -> MayBe(Requests)]
  BY <1>2 DEF GroupDo, LeaveGroup, MayBe
<1>4. /\ Working' /\ artist' \in [Requests -> Artist]
      /\ \A q \in Requests : Matches(artist'[q].id, artist'[q].appleID)
  <2>1. CASE GroupDo(r)
    <3>1. UNCHANGED <<task, artist>> /\ \E to \in {"sync", "joined"} : pc' = [pc EXCEPT ![r] = to]
          /\ pc[r] = "group"
      BY <2>1 DEF GroupDo, Goto
    <3>2. Working'
      <4> HIDE DEF ByName
      <4> QED
        BY <1>1, <3>1 DEF Good, Working, Stages
    <3> QED
      BY <1>2, <3>1, <3>2
  <2>2. CASE LeaveGroup(r)
    <3> DEFINE R == {r} \cup {q \in Requests : pc[q] = "joined" /\ artist[q].id = artist[r].id}
    <3>1. Done(R) /\ R \in SUBSET Requests
      BY <2>2 DEF LeaveGroup
    <3> HIDE DEF R
    <3> QED
      BY <1>1, <1>2, <3>1, DoneKeeps
  <2> QED
    BY <2>1, <2>2
<1> QED
  BY <1>1, <1>2, <1>3, <1>4, RowsStay

\* The Apple artist that is asked for bears the row's identifier or its name.
LEMMA AppleIDsRight ==
  ASSUME NEW a, Matches(a.id, a.appleID), NEW appleID \in AppleIDs(a)
  PROVE  Matches(a.id, appleID)
<1>1. CASE a.appleID # None
  BY <1>1 DEF AppleIDs
<1>2. CASE a.appleID = None /\ (a.name = None \/ a.id # ArtistIDFromName(a.name))
  BY <1>2 DEF AppleIDs, Matches
<1>3. CASE a.appleID = None /\ ~(a.name = None \/ a.id # ArtistIDFromName(a.name))
  <2>1. appleID \in FindArtistID(a.name)
    BY <1>3 DEF AppleIDs
  <2>2. appleID = None \/ NameOf[appleID] = a.name
    BY <2>1 DEF FindArtistID, MayBe
  <2> QED
    BY <1>3, <2>2 DEF Matches
<1> QED
  BY <1>1, <1>2, <1>3

LEMMA ListSave ==
  ASSUME NEW a \in Artist, a.id \in ArtistIDs, NEW name \in MayBe(Names),
         NEW appleID \in MayBe(AppleArtists), Matches(a.id, appleID)
  PROVE  SaveArtist(a, name, appleID) \in Seq(Statements)
<1> DEFINE own == IF appleID = None THEN {} ELSE Discography[appleID]
           relink == appleID # None
           w == [op |-> "save", id |-> a.id, name |-> name, appleID |-> appleID,
                 relink |-> relink, albums |-> own]
<1>1. own \subseteq Albums /\ relink \in BOOLEAN
  BY AppleAssumption DEF MayBe
<1>2. w \in Statements
  <2> HIDE DEF own, relink
  <2> QED
    BY <1>1 DEF Statements, Saves
<1>3. SaveArtist(a, name, appleID) = <<w>>
  BY DEF SaveArtist
<1> HIDE DEF w
<1> QED
  BY <1>2, <1>3

\* A step inside a request that leaves it a list to write, and may be its last.
LEMMA ListKeeps ==
  ASSUME Good, NEW r \in Requests, NEW l \in Seq(Statements), todo' = [todo EXCEPT ![r] = l],
         \/ Done({r})
         \/ pc' = [pc EXCEPT ![r] = "leave"] /\ pc[r] = "sync" /\ UNCHANGED <<task, artist>>,
         UNCHANGED <<artists, albums, songs, links, hints, flight, syncOnSearch, begun>>
  PROVE  Good' /\ NothingForgotten
<1>1. todo' \in [Requests -> Seq(Statements)]
  BY DEF Good, Working
<1>2. artist \in [Requests -> Artist] /\ flight \in [ArtistIDs -> MayBe(Requests)]
      /\ \A q \in Requests : Matches(artist[q].id, artist[q].appleID)
      /\ begun \in 0 .. MaxRequests
  BY DEF Good, Typed, RightArtist
<1>3. CASE Done({r})
  <2>1. /\ Working' /\ artist' \in [Requests -> Artist]
        /\ \A q \in Requests : Matches(artist'[q].id, artist'[q].appleID)
    BY <1>1, <1>3, DoneKeeps
  <2> QED
    BY <1>2, <2>1, RowsStay
<1>4. CASE pc' = [pc EXCEPT ![r] = "leave"] /\ pc[r] = "sync" /\ UNCHANGED <<task, artist>>
  <2>1. Working'
    <3> HIDE DEF ByName
    <3> QED
      BY <1>1, <1>4 DEF Good, Working, Stages
  <2> QED
    BY <1>2, <1>4, <2>1, RowsStay
<1> QED
  BY <1>3, <1>4

LEMMA Own ==
  ASSUME Good, NEW r \in Requests
  PROVE  todo[r] \in Seq(Statements) /\ todo = [todo EXCEPT ![r] = todo[r]]
  BY DEF Good, Working

LEMMA AskAppleKeeps ==
  ASSUME Good, NEW r \in Requests, AskApple(r)
  PROVE  Good' /\ NothingForgotten
<1> DEFINE a == artist[r]
<1>1. /\ pc[r] = "sync" /\ pc' = [pc EXCEPT ![r] = "leave"]
      /\ UNCHANGED <<artists, albums, songs, links, hints, flight, syncOnSearch, begun, task, artist>>
  BY DEF AskApple, Goto, shared, tables
<1>2. a \in Artist /\ a.id \in ArtistIDs /\ Matches(a.id, a.appleID) /\ a.name \in MayBe(Names)
  BY <1>1 DEF Good, Working, Typed, RightArtist, Artist
<1>3. CASE UNCHANGED todo
  <2>1. todo[r] \in Seq(Statements) /\ todo' = [todo EXCEPT ![r] = todo[r]]
    BY <1>3, Own
  <2> QED
    BY <1>1, <2>1, ListKeeps
<1>4. ASSUME NEW appleID \in AppleIDs(a), appleID = None,
             todo' = [todo EXCEPT ![r] = SaveArtist(a, a.name, None)]
      PROVE  Good' /\ NothingForgotten
  <2>1. SaveArtist(a, a.name, None) \in Seq(Statements)
    BY <1>2, ListSave DEF MayBe, Matches
  <2> QED
    BY <1>1, <1>4, <2>1, ListKeeps
<1>5. ASSUME NEW appleID \in AppleIDs(a), appleID \in AppleArtists,
             todo' = [todo EXCEPT ![r] = SyncAlbums(Discography[appleID])
                                           \o SaveArtist(a, NameOf[appleID], appleID)]
      PROVE  Good' /\ NothingForgotten
  <2>1. Discography[appleID] \in SUBSET Albums /\ NameOf[appleID] \in MayBe(Names)
        /\ appleID \in MayBe(AppleArtists) /\ Matches(a.id, appleID)
    BY <1>2, <1>5, AppleIDsRight, AppleAssumption DEF MayBe
  <2>2. SaveArtist(a, NameOf[appleID], appleID) \in Seq(Statements)
    BY <1>2, <2>1, ListSave
  <2>3. SyncAlbums(Discography[appleID]) \o SaveArtist(a, NameOf[appleID], appleID) \in Seq(Statements)
    BY <2>1, <2>2, ListAlbums, Concat
  <2> QED
    BY <1>1, <1>5, <2>3, ListKeeps
<1> QED
  BY <1>3, <1>4, <1>5 DEF AskApple

LEMMA WriteFailsKeeps ==
  ASSUME Good, NEW r \in Requests, WriteFails(r)
  PROVE  Good' /\ NothingForgotten
<1> DEFINE w == Head(todo[r])
           l == (IF w.op = "song" THEN <<[w EXCEPT !.op = "create"]>> ELSE <<>>) \o Tail(todo[r])
<1>1. /\ todo[r] # <<>> /\ todo' = [todo EXCEPT ![r] = l]
      /\ UNCHANGED <<artists, albums, songs, links, hints, flight, syncOnSearch, begun, pc, task, artist>>
  BY DEF WriteFails
<1>2. w \in Statements /\ Tail(todo[r]) \in Seq(Statements)
  BY <1>1 DEF Good, Working
<1>3. l \in Seq(Statements)
  <2> HIDE DEF w
  <2>1. CASE w.op = "song"
    <3>1. [w EXCEPT !.op = "create"] \in Statements
      BY <1>2, <2>1 DEF Statements, Hints, Saves
    <3> QED
      BY <1>2, <2>1, <3>1
  <2>2. CASE w.op # "song"
    BY <1>2, <2>2
  <2> QED
    BY <2>1, <2>2
<1> HIDE DEF l
<1>4. Working'
  <2> HIDE DEF ByName
  <2> QED
    BY <1>1, <1>3 DEF Good, Working
<1>5. /\ artist \in [Requests -> Artist] /\ flight \in [ArtistIDs -> MayBe(Requests)]
      /\ \A q \in Requests : Matches(artist[q].id, artist[q].appleID)
      /\ begun \in 0 .. MaxRequests
  BY DEF Good, Typed, RightArtist
<1> QED
  BY <1>1, <1>4, <1>5, RowsStay

-----------------------------------------------------------------------------
(* Similar artists and top songs *)

\* An artist that is asked for by its name keeps its identifier and its column.
LEMMA NamedKeeps ==
  ASSUME Good, NEW r \in Requests, pc[r] = "ask"
  PROVE  /\ Named(r).id = artist[r].id /\ Named(r).id \in ArtistIDs
         /\ Matches(Named(r).id, Named(r).appleID) /\ Named(r).name \in MayBe(Names)
<1>1. artist[r] \in Artist /\ artist[r].id \in ArtistIDs /\ Matches(artist[r].id, artist[r].appleID)
      /\ (task[r].kind = "top" => ByName(artist[r].id))
  BY DEF Good, Working, Typed, RightArtist
<1>2. CASE task[r].kind = "top" /\ artist[r].name = None
  <2> DEFINE n == CHOOSE n \in Names : ArtistIDFromName(n) = artist[r].id
  <2>1. n \in Names
    BY <1>1, <1>2 DEF ByName
  <2>2. Named(r) = [artist[r] EXCEPT !.name = n]
    BY <1>2 DEF Named
  <2> HIDE DEF n
  <2> QED
    BY <1>1, <2>1, <2>2 DEF Artist, MayBe
<1>3. CASE ~(task[r].kind = "top" /\ artist[r].name = None)
  BY <1>1, <1>3 DEF Named, Artist
<1> QED
  BY <1>2, <1>3

LEMMA AskAboutKeeps ==
  ASSUME Good, NEW r \in Requests, NEW similar \in Answers, NEW top \in SUBSET Songs,
         NEW related \in BOOLEAN, AskAbout(r, similar, top, related)
  PROVE  Good' /\ NothingForgotten
<1> DEFINE a == Named(r)
           searched == a.appleID = None /\ a.name # None /\ a.id = ArtistIDFromName(a.name)
           rest == IF task[r].kind = "info" THEN Remember(similar)
                   ELSE IF syncOnSearch THEN SyncSongs(top, related) ELSE ArtistRefs(top)
<1>1. /\ pc[r] = "ask" /\ Done({r})
      /\ UNCHANGED <<artists, albums, songs, links, hints, flight, syncOnSearch, begun>>
  BY DEF AskAbout, shared, tables
<1>2. CASE UNCHANGED todo
  <2>1. todo[r] \in Seq(Statements) /\ todo' = [todo EXCEPT ![r] = todo[r]]
    BY <1>2, Own
  <2> QED
    BY <1>1, <2>1, ListKeeps
<1>3. rest \in Seq(Statements)
  <2>1. similar \subseteq AppleArtists
    BY DEF Answers
  <2> QED
    BY <2>1, ListHints, ListSongs, ListRefs
<1>4. ASSUME NEW appleID \in AppleIDs(a) \cap AppleArtists,
             todo' = [todo EXCEPT ![r] =
               (IF searched THEN <<[HintFor(appleID, a.id) EXCEPT !.name = a.name]>> ELSE <<>>) \o rest]
      PROVE  Good' /\ NothingForgotten
  <2> HIDE DEF rest
  <2>1. CASE searched
    <3>1. a.name \in Names /\ a.id \in ArtistIDs /\ Matches(a.id, appleID)
      BY <1>1, <2>1, NamedKeeps, AppleIDsRight DEF MayBe
    <3>2. [HintFor(appleID, a.id) EXCEPT !.name = a.name]
            = [op |-> "hint", key |-> a.id, name |-> a.name, appleID |-> appleID]
      BY DEF HintFor
    <3>3. [HintFor(appleID, a.id) EXCEPT !.name = a.name] \in Statements
      BY <1>4, <3>1, <3>2, OneHint DEF MayBe
    <3>4. <<[HintFor(appleID, a.id) EXCEPT !.name = a.name]>> \in Seq(Statements)
      BY <3>3
    <3> HIDE DEF a
    <3>5. <<[HintFor(appleID, a.id) EXCEPT !.name = a.name]>> \o rest \in Seq(Statements)
      BY <1>3, <3>4, Concat
    <3> QED
      BY <1>1, <1>4, <2>1, <3>5, ListKeeps
  <2>2. CASE ~searched
    <3>1. <<>> \o rest \in Seq(Statements)
      BY <1>3
    <3> QED
      BY <1>1, <1>4, <2>2, <3>1, ListKeeps
  <2> QED
    BY <2>1, <2>2
<1> QED
  BY <1>2, <1>4 DEF AskAbout

-----------------------------------------------------------------------------
(* The invariant *)

LEMMA HintAgesKeeps ==
  ASSUME Good, NEW key \in ArtistIDs, HintAges(key)
  PROVE  Good' /\ NothingForgotten
<1>1. /\ key \in DOMAIN hints /\ hints' = [hints EXCEPT ![key].expired = TRUE]
      /\ UNCHANGED <<artists, albums, songs, links, flight, syncOnSearch, begun, pc, task, artist, todo>>
  BY DEF HintAges, tables
<1>2. /\ DOMAIN hints' = DOMAIN hints /\ hints' \in [DOMAIN hints' -> Hint]
      /\ \A k \in DOMAIN hints : hints'[k].appleID = hints[k].appleID
  BY <1>1 DEF Good, Typed, Hint
<1>3. Typed' /\ RightArtist'
  BY <1>1, <1>2 DEF Good, Typed, RightArtist
<1>4. Working' /\ NothingForgotten
  BY <1>1 DEF Good, Working, NothingForgotten
<1> QED
  BY <1>2, <1>3, <1>4 DEF Good

LEMMA MarkKeeps ==
  ASSUME Good, NEW s \in Songs, MarkDownloaded(s)
  PROVE  Good' /\ NothingForgotten
<1>1. /\ s \in DOMAIN songs /\ songs' = [songs EXCEPT ![s].path = TRUE]
      /\ UNCHANGED <<artists, albums, links, hints, flight, syncOnSearch, begun, pc, task, artist, todo>>
  BY DEF MarkDownloaded
<1>2. /\ DOMAIN songs' = DOMAIN songs /\ songs' \in [DOMAIN songs' -> SongRow]
      /\ NothingForgotten
  BY <1>1 DEF Good, Typed, SongRow, NothingForgotten
<1>3. Typed' /\ RightArtist'
  BY <1>1, <1>2 DEF Good, Typed, RightArtist
<1>4. Working'
  BY <1>1 DEF Good, Working
<1> QED
  BY <1>1, <1>2, <1>3, <1>4 DEF Good

LEMMA StutterKeeps ==
  ASSUME Good, UNCHANGED vars
  PROVE  Good' /\ NothingForgotten
  BY DEF Good, Typed, RightArtist, Working, NothingForgotten, vars, shared, tables

LEMMA NextKeeps ==
  ASSUME Good, [Next]_vars
  PROVE  Good' /\ NothingForgotten
<1>1. ASSUME NEW r \in Requests, Ask(r) PROVE Good' /\ NothingForgotten
  <2>1. ASSUME NEW A \in SUBSET Albums, NEW S \in SUBSET Songs, NEW B \in Answers,
               NEW shown \in SUBSET B, Search(r, [albums |-> A, songs |-> S, artists |-> B], shown)
        PROVE  Good' /\ NothingForgotten
    BY <2>1, SearchKeeps
  <2>2. CASE (\E b \in Albums : GetAlbum(r, b)) \/ (\E s \in Songs : GetSong(r, s))
    BY <2>2, AlbumOrSongKeeps
  <2>3. ASSUME NEW item \in Starrable, NEW type \in Types(item),
               Star(r, type, item) \/ Unstar(r, type, item)
        PROVE  Good' /\ NothingForgotten
    BY <2>3, StarKeeps, StarrableAssumption DEF Items
  <2>4. ASSUME NEW id \in ArtistIDs, NEW kind \in {"artist", "info"}, AskArtist(r, kind, id)
        PROVE  Good' /\ NothingForgotten
    BY <2>4, AskArtistKeeps
  <2>5. ASSUME NEW name \in Names, AskArtist(r, "top", ArtistIDFromName(name))
        PROVE  Good' /\ NothingForgotten
    BY <2>5, AskArtistKeeps, NameIDs DEF ByName
  <2> QED
    BY <1>1, <2>1, <2>2, <2>3, <2>4, <2>5, Zenon DEF Ask
<1>2. ASSUME NEW r \in Requests, Step(r) PROVE Good' /\ NothingForgotten
  <2>1. CASE Write(r)
    BY <2>1, WriteKeeps
  <2>2. CASE FindRow(r)
    BY <2>2, FindRowKeeps
  <2>3. CASE FindHint(r)
    BY <2>3, FindHintKeeps
  <2>4. CASE GroupDo(r) \/ LeaveGroup(r)
    BY <2>4, GroupKeeps
  <2>5. CASE AskApple(r)
    BY <2>5, AskAppleKeeps
  <2>6. CASE WriteFails(r)
    BY <2>6, WriteFailsKeeps
  <2>7. ASSUME NEW similar \in Answers, NEW top \in SUBSET Songs, NEW related \in BOOLEAN,
               AskAbout(r, similar, top, related)
        PROVE  Good' /\ NothingForgotten
    BY <2>7, AskAboutKeeps
  <2> QED
    BY <1>2, <2>1, <2>2, <2>3, <2>4, <2>5, <2>6, <2>7, Zenon DEF Step
<1>3. ASSUME NEW key \in ArtistIDs, HintAges(key) PROVE Good' /\ NothingForgotten
  BY <1>3, HintAgesKeeps
<1>4. ASSUME NEW s \in Songs, MarkDownloaded(s) PROVE Good' /\ NothingForgotten
  BY <1>4, MarkKeeps
<1>5. CASE UNCHANGED vars
  BY <1>5, StutterKeeps
<1> QED
  BY <1>1, <1>2, <1>3, <1>4, <1>5, Zenon DEF Next

LEMMA InitGood ==
  ASSUME Init
  PROVE  Good
<1>1. /\ DOMAIN artists = {} /\ DOMAIN songs = {} /\ DOMAIN hints = {}
      /\ albums = {} /\ links = {} /\ flight = [id \in ArtistIDs |-> None]
      /\ artist = [r \in Requests |-> NoArtist] /\ syncOnSearch \in BOOLEAN /\ begun = 0
      /\ pc = [r \in Requests |-> "idle"] /\ task = [r \in Requests |-> Idle]
      /\ todo = [r \in Requests |-> <<>>]
      /\ artists \in [{} -> ArtistRow] /\ songs \in [{} -> SongRow] /\ hints \in [{} -> Hint]
  BY DEF Init
<1>2. IsFiniteSet(DOMAIN hints) /\ Cardinality(DOMAIN hints) <= HintsMax
  BY <1>1, FS_EmptySet, LimitAssumption
<1>3. NoArtist \in Artist /\ Matches(NoArtist.id, NoArtist.appleID)
  BY DEF NoArtist, Artist, MayBe, Matches
<1>4. Typed
  BY <1>1, <1>2, <1>3, LimitAssumption DEF Typed, MayBe
<1>5. RightArtist
  BY <1>1, <1>3 DEF RightArtist
<1>6. Working
  BY <1>1 DEF Working, Stages, Idle
<1> QED
  BY <1>2, <1>4, <1>5, <1>6 DEF Good

\* In every reachable state the rows, the hints and what the requests have still to
\* write are well typed and name the right artist.
THEOREM Invariant == Spec => []IInv
<1>1. Init => IInv
  BY InitGood, GoodIsIInv
<1>2. IInv /\ [Next]_vars => IInv'
  <2>1. Good' <=> IInv'
    BY GoodIsIInv, PTL
  <2> QED
    BY <2>1, NextKeeps, GoodIsIInv
<1> QED
  BY <1>1, <1>2, PTL DEF Spec

\* The types of the tables and of the cache, which never outgrows its limit (set of
\* ttlCache).
THEOREM TypeCorrect == Spec => []TypeOK
<1>1. IInv => TypeOK
  BY DEF IInv
<1> QED
  BY <1>1, Invariant, PTL

\* However the syncs of several requests interleave, no row and no hint names the
\* Apple artist of another name (findArtist, SyncArtist, rememberAppleArtist).
THEOREM ArtistsAreRight == Spec => []RightArtist
<1>1. IInv => RightArtist
  BY DEF IInv
<1> QED
  BY <1>1, Invariant, PTL

\* No statement of a sync takes away a song, its file's path or its album (saveSong's
\* update writes only what Apple named).
THEOREM DownloadsKept == Spec => KeepsDownloads
<1>1. IInv /\ [Next]_vars => [NothingForgotten]_vars
  BY NextKeeps, GoodIsIInv
<1> QED
  BY <1>1, Invariant, PTL DEF Spec, KeepsDownloads

-----------------------------------------------------------------------------
(* What refers to what *)

\* What a row may refer to: what has a row, or whose own insert was refused.
Have ==
  [artists |-> DOMAIN artists \cup {id \in ArtistIDs : <<"artist", id>> \in missed},
   albums |-> albums \cup {b \in Albums : <<"album", b>> \in missed},
   songs |-> DOMAIN songs \cup {s \in Songs : <<"song", s>> \in missed},
   missed |-> missed]

\* A row that the statement at i of a list refers to is there, or written before.
ArtistFirst(name, l, i, have) ==
  \/ ArtistIDFromName(name) \in have.artists
  \/ \E j \in 1 .. i - 1 : l[j].op = "stub" /\ l[j].name = name

AlbumFirst(b, l, i, have) ==
  b \in have.albums \/ \E j \in 1 .. i - 1 : l[j].op = "album" /\ l[j].id = b

SongFirst(s, l, i, have) ==
  s \in have.songs \/ \E j \in 1 .. i - 1 : l[j].op \in {"song", "create"} /\ l[j].id = s

\* A save relinks the albums of the artist it names, and one under Apple's identifier
\* names that artist.
SaveWhole(w) ==
  /\ w.appleID # None => w.relink /\ w.albums = Discography[w.appleID]
  /\ w.id \in AppleArtists => w.appleID = w.id

Ready(l, i, have) ==
  /\ l[i].op = "album" /\ Credit[l[i].id] # None => ArtistFirst(Credit[l[i].id], l, i, have)
  /\ l[i].op = "save" =>
       SaveWhole(l[i]) /\ (l[i].relink => \A b \in l[i].albums : AlbumFirst(b, l, i, have))
  /\ l[i].op = "star" =>
       \/ l[i].row[1] = "artist" \/ l[i].row \in have.missed
       \/ l[i].row[1] = "album" /\ AlbumFirst(l[i].row[2], l, i, have)
       \/ l[i].row[1] = "song" /\ SongFirst(l[i].row[2], l, i, have)

Ordered(l, have) == \A i \in 1 .. Len(l) : Ready(l, i, have)

\* A row that counts as synced under Apple's identifier has it in its column too, so
\* that no sync of search results changes what its links are to list.
OwnColumn ==
  \A id \in DOMAIN artists \cap AppleArtists : artists[id].synced => artists[id].appleID = id

RefInv ==
  /\ ReferencesResolve /\ OwnColumn
  /\ starred \subseteq {"album", "artist", "song"} \X Items
  /\ \A r \in Requests : Ordered(todo[r], Have)

\* What holds by the time of statement i holds when the tables have grown.
LEMMA ReadyGrows ==
  ASSUME NEW have, NEW more, NEW l, NEW i, Ready(l, i, have),
         have.artists \subseteq more.artists, have.albums \subseteq more.albums,
         have.songs \subseteq more.songs, have.missed \subseteq more.missed
  PROVE  Ready(l, i, more)
  BY DEF Ready, ArtistFirst, AlbumFirst, SongFirst

LEMMA OrderedGrows ==
  ASSUME NEW have, NEW more, NEW l, Ordered(l, have),
         have.artists \subseteq more.artists, have.albums \subseteq more.albums,
         have.songs \subseteq more.songs, have.missed \subseteq more.missed
  PROVE  Ordered(l, more)
  BY ReadyGrows DEF Ordered

\* Statements that refer to nothing are in order.
LEMMA Plain ==
  ASSUME NEW l, NEW have, \A i \in 1 .. Len(l) : l[i].op \notin {"album", "save", "star"}
  PROVE  Ordered(l, have)
  BY DEF Ordered, Ready

\* A list after another may refer to what that one writes.
LEMMA ConcatInOrder ==
  ASSUME NEW l \in Seq(Statements), NEW m \in Seq(Statements), NEW have, NEW more,
         Ordered(l, have), Ordered(m, more),
         \A name \in Names : ArtistIDFromName(name) \in more.artists =>
           ArtistFirst(name, l, Len(l) + 1, have),
         \A b \in more.albums : AlbumFirst(b, l, Len(l) + 1, have),
         \A s \in more.songs : SongFirst(s, l, Len(l) + 1, have),
         more.missed \subseteq have.missed
  PROVE  Ordered(l \o m, have)
<1> DEFINE n == l \o m
<1>1. /\ Len(n) = Len(l) + Len(m) /\ Len(l) \in Nat /\ Len(m) \in Nat /\ n \in Seq(Statements)
      /\ \A i \in 1 .. Len(l) : n[i] = l[i]
      /\ \A i \in 1 .. Len(m) : n[Len(l) + i] = m[i]
  BY ConcatProperties, LenProperties
<1> HIDE DEF n
<1>2. ASSUME NEW i \in 1 .. Len(l) PROVE Ready(n, i, have)
  <2>1. \A j \in 1 .. i - 1 : j \in 1 .. Len(l) /\ n[j] = l[j]
    BY <1>1
  <2>2. Ready(l, i, have) /\ n[i] = l[i]
    BY <1>1 DEF Ordered
  <2> QED
    BY <2>1, <2>2 DEF Ready, ArtistFirst, AlbumFirst, SongFirst
<1>3. ASSUME NEW i \in 1 .. Len(m) PROVE Ready(n, Len(l) + i, have)
  <2> DEFINE k == Len(l) + i
  <2>1. Ready(m, i, more) /\ n[k] = m[i] /\ k \in Nat /\ m[i] \in Statements
    BY <1>1 DEF Ordered
  <2>2. /\ \A j \in 1 .. Len(l) : j \in 1 .. k - 1 /\ n[j] = l[j]
        /\ \A j \in 1 .. i - 1 : Len(l) + j \in 1 .. k - 1 /\ n[Len(l) + j] = m[j]
    BY <1>1
  <2> HIDE DEF k
  <2>3. ASSUME NEW name \in Names, ArtistFirst(name, m, i, more) PROVE ArtistFirst(name, n, k, have)
    <3>1. CASE ArtistIDFromName(name) \in more.artists
      <4>1. ArtistFirst(name, l, Len(l) + 1, have) /\ 1 .. (Len(l) + 1) - 1 = 1 .. Len(l)
        BY <1>1, <3>1
      <4> QED
        BY <2>2, <4>1 DEF ArtistFirst
    <3>2. ASSUME NEW j \in 1 .. i - 1, m[j].op = "stub", m[j].name = name
          PROVE  ArtistFirst(name, n, k, have)
      BY <2>2, <3>2 DEF ArtistFirst
    <3> QED
      BY <2>3, <3>1, <3>2 DEF ArtistFirst
  <2>4. ASSUME NEW b, AlbumFirst(b, m, i, more) PROVE AlbumFirst(b, n, k, have)
    <3>1. CASE b \in more.albums
      <4>1. AlbumFirst(b, l, Len(l) + 1, have) /\ 1 .. (Len(l) + 1) - 1 = 1 .. Len(l)
        BY <1>1, <3>1
      <4> QED
        BY <2>2, <4>1 DEF AlbumFirst
    <3>2. ASSUME NEW j \in 1 .. i - 1, m[j].op = "album", m[j].id = b
          PROVE  AlbumFirst(b, n, k, have)
      BY <2>2, <3>2 DEF AlbumFirst
    <3> QED
      BY <2>4, <3>1, <3>2 DEF AlbumFirst
  <2>5. ASSUME NEW s, SongFirst(s, m, i, more) PROVE SongFirst(s, n, k, have)
    <3>1. CASE s \in more.songs
      <4>1. SongFirst(s, l, Len(l) + 1, have) /\ 1 .. (Len(l) + 1) - 1 = 1 .. Len(l)
        BY <1>1, <3>1
      <4> QED
        BY <2>2, <4>1 DEF SongFirst
    <3>2. ASSUME NEW j \in 1 .. i - 1, m[j].op \in {"song", "create"}, m[j].id = s
          PROVE  SongFirst(s, n, k, have)
      BY <2>2, <3>2 DEF SongFirst
    <3> QED
      BY <2>5, <3>1, <3>2 DEF SongFirst
  <2>6. m[i].op = "album" /\ Credit[m[i].id] # None => Credit[m[i].id] \in Names
    BY <2>1, StatementTypes, AppleAssumption DEF MayBe
  <2> QED
    BY <2>1, <2>3, <2>4, <2>5, <2>6 DEF Ready, k
<1>4. ASSUME NEW i \in 1 .. Len(n) PROVE Ready(n, i, have)
  <2>1. CASE i <= Len(l)
    BY <1>1, <1>2, <2>1
  <2>2. CASE i > Len(l)
    <3>1. i - Len(l) \in 1 .. Len(m) /\ Len(l) + (i - Len(l)) = i
      BY <1>1, <2>2
    <3> QED
      BY <1>3, <3>1
  <2> QED
    BY <1>1, <2>1, <2>2
<1> QED
  BY <1>4 DEF Ordered, n

\* SetToSeq lists every element of a set.
LEMMA EveryElement ==
  ASSUME NEW S, IsFiniteSet(S), NEW x \in S
  PROVE  \E i \in 1 .. Cardinality(S) : SetToSeq(S)[i] = x
<1> DEFINE n == Cardinality(S)
           f == SetToSeq(S)
<1>1. n \in Nat /\ ExistsBijection(1 .. n, S)
  BY FS_CardinalityType
<1>2. \E g \in [1 .. n -> S] : IsInjective(g)
  BY <1>1 DEF ExistsBijection, Bijection, Injection
<1>3. f \in [1 .. n -> S] /\ IsInjective(f)
  BY <1>2 DEF SetToSeq
<1>4. f \in Injection(1 .. n, S)
  BY <1>3 DEF Injection
<1>5. Cardinality(1 .. n) = n
  BY <1>1, FS_Interval
<1>6. f \in Surjection(1 .. n, S)
  BY <1>4, <1>5, FS_Injection
<1> QED
  BY <1>6 DEF Surjection

\* The stub of the artist goes before the album it is credited to.
LEMMA AlbumsInOrder ==
  ASSUME NEW S \in SUBSET Albums, NEW have
  PROVE  /\ Ordered(SyncAlbums(S), have)
         /\ \A b \in S : AlbumFirst(b, SyncAlbums(S), Len(SyncAlbums(S)) + 1, have)
<1> DEFINE n == Cardinality(S)
           l == SyncAlbums(S)
<1>1. n \in Nat /\ IsFiniteSet(S) /\ Len(l) = 2 * n /\ l \in Seq(Statements)
  BY FiniteParts, SetElements, ListAlbums DEF SyncAlbums
<1>2. \A i \in 1 .. 2 * n : LET b == SetToSeq(S)[(i + 1) \div 2] IN
        l[i] = IF i % 2 = 1 THEN [op |-> "stub", name |-> Credit[b]] ELSE [op |-> "album", id |-> b]
  BY DEF SyncAlbums
<1> HIDE DEF l, n
<1>3. ASSUME NEW i \in 1 .. Len(l) PROVE Ready(l, i, have)
  <2>1. CASE i % 2 = 1
    <3>1. l[i].op = "stub"
      BY <1>1, <1>2, <2>1
    <3> QED
      BY <3>1 DEF Ready
  <2>2. CASE i % 2 # 1
    <3> DEFINE b == SetToSeq(S)[(i + 1) \div 2]
    <3>1. i - 1 \in 1 .. i - 1 /\ i - 1 \in 1 .. 2 * n /\ (i - 1) % 2 = 1
          /\ ((i - 1) + 1) \div 2 = (i + 1) \div 2
      BY <1>1, <2>2
    <3>2. l[i] = [op |-> "album", id |-> b]
      BY <1>1, <1>2, <2>2
    <3>3. l[i - 1] = [op |-> "stub", name |-> Credit[b]]
      BY <1>2, <3>1
    <3> HIDE DEF b
    <3>4. l[i].op = "album" /\ l[i].id = b /\ l[i - 1].op = "stub" /\ l[i - 1].name = Credit[b]
      BY <3>2, <3>3
    <3> QED
      BY <3>1, <3>4 DEF Ready, ArtistFirst
  <2> QED
    BY <2>1, <2>2
<1>4. ASSUME NEW b \in S PROVE AlbumFirst(b, l, Len(l) + 1, have)
  <2>1. PICK k \in 1 .. n : SetToSeq(S)[k] = b
    BY <1>1, EveryElement DEF n
  <2>2. 2 * k \in 1 .. (Len(l) + 1) - 1 /\ 2 * k \in 1 .. 2 * n /\ (2 * k) % 2 # 1
        /\ (2 * k + 1) \div 2 = k
    BY <1>1
  <2>3. l[2 * k] = [op |-> "album", id |-> b]
    BY <1>2, <2>1, <2>2
  <2>4. l[2 * k].op = "album" /\ l[2 * k].id = b
    BY <2>3
  <2> QED
    BY <2>2, <2>4 DEF AlbumFirst
<1> QED
  BY <1>3, <1>4 DEF l, Ordered

\* The other lists refer to nothing.
LEMMA PlainLists ==
  ASSUME NEW have
  PROVE  /\ \A S \in SUBSET Songs, related \in BOOLEAN : Ordered(SyncSongs(S, related), have)
         /\ \A S \in SUBSET AppleArtists : Ordered(SyncArtists(S), have) /\ Ordered(Remember(S), have)
         /\ \A S : S \subseteq Albums \/ S \subseteq Songs => Ordered(ArtistRefs(S), have)
<1>1. ASSUME NEW S \in SUBSET Songs, NEW related \in BOOLEAN PROVE Ordered(SyncSongs(S, related), have)
  <2>1. Cardinality(S) \in Nat
    BY FiniteParts, SetElements
  <2> QED
    BY <2>1, Plain DEF SyncSongs
<1>2. ASSUME NEW S \in SUBSET AppleArtists
      PROVE  Ordered(SyncArtists(S), have) /\ Ordered(Remember(S), have)
  <2>1. Cardinality(S) \in Nat /\ 2 * Cardinality(S) \in Nat
    BY FiniteParts, SetElements
  <2>2. Ordered(SyncArtists(S), have)
    BY <2>1, Plain DEF SyncArtists
  <2>3. Ordered(Remember(S), have)
    <3>1. Len(Remember(S)) = 2 * Cardinality(S)
      BY <2>1 DEF Remember
    <3>2. \A i \in 1 .. Len(Remember(S)) : Remember(S)[i].op = "hint"
      BY <3>1 DEF Remember, HintFor
    <3> QED
      BY <3>2, Plain
  <2> QED
    BY <2>2, <2>3
<1>3. ASSUME NEW S, S \subseteq Albums \/ S \subseteq Songs PROVE Ordered(ArtistRefs(S), have)
  <2>1. Cardinality(S) \in Nat
    BY <1>3, FiniteParts, SetElements
  <2> QED
    BY <2>1, Plain DEF ArtistRefs
<1> QED
  BY <1>1, <1>2, <1>3

\* Two lists that do not lean on each other.
LEMMA BothInOrder ==
  ASSUME NEW l \in Seq(Statements), NEW m \in Seq(Statements), NEW have,
         Ordered(l, have), Ordered(m, have)
  PROVE  Ordered(l \o m, have)
<1>1. /\ \A name \in Names : ArtistIDFromName(name) \in have.artists =>
           ArtistFirst(name, l, Len(l) + 1, have)
      /\ \A b \in have.albums : AlbumFirst(b, l, Len(l) + 1, have)
      /\ \A s \in have.songs : SongFirst(s, l, Len(l) + 1, have)
  BY DEF ArtistFirst, AlbumFirst, SongFirst
<1> QED
  BY <1>1, ConcatInOrder

\* One statement after a list that writes what it refers to.
LEMMA OneAfter ==
  ASSUME NEW l \in Seq(Statements), NEW w \in Statements, NEW have, Ordered(l, have),
         Ready(Append(l, w), Len(l) + 1, have)
  PROVE  Ordered(Append(l, w), have)
<1> DEFINE n == Append(l, w)
<1>1. /\ Len(n) = Len(l) + 1 /\ Len(l) \in Nat
      /\ \A i \in 1 .. Len(l) : n[i] = l[i]
  BY AppendProperties, LenProperties
<1> HIDE DEF n
<1>2. ASSUME NEW i \in 1 .. Len(l) PROVE Ready(n, i, have)
  <2>1. Ready(l, i, have) /\ n[i] = l[i] /\ \A j \in 1 .. i - 1 : n[j] = l[j]
    BY <1>1 DEF Ordered
  <2> QED
    BY <2>1 DEF Ready, ArtistFirst, AlbumFirst, SongFirst
<1>3. \A i \in 1 .. Len(n) : i \in 1 .. Len(l) \/ i = Len(l) + 1
  BY <1>1
<1>4. Ready(n, Len(l) + 1, have)
  BY DEF n
<1>5. \A i \in 1 .. Len(n) : Ready(n, i, have)
  BY <1>2, <1>3, <1>4
<1> QED
  BY <1>5 DEF Ordered, n

-----------------------------------------------------------------------------
(* The lists of each operation *)

LEMMA AlbumAndTracks ==
  ASSUME NEW b \in Albums, NEW tracks \in SUBSET Songs, NEW have
  PROVE  Ordered(SyncAlbum(b, tracks), have)
<1>1. SyncAlbums({b}) \in Seq(Statements) /\ SyncSongs(tracks, TRUE) \in Seq(Statements)
  BY ListAlbums, ListSongs, OneIsFinite
<1>2. Ordered(SyncAlbums({b}), have) /\ Ordered(SyncSongs(tracks, TRUE), have)
  BY AlbumsInOrder, PlainLists, OneIsFinite
<1> QED
  BY <1>1, <1>2, BothInOrder DEF SyncAlbum

\* The star of an album follows what brings the album's row.
LEMMA AlbumStillFirst ==
  ASSUME NEW l \in Seq(Statements), NEW m \in Seq(Statements), NEW have,
         NEW b, AlbumFirst(b, l, Len(l) + 1, have)
  PROVE  AlbumFirst(b, l \o m, Len(l \o m) + 1, have)
<1> DEFINE n == l \o m
<1>1. /\ Len(n) = Len(l) + Len(m) /\ Len(l) \in Nat /\ Len(m) \in Nat
      /\ \A i \in 1 .. Len(l) : n[i] = l[i]
  BY ConcatProperties, LenProperties
<1> HIDE DEF n
<1>2. \A j \in 1 .. (Len(l) + 1) - 1 : j \in 1 .. (Len(n) + 1) - 1 /\ n[j] = l[j]
  BY <1>1
<1>3. AlbumFirst(b, n, Len(n) + 1, have)
  BY <1>2 DEF AlbumFirst
<1> QED
  BY <1>3 DEF n

\* A statement before which its list has what it refers to.
LEMMA AfterAll ==
  ASSUME NEW l \in Seq(Statements), NEW w \in Statements, NEW have, Ordered(l, have),
         w.op # "album",
         w.op = "save" =>
           SaveWhole(w) /\ (w.relink => \A b \in w.albums : AlbumFirst(b, l, Len(l) + 1, have)),
         w.op = "star" =>
           \/ w.row[1] = "artist" \/ w.row \in have.missed
           \/ w.row[1] = "album" /\ AlbumFirst(w.row[2], l, Len(l) + 1, have)
           \/ w.row[1] = "song" /\ SongFirst(w.row[2], l, Len(l) + 1, have)
  PROVE  Ordered(l \o <<w>>, have)
<1> DEFINE n == Append(l, w)
<1>1. /\ Len(l) \in Nat /\ n[Len(l) + 1] = w /\ \A i \in 1 .. Len(l) : n[i] = l[i]
      /\ l \o <<w>> = n
  BY AppendProperties, LenProperties, AppendIsConcat
<1> HIDE DEF n
<1>2. \A j \in 1 .. (Len(l) + 1) - 1 : n[j] = l[j]
  BY <1>1
<1>3. ASSUME NEW b, AlbumFirst(b, l, Len(l) + 1, have) PROVE AlbumFirst(b, n, Len(l) + 1, have)
  BY <1>2, <1>3 DEF AlbumFirst
<1>4. ASSUME NEW s, SongFirst(s, l, Len(l) + 1, have) PROVE SongFirst(s, n, Len(l) + 1, have)
  BY <1>2, <1>4 DEF SongFirst
<1>5. Ready(n, Len(l) + 1, have)
  BY <1>1, <1>3, <1>4 DEF Ready
<1> QED
  BY <1>1, <1>5, OneAfter DEF n

LEMMA SearchInOrder ==
  ASSUME NEW A \in SUBSET Albums, NEW S \in SUBSET Songs, NEW B \in SUBSET AppleArtists,
         NEW shown \in SUBSET AppleArtists, NEW found,
         found = [albums |-> A, songs |-> S, artists |-> B], NEW have
  PROVE  /\ Ordered(Remember(shown) \o SyncSearchResults(found), have)
         /\ Ordered(Remember(shown) \o (ArtistRefs(A) \o ArtistRefs(S)), have)
<1>1. /\ SyncAlbums(A) \in Seq(Statements) /\ Ordered(SyncAlbums(A), have)
      /\ SyncSongs(S, TRUE) \in Seq(Statements) /\ Ordered(SyncSongs(S, TRUE), have)
      /\ SyncArtists(B) \in Seq(Statements) /\ Ordered(SyncArtists(B), have)
      /\ Remember(shown) \in Seq(Statements) /\ Ordered(Remember(shown), have)
      /\ ArtistRefs(A) \in Seq(Statements) /\ Ordered(ArtistRefs(A), have)
      /\ ArtistRefs(S) \in Seq(Statements) /\ Ordered(ArtistRefs(S), have)
  BY ListAlbums, AlbumsInOrder, ListSongs, ListArtists, ListHints, ListRefs, PlainLists
<1>2. /\ SyncAlbums(A) \o SyncSongs(S, TRUE) \in Seq(Statements)
      /\ Ordered(SyncAlbums(A) \o SyncSongs(S, TRUE), have)
      /\ ArtistRefs(A) \o ArtistRefs(S) \in Seq(Statements)
      /\ Ordered(ArtistRefs(A) \o ArtistRefs(S), have)
  BY <1>1, Concat, BothInOrder
<1>3. /\ SyncSearchResults(found) = (SyncAlbums(A) \o SyncSongs(S, TRUE)) \o SyncArtists(B)
  BY DEF SyncSearchResults
<1>4. SyncSearchResults(found) \in Seq(Statements) /\ Ordered(SyncSearchResults(found), have)
  BY <1>1, <1>2, <1>3, Concat, BothInOrder
<1> QED
  BY <1>1, <1>2, <1>4, BothInOrder

\* The albums of an artist are written before the artist is saved with its links.
LEMMA SaveInOrder ==
  ASSUME NEW a \in Artist, a.id \in ArtistIDs, Matches(a.id, a.appleID),
         NEW appleID \in AppleIDs(a), NEW have
  PROVE  /\ appleID = None => Ordered(SaveArtist(a, a.name, None), have)
         /\ appleID \in AppleArtists =>
              Ordered(SyncAlbums(Discography[appleID]) \o SaveArtist(a, NameOf[appleID], appleID), have)
<1>1. Matches(a.id, appleID) /\ a.name \in MayBe(Names)
  BY AppleIDsRight DEF Artist
<1>2. a.id \in AppleArtists => appleID = a.id
  <2>1. CASE a.appleID # None
    <3>1. a.appleID = a.id \/ ArtistIDFromName(NameOf[a.appleID]) = a.id
      BY <2>1 DEF Matches
    <3>2. NameOf[a.appleID] \in Names /\ appleID = a.appleID
      BY <2>1, AppleAssumption DEF Artist, MayBe, AppleIDs
    <3> QED
      BY <3>1, <3>2, KindsAssumption
  <2>2. CASE a.appleID = None /\ (a.name = None \/ a.id # ArtistIDFromName(a.name))
    BY <2>2 DEF AppleIDs
  <2>3. CASE a.name # None /\ a.id = ArtistIDFromName(a.name)
    BY <1>1, <2>3, KindsAssumption DEF MayBe
  <2> QED
    BY <2>1, <2>2, <2>3
<1>3. CASE appleID = None
  <2> DEFINE none == {}
             w == [op |-> "save", id |-> a.id, name |-> a.name, appleID |-> None,
                   relink |-> FALSE, albums |-> none]
  <2>1. SaveArtist(a, a.name, None) = <<w>>
    BY DEF SaveArtist
  <2>2. w.op = "save" /\ w.relink = FALSE /\ w.appleID = None /\ w.id = a.id
    OBVIOUS
  <2> HIDE DEF w
  <2>3. SaveWhole(w)
    BY <1>2, <1>3, <2>2, NoneAssumption DEF SaveWhole
  <2>4. Ready(<<w>>, 1, have)
    BY <2>2, <2>3 DEF Ready
  <2> QED
    BY <1>3, <2>1, <2>4, NoneAssumption DEF Ordered
<1>4. CASE appleID \in AppleArtists
  <2> DEFINE own == Discography[appleID]
             name == NameOf[appleID]
             w == [op |-> "save", id |-> a.id, name |-> name, appleID |-> appleID,
                   relink |-> TRUE, albums |-> own]
             l == SyncAlbums(own)
  <2>1. appleID # None /\ own \in SUBSET Albums /\ name \in MayBe(Names) /\ appleID \in MayBe(AppleArtists)
    BY <1>4, AppleAssumption, NoneAssumption DEF MayBe
  <2>2. SaveArtist(a, name, appleID) = <<w>>
    BY <2>1 DEF SaveArtist
  <2>3. /\ w.op = "save" /\ w.relink = TRUE /\ w.appleID = appleID /\ w.id = a.id /\ w.albums = own
    OBVIOUS
  <2>4. SaveArtist(a, name, appleID) \in Seq(Statements)
    BY <1>1, <2>1, ListSave
  <2> HIDE DEF w, name
  <2>5. w \in Statements
    BY <2>2, <2>4
  <2>6. SaveWhole(w)
    BY <1>2, <2>3 DEF SaveWhole
  <2>7. /\ l \in Seq(Statements) /\ Ordered(l, have)
        /\ \A b \in own : AlbumFirst(b, l, Len(l) + 1, have)
    BY <2>1, ListAlbums, AlbumsInOrder
  <2> HIDE DEF l, own
  <2>8. Ordered(l \o <<w>>, have)
    BY <2>3, <2>5, <2>6, <2>7, AfterAll
  <2> QED
    BY <1>4, <2>1, <2>2, <2>8 DEF l, own, name
<1> QED
  BY <1>3, <1>4

\* Star: the item, when it had to be asked for and could be had, then the star.
LEMMA StarInOrder ==
  ASSUME NEW type \in {"album", "artist", "song"}, NEW item \in Items, NEW have, NEW star,
         star = [op |-> "star", row |-> <<type, item>>]
  PROVE  /\ (type = "artist" \/ <<type, item>> \in have.missed) => Ordered(<<star>>, have)
         /\ type = "album" /\ item \in have.albums => Ordered(<<star>>, have)
         /\ type = "song" /\ item \in have.songs => Ordered(<<star>>, have)
         /\ type = "song" /\ item \in Songs => Ordered(LoadSong(item) \o <<star>>, have)
         /\ type = "album" /\ item \in Albums =>
              \A tracks \in SUBSET Songs : Ordered(SyncAlbum(item, tracks) \o <<star>>, have)
<1>1. star \in Statements /\ star.op = "star" /\ star.row = <<type, item>>
  BY DEF Statements
<1>2. /\ (type = "artist" \/ <<type, item>> \in have.missed) => Ordered(<<star>>, have)
      /\ type = "album" /\ item \in have.albums => Ordered(<<star>>, have)
      /\ type = "song" /\ item \in have.songs => Ordered(<<star>>, have)
  BY <1>1 DEF Ordered, Ready, AlbumFirst, SongFirst
<1>3. ASSUME type = "song", item \in Songs
      PROVE  Ordered(LoadSong(item) \o <<star>>, have)
  <2> DEFINE l == LoadSong(item)
  <2>1. l \in Seq(Statements) /\ Ordered(l, have)
    BY <1>3, ListSongs, PlainLists, OneIsFinite DEF LoadSong
  <2>2. IsFiniteSet({item}) /\ Cardinality({item}) = 1
    BY FS_Singleton
  <2>3. PICK i \in 1 .. 1 : SetToSeq({item})[i] = item
    BY <2>2, EveryElement
  <2>4. Len(l) = 1 /\ l[1].op = "song" /\ l[1].id = item
    BY <2>2, <2>3 DEF LoadSong, SyncSongs
  <2>5. SongFirst(item, l, Len(l) + 1, have)
    BY <2>4 DEF SongFirst
  <2> HIDE DEF l
  <2>6. Ordered(l \o <<star>>, have)
    BY <1>1, <1>3, <2>1, <2>5, AfterAll
  <2> QED
    BY <2>6 DEF l
<1>4. ASSUME type = "album", item \in Albums, NEW tracks \in SUBSET Songs
      PROVE  Ordered(SyncAlbum(item, tracks) \o <<star>>, have)
  <2> DEFINE l == SyncAlbum(item, tracks)
  <2>1. l \in Seq(Statements) /\ Ordered(l, have)
    BY <1>4, ListAlbum, AlbumAndTracks
  <2>2. AlbumFirst(item, SyncAlbums({item}), Len(SyncAlbums({item})) + 1, have)
    BY <1>4, AlbumsInOrder, OneIsFinite
  <2>3. SyncAlbums({item}) \in Seq(Statements) /\ SyncSongs(tracks, TRUE) \in Seq(Statements)
    BY <1>4, ListAlbums, ListSongs, OneIsFinite
  <2>4. AlbumFirst(item, l, Len(l) + 1, have)
    BY <2>2, <2>3, AlbumStillFirst DEF SyncAlbum
  <2> HIDE DEF l
  <2>5. Ordered(l \o <<star>>, have)
    BY <1>1, <1>4, <2>1, <2>4, AfterAll
  <2> QED
    BY <2>5 DEF l
<1> QED
  BY <1>2, <1>3, <1>4

-----------------------------------------------------------------------------
(* One statement, and what is left after it *)

\* An update that found no row, and an entry that was missed, leave in their place
\* what writes as much.
LEMMA HeadReplaced ==
  ASSUME NEW l \in Seq(Statements), l # <<>>, NEW c, NEW have, Ordered(l, have),
         Head(l).op \notin {"stub", "album"}, c.op \notin {"album", "save", "star"},
         Head(l).op \in {"song", "create"} => c.op = "create" /\ c.id = Head(l).id
  PROVE  Ordered(<<c>> \o Tail(l), have)
<1> DEFINE n == <<c>> \o Tail(l)
<1>1. /\ Len(n) = Len(l) /\ Len(l) \in Nat /\ n[1] = c /\ l[1] = Head(l)
      /\ \A i \in 2 .. Len(l) : n[i] = l[i]
  OBVIOUS
<1> HIDE DEF n
<1>2. ASSUME NEW i \in 2 .. Len(l) PROVE Ready(n, i, have)
  <2>1. Ready(l, i, have) /\ n[i] = l[i]
    BY <1>1 DEF Ordered
  <2>2. \A j \in 1 .. i - 1 : j = 1 \/ n[j] = l[j]
    BY <1>1
  <2>3. ASSUME NEW name, ArtistFirst(name, l, i, have) PROVE ArtistFirst(name, n, i, have)
    BY <1>1, <2>2, <2>3 DEF ArtistFirst
  <2>4. ASSUME NEW b, AlbumFirst(b, l, i, have) PROVE AlbumFirst(b, n, i, have)
    BY <1>1, <2>2, <2>4 DEF AlbumFirst
  <2>5. ASSUME NEW s, SongFirst(s, l, i, have) PROVE SongFirst(s, n, i, have)
    BY <1>1, <2>2, <2>5 DEF SongFirst
  <2> QED
    BY <2>1, <2>3, <2>4, <2>5 DEF Ready
<1>3. Ready(n, 1, have)
  BY <1>1 DEF Ready
<1>4. \A i \in 1 .. Len(n) : i = 1 \/ i \in 2 .. Len(l)
  BY <1>1
<1>5. \A i \in 1 .. Len(n) : Ready(n, i, have)
  BY <1>2, <1>3, <1>4
<1> QED
  BY <1>5 DEF Ordered, n

\* A statement whose row is now there is no longer needed.
LEMMA HeadDone ==
  ASSUME NEW l \in Seq(Statements), l # <<>>, NEW have, NEW more, Ordered(l, have),
         have.artists \subseteq more.artists, have.albums \subseteq more.albums,
         have.songs \subseteq more.songs, have.missed \subseteq more.missed,
         Head(l).op = "stub" /\ Head(l).name # None => ArtistIDFromName(Head(l).name) \in more.artists,
         Head(l).op = "album" => Head(l).id \in more.albums,
         Head(l).op \in {"song", "create"} => Head(l).id \in more.songs
  PROVE  Ordered(Tail(l), more)
<1> DEFINE n == Tail(l)
<1>1. /\ Len(n) = Len(l) - 1 /\ Len(l) \in Nat /\ l[1] = Head(l)
      /\ \A i \in 1 .. Len(n) : n[i] = l[i + 1]
  BY HeadTailProperties, LenProperties
<1> HIDE DEF n
<1>2. ASSUME NEW i \in 1 .. Len(n) PROVE Ready(n, i, more)
  <2>1. Ready(l, i + 1, have) /\ n[i] = l[i + 1]
    BY <1>1 DEF Ordered
  <2>2. ASSUME NEW j \in 1 .. (i + 1) - 1
        PROVE  j = 1 \/ (j - 1 \in 1 .. i - 1 /\ n[j - 1] = l[j])
    <3>1. CASE j # 1
      <4>1. j - 1 \in 1 .. i - 1 /\ j - 1 \in 1 .. Len(n) /\ (j - 1) + 1 = j
        BY <1>1, <3>1
      <4> QED
        BY <1>1, <4>1
    <3> QED
      BY <3>1
  <2>3. ASSUME NEW name, name # None, ArtistFirst(name, l, i + 1, have) PROVE ArtistFirst(name, n, i, more)
    BY <1>1, <2>2, <2>3 DEF ArtistFirst
  <2>4. ASSUME NEW b, AlbumFirst(b, l, i + 1, have) PROVE AlbumFirst(b, n, i, more)
    BY <1>1, <2>2, <2>4 DEF AlbumFirst
  <2>5. ASSUME NEW s, SongFirst(s, l, i + 1, have) PROVE SongFirst(s, n, i, more)
    BY <1>1, <2>2, <2>5 DEF SongFirst
  <2> QED
    BY <2>1, <2>3, <2>4, <2>5 DEF Ready
<1> QED
  BY <1>2 DEF Ordered, n

\* Rows are never taken away, and what a statement brings is there after it.
LEMMA RowsGrow ==
  ASSUME Typed, NEW w \in Statements, Execute(w), UNCHANGED missed
  PROVE  /\ Have.artists \subseteq Have'.artists /\ Have.albums \subseteq Have'.albums
         /\ Have.songs \subseteq Have'.songs /\ Have.missed \subseteq Have'.missed
         /\ w.op = "stub" /\ w.name # None => ArtistIDFromName(w.name) \in Have'.artists
         /\ w.op = "save" => w.id \in DOMAIN artists'
         /\ w.op = "album" => w.id \in Have'.albums
         /\ w.op = "create" => w.id \in Have'.songs
         /\ DOMAIN artists \subseteq DOMAIN artists' /\ albums \subseteq albums'
         /\ DOMAIN songs \subseteq DOMAIN songs'
<1>1. /\ DOMAIN artists \subseteq DOMAIN artists'
      /\ w.op = "stub" /\ w.name # None => ArtistIDFromName(w.name) \in DOMAIN artists'
      /\ w.op = "save" => w.id \in DOMAIN artists'
  <2>1. ASSUME NEW id, NEW u, artists' = With(artists, id, u)
        PROVE  DOMAIN artists \subseteq DOMAIN artists' /\ id \in DOMAIN artists'
    BY <2>1 DEF With
  <2>2. CASE w.op = "stub" /\ w.name # None /\ ArtistIDFromName(w.name) \notin DOMAIN artists
    <3>1. artists' = With(artists, ArtistIDFromName(w.name), NewArtist(w.name, None))
      BY <2>2 DEF Execute
    <3> QED
      BY <2>1, <2>2, <3>1
  <2>3. CASE w.op = "artist" /\ w.id \in DOMAIN artists
    <3>1. artists' = [artists EXCEPT ![w.id].name = NameOf[w.id], ![w.id].appleID = w.id]
      BY <2>3 DEF Execute
    <3> QED
      BY <2>3, <3>1
  <2>4. CASE w.op = "artist" /\ w.id \notin DOMAIN artists
    <3>1. artists' = With(artists, w.id, NewArtist(NameOf[w.id], w.id))
      BY <2>4 DEF Execute
    <3> QED
      BY <2>1, <2>4, <3>1
  <2>5. CASE w.op = "save"
    <3>1. artists' = With(artists, w.id, [name |-> w.name, appleID |-> w.appleID, synced |-> TRUE])
      BY <2>5 DEF Execute
    <3> QED
      BY <2>1, <2>5, <3>1
  <2>6. CASE w.op \notin {"save", "artist"} /\ ~(w.op = "stub" /\ w.name # None /\ ArtistIDFromName(w.name) \notin DOMAIN artists)
    BY <2>6 DEF Execute
  <2> QED
    BY <2>2, <2>3, <2>4, <2>5, <2>6
<1>2. DOMAIN songs \subseteq DOMAIN songs'
  BY SongsKeep DEF NothingForgotten
<1>3. w.op = "create" => w.id \in DOMAIN songs'
  <2>1. CASE w.op = "create" /\ w.id \notin DOMAIN songs
    <3>1. songs' = With(songs, w.id, [album |-> w.album, path |-> FALSE])
      BY <2>1 DEF Execute
    <3> QED
      BY <3>1 DEF With
  <2> QED
    BY <1>2, <2>1
<1>4. albums \subseteq albums' /\ (w.op = "album" => w.id \in albums')
  BY DEF Execute
<1> QED
  BY <1>1, <1>2, <1>3, <1>4 DEF Have

\* A row that changes: new and not synced, refreshed under its own identifier, or saved.
LEMMA ArtistRowAfter ==
  ASSUME Typed, NEW w \in Statements, Execute(w), NEW id \in DOMAIN artists'
  PROVE  \/ id \in DOMAIN artists /\ artists'[id] = artists[id] /\ ~(w.op = "save" /\ w.id = id)
         \/ ~artists'[id].synced /\ w.op # "save"
         \/ /\ w.op = "artist" /\ id = w.id /\ id \in DOMAIN artists /\ artists'[id].appleID = id
            /\ artists'[id].synced = artists[id].synced
         \/ w.op = "save" /\ id = w.id /\ artists'[id].appleID = w.appleID
<1>0. artists \in [DOMAIN artists -> ArtistRow]
  BY DEF Typed
<1>1. ASSUME NEW k, NEW u, artists' = With(artists, k, u)
      PROVE  (id = k /\ artists'[id] = u) \/ (id # k /\ id \in DOMAIN artists /\ artists'[id] = artists[id])
  BY <1>1 DEF With
<1>2. CASE w.op = "stub" /\ w.name # None /\ ArtistIDFromName(w.name) \notin DOMAIN artists
  <2> DEFINE u == NewArtist(w.name, None)
             k == ArtistIDFromName(w.name)
  <2>1. artists' = With(artists, k, u) /\ ~u.synced
    BY <1>2 DEF Execute, NewArtist
  <2> HIDE DEF u, k
  <2>2. artists'[id] = u \/ (id \in DOMAIN artists /\ artists'[id] = artists[id])
    BY <1>1, <2>1
  <2> QED
    BY <1>2, <2>1, <2>2
<1>3. CASE w.op = "artist" /\ w.id \in DOMAIN artists
  <2>1. artists' = [artists EXCEPT ![w.id].name = NameOf[w.id], ![w.id].appleID = w.id]
    BY <1>3 DEF Execute
  <2>2. CASE id = w.id
    BY <1>0, <1>3, <2>1, <2>2 DEF ArtistRow
  <2>3. CASE id # w.id
    BY <1>0, <1>3, <2>1, <2>3
  <2> QED
    BY <2>2, <2>3
<1>4. CASE w.op = "artist" /\ w.id \notin DOMAIN artists
  <2> DEFINE u == NewArtist(NameOf[w.id], w.id)
             k == w.id
  <2>1. artists' = With(artists, k, u) /\ ~u.synced
    BY <1>4 DEF Execute, NewArtist
  <2> HIDE DEF u, k
  <2>2. artists'[id] = u \/ (id \in DOMAIN artists /\ artists'[id] = artists[id])
    BY <1>1, <2>1
  <2> QED
    BY <1>4, <2>1, <2>2
<1>5. CASE w.op = "save"
  <2> DEFINE u == [name |-> w.name, appleID |-> w.appleID, synced |-> TRUE]
  <2>1. artists' = With(artists, w.id, u) /\ u.appleID = w.appleID
    BY <1>5 DEF Execute
  <2> HIDE DEF u
  <2> QED
    BY <1>1, <1>5, <2>1
<1>6. CASE w.op \notin {"save", "artist"} /\ ~(w.op = "stub" /\ w.name # None /\ ArtistIDFromName(w.name) \notin DOMAIN artists)
  <2>1. artists' = artists
    BY <1>6 DEF Execute
  <2> QED
    BY <1>6, <2>1
<1> QED
  BY <1>2, <1>3, <1>4, <1>5, <1>6

Discographies ==
  \A id \in DOMAIN artists : artists[id].synced /\ artists[id].appleID # None =>
    {l[1] : l \in {k \in links : k[2] = id}} = Discography[artists[id].appleID]

LEMMA DiscographiesKeep ==
  ASSUME Typed, RightArtist, Discographies, OwnColumn, NEW w \in Statements, Execute(w),
         w.op = "save" => SaveWhole(w)
  PROVE  Discographies' /\ OwnColumn'
<1>1. w.op # "save" => links' = links
  BY DEF Execute
<1>2. w.op = "save" => w.id \in ArtistIDs /\ w.albums \subseteq Albums /\ SaveWhole(w)
  BY StatementTypes
<1>3. ASSUME NEW id \in DOMAIN artists', artists'[id].synced,
             artists'[id].appleID # None
      PROVE  {l[1] : l \in {k \in links' : k[2] = id}} = Discography[artists'[id].appleID]
  <2> DEFINE Listed(S) == {l[1] : l \in {k \in S : k[2] = id}}
  <2>1. CASE id \in DOMAIN artists /\ artists'[id] = artists[id] /\ ~(w.op = "save" /\ w.id = id)
    <3>1. {k \in links' : k[2] = id} = {k \in links : k[2] = id}
      <4>1. CASE w.op = "save" /\ w.relink
        <5>1. links' = {l \in links : l[2] # w.id} \cup {<<b, w.id>> : b \in w.albums}
          BY <4>1 DEF Execute
        <5>2. w.id # id
          BY <2>1, <4>1
        <5> QED
          BY <5>1, <5>2
      <4>2. CASE ~(w.op = "save" /\ w.relink)
        BY <4>2 DEF Execute
      <4> QED
        BY <4>1, <4>2
    <3>2. Listed(links) = Discography[artists[id].appleID]
      BY <1>3, <2>1 DEF Discographies
    <3> QED
      BY <2>1, <3>1, <3>2
  <2>2. CASE /\ w.op = "artist" /\ id = w.id /\ id \in DOMAIN artists /\ artists'[id].appleID = id
             /\ artists'[id].synced = artists[id].synced
    <3>1. id \in AppleArtists
      BY <2>2, StatementTypes
    <3>2. artists[id].synced /\ artists[id].appleID = id
      BY <1>3, <2>2, <3>1 DEF OwnColumn
    <3>3. Listed(links) = Discography[artists[id].appleID]
      BY <1>3, <2>2, <3>2 DEF Discographies
    <3> QED
      BY <1>1, <2>2, <3>2, <3>3
  <2>3. CASE w.op = "save" /\ id = w.id /\ artists'[id].appleID = w.appleID
    <3>1. w.relink /\ w.albums = Discography[w.appleID]
      BY <1>2, <1>3, <2>3 DEF SaveWhole
    <3>2. links' = {l \in links : l[2] # w.id} \cup {<<b, w.id>> : b \in w.albums}
      BY <2>3, <3>1 DEF Execute
    <3>3. {k \in links' : k[2] = id} = {<<b, id>> : b \in w.albums}
      BY <2>3, <3>2
    <3>4. \A x : x \in {l[1] : l \in {<<b, id>> : b \in w.albums}} <=> x \in w.albums
      <4>1. \A b : <<b, id>>[1] = b
        OBVIOUS
      <4>2. \A x : x \in {l[1] : l \in {<<b, id>> : b \in w.albums}}
                     <=> \E b \in w.albums : x = <<b, id>>[1]
        BY Zenon
      <4> QED
        BY <4>1, <4>2
    <3>5. {l[1] : l \in {<<b, id>> : b \in w.albums}} = w.albums
      BY <3>4
    <3> QED
      BY <2>3, <3>1, <3>3, <3>5
  <2> QED
    BY <1>3, <2>1, <2>2, <2>3, ArtistRowAfter
<1>4. ASSUME NEW id \in DOMAIN artists' \cap AppleArtists, artists'[id].synced
      PROVE  artists'[id].appleID = id
  <2>1. CASE id \in DOMAIN artists /\ artists'[id] = artists[id]
    BY <1>4, <2>1 DEF OwnColumn
  <2>2. CASE w.op = "save" /\ id = w.id /\ artists'[id].appleID = w.appleID
    BY <1>2, <2>2 DEF SaveWhole
  <2> QED
    BY <1>4, <2>1, <2>2, ArtistRowAfter
<1> QED
  BY <1>3, <1>4 DEF Discographies, OwnColumn

-----------------------------------------------------------------------------
(* Every step *)

HaveGrows ==
  /\ Have.artists \subseteq Have'.artists /\ Have.albums \subseteq Have'.albums
  /\ Have.songs \subseteq Have'.songs /\ Have.missed \subseteq Have'.missed

\* What the other requests still have to write waits unharmed.
LEMMA OthersInOrder ==
  ASSUME RefInv, HaveGrows, NEW r \in Requests, NEW l, todo \in [Requests -> Seq(Statements)],
         todo' = [todo EXCEPT ![r] = l], Ordered(l, Have')
  PROVE  \A q \in Requests : Ordered(todo'[q], Have')
<1>1. ASSUME NEW q \in Requests, q # r PROVE Ordered(todo'[q], Have')
  <2>1. Ordered(todo[q], Have)
    BY DEF RefInv
  <2>2. Ordered(todo[q], Have')
    BY <2>1, OrderedGrows DEF HaveGrows
  <2> QED
    BY <1>1, <2>2
<1>2. todo'[r] = l
  OBVIOUS
<1> QED
  BY <1>1, <1>2

\* Steps that write no row.
LEMMA TablesStay ==
  ASSUME RefInv, UNCHANGED <<artists, albums, links, starred>>, DOMAIN songs' = DOMAIN songs,
         missed \subseteq missed', \A r \in Requests : Ordered(todo'[r], Have')
  PROVE  RefInv'
<1>1. OwnColumn' /\ (starred \subseteq {"album", "artist", "song"} \X Items)'
  BY DEF RefInv, OwnColumn
<1>2. LoadStarred' = LoadStarred
  BY DEF LoadStarred, Stored
<1>3. \A type, item : Accounted(type, item) => Accounted(type, item)'
  BY DEF Accounted, Stored
<1>4. ReferencesResolve'
  BY <1>2, <1>3 DEF RefInv, ReferencesResolve, Stored
<1> QED
  BY <1>1, <1>4 DEF RefInv

LEMMA TodoStays ==
  ASSUME RefInv, UNCHANGED <<artists, albums, links, starred, missed, todo>>,
         DOMAIN songs' = DOMAIN songs
  PROVE  RefInv'
<1>1. Have' = Have
  BY DEF Have
<1>2. \A r \in Requests : Ordered(todo'[r], Have')
  BY <1>1 DEF RefInv
<1> QED
  BY <1>2, TablesStay

\* A request sets out to write a list that is in order.
LEMMA ListSet ==
  ASSUME Good, RefInv, UNCHANGED <<artists, albums, songs, links, starred>>, missed \subseteq missed',
         NEW r \in Requests, NEW l, todo' = [todo EXCEPT ![r] = l], Ordered(l, Have')
  PROVE  RefInv'
<1>1. HaveGrows
  BY DEF HaveGrows, Have
<1>2. \A q \in Requests : Ordered(todo'[q], Have')
  BY <1>1, OthersInOrder DEF Good, Working
<1> QED
  BY <1>2, TablesStay

\* What is starred, and what an album or a link refers to, after one statement.
LEMMA StatementResolves ==
  ASSUME Good, RefInv, NEW w \in Statements, Execute(w), UNCHANGED missed,
         NEW l, l[1] = w, Ready(l, 1, Have)
  PROVE  /\ \A b \in albums' : Credit[b] # None => Accounted("artist", ArtistIDFromName(Credit[b]))'
         /\ \A k \in links' : Accounted("album", k[1])' /\ Stored("artist", k[2])'
         /\ ({row \in starred : row[1] # "artist"} \subseteq LoadStarred \cup missed)'
         /\ (starred \subseteq {"album", "artist", "song"} \X Items)'
<1>1. /\ DOMAIN artists \subseteq DOMAIN artists' /\ albums \subseteq albums'
      /\ DOMAIN songs \subseteq DOMAIN songs' /\ (w.op = "save" => w.id \in DOMAIN artists')
  BY RowsGrow DEF Good
<1>2. \A item : \A type \in {"album", "artist", "song"} : Accounted(type, item) => Accounted(type, item)'
  BY <1>1 DEF Accounted, Stored
<1>3. /\ w.op = "album" /\ Credit[w.id] # None => Accounted("artist", ArtistIDFromName(Credit[w.id]))
      /\ w.op = "save" /\ w.relink => \A b \in w.albums : Accounted("album", b)
      /\ w.op = "star" => \/ w.row[1] = "artist" \/ w.row \in missed
                          \/ w.row[1] = "album" /\ Accounted("album", w.row[2])
                          \/ w.row[1] = "song" /\ Accounted("song", w.row[2])
  BY DEF Ready, ArtistFirst, AlbumFirst, SongFirst, Have, Accounted, Stored
<1>4. ASSUME NEW b \in albums', Credit[b] # None
      PROVE  Accounted("artist", ArtistIDFromName(Credit[b]))'
  <2>1. b \in albums \/ (w.op = "album" /\ b = w.id)
    BY <1>4 DEF Execute
  <2>2. Accounted("artist", ArtistIDFromName(Credit[b]))
    BY <1>3, <1>4, <2>1 DEF RefInv, ReferencesResolve
  <2> QED
    BY <1>2, <2>2
<1>5. ASSUME NEW k \in links' PROVE Accounted("album", k[1])' /\ Stored("artist", k[2])'
  <2>1. CASE k \in links
    <3>1. Accounted("album", k[1]) /\ Stored("artist", k[2])
      BY <2>1 DEF RefInv, ReferencesResolve
    <3> QED
      BY <1>1, <1>2, <3>1 DEF Stored
  <2>2. CASE k \notin links
    <3>1. w.op = "save" /\ w.relink
      BY <2>2 DEF Execute
    <3>2. links' = {x \in links : x[2] # w.id} \cup {<<b, w.id>> : b \in w.albums}
      BY <3>1 DEF Execute
    <3>3. PICK b \in w.albums : k = <<b, w.id>>
      BY <2>2, <3>2
    <3>4. Accounted("album", k[1])'
      BY <1>2, <1>3, <3>1, <3>3
    <3> QED
      BY <1>1, <3>1, <3>3, <3>4 DEF Stored
  <2> QED
    BY <2>1, <2>2
<1>6. (starred \subseteq {"album", "artist", "song"} \X Items)'
  <2>1. w.op = "star" => w.row \in {"album", "artist", "song"} \X Items
    BY DEF Statements, Hints, Saves
  <2>2. ASSUME NEW row \in starred' PROVE row \in starred \/ (w.op = "star" /\ row = w.row)
    BY DEF Execute
  <2> QED
    BY <2>1, <2>2 DEF RefInv
<1>7. ASSUME NEW row \in starred', row[1] # "artist", row \notin missed'
      PROVE  Stored(row[1], row[2])'
  <2>1. row[1] \in {"album", "song"} /\ row = <<row[1], row[2]>>
    BY <1>6, <1>7
  <2>2. CASE row \in starred
    <3>1. Accounted(row[1], row[2])
      BY <1>7, <2>1, <2>2 DEF RefInv, ReferencesResolve, LoadStarred, Accounted
    <3> QED
      BY <1>2, <1>7, <2>1, <3>1 DEF Accounted
  <2>3. CASE w.op = "star" /\ row = w.row
    <3>1. Accounted(row[1], row[2])
      BY <1>3, <1>7, <2>1, <2>3
    <3> QED
      BY <1>2, <1>7, <2>1, <3>1 DEF Accounted
  <2>4. row \in starred \/ (w.op = "star" /\ row = w.row)
    BY DEF Execute
  <2> QED
    BY <2>2, <2>3, <2>4
<1>8. ({row \in starred : row[1] # "artist"} \subseteq LoadStarred \cup missed)'
  BY <1>7 DEF LoadStarred
<1> QED
  BY <1>4, <1>5, <1>6, <1>8

LEMMA WriteResolves ==
  ASSUME Good, RefInv, NEW r \in Requests, Write(r)
  PROVE  RefInv'
<1> DEFINE l == todo[r]
           w == Head(l)
<1>1. l \in Seq(Statements) /\ w \in Statements /\ l # <<>> /\ l[1] = w /\ Len(l) >= 1
  BY DEF Good, Working, Write
<1>2. Execute(w) /\ UNCHANGED missed /\ todo' = [todo EXCEPT ![r] = Then(w) \o Tail(l)]
  BY DEF Write
<1>3. Ordered(l, Have) /\ Ready(l, 1, Have)
  BY <1>1 DEF RefInv, Ordered
<1> HIDE DEF l, w
<1>4. HaveGrows
  BY <1>1, <1>2, RowsGrow DEF HaveGrows, Good
<1>5. Ordered(l, Have')
  BY <1>3, <1>4, OrderedGrows DEF HaveGrows
<1>6. ASSUME NEW c, Then(w) = <<c>>, w.op \notin {"stub", "album"},
             c.op \notin {"album", "save", "star"},
             w.op \in {"song", "create"} => c.op = "create" /\ c.id = w.id
      PROVE  Ordered(Then(w) \o Tail(l), Have')
  BY <1>1, <1>5, <1>6, HeadReplaced DEF w
<1>7. Ordered(Then(w) \o Tail(l), Have')
  <2>1. CASE w.op = "song" /\ w.id \notin DOMAIN songs
    <3> DEFINE c == [w EXCEPT !.op = "create"]
    <3>1. Then(w) = <<c>>
      BY <2>1 DEF Then
    <3>2. c.op = "create" /\ c.id = w.id
      <4>1. w \in [op : {"song", "create"}, id : Songs, album : MayBe(Albums)]
        BY <1>1, <2>1 DEF Statements, Hints, Saves
      <4> QED
        BY <4>1
    <3> HIDE DEF c
    <3> QED
      BY <1>6, <2>1, <3>1, <3>2
  <2>2. CASE w.op = "ref" /\ w.name # None /\ ~Known(ArtistIDFromName(w.name))
    <3> DEFINE c == [op |-> "hint", key |-> ArtistIDFromName(w.name), name |-> w.name, appleID |-> None]
    <3>1. Then(w) = <<c>> /\ c.op = "hint"
      BY <2>2 DEF Then
    <3> HIDE DEF c
    <3> QED
      BY <1>6, <2>2, <3>1
  <2>3. CASE ~(w.op = "song" /\ w.id \notin DOMAIN songs) /\ ~(w.op = "ref" /\ w.name # None /\ ~Known(ArtistIDFromName(w.name)))
    <3>1. Then(w) = <<>> /\ Then(w) \o Tail(l) = Tail(l)
      BY <1>1, <2>3 DEF Then
    <3>2. /\ w.op = "stub" /\ w.name # None => ArtistIDFromName(w.name) \in Have'.artists
          /\ w.op = "album" => w.id \in Have'.albums
          /\ w.op = "create" => w.id \in Have'.songs
      BY <1>1, <1>2, RowsGrow DEF Good
    <3>3. w.op = "song" => w.id \in Have'.songs
      BY <1>4, <2>3 DEF HaveGrows, Have
    <3>4. Ordered(Tail(l), Have')
      BY <1>1, <1>3, <1>4, <3>2, <3>3, HeadDone DEF HaveGrows, w
    <3> QED
      BY <3>1, <3>4
  <2> QED
    BY <2>1, <2>2, <2>3
<1>8. \A q \in Requests : Ordered(todo'[q], Have')
  BY <1>2, <1>4, <1>7, OthersInOrder DEF Good, Working
<1>9. Discographies' /\ OwnColumn'
  <2>1. Discographies /\ OwnColumn
    BY DEF RefInv, ReferencesResolve, Discographies
  <2>2. w.op = "save" => SaveWhole(w)
    BY <1>1, <1>3 DEF Ready
  <2> QED
    BY <1>1, <1>2, <2>1, <2>2, DiscographiesKeep DEF Good
<1>10. /\ \A b \in albums' : Credit[b] # None => Accounted("artist", ArtistIDFromName(Credit[b]))'
       /\ \A k \in links' : Accounted("album", k[1])' /\ Stored("artist", k[2])'
       /\ ({row \in starred : row[1] # "artist"} \subseteq LoadStarred \cup missed)'
       /\ (starred \subseteq {"album", "artist", "song"} \X Items)'
  BY <1>1, <1>2, <1>3, StatementResolves
<1>11. ReferencesResolve'
  BY <1>9, <1>10 DEF ReferencesResolve, Discographies
<1> QED
  BY <1>8, <1>9, <1>10, <1>11 DEF RefInv

\* What a refused insert was to bring counts as missed; a refused update inserts.
LEMMA WriteFailsResolves ==
  ASSUME Good, RefInv, NEW r \in Requests, WriteFails(r)
  PROVE  RefInv'
<1> DEFINE l == todo[r]
           w == Head(l)
           c == [w EXCEPT !.op = "create"]
<1>1. l \in Seq(Statements) /\ w \in Statements /\ l # <<>> /\ l[1] = w
  BY DEF Good, Working, WriteFails
<1>2. /\ todo' = [todo EXCEPT ![r] = (IF w.op = "song" THEN <<c>> ELSE <<>>) \o Tail(l)]
      /\ ByDatabase(w) /\ missed' = missed \cup RowOf(w)
      /\ UNCHANGED <<artists, albums, songs, links, starred>>
  BY DEF WriteFails
<1>3. HaveGrows
  BY <1>2 DEF HaveGrows, Have
<1> HIDE DEF l, w
<1>4. Ordered(l, Have) /\ Ordered(l, Have')
  BY <1>3, OrderedGrows DEF RefInv, HaveGrows, l
<1>5. CASE w.op = "song"
  <2>1. c.op = "create" /\ c.id = w.id
    <3>1. w \in [op : {"song", "create"}, id : Songs, album : MayBe(Albums)]
      BY <1>1, <1>5 DEF Statements, Hints, Saves
    <3> QED
      BY <3>1
  <2> HIDE DEF c
  <2>2. Ordered(<<c>> \o Tail(l), Have')
    BY <1>1, <1>4, <1>5, <2>1, HeadReplaced DEF w
  <2> QED
    BY <1>2, <1>5, <2>2, ListSet
<1>6. CASE w.op # "song"
  <2>1. <<>> \o Tail(l) = Tail(l)
    BY <1>1
  <2>2. w.op = "stub" /\ w.name # None => ArtistIDFromName(w.name) \in Have'.artists
    <3>1. ASSUME w.op = "stub", w.name # None PROVE ArtistIDFromName(w.name) \in ArtistIDs
      BY <1>1, <3>1, StatementTypes, NameIDs DEF MayBe
    <3> QED
      BY <1>2, <3>1 DEF RowOf, Have
  <2>3. w.op = "album" => w.id \in Have'.albums
    BY <1>1, <1>2, StatementTypes DEF RowOf, Have
  <2>4. w.op = "create" => w.id \in Have'.songs
    BY <1>1, <1>2, StatementTypes DEF RowOf, Have
  <2>5. Ordered(Tail(l), Have')
    BY <1>1, <1>3, <1>4, <1>6, <2>2, <2>3, <2>4, HeadDone DEF HaveGrows, w
  <2> QED
    BY <1>2, <1>6, <2>1, <2>5, ListSet
<1> QED
  BY <1>5, <1>6

LEMMA SearchResolves ==
  ASSUME Good, RefInv, NEW r \in Requests, NEW A \in SUBSET Albums, NEW S \in SUBSET Songs,
         NEW B \in Answers, NEW shown \in SUBSET B,
         Search(r, [albums |-> A, songs |-> S, artists |-> B], shown)
  PROVE  RefInv'
<1> DEFINE found == [albums |-> A, songs |-> S, artists |-> B]
           l == Remember(shown) \o
                  IF syncOnSearch THEN SyncSearchResults(found) ELSE ArtistRefs(A) \o ArtistRefs(S)
<1>1. /\ todo' = [todo EXCEPT ![r] = l]
      /\ UNCHANGED <<artists, albums, songs, links, starred, missed>>
  BY DEF Search, shared, tables
<1>2. B \in SUBSET AppleArtists /\ shown \in SUBSET AppleArtists
  BY DEF Answers
<1>3. /\ Ordered(Remember(shown) \o SyncSearchResults(found), Have')
      /\ Ordered(Remember(shown) \o (ArtistRefs(A) \o ArtistRefs(S)), Have')
  BY <1>2, SearchInOrder
<1>4. Ordered(l, Have')
  BY <1>3
<1> HIDE DEF l
<1> QED
  BY <1>1, <1>4, ListSet

LEMMA AlbumOrSongResolves ==
  ASSUME Good, RefInv, NEW r \in Requests,
         (\E b \in Albums : GetAlbum(r, b)) \/ (\E s \in Songs : GetSong(r, s))
  PROVE  RefInv'
<1>1. ASSUME NEW b \in Albums, GetAlbum(r, b) PROVE RefInv'
  <2>1. PICK tracks \in SUBSET TracksOf(b) : todo' = [todo EXCEPT ![r] = SyncAlbum(b, tracks)]
    BY <1>1 DEF GetAlbum
  <2>2. UNCHANGED <<artists, albums, songs, links, starred, missed>>
    BY <1>1 DEF GetAlbum, shared, tables
  <2>3. Ordered(SyncAlbum(b, tracks), Have')
    BY AlbumAndTracks DEF TracksOf
  <2> QED
    BY <2>1, <2>2, <2>3, ListSet
<1>2. ASSUME NEW s \in Songs, GetSong(r, s) PROVE RefInv'
  <2>1. todo' = [todo EXCEPT ![r] = LoadSong(s)]
        /\ UNCHANGED <<artists, albums, songs, links, starred, missed>>
    BY <1>2 DEF GetSong, shared, tables
  <2>2. Ordered(LoadSong(s), Have')
    BY PlainLists, OneIsFinite DEF LoadSong
  <2> QED
    BY <2>1, <2>2, ListSet
<1> QED
  BY <1>1, <1>2

LEMMA StarResolves ==
  ASSUME Good, RefInv, NEW r \in Requests, NEW item \in Items, NEW type \in Types(item),
         Star(r, type, item) \/ Unstar(r, type, item)
  PROVE  RefInv'
<1> DEFINE star == [op |-> "star", row |-> <<type, item>>]
<1>1. type \in {"album", "artist", "song"} /\ (type = "album" => item \in Albums)
  BY AlbumTypes DEF Good
<1>2. UNCHANGED <<artists, albums, songs, links, starred>>
  BY DEF Star, Unstar, shared, tables
<1>3. CASE Unstar(r, type, item)
  <2>1. todo' = [todo EXCEPT ![r] = <<[op |-> "unstar", row |-> <<type, item>>]>>] /\ UNCHANGED missed
    BY <1>3 DEF Unstar, shared, tables
  <2>2. Ordered(<<[op |-> "unstar", row |-> <<type, item>>]>>, Have')
    BY DEF Ordered, Ready
  <2> QED
    BY <1>2, <2>1, <2>2, ListSet
<1>4. CASE Star(r, type, item)
  <2>1. /\ (type = "artist" \/ <<type, item>> \in Have'.missed) => Ordered(<<star>>, Have')
        /\ type = "album" /\ item \in Have'.albums => Ordered(<<star>>, Have')
        /\ type = "song" /\ item \in Have'.songs => Ordered(<<star>>, Have')
        /\ type = "song" /\ item \in Songs => Ordered(LoadSong(item) \o <<star>>, Have')
        /\ type = "album" /\ item \in Albums =>
             \A tracks \in SUBSET Songs : Ordered(SyncAlbum(item, tracks) \o <<star>>, Have')
    BY <1>1, StarInOrder
  <2> HIDE DEF star
  <2>2. CASE /\ type = "artist" \/ Stored(type, item)
             /\ todo' = [todo EXCEPT ![r] = <<star>>] /\ UNCHANGED missed
    <3>1. Ordered(<<star>>, Have')
      <4>1. CASE type = "artist"
        BY <2>1, <4>1
      <4>2. CASE type = "album" /\ Stored(type, item)
        <5>1. item \in Have'.albums
          BY <1>2, <4>2 DEF Stored, Have
        <5> QED
          BY <2>1, <4>2, <5>1
      <4>3. CASE type = "song" /\ Stored(type, item)
        <5>1. item \in Have'.songs
          BY <1>2, <4>3 DEF Stored, Have
        <5> QED
          BY <2>1, <4>3, <5>1
      <4> QED
        BY <1>1, <2>2, <4>1, <4>2, <4>3
    <3> QED
      BY <1>2, <2>2, <3>1, ListSet
  <2>3. CASE todo' = [todo EXCEPT ![r] = <<star>>] /\ missed' = missed \cup {<<type, item>>}
    <3>1. Ordered(<<star>>, Have')
      BY <2>1, <2>3 DEF Have
    <3> QED
      BY <1>2, <2>3, <3>1, ListSet
  <2>4. CASE /\ type = "song" /\ item \in Songs /\ UNCHANGED missed
             /\ todo' = [todo EXCEPT ![r] = LoadSong(item) \o <<star>>]
    BY <1>2, <2>1, <2>4, ListSet
  <2>5. CASE /\ type = "album" /\ UNCHANGED missed
             /\ \E tracks \in SUBSET TracksOf(item) :
                  todo' = [todo EXCEPT ![r] = SyncAlbum(item, tracks) \o <<star>>]
    <3>1. PICK tracks \in SUBSET TracksOf(item) :
            todo' = [todo EXCEPT ![r] = SyncAlbum(item, tracks) \o <<star>>]
      BY <2>5
    <3>2. Ordered(SyncAlbum(item, tracks) \o <<star>>, Have')
      BY <1>1, <2>1, <2>5 DEF TracksOf
    <3> QED
      BY <1>2, <2>5, <3>1, <3>2, ListSet
  <2>6. \A found \in Reads(Stored(type, item)) : found => Stored(type, item)
    BY DEF Reads
  <2> QED
    BY <1>4, <2>2, <2>3, <2>4, <2>5, <2>6, Zenon DEF Star, star
<1> QED
  BY <1>3, <1>4

LEMMA AskResolves ==
  ASSUME Good, RefInv, NEW r \in Requests, Ask(r)
  PROVE  RefInv'
<1>1. ASSUME NEW A \in SUBSET Albums, NEW S \in SUBSET Songs, NEW B \in Answers,
             NEW shown \in SUBSET B, Search(r, [albums |-> A, songs |-> S, artists |-> B], shown)
      PROVE  RefInv'
  BY <1>1, SearchResolves
<1>2. CASE (\E b \in Albums : GetAlbum(r, b)) \/ (\E s \in Songs : GetSong(r, s))
  BY <1>2, AlbumOrSongResolves
<1>3. ASSUME NEW item \in Starrable, NEW type \in Types(item),
             Star(r, type, item) \/ Unstar(r, type, item)
      PROVE  RefInv'
  BY <1>3, StarResolves, StarrableAssumption DEF Items
<1>4. ASSUME NEW id, NEW kind, AskArtist(r, kind, id) PROVE RefInv'
  <2>1. UNCHANGED <<artists, albums, songs, links, starred, missed, todo>>
    BY <1>4 DEF AskArtist, shared, tables
  <2> QED
    BY <2>1, TodoStays
<1> QED
  BY <1>1, <1>2, <1>3, <1>4, Zenon DEF Ask

LEMMA AskAppleResolves ==
  ASSUME Good, RefInv, NEW r \in Requests, AskApple(r)
  PROVE  RefInv'
<1> DEFINE a == artist[r]
<1>1. pc[r] = "sync" /\ UNCHANGED <<artists, albums, songs, links, starred, missed>>
  BY DEF AskApple, shared, tables
<1>2. a \in Artist /\ a.id \in ArtistIDs /\ Matches(a.id, a.appleID)
  BY <1>1 DEF Good, Working, Typed, RightArtist
<1>3. CASE UNCHANGED todo
  BY <1>1, <1>3, TodoStays
<1>4. ASSUME NEW appleID \in AppleIDs(a), appleID = None,
             todo' = [todo EXCEPT ![r] = SaveArtist(a, a.name, None)]
      PROVE  RefInv'
  <2>1. Ordered(SaveArtist(a, a.name, None), Have')
    BY <1>2, <1>4, SaveInOrder
  <2> QED
    BY <1>1, <1>4, <2>1, ListSet
<1>5. ASSUME NEW appleID \in AppleIDs(a), appleID \in AppleArtists,
             todo' = [todo EXCEPT ![r] = SyncAlbums(Discography[appleID])
                                           \o SaveArtist(a, NameOf[appleID], appleID)]
      PROVE  RefInv'
  <2>1. Ordered(SyncAlbums(Discography[appleID]) \o SaveArtist(a, NameOf[appleID], appleID), Have')
    BY <1>2, <1>5, SaveInOrder
  <2> QED
    BY <1>1, <1>5, <2>1, ListSet
<1> QED
  BY <1>3, <1>4, <1>5 DEF AskApple

LEMMA AskAboutResolves ==
  ASSUME Good, RefInv, NEW r \in Requests, NEW similar \in Answers, NEW top \in SUBSET Songs,
         NEW related \in BOOLEAN, AskAbout(r, similar, top, related)
  PROVE  RefInv'
<1> DEFINE a == Named(r)
           searched == a.appleID = None /\ a.name # None /\ a.id = ArtistIDFromName(a.name)
           rest == IF task[r].kind = "info" THEN Remember(similar)
                   ELSE IF syncOnSearch THEN SyncSongs(top, related) ELSE ArtistRefs(top)
<1>1. pc[r] = "ask" /\ UNCHANGED <<artists, albums, songs, links, starred, missed>>
  BY DEF AskAbout, shared, tables
<1>2. CASE UNCHANGED todo
  BY <1>1, <1>2, TodoStays
<1>3. rest \in Seq(Statements) /\ Ordered(rest, Have')
  <2>1. similar \in SUBSET AppleArtists
    BY DEF Answers
  <2> QED
    BY <2>1, ListHints, ListSongs, ListRefs, PlainLists
<1>4. ASSUME NEW appleID \in AppleIDs(a) \cap AppleArtists,
             todo' = [todo EXCEPT ![r] =
               (IF searched THEN <<[HintFor(appleID, a.id) EXCEPT !.name = a.name]>> ELSE <<>>) \o rest]
      PROVE  RefInv'
  <2> HIDE DEF rest
  <2>1. CASE searched
    <3> DEFINE h == [HintFor(appleID, a.id) EXCEPT !.name = a.name]
    <3>1. a.name \in Names /\ a.id \in ArtistIDs /\ Matches(a.id, appleID)
      BY <1>1, <2>1, NamedKeeps, AppleIDsRight DEF MayBe
    <3>2. h = [op |-> "hint", key |-> a.id, name |-> a.name, appleID |-> appleID]
      BY DEF HintFor
    <3>3. h \in Statements
      BY <1>4, <3>1, <3>2, OneHint DEF MayBe
    <3>4. h.op = "hint"
      BY <3>2
    <3>5. todo' = [todo EXCEPT ![r] = <<h>> \o rest]
      BY <1>4, <2>1
    <3> HIDE DEF h
    <3>6. <<h>> \in Seq(Statements) /\ Ordered(<<h>>, Have')
      BY <3>3, <3>4 DEF Ordered, Ready
    <3>7. Ordered(<<h>> \o rest, Have')
      BY <1>3, <3>6, BothInOrder
    <3> QED
      BY <1>1, <3>5, <3>7, ListSet
  <2>2. CASE ~searched
    <3>1. <<>> \o rest = rest
      BY <1>3
    <3> QED
      BY <1>1, <1>3, <1>4, <2>2, <3>1, ListSet
  <2> QED
    BY <2>1, <2>2
<1> QED
  BY <1>2, <1>4 DEF AskAbout

LEMMA StepResolves ==
  ASSUME Good, RefInv, NEW r \in Requests, Step(r)
  PROVE  RefInv'
<1>1. CASE Write(r)
  BY <1>1, WriteResolves
<1>2. CASE FindRow(r) \/ FindHint(r) \/ GroupDo(r) \/ LeaveGroup(r)
  <2>1. UNCHANGED <<artists, albums, songs, links, starred, missed, todo>>
    BY <1>2 DEF FindRow, FindHint, GroupDo, LeaveGroup, shared, tables
  <2> QED
    BY <2>1, TodoStays
<1>3. CASE AskApple(r)
  BY <1>3, AskAppleResolves
<1>4. CASE WriteFails(r)
  BY <1>4, WriteFailsResolves
<1>5. ASSUME NEW similar \in Answers, NEW top \in SUBSET Songs, NEW related \in BOOLEAN,
             AskAbout(r, similar, top, related)
      PROVE  RefInv'
  BY <1>5, AskAboutResolves
<1> QED
  BY <1>1, <1>2, <1>3, <1>4, <1>5, Zenon DEF Step

LEMMA NextResolves ==
  ASSUME Good, RefInv, [Next]_vars
  PROVE  RefInv'
<1>1. ASSUME NEW key \in ArtistIDs, HintAges(key) PROVE RefInv'
  <2>1. UNCHANGED <<artists, albums, songs, links, starred, missed, todo>>
    BY <1>1 DEF HintAges, tables
  <2> QED
    BY <2>1, TodoStays
<1>2. ASSUME NEW s \in Songs, MarkDownloaded(s) PROVE RefInv'
  <2>1. UNCHANGED <<artists, albums, links, starred, missed, todo>> /\ DOMAIN songs' = DOMAIN songs
    BY <1>2 DEF MarkDownloaded
  <2> QED
    BY <2>1, TodoStays
<1>3. CASE UNCHANGED vars
  <2>1. UNCHANGED <<artists, albums, songs, links, starred, missed, todo>>
    BY <1>3 DEF vars, shared, tables
  <2> QED
    BY <2>1, TodoStays
<1> QED
  BY <1>1, <1>2, <1>3, AskResolves, StepResolves, Zenon DEF Next

LEMMA InitResolves ==
  ASSUME Init
  PROVE  RefInv
<1>1. /\ DOMAIN artists = {} /\ DOMAIN songs = {} /\ albums = {} /\ links = {} /\ starred = {}
      /\ todo = [r \in Requests |-> <<>>]
  BY DEF Init
<1>2. \A r \in Requests : Ordered(todo[r], Have)
  BY <1>1 DEF Ordered
<1> QED
  BY <1>1, <1>2 DEF RefInv, ReferencesResolve, OwnColumn

\* However the statements of several requests fall, and whichever of them the database
\* refuses, an album's artist, a link's album and a starred item have a row unless the
\* very insert of that row was refused (or, of a starred item, Apple did not answer); a
\* link's artist has one, and the page of a synced artist lists Apple's albums.
\* (syncAlbums writes the stub before the album, SyncArtist the albums before the links
\* and links and row in one transaction, ensureStarItem the item before the star.)
THEOREM ReferencesHold == Spec => []ReferencesResolve
<1>1. Init => Good /\ RefInv
  BY InitGood, InitResolves
<1>2. (Good /\ RefInv) /\ [Next]_vars => (Good /\ RefInv)'
  BY NextKeeps, NextResolves
<1>3. RefInv => ReferencesResolve
  BY DEF RefInv
<1> QED
  BY <1>1, <1>2, <1>3, PTL DEF Spec
=============================================================================
