----------------------------- MODULE Catalogue ------------------------------
(* The catalogue tables and the requests that fill them from Apple Music.    *)
(* A request reads, asks Apple, and then makes a list of database statements *)
(* and cache entries one after another; statements of other requests, and    *)
(* the downloader's marker, fall between any two of them.  A statement that  *)
(* the database refuses is mostly taken no notice of, and a query that fails *)
(* for one that found nothing.  Columns that no property tells apart         *)
(* (titles, artwork, counts, dates) are left out.                            *)
EXTENDS Integers, Sequences, SequencesExt, FiniteSets

CONSTANTS Requests,
          Albums, Songs, AppleArtists,   \* Apple's identifiers
          Names,                         \* artists' names, trimmed and in lower case
          NameOf,                        \* Apple artist -> its name
          Credit,                        \* album or song -> the name it is credited to, if any
          AlbumOf,                       \* song -> its album
          Discography,                   \* Apple artist -> its albums
          Starrable,                     \* the items that clients star
          None,
          HintsMax,                      \* artistHints' limit, 8192 in the code
          MaxRequests,                   \* bound: requests begun
          MaxFound,                      \* bound: artists in one answer of Apple
          MaxMissed                      \* bound: items missed before a statement fails

MayBe(S) == S \cup {None}

ASSUME AppleAssumption ==
  /\ NameOf \in [AppleArtists -> Names] /\ Credit \in [Albums \cup Songs -> MayBe(Names)]
  /\ AlbumOf \in [Songs -> Albums] /\ Discography \in [AppleArtists -> SUBSET Albums]
ASSUME FiniteAssumption == IsFiniteSet(Albums) /\ IsFiniteSet(Songs) /\ IsFiniteSet(AppleArtists)
ASSUME LimitAssumption == HintsMax \in Nat \ {0} /\ {MaxRequests, MaxFound, MaxMissed} \subseteq Nat
ASSUME NoneAssumption == None \notin Names \cup Albums \cup Songs \cup AppleArtists

\* ArtistIDFromName: the other kind of artist identifier, sixteen hexadecimal digits
\* where Apple's are shorter numbers.
ArtistIDFromName(name) == <<"hash", name>>
ArtistIDs == AppleArtists \cup {ArtistIDFromName(name) : name \in Names}
ASSUME StarrableAssumption == Starrable \subseteq Albums \cup Songs \cup ArtistIDs
ASSUME KindsAssumption == \A name \in Names : ArtistIDFromName(name) \notin AppleArtists

VARIABLES artists,   \* id -> [name, appleID, synced]
          albums,    \* the albums with a row
          songs,     \* id -> [album, path]
          links,     \* AlbumArtist: <<album, artist>>
          starred,   \* <<type, item>>, of one user
          missed,    \* ghost: <<type, item>> whose insert failed once, or that Apple
                     \* could not be asked for when it was starred
          hints,     \* artistHints: id -> [name, appleID, expired]
          flight,    \* artistSyncGroup: artist -> the request that leads, or None
          syncOnSearch,  \* the setting
          begun,
          pc, task, artist, todo   \* of each request

tables == <<artists, albums, songs, links, starred, missed>>
shared == <<tables, hints, flight, syncOnSearch>>
vars == <<shared, begun, pc, task, artist, todo>>

Artist == [id : MayBe(ArtistIDs), name : MayBe(Names), appleID : MayBe(AppleArtists), synced : BOOLEAN]
NoArtist == [id |-> None, name |-> None, appleID |-> None, synced |-> FALSE]

TypeOK ==
  /\ DOMAIN artists \subseteq ArtistIDs
  /\ artists \in [DOMAIN artists -> [name : MayBe(Names), appleID : MayBe(AppleArtists), synced : BOOLEAN]]
  /\ albums \subseteq Albums
  /\ DOMAIN songs \subseteq Songs
  /\ songs \in [DOMAIN songs -> [album : MayBe(Albums), path : BOOLEAN]]
  /\ links \subseteq Albums \X ArtistIDs
  /\ DOMAIN hints \subseteq ArtistIDs /\ Cardinality(DOMAIN hints) <= HintsMax
  /\ hints \in [DOMAIN hints -> [name : Names, appleID : MayBe(AppleArtists), expired : BOOLEAN]]
  /\ flight \in [ArtistIDs -> MayBe(Requests)]
  /\ artist \in [Requests -> Artist]
  /\ syncOnSearch \in BOOLEAN /\ begun \in 0 .. MaxRequests

Idle == [kind |-> "none", of |-> None]

Init ==
  /\ artists = <<>> /\ albums = {} /\ songs = <<>> /\ links = {} /\ starred = {} /\ missed = {}
  /\ hints = <<>>
  /\ flight = [id \in ArtistIDs |-> None]
  /\ syncOnSearch \in BOOLEAN
  /\ begun = 0
  /\ pc = [r \in Requests |-> "idle"]
  /\ task = [r \in Requests |-> Idle]
  /\ artist = [r \in Requests |-> NoArtist]
  /\ todo = [r \in Requests |-> <<>>]

With(f, k, v) == [x \in DOMAIN f \cup {k} |-> IF x = k THEN v ELSE f[x]]

-----------------------------------------------------------------------------
(* What a request has to write *)

\* syncAlbums: a stub of the credited artist, which nothing is written for when Apple
\* names none, then the album.
Mutant_AlbumFirst(S) ==
  [i \in 1 .. 2 * Cardinality(S) |-> LET b == SetToSeq(S)[(i + 1) \div 2] IN
    IF i % 2 = 0 THEN [op |-> "stub", name |-> Credit[b]] ELSE [op |-> "album", id |-> b]]

SyncAlbums(S) ==
  [i \in 1 .. 2 * Cardinality(S) |-> LET b == SetToSeq(S)[(i + 1) \div 2] IN
    IF i % 2 = 1 THEN [op |-> "stub", name |-> Credit[b]] ELSE [op |-> "album", id |-> b]]

\* syncSongs; related says whether Apple's answer names the song's album.
SyncSongs(S, related) ==
  [i \in 1 .. Cardinality(S) |-> LET s == SetToSeq(S)[i] IN
    [op |-> "song", id |-> s, album |-> IF related THEN AlbumOf[s] ELSE None]]

SyncAlbum(b, tracks) == SyncAlbums({b}) \o SyncSongs(tracks, TRUE)

SyncArtists(S) == [i \in 1 .. Cardinality(S) |-> [op |-> "artist", id |-> SetToSeq(S)[i]]]

SyncSearchResults(found) ==
  SyncAlbums(found.albums) \o SyncSongs(found.songs, TRUE) \o SyncArtists(found.artists)

HintFor(a, key) == [op |-> "hint", key |-> key, name |-> NameOf[a], appleID |-> a]

\* rememberAppleArtist: under Apple's identifier and under the name's.
Remember(S) ==
  [i \in 1 .. 2 * Cardinality(S) |-> LET a == SetToSeq(S)[(i + 1) \div 2] IN
    HintFor(a, IF i % 2 = 1 THEN a ELSE ArtistIDFromName(NameOf[a]))]

\* artistRef for each item that is shown without being stored; no name, no entry.
ArtistRefs(S) ==
  [i \in 1 .. Cardinality(S) |-> [op |-> "ref", name |-> Credit[SetToSeq(S)[i]]]]

-----------------------------------------------------------------------------
(* ttlCache *)

Known(key) == key \in DOMAIN hints /\ ~hints[key].expired

\* get: an entry past its time is dropped.
AfterGet(key) ==
  IF Known(key) THEN hints ELSE [k \in DOMAIN hints \ {key} |-> hints[k]]

Mutant_KeepOneMore(key, hint) ==
  LET live == {k \in DOMAIN hints : ~hints[k].expired}
      full == key \notin DOMAIN hints /\ Cardinality(DOMAIN hints) > HintsMax
      kept == IF ~full THEN DOMAIN hints ELSE IF Cardinality(live) >= HintsMax THEN {} ELSE live
  IN  With([k \in kept |-> hints[k]], key, hint)

\* set: a new entry in a full cache first drops the expired ones, and all of them
\* when that makes no room.
AfterSet(key, hint) ==
  LET live == {k \in DOMAIN hints : ~hints[k].expired}
      full == key \notin DOMAIN hints /\ Cardinality(DOMAIN hints) >= HintsMax
      kept == IF ~full THEN DOMAIN hints ELSE IF Cardinality(live) >= HintsMax THEN {} ELSE live
  IN  With([k \in kept |-> hints[k]], key, hint)

HintAges(key) ==
  /\ key \in DOMAIN hints
  /\ hints' = [hints EXCEPT ![key].expired = TRUE]
  /\ UNCHANGED <<tables, flight, syncOnSearch, begun, pc, task, artist, todo>>

-----------------------------------------------------------------------------
(* One statement *)

Mutant_SaveSong(w) == With(songs, w.id, [album |-> w.album, path |-> FALSE])

\* Updates writes only what is not empty.
UpdateSong(w) ==
  With(songs, w.id, [songs[w.id] EXCEPT !.album = IF w.album = None THEN @ ELSE w.album])

NewArtist(name, appleID) == [name |-> name, appleID |-> appleID, synced |-> FALSE]

Execute(w) ==
  /\ artists' =
       CASE w.op = "stub" /\ w.name # None /\ ArtistIDFromName(w.name) \notin DOMAIN artists ->
              With(artists, ArtistIDFromName(w.name), NewArtist(w.name, None))
         [] w.op = "artist" /\ w.id \in DOMAIN artists ->
              [artists EXCEPT ![w.id].name = NameOf[w.id], ![w.id].appleID = w.id]
         [] w.op = "artist" /\ w.id \notin DOMAIN artists ->
              With(artists, w.id, NewArtist(NameOf[w.id], w.id))
         [] w.op = "save" ->
              With(artists, w.id, [name |-> w.name, appleID |-> w.appleID, synced |-> TRUE])
         [] OTHER -> artists
  /\ albums' = IF w.op = "album" THEN albums \cup {w.id} ELSE albums
  /\ songs' =
       CASE w.op = "song" /\ w.id \in DOMAIN songs -> UpdateSong(w)
         [] w.op = "create" /\ w.id \notin DOMAIN songs ->
              With(songs, w.id, [album |-> w.album, path |-> FALSE])
         [] OTHER -> songs
  \* SyncArtist's transaction replaces the links and saves the row together.
  /\ links' = IF w.op = "save" /\ w.relink
                THEN {l \in links : l[2] # w.id} \cup {<<b, w.id>> : b \in w.albums}
                ELSE links
  /\ starred' = CASE w.op = "star" -> starred \cup {w.row}
                  [] w.op = "unstar" -> starred \ {w.row}
                  [] OTHER -> starred
  /\ hints' =
       CASE w.op = "hint" ->
              AfterSet(w.key, [name |-> w.name, appleID |-> w.appleID, expired |-> FALSE])
         [] w.op = "ref" -> AfterGet(ArtistIDFromName(w.name))
         [] OTHER -> hints

\* What is left after w: an update that found no row inserts one, and artistRef
\* sets the entry it missed.
Then(w) ==
  CASE w.op = "song" /\ w.id \notin DOMAIN songs -> <<[w EXCEPT !.op = "create"]>>
    [] w.op = "ref" /\ w.name # None /\ ~Known(ArtistIDFromName(w.name)) ->
         <<[op |-> "hint", key |-> ArtistIDFromName(w.name), name |-> w.name, appleID |-> None]>>
    [] OTHER -> <<>>

Write(r) ==
  /\ todo[r] # <<>>
  /\ Execute(Head(todo[r]))
  /\ todo' = [todo EXCEPT ![r] = Then(Head(@)) \o Tail(@)]
  /\ UNCHANGED <<missed, flight, syncOnSearch, begun, pc, task, artist>>

\* Which statements the database is asked to execute; the cache cannot refuse.
ByDatabase(w) == w.op \notin {"hint", "ref"} /\ ~(w.op = "stub" /\ w.name = None)

\* The row that an insert was to bring.
RowOf(w) ==
  CASE w.op = "stub" -> {<<"artist", ArtistIDFromName(w.name)>>}
    [] w.op = "artist" -> {<<"artist", w.id>>}
    [] w.op = "album" -> {<<"album", w.id>>}
    [] w.op = "create" -> {<<"song", w.id>>}
    [] OTHER -> {}

\* A statement fails and changes nothing.  The request goes on with the next one: an
\* update that failed counts as one that found no row, the errors of the inserts are
\* dropped.  Only SyncArtist's transaction, which is rolled back, and the changes of a
\* star return theirs; they come last.
WriteFails(r) ==
  LET w == Head(todo[r]) IN
  /\ todo[r] # <<>> /\ ByDatabase(w)
  /\ Cardinality(missed) < MaxMissed
  /\ todo' = [todo EXCEPT ![r] =
                (IF w.op = "song" THEN <<[w EXCEPT !.op = "create"]>> ELSE <<>>) \o Tail(@)]
  /\ missed' = missed \cup RowOf(w)
  /\ UNCHANGED <<artists, albums, songs, links, starred, hints, flight, syncOnSearch, begun, pc, task, artist>>

\* A query whose error is taken for the answer that there is nothing.
Reads(found) == {found, FALSE}

-----------------------------------------------------------------------------
(* Requests *)

Goto(r, to) == pc' = [pc EXCEPT ![r] = to]

\* The requests of R are over but for what they have still to write.
Done(R) ==
  /\ pc' = [q \in Requests |-> IF q \in R THEN "idle" ELSE pc[q]]
  /\ task' = [q \in Requests |-> IF q \in R THEN Idle ELSE task[q]]
  /\ artist' = [q \in Requests |-> IF q \in R THEN NoArtist ELSE artist[q]]

Begin(r) ==
  /\ pc[r] = "idle" /\ todo[r] = <<>>
  /\ begun < MaxRequests
  /\ begun' = begun + 1

\* Search3; what is shown is cut to the counts asked for, what is synced is not.
Search(r, found, shown) ==
  /\ Begin(r)
  /\ todo' = [todo EXCEPT ![r] = Remember(shown) \o
                IF syncOnSearch THEN SyncSearchResults(found)
                ELSE ArtistRefs(found.albums) \o ArtistRefs(found.songs)]
  /\ UNCHANGED <<shared, pc, task, artist>>

Answers == {S \in SUBSET AppleArtists : Cardinality(S) <= MaxFound}

TracksOf(b) == {s \in Songs : AlbumOf[s] = b}

\* GetAlbum asks Apple when it sees no row, no song or fewer songs than tracks; all
\* pages of the tracks come, or those of the album's own answer, or nothing.
GetAlbum(r, b) ==
  LET listed == {s \in DOMAIN songs : songs[s].album = b}
      whole == b \in albums /\ listed # {} /\ Cardinality(listed) >= Cardinality(TracksOf(b))
  IN
  /\ Begin(r)
  /\ FALSE \in Reads(whole)
  /\ \E tracks \in SUBSET TracksOf(b) : todo' = [todo EXCEPT ![r] = SyncAlbum(b, tracks)]
  /\ UNCHANGED <<shared, pc, task, artist>>

\* loadSong for a song whose row is not found; Apple says to which album it belongs.
LoadSong(s) == SyncSongs({s}, TRUE)

GetSong(r, s) ==
  /\ Begin(r)
  /\ FALSE \in Reads(s \in DOMAIN songs)
  /\ todo' = [todo EXCEPT ![r] = LoadSong(s)]
  /\ UNCHANGED <<shared, pc, task, artist>>

-----------------------------------------------------------------------------
(* Stars *)

Stored(type, item) ==
  \/ type = "album" /\ item \in albums
  \/ type = "song" /\ item \in DOMAIN songs
  \/ type = "artist" /\ item \in DOMAIN artists

\* inferType: the first table where the identifier is found
InferType(item) ==
  {CASE album -> "album" [] ~album /\ ~song /\ byArtist -> "artist" [] OTHER -> "song" :
     album \in Reads(Stored("album", item)), song \in Reads(Stored("song", item)),
     byArtist \in Reads(Stored("artist", item))}

Types(item) ==
  InferType(item) \cup (IF item \in Albums THEN {"album"} ELSE {})
                  \cup (IF item \in ArtistIDs THEN {"artist"} ELSE {})

\* loadStarred: stars of items without a row are passed over.
LoadStarred == {row \in starred : Stored(row[1], row[2])}

\* Star, of one item: ensureStarItem, then the row whether or not it could be had.
Star(r, type, item) ==
  LET row == <<[op |-> "star", row |-> <<type, item>>]>> IN
  /\ Begin(r)
  /\ \E found \in Reads(Stored(type, item)) : LET asked == type # "artist" /\ ~found IN
     \/ /\ ~asked
        /\ todo' = [todo EXCEPT ![r] = row] /\ UNCHANGED missed
     \/ /\ asked
        /\ todo' = [todo EXCEPT ![r] = row] /\ missed' = missed \cup {<<type, item>>}
     \/ /\ asked /\ type = "song" /\ item \in Songs
        /\ todo' = [todo EXCEPT ![r] = LoadSong(item) \o row] /\ UNCHANGED missed
     \/ /\ asked /\ type = "album"
        /\ \E tracks \in SUBSET TracksOf(item) :
             todo' = [todo EXCEPT ![r] = SyncAlbum(item, tracks) \o row]
        /\ UNCHANGED missed
  /\ UNCHANGED <<artists, albums, songs, links, starred, hints, flight, syncOnSearch, pc, task, artist>>

Unstar(r, type, item) ==
  /\ Begin(r)
  /\ todo' = [todo EXCEPT ![r] = <<[op |-> "unstar", row |-> <<type, item>>]>>]
  /\ UNCHANGED <<shared, pc, task, artist>>

\* GetArtist, GetArtistInfo2 and GetTopSongs begin with findArtist.
AskArtist(r, kind, id) ==
  /\ Begin(r)
  /\ Goto(r, "find") /\ task' = [task EXCEPT ![r] = [kind |-> kind, of |-> id]]
  /\ UNCHANGED <<shared, artist, todo>>

-----------------------------------------------------------------------------
(* findArtist *)

\* The row, or the name of a song credited to the artist.
FindRow(r) ==
  LET id == task[r].of
      sung == {s \in DOMAIN songs : ArtistIDFromName(Credit[s]) = id}
  IN
  /\ pc[r] = "find"
  /\ \E found \in Reads(id \in DOMAIN artists), heard \in Reads(sung # {}) :
       artist' = [artist EXCEPT ![r] =
         IF found
           THEN [id |-> id, name |-> artists[id].name, appleID |-> artists[id].appleID,
                 synced |-> artists[id].synced]
           ELSE [NoArtist EXCEPT !.id = id,
                   !.name = IF heard THEN Credit[CHOOSE s \in sung : TRUE] ELSE None]]
  /\ Goto(r, "hint")
  /\ UNCHANGED <<shared, begun, task, todo>>

Fill(r) ==
  IF ~Known(artist[r].id) THEN artist[r]
  ELSE LET hint == hints[artist[r].id] IN
       [artist[r] EXCEPT !.name = IF @ = None THEN hint.name ELSE @,
                         !.appleID = IF @ = None THEN hint.appleID ELSE @]

\* The page of an artist synced within 24 hours needs no more; a sync may be older.
FindHint(r) ==
  /\ pc[r] = "hint"
  /\ hints' = AfterGet(artist[r].id)
  /\ \/ /\ task[r].kind = "artist" /\ artist[r].synced
        /\ Done({r})
     \/ /\ Goto(r, IF task[r].kind = "artist" THEN "group" ELSE "ask")
        /\ artist' = [artist EXCEPT ![r] = Fill(r)] /\ UNCHANGED task
  /\ UNCHANGED <<tables, flight, syncOnSearch, begun, todo>>

-----------------------------------------------------------------------------
(* syncArtist, SyncArtist *)

GroupDo(r) ==
  LET id == artist[r].id IN
  /\ pc[r] = "group"
  /\ IF flight[id] = None THEN flight' = [flight EXCEPT ![id] = r] /\ Goto(r, "sync")
     ELSE UNCHANGED flight /\ Goto(r, "joined")
  /\ UNCHANGED <<tables, hints, syncOnSearch, begun, task, artist, todo>>

Mutant_FirstFound(name) == MayBe(AppleArtists)

\* FindArtistID: an artist of the same name among the 25 found, or none.
FindArtistID(name) == MayBe({a \in AppleArtists : NameOf[a] = name})

\* Which Apple artist a row is: its own column, its identifier, or a search.
AppleIDs(a) ==
  IF a.appleID # None THEN {a.appleID}
  ELSE IF a.name = None \/ a.id # ArtistIDFromName(a.name) THEN {a.id}
  ELSE FindArtistID(a.name)

SaveArtist(a, name, appleID) ==
  <<[op |-> "save", id |-> a.id, name |-> name, appleID |-> appleID,
     relink |-> appleID # None, albums |-> IF appleID = None THEN {} ELSE Discography[appleID]]>>

\* SyncArtist: Apple's answer, or an error that writes nothing.
AskApple(r) ==
  LET a == artist[r] IN
  /\ pc[r] = "sync"
  /\ Goto(r, "leave")
  /\ \/ UNCHANGED todo
     \/ \E appleID \in AppleIDs(a) :
          \/ /\ appleID = None
             /\ todo' = [todo EXCEPT ![r] = SaveArtist(a, a.name, None)]
          \/ /\ appleID \in AppleArtists
             /\ todo' = [todo EXCEPT ![r] = SyncAlbums(Discography[appleID])
                                              \o SaveArtist(a, NameOf[appleID], appleID)]
  /\ UNCHANGED <<shared, begun, task, artist>>

LeaveGroup(r) ==
  LET id == artist[r].id IN
  /\ pc[r] = "leave" /\ todo[r] = <<>>
  /\ flight' = [flight EXCEPT ![id] = None]
  /\ Done({r} \cup {q \in Requests : pc[q] = "joined" /\ artist[q].id = id})
  /\ UNCHANGED <<tables, hints, syncOnSearch, begun, todo>>

-----------------------------------------------------------------------------
(* artistAppleID, then GetArtistInfo2's similar artists or GetTopSongs' songs *)

\* GetTopSongs is asked by name.
Named(r) ==
  IF task[r].kind = "top" /\ artist[r].name = None
    THEN [artist[r] EXCEPT !.name = CHOOSE n \in Names : ArtistIDFromName(n) = artist[r].id]
    ELSE artist[r]

AskAbout(r, similar, top, related) ==
  LET a == Named(r) IN
  /\ pc[r] = "ask"
  /\ Done({r})
  /\ \/ UNCHANGED todo
     \/ \E appleID \in AppleIDs(a) \cap AppleArtists :
          LET searched == a.appleID = None /\ a.name # None /\ a.id = ArtistIDFromName(a.name) IN
          todo' = [todo EXCEPT ![r] =
            (IF searched THEN <<[HintFor(appleID, a.id) EXCEPT !.name = a.name]>> ELSE <<>>)
            \o IF task[r].kind = "info" THEN Remember(similar)
               ELSE IF syncOnSearch THEN SyncSongs(top, related) ELSE ArtistRefs(top)]
  /\ UNCHANGED <<shared, begun>>

-----------------------------------------------------------------------------
(* The downloader marks a song it stored, and the specification *)

MarkDownloaded(s) ==
  /\ s \in DOMAIN songs /\ ~songs[s].path
  /\ songs' = [songs EXCEPT ![s].path = TRUE]
  /\ UNCHANGED <<artists, albums, links, starred, missed, hints, flight, syncOnSearch, begun, pc, task, artist, todo>>

Step(r) ==
  \/ Write(r) \/ FindRow(r) \/ FindHint(r) \/ GroupDo(r) \/ AskApple(r) \/ WriteFails(r)
  \/ LeaveGroup(r)
  \/ \E similar \in Answers, top \in SUBSET Songs, related \in BOOLEAN :
       AskAbout(r, similar, top, related)

Ask(r) ==
  \/ \E A \in SUBSET Albums, S \in SUBSET Songs, B \in Answers : \E shown \in SUBSET B :
       Search(r, [albums |-> A, songs |-> S, artists |-> B], shown)
  \/ \E b \in Albums : GetAlbum(r, b)
  \/ \E s \in Songs : GetSong(r, s)
  \/ \E item \in Starrable : \E type \in Types(item) :
       Star(r, type, item) \/ Unstar(r, type, item)
  \/ \E id \in ArtistIDs, kind \in {"artist", "info"} : AskArtist(r, kind, id)
  \/ \E name \in Names : AskArtist(r, "top", ArtistIDFromName(name))

Next ==
  \/ \E r \in Requests : Ask(r) \/ Step(r)
  \/ \E key \in ArtistIDs : HintAges(key)
  \/ \E s \in Songs : MarkDownloaded(s)

Spec == Init /\ [][Next]_vars

-----------------------------------------------------------------------------
(* Properties *)

\* An artist's row, a hint and a request's copy never name the Apple artist of
\* another name: an artist known by Apple's identifier is that artist, one known
\* by its name is an artist of that name.
Matches(id, appleID) ==
  \/ appleID \in {None, id}
  \/ ArtistIDFromName(NameOf[appleID]) = id

RightArtist ==
  /\ \A id \in DOMAIN artists : Matches(id, artists[id].appleID)
  /\ \A key \in DOMAIN hints : Matches(key, hints[key].appleID)
  /\ \A r \in Requests : Matches(artist[r].id, artist[r].appleID)

\* What rows refer to has a row, or its own insert was refused: the artist an album is
\* credited to, the album of a link, a starred song or album (which Apple may not have
\* answered for either).  The artist of a link always has one, and the page of an artist
\* that counts as synced lists every album Apple listed.  So no order in which requests
\* write, and no other failure than of that very insert, leaves a dangling reference.
Accounted(type, item) == Stored(type, item) \/ <<type, item>> \in missed

ReferencesResolve ==
  /\ \A b \in albums : Credit[b] # None => Accounted("artist", ArtistIDFromName(Credit[b]))
  /\ \A l \in links : Accounted("album", l[1]) /\ Stored("artist", l[2])
  /\ {row \in starred : row[1] # "artist"} \subseteq LoadStarred \cup missed
  /\ \A id \in DOMAIN artists : artists[id].synced /\ artists[id].appleID # None =>
       {l[1] : l \in {k \in links : k[2] = id}} = Discography[artists[id].appleID]

\* No sync forgets that a song is downloaded, or on which album it is.
NothingForgotten ==
  \A s \in DOMAIN songs :
    /\ s \in DOMAIN songs'
    /\ songs[s].path => songs'[s].path
    /\ songs[s].album # None => songs'[s].album # None

KeepsDownloads == [][NothingForgotten]_vars
=============================================================================
