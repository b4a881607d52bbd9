# Verification of aplsonic

aplsonic is a server that speaks the Subsonic protocol in front of Apple Music.
Clients browse and search Apple's catalogue through it. A song that is streamed
for the first time is downloaded by gamdl with the user's own session, stored,
marked in the database and served from storage from then on. Playlists of the
user's Apple library are mirrored into the database. This directory holds TLA+
models of the parts whose correctness depends on interleavings, failures and
crashes, the TLC runs that check them on small instances, and TLAPS proofs that
hold for every value of the constants.

Paths below are relative to the Go sources (`src/src/`) unless they say otherwise.

## How to run

    tlc -workers 2 -config SongDownloadFs.cfg MCSongDownload.tla
    tlapm SongDownloadProofs.tla

`PROJECT.json` lists every run with its configuration, every mutant, the source
lines of each definition, the hazards and the theorems. Each passing property has
a mutant: an operator `Mutant_...` in front of the definition it replaces, which
differs from it the way a plausible bug would, and under which TLC finds the
property violated.

## Inventory of the system

### Download side

**Song download** (`download/download.go`). State: the storage, the columns
`path`, `size`, `suffix` of the song row (the "downloaded" marker), a
`singleflight` group keyed by song id. `EnsureSong` returns at once if storage has
the song, enters the group, asks storage again, and runs `downloadSong`: a
temporary directory, the user's gamdl worker, the command line if that is
unavailable, the search for the produced audio file, `storage.Put`, the marker.
`EnsureAlbum`, `EnsurePlaylist` and `EnsureSongPlaylists` call it for many songs,
three at a time. Called by the stream handler, from several goroutines at once.
Hard: the check before the group, calls that join a flight that is about to end,
failure at each stage, a crash between the file and the marker.
Correct when: a song is fetched by one call at a time, never again once it is
stored, every call returns, a marked or served song is whole.

**Storage** (`storage/`). One of two backends, or none. The filesystem copies to
a `.part` file and renames; S3 stats and puts objects, where any error of the stat
reads as absence and a failed put may have been applied. Correct when no
half-written song can be found by its name.

**Worker pool** (`gamdl/worker.go`, `WorkerFor`, `startWorker`, the end of
`readLoop`). State: `pool`, keyed by username and a hash of the cookies, under
`poolMu`, which is held while a process starts (up to 120 s). A live worker with
the same key is reused; otherwise all the user's workers are stopped and taken
out, and one is started. When a process ends its `readLoop` takes it out unless
another is already there. Hard: old and new cookies of one user at the same time,
processes that die while being replaced, starts that fail.
Correct when: a user has one live worker, it can be found in the pool, a caller
gets the session of its own cookies, and `WorkerFor` comes back.

**Gamdl worker** (`gamdl/worker.go`, `Worker`, and `gamdl/worker.py`). State: `mu`,
`seq`, the table `pending` of result channels with one slot, `done`; two pipes;
in the Python process a reader thread, an event loop, a semaphore. `Download`
registers and writes a request under `mu`, then waits for its result, a deadline or
`done`. `readLoop` reads replies, takes the entry out under `mu`, sends outside
it, and drains the table at the end. Hard: four parties and two bounded pipes,
replies out of order and after their deadline, a process that dies or is stopped
at any point, registration after the drain.
Correct when: a call returns the result of its own request, no send blocks, `mu`
is never held waiting for somebody who needs it, nobody is left in the table,
every call returns.

**Command line** (`gamdl/gamdl.go`): the fallback, one subprocess.

**Stream handler** (`serve/subsonic/stream.go`): starts the batches, waits for
`EnsureSong` up to `stream_hold` seconds, then redirects the client to the same
request; serves the file with ranges. Hard: the timeout races the end of the
download, every redirect starts the batches again. Correct when a request that is
retried is served once the song is there, and only whole songs are served.

### Library side

**Playlist mirror** (`applemusic/sync.go`, `SyncUserPlaylists`). State: the rows
`playlists` (with a fingerprint of name and songs) and `playlist_entries`, the time
of the last sync per user (memory), a `singleflight` group per user. A user with
playlists is not synced again within 15 minutes. A sync fetches every playlist and
its tracks, compares the fingerprint, upserts the row, and, if it changed, deletes
and rewrites the entries one statement at a time, without a transaction. Run by
`getPlaylists` and at the start of the server.
**Playlist handlers** (`serve/subsonic/playlist.go`): `updatePlaylist`,
`createPlaylist` and `deletePlaylist` change the same rows and push additions to
Apple; removals stay local. Hard: syncs beside local edits, crashes between
statements. Correct when: one sync at a time, the fingerprint says what the
entries hold, the mirror shows the library in the end.

**Catalogue** (`applemusic/sync.go`, `serve/subsonic/artist.go`, `search.go`,
`browse.go`, `star.go`, `cache.go`). State: the rows of artists, albums and songs, the
links between albums and artists, the stars, `artistHints` (a bounded map with expiry)
and `artistSyncGroup`. Whatever a request sees at Apple it writes as a list of single
statements, errors ignored; only the end of `SyncArtist` is a transaction. An artist is
known by Apple's identifier or, when an answer gave no more than a name, by a hash of the
name; the two kinds of identifier are brought together by hints and by a search for
the name. Hard: two requests writing the same rows statement by statement beside the
downloader's marker, hints that are read and set in two steps, artists of one name.
Correct when: no sync undoes a download, a reference resolves at every moment, an artist
is never taken for another, the cache stays within its limit.

**Lyrics cache** (`applemusic/lyrics.go`). State: one row per song with a level and a
time, `lyricsGroup`. "Missing" is believed for a day, lyrics for thirty; Apple is asked
for syllable lyrics and then for line lyrics; stale lyrics stand in for an error.
**Browser** (`applemusic/browser.go`): one headless page for the whole server, behind
`browserMu`, launched when it is missing, and replaced once when an evaluation fails.
Hard: calls of several users share a flight and the page; errors must not be taken for
absence; pages die at any time. Correct when: "no lyrics" is true or was a day ago,
errors are returned only without lyrics, every call returns.

**TTML parser** and **lyrics response** (`applemusic/ttml.go`,
`serve/subsonic/lyrics.go`): pure. Byte offsets of syllables in a text whose spaces are
collapsed, missing and overlapping ends, the choice of the main agent.

**API client** (`applemusic/client.go`, `types.go`, `cookies.go`): requests and decoding.

### Requests and administration

**Accounts** (`serve/admin/`, `serve/subsonic/auth.go`, `applemusic/cookies.go`,
`cmd/createAccount/`). State: the rows of `users` (hash, salt, plain password for token logins,
cookie jar, expiry and status of the Apple token, `deleted_at`), the admin's row, the signed
session. A handler reads a row, checks the request or the jar, and saves the whole row. The
monitor walks over a snapshot of all users every few hours and writes single columns; it
renews tokens through a browser (30 s each). Deleting sets `deleted_at`; the unique
index on the username still counts the row. Hard: handlers and monitor hold
copies of a row that others change or delete. Correct when: both ways of logging in
agree on the password, a deleted user stays deleted, a name has one row, what the
administrator sees of a token becomes true.

**Cover art, configuration, database, start-up, routing, web interface**: no state or
interleaving of their own.

## What is modelled where

| Module | Part | Role |
|---|---|---|
| `SongStore` | download + storage | the abstract promise: songs appear whole and only when asked for; "ok" means there |
| `SongDownload` | `download.go`, `storage/` | `EnsureSong` in full; implements `SongStore` |
| `Streaming` | `stream.go`, the batches of `download.go` | requests and batches on top of `SongStore` |
| `WorkerPool` | `WorkerFor`, start and end of a worker | the pool |
| `WorkerCalls` | `Worker.Download` | the abstract promise: a request runs once, answers go to their call, "unavailable" means not run, now or later |
| `GamdlWorker` | `Worker`, `worker.py` | one worker from the inside; implements `WorkerCalls` |
| `PlaylistSync` | `sync.go`, `playlist.go` | one mirrored playlist |
| `Catalogue` | `sync.go`, `artist.go`, `search.go`, `star.go`, `cache.go` | what requests write of Apple's catalogue |
| `LyricsCache` | `lyrics.go`, `browser.go` | the lyrics of one song, and the browser |
| `LyricsText` | `ttml.go`, `serve/subsonic/lyrics.go` | parser and response as operators |
| `Lyrics` | the two together | what a client gets of the lyrics a call returns |
| `Accounts` | `serve/admin/`, `serve/subsonic/auth.go`, `cmd/createAccount/` | users, the admin, tokens |
| `MC...` | | values of the constants for TLC |
| `...Proofs` | | theorems |

The modules of the download side are cut where the code is cut. `Streaming` uses the
promise `SongStore` for `EnsureSong` and leaves its inside to `SongDownload`, which
implements that promise. `SongDownload` sees a worker as one step that
succeeds, fails or is unavailable (`downloadViaWorker`); `WorkerPool` sees the use of a
worker as one stage ("using"), and a process as a state from its start to the end of its
`readLoop`; `GamdlWorker` starts where `WorkerPool` has put a worker into the pool and
covers the rest. `Lyrics` puts `LyricsCache` and `LyricsText` together: the parser is
asked about the lyrics a call returns, for every paragraph and document of the constants
`Paragraphs` and `Documents`.

### SongDownload and SongStore

`pc[c]` is the point a call of `EnsureSong` has reached: "has" (the test outside
the group), "do", "joined", then for the leader "recheck", "prepare" (directory and
cookies file), "worker", "cli", "find", "put" / "copy" / "rename", "mark", "leave".
`file` and `marked` survive a crash; `flight`, `song`, `temp` and `result` do not.
`HasOutcomes` is `HasSong`: on S3 it may say no of a song that is there.
`PutObject` is S3's put, which may fail before or after the object exists.
`EagerSpec` adds to `FairSpec` that clients keep asking.

`SongStore` knows available songs and calls that are pending, "ok" or "error".
`Store` in `SongDownload` is the mapping: a song is available when its file is
complete, a call is pending from `EnsureSong` to its return. Calls that joined are
answered together with their leader.

### GamdlWorker

Every statement of `Download` and `readLoop` that another party can observe is an
action; `mu` is a variable, so a `Register` that holds it while `Write` is blocked
on a full pipe is a state. The Python side has its reader thread (`PyRead`), which
never waits, and the event loop (`PyStart`, `PyFinish`, `PyFlush`), which stops as
a whole when it writes into a full stdout. `PyDie` may happen at any moment. A
result is one of `Verdicts`; which one a request has is remembered in `verdict`, so
that a reply can be compared with the request it belongs to.

`WorkerCalls` is what `download.go` may rely on: calls that are idle, asked or answered,
requests the process has accepted, and how they ended. `Calls` in `GamdlWorker` is the
mapping. A request is accepted when it is in stdin, in the semaphore's queue or in it, or
has a verdict; a call is answered when what it returns is settled, before `forget` tidies
up. A call told "unavailable" makes `downloadSong` run the command line with the same output
directory, so the promise is about that answer too: such a request is not accepted, or
the process is gone. After "deadline", by contrast, the worker may go on with the request,
and the code returns an error instead of falling back.

### WorkerPool

Whatever `WorkerFor` does under `poolMu` without waiting is one step (`Reuse`,
`Start`, `StartImpossible`); the wait for "ready", in which `poolMu` is held, is a
stage that `Ready` or `NotReady` ends. `ColonPrefix` is the relation "the key of v
starts with u and a colon": the code looks for the user's workers by that prefix,
so a user `alice` also stops the worker of a user `alice:2`.

### PlaylistSync

One playlist of one user. A fingerprint is the content it was computed from (the
hash taken as injective; the name is left out because a renamed playlist is
rewritten like a changed one). `Upsert`, `Clear`, each entry of `Fill` and `Stamp`
are separate steps, as they are separate statements. Editors read, clear and fill
the same entries, and append to Apple's list. The code looks at the error of no
statement. `StatementFails` is a refused one of a sync, which goes on with the next and
stamps the time all the same: entries stay under an old fingerprint (the upsert), are
doubled (the delete) or lack a song (an insert). `QueryFails` is the count of a user's
playlists or the row to compare with, taken for none; `EditStatementFails` and the empty
list in `UpdatePlaylist` are the same for editors. `spoiled` is a history variable: a
crash, a local edit or a refused statement has come between the fingerprint and the
entries, and no rewrite under its own fingerprint has followed.

### Streaming

`stage[r]` follows `serveAudio`: "asked" (credentials, role, id and row, `Admit`), "album"
and "playlists" (the two `go` statements), "has", "held" (the select), "redirected",
"read". The goroutine that calls `EnsureSong` outlives a request that was redirected or
whose client left: `call[r]` is the channel the request reads, `owner[c]` who started the
goroutine. `Send` goes through when the request still reads or the channel has room
(`DoneCapacity`, one in the code). `storage.Has` may say no of a song that is stored, on
either backend, since any error of the stat means absent: then a stored song is held for,
or downloaded by a batch, like one that is not. The redirect runs all of
`serveAudio` again, its batches included. A batch (`Jobs`) works on lists of songs one
after another: `Look` passes over songs that are stored or have no row, `Acquire` waits for the semaphore and
`Release` is the deferred release. With `Hold` false the select has no timer, which is
the synchronous branch of the code.

### Catalogue

`todo[r]` is the list of statements a request has still to make; `Write` makes the first,
and anything may come between two of them. `WriteFails` is the database refusing it: the
code drops the error and goes on with the next, except in `SyncArtist`'s transaction, which
is rolled back, and in the changes of a star, which are the last. An update that fails is
taken for one that found no row, and an insert follows. A query that fails is taken for one
that found nothing (`Reads`). `missed` is a history variable: the rows whose insert was
refused, and the items that were starred though Apple could not be asked for them. `Search`, `GetAlbum`, `GetSong`, `Star`,
`AskApple` and `AskAbout` are the points where Apple has answered, and lay down the list
in the order of the code (`SyncAlbums`, `SyncSongs`, `SyncArtists`, `Remember`,
`ArtistRefs`). A statement is one of "stub" (FirstOrCreate of an artist known by name),
"album", "song" (Updates of a row that is there, else "create"), "artist", "save" (the
transaction of `SyncArtist`), "hint" and "ref" (the cache), "star", "unstar". `FindRow` and
`FindHint` are `findArtist`, whose copy `artist[r]` the rest of the request goes on with;
`GroupDo` and `LeaveGroup` are `artistSyncGroup`. `MarkDownloaded` is the marker of
`downloadSong`. Apple is constant: artists with names that may be equal, credits, tracks,
discographies; its answers are any part of these, or errors.

### LyricsCache and LyricsText

`pc[c]` follows `SongLyrics` ("do", "joined", "client", "store", "leave") and, inside
`GetLyricsTTML`, `browserDo` for each of the two kinds: "lock", "ensure", "eval",
"relaunch", "again". `Reply` is a 200, a 404 or another error. `Other` stands for every other
request that takes the browser, and leaves it launched, missing or broken. `apple` may
change at any time; days pass between calls, so that a call sees one day.
`lacked` is a history variable: the last day on which Apple had no lyrics.

In `LyricsText` a paragraph is the sequence of its strings after XML decoding, each with
the layer and the times of its span; a word is an element with a length in bytes.
`Add` and `Vocal` are `vocalBuilder`, `End` the repair of ends, `ParseTTML` the lines, their
stable sort and the tracks of translation and pronunciation, `LyricTrack` and `Agents` the
response. The builder after each string is a function of the string's place (`Built`), and
lists that the code fills by appending or sorts are given by their order (`Arranged`):
the k-th element is the one with k - 1 before it.

### Accounts

A handler is two steps: `Begin...` finds the row and keeps it in `copy[h]`; the finishing
action (`Replenish`, `Recheck`, `UpdateUser`, `DeleteUser`, `Create`, `Change`) saves. `Save` writes
every column, and revives a deleted row, because gorm's `Save` falls back to an upsert;
`Updates` reaches live rows only. `stage[i]` and `snap[i]` are the monitor's pass: it
works on the jar it read at the start of the pass, and on the jar it has renewed.
`MediaUserToken` takes the last cookie of that name and `MediaTokenExpiry` the first, as the
code does. A hash is a record of password and salt (no collisions). `raced[i]` is a history
variable: the handlers that were at work on user i when it was deleted.

## Runs

| Run | Question | Instance |
|---|---|---|
| `download_fs` | safety, refinement and liveness of `EnsureSong` on the filesystem | 3 calls, 2 songs, 1 crash |
| `download_s3` | what is left of it on S3 | the same |
| `download_marker` | is every stored song marked in the end? **violated** | 1 call, 1 song, 1 crash |
| `streaming` | is a request served though it is redirected, do batches keep to their slots and end? | 1 client with its redirects, 2 songs, 1 batch, 2 goroutines, 1 slot |
| `worker_safety` | safety and refinement of a worker | 3 callers, 3 requests, pipes of one line, 2 downloads at once |
| `worker_liveness` | does every `Download` return, without its deadline? | 2 callers, 3 requests |
| `worker_pool` | the pool, safety and liveness | 2 goroutines, 2 users, 2 cookies each, 2 processes |
| `playlist_sync` | the mirror beside an editor | 2 sessions, 1 editor, contents of 1 and 2 tracks, 1 edit, 1 change at Apple, 1 failed statement or crash |
| `playlist_crash` | is the library mirrored in the end? **violated** | 2 sessions, contents of 1 and 2 tracks, 1 change at Apple, 1 crash, no editor and no failure |
| `catalogue` | rows, links, hints and marks while two requests write | 2 requests, 2 albums, 1 song, 3 Apple artists with 2 names, 2 hints, 1 refused insert |
| `lyrics` | are "no lyrics" and errors true, does a call return, are cues and tracks right? | 2 calls, one signed in; lifetimes of 1 and 2 days, 2 days, 2 changes; paragraphs of up to 3 strings, documents of up to 2 lines |
| `accounts` | passwords, names, deletion and shown status under stale copies | 2 handlers, 2 ids, 1 name, 2 passwords, 3 jars, 1 renewed jar, 2 days, 2 operations |

**Bounds.** Three calls are a leader, one that joins and one that was slow between
the test and the group; a fourth behaves as one of these. Two songs show that
flights of different songs do not disturb each other. One crash
meets every stage of every call, and everything that follows it; the safety
properties and the refinement are proved for any number. A
worker with three requests has one being answered late, one pending and one in the
pipe; pipes of one line make every write block that can. Two processes are a
worker and its successor under the same key, or the workers of two cookies or two users. In the mirror two
sessions are enough to join or to follow one another, and versions `<<a>>` and
`<<a, b>>` let entries be lost, doubled and reordered; a fault is a crash or a refused statement,
at any stage of any session or editor. In `streaming` two goroutines let a
redirected request leave one behind, and one slot makes the batch's second song
wait. In `catalogue` two artists share a name, so that a search by name can go wrong; one
of the albums has no songs and names no artist, the other has both; one refused insert is
followed by everything the other request and the same one may still do; two hints fill the cache, so that a third evicts. In
`lyrics` a "missing" row expires within the run and a row with lyrics does too; three
strings have a leading, a trailing and a doubled space, missing times and overlaps between
neighbours, in words of two and three bytes. In `accounts` two operations are a read
and the change it misses, beside the monitor; a jar expires while the clock runs, one has a
session cookie without expiry. `MaxCrashes`, `MaxFaults`, `MaxSeq`,
`MaxVersions`, `MaxEdits`, `MaxRequests`, `MaxFound`, `MaxMissed`, `MaxFailures`, `MaxTime`, `MaxChanges`, `MaxOps`, and the
sets `Jobs` and `Calls` of `Streaming` are bounds of the model, not of the code; the proofs
hold for all their values.

**Deadlock.** `worker_safety`, `worker_liveness` and `catalogue` turn the deadlock check
off: a worker whose process is gone and a catalogue whose bounded requests are used up have
really come to their end. In the other runs it is on. Symmetry is used in `worker_safety`
(callers) and `catalogue` (requests), where no liveness is checked.

**Fairness.** Goroutines that can run do (weak fairness). Mutexes and selects that
compete need strong fairness, which Go's mutex gives (a waiter of more than 1 ms is
served first); so `Lock` of the browser and the semaphore of a batch are strongly fair.
In `Streaming` the start of a goroutine is strongly fair because the sets `Jobs` and
`Calls` are bounds of the model, and the Go runtime always starts one. Subprocesses and
network calls end: for the worker the code enforces that with deadlines; for the command
line it does not, so the liveness of `EnsureSong` assumes that gamdl terminates, and an
evaluation in the browser has no deadline either, so `EveryCallReturns` of the lyrics
assumes that it ends. `GamdlWorker` assumes nothing of `SelectDeadline`: calls return
without it. In the mirror the TTL passes, clients keep opening the list of playlists, and
Apple answers in the end. In `Streaming` the stat of a stored song does not fail for ever: a
request that asks again and again is told the truth in the end (strong fairness of
`HasStored`). In `Accounts` handlers that began finish, and the monitor's loop
goes on where it is enabled: with `token_check_hours` at 0 or less there is no monitor, and
`ShownStatusSettles` says nothing. Nothing is assumed about refused statements, crashes, deaths of processes and pages, edits, changes at
Apple, timers or clients that leave.

### What the violated runs show

*`download_marker`.* The marker is written only by the call that stored the song.
If the server stops between `Put` and `Updates`, or `Updates` fails (its error is
dropped), every later `EnsureSong` finds the song in storage and returns; path, size
and suffix stay empty. The song is served all the same.

*`playlist_crash`.* The new fingerprint is upserted before the entries are
rewritten. If the server stops in between, all later syncs find the fingerprint
unchanged and skip the entries: the mirror keeps the old list, or half of the new
one, until the playlist is changed at Apple again. `FingerprintTells` and
`ReflectedUnlessSpoiled` say what does hold.

### Other behaviour met while modelling

Consistent with what the code says of itself, and so not a finding.

*Playlists.* Two local edits of one playlist at once lose one another's additions (read,
delete, create without a lock); `getPlaylist` can show half-written entries; a playlist
deleted locally stays hidden while each sync goes on rewriting its entries; a playlist
removed at Apple is never removed here; a name changed locally is overwritten by the
next sync.

*Streaming.* Each batch has a semaphore of its own, so several batches together exceed
three downloads, and every redirect starts the batches again.

*Accounts.* A handler's save brings back a user that was deleted after the read. A deleted
user's name cannot be given again. When a jar without an expiry is
uploaded while the monitor still works on the old one, or comes from a renewal, the old
expiry stays in the row, no later pass removes it, and the user is shown as expired
(`ShownStatusSettles` speaks of jars that tell their expiry). A session stays valid after the
admin's password is changed elsewhere.

*Lyrics.* A transient failure of the syllable lyrics stores the line lyrics for thirty
days. A POST that Apple applied before its page died is sent again.

*Catalogue.* A sync of an artist saves the whole row it read. Errors of the insertions in a
sync are ignored, so that an album can name an artist without a row, a link lead to no album
and a starred item have none; `ReferencesResolve` says that this is so only where the
insertion of the missing row itself was refused (or Apple could not be asked for what was
starred); the artist of a link and the album list of a synced artist are always complete,
because they are written in the one transaction, which is rolled back. Starring an artist never makes a row of it. A bare identifier that is
starred before its row exists is kept as a song.

## Proofs

All theorems hold for any sets and bounds the named assumptions allow. Assumptions
are only about the constants: the null values are not elements of the sets they
stand beside, bounds are natural numbers, pipes hold at least one line, a semaphore and
the cache of hints have room for one, a pair in `ColonPrefix` is a pair of users, Apple's
functions are functions, its catalogue is finite, the hash of a
name is no identifier of Apple's (`KindsAssumption`), a "missing" row is believed for at least
a day and no longer than lyrics are, a word has at least one byte and is not the space, and no
document calls one of its singers "bg", the name that `lyricTrack` gives to the background
(`AgentsAssumption`; Apple's are "v1", "v2" and so on). `Paragraphs` and `Documents` are any sets of what the decoder may leave.

Each proof module proves an inductive invariant (`Init => Inv`, and
`Inv /\ [Next]_vars => Inv'`, with one lemma for each conjunct or group and one step
for each action), and the safety properties follow from it. The type invariant of each
module is a part of it, stated as `TypeCorrect`.

* **SongDownloadProofs**: `DownloadInv`. `NeverRedownload` alone is not inductive: it
  needs that a leader owns its song's flight (`LeaderInv`) and that nothing is
  renamed into place but by a leader. `MarkedIsStored` needs `TempInv` (a renamed file
  has been copied whole) and `MarkInv`. `FlightHasLeader` is the mutual statement of
  group and calls, kept by a crash because both go. `ImplementsStore` is
  `Spec => StoreSpec`: each step is matched with one of `SongStore` or a stutter
  under `DownloadInv`; `ResultInv` gives that "ok" is said only of a stored
  song, by the leader and by all who joined.
* **StreamingProofs**: `IInv`. A request that reads has been told "ok" through its own
  channel (`OwnSong`, `OkIsStored`) or has seen the song, hence `ReadFindsSong`; a batch's
  semaphore holds exactly its goroutines (`SemIsRunning`), hence `SlotsRespected`.
* **GamdlWorkerProofs**: `WorkerInv`. A request is in one place at a time (`OnceInv`),
  hence is answered once; replies on their way carry their request's verdict
  (`ReplyInv`); an entry in the table has an empty channel, and `readLoop` holds a
  reply only after it took its entry out (`TakenInv`). From these `SendNeverBlocks` and
  `RightAnswer`. `NoOrphanEntry` needs that stdin is closed before the drain
  (`ClosedInv`): whoever registers later fails in its own write. `ImplementsCalls` is
  `Spec => CallSpec`: each step is matched with one of `WorkerCalls` or a stutter under
  `WorkerInv` and `HonestInv`, which says that `readLoop` waits, closes `done` and drains
  only after the process has gone; steps inside the Python process move a request without
  taking it in or out (`PythonMoves`).
* **WorkerPoolProofs**: `PoolInv`. While a worker starts, its user has none in the pool
  (`StartInv`); entries are of unstopped workers of that key (`EntryInv`), one for each
  user (`OneEntryInv`).
* **PlaylistSyncProofs**: `MirrorInv`. The leader of the group is the only one that
  syncs (`LeaderInv`), so what it compared is still true when it upserts (`SameInv`)
  and the entries it has written are a prefix of its list (`FillInv`), unless spoiled; a
  refused statement spoils them until a sync whose fingerprint the row has taken begins anew.
* **CatalogueProofs**: `IInv`. What a row or a hint will name is decided when a
  request lays down its list, so the invariant speaks of the statements still to be made:
  each is well typed and names an Apple artist only for an identifier it matches
  (`Hints`, `Saves`), and so does each request's copy. A request for top songs by name works on
  an identifier made of a name (`ByName`). `RightArtist` and the cache's limit (in
  `TypeOK`) follow; `DownloadsKept` is the action property that no statement takes away a
  song, its path or its album. `ReferencesHold` (`Spec => []ReferencesResolve`) has an
  invariant of its own, `RefInv`: each statement that refers to a row finds it in the tables,
  among the missed ones or, before itself, in the list of its own request (`Ready`,
  `Ordered`), whatever the other requests do meanwhile and whichever statement is refused,
  because rows are only added (`HaveGrows`); an artist of Apple
  that has been synced keeps its own identifier in its column (`OwnColumn`), which its page
  is found by.
* **LyricsProofs**: `IInv`. A leader that has learnt of an absence learnt it today
  (`Learnt`), a call in progress began today (`Today`); with these `AnswersTrue`.
  `WaitersHaveLeaders`: whoever has joined waits for a call that is at work, and the mutex
  is held by a call that is using the browser (`Led`, `Held`).
  The second half is about the text. `CuesAreRight`: after each string the builder's
  size is the number of bytes of its text, and each syllable names its word and ends below
  that size (`Builders`, kept by `Add`: `AddKeeps`); the repair of the ends changes no
  offset and leaves none past the next beginning (`VocalRight`). `TracksAreRight`: a
  strict order of finitely many places gives each place one rank (`Ranking`), so sorting and
  selecting list every element once in order (`ArrangedRight`, `KeptRight`); the main agent
  sings, and naming the lines without an agent after it names the same agents (`MainSings`);
  the four parts of the agents' list are disjoint (`AgentsListed`). Both are facts about every
  document, and the theorems say them of the calls' answers.
* **AccountsProofs**: `IInv`. Every copy a handler may save agrees with itself on the
  password, has the name of its row, and belongs to a handler that is known to race if
  the row has been deleted since (`CopyInv`); so a save of whatever age keeps
  `PasswordsAgree` and `OneRowPerName`, and `DeletedUnlessRaced` is an action property.

Recursive functions (`Built`, `Offsets`, `ParseTime`, `FlattenSeq`) are reasoned about
without an induction rule over predicates: a set of numbers that holds 0 and, with each
number, the next holds all of them (`Induction`, from the well-foundedness of `<`), and a
function that follows given steps exists (`Recursion`), so the recursive definition has the
value its equation says.

Only model-checked: the liveness properties (fairness is beyond the provers), and the
two violated properties.

## What is left

The next things worth adding, in this order:

1. The abstract promises of the lyrics cache and of the pool of workers as modules of
   their own, shown to be implemented as those of downloads and of a worker are.
2. The mirror with several playlists, and `createPlaylist` of a new one.
3. Two batches at once in `Streaming`, for the total number of downloads.
4. Expiry of more than one kind of cache entry in one instance.

## Not modelled

Wording, HTTP and JSON encoding, XML decoding and language tags, routing, images,
start-up order, configuration and the web interface are pure input and output.
Read-only queries (lists, genres, random songs, statistics) change nothing. The tables of
shares and bookmarks have no code, and `UpdateAlbumSongCounts` has no caller. The
`reset-admin` command is one deletion that the server's next start completes.
`SyncAllPlaylists` calls the modelled sync for one user after another. The caches of
artist infos, top songs and images share the modelled code and feed no other state. The
Apple API appears only as answers, any part of a constant catalogue, or errors; real time
as a TTL that has or has not passed, a day that passes, and a deadline or timer that may
fire at any moment. Arguments and configuration files of gamdl are left out.
