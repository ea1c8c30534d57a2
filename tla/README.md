# photoSwipe, specified

photoSwipe is a small self-hosted web service for sorting a directory of photos
by swiping: keep, trash or skip one photo, or resolve a cluster of
near-duplicates at once. Trashing moves the file into a trash directory, undo
moves it back, and a JSON file in the photo directory remembers everything.
This directory holds TLA+ models of it, the TLC runs that check them and TLAPS
proofs. Paths in comments are relative to `src/`, or to `src/internal/...` where
only the file is named.

## Inventory

| Component | State | Operations | Talks to |
|---|---|---|---|
| store (`internal/store`) | photo table, session (target, done, undo stack, recently skipped), settings, daily counters; one mutex; `.photosort-state.json` | open/load, upsert, forget missing, start/end/extend a session, record decision, skip, cluster decision, cluster skip, undo, settings, close; hash bookkeeping | called by all others |
| queue (`internal/queue`) | a random source | `Next`: a weighted draw | reads store snapshots |
| handlers (`internal/handlers`) | none of its own | HTTP routes; several store calls and file moves per request, without a lock around them | store, queue, img, dupes |
| img/trash, img/scan | the photo and the trash directory | `MoveToTrash`, `RestoreFromTrash`, `Scan` | files; scan calls the store per file |
| img thumbnails, EXIF, RAW | `.thumbs` | `ServeThumb`, `ReadExif`, the walk for RAW previews | files; served by handlers, EXIF read by the indexer |
| indexer | one goroutine | pick, read, decode and hash one photo at a time; nap when idle; stop | store, files |
| dupes, dhash | none | clusters of hashed photos | called per request |
| auth | session tokens in memory | login, middleware, logout, hourly clean-up | wraps the routes |
| start-up and shutdown (`main.go`) | the process | open, scan, start; stop the server, the indexer, close the store | all |
| web client | page, gestures | posts the routes | handlers |

What is hard in it:

* **Undo.** Four kinds of entries (decision, cluster decision, skip, cluster
  skip), amounts that depend on settings at the time, counters by day, and a
  stack that survives restarts. Undoing must lead back through the states the
  photos really went through, and must take off each counter what was put on it.
* **Failing saves and crashes.** A method mutates memory first and saves the
  whole state afterwards; an error leaves memory ahead of the file.
* **Requests without a lock.** A handler reads, moves files and calls the store
  in separate steps; tabs, the indexer, the user's own file moves and a crash
  come in between. The indexer and the thumbnail code read files that requests
  move meanwhile, and read each of them twice.
* **Results kept for good.** A hash, a failure mark, a capture time, a cached
  thumbnail are never compared with the file again.
* **Things that must happen.** Every photo is hashed in the end, a stop ends,
  expired tokens go.
* **Stale knowledge.** Cards and clusters on a page, a directory listing of a
  scan in progress, cookies of sessions the server has forgotten.
* **Edges.** Midnight, 24-hour-old sessions, open-ended targets, FIFO caps,
  zeroes in the state file that mean "missing", directories of a RAW file that
  point to each other.

`PROJECT.json` lists every component with its status and every hazard with the
properties that watch it.

## Modules

* `PhotoStore` — the store. A store value `s` is a record (photos, session,
  settings, daily, lastBatchDone). Every mutating method `M` of `store.go` is an
  operator `AfterM(s, ...)`, from the value before the call to the value after
  it, and an action `M` that puts the result in `mem` and saves it to `disk`.
  The mutex makes a method one step, `saveLocked` (temporary file, rename) makes
  the file always a whole value. `SavesMayFail` lets any save fail. `Crash`
  reopens the file, `Shutdown` saves memory first, and opening goes through
  `Loaded` (defaults for zeroes, normalization of the retired "unsure" state)
  and drops stale sessions. `AutoStartSession` is one step here; the two lock
  sections it has in the code are split in `Service`.
* `Queue` — which photos `Selector.Next` can return. Only the sign of a weight
  decides that, so weights are kept to their sign.
* `Timeline` — the abstract specification of undo: a batch remembers what *all*
  photos looked like before each answer, and an undo shows them so again.
* `StoreTimeline` — the refinement mapping under which `PhotoStore`, which keeps
  per entry only what one answer changed, implements `Timeline`: `LooksOf` reads
  off the photos, `PastOf` reads off the stack what the photos were like before
  each entry.
* `Service` — the handlers over store, files and tabs; it extends `PhotoStore`
  and `Queue`. Each tab has at most one request (`req`, a record with a `pc`) and
  a page. A step is a store call or a file move others can see; what a handler
  only reads after its last change is part of that step. `lib` and `trash` are
  the files, numbered by import, so that a file that replaces another is seen. With
  `MovesMayFail` a move in either direction may fail with the file there: a trash
  then ends the request or leaves a member out, a restore is logged and dropped. A
  scan is a listing, one step per file, and the prune.
* `Indexer` — the goroutine, one action per statement that touches the store or a
  file, against requests, the user's edits, failing saves, stop, crash and boot.
* `Dupes` — `dupes.Find`, one step per pair: sort by time, rows with a time
  window, union-find. Fingerprints are sets of bits, so that similarity is a
  real, non-transitive relation.
* `ImageFile` — pure operators: the orientation found in chained EXIF
  directories, the walk for embedded RAW previews and the choice among them,
  turning and scaling.
* `Thumbs` — `ServeThumb` one file operation at a time, by several requests, while
  the photo is trashed, restored or replaced, `.thumbs` is deleted, writes fail and
  the process dies.
* `Auth` — the token table, the browsers' cookies, lost answers, the clean-up,
  restarts.
* `ServiceDocClaims` — what documents and comments say and the code does
  otherwise; one run refutes each.
* `MCPhotoStore`, `MCService`, `MCIndexer`, `MCDupes`, `MCThumbs`, `MCAuth` —
  constants for TLC.
* `PhotoStoreProofs`, `StepProofs`, `TimelineProofs`, `ServiceProofs`,
  `IndexerProofs`, `DupesProofs`, `ThumbsProofs`, `AuthProofs` — the theorems.

Definitions marked `Mutant:` are plausible bugs of the definition that follows
them. Nothing uses them; they are there to show that the properties notice.

Some variables are history: `forgotten` (`PhotoStore`: photos a rescan dropped),
`imported` and `stranded` (`Service`: files put at a path, files in the trash whose
restore failed), `disturbed` (`Indexer`: photos whose
file changed in the indexer's hands, or whose save was lost), `replaced`, `returned`
and `excused` (`Thumbs`: photos with cached pictures of an older file, photos that came
back between a request's two reads, requests with a reason to fail), `born`, `ended` and `admitted` (`Auth`). No step of the code depends on them, but for
the freshness of a token (`born`) and the number a new file gets (`imported`).

### Abstractions

Photos are model values or small numbers; paths and identifiers coincide. In
`PhotoStore`, what no modelled step reads back is left out: LastSeenAt, added and
modification times, sizes. Hash data reduces to the set `hashed` in `Service`,
which takes all hashed photos for one cluster in one flat directory; the relation
is in `Dupes`, and how hashes come about in `Indexer`, where a file is its contents
and hashing is injective. The clock of `Service` stands still. A name check and the
rename that uses it are one step. The initial scan is one step of a restart, as no
request is served before it ends. An image file is the structure of its
directories, not their bytes, and a picture its name and size. A login token is a
fresh value. `Locked` is never set by the program, and `SetPhotoState`, `MarkSeen`,
`EstimateCounts`, `PurgeThumbs` and `auth.Close` have no caller.

## Properties and runs

| Run | Instance | Checks |
|---|---|---|
| `StoreSession` | 2 photos, 1 day, 2 entries | `CounterCoversStack`, `UndoStackLinked`, `SkipListBounded`, `UndoInverts`, `TrashedUntilUndone`, `ImplementsTimeline` |
| `StoreMidnight` | 1 photo, 3 days, a state file of an older version | `TypeOK`, `CounterCoversStack`, `UndoNeverClamps`, `UnsureRetired` |
| `StoreSaveFail` | 1 photo, saves fail | `UndoStackLinked`, `UndoNeverClamps`, `TrashedUntilUndone`, `ImplementsTimeline` |
| `ServiceTwoTabs` | 1 photo, 2 tabs, 2 files at its path, saves and moves fail, crashes, rescans, the settings form | `ServiceTypeOK`, `TrashedHasFile`, `UndoCanRestore` |
| `ServiceCluster` | 2 photos, 2 tabs, moves fail, crashes, ended batches | `TrashedHasFile`, `UndoCanRestore` |
| `ServiceOneTab` | 2 photos, 1 tab, moves fail, imports, files put back; all routes that keep the session but keep (a cluster keeps) and settings | `TrashTracked` |
| `Indexer` | 2 photos, a good and a broken content, lost saves, crashes, stops | `TypeOK`, `HashIsOfFile`, `EventuallyHashed`, `StopEnds` |
| `Dupes` | every table of 4 photos over 2 bits and few times, with and without a window | `TypeOK`, `OnlyAlikeJoined`, `ClustersAreComponents` |
| `Thumbs` | 2 requests for a JPEG or a RAW file of many shapes | `TypeOK`, `FilesInThumbs`, `CachedIsWhole`, `TempsTidied`, `OthersNeverSpoil`, `CachedIsOfPhoto`, `ThumbsFit`, `TurnsLikeExif`, `PreviewIsLargest` |
| `Auth` | 2 browsers, 2 tokens, lifetime 2, 4 instants | `OnlyLiveAdmitted`, `NotEndedEarly`, `ExpiredAreDropped` |
| `ClaimFiles` | 1 tab, 2 files at one path | refutes `FilesAreNeverLost` |
| `ClaimAutoStart` | 2 tabs | refutes `AutoStartDropsNoDecision` |

Store:

* `CounterCoversStack`: everything the stack could still take back is in Done and
  in the counter of the day it was recorded. Hence `UndoNeverClamps`: the clamps
  in `Undo` never decide the result.
* `UndoStackLinked`: the entries that decide a photo form a chain that ends in
  the photo as it is now. It is stated for photos no rescan ever dropped: a
  dropped photo that comes back starts afresh below entries that remember it.
* `ImplementsTimeline`: through rescans, restarts and lost saves, an undo shows
  every photo as it was before the answer it takes back. `Timeline` promises
  nothing of photos a rescan dropped. The refinement is of the store alone: the
  restart of `Service` opens and scans in one step, which `Timeline` takes as two.
* `UndoInverts`: undo right after an operation is its inverse, counters and skip
  list included. It leaves out what `Undo` does not restore (LastDecisionAt, and a
  trash path older than the entry) and skips that push an older one out of the
  FIFO.
* `TrashedUntilUndone`: a step gives up a trashed record only if it pushes an entry
  that decides the photo, pops one, or is a restart on a file that does not have it
  trashed. A rescan that sees the file of a trashed photo is left open: see "Where a
  document and the code disagree".
* `UnsureRetired`: the state an older version had does not come back after a
  restart.

Handlers:

* `TrashedHasFile`, `UndoCanRestore`: handlers move a file before they record it
  and restore it after they un-recorded it and saved, so whatever comes in
  between, records and stack entries never point at nothing. The one exception is
  stated in `TrashedHasFile`: a photo at whose path a second file was put can be
  trashed with no file recorded, as undoing the second trash forgets the first.
* `TrashTracked`: no file in the trash is orphaned but one whose own move back failed,
  which the code logs after the undo was saved (`handlers.go:473-475, 490-493`). It
  holds for a tab alone that keeps its batch, and not otherwise.
* `ServiceTypeOK`: the request of a tab has at each step the locals that step needs; an
  undo under way has a trash path for every file it moves back.

Indexer, duplicates, thumbnails, sessions:

* `HashIsOfFile`: hash, failure mark and capture time are of the file there is,
  unless it was moved while in the indexer's hands, changed by hand, or a save was
  lost. `EventuallyHashed`: no photo waits for ever. `StopEnds`: a stop ends.
* `OnlyAlikeJoined` holds at every step of `Find`, `ClustersAreComponents` at its
  end: the clusters are the connected components of "taken together and alike",
  defined without the algorithm (a component is what all closed sets around a photo
  share), and their id is that of their smallest member, whatever order the sort
  leaves ties in.
* `CachedIsWhole`, `TempsTidied`, `OthersNeverSpoil`, `FilesInThumbs`: concurrent
  requests, full disks and crashes never leave half a thumbnail under its final
  name, and requests never make each other fail. `CachedIsOfPhoto`: what is cached is
  of the photo's file, whenever that was trashed and restored, and turned as the file
  says; a file that came back between the two reads may be cached unturned.
* `ThumbsFit`, `TurnsLikeExif`, `PreviewIsLargest` are about the operators of
  `ImageFile`, evaluated on all files of the instance: sizes within their limit and
  true to the ratio of the sides; each of the eight orientations against its
  definition pixel by pixel; the walk over directories against the set of those
  that can be reached.
* `OnlyLiveAdmitted`, `NotEndedEarly`, `ExpiredAreDropped`: the table, the cookie and
  the clean-up are three clocks; a token neither outlives nor falls short of its
  life, and none piles up.

### Where a document and the code disagree

Two runs refute what a document or comment says (`findings` in `PROJECT.json` quotes
the lines): `ClaimFiles` — undo overwrites a file imported at the same path;
`ClaimAutoStart` — of two pages opened at once the second drops the decisions of the
first.

A third disagreement has no run: `docs/operations.md:148-152` says that a trashed file
moved back by hand will "re-appear as unsorted" at the next rescan and "re-enter the
pool". The code does not do that. `UpsertPhoto` (`store.go:132`) finds the entry by its
path and changes size and time only, so the photo stays `trashed`; the draw
takes no trashed photo (`queue.go`), the stack of a batch that ended is gone, and
`ForgetMissing` spares trashed records, so not even removing the file and scanning twice
helps. In `Service` that is trash, `End`, `PutBack`, `Rescan`, `Visit`, `Prune`. No
property takes the code's side: `TrashedUntilUndone` allows the step of the scan to
give the record up.

### Other behaviours

Worth knowing, reproduced by the models or read off the code, without a run of
their own.

Store and queue: an undo of a decision on a photo a rescan dropped takes the entry off
the stack in memory, then fails, with the counters as they were and nothing saved
(`store.go:719`); an undo leaves LastDecisionAt, so the undone photo stays out of the
pool for the cooldown (`docs/architecture.md:87-89`, `store.go:722-725`); undoing a
second trash leaves a photo trashed with no path (`store.go:722-725`); a batch
overshot by a cluster counted photo by photo can stay complete after
`POST /session/extend`; skipping a cluster larger than the batch lets its first
members come right back (`store.go:517`); a kept photo that resurfaces can be
skipped, so a skip is not always of an unsorted photo (`session.go:26`); a saved
similarity threshold of 0 is 35 after a restart (`store.go:81-85`); a session alive
across an upgrade can bring "unsure" back by undo; the snapshot `Session()` returns
shares the array of RecentlySkipped (`store.go:306-313`), which a later undo shifts.

Handlers and scan: a rescan that listed the directory before an undo restored a photo
drops it (`scan.go:74-75`); when the move back of an undo fails, the undo is saved, the
page goes on, and the file stays in the trash with no record of it (`handlers.go:473-475,
490-493`; `docs/operations.md:168` names the log line); trashing from a page left open after the
batch ended moves the file and fails to record it; a photo hashed after a cluster page
was shown is trashed with the cluster (`handlers.go:745`); keeping a photo another tab
just trashed leaves it kept with its file in the trash.

Indexer and duplicates: a photo trashed while in the indexer's hands is marked failed
for good; `cluster.go:13,22-23` speaks of pairwise similar photos less than the window
apart, but union-find joins the ends of a chain and the window itself is still near.

Thumbnails: a file replaced over a cached thumbnail stays stale; a photo restored
between the two reads of its file can be cached unturned; deleting `.thumbs`
during a request can give an empty answer the browser may keep for a day
(`docs/operations.md:110`); an extreme ratio scales a side to nothing; a crash leaves
temporary files; `docs/architecture.md:216-228` and `docs/operations.md:189` say EXIF
orientation and dates are not handled, and the code handles both.

### Bounds

`MaxStack`, `MaxDone`, `MaxDaily`, `MaxTarget`, `MaxNow`, `MaxImports` and
`MaxSlot` bound what would grow for ever; every guard they appear in is named
in the modules (`Room`, `RoomAhead`). Two stack entries are enough for each of
the store's hazards: an entry over another on the same photo, a cluster over a
single decision, an undo followed by a different decision. Two photos give
clusters, FIFO overflow with a cap of 1 or 2 in place of 5 and 10, and one photo
forgotten while another stays. Three days give an entry recorded on an earlier
day and a session more than a day old. Two tabs give every pair of requests;
runs with one photo leave room for failing saves and crashes at every step.

`Indexer`: requests and edits touch one photo (`Handled`); the second is there to be
starved by it, which is what `EventuallyHashed` is about. `Dupes`: four photos are
the fewest with two clusters, and with a chain of two links next to a photo out of
the window; with two bits and a threshold of 1, two fingerprints are alike only
through a third. `Thumbs`: one request races another, and every clash is of two; four
directories give chains, circles, trees and a walk cut off by `MaxVisited`; there are widths below
and above the limit, and pictures wide, tall, tiny and narrow. `Auth`: a lifetime
of 2 within 4 instants lets a token live, expire, and be followed by another.
`Libraries`, `Replacements`, `Edits`, `Tables` list the files and tables of an
instance.

The proofs do not depend on any of these bounds.

Deadlock is checked in every run but `Dupes`, which models an algorithm that ends.

### Fairness

* `Indexer`: weak fairness of the goroutine and of the exit of the process, since
  both just run; strong fairness of picking each photo, since `range` over a Go map
  starts anywhere, so an unhashed photo is not passed over for ever, though others
  come and go between two picks.
* `Auth`: weak fairness of the clean-up, which a ticker calls every hour.

Users, signals, crashes, logins and the clock owe nothing. `PhotoStore`, `Service`,
`Dupes` and `Thumbs` are checked for safety only: their steps are at the user's
choosing.

## Proofs

Everything below is proved for every value of the constants that satisfies the named
assumptions, which TLC evaluates on each instance:

| Module | Theorems |
|---|---|
| `PhotoStoreProofs` | `TypeCorrect` (`TypeOK`), `CountersCorrect` (`CounterCoversStack`), `NoClamp` (`UndoNeverClamps`) |
| `StepProofs` | `SkipListCorrect` (`SkipListBounded`), `UnsureCorrect` (`UnsureRetired`), `TrashedCorrect` (`TrashedUntilUndone`), `StackCorrect` (`UndoStackLinked`), `UndoInvertsCorrect` (`UndoInverts`) |
| `TimelineProofs` | `TimelineCorrect` (`ImplementsTimeline`) |
| `ServiceProofs` | `ServiceTypeCorrect` (`ServiceTypeOK`), `TrashedKeepsFile` (`TrashedHasFile`), `UndoFindsFile` (`UndoCanRestore`), `NothingOrphaned` (`TrashTracked`) |
| `IndexerProofs` | `TypeCorrect` (`TypeOK`), `HashCorrect` (`HashIsOfFile`) |
| `DupesProofs` | `TypeCorrect` (`TypeOK`), `JoinsOnlyAlike` (`OnlyAlikeJoined`), `FindsComponents` (`ClustersAreComponents`) |
| `ThumbsProofs` | `TypeCorrect` (`TypeOK`), `FilesLieInThumbs` (`FilesInThumbs`), `CacheIsWhole` (`CachedIsWhole`), `TempsAreTidied` (`TempsTidied`), `NoneSpoilsAnother` (`OthersNeverSpoil`), `CacheIsOfPhotos` (`CachedIsOfPhoto`), `AllThumbsFit` (`ThumbsFit`), `TurnsAsExifSays` (`TurnsLikeExif`), `PreviewsAreLargest` (`PreviewIsLargest`) |
| `AuthProofs` | `LiveOnly` (`OnlyLiveAdmitted`), `NeverEarly` (`NotEndedEarly`) |

**Assumptions.** Store: `ConstantsAssumption`, `NilAssumption` (nil is neither a photo
nor an operation), `StateFilesAssumption` (the first start finds a file with the
types and the counter and chain properties, which every file the store writes
has), `LookAssumption` (nil and gone are neither looks nor a past). Service:
`SlotsAssumption` (a photo's names in the trash are numbered), `BoundsAssumption`
(the bounds are numbers), `FirstFileAssumption` (the trash
directory is empty at first, so the first state file calls nothing trashed). Dupes:
`ConstantsAssumption`. Indexer:
`ContentsAssumption`, `NilAssumption`, `HashAssumption` (contents are not the words
"none" and "failed"). Thumbs: `OffsetsAssumption` (finitely many offsets, none of them 0;
the caps are numbers), `SizesAssumption`, `NilAssumption`, `FilesAssumption` (the
instance's files are files). Auth: `AuthAssumption`.

Two theorems about the files need a hypothesis on the environment. `TrashedKeepsFile`
and `UndoFindsFile` assume `~PutsBack`: a user who moves files out of the trash by hand
takes from under a record what it points to, and no code could prevent that.
`NothingOrphaned` assumes `Alone`: one tab, no crash, no failing save, no ended batch,
since each of them can part the move of a file from its record. Hands in the trash and
failing moves are allowed there: `TrashTracked` excuses the very file whose move back
failed, and nothing else. `ServiceOneTab` is an instance of the second, the other two runs of
`Service` are instances of the first.

**Store, by value.** `StoreType` and `CountersCover` are invariants of a store
*value*, so each method has a lemma that its `After` operator preserves them, and
the actions follow since both `mem` and `disk` always hold the result of some
method. `StoreType` is inductive only with `EntryOK` (a decision's entry touches
its photo and remembers a real state), because `Undo` puts the remembered state
back. `CountersCover` speaks of sums over the stack. Sums by recursion are out of
the prover's reach, so a sum is stated by a witness, the sequence of its partial
sums; pushing an entry extends the witness, popping cuts it, and that
Done is at least its last summand, which gives `UndoNeverClamps`, is read off the
last two partial sums.

**Store, the chain.** `StackInv` says of memory and of the file that the entries
which decide a photo never dropped are linked, each to the next and the last to the
photo. It needs besides that no entry *makes* a photo "unsure"
(`NoUnsureMade`): loading rewrites that state in the table only, and would break a
chain that ends in it.

**Store, by step.** `StepKinds`: every step installs the result of one method, or
opens a state file. From it come the FIFO's bound, that a trashed record is given up
only as allowed, and, for a first file whose stack does not remember "unsure", that
the state never returns. The hypothesis is needed: the code normalizes the table and
not the stack.

**Refinement.** `TimelineCorrect` has the same hypothesis. Its invariant joins
`TypeOK`, `StackInv`, the FIFO's bound and the retired state; with the chain, what an
entry saved of a photo is what the photo was like when the next older one had been
answered, so the look before an entry is what the first later deciding entry saved.
Pushing an entry then appends the present looks to the past (`SimPush`), popping
takes them back (`SimUndo`), a rescan changes looks and past alike (`SimFresh`,
`SimDropped`), and loading commutes with the mapping (`SimLoaded`).

**Undo as inverse.** `UndoInvertsCorrect` is proved by value: of each kind of answer,
what it leaves on the stack is enough to compute the value before it. A FIFO that is full
loses its head, hence the exception in the property.

**Service.** `Typed` is inductive by the store's value lemmas, with the shapes of
requests and pages. `Safe` says, of memory and of the file alike, that each entry which
trashes a photo, and each record with a path, has its file in the trash (`Sound`), or is
excused by another file that came to that path since; and that a file in a request's
hands is in nobody else's (`Held`). It also counts the files of a path (`Numbered`), so
that "another file" means what it says. Handlers move first and record then, undo first
and restore then: that order is all the proof needs.

`Minded` is the other direction, from the file to the record: a file in the trash is in
a request's hands, or an entry of the stack can bring it back. For undo to keep this,
a photo is trashed exactly while some entry can bring it back and no later one
touches it (`Stands`), and a page that shows a photo, or a request about to record one,
is still of the batch that goes on (`PageLive`, `RequestLive`). That nothing can end the
batch between the move and the record is where `Alone` is needed.

**Duplicates.** `IInv` says that parents form a forest in which they are never larger
than their children, that no group reaches out of a component, that pairs already passed
are joined, and that a row broken off at the window leaves no pair it should have looked
at (the rows are sorted by time). Claims about all photos are proved for the least photo
of which they would fail, since an induction theorem is out of reach.

**Indexer.** `Inv` is `TypeOK`, what the goroutine holds at each statement (`Hand`), and, for
every undisturbed photo, that memory and state file agree, that the entry is true of
the file wherever that is, at its path or in the trash, and that so is what the
goroutine carries. Requests move files under entries, so the property over the path
alone is not inductive.

**Thumbs.** `Inv` follows a request through `ServeThumb`: between creating the temporary
file and the rename it owns one, and a whole one once it is encoded. That is why
two requests for one thumbnail do no harm. A request without an excuse still has what
it made: the directory, its temporary file, the thumbnail. `OfPhotos` compares what a
request has read, and what is cached, with the photo's file wherever that is, in the
library or in the trash: moves change the place only. A request past its first read has
the orientation of the file, or none if the file was away then; that request may go on
to find a picture only when the file comes back, which `returned` records. Replacing a
file is what `replaced` excuses. `TurnsAsExifSays` is proved with an
inverse of `Placed`, orientation by orientation, for pictures of any size.

`PreviewsAreLargest` needs what holds after every step of the walk over a RAW file's
directories (`WalkInv`): what is found is what the visited directories hold, all they
point to is visited or in the queue, and the queue's length plus the steps made is at most
one more than what the visited directories can have queued. The last part shows that
`MaxSteps` steps are enough for the walk to end by itself, so the bound of the model cuts
nothing off. As with the duplicates, the claim is proved for the first step after which it
would fail, and the recursive function is unfolded by a sequence of steps shown to exist.

**Auth.** `Inv` relates a token's expiry in the table and in the cookies to its
birth, and its presence in the table to its not having ended.

Only model-checked: the liveness properties `EventuallyHashed`, `StopEnds` and
`ExpiredAreDropped`, which like everything about ENABLED are out of the prover's reach.
Every other property of a passing run is a theorem, some under the hypotheses named above.

## Not modelled

* The web client: gestures and prefetching. What it posts is what the tabs of
  `Service` post.
* Templates and the routes that only read (meta, stats, the settings page), and
  `Inspect`.
* Flags, the listening socket, the HTTP server's own time limits.
* Bytes: the layout of headers, the pixel arithmetic of `dhash.Compute` and of
  scaling, JSON. What loading makes of zeroes and missing fields *is* modelled.
* LastSeenAt, and methods without a caller (`MarkSeen`, `SetPhotoState`).

## Plan

What would come next:

1. `Service` over the similarity relation of `Dupes` in place of its single cluster.
2. The array that snapshots of a session share, as a store of its own with cells.
