------------------------------- MODULE Indexer -------------------------------
(***************************************************************************)
(* The background indexer (src/internal/indexer): one goroutine that picks *)
(* an unhashed photo, reads and decodes its file without a lock, and       *)
(* writes the result into the store; around it the process's start and     *)
(* stop (src/main.go), and what handlers and the user do to photos and     *)
(* files meanwhile.                                                        *)
(*                                                                         *)
(* A photo's entry is reduced to what the indexer reads and writes, a file *)
(* to its contents.  Hashing c gives c: different contents hash apart.     *)
(***************************************************************************)
EXTENDS Integers

CONSTANTS
    PhotoIDs,      \* photos, one path each
    Contents,      \* what a file may contain
    Broken,        \* contents that cannot be decoded
    Dated,         \* contents whose EXIF has a capture time
    Libraries,     \* the files the first scan may find
    Nil,           \* no entry, no file, no photo
    SavesMayFail,  \* whether saveLocked may return an error
    Edits,         \* what the user may leave at a path by hand; Nil is nothing
    Handled        \* bound: the photos that requests and the user touch

ASSUME ContentsAssumption ==
    /\ Broken \subseteq Contents /\ Dated \subseteq Contents
    /\ Edits \subseteq Contents \cup {Nil}
    /\ Handled \subseteq PhotoIDs
    /\ Libraries \subseteq [PhotoIDs -> Contents]
    /\ SavesMayFail \in BOOLEAN

VARIABLES
    photos,     \* the store's table, in memory
    disk,       \* the table in the state file
    lib,        \* the file at each photo's path
    bin,        \* the photo's file in the trash directory
    moving,     \* how far a trash or undo request has come
    proc,       \* the process: up, stopping, down
    pc,         \* the indexer
    work,       \* what the indexer's locals hold
    disturbed   \* history: photos whose result may be about something else

world == <<lib, bin, moving>>

vars == <<photos, disk, world, proc, pc, work, disturbed>>

\* Time is the file's modification time until EXIF says better.
Entry == [trashed: BOOLEAN, hash: Contents \cup {"none", "failed"},
          time: {"mtime", "exif"}]

NewEntry == [trashed |-> FALSE, hash |-> "none", time |-> "mtime"]

\* Nil is none of the values it stands in for the lack of.
ASSUME NilAssumption ==
    Nil \notin Contents /\ Nil \notin PhotoIDs /\ Nil \notin Entry

ASSUME HashAssumption == "none" \notin Contents /\ "failed" \notin Contents

Known(id) == photos[id] # Nil

Idle == [id |-> Nil, file |-> Nil]

\* The photo's contents are in the indexer's hands.
InHand(id) == work.id = id

\* saveLocked, after a change of id's entry.  A lost save leaves an older entry
\* for the next start.
Save(id, note) ==
    \/ disk' = photos' /\ disturbed' = note
    \/ SavesMayFail /\ UNCHANGED disk /\ disturbed' = note \cup {id}

-----------------------------------------------------------------------------
(***************************************************************************)
(* The indexer's goroutine.                                                *)
(***************************************************************************)
Unhashed(id) == Known(id) /\ ~photos[id].trashed /\ photos[id].hash = "none"

Runs(from) == proc # "down" /\ pc = from

Goes(to) == pc' = to /\ UNCHANGED <<world, proc>>

Reads == UNCHANGED <<photos, disk, disturbed>>

\* Mutant: the stop channel is only looked at in the nap.
StoppedIdle ==
    /\ Runs("nap")
    /\ proc = "stopping"
    /\ Goes("done") /\ Reads /\ UNCHANGED work

\* The stop channel is only looked at between photos, and in the nap.
Stopped ==
    /\ Runs("loop") \/ Runs("nap")
    /\ proc = "stopping"
    /\ Goes("done") /\ Reads /\ UNCHANGED work

\* NextUnhashed: the first in a range over a map.
Pick(id) ==
    /\ Runs("loop") /\ proc # "stopping"
    /\ Unhashed(id)
    /\ work' = [id |-> id, file |-> Nil]
    /\ Goes("exif")
    /\ disturbed' = IF moving[id] # "none" THEN disturbed \cup {id} ELSE disturbed
    /\ UNCHANGED <<photos, disk>>

Sleep ==
    /\ Runs("loop") /\ proc # "stopping"
    /\ \A id \in PhotoIDs : ~Unhashed(id)
    /\ Goes("nap") /\ Reads /\ UNCHANGED work

Wake == Runs("nap") /\ proc # "stopping" /\ Goes("loop") /\ Reads /\ UNCHANGED work

\* ReadExifFile swallows every error.
ReadExif ==
    /\ Runs("exif")
    /\ Goes(IF lib[work.id] \in Dated THEN "date" ELSE "decode")
    /\ Reads /\ UNCHANGED work

\* SetCaptureTime; its error is ignored.
SetCaptureTime ==
    /\ Runs("date")
    /\ IF Known(work.id) /\ photos[work.id].time # "exif"
       THEN /\ photos' = [photos EXCEPT ![work.id].time = "exif"]
            /\ Save(work.id, disturbed)
       ELSE Reads
    /\ Goes("decode") /\ UNCHANGED work

\* Mutant: the error of DecodeImage is ignored.
DecodeAnyway ==
    /\ Runs("decode")
    /\ work' = [work EXCEPT !.file = lib[work.id]]
    /\ Goes("set") /\ Reads

Decode ==
    /\ Runs("decode")
    /\ IF lib[work.id] \in Contents \ Broken
       THEN work' = [work EXCEPT !.file = lib[work.id]] /\ Goes("set")
       ELSE UNCHANGED work /\ Goes("fail")
    /\ Reads

\* SetHash.  A hash that could not be saved counts as failed, as does one for
\* a photo that is gone.
SetHash ==
    /\ Runs("set")
    /\ IF Known(work.id)
       THEN /\ photos' = [photos EXCEPT ![work.id].hash = work.file]
            /\ \/ disk' = photos' /\ UNCHANGED disturbed
                  /\ Goes("loop") /\ work' = Idle
               \/ SavesMayFail /\ UNCHANGED disk
                  /\ disturbed' = disturbed \cup {work.id}
                  /\ Goes("fail") /\ UNCHANGED work
       ELSE Reads /\ Goes("fail") /\ UNCHANGED work

\* Mutant: a failure leaves no trace.
FailUnmarked == Runs("fail") /\ Reads /\ Goes("loop") /\ work' = Idle

\* Mutant: a photo that is gone gets an entry again.
MarkFailedAnew ==
    /\ Runs("fail")
    /\ photos' = [photos EXCEPT ![work.id] =
                      IF @ = Nil THEN [hash |-> "failed"]
                      ELSE [@ EXCEPT !.hash = "failed"]]
    /\ Save(work.id, disturbed)
    /\ Goes("loop") /\ work' = Idle

MarkHashFailed ==
    /\ Runs("fail")
    /\ IF Known(work.id)
       THEN /\ photos' = [photos EXCEPT ![work.id].hash = "failed"]
            /\ Save(work.id, disturbed)
       ELSE Reads
    /\ Goes("loop") /\ work' = Idle

IndexerStep ==
    \/ Stopped \/ Sleep \/ Wake
    \/ \E id \in PhotoIDs : Pick(id)
    \/ ReadExif \/ SetCaptureTime \/ Decode \/ SetHash \/ MarkHashFailed
-----------------------------------------------------------------------------
(***************************************************************************)
(* Requests.  A trash request moves the file, then records; an undo        *)
(* un-records, then moves the file back (Service has them in full).        *)
(***************************************************************************)
IndexerKept == UNCHANGED <<proc, pc, work>>

TrashFile(id) ==
    /\ proc = "up" /\ Known(id) /\ moving[id] = "none"
    /\ lib[id] # Nil /\ bin[id] = Nil
    /\ lib' = [lib EXCEPT ![id] = Nil]
    /\ bin' = [bin EXCEPT ![id] = lib[id]]
    /\ moving' = [moving EXCEPT ![id] = "out"]
    /\ disturbed' = IF InHand(id) THEN disturbed \cup {id} ELSE disturbed
    /\ IndexerKept /\ UNCHANGED <<photos, disk>>

RecordTrash(id) ==
    /\ proc # "down" /\ moving[id] = "out"
    /\ moving' = [moving EXCEPT ![id] = "none"]
    /\ IF Known(id)
       THEN /\ photos' = [photos EXCEPT ![id].trashed = TRUE]
            /\ Save(id, disturbed)
       ELSE Reads
    /\ IndexerKept /\ UNCHANGED <<lib, bin>>

\* Without a save the handler does not go on to the file.
Undo(id) ==
    /\ proc = "up" /\ moving[id] = "none"
    /\ Known(id) /\ photos[id].trashed
    /\ photos' = [photos EXCEPT ![id].trashed = FALSE]
    /\ \/ /\ disk' = photos' /\ UNCHANGED disturbed
          /\ moving' = [moving EXCEPT ![id] = "back"]
       \/ /\ SavesMayFail
          /\ disturbed' = disturbed \cup {id}
          /\ UNCHANGED <<disk, moving>>
    /\ IndexerKept /\ UNCHANGED <<lib, bin>>

RestoreFile(id) ==
    /\ proc # "down" /\ moving[id] = "back"
    /\ moving' = [moving EXCEPT ![id] = "none"]
    /\ IF bin[id] = Nil
       THEN UNCHANGED <<lib, bin, disturbed>>
       ELSE /\ lib' = [lib EXCEPT ![id] = bin[id]]
            /\ bin' = [bin EXCEPT ![id] = Nil]
            /\ disturbed' = IF lib[id] # Nil \/ InHand(id)
                            THEN disturbed \cup {id} ELSE disturbed
    /\ IndexerKept /\ UNCHANGED <<photos, disk>>

\* UpsertPhoto: a known photo keeps its time and its hash.
Upserted(entry) == IF entry = Nil THEN NewEntry ELSE entry

\* A rescan registers a file, and drops an entry without one.
Register(id) ==
    /\ proc = "up" /\ lib[id] # Nil
    /\ photos' = [photos EXCEPT ![id] = Upserted(@)]
    /\ IF Known(id) THEN UNCHANGED <<disk, disturbed>> ELSE Save(id, disturbed)
    /\ IndexerKept /\ UNCHANGED world

Gone(table, id) == table[id] # Nil /\ ~table[id].trashed /\ lib[id] = Nil

Forget(id) ==
    /\ proc = "up" /\ Gone(photos, id)
    /\ photos' = [photos EXCEPT ![id] = Nil]
    /\ Save(id, IF InHand(id) THEN disturbed \cup {id} ELSE disturbed \ {id})
    /\ IndexerKept /\ UNCHANGED world

\* The user adds, removes or replaces a file; only an entry made later can know.
Edit(id, file) ==
    /\ lib[id] # file
    /\ lib' = [lib EXCEPT ![id] = file]
    /\ disturbed' = IF Known(id) \/ InHand(id) THEN disturbed \cup {id}
                    ELSE disturbed
    /\ IndexerKept /\ UNCHANGED <<photos, disk, bin, moving>>

-----------------------------------------------------------------------------
(***************************************************************************)
(* The process (main.go).                                                  *)
(***************************************************************************)
\* SIGTERM: no new requests, five seconds for those under way (which may still
\* go on after that), then Indexer.Stop closes the channel.
Stop ==
    /\ proc = "up"
    /\ proc' = "stopping"
    /\ UNCHANGED <<photos, disk, world, pc, work, disturbed>>

Down ==
    /\ proc' = "down" /\ pc' = "loop" /\ work' = Idle
    /\ moving' = [id \in PhotoIDs |-> "none"]
    /\ UNCHANGED <<photos, lib, bin>>

\* The indexer is done: Store.Close saves once more, and main returns.
Exit ==
    /\ proc = "stopping" /\ pc = "done"
    /\ Down
    /\ \/ disk' = photos /\ UNCHANGED disturbed
       \/ SavesMayFail /\ UNCHANGED <<disk, disturbed>>

Crash == proc # "down" /\ Down /\ UNCHANGED <<disk, disturbed>>

\* Open and the initial scan, before the indexer starts.
Boot ==
    /\ proc = "down"
    /\ proc' = "up"
    /\ photos' = [id \in PhotoIDs |->
                     IF Gone(disk, id) THEN Nil
                     ELSE IF lib[id] # Nil THEN Upserted(disk[id])
                     ELSE disk[id]]
    /\ disk' = photos'
    /\ disturbed' = {id \in disturbed : photos'[id] = disk[id]}
    /\ UNCHANGED <<world, pc, work>>

Init ==
    /\ lib \in Libraries
    /\ photos = [id \in PhotoIDs |-> NewEntry]
    /\ disk = photos
    /\ bin = [id \in PhotoIDs |-> Nil]
    /\ moving = [id \in PhotoIDs |-> "none"]
    /\ proc = "up" /\ pc = "loop" /\ work = Idle
    /\ disturbed = {}

Next ==
    \/ IndexerStep
    \/ \E id \in Handled : \/ TrashFile(id) \/ RecordTrash(id)
                           \/ Undo(id) \/ RestoreFile(id)
                           \/ Register(id) \/ Forget(id)
                           \/ \E file \in Edits : Edit(id, file)
    \/ Stop \/ Exit \/ Crash \/ Boot

\* The goroutine and main run; requests under way go on; and a range over a map
\* starts anywhere, so no photo is passed over for ever.  Users, signals and
\* crashes owe nothing.
Fairness ==
    /\ WF_vars(IndexerStep)
    /\ \A id \in PhotoIDs : SF_vars(Pick(id))
    /\ WF_vars(Exit)

Spec == Init /\ [][Next]_vars /\ Fairness

-----------------------------------------------------------------------------
\* Entries in memory and in the file are whole, whatever of them a failed save,
\* a rescan or a restart left, and the goroutine (indexer.go:51-94) is at one of its
\* statements.
TypeOK ==
    /\ photos \in [PhotoIDs -> Entry \cup {Nil}]
    /\ disk \in [PhotoIDs -> Entry \cup {Nil}]
    /\ lib \in [PhotoIDs -> Contents \cup {Nil}]
    /\ bin \in [PhotoIDs -> Contents \cup {Nil}]
    /\ moving \in [PhotoIDs -> {"none", "out", "back"}]
    /\ proc \in {"up", "stopping", "down"}
    /\ pc \in {"loop", "nap", "exif", "date", "decode", "set", "fail", "done"}
    /\ work \in [id: PhotoIDs \cup {Nil}, file: Contents \cup {Nil}]
    /\ disturbed \subseteq PhotoIDs

\* What the indexer should have found out about a file.
Result(file) ==
    [hash |-> IF file \in Broken THEN "failed" ELSE file,
     time |-> IF file \in Dated THEN "exif" ELSE "mtime"]

\* A hashed photo's hash and capture time are those of its file, and only a
\* broken file is marked as failed (indexer.go:80-94), whatever was trashed,
\* undone, rescanned or restarted, and wherever the indexer was: unless the file
\* was on its way while this very photo was in the indexer's hands, the user
\* changed the file of a photo under the program's feet, or a save was lost.
HashIsOfFile ==
    \A id \in PhotoIDs \ disturbed :
        (/\ Known(id) /\ photos[id].hash # "none"
         /\ ~photos[id].trashed /\ moving[id] = "none"
         /\ lib[id] # Nil)
        => [hash |-> photos[id].hash, time |-> photos[id].time] = Result(lib[id])

\* Hashing is eventually consistent (docs/architecture.md:213): while the process
\* is up, every photo that stays in the library leaves the set of unhashed ones,
\* hashed or failed, whatever happens to the others.
EventuallyHashed ==
    \A id \in PhotoIDs : Unhashed(id) ~> (~Unhashed(id) \/ proc # "up")

\* Indexer.Stop waits for the goroutine (indexer.go:46-49) and always gets it: a
\* clean stop ends.
StopEnds == proc = "stopping" ~> proc = "down"
=============================================================================
