-------------------------------- MODULE Thumbs --------------------------------
(***************************************************************************)
(* Thumbnails (src/internal/img/thumb.go and the handlers that serve       *)
(* them): requests look into the cache directory .thumbs, read and decode  *)
(* the photo on a miss, write a temporary file and rename it.  Meanwhile   *)
(* other requests do the same, photos are trashed and restored, the user   *)
(* replaces a file or deletes .thumbs, and the process may die.            *)
(*                                                                         *)
(* Every step that reads or changes a file is an action.  An open file is  *)
(* read to its end whatever happens to its name.  PurgeThumbs has no       *)
(* caller.  A width of 0 never gets to ServeThumb.                         *)
(***************************************************************************)
EXTENDS ImageFile

CONSTANTS
    PhotoIDs,       \* photos, one path each
    Raws,           \* those with a RAW file's extension
    Requests,       \* requests under way at a time
    Widths,         \* the widths asked for
    Libraries,      \* the files there may be at first, and the photos known
    Replacements,   \* bound: what the user may put over a photo's file
    WritesMayFail   \* whether the disk may be full

VARIABLES
    known,     \* the photos in the store's table
    lib,       \* the file at each photo's path
    bin,       \* the photo's file in the trash directory
    dir,       \* whether .thumbs exists
    cache,     \* the thumbnail under each name <id>-<side>.jpg
    temp,      \* each request's temporary file
    req,       \* where each request is, and what its locals hold
    replaced,  \* history: photos whose cached thumbnails may be of an older file
    returned,  \* history: photos that came back between a request's two reads
    excused    \* history: requests with a reason to fail, other requests aside

vars == <<known, lib, bin, dir, cache, temp, req, replaced, returned, excused>>

\* Mutant: no upper bound.
SideAsked(width) == width

Side(width) == IF width > ThumbnailMaxSide THEN ThumbnailMaxSide ELSE width

Keys == PhotoIDs \X {Side(width) : width \in Widths \cup {ThumbnailMaxSide}}

\* An image file of the cache directory, whole or still being written.
Thumbnail == [name: Names, turn: 1 .. 8, whole: BOOLEAN, size: [w: Int, h: Int]]

Idle == [pc |-> "idle"]

\* Where a request is, by the local variables it has by then.
Stage ==
    {Idle}
    \cup [pc: {"exif"}, key: Keys]
    \cup [pc: {"decode"}, key: Keys, turn: Nat]
    \cup [pc: {"mkdir", "create", "encode", "rename", "reopen"}, key: Keys,
          thumb: Thumbnail]
    \cup [pc: {"done"}, key: Keys, answer: Thumbnail \cup {Nil}]

AtFirst == UNION {{start.lib[id] : id \in PhotoIDs} : start \in Libraries}

\* Every file there may ever be.
Files == (AtFirst \cup Replacements) \ {Nil}

ASSUME SizesAssumption ==
    /\ Widths \subseteq Nat \ {0}
    /\ ThumbnailMaxSide \in Nat \ {0}

ASSUME FilesAssumption ==
    /\ Libraries \subseteq [lib: [PhotoIDs -> Files \cup {Nil}],
                            known: SUBSET PhotoIDs]
    /\ Files \subseteq File

ASSUME NilAssumption == Nil \notin Thumbnail

Running(r) == req[r].pc \notin {"idle", "done"}

At(r, pc) == req[r].pc = pc

Photo(r) == req[r].key[1]

Kept == UNCHANGED <<known, lib, bin, replaced, returned>>

\* The answer; Nil is the empty body of a request that failed.
Answers(r, answer) ==
    req' = [req EXCEPT ![r] = [pc |-> "done", key |-> @.key, answer |-> answer]]

Goes(r, pc) == req' = [req EXCEPT ![r].pc = pc]

Excuse(r) == excused' = excused \cup {r}

-----------------------------------------------------------------------------
(***************************************************************************)
(* ServeThumb.                                                             *)
(***************************************************************************)
Serve(r, key) ==
    /\ ~Running(r)
    /\ req' = [req EXCEPT ![r] =
                  IF cache[key] # Nil
                  THEN [pc |-> "done", key |-> key, answer |-> cache[key]]
                  ELSE [pc |-> "exif", key |-> key]]
    /\ excused' = excused \ {r}
    /\ Kept /\ UNCHANGED <<dir, cache, temp>>

\* GET /thumb/{id}?w=; a photo the scan has not seen is a 404.
HandleThumb(r, id, width) ==
    IF id \in known THEN Serve(r, <<id, Side(width)>>) ELSE UNCHANGED vars

\* GET /photo/{id} of a RAW photo; any other is served as it is.
HandleServePhoto(r, id) ==
    /\ id \in known \cap Raws
    /\ Serve(r, <<id, ThumbnailMaxSide>>)

ReadExif(r) ==
    /\ At(r, "exif")
    /\ LET file == lib[Photo(r)]
       IN  req' = [req EXCEPT ![r] =
               [pc |-> "decode", key |-> @.key,
                turn |-> IF file = Nil THEN 0 ELSE Orientation(file)]]
    /\ Kept /\ UNCHANGED <<dir, cache, temp, excused>>

\* Mutant: the orientation is not applied.
DecodeUnturned(r) ==
    /\ At(r, "decode")
    /\ LET file == lib[Photo(r)]
       IN  IF file = Nil
           THEN Answers(r, Nil) /\ Excuse(r)
           ELSE \E pic \in Decodings(file, Photo(r) \in Raws) :
                   IF pic = Nil
                   THEN Answers(r, Nil) /\ Excuse(r)
                   ELSE /\ req' = [req EXCEPT ![r] =
                              [pc |-> "mkdir", key |-> @.key,
                               thumb |-> Thumb(pic, 0, @.key[2])]]
                        /\ UNCHANGED excused
    /\ Kept /\ UNCHANGED <<dir, cache, temp>>

Decode(r) ==
    /\ At(r, "decode")
    /\ LET file == lib[Photo(r)]
       IN  IF file = Nil
           THEN Answers(r, Nil) /\ Excuse(r)
           ELSE \E pic \in Decodings(file, Photo(r) \in Raws) :
                   IF pic = Nil
                   THEN Answers(r, Nil) /\ Excuse(r)
                   ELSE /\ req' = [req EXCEPT ![r] =
                              [pc |-> "mkdir", key |-> @.key,
                               thumb |-> Thumb(pic, @.turn, @.key[2])]]
                        /\ UNCHANGED excused
    /\ Kept /\ UNCHANGED <<dir, cache, temp>>

MkdirAll(r) ==
    /\ At(r, "mkdir")
    /\ dir' = TRUE
    /\ Goes(r, "create")
    /\ Kept /\ UNCHANGED <<cache, temp, excused>>

CreateTemp(r) ==
    /\ At(r, "create")
    /\ IF dir
       THEN /\ temp' = [temp EXCEPT ![r] = [req[r].thumb EXCEPT !.whole = FALSE]]
            /\ Goes(r, "encode") /\ UNCHANGED excused
       ELSE Answers(r, Nil) /\ Excuse(r) /\ UNCHANGED temp
    /\ Kept /\ UNCHANGED <<dir, cache>>

\* Mutant: the temporary file of a failed write stays.
EncodeUntidy(r) ==
    /\ At(r, "encode")
    /\ \/ temp' = [temp EXCEPT ![r] = IF @ = Nil THEN Nil ELSE req[r].thumb]
          /\ Goes(r, "rename") /\ UNCHANGED excused
       \/ WritesMayFail
          /\ Answers(r, Nil) /\ Excuse(r) /\ UNCHANGED temp
    /\ Kept /\ UNCHANGED <<dir, cache>>

\* Mutant: the error of a failed write is ignored.
EncodeAnyway(r) ==
    /\ At(r, "encode")
    /\ \/ temp' = [temp EXCEPT ![r] = IF @ = Nil THEN Nil ELSE req[r].thumb]
       \/ WritesMayFail /\ UNCHANGED temp
    /\ Goes(r, "rename") /\ UNCHANGED excused
    /\ Kept /\ UNCHANGED <<dir, cache>>

\* jpeg.Encode and Close.  A file that lost its name is written all the same.
Encode(r) ==
    /\ At(r, "encode")
    /\ \/ temp' = [temp EXCEPT ![r] = IF @ = Nil THEN Nil ELSE req[r].thumb]
          /\ Goes(r, "rename") /\ UNCHANGED excused
       \/ WritesMayFail
          /\ temp' = [temp EXCEPT ![r] = Nil]
          /\ Answers(r, Nil) /\ Excuse(r)
    /\ Kept /\ UNCHANGED <<dir, cache>>

\* Mutant: a name that is taken is an error.
RenameIfFree(r) ==
    /\ At(r, "rename")
    /\ temp' = [temp EXCEPT ![r] = Nil]
    /\ IF temp[r] # Nil /\ cache[req[r].key] = Nil
       THEN /\ cache' = [cache EXCEPT ![req[r].key] = temp[r]]
            /\ Goes(r, "reopen")
       ELSE Answers(r, Nil) /\ UNCHANGED cache
    /\ Kept /\ UNCHANGED <<dir, excused>>

\* The rename replaces what another request has put there.
Rename(r) ==
    /\ At(r, "rename")
    /\ temp' = [temp EXCEPT ![r] = Nil]
    /\ IF temp[r] # Nil
       THEN /\ cache' = [cache EXCEPT ![req[r].key] = temp[r]]
            /\ Goes(r, "reopen")
       ELSE Answers(r, Nil) /\ UNCHANGED cache
    /\ Kept /\ UNCHANGED <<dir, excused>>

Reopen(r) ==
    /\ At(r, "reopen")
    /\ Answers(r, cache[req[r].key])
    /\ Kept /\ UNCHANGED <<dir, cache, temp, excused>>

-----------------------------------------------------------------------------
(***************************************************************************)
(* What happens meanwhile.                                                 *)
(***************************************************************************)
Held(id) == \E r \in Requests : Running(r) /\ Photo(r) = id

\* MoveToTrash.
Trash(id) ==
    /\ id \in known /\ lib[id] # Nil /\ bin[id] = Nil
    /\ lib' = [lib EXCEPT ![id] = Nil]
    /\ bin' = [bin EXCEPT ![id] = lib[id]]
    /\ UNCHANGED <<known, dir, cache, temp, req, replaced, returned, excused>>

\* RestoreFromTrash.  A request that looked for the orientation while the file was
\* away may find its picture now.
Restore(id) ==
    /\ lib[id] = Nil /\ bin[id] # Nil
    /\ lib' = [lib EXCEPT ![id] = bin[id]]
    /\ bin' = [bin EXCEPT ![id] = Nil]
    /\ returned' = IF \E r \in Requests : At(r, "decode") /\ Photo(r) = id
                   THEN returned \cup {id} ELSE returned
    /\ UNCHANGED <<known, dir, cache, temp, req, replaced, excused>>

\* The user puts another file over a photo's.
Replace(id, file) ==
    /\ id \in known /\ lib[id] # Nil /\ lib[id] # file
    /\ lib' = [lib EXCEPT ![id] = file]
    /\ replaced' = IF Held(id) \/ \E key \in Keys : key[1] = id /\ cache[key] # Nil
                   THEN replaced \cup {id} ELSE replaced
    /\ UNCHANGED <<known, bin, dir, cache, temp, req, returned, excused>>

\* The user deletes .thumbs (docs/operations.md:110).
ClearThumbs ==
    /\ dir
    /\ dir' = FALSE
    /\ cache' = [key \in Keys |-> Nil]
    /\ temp' = [r \in Requests |-> Nil]
    /\ replaced' = {id \in replaced : Held(id)}
    /\ returned' = {id \in returned : Held(id)}
    /\ excused' = excused \cup {r \in Requests : Running(r)}
    /\ UNCHANGED <<known, lib, bin, req>>

\* The process dies and starts again.  The temporary files it leaves behind are
\* never looked at again, nor removed.
Crash ==
    /\ \E r \in Requests : Running(r)
    /\ req' = [r \in Requests |-> IF Running(r) THEN Idle ELSE req[r]]
    /\ temp' = [r \in Requests |-> Nil]
    /\ UNCHANGED <<known, lib, bin, dir, cache, replaced, returned, excused>>

Init ==
    /\ \E start \in Libraries : lib = start.lib /\ known = start.known
    /\ bin = [id \in PhotoIDs |-> Nil]
    /\ dir = FALSE
    /\ cache = [key \in Keys |-> Nil]
    /\ temp = [r \in Requests |-> Nil]
    /\ req = [r \in Requests |-> Idle]
    /\ replaced = {} /\ returned = {} /\ excused = {}

ServeThumb(r) ==
    \/ ReadExif(r) \/ Decode(r) \/ MkdirAll(r) \/ CreateTemp(r)
    \/ Encode(r) \/ Rename(r) \/ Reopen(r)

Next ==
    \/ \E r \in Requests, id \in PhotoIDs :
          \/ \E width \in Widths : HandleThumb(r, id, width)
          \/ HandleServePhoto(r, id)
    \/ \E r \in Requests : ServeThumb(r)
    \/ \E id \in PhotoIDs : \/ Trash(id) \/ Restore(id)
                            \/ \E file \in Replacements : Replace(id, file)
    \/ ClearThumbs
    \/ Crash

Spec == Init /\ [][Next]_vars

-----------------------------------------------------------------------------
\* Files, cached thumbnails and every request's locals (thumb.go:25-83) are well
\* formed: what is written is always a picture, never a failed decoding.
TypeOK ==
    /\ known \subseteq PhotoIDs
    /\ lib \in [PhotoIDs -> Files \cup {Nil}]
    /\ bin \in [PhotoIDs -> Files \cup {Nil}]
    /\ dir \in BOOLEAN
    /\ cache \in [Keys -> Thumbnail \cup {Nil}]
    /\ temp \in [Requests -> Thumbnail \cup {Nil}]
    /\ req \in [Requests -> Stage]
    /\ excused \subseteq Requests
    /\ replaced \subseteq PhotoIDs /\ returned \subseteq PhotoIDs

\* Files lie in a directory, under a name of a size that is served
\* (thumb.go:29-34, 54-61).
FilesInThumbs ==
    /\ dir \/ /\ \A key \in Keys : cache[key] = Nil
              /\ \A r \in Requests : temp[r] = Nil
    /\ \A key \in Keys : cache[key] # Nil => key[2] \in 1 .. ThumbnailMaxSide

\* Every thumbnail in the cache is complete: it gets its name only once it is
\* written (thumb.go:57-76), whatever else writes there, and whatever write fails
\* or is cut off by a crash.
CachedIsWhole ==
    \A key \in Keys : cache[key] # Nil => cache[key].whole

\* Temporary files are those being written: a request that fails takes its own
\* away (only a crash leaves one).
TempsTidied ==
    \A r \in Requests : temp[r] # Nil => req[r].pc \in {"encode", "rename"}

\* Requests for the same thumbnail never make each other fail: one that ends
\* without a picture found no file, no picture in it or no room to write, or
\* .thumbs was deleted while it ran.
OthersNeverSpoil ==
    \A r \in Requests : (At(r, "done") /\ req[r].answer = Nil) => r \in excused

\* The orientations a file may be shown with: its own, or none if the request was
\* blind to it, the file being away when the orientation was read.
Turned(file, blind) == {Orientation(file)} \cup IF blind THEN {0} ELSE {}

Thumbnails(file, raw, blind, side) ==
    {Thumb(pic, o, side) : pic \in Decodings(file, raw) \ {Nil},
                           o \in Turned(file, blind)}

\* What is cached for a photo is the picture of its file, at the size of its name,
\* although the file is read twice, orientation first (thumb.go:45-51), and may be
\* trashed and restored at any time; and it is turned as the file says, unless the
\* file came back between the two reads: then it may be cached unturned.  Not so
\* for a file the user replaced over a cached thumbnail, until .thumbs is deleted.
CachedIsOfPhoto ==
    \A key \in Keys :
        (cache[key] # Nil /\ key[1] \notin replaced /\ lib[key[1]] # Nil) =>
            cache[key] \in Thumbnails(lib[key[1]], key[1] \in Raws,
                                     key[1] \in returned, key[2])

LongSide(s) == IF s.w > s.h THEN s.w ELSE s.h

Skew(s, t) == s.w * t.h - s.h * t.w

\* A thumbnail is never larger than asked for, nor than its picture, on its longer
\* side, and has its picture's proportions to within a pixel.
ThumbFits(file, raw, side) ==
    \A pic \in Decodings(file, raw) \ {Nil} :
        LET o == Orientation(file)
            full == TurnedSize(o, pic.size)
            thumb == Thumb(pic, o, side).size
        IN  /\ LongSide(thumb) = IF LongSide(full) < side THEN LongSide(full)
                                 ELSE side
            /\ Skew(thumb, full) \in -LongSide(full) .. LongSide(full)

ThumbsFit ==
    \A key \in Keys : lib[key[1]] # Nil =>
        ThumbFits(lib[key[1]], key[1] \in Raws, key[2])

-----------------------------------------------------------------------------
(***************************************************************************)
(* References for what is read out of a file.                              *)
(***************************************************************************)
\* The EXIF standard: the side of the display that row 0 and column 0 are at.
Row0 == <<"top", "top", "bottom", "bottom", "left", "right", "right", "left">>

Col0 == <<"left", "right", "right", "left", "top", "top", "bottom", "bottom">>

Shown(o, s, x, y) ==
    LET fromRow == IF Row0[o] \in {"top", "left"} THEN y ELSE s.h - 1 - y
        fromCol == IF Col0[o] \in {"top", "left"} THEN x ELSE s.w - 1 - x
    IN  IF Row0[o] \in {"top", "bottom"} THEN <<fromCol, fromRow>>
        ELSE <<fromRow, fromCol>>

Pixels(s) == (0 .. s.w - 1) \X (0 .. s.h - 1)

\* ApplyOrientation (exif.go:181-215) shows a photo the way the standard's table of
\* the Orientation tag says, and loses no pixel.
TurnsLikeExif ==
    \A id \in PhotoIDs : lib[id] # Nil =>
        LET o == Orientation(lib[id])
        IN  \A pic \in Decodings(lib[id], id \in Raws) \ {Nil} :
              LET s == pic.size
              IN  /\ {Placed(o, s, p[1], p[2]) : p \in Pixels(s)}
                        = Pixels(TurnedSize(o, s))
                  /\ o \in 1 .. 8 => \A p \in Pixels(s) :
                        Placed(o, s, p[1], p[2]) = Shown(o, s, p[1], p[2])

Follows(tiff, off) ==
    LET d == tiff.dirs[off]
    IN  (IF d.shape \in {"cut", "long"} \/ Len(d.subs) > MaxSubIFDs THEN {}
         ELSE {d.subs[n] : n \in DOMAIN d.subs})
        \cup IF d.shape \in {"cut", "long", "noNext"} THEN {} ELSE {d.next}

\* The directories a TIFF's pointers lead to: the least closed set.
Closed(tiff, S) ==
    /\ tiff.first \in S \cup {0}
    /\ \A off \in S : Follows(tiff, off) \subseteq S \cup {0}

Reachable(tiff) ==
    {off \in Offsets : \A S \in SUBSET Offsets : Closed(tiff, S) => off \in S}

Readable(tiff) ==
    {r \in UNION {Jpegs(tiff.dirs[off]) : off \in {x \in Reachable(tiff) :
                      tiff.dirs[x].shape \notin {"cut", "long"}}} : ReadsBack(r)}

\* ExtractPreview (raw.go:57-169) finds the largest JPEG that the pointers of a RAW
\* file lead to, be they in a circle or in a tree, within its limits: directories
\* visited, SubIFDs of one of them, entries of one, and bytes of a preview.
PreviewIsLargest ==
    \A id \in PhotoIDs :
        LET tiff == lib[id].tiff
        IN  (/\ lib[id] # Nil /\ tiff # Nil
             /\ Cardinality(Reachable(tiff)) <= MaxVisited)
            => Previews(tiff) = Largest(Readable(tiff))
=============================================================================
