------------------------------ MODULE ImageFile ------------------------------
(***************************************************************************)
(* What photoSwipe reads out of an image file (src/internal/img): the      *)
(* Orientation tag, the largest JPEG embedded in a RAW file, and the       *)
(* picture turned and scaled to a thumbnail.                               *)
(*                                                                         *)
(* A file is its TIFF structure, if any (a RAW file is one, a JPEG carries *)
(* one as EXIF), and the picture a codec makes of it as a whole.  A        *)
(* picture is a name and a size; pixels appear as coordinates only.        *)
(***************************************************************************)
EXTENDS Integers, Sequences, FiniteSets

CONSTANTS
    Nil,               \* no file, no TIFF, no picture, no region
    Names,             \* names of pictures
    Offsets,           \* where the directories of a TIFF may start, above 0
    MaxVisited,        \* directories ExtractPreview visits (64 in the code)
    MaxSubIFDs,        \* SubIFDs of one directory (16)
    MaxPreview,        \* length of an embedded JPEG (100 << 20)
    ThumbnailMaxSide   \* longest side of a thumbnail (1600)

\* Offsets have 32 bits, and 0 is none.
ASSUME OffsetsAssumption ==
    /\ Offsets \subseteq Nat \ {0} /\ IsFiniteSet(Offsets)
    /\ MaxVisited \in Nat /\ MaxSubIFDs \in Nat

Size == [w: Nat \ {0}, h: Nat \ {0}]

Picture == [name: Names, size: Size]

\* A region of JPEG data.  "soi" begins like a JPEG and does not decode, "cut"
\* ends beyond the file.
Region == [length: Nat, body: {"jpeg", "soi", "other", "cut"}, pic: Picture]

(***************************************************************************)
(* A directory: orientation 0, exifIFD 0 and Nil regions are absent tags.  *)
(* shape: "whole"; "noNext", cut before the next-IFD pointer; "cut", not   *)
(* readable or empty; "long", more than 4096 entries; "far", beyond the    *)
(* first MiB, which is all that ReadExifFile looks at.                     *)
(***************************************************************************)
Dir == [shape: {"whole", "noNext", "cut", "long", "far"},
        orientation: Nat, exifIFD: Offsets \cup {0},
        jpeg: Region \cup {Nil}, strip: Region \cup {Nil},
        subs: Seq(Offsets \cup {0}), next: Offsets \cup {0}]

Tiff == [first: Offsets \cup {0}, dirs: [Offsets -> Dir]]

\* Nil: no TIFF, or none with a header; a file no codec decodes.
File == [tiff: Tiff \cup {Nil}, pic: Picture \cup {Nil}]

-----------------------------------------------------------------------------
(***************************************************************************)
(* Orientation (exif.go).                                                  *)
(***************************************************************************)
\* walkIFD: the orientation after directory off, and the Exif IFD it points to.
WalkIFD(tiff, off, orientation) ==
    IF off = 0 \/ tiff.dirs[off].shape \in {"cut", "far"}
    THEN [orientation |-> orientation, exifIFD |-> 0]
    ELSE LET d == tiff.dirs[off]
         IN  [orientation |-> IF d.orientation = 0 THEN orientation
                              ELSE d.orientation,
              exifIFD |-> d.exifIFD]

\* ReadExifFile and parseExif: the first directory, then its Exif IFD; any error
\* is no orientation.
Orientation(file) ==
    IF file.tiff = Nil THEN 0
    ELSE LET ifd0 == WalkIFD(file.tiff, file.tiff.first, 0)
         IN  IF ifd0.exifIFD = 0 THEN ifd0.orientation
             ELSE WalkIFD(file.tiff, ifd0.exifIFD, ifd0.orientation).orientation

Turns(o) == o \in 2 .. 8

TurnedSize(o, s) == IF o \in 5 .. 8 THEN [w |-> s.h, h |-> s.w] ELSE s

\* Mutant: 6 and 8 turn the other way.
PlacedMirrored(o, s, x, y) ==
    CASE o = 2 -> <<s.w - 1 - x, y>>
      [] o = 3 -> <<s.w - 1 - x, s.h - 1 - y>>
      [] o = 4 -> <<x, s.h - 1 - y>>
      [] o = 5 -> <<y, x>>
      [] o = 6 -> <<y, s.w - 1 - x>>
      [] o = 7 -> <<s.h - 1 - y, s.w - 1 - x>>
      [] o = 8 -> <<s.h - 1 - y, x>>
      [] OTHER -> <<x, y>>

\* ApplyOrientation: where pixel (x, y) of a picture of size s goes.
Placed(o, s, x, y) ==
    CASE o = 2 -> <<s.w - 1 - x, y>>
      [] o = 3 -> <<s.w - 1 - x, s.h - 1 - y>>
      [] o = 4 -> <<x, s.h - 1 - y>>
      [] o = 5 -> <<y, x>>
      [] o = 6 -> <<s.h - 1 - y, x>>
      [] o = 7 -> <<s.h - 1 - y, s.w - 1 - x>>
      [] o = 8 -> <<y, s.w - 1 - x>>
      [] OTHER -> <<x, y>>

-----------------------------------------------------------------------------
(***************************************************************************)
(* The largest embedded JPEG (raw.go).                                     *)
(***************************************************************************)
\* readOffsets
SubIFDs(d) == IF Len(d.subs) <= MaxSubIFDs THEN d.subs ELSE <<>>

Jpegs(d) == {d.jpeg, d.strip} \ {Nil}

\* Mutant: SubIFDs are not followed.
VisitChain(tiff, s) ==
    LET off == Head(s.queue)
        d == tiff.dirs[off]
    IN  IF off = 0 \/ off \in s.visited THEN [s EXCEPT !.queue = Tail(@)]
        ELSE [queue |-> Tail(s.queue)
                        \o IF d.shape \in {"whole", "far"} THEN <<d.next>> ELSE <<>>,
              visited |-> s.visited \cup {off},
              found |-> s.found
                        \cup IF d.shape \in {"cut", "long"} THEN {} ELSE Jpegs(d)]

\* One directory of the queue.
Visit(tiff, s) ==
    LET off == Head(s.queue)
        d == tiff.dirs[off]
        rest == Tail(s.queue)
    IN  IF off = 0 \/ off \in s.visited
        THEN [s EXCEPT !.queue = rest]
        ELSE IF d.shape \in {"cut", "long"}
        THEN [s EXCEPT !.queue = rest, !.visited = @ \cup {off}]
        ELSE [queue |-> rest \o SubIFDs(d)
                        \o IF d.shape = "noNext" THEN <<>> ELSE <<d.next>>,
              visited |-> s.visited \cup {off},
              found |-> s.found \cup Jpegs(d)]

\* Every visited directory adds at most its SubIFDs and its successor.
MaxSteps == 1 + MaxVisited * (MaxSubIFDs + 1)

\* The bounded breadth-first walk.
Walk(tiff) ==
    LET after[n \in 0 .. MaxSteps] ==
            IF n = 0
            THEN [queue |-> <<tiff.first>>, visited |-> {}, found |-> {}]
            ELSE LET s == after[n - 1]
                 IN  IF s.queue = <<>> \/ Cardinality(s.visited) >= MaxVisited
                     THEN s ELSE Visit(tiff, s)
    IN  after[MaxSteps]

ReadsBack(r) == r.length \in 2 .. MaxPreview /\ r.body \in {"jpeg", "soi"}

\* Any of those of the same length: sort.Slice is not stable.
Largest(R) == {r \in R : \A q \in R : q.length <= r.length}

\* ExtractPreview; {} is its error.
Previews(tiff) ==
    IF tiff = Nil THEN {}
    ELSE Largest({r \in Walk(tiff).found : ReadsBack(r)})

-----------------------------------------------------------------------------
(***************************************************************************)
(* Decoding and scaling (raw.go DecodeImage, thumb.go).                    *)
(***************************************************************************)
\* What DecodeImage may return; Nil is its error.
Decodings(file, raw) ==
    IF ~raw THEN {file.pic}
    ELSE IF Previews(file.tiff) = {} THEN {Nil}
    ELSE {IF r.body = "jpeg" THEN r.pic ELSE Nil : r \in Previews(file.tiff)}

\* Mutant: only the width is looked at.
ScaleToWidth(s, side) ==
    IF s.w <= side THEN s ELSE [w |-> side, h |-> (s.h * side) \div s.w]

ScaleTo(s, side) ==
    IF s.w <= side /\ s.h <= side THEN s
    ELSE IF s.w >= s.h THEN [w |-> side, h |-> (s.h * side) \div s.w]
    ELSE [w |-> (s.w * side) \div s.h, h |-> side]

\* Mutant: an orientation the standard does not have is applied.
ThumbUnchecked(pic, o, side) ==
    [name |-> pic.name, turn |-> o, whole |-> TRUE,
     size |-> ScaleTo(TurnedSize(o, pic.size), side)]

Thumb(pic, o, side) ==
    [name |-> pic.name, turn |-> IF Turns(o) THEN o ELSE 1, whole |-> TRUE,
     size |-> ScaleTo(TurnedSize(o, pic.size), side)]
=============================================================================
