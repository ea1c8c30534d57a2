------------------------------- MODULE MCThumbs -------------------------------
(***************************************************************************)
(* Small instances of Thumbs for TLC.  Photo 1 is a JPEG, photo 2 a RAW    *)
(* file; only one of them is there.                                        *)
(***************************************************************************)
EXTENDS Thumbs, TLC

CONSTANTS r1, r2   \* two requests

Pic(name, w, h) == [name |-> name, size |-> [w |-> w, h |-> h]]

NoTags == [shape |-> "whole", orientation |-> 0, exifIFD |-> 0, jpeg |-> Nil,
           strip |-> Nil, subs |-> <<>>, next |-> 0]

\* A JPEG with the orientation o in its first directory and p in its Exif IFD.
Jpeg(pic, o, p) ==
    [tiff |-> [first |-> 1,
               dirs |-> [off \in Offsets |->
                   CASE off = 1 -> [NoTags EXCEPT !.orientation = o, !.exifIFD = 2]
                     [] off = 2 -> [NoTags EXCEPT !.orientation = p, !.exifIFD = 1]
                     [] OTHER   -> NoTags]],
     pic |-> pic]

Jpegs0 ==
    {Jpeg(Pic("wide", 3, 2), o, 0) : o \in 0 .. 9}
    \cup {Jpeg(Pic("tall", 2, 5), 6, 1), Jpeg(Pic("strip", 6, 1), 8, 0)}
    \cup {[tiff |-> Nil, pic |-> p] : p \in {Nil, Pic("tiny", 1, 1)}}

At0(length, body, name) ==
    [length |-> length, body |-> body, pic |-> Pic(name, length, 2)]

\* Directory 1 has the small preview, 2 a large one, 3 a larger one in a strip
\* that may not be a JPEG, and 4 is too long to be one.
RawFile(next, subs, shape, body) ==
    [tiff |-> [first |-> 1,
               dirs |-> [off \in Offsets |->
                   [NoTags EXCEPT
                      !.shape = IF off = 2 THEN shape ELSE "whole",
                      !.orientation = IF off = 1 THEN 6 ELSE 0,
                      !.jpeg = CASE off = 1 -> At0(2, "jpeg", "small")
                                 [] off = 2 -> At0(4, "jpeg", "large")
                                 [] off = 4 -> At0(9, "jpeg", "huge")
                                 [] OTHER   -> Nil,
                      !.strip = IF off = 3 THEN At0(6, body, "strip") ELSE Nil,
                      !.subs = IF off = 1 THEN subs ELSE <<>>,
                      !.next = next[off]]]],
     pic |-> Nil]

\* Chains, circles, trees.
Nexts == {<<n1, n2, n3, n4>> : n1 \in {0, 2, 4}, n2 \in {0, 1, 3},
                               n3 \in {3, 4}, n4 \in {2}}

RawFiles ==
    {RawFile(next, subs, "whole", "jpeg") :
        next \in Nexts, subs \in {<<>>, <<3>>, <<3, 2>>, <<2, 3, 3>>}}
    \cup {RawFile(<<2, 3, 0, 0>>, <<>>, shape, body) :
              shape \in {"whole", "noNext", "cut", "long", "far"},
              body \in {"jpeg", "soi", "other", "cut"}}

\* Files not yet scanned, of all shapes, and a known photo with a typical one.
MCLibraries ==
    [lib: {<<file, Nil>> : file \in Jpegs0} \cup {<<Nil, file>> : file \in RawFiles},
     known: {{}}]
    \cup [lib: {<<Jpeg(Pic("tall", 2, 5), 6, 0), Nil>>,
                <<Nil, RawFile(<<2, 3, 1, 0>>, <<>>, "whole", "jpeg")>>},
          known: {PhotoIDs}]

MCReplacements == {[tiff |-> Nil, pic |-> Pic("new", 2, 1)]}

RequestSymmetry == Permutations(Requests)
=============================================================================
