-------------------------------- MODULE Dupes --------------------------------
(***************************************************************************)
(* Near-duplicate clusters (src/internal/dupes): Find sorts the hashed     *)
(* photos by time and joins close pairs in a union-find, breaking off a    *)
(* row of pairs when the time window is exceeded.  One step is one pair.   *)
(*                                                                         *)
(* A fingerprint is a set of bits, so that a Hamming distance is the size  *)
(* of a symmetric difference.  Photo ids are numbers, ordered as the       *)
(* strings are; SizeBytes, which orders the members on a page, is left out.*)
(***************************************************************************)
EXTENDS Integers, Sequences, FiniteSets

CONSTANTS
    PhotoIDs,    \* the identifiers of the photos
    Bits,        \* the bits of a fingerprint (128 in the code)
    Times,       \* capture times; 0 is the zero time
    Tables,      \* bound: the photo tables handed to Find
    Thresholds,  \* settings: DupeThreshold
    Windows      \* settings: DupeTimeWindowHours; 0 is none

VARIABLES
    photos,     \* Find's arguments
    threshold,
    window,
    row,        \* hashed, sorted by time
    i, j,       \* the pair to compare next
    parent      \* the union-find

vars == <<photos, threshold, window, row, i, j, parent>>

input == <<photos, threshold, window, row>>

ASSUME ConstantsAssumption ==
    /\ PhotoIDs \subseteq Nat /\ IsFiniteSet(PhotoIDs)
    /\ Times \subseteq Nat
    /\ Tables \subseteq [PhotoIDs -> [hash: SUBSET Bits, time: Times,
                                     trashed: BOOLEAN]]
    /\ Windows \subseteq Int

\* {} is the fingerprint of a photo that was not hashed, or failed to be.
Photo == [hash: SUBSET Bits, time: Times, trashed: BOOLEAN]

Eligible(table) == {p \in PhotoIDs : ~table[p].trashed /\ table[p].hash # {}}

\* The orders a stable sort by time can leave, as the input is in map order.
SortedByTime(table, S) ==
    {q \in [1 .. Cardinality(S) -> S] :
        /\ \A m, n \in DOMAIN q : q[m] = q[n] => m = n
        /\ \A m, n \in DOMAIN q : m < n => table[q[m]].time <= table[q[n]].time}

Distance(a, b) == Cardinality((a \ b) \cup (b \ a))

\* Mutant: the zero time is a time like any other.
TooFarAlways(p, q) == window > 0 /\ photos[q].time - photos[p].time > window

\* A photo without a time is compared with all.
TooFar(p, q) ==
    /\ window > 0
    /\ photos[p].time # 0 /\ photos[q].time # 0
    /\ photos[q].time - photos[p].time > window

Close(p, q) == Distance(photos[p].hash, photos[q].hash) <= threshold

\* find in the union-find up; path compression changes no answer of it and is
\* left out.
Root(up, p) ==
    LET find[x \in PhotoIDs] == IF up[x] = x THEN x ELSE find[up[x]]
    IN  find[p]

Find(p) == Root(parent, p)

\* Mutant: the root of the earlier photo wins.
UnionByOrder(p, q) == [parent EXCEPT ![Find(q)] = Find(p)]

\* The smaller root becomes the parent of the other.
Union(p, q) ==
    IF Find(p) < Find(q) THEN [parent EXCEPT ![Find(q)] = Find(p)]
    ELSE [parent EXCEPT ![Find(p)] = Find(q)]

Init ==
    /\ photos \in Tables
    /\ row \in SortedByTime(photos, Eligible(photos))
    /\ threshold \in Thresholds /\ window \in Windows
    /\ i = 1 /\ j = 2
    /\ parent = [p \in PhotoIDs |-> p]

Compares == i < Len(row) /\ j <= Len(row)

\* The next pair of the row.
Compare ==
    /\ Compares /\ ~TooFar(row[i], row[j])
    /\ parent' = IF Close(row[i], row[j]) THEN Union(row[i], row[j]) ELSE parent
    /\ j' = j + 1
    /\ UNCHANGED <<input, i>>

\* Mutant: a photo is compared with itself.
NextRowSelf ==
    /\ i < Len(row)
    /\ j <= Len(row) => TooFar(row[i], row[j])
    /\ i' = i + 1 /\ j' = i + 1
    /\ UNCHANGED <<input, parent>>

\* break, or the end of the row.
NextRow ==
    /\ i < Len(row)
    /\ j <= Len(row) => TooFar(row[i], row[j])
    /\ i' = i + 1 /\ j' = i + 2
    /\ UNCHANGED <<input, parent>>

Done == i >= Len(row)

Next == Compare \/ NextRow

Spec == Init /\ [][Next]_vars

\* The clusters: the groups of two and more, under their roots.
Members(root) == {p \in Eligible(photos) : Find(p) = root}

Clusters == {root \in PhotoIDs : Cardinality(Members(root)) >= 2}

-----------------------------------------------------------------------------
(***************************************************************************)
(* The reference: the connected components of the pairs that look alike    *)
(* and were taken close together, whatever order they come in.             *)
(***************************************************************************)
Gap(p, q) == IF photos[p].time < photos[q].time
             THEN photos[q].time - photos[p].time
             ELSE photos[p].time - photos[q].time

TakenTogether(p, q) ==
    window <= 0 \/ 0 \in {photos[p].time, photos[q].time} \/ Gap(p, q) <= window

Alike(p, q) == Close(p, q) /\ TakenTogether(p, q)

\* No alike pair has one photo in S and one outside.
ClosedUnderAlike(S) == \A p \in S, q \in Eligible(photos) \ S : ~Alike(p, q)

\* What the closed sets with p in them have in common.
Component(p) ==
    {q \in Eligible(photos) :
        \A S \in SUBSET Eligible(photos) : p \in S /\ ClosedUnderAlike(S) => q \in S}

\* The photos handed in stay as they are, and each pair is one of two photos.
TypeOK ==
    /\ photos \in [PhotoIDs -> Photo]
    /\ row \in Seq(Eligible(photos))
    /\ Done \/ (i \in 1 .. Len(row) /\ j \in i + 1 .. Len(row) + 1)
    /\ parent \in [PhotoIDs -> PhotoIDs]
    /\ threshold \in Thresholds /\ window \in Windows

\* At no point are two photos joined that no chain of alike pairs connects (a
\* closed set with one of them has the other), and every group has one root, its
\* smallest photo (union, cluster.go:66-77).
OnlyAlikeJoined ==
    /\ \A S \in SUBSET Eligible(photos) :
          ClosedUnderAlike(S) => \A p \in S : Members(Find(p)) \subseteq S
    /\ \A p \in Eligible(photos) : \A q \in Members(Find(p)) : Find(p) <= q

\* What Find returns (cluster.go:29-123) are the components, whatever order the
\* sort left photos of one time in, and although a row of pairs is broken off at
\* the first that is out of the window; a cluster's id is its smallest photo, so
\* it is the same in every run.
ClustersAreComponents ==
    Done => \A p \in Eligible(photos) :
                /\ Members(Find(p)) = Component(p)
                /\ Find(p) \in Members(Find(p))
                /\ \A q \in Members(Find(p)) : Find(p) <= q
=============================================================================
