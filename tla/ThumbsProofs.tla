----------------------------- MODULE ThumbsProofs -----------------------------
(***************************************************************************)
(* Concurrent requests for thumbnails leave only complete files under      *)
(* final names, tidy up after themselves and never make each other fail:   *)
(* for any number of requests, any photos, widths and files.               *)
(*                                                                         *)
(* The invariant follows a request through ServeThumb.  What the request   *)
(* counts on at each stage is only ever taken away by the deletion of      *)
(* .thumbs, which excuses it; other requests add to the cache or replace   *)
(* what is there, and each has a temporary file of its own.                *)
(*                                                                         *)
(* Of the operators on image files it is proved that whatever the size of  *)
(* a picture, turning loses no pixel and scaling keeps proportions, and    *)
(* that the walk over a RAW file's directories comes to all of them.       *)
(***************************************************************************)
EXTENDS Thumbs, FiniteSetTheorems, NaturalsInduction, WellFoundedInduction, TLAPS

\* From mkdir on a request holds a picture that is to be written whole, and one
\* about to be renamed has been.
HeldIsWhole ==
    \A r \in Requests :
        /\ req[r].pc \in {"mkdir", "create", "encode", "rename", "reopen"} =>
              req[r].thumb.whole
        /\ (At(r, "rename") /\ temp[r] # Nil) => temp[r].whole

\* What an unexcused request counts on.
CountsOn ==
    \A r \in Requests \ excused :
        /\ At(r, "create") => dir
        /\ req[r].pc \in {"encode", "rename"} => temp[r] # Nil
        /\ At(r, "reopen") => cache[req[r].key] # Nil
        /\ At(r, "done") => req[r].answer # Nil

Inv == TypeOK /\ FilesInThumbs /\ HeldIsWhole /\ CachedIsWhole /\ TempsTidied /\ CountsOn

-----------------------------------------------------------------------------
(***************************************************************************)
(* The walk over a RAW file's directories.  What holds after every step is *)
(* proved for the first step after which it would not.                     *)
(***************************************************************************)
LEMMA LeastStep ==
    ASSUME NEW T \in SUBSET Nat, T # {}
    PROVE  \E n \in T : \A m \in T : n <= m
  <1> DEFINE R == OpToRel(<, Nat)
  <1>1. IsWellFoundedOn(R, Nat)
    BY NatLessThanWellFounded
  <1>2. PICK n \in T : \A m \in T : ~(<<m, n>> \in R)
    <2> HIDE DEF R
    <2> QED BY <1>1, WFMin
  <1>3. \A m \in T : m < n => <<m, n>> \in R
    BY DEF OpToRel
  <1> HIDE DEF R
  <1>4. \A m \in T : n \in Nat /\ m \in Nat /\ ~(m < n)
    BY <1>2, <1>3
  <1> QED BY <1>4

AtFirstIFD(tiff) == [queue |-> <<tiff.first>>, visited |-> {}, found |-> {}]

Ended(s) == s.queue = <<>> \/ Cardinality(s.visited) >= MaxVisited

Stepped(tiff, s) == IF Ended(s) THEN s ELSE Visit(tiff, s)

\* w holds where the walk is after each of its first n steps.
WalksFor(tiff, n, w) ==
    /\ w[0] = AtFirstIFD(tiff)
    /\ \A i \in 1 .. n : w[i] = Stepped(tiff, w[i - 1])

LEMMA WalkExists ==
    ASSUME NEW tiff, NEW n \in Nat
    PROVE  \E w : WalksFor(tiff, n, w)
  <1> DEFINE Bad == {m \in Nat : ~\E w : WalksFor(tiff, m, w)}
  <1>1. ASSUME Bad # {} PROVE FALSE
    <2>1. PICK m \in Bad : \A k \in Bad : m <= k
      BY <1>1, LeastStep
    <2>2. CASE m = 0
      <3> DEFINE w == [i \in {0} |-> AtFirstIFD(tiff)]
      <3>1. WalksFor(tiff, 0, w)
        BY DEF WalksFor
      <3> QED BY <2>1, <2>2, <3>1
    <2>3. CASE m # 0
      <3>1. m - 1 \in Nat /\ m - 1 \notin Bad
        BY <2>1, <2>3
      <3>2. PICK v : WalksFor(tiff, m - 1, v)
        BY <3>1
      <3> DEFINE w == [i \in 0 .. m |-> IF i = m THEN Stepped(tiff, v[m - 1]) ELSE v[i]]
      <3>3. w[0] = AtFirstIFD(tiff)
        BY <2>1, <2>3, <3>2 DEF WalksFor
      <3>4. ASSUME NEW i \in 1 .. m PROVE w[i] = Stepped(tiff, w[i - 1])
        <4>1. w[i - 1] = v[i - 1]
          BY <2>1
        <4>2. CASE i = m
          BY <2>1, <4>1, <4>2
        <4>3. CASE i # m
          BY <2>1, <3>2, <4>1, <4>3 DEF WalksFor
        <4> QED BY <4>2, <4>3
      <3> HIDE DEF w
      <3>5. WalksFor(tiff, m, w)
        BY <3>3, <3>4 DEF WalksFor
      <3> QED BY <2>1, <3>5
    <2> QED BY <2>2, <2>3
  <1> QED BY <1>1

LEMMA StepsType == MaxSteps \in Nat
  BY OffsetsAssumption DEF MaxSteps

\* Walk, its steps in a row.
LEMMA WalkUnfolds ==
    ASSUME NEW tiff
    PROVE  \E w : WalksFor(tiff, MaxSteps, w) /\ Walk(tiff) = w[MaxSteps]
  <1>0. MaxSteps \in Nat
    BY StepsType
  <1> DEFINE Turn(f) == [n \in 0 .. MaxSteps |->
                           IF n = 0
                           THEN [queue |-> <<tiff.first>>, visited |-> {}, found |-> {}]
                           ELSE LET s == f[n - 1]
                                IN  IF s.queue = <<>> \/ Cardinality(s.visited) >= MaxVisited
                                    THEN s ELSE Visit(tiff, s)]
             after == CHOOSE f : f = Turn(f)
  <1>1. PICK w : WalksFor(tiff, MaxSteps, w)
    BY <1>0, WalkExists
  <1> DEFINE g == [n \in 0 .. MaxSteps |-> w[n]]
  <1>2. g = Turn(g)
    <2>1. \A n \in 0 .. MaxSteps : g[n] = Turn(g)[n]
      <3>1. g[0] = Turn(g)[0]
        BY <1>0, <1>1 DEF WalksFor, AtFirstIFD
      <3>2. ASSUME NEW n \in 1 .. MaxSteps PROVE g[n] = Turn(g)[n]
        <4>1. g[n] = w[n] /\ g[n - 1] = w[n - 1] /\ n \in 0 .. MaxSteps /\ n # 0
          BY <1>0
        <4>2. w[n] = Stepped(tiff, w[n - 1])
          BY <1>1 DEF WalksFor
        <4> HIDE DEF g
        <4> QED BY <4>1, <4>2 DEF Stepped, Ended
      <3>3. \A n \in 0 .. MaxSteps : n = 0 \/ n \in 1 .. MaxSteps
        BY <1>0
      <3> HIDE DEF g, Turn
      <3> QED BY <3>1, <3>2, <3>3
    <2>2. Turn(g) = [n \in 0 .. MaxSteps |-> Turn(g)[n]] /\ g = [n \in 0 .. MaxSteps |-> g[n]]
      OBVIOUS
    <2> HIDE DEF g, Turn
    <2> QED BY <2>1, <2>2
  <1> HIDE DEF g
  <1>3. after = Turn(after)
    <2> HIDE DEF Turn
    <2> QED BY <1>2
  <1>4. Walk(tiff) = after[MaxSteps]
    BY DEF Walk
  <1> HIDE DEF after
  <1>5. after[0] = AtFirstIFD(tiff)
    BY <1>0, <1>3 DEF AtFirstIFD
  <1>6. ASSUME NEW i \in 1 .. MaxSteps PROVE after[i] = Stepped(tiff, after[i - 1])
    <2>1. i \in 0 .. MaxSteps /\ i # 0
      BY <1>0
    <2>2. after[i] = Turn(after)[i]
      BY <1>3
    <2>3. Turn(after)[i] = Stepped(tiff, after[i - 1])
      BY <2>1 DEF Stepped, Ended
    <2> QED BY <2>2, <2>3
  <1> QED BY <1>4, <1>5, <1>6 DEF WalksFor

-----------------------------------------------------------------------------
\* x is in the queue q.
Waits(q, x) == \E i \in DOMAIN q : q[i] = x

LEMMA WaitsAppended ==
    ASSUME NEW S, NEW a \in Seq(S), NEW b \in Seq(S)
    PROVE  \A x : Waits(a \o b, x) <=> Waits(a, x) \/ Waits(b, x)
  <1> SUFFICES ASSUME NEW x PROVE Waits(a \o b, x) <=> Waits(a, x) \/ Waits(b, x)
    OBVIOUS
  <1>1. Waits(a \o b, x) => Waits(a, x) \/ Waits(b, x)
    <2> SUFFICES ASSUME NEW i \in DOMAIN (a \o b), (a \o b)[i] = x
                 PROVE  Waits(a, x) \/ Waits(b, x)
      BY DEF Waits
    <2>1. CASE i \in DOMAIN a
      BY <2>1 DEF Waits
    <2>2. CASE i \notin DOMAIN a
      <3>1. i - Len(a) \in DOMAIN b /\ b[i - Len(a)] = x
        BY <2>2
      <3> QED BY <3>1 DEF Waits
    <2> QED BY <2>1, <2>2
  <1>2. Waits(a, x) => Waits(a \o b, x)
    <2> SUFFICES ASSUME NEW i \in DOMAIN a, a[i] = x PROVE Waits(a \o b, x)
      BY DEF Waits
    <2>1. i \in DOMAIN (a \o b) /\ (a \o b)[i] = x
      OBVIOUS
    <2> QED BY <2>1 DEF Waits
  <1>3. Waits(b, x) => Waits(a \o b, x)
    <2> SUFFICES ASSUME NEW i \in DOMAIN b, b[i] = x PROVE Waits(a \o b, x)
      BY DEF Waits
    <2>1. Len(a) + i \in DOMAIN (a \o b) /\ (a \o b)[Len(a) + i] = x
      OBVIOUS
    <2> QED BY <2>1 DEF Waits
  <1> QED BY <1>1, <1>2, <1>3

LEMMA WaitsBehind ==
    ASSUME NEW S, NEW q \in Seq(S), q # <<>>
    PROVE  /\ Head(q) \in S /\ Tail(q) \in Seq(S) /\ Len(Tail(q)) = Len(q) - 1
           /\ \A x : Waits(q, x) <=> x = Head(q) \/ Waits(Tail(q), x)
  <1>1. Head(q) \in S /\ Tail(q) \in Seq(S) /\ Len(Tail(q)) = Len(q) - 1
    OBVIOUS
  <1> SUFFICES ASSUME NEW x PROVE Waits(q, x) <=> x = Head(q) \/ Waits(Tail(q), x)
    BY <1>1
  <1>2. Waits(q, x) => x = Head(q) \/ Waits(Tail(q), x)
    <2> SUFFICES ASSUME NEW i \in DOMAIN q, q[i] = x, x # Head(q)
                 PROVE  Waits(Tail(q), x)
      BY DEF Waits
    <2>1. i - 1 \in DOMAIN Tail(q) /\ Tail(q)[i - 1] = x
      OBVIOUS
    <2> QED BY <2>1 DEF Waits
  <1>3. Waits(q, Head(q))
    <2>1. 1 \in DOMAIN q /\ q[1] = Head(q)
      OBVIOUS
    <2> QED BY <2>1 DEF Waits
  <1>4. Waits(Tail(q), x) => Waits(q, x)
    <2> SUFFICES ASSUME NEW i \in DOMAIN Tail(q), Tail(q)[i] = x PROVE Waits(q, x)
      BY DEF Waits
    <2>1. i + 1 \in DOMAIN q /\ q[i + 1] = x
      OBVIOUS
    <2> QED BY <2>1 DEF Waits
  <1> QED BY <1>1, <1>2, <1>3, <1>4

WalkState == [queue: Seq(Offsets \cup {0}), visited: SUBSET Offsets,
              found: SUBSET Region]

Whole(tiff, S) == {off \in S : tiff.dirs[off].shape \notin {"cut", "long"}}

\* What has been found is what the visited directories hold, these can all be
\* reached, and what they point to was visited or is in the queue.
Sees(tiff, s) ==
    /\ s.visited \subseteq Reachable(tiff)
    /\ \A x : Waits(s.queue, x) => x \in Reachable(tiff) \cup {0}
    /\ s.found = UNION {Jpegs(tiff.dirs[off]) : off \in Whole(tiff, s.visited)}
    /\ tiff.first \in s.visited \cup {0} \/ Waits(s.queue, tiff.first)
    /\ \A off \in s.visited : \A x \in Follows(tiff, off) :
          x \in s.visited \cup {0} \/ Waits(s.queue, x)

\* Every step takes one off the queue, every new directory adds a few.
InTime(n, s) ==
    Ended(s) \/ Len(s.queue) + n <= 1 + Cardinality(s.visited) * (MaxSubIFDs + 1)

WalkInv(tiff, n, s) == s \in WalkState /\ Sees(tiff, s) /\ InTime(n, s)

LEMMA ReachableFacts ==
    ASSUME NEW tiff \in Tiff
    PROVE  /\ Reachable(tiff) \subseteq Offsets
           /\ IsFiniteSet(Reachable(tiff)) /\ Cardinality(Reachable(tiff)) \in Nat
           /\ tiff.first \in Reachable(tiff) \cup {0}
           /\ \A off \in Reachable(tiff), x \in Offsets \cup {0} :
                 x \in Follows(tiff, off) => x \in Reachable(tiff) \cup {0}
           /\ \A S \in SUBSET Offsets : Closed(tiff, S) => Reachable(tiff) \subseteq S
  <1>1. Reachable(tiff) \subseteq Offsets
    BY DEF Reachable
  <1>2. IsFiniteSet(Reachable(tiff)) /\ Cardinality(Reachable(tiff)) \in Nat
    BY <1>1, OffsetsAssumption, FS_Subset, FS_CardinalityType
  <1>3. tiff.first \in Reachable(tiff) \cup {0}
    BY DEF Reachable, Closed, Tiff
  <1>4. ASSUME NEW off \in Reachable(tiff), NEW x \in Offsets \cup {0},
               x \in Follows(tiff, off)
        PROVE  x \in Reachable(tiff) \cup {0}
    BY <1>4 DEF Reachable, Closed
  <1>5. \A S \in SUBSET Offsets : Closed(tiff, S) => Reachable(tiff) \subseteq S
    BY DEF Reachable
  <1> QED BY <1>1, <1>2, <1>3, <1>4, <1>5

LEMMA StartInv ==
    ASSUME NEW tiff \in Tiff
    PROVE  WalkInv(tiff, 0, AtFirstIFD(tiff))
  <1> DEFINE s == AtFirstIFD(tiff)
  <1>1. s \in WalkState /\ s.queue = <<tiff.first>> /\ s.visited = {} /\ s.found = {}
    BY DEF AtFirstIFD, WalkState, Tiff
  <1> HIDE DEF s
  <1>2. \A x : Waits(s.queue, x) <=> x = tiff.first
    BY <1>1 DEF Waits
  <1>3. Sees(tiff, s)
    BY <1>1, <1>2, ReachableFacts DEF Sees, Whole
  <1>4. InTime(0, s)
    <2>1. Len(s.queue) = 1
      BY <1>1
    <2>2. Cardinality(s.visited) * (MaxSubIFDs + 1) = 0
      BY <1>1, FS_EmptySet, OffsetsAssumption
    <2> QED BY <2>1, <2>2 DEF InTime
  <1> QED BY <1>1, <1>3, <1>4 DEF WalkInv, s

-----------------------------------------------------------------------------
LEMMA DirectoryType ==
    ASSUME NEW tiff \in Tiff, NEW off \in Offsets
    PROVE  LET d == tiff.dirs[off]
           IN  /\ d \in Dir
               /\ Jpegs(d) \subseteq Region
               /\ SubIFDs(d) \in Seq(Offsets \cup {0}) /\ Len(SubIFDs(d)) <= MaxSubIFDs
               /\ d.next \in Offsets \cup {0}
               /\ Follows(tiff, off) \subseteq Offsets \cup {0}
  <1> DEFINE d == tiff.dirs[off]
  <1>1. d \in Dir
    BY DEF Tiff
  <1> HIDE DEF d
  <1>2. Jpegs(d) \subseteq Region
    BY <1>1 DEF Jpegs, Dir
  <1>3. d.subs \in Seq(Offsets \cup {0}) /\ d.next \in Offsets \cup {0}
    BY <1>1 DEF Dir
  <1>4. SubIFDs(d) \in Seq(Offsets \cup {0}) /\ Len(SubIFDs(d)) <= MaxSubIFDs
    BY <1>3, OffsetsAssumption DEF SubIFDs
  <1>5. \A i \in DOMAIN d.subs : d.subs[i] \in Offsets \cup {0}
    BY <1>3
  <1>6. Follows(tiff, off) \subseteq Offsets \cup {0}
    BY <1>3, <1>5 DEF Follows, d
  <1> QED BY <1>1, <1>2, <1>3, <1>4, <1>6 DEF d

\* A directory not yet visited: its entries are queued, its JPEGs kept.
LEMMA NewVisited ==
    ASSUME NEW tiff \in Tiff, NEW s \in WalkState, s.queue # <<>>,
           Head(s.queue) # 0, Head(s.queue) \notin s.visited
    PROVE  LET off == Head(s.queue)
               v == Visit(tiff, s)
           IN  /\ off \in Offsets
               /\ v \in WalkState
               /\ v.visited = s.visited \cup {off}
               /\ v.found = s.found \cup IF tiff.dirs[off].shape \in {"cut", "long"}
                                         THEN {} ELSE Jpegs(tiff.dirs[off])
               /\ \A x : Waits(v.queue, x) <=>
                            Waits(Tail(s.queue), x) \/ x \in Follows(tiff, off)
               /\ Len(v.queue) <= Len(s.queue) + MaxSubIFDs
  <1> DEFINE off == Head(s.queue)
             d == tiff.dirs[off]
             rest == Tail(s.queue)
             v == Visit(tiff, s)
             last == IF d.shape = "noNext" THEN <<>> ELSE <<d.next>>
  <1>0. /\ s.queue \in Seq(Offsets \cup {0}) /\ s.visited \in SUBSET Offsets
        /\ s.found \in SUBSET Region
        /\ s = [queue |-> s.queue, visited |-> s.visited, found |-> s.found]
    BY DEF WalkState
  <1>1. /\ off \in Offsets /\ off # 0 /\ off \notin s.visited
        /\ rest \in Seq(Offsets \cup {0}) /\ Len(rest) = Len(s.queue) - 1
        /\ Len(s.queue) \in Nat
    BY <1>0, WaitsBehind
  <1>2. /\ d \in Dir /\ Jpegs(d) \subseteq Region
        /\ SubIFDs(d) \in Seq(Offsets \cup {0}) /\ Len(SubIFDs(d)) <= MaxSubIFDs
        /\ d.next \in Offsets \cup {0}
    BY <1>1, DirectoryType
  <1>3. CASE d.shape \in {"cut", "long"}
    <2>1. v = [queue |-> rest, visited |-> s.visited \cup {off}, found |-> s.found]
      BY <1>0, <1>1, <1>3 DEF Visit
    <2>2. Follows(tiff, off) = {}
      BY <1>3 DEF Follows
    <2> HIDE DEF v, rest, off, d
    <2>3. v \in WalkState
      BY <1>0, <1>1, <2>1 DEF WalkState
    <2>4. Len(v.queue) <= Len(s.queue) + MaxSubIFDs
      BY <1>1, <2>1, OffsetsAssumption
    <2> QED BY <1>1, <1>3, <2>1, <2>2, <2>3, <2>4 DEF v, rest, off, d
  <1>4. CASE d.shape \notin {"cut", "long"}
    <2>1. v = [queue |-> (rest \o SubIFDs(d)) \o last,
               visited |-> s.visited \cup {off}, found |-> s.found \cup Jpegs(d)]
      BY <1>1, <1>4 DEF Visit
    <2>2. last \in Seq(Offsets \cup {0}) /\ Len(last) <= 1
      <3>1. CASE d.shape = "noNext"
        <4>1. last = <<>>
          BY <3>1
        <4> QED BY <4>1
      <3>2. CASE d.shape # "noNext"
        <4>1. last = <<d.next>>
          BY <3>2
        <4> HIDE DEF last
        <4> QED BY <1>2, <4>1
      <3> QED BY <3>1, <3>2
    <2>3. \A x : Waits(SubIFDs(d), x) \/ Waits(last, x) <=> x \in Follows(tiff, off)
      <3>1. \A x : Waits(last, x) <=> d.shape # "noNext" /\ x = d.next
        BY DEF Waits
      <3>2. \A x : Waits(SubIFDs(d), x) <=>
                      Len(d.subs) <= MaxSubIFDs /\ x \in {d.subs[i] : i \in DOMAIN d.subs}
        <4>1. CASE Len(d.subs) <= MaxSubIFDs
          BY <4>1 DEF Waits, SubIFDs
        <4>2. CASE ~(Len(d.subs) <= MaxSubIFDs)
          BY <4>2 DEF Waits, SubIFDs
        <4> QED BY <4>1, <4>2
      <3>3. Len(d.subs) \in Nat /\ MaxSubIFDs \in Nat
        BY <1>2, OffsetsAssumption DEF Dir
      <3>4. Follows(tiff, off) =
               (IF Len(d.subs) <= MaxSubIFDs THEN {d.subs[i] : i \in DOMAIN d.subs} ELSE {})
               \cup IF d.shape = "noNext" THEN {} ELSE {d.next}
        BY <1>4, <3>3 DEF Follows
      <3> HIDE DEF last, d, off
      <3> QED BY <3>1, <3>2, <3>4
    <2> HIDE DEF v, rest, off, last, d
    <2>4. /\ rest \o SubIFDs(d) \in Seq(Offsets \cup {0})
          /\ Len(rest \o SubIFDs(d)) = Len(rest) + Len(SubIFDs(d))
      BY <1>1, <1>2
    <2>5. /\ v.queue \in Seq(Offsets \cup {0})
          /\ Len(v.queue) = Len(rest) + Len(SubIFDs(d)) + Len(last)
      <3> DEFINE more == rest \o SubIFDs(d)
      <3>1. more \in Seq(Offsets \cup {0}) /\ Len(more) = Len(rest) + Len(SubIFDs(d))
        BY <2>4
      <3>2. v.queue = more \o last
        BY <2>1
      <3> HIDE DEF more
      <3> QED BY <2>2, <3>1, <3>2
    <2>6. v \in WalkState
      BY <1>0, <1>1, <1>2, <2>1, <2>5 DEF WalkState
    <2>7. Len(v.queue) <= Len(s.queue) + MaxSubIFDs
      <3>1. Len(last) \in Nat /\ Len(SubIFDs(d)) \in Nat
        BY <1>2, <2>2
      <3> QED BY <1>1, <1>2, <2>2, <2>5, <3>1, OffsetsAssumption
    <2>8. \A x : Waits(v.queue, x) <=> Waits(rest, x) \/ x \in Follows(tiff, off)
      <3>1. \A x : Waits(v.queue, x) <=> Waits(rest \o SubIFDs(d), x) \/ Waits(last, x)
        BY <2>1, <2>2, <2>4, WaitsAppended
      <3>2. \A x : Waits(rest \o SubIFDs(d), x) <=> Waits(rest, x) \/ Waits(SubIFDs(d), x)
        BY <1>1, <1>2, WaitsAppended
      <3> QED BY <2>3, <3>1, <3>2
    <2>9. /\ v.visited = s.visited \cup {off}
          /\ v.found = s.found \cup IF d.shape \in {"cut", "long"} THEN {} ELSE Jpegs(d)
      BY <1>4, <2>1
    <2> QED BY <1>1, <2>6, <2>7, <2>8, <2>9 DEF v, rest, off, d
  <1> QED BY <1>3, <1>4

\* Its place in the queue, and its share of the steps.
LEMMA TimeMultiplied ==
    ASSUME NEW a \in Nat, NEW b \in Nat, NEW k \in Nat
    PROVE  /\ (a + 1) * k = a * k + k /\ a * k \in Nat
           /\ a < b => a * k + k <= b * k
  <1>1. (a + 1) * k = a * k + k /\ a * k \in Nat
    OBVIOUS
  <1>2. ASSUME a < b PROVE a * k + k <= b * k
    <2>1. PICK c \in Nat : b = a + 1 + c
      <3>1. b - a - 1 \in Nat /\ b = a + 1 + (b - a - 1)
        BY <1>2
      <3> QED BY <3>1
    <2>2. b * k = a * k + k + c * k /\ c * k \in Nat
      BY <2>1
    <2> QED BY <1>1, <2>2
  <1> QED BY <1>1, <1>2

LEMMA VisitInv ==
    ASSUME NEW tiff \in Tiff, NEW n \in Nat, NEW s, WalkInv(tiff, n, s), ~Ended(s)
    PROVE  WalkInv(tiff, n + 1, Visit(tiff, s))
  <1> DEFINE off == Head(s.queue)
             rest == Tail(s.queue)
             v == Visit(tiff, s)
             k == MaxSubIFDs + 1
  <1>0. s \in WalkState /\ Sees(tiff, s) /\ s.queue # <<>>
    BY DEF WalkInv, Ended
  <1>1. /\ s.queue \in Seq(Offsets \cup {0}) /\ Len(s.queue) \in Nat
        /\ s.visited \in SUBSET Offsets /\ s.found \in SUBSET Region
        /\ s = [queue |-> s.queue, visited |-> s.visited, found |-> s.found]
        /\ IsFiniteSet(s.visited) /\ Cardinality(s.visited) \in Nat /\ k \in Nat
    BY <1>0, OffsetsAssumption, FS_Subset, FS_CardinalityType DEF WalkState
  <1>2. /\ off \in Offsets \cup {0} /\ rest \in Seq(Offsets \cup {0})
        /\ Len(rest) = Len(s.queue) - 1
        /\ \A x : Waits(s.queue, x) <=> x = off \/ Waits(rest, x)
    BY <1>0, <1>1, WaitsBehind
  <1>3. Len(s.queue) + n <= 1 + Cardinality(s.visited) * k
    BY DEF WalkInv, InTime
  <1>4. CASE off = 0 \/ off \in s.visited
    <2>1. v = [queue |-> rest, visited |-> s.visited, found |-> s.found]
      BY <1>1, <1>4 DEF Visit
    <2> HIDE DEF v, rest, off
    <2>2. v \in WalkState
      BY <1>1, <1>2, <2>1 DEF WalkState
    <2>3. Sees(tiff, v)
      <3>1. \A x : Waits(v.queue, x) => Waits(s.queue, x)
        BY <1>2, <2>1
      <3>2. \A x : Waits(s.queue, x) => x \in v.visited \cup {0} \/ Waits(v.queue, x)
        BY <1>2, <1>4, <2>1
      <3> QED BY <1>0, <2>1, <3>1, <3>2 DEF Sees
    <2>4. InTime(n + 1, v)
      <3>1. Cardinality(s.visited) * k \in Nat
        BY <1>1
      <3>2. Len(v.queue) + (n + 1) = Len(s.queue) + n
        <4> DEFINE a == Len(v.queue)
                   b == Len(s.queue)
        <4>1. a = b - 1 /\ b \in Nat /\ n \in Nat
          BY <1>1, <1>2, <2>1
        <4> HIDE DEF a, b
        <4>2. a + (n + 1) = b + n
          BY <4>1
        <4> QED BY <4>2 DEF a, b
      <3>3. v.visited = s.visited
        BY <2>1
      <3> QED BY <1>3, <3>2, <3>3 DEF InTime
    <2> QED BY <2>2, <2>3, <2>4 DEF WalkInv, v
  <1>5. CASE off # 0 /\ off \notin s.visited
    <2>1. /\ off \in Offsets /\ v \in WalkState
          /\ v.visited = s.visited \cup {off}
          /\ v.found = s.found \cup IF tiff.dirs[off].shape \in {"cut", "long"}
                                    THEN {} ELSE Jpegs(tiff.dirs[off])
          /\ \A x : Waits(v.queue, x) <=> Waits(rest, x) \/ x \in Follows(tiff, off)
          /\ Len(v.queue) <= Len(s.queue) + MaxSubIFDs
      BY <1>0, <1>5, NewVisited
    <2>2. Follows(tiff, off) \subseteq Offsets \cup {0}
      BY <2>1, DirectoryType
    <2>3. Cardinality(v.visited) = Cardinality(s.visited) + 1
      BY <1>1, <1>5, <2>1, FS_AddElement
    <2> HIDE DEF v, rest, off
    <2>4. off \in Reachable(tiff)
      BY <1>0, <1>2, <1>5 DEF Sees
    <2>5. Sees(tiff, v)
      <3>1. v.visited \subseteq Reachable(tiff)
        BY <1>0, <2>1, <2>4 DEF Sees
      <3>2. \A x : Waits(v.queue, x) => x \in Reachable(tiff) \cup {0}
        BY <1>0, <1>2, <2>1, <2>2, <2>4, ReachableFacts DEF Sees
      <3>3. v.found = UNION {Jpegs(tiff.dirs[y]) : y \in Whole(tiff, v.visited)}
        <4>1. s.found = UNION {Jpegs(tiff.dirs[y]) : y \in Whole(tiff, s.visited)}
          BY <1>0 DEF Sees
        <4>2. CASE tiff.dirs[off].shape \in {"cut", "long"}
          <5>1. Whole(tiff, v.visited) = Whole(tiff, s.visited)
            BY <2>1, <4>2 DEF Whole
          <5>2. v.found = s.found
            BY <2>1, <4>2
          <5> QED BY <4>1, <5>1, <5>2
        <4>3. CASE tiff.dirs[off].shape \notin {"cut", "long"}
          <5>1. Whole(tiff, v.visited) = Whole(tiff, s.visited) \cup {off}
            BY <2>1, <4>3 DEF Whole
          <5>2. v.found = s.found \cup Jpegs(tiff.dirs[off])
            BY <2>1, <4>3
          <5> QED BY <4>1, <5>1, <5>2
        <4> QED BY <4>2, <4>3
      <3>4. \A x : x \in s.visited \cup {0} \/ Waits(s.queue, x) =>
               x \in v.visited \cup {0} \/ Waits(v.queue, x)
        BY <1>2, <2>1
      <3>5. tiff.first \in v.visited \cup {0} \/ Waits(v.queue, tiff.first)
        BY <1>0, <3>4 DEF Sees
      <3>6. \A y \in v.visited : \A x \in Follows(tiff, y) :
               x \in v.visited \cup {0} \/ Waits(v.queue, x)
        <4>1. \A y \in s.visited : \A x \in Follows(tiff, y) :
                 x \in s.visited \cup {0} \/ Waits(s.queue, x)
          BY <1>0 DEF Sees
        <4> QED BY <2>1, <3>4, <4>1
      <3> QED BY <3>1, <3>2, <3>3, <3>5, <3>6 DEF Sees
    <2>6. InTime(n + 1, v)
      <3> DEFINE c == Cardinality(s.visited)
      <3>1. (c + 1) * k = c * k + k /\ c * k \in Nat
        BY <1>1, TimeMultiplied
      <3>2. Len(v.queue) \in Nat
        BY <2>1 DEF WalkState
      <3>3. Len(v.queue) + (n + 1) <= 1 + (c * k + k)
        <4> DEFINE p == c * k
                   a == Len(v.queue)
                   b == Len(s.queue)
        <4>1. p \in Nat /\ b + n <= 1 + p
          BY <1>3, <3>1
        <4>2. a <= b + MaxSubIFDs /\ k = MaxSubIFDs + 1
          BY <2>1
        <4>3. a \in Nat /\ b \in Nat /\ n \in Nat /\ MaxSubIFDs \in Nat
          BY <1>1, <3>2, OffsetsAssumption
        <4> HIDE DEF p, k, a, b
        <4>4. a + (n + 1) <= 1 + (p + k)
          BY <4>1, <4>2, <4>3
        <4> QED BY <4>4 DEF p, a
      <3> QED BY <2>3, <3>1, <3>3 DEF InTime
    <2> QED BY <2>1, <2>5, <2>6 DEF WalkInv, v
  <1> QED BY <1>4, <1>5

\* The walk has ended after MaxSteps steps.
LEMMA WalkEnds ==
    ASSUME NEW tiff \in Tiff
    PROVE  Walk(tiff) \in WalkState /\ Sees(tiff, Walk(tiff)) /\ Ended(Walk(tiff))
  <1> DEFINE k == MaxSubIFDs + 1
             s == Walk(tiff)
  <1>0. MaxSteps \in Nat /\ k \in Nat /\ MaxVisited \in Nat
    BY StepsType, OffsetsAssumption
  <1>1. PICK w : WalksFor(tiff, MaxSteps, w) /\ s = w[MaxSteps]
    BY WalkUnfolds
  <1> DEFINE Bad == {n \in 0 .. MaxSteps : ~WalkInv(tiff, n, w[n])}
  <1>2. ASSUME Bad # {} PROVE FALSE
    <2>1. PICK n \in Bad : \A m \in Bad : n <= m
      <3>1. Bad \in SUBSET Nat
        OBVIOUS
      <3> HIDE DEF Bad
      <3> QED BY <1>2, <3>1, LeastStep
    <2>2. CASE n = 0
      <3>1. w[n] = AtFirstIFD(tiff)
        BY <1>1, <2>2 DEF WalksFor
      <3> QED BY <2>1, <2>2, <3>1, StartInv
    <2>3. CASE n # 0
      <3>1. n \in 1 .. MaxSteps /\ n - 1 \in 0 .. MaxSteps /\ ~(n <= n - 1)
        BY <1>0, <2>1, <2>3
      <3>2. WalkInv(tiff, n - 1, w[n - 1])
        BY <2>1, <3>1
      <3>3. w[n] = Stepped(tiff, w[n - 1])
        BY <1>1, <3>1 DEF WalksFor
      <3>4. CASE Ended(w[n - 1])
        <4>1. w[n] = w[n - 1]
          BY <3>3, <3>4 DEF Stepped
        <4>2. WalkInv(tiff, n, w[n])
          BY <3>2, <3>4, <4>1 DEF WalkInv, InTime
        <4> QED BY <2>1, <4>2
      <3>5. CASE ~Ended(w[n - 1])
        <4>1. w[n] = Visit(tiff, w[n - 1])
          BY <3>3, <3>5 DEF Stepped
        <4>2. n - 1 \in Nat /\ (n - 1) + 1 = n
          BY <3>1
        <4>3. WalkInv(tiff, (n - 1) + 1, Visit(tiff, w[n - 1]))
          BY <3>2, <3>5, <4>2, VisitInv
        <4> QED BY <2>1, <4>1, <4>2, <4>3
      <3> QED BY <3>4, <3>5
    <2> QED BY <2>2, <2>3
  <1>3. WalkInv(tiff, MaxSteps, s)
    BY <1>0, <1>1, <1>2
  <1> HIDE DEF s
  <1>4. ASSUME ~Ended(s) PROVE FALSE
    <2>1. /\ s.queue \in Seq(Offsets \cup {0}) /\ s.queue # <<>>
          /\ IsFiniteSet(s.visited) /\ Cardinality(s.visited) \in Nat
      BY <1>3, <1>4, OffsetsAssumption, FS_Subset, FS_CardinalityType
         DEF WalkInv, WalkState, Ended
    <2>2. Len(s.queue) \in Nat /\ Len(s.queue) >= 1
      BY <2>1
    <2> DEFINE c == Cardinality(s.visited)
               p == c * k
               q == MaxVisited * k
    <2>3. c < MaxVisited
      BY <1>0, <1>4, <2>1 DEF Ended
    <2>4. p + k <= q /\ p \in Nat /\ q \in Nat
      BY <1>0, <2>1, <2>3, TimeMultiplied
    <2>5. Len(s.queue) + MaxSteps <= 1 + p
      BY <1>3, <1>4 DEF WalkInv, InTime
    <2>6. MaxSteps = 1 + q
      BY DEF MaxSteps
    <2> DEFINE l == Len(s.queue)
    <2>7. l \in Nat /\ l >= 1 /\ l + (1 + q) <= 1 + p
      BY <2>2, <2>5, <2>6
    <2> HIDE DEF p, q, k, l
    <2>8. k \in Nat /\ p \in Nat /\ q \in Nat /\ p + k <= q
      BY <1>0, <2>4
    <2> QED BY <2>7, <2>8
  <1> QED BY <1>3, <1>4 DEF WalkInv, s

\* Unless there are too many, the walk comes to all directories that can be reached.
LEMMA AllVisited ==
    ASSUME NEW tiff \in Tiff, Cardinality(Reachable(tiff)) <= MaxVisited
    PROVE  Walk(tiff).visited = Reachable(tiff)
  <1> DEFINE s == Walk(tiff)
  <1>1. s \in WalkState /\ Sees(tiff, s) /\ Ended(s)
    BY WalkEnds
  <1>2. /\ s.visited \in SUBSET Offsets
        /\ s.visited \in SUBSET Reachable(tiff)
        /\ IsFiniteSet(s.visited) /\ Cardinality(s.visited) \in Nat
    BY <1>1, OffsetsAssumption, FS_Subset, FS_CardinalityType DEF WalkState, Sees
  <1> HIDE DEF s
  <1>3. CASE s.queue = <<>>
    <2>1. \A x : ~Waits(s.queue, x)
      BY <1>3 DEF Waits
    <2>2. Closed(tiff, s.visited)
      BY <1>1, <2>1 DEF Sees, Closed
    <2>3. Reachable(tiff) \subseteq s.visited
      BY <1>2, <2>2, ReachableFacts
    <2> QED BY <1>2, <2>3 DEF s
  <1>4. CASE Cardinality(s.visited) >= MaxVisited
    <2>1. IsFiniteSet(Reachable(tiff)) /\ Cardinality(Reachable(tiff)) \in Nat
      BY ReachableFacts
    <2>2. Cardinality(s.visited) <= Cardinality(Reachable(tiff))
      BY <1>2, <2>1, FS_Subset
    <2>3. Cardinality(s.visited) = Cardinality(Reachable(tiff))
      BY <1>2, <1>4, <2>1, <2>2, OffsetsAssumption
    <2>4. s.visited = Reachable(tiff)
      BY <1>2, <2>1, <2>3, FS_Subset
    <2> QED BY <2>4 DEF s
  <1> QED BY <1>1, <1>3, <1>4 DEF Ended

\* A picture or none is decoded of every file.
LEMMA DecodingsType ==
    ASSUME NEW file \in File, NEW raw \in BOOLEAN
    PROVE  Decodings(file, raw) \subseteq Picture \cup {Nil}
  <1>1. file.pic \in Picture \cup {Nil} /\ file.tiff \in Tiff \cup {Nil}
    BY DEF File
  <1>2. ASSUME NEW r \in Previews(file.tiff) PROVE r.pic \in Picture
    <2>1. file.tiff # Nil
      BY <1>2 DEF Previews
    <2>2. r \in Walk(file.tiff).found
      BY <1>2, <2>1 DEF Previews, Largest
    <2>3. r \in Region
      BY <1>1, <2>1, <2>2, WalkEnds DEF WalkState
    <2> QED BY <2>3 DEF Region
  <1>3. CASE ~raw
    BY <1>1, <1>3 DEF Decodings
  <1>4. CASE raw
    <2>1. \A p \in Decodings(file, raw) :
             p = Nil \/ \E r \in Previews(file.tiff) : p = r.pic
      BY <1>4 DEF Decodings
    <2> QED BY <1>2, <2>1
  <1> QED BY <1>3, <1>4

-----------------------------------------------------------------------------
(***************************************************************************)
(* Types of the operators.                                                 *)
(***************************************************************************)
\* Names in the cache are for sizes from 1 up to the limit.
LEMMA KeySizes == \A key \in Keys : key[1] \in PhotoIDs /\ key[2] \in 1 .. ThumbnailMaxSide
  BY SizesAssumption DEF Keys, Side

LEMMA AskedIsKey ==
    ASSUME NEW id \in PhotoIDs, NEW width \in Widths
    PROVE  <<id, Side(width)>> \in Keys
  BY DEF Keys

LEMMA FullIsKey == ASSUME NEW id \in PhotoIDs PROVE <<id, ThumbnailMaxSide>> \in Keys
  BY SizesAssumption DEF Keys, Side

LEMMA ScaledType ==
    ASSUME NEW s \in Size, NEW side \in Nat \ {0}
    PROVE  ScaleTo(s, side) \in [w: Int, h: Int]
  <1>1. s.w \in Nat \ {0} /\ s.h \in Nat \ {0}
    BY DEF Size
  <1>2. s.h * side \in Int /\ s.w * side \in Int
    BY <1>1
  <1>3. (s.h * side) \div s.w \in Int /\ (s.w * side) \div s.h \in Int
    BY <1>1, <1>2
  <1> QED
    BY <1>1, <1>3 DEF ScaleTo, Size

LEMMA ThumbType ==
    ASSUME NEW pic \in Picture, NEW o \in Nat, NEW side \in Nat \ {0}
    PROVE  Thumb(pic, o, side) \in Thumbnail /\ Thumb(pic, o, side).whole
  <1>1. pic.name \in Names /\ pic.size \in Size
    BY DEF Picture
  <1>2. TurnedSize(o, pic.size) \in Size
    BY <1>1 DEF TurnedSize, Size
  <1>3. ScaleTo(TurnedSize(o, pic.size), side) \in [w: Int, h: Int]
    BY <1>2, ScaledType
  <1> QED
    BY <1>1, <1>3 DEF Thumb, Thumbnail, Turns

LEMMA WalkedType ==
    ASSUME NEW tiff \in Tiff, NEW off \in Offsets \cup {0}, NEW o \in Nat
    PROVE  /\ WalkIFD(tiff, off, o).orientation \in Nat
           /\ WalkIFD(tiff, off, o).exifIFD \in Offsets \cup {0}
  <1>1. CASE off = 0 \/ tiff.dirs[off].shape \in {"cut", "far"}
    BY <1>1 DEF WalkIFD
  <1>2. CASE ~(off = 0 \/ tiff.dirs[off].shape \in {"cut", "far"})
    <2>1. tiff.dirs[off] \in Dir
      BY <1>2 DEF Tiff
    <2>2. tiff.dirs[off].orientation \in Nat /\ tiff.dirs[off].exifIFD \in Offsets \cup {0}
      BY <2>1 DEF Dir
    <2> QED
      BY <1>2, <2>2 DEF WalkIFD
  <1> QED
    BY <1>1, <1>2

LEMMA OrientationType == ASSUME NEW file \in File PROVE Orientation(file) \in Nat
  <1>1. CASE file.tiff = Nil
    BY <1>1 DEF Orientation
  <1>2. CASE file.tiff # Nil
    <2> DEFINE ifd0 == WalkIFD(file.tiff, file.tiff.first, 0)
    <2>1. file.tiff \in Tiff
      BY <1>2 DEF File
    <2>2. file.tiff.first \in Offsets \cup {0}
      BY <2>1 DEF Tiff
    <2>3. ifd0.orientation \in Nat /\ ifd0.exifIFD \in Offsets \cup {0}
      BY <2>1, <2>2, WalkedType
    <2>4. WalkIFD(file.tiff, ifd0.exifIFD, ifd0.orientation).orientation \in Nat
      BY <2>1, <2>3, WalkedType
    <2> QED
      BY <1>2, <2>3, <2>4 DEF Orientation
  <1> QED
    BY <1>1, <1>2

-----------------------------------------------------------------------------
LEMMA InitInv == Init => Inv
  <1> SUFFICES ASSUME Init PROVE Inv
    OBVIOUS
  <1>1. PICK start \in Libraries : lib = start.lib /\ known = start.known
    BY DEF Init
  <1>2. start \in [lib: [PhotoIDs -> Files \cup {Nil}], known: SUBSET PhotoIDs]
    BY FilesAssumption
  <1>3. TypeOK
    BY <1>1, <1>2 DEF Init, TypeOK, Stage
  <1>4. FilesInThumbs /\ HeldIsWhole /\ CachedIsWhole /\ TempsTidied /\ CountsOn
    BY DEF Init, FilesInThumbs, HeldIsWhole, CachedIsWhole, TempsTidied, CountsOn,
           Idle, At
  <1> QED
    BY <1>3, <1>4 DEF Inv

\* A request starts: it has no temporary file, and its excuses are over.
LEMMA ServeInv ==
    ASSUME Inv, NEW r \in Requests, NEW key \in Keys, Serve(r, key)
    PROVE  Inv'
  <1> USE DEF Serve, Inv, Kept
  <1>1. temp[r] = Nil
    BY DEF TempsTidied, Running
  <1>2. TypeOK'
    BY DEF TypeOK, Stage
  <1>3. FilesInThumbs' /\ CachedIsWhole'
    BY DEF FilesInThumbs, CachedIsWhole
  <1>4. HeldIsWhole'
    BY <1>1 DEF TypeOK, HeldIsWhole, At
  <1>5. TempsTidied'
    BY <1>1 DEF TypeOK, TempsTidied
  <1>6. CountsOn'
    BY <1>1 DEF TypeOK, CountsOn, At
  <1> QED
    BY <1>2, <1>3, <1>4, <1>5, <1>6

LEMMA ReadExifInv == ASSUME Inv, NEW r \in Requests, ReadExif(r) PROVE Inv'
  <1> USE DEF ReadExif, Inv, Kept, At
  <1> DEFINE file == lib[Photo(r)]
  <1>1. req[r].key \in Keys
    BY DEF TypeOK, Stage, Idle
  <1>2. (IF file = Nil THEN 0 ELSE Orientation(file)) \in Nat
    BY <1>1, KeySizes, OrientationType, FilesAssumption DEF TypeOK, Photo
  <1>3. TypeOK'
    BY <1>1, <1>2 DEF TypeOK, Stage
  <1>4. FilesInThumbs' /\ CachedIsWhole'
    BY DEF FilesInThumbs, CachedIsWhole
  <1>5. HeldIsWhole' /\ TempsTidied' /\ CountsOn'
    BY DEF TypeOK, HeldIsWhole, TempsTidied, CountsOn
  <1> QED
    BY <1>3, <1>4, <1>5

\* A request ends, without a picture and with a reason to.
LEMMA FailInv ==
    ASSUME Inv, NEW r \in Requests, req[r].key \in Keys,
           Answers(r, Nil), Excuse(r), Kept, UNCHANGED <<dir, cache>>,
           temp' \in {temp, [temp EXCEPT ![r] = Nil]}, temp'[r] = Nil
    PROVE  Inv'
  <1> USE DEF Inv, Kept, Answers, Excuse, At
  <1>1. TypeOK'
    BY DEF TypeOK, Stage
  <1>2. FilesInThumbs' /\ CachedIsWhole'
    BY DEF TypeOK, FilesInThumbs, CachedIsWhole
  <1>3. HeldIsWhole' /\ TempsTidied'
    BY DEF TypeOK, HeldIsWhole, TempsTidied
  <1>4. CountsOn'
    BY DEF TypeOK, CountsOn
  <1> QED
    BY <1>1, <1>2, <1>3, <1>4

LEMMA DecodeInv == ASSUME Inv, NEW r \in Requests, Decode(r) PROVE Inv'
  <1> DEFINE file == lib[Photo(r)]
  <1>1. /\ req[r] \in [pc: {"decode"}, key: Keys, turn: Nat]
        /\ temp[r] = Nil
    BY DEF Inv, TypeOK, TempsTidied, Decode, At, Stage, Idle
  <1>2. CASE file = Nil
    <2>1. Answers(r, Nil) /\ Excuse(r) /\ Kept /\ UNCHANGED <<dir, cache, temp>>
      BY <1>2 DEF Decode
    <2> QED
      BY <1>1, <2>1, FailInv
  <1>3. CASE file # Nil
    <2>1. file \in Files
      BY <1>1, <1>3, KeySizes DEF Inv, TypeOK, Photo
    <2>2. PICK pic \in Decodings(file, Photo(r) \in Raws) :
             IF pic = Nil
             THEN Answers(r, Nil) /\ Excuse(r)
             ELSE /\ req' = [req EXCEPT ![r] =
                        [pc |-> "mkdir", key |-> @.key,
                         thumb |-> Thumb(pic, @.turn, @.key[2])]]
                  /\ UNCHANGED excused
      BY <1>3 DEF Decode
    <2>3. pic \in Picture \cup {Nil}
      <3>1. (Photo(r) \in Raws) \in BOOLEAN
        OBVIOUS
      <3>2. Decodings(file, Photo(r) \in Raws) \subseteq Picture \cup {Nil}
        BY <2>1, <3>1, FilesAssumption, DecodingsType
      <3> QED
        BY <2>2, <3>2
    <2>4. CASE pic = Nil
      <3>1. Answers(r, Nil) /\ Excuse(r) /\ Kept /\ UNCHANGED <<dir, cache, temp>>
        BY <2>2, <2>4 DEF Decode
      <3> QED
        BY <1>1, <3>1, FailInv
    <2>5. CASE pic # Nil
      <3> DEFINE thumb == Thumb(pic, req[r].turn, req[r].key[2])
      <3>1. thumb \in Thumbnail /\ thumb.whole
        BY <1>1, <2>3, <2>5, KeySizes, ThumbType, SizesAssumption
      <3>2. /\ req' = [req EXCEPT ![r] = [pc |-> "mkdir", key |-> req[r].key,
                                          thumb |-> thumb]]
            /\ UNCHANGED excused /\ Kept /\ UNCHANGED <<dir, cache, temp>>
        BY <2>2, <2>5 DEF Decode
      <3> HIDE DEF thumb
      <3> USE <3>2 DEF Inv, Kept, At
      <3>3. TypeOK'
        BY <1>1, <3>1 DEF TypeOK, Stage
      <3>4. FilesInThumbs' /\ CachedIsWhole'
        BY DEF FilesInThumbs, CachedIsWhole
      <3>5. HeldIsWhole' /\ TempsTidied'
        BY <1>1, <3>1 DEF TypeOK, HeldIsWhole, TempsTidied
      <3>6. CountsOn'
        BY DEF TypeOK, CountsOn
      <3> QED
        BY <3>3, <3>4, <3>5, <3>6
    <2> QED
      BY <2>4, <2>5
  <1> QED
    BY <1>2, <1>3
\* Going on to the next stage keeps the locals.
LEMMA Advance ==
    ASSUME NEW r \in Requests, NEW from, NEW to,
           req[r] \in [pc: {from}, key: Keys, thumb: Thumbnail], Goes(r, to)
    PROVE  req' = [req EXCEPT ![r] = [pc |-> to, key |-> req[r].key,
                                      thumb |-> req[r].thumb]]
  <1>1. [req[r] EXCEPT !.pc = to] = [pc |-> to, key |-> req[r].key,
                                     thumb |-> req[r].thumb]
    OBVIOUS
  <1> QED
    BY <1>1 DEF Goes

LEMMA MkdirAllInv == ASSUME Inv, NEW r \in Requests, MkdirAll(r) PROVE Inv'
  <1> USE DEF MkdirAll, Goes, Inv, Kept, At
  <1>1. req[r] \in [pc: {"mkdir"}, key: Keys, thumb: Thumbnail]
    BY DEF TypeOK, Stage, Idle
  <1>2. req' = [req EXCEPT ![r] = [pc |-> "create", key |-> req[r].key,
                                   thumb |-> req[r].thumb]]
    BY <1>1, Advance
  <1>3. TypeOK'
    BY <1>1, <1>2 DEF TypeOK, Stage
  <1>4. FilesInThumbs' /\ CachedIsWhole'
    BY DEF FilesInThumbs, CachedIsWhole
  <1>5. HeldIsWhole' /\ TempsTidied' /\ CountsOn'
    BY <1>1, <1>2 DEF TypeOK, HeldIsWhole, TempsTidied, CountsOn
  <1> QED
    BY <1>3, <1>4, <1>5

LEMMA CreateTempInv == ASSUME Inv, NEW r \in Requests, CreateTemp(r) PROVE Inv'
  <1>1. /\ req[r] \in [pc: {"create"}, key: Keys, thumb: Thumbnail]
        /\ temp[r] = Nil
    BY DEF CreateTemp, At, Inv, TypeOK, TempsTidied, Stage, Idle
  <1>2. CASE ~dir
    <2>1. Answers(r, Nil) /\ Excuse(r) /\ Kept /\ UNCHANGED <<dir, cache, temp>>
      BY <1>2 DEF CreateTemp
    <2> QED
      BY <1>1, <2>1, FailInv
  <1>3. CASE dir
    <2> DEFINE begun == [req[r].thumb EXCEPT !.whole = FALSE]
    <2>1. /\ temp' = [temp EXCEPT ![r] = begun]
          /\ req' = [req EXCEPT ![r] = [pc |-> "encode", key |-> req[r].key,
                                        thumb |-> req[r].thumb]]
          /\ UNCHANGED excused /\ Kept /\ UNCHANGED <<dir, cache>>
      BY <1>1, <1>3, Advance DEF CreateTemp
    <2>2. begun \in Thumbnail
      BY <1>1 DEF Thumbnail
    <2>3. begun # Nil
      BY <2>2, NilAssumption
    <2> HIDE DEF begun
    <2> USE <2>1 DEF Inv, Kept, At
    <2>4. TypeOK'
      BY <1>1, <2>2 DEF TypeOK, Stage
    <2>5. FilesInThumbs' /\ CachedIsWhole'
      BY <1>3 DEF TypeOK, FilesInThumbs, CachedIsWhole
    <2>6. HeldIsWhole' /\ TempsTidied'
      BY <1>1 DEF TypeOK, HeldIsWhole, TempsTidied
    <2>7. CountsOn'
      BY <1>1, <2>3 DEF TypeOK, CountsOn
    <2> QED
      BY <2>4, <2>5, <2>6, <2>7
  <1> QED
    BY <1>2, <1>3

LEMMA EncodeInv == ASSUME Inv, NEW r \in Requests, Encode(r) PROVE Inv'
  <1>1. /\ req[r] \in [pc: {"encode"}, key: Keys, thumb: Thumbnail]
        /\ req[r].thumb.whole /\ temp[r] \in Thumbnail \cup {Nil}
    BY DEF Encode, At, Inv, TypeOK, HeldIsWhole, Stage, Idle
  <1>2. CASE /\ temp' = [temp EXCEPT ![r] = IF @ = Nil THEN Nil ELSE req[r].thumb]
             /\ Goes(r, "rename") /\ UNCHANGED excused
    <2> DEFINE written == IF temp[r] = Nil THEN Nil ELSE req[r].thumb
    <2>1. /\ temp' = [temp EXCEPT ![r] = written]
          /\ req' = [req EXCEPT ![r] = [pc |-> "rename", key |-> req[r].key,
                                        thumb |-> req[r].thumb]]
          /\ UNCHANGED excused /\ Kept /\ UNCHANGED <<dir, cache>>
      BY <1>1, <1>2, Advance DEF Encode
    <2>2. /\ written \in Thumbnail \cup {Nil}
          /\ written # Nil => written.whole
          /\ written = Nil <=> temp[r] = Nil
      BY <1>1, NilAssumption
    <2> HIDE DEF written
    <2> USE <2>1 DEF Inv, Kept, At
    <2>3. TypeOK'
      BY <1>1, <2>2 DEF TypeOK, Stage
    <2>4. FilesInThumbs' /\ CachedIsWhole'
      BY <2>2 DEF TypeOK, FilesInThumbs, CachedIsWhole
    <2>5. HeldIsWhole' /\ TempsTidied'
      BY <1>1, <2>2 DEF TypeOK, HeldIsWhole, TempsTidied
    <2>6. CountsOn'
      BY <1>1, <2>2 DEF TypeOK, CountsOn
    <2> QED
      BY <2>3, <2>4, <2>5, <2>6
  <1>3. CASE /\ temp' = [temp EXCEPT ![r] = Nil]
             /\ Answers(r, Nil) /\ Excuse(r)
    <2>1. Kept /\ UNCHANGED <<dir, cache>> /\ temp'[r] = Nil
      BY <1>3 DEF Encode, Inv, TypeOK
    <2> QED
      BY <1>1, <1>3, <2>1, FailInv
  <1> QED
    BY <1>2, <1>3 DEF Encode

\* What is there already is replaced by a complete file.
LEMMA RenameInv == ASSUME Inv, NEW r \in Requests, Rename(r) PROVE Inv'
  <1>1. /\ req[r] \in [pc: {"rename"}, key: Keys, thumb: Thumbnail]
        /\ temp[r] # Nil => temp[r].whole
        /\ temp[r] \in Thumbnail \cup {Nil}
    BY DEF Rename, At, Inv, TypeOK, HeldIsWhole, Stage, Idle
  <1>2. CASE temp[r] # Nil
    <2>1. /\ temp' = [temp EXCEPT ![r] = Nil]
          /\ cache' = [cache EXCEPT ![req[r].key] = temp[r]]
          /\ req' = [req EXCEPT ![r] = [pc |-> "reopen", key |-> req[r].key,
                                        thumb |-> req[r].thumb]]
          /\ UNCHANGED excused /\ Kept /\ UNCHANGED dir
      BY <1>1, <1>2, Advance DEF Rename
    <2> USE <2>1 DEF Inv, Kept, At
    <2>2. TypeOK'
      BY <1>1, <1>2 DEF TypeOK, Stage
    <2>3. dir
      BY <1>2 DEF FilesInThumbs
    <2>4. FilesInThumbs' /\ CachedIsWhole'
      <3>1. FilesInThumbs'
        BY <2>3, KeySizes DEF FilesInThumbs
      <3>2. ASSUME NEW key \in Keys, cache'[key] # Nil PROVE cache'[key].whole
        <4>1. CASE key = req[r].key
          BY <1>1, <1>2, <4>1 DEF TypeOK
        <4>2. CASE key # req[r].key
          BY <3>2, <4>2 DEF TypeOK, CachedIsWhole
        <4> QED
          BY <4>1, <4>2
      <3> QED
        BY <3>1, <3>2 DEF CachedIsWhole
    <2>5. HeldIsWhole' /\ TempsTidied'
      BY <1>1 DEF TypeOK, HeldIsWhole, TempsTidied
    <2>6. CountsOn'
      BY <1>1, <1>2 DEF TypeOK, CountsOn
    <2> QED
      BY <2>2, <2>4, <2>5, <2>6
  <1>3. CASE temp[r] = Nil
    <2>1. r \in excused
      BY <1>1, <1>3 DEF Inv, CountsOn
    <2>2. /\ Answers(r, Nil) /\ Excuse(r) /\ Kept /\ UNCHANGED <<dir, cache>>
          /\ temp' = [temp EXCEPT ![r] = Nil]
      BY <1>3, <2>1 DEF Rename, Excuse
    <2>3. temp'[r] = Nil
      BY <2>2 DEF Inv, TypeOK
    <2> QED
      BY <1>1, <2>2, <2>3, FailInv
  <1> QED
    BY <1>2, <1>3

LEMMA ReopenInv == ASSUME Inv, NEW r \in Requests, Reopen(r) PROVE Inv'
  <1> USE DEF Reopen, Answers, Inv, Kept, At
  <1>1. req[r] \in [pc: {"reopen"}, key: Keys, thumb: Thumbnail]
    BY DEF TypeOK, Stage, Idle
  <1>2. TypeOK'
    BY <1>1 DEF TypeOK, Stage
  <1>3. FilesInThumbs' /\ CachedIsWhole'
    BY DEF FilesInThumbs, CachedIsWhole
  <1>4. HeldIsWhole' /\ TempsTidied'
    BY <1>1 DEF TypeOK, HeldIsWhole, TempsTidied
  <1>5. CountsOn'
    BY <1>1 DEF TypeOK, CountsOn
  <1> QED
    BY <1>2, <1>3, <1>4, <1>5

\* Moving a photo's file touches nothing a request holds.
LEMMA FileMovedInv ==
    ASSUME Inv,
           known' \subseteq PhotoIDs,
           lib' \in [PhotoIDs -> Files \cup {Nil}],
           bin' \in [PhotoIDs -> Files \cup {Nil}],
           replaced' \subseteq PhotoIDs,
           returned' \subseteq PhotoIDs,
           UNCHANGED <<dir, cache, temp, req, excused>>
    PROVE  Inv'
  <1> USE DEF Inv
  <1>1. TypeOK'
    BY DEF TypeOK
  <1>2. FilesInThumbs' /\ CachedIsWhole' /\ HeldIsWhole'
    BY DEF FilesInThumbs, CachedIsWhole, HeldIsWhole, At
  <1>3. TempsTidied' /\ CountsOn'
    BY DEF TempsTidied, CountsOn, At
  <1> QED
    BY <1>1, <1>2, <1>3

LEMMA ClearThumbsInv == ASSUME Inv, ClearThumbs PROVE Inv'
  <1> USE DEF ClearThumbs, Inv
  <1>1. TypeOK'
    BY DEF TypeOK
  <1>2. FilesInThumbs' /\ CachedIsWhole'
    BY DEF FilesInThumbs, CachedIsWhole
  <1>3. HeldIsWhole' /\ TempsTidied'
    BY DEF HeldIsWhole, TempsTidied, At
  <1>4. CountsOn'
    BY DEF CountsOn, At, Running
  <1> QED
    BY <1>1, <1>2, <1>3, <1>4

LEMMA CrashInv == ASSUME Inv, Crash PROVE Inv'
  <1> USE DEF Crash, Inv
  <1>1. TypeOK'
    BY DEF TypeOK, Stage
  <1>2. FilesInThumbs' /\ CachedIsWhole'
    BY DEF FilesInThumbs, CachedIsWhole
  <1>3. HeldIsWhole' /\ TempsTidied'
    BY DEF HeldIsWhole, TempsTidied, At, Idle, Running
  <1>4. CountsOn'
    BY DEF CountsOn, At, Idle, Running
  <1> QED
    BY <1>1, <1>2, <1>3, <1>4

LEMMA NextInv == Inv /\ [Next]_vars => Inv'
  <1> SUFFICES ASSUME Inv, [Next]_vars PROVE Inv'
    OBVIOUS
  <1>1. CASE UNCHANGED vars
    BY <1>1, FileMovedInv DEF vars, Inv, TypeOK
  <1>2. ASSUME NEW r \in Requests, NEW id \in PhotoIDs, NEW width \in Widths,
               HandleThumb(r, id, width)
        PROVE  Inv'
    BY <1>1, <1>2, AskedIsKey, ServeInv DEF HandleThumb
  <1>3. ASSUME NEW r \in Requests, NEW id \in PhotoIDs, HandleServePhoto(r, id)
        PROVE  Inv'
    BY <1>3, FullIsKey, ServeInv DEF HandleServePhoto
  <1>4. ASSUME NEW r \in Requests, ServeThumb(r) PROVE Inv'
    BY <1>4, ReadExifInv, DecodeInv, MkdirAllInv, CreateTempInv, EncodeInv,
       RenameInv, ReopenInv DEF ServeThumb
  <1>5. ASSUME NEW id \in PhotoIDs, Trash(id) PROVE Inv'
    BY <1>5, FileMovedInv DEF Trash, Inv, TypeOK
  <1>6. ASSUME NEW id \in PhotoIDs, Restore(id) PROVE Inv'
    BY <1>6, FileMovedInv DEF Restore, Inv, TypeOK
  <1>7. ASSUME NEW id \in PhotoIDs, NEW file \in Replacements, Replace(id, file)
        PROVE  Inv'
    <2>1. file = Nil \/ file \in Files
      BY DEF Files
    <2> QED
      BY <1>7, <2>1, FileMovedInv DEF Replace, Inv, TypeOK
  <1>8. CASE ClearThumbs \/ Crash
    BY <1>8, ClearThumbsInv, CrashInv
  <1> QED
    BY <1>1, <1>2, <1>3, <1>4, <1>5, <1>6, <1>7, <1>8 DEF Next

\* In every reachable state all that is in the cache is one of these invariants'.
THEOREM InvCorrect == Spec => []Inv
  <1>1. Init => Inv
    BY InitInv
  <1>2. Inv /\ [Next]_vars => Inv'
    BY NextInv
  <1> QED
    BY <1>1, <1>2, PTL DEF Spec

\* Caches, temporary files and requests are well formed (thumb.go:25-83).
THEOREM TypeCorrect == Spec => []TypeOK
  <1>1. Inv => TypeOK
    BY DEF Inv
  <1> QED
    BY <1>1, InvCorrect, PTL

\* Files lie in a directory that is there, under the name of a size that is served
\* (thumb.go:29-34, 54-61).
THEOREM FilesLieInThumbs == Spec => []FilesInThumbs
  <1>1. Inv => FilesInThumbs
    BY DEF Inv
  <1> QED
    BY <1>1, InvCorrect, PTL

\* No partial thumbnail ever has its final name (thumb.go:57-76).
THEOREM CacheIsWhole == Spec => []CachedIsWhole
  <1>1. Inv => CachedIsWhole
    BY DEF Inv
  <1> QED
    BY <1>1, InvCorrect, PTL

\* Whoever fails takes its temporary file away (thumb.go:62-74).
THEOREM TempsAreTidied == Spec => []TempsTidied
  <1>1. Inv => TempsTidied
    BY DEF Inv
  <1> QED
    BY <1>1, InvCorrect, PTL

\* However many requests generate the same thumbnail at once, none fails because of
\* another (thumb.go:54-82).
THEOREM NoneSpoilsAnother == Spec => []OthersNeverSpoil
  <1>1. Inv => OthersNeverSpoil
    BY DEF Inv, CountsOn, OthersNeverSpoil, At
  <1> QED
    BY <1>1, InvCorrect, PTL

-----------------------------------------------------------------------------
(***************************************************************************)
(* Turning.                                                                *)
(***************************************************************************)
\* The pixel of the picture that ends up at (x, y).
Source(o, s, x, y) ==
    CASE o = 2 -> <<s.w - 1 - x, y>>
      [] o = 3 -> <<s.w - 1 - x, s.h - 1 - y>>
      [] o = 4 -> <<x, s.h - 1 - y>>
      [] o = 5 -> <<y, x>>
      [] o = 6 -> <<y, s.h - 1 - x>>
      [] o = 7 -> <<s.w - 1 - y, s.h - 1 - x>>
      [] o = 8 -> <<s.w - 1 - y, x>>
      [] OTHER -> <<x, y>>

\* No pixel falls outside of the turned picture.
LEMMA PlacedInside ==
    ASSUME NEW o \in Nat, NEW s \in Size, NEW p \in Pixels(s)
    PROVE  Placed(o, s, p[1], p[2]) \in Pixels(TurnedSize(o, s))
  <1>1. /\ s.w \in Nat \ {0} /\ s.h \in Nat \ {0}
        /\ p[1] \in 0 .. s.w - 1 /\ p[2] \in 0 .. s.h - 1
    BY DEF Size, Pixels
  <1>2. CASE o \in 5 .. 8
    <2>1. TurnedSize(o, s).w = s.h /\ TurnedSize(o, s).h = s.w
      BY <1>2 DEF TurnedSize
    <2>2. o = 5 \/ o = 6 \/ o = 7 \/ o = 8
      BY <1>2
    <2>3. /\ Placed(o, s, p[1], p[2])[1] \in 0 .. s.h - 1
          /\ Placed(o, s, p[1], p[2])[2] \in 0 .. s.w - 1
          /\ Placed(o, s, p[1], p[2])
                = <<Placed(o, s, p[1], p[2])[1], Placed(o, s, p[1], p[2])[2]>>
      BY <1>1, <2>2 DEF Placed
    <2> QED
      BY <2>1, <2>3 DEF Pixels
  <1>3. CASE o \notin 5 .. 8
    <2>1. TurnedSize(o, s) = s
      BY <1>3 DEF TurnedSize
    <2>2. o # 5 /\ o # 6 /\ o # 7 /\ o # 8
      BY <1>3
    <2>3. /\ Placed(o, s, p[1], p[2])[1] \in 0 .. s.w - 1
          /\ Placed(o, s, p[1], p[2])[2] \in 0 .. s.h - 1
          /\ Placed(o, s, p[1], p[2])
                = <<Placed(o, s, p[1], p[2])[1], Placed(o, s, p[1], p[2])[2]>>
      BY <1>1, <2>2 DEF Placed
    <2> QED
      BY <2>1, <2>3 DEF Pixels
  <1> QED
    BY <1>2, <1>3

\* And every place of the turned picture gets one.
LEMMA EveryPlaceFilled ==
    ASSUME NEW o \in Nat, NEW s \in Size, NEW q \in Pixels(TurnedSize(o, s))
    PROVE  \E p \in Pixels(s) : Placed(o, s, p[1], p[2]) = q
  <1> DEFINE p == Source(o, s, q[1], q[2])
  <1>1. s.w \in Nat \ {0} /\ s.h \in Nat \ {0}
    BY DEF Size
  <1>2. q = <<q[1], q[2]>>
    BY DEF Pixels
  <1>3. p \in Pixels(s) /\ Placed(o, s, p[1], p[2]) = q
    <2>1. CASE o \in 5 .. 8
      <3>1. q[1] \in 0 .. s.h - 1 /\ q[2] \in 0 .. s.w - 1
        BY <2>1 DEF TurnedSize, Pixels
      <3>2. o = 5 \/ o = 6 \/ o = 7 \/ o = 8
        BY <2>1
      <3>3. p[1] \in 0 .. s.w - 1 /\ p[2] \in 0 .. s.h - 1 /\ p = <<p[1], p[2]>>
        BY <1>1, <3>1, <3>2 DEF Source
      <3>4. Placed(o, s, p[1], p[2]) = <<q[1], q[2]>>
        BY <1>1, <3>1, <3>2 DEF Source, Placed
      <3> QED
        BY <1>2, <3>3, <3>4 DEF Pixels
    <2>2. CASE o \notin 5 .. 8
      <3>1. q[1] \in 0 .. s.w - 1 /\ q[2] \in 0 .. s.h - 1
        BY <2>2 DEF TurnedSize, Pixels
      <3>2. o # 5 /\ o # 6 /\ o # 7 /\ o # 8
        BY <2>2
      <3>3. p[1] \in 0 .. s.w - 1 /\ p[2] \in 0 .. s.h - 1 /\ p = <<p[1], p[2]>>
        BY <1>1, <3>1, <3>2 DEF Source
      <3>4. Placed(o, s, p[1], p[2]) = <<q[1], q[2]>>
        BY <1>1, <3>1, <3>2 DEF Source, Placed
      <3> QED
        BY <1>2, <3>3, <3>4 DEF Pixels
    <2> QED
      BY <2>1, <2>2
  <1> QED
    BY <1>3

\* Each of the eight cases of the switch is the row of the standard's table.
LEMMA PlacedAsShown ==
    ASSUME NEW o \in 1 .. 8, NEW s \in Size, NEW p \in Pixels(s)
    PROVE  Placed(o, s, p[1], p[2]) = Shown(o, s, p[1], p[2])
  <1>1. o = 1 \/ o = 2 \/ o = 3 \/ o = 4 \/ o = 5 \/ o = 6 \/ o = 7 \/ o = 8
    OBVIOUS
  <1> QED
    BY <1>1 DEF Placed, Shown, Row0, Col0

-----------------------------------------------------------------------------
(***************************************************************************)
(* Scaling.                                                                *)
(***************************************************************************)
\* What is lost when the short side is rounded down.
LEMMA RoundedDown ==
    ASSUME NEW a \in Nat, NEW b \in Nat \ {0}, NEW side \in Nat, a <= b
    PROVE  /\ (a * side) \div b \in 0 .. side
           /\ side * a - ((a * side) \div b) * b \in 0 .. b
  <1> DEFINE n == a * side
             q == n \div b
  <1>1. n \in Nat /\ n = side * a
    OBVIOUS
  <1>2. q \in Int /\ q * b <= n /\ n < q * b + b
    <2> HIDE DEF n
    <2>1. n = b * (n \div b) + (n % b) /\ n % b \in 0 .. b - 1 /\ n \div b \in Int
      BY <1>1
    <2>2. b * q = q * b
      BY <2>1
    <2> QED
      BY <1>1, <2>1, <2>2
  <1>3. n <= side * b
    BY <1>1
  <1> HIDE DEF q, n
  <1>4. q >= 0
    <2> SUFFICES ASSUME q < 0 PROVE FALSE
      BY <1>2
    <2>1. q + 1 <= 0
      BY <1>2
    <2>2. (q + 1) * b <= 0
      BY <1>2, <2>1
    <2> QED
      BY <1>1, <1>2, <2>2
  <1>5. q <= side
    <2> SUFFICES ASSUME q >= side + 1 PROVE FALSE
      BY <1>2
    <2>1. q * b >= (side + 1) * b
      BY <1>2
    <2> QED
      BY <1>1, <1>2, <1>3, <2>1
  <1> QED
    BY <1>1, <1>2, <1>4, <1>5 DEF n, q

\* A picture too large is scaled to its longer side, any other is left as it is.
LEMMA ScaledFits ==
    ASSUME NEW s \in Size, NEW side \in Nat \ {0}
    PROVE  /\ LongSide(ScaleTo(s, side)) = IF LongSide(s) < side THEN LongSide(s)
                                           ELSE side
           /\ Skew(ScaleTo(s, side), s) \in -LongSide(s) .. LongSide(s)
  <1>1. s.w \in Nat \ {0} /\ s.h \in Nat \ {0}
    BY DEF Size
  <1>2. CASE s.w <= side /\ s.h <= side
    <2>1. ScaleTo(s, side) = s
      BY <1>2 DEF ScaleTo
    <2>2. s.w * s.h - s.h * s.w = 0
      BY <1>1
    <2> QED
      BY <1>1, <1>2, <2>1, <2>2 DEF LongSide, Skew
  <1>3. CASE ~(s.w <= side /\ s.h <= side) /\ s.w >= s.h
    <2> DEFINE n == (s.h * side) \div s.w
    <2>1. ScaleTo(s, side) = [w |-> side, h |-> n]
      BY <1>3 DEF ScaleTo
    <2>2. n \in 0 .. side /\ side * s.h - n * s.w \in 0 .. s.w
      BY <1>1, <1>3, RoundedDown
    <2> HIDE DEF n
    <2>3. LongSide(ScaleTo(s, side)) = side
      <3>1. LongSide(ScaleTo(s, side)) = IF side > n THEN side ELSE n
        BY <2>1 DEF LongSide
      <3>2. n \in Nat /\ n <= side
        BY <2>2
      <3> QED
        BY <3>1, <3>2
    <2>4. LongSide(s) = s.w /\ ~(s.w < side)
      BY <1>1, <1>3 DEF LongSide
    <2>5. Skew(ScaleTo(s, side), s) = side * s.h - n * s.w
      BY <2>1 DEF Skew
    <2> QED
      BY <1>1, <2>2, <2>3, <2>4, <2>5
  <1>4. CASE ~(s.w <= side /\ s.h <= side) /\ ~(s.w >= s.h)
    <2> DEFINE n == (s.w * side) \div s.h
    <2>1. ScaleTo(s, side) = [w |-> n, h |-> side]
      BY <1>4 DEF ScaleTo
    <2>2. n \in 0 .. side /\ side * s.w - n * s.h \in 0 .. s.h
      <3>1. s.w <= s.h
        BY <1>1, <1>4
      <3> QED
        BY <1>1, <3>1, RoundedDown
    <2> HIDE DEF n
    <2>3. LongSide(ScaleTo(s, side)) = side
      <3>1. LongSide(ScaleTo(s, side)) = IF n > side THEN n ELSE side
        BY <2>1 DEF LongSide
      <3>2. n \in Nat /\ n <= side
        BY <2>2
      <3> QED
        BY <3>1, <3>2
    <2>4. LongSide(s) = s.h /\ ~(s.h < side)
      BY <1>1, <1>4 DEF LongSide
    <2>5. Skew(ScaleTo(s, side), s) = n * s.h - side * s.w
      <3>1. s.h * n = n * s.h /\ s.w * side = side * s.w
        BY <1>1, <2>2
      <3>2. Skew(ScaleTo(s, side), s) = n * s.h - side * s.w
        BY <2>1 DEF Skew
      <3> QED
        BY <3>1, <3>2
    <2>6. n * s.h \in Int /\ side * s.w \in Int
      BY <1>1, <2>2
    <2>7. n * s.h - side * s.w \in -s.h .. 0
      BY <1>1, <2>2, <2>6
    <2> QED
      BY <1>1, <2>3, <2>4, <2>5, <2>7
  <1> QED
    BY <1>2, <1>3, <1>4

LEMMA TurnedType ==
    ASSUME NEW o \in Nat, NEW s \in Size PROVE TurnedSize(o, s) \in Size
  BY DEF TurnedSize, Size

\* Whatever is decoded of a photo's file is a picture.
LEMMA DecodedType ==
    ASSUME TypeOK, NEW id \in PhotoIDs, lib[id] # Nil,
           NEW pic \in Decodings(lib[id], id \in Raws) \ {Nil}
    PROVE  Orientation(lib[id]) \in Nat /\ pic.size \in Size
  <1>1. lib[id] \in Files /\ (id \in Raws) \in BOOLEAN
    BY DEF TypeOK
  <1>2. pic \in Picture
    BY <1>1, FilesAssumption, DecodingsType
  <1> QED
    BY <1>1, <1>2, FilesAssumption, OrientationType DEF Picture

\* Photos are shown the way the Orientation tag says, none of their pixels lost
\* (exif.go:181-215): for files of all sizes and any value of the tag.
THEOREM TurnsAsExifSays == Spec => []TurnsLikeExif
  <1>1. TypeOK => TurnsLikeExif
    <2> SUFFICES ASSUME TypeOK, NEW id \in PhotoIDs, lib[id] # Nil,
                        NEW pic \in Decodings(lib[id], id \in Raws) \ {Nil}
                 PROVE  LET o == Orientation(lib[id])
                            s == pic.size
                        IN  /\ {Placed(o, s, p[1], p[2]) : p \in Pixels(s)}
                                  = Pixels(TurnedSize(o, s))
                            /\ o \in 1 .. 8 => \A p \in Pixels(s) :
                                  Placed(o, s, p[1], p[2]) = Shown(o, s, p[1], p[2])
      BY DEF TurnsLikeExif
    <2> DEFINE o == Orientation(lib[id])
               s == pic.size
    <2>1. o \in Nat /\ s \in Size
      BY DecodedType
    <2> HIDE DEF o, s
    <2>2. \A p \in Pixels(s) : Placed(o, s, p[1], p[2]) \in Pixels(TurnedSize(o, s))
      BY <2>1, PlacedInside
    <2>3. \A q \in Pixels(TurnedSize(o, s)) :
             \E p \in Pixels(s) : Placed(o, s, p[1], p[2]) = q
      BY <2>1, EveryPlaceFilled
    <2>4. o \in 1 .. 8 => \A p \in Pixels(s) :
             Placed(o, s, p[1], p[2]) = Shown(o, s, p[1], p[2])
      BY <2>1, PlacedAsShown
    <2>5. {Placed(o, s, p[1], p[2]) : p \in Pixels(s)} = Pixels(TurnedSize(o, s))
      BY <2>2, <2>3
    <2> QED
      BY <2>4, <2>5 DEF o, s
  <1> QED
    BY <1>1, TypeCorrect, PTL

\* Thumbnails are at most as large as asked for and keep the proportions of their
\* picture, rounded down (thumb.go:101-121).
THEOREM AllThumbsFit == Spec => []ThumbsFit
  <1>1. TypeOK => ThumbsFit
    <2> SUFFICES ASSUME TypeOK, NEW key \in Keys, lib[key[1]] # Nil
                 PROVE  ThumbFits(lib[key[1]], key[1] \in Raws, key[2])
      BY DEF ThumbsFit
    <2> DEFINE file == lib[key[1]]
               o == Orientation(file)
               side == key[2]
    <2>1. key[1] \in PhotoIDs /\ side \in Nat \ {0}
      BY KeySizes, SizesAssumption
    <2>2. ASSUME NEW pic \in Decodings(file, key[1] \in Raws) \ {Nil}
          PROVE  LET full == TurnedSize(o, pic.size)
                     thumb == Thumb(pic, o, side).size
                 IN  /\ LongSide(thumb) = IF LongSide(full) < side THEN LongSide(full)
                                          ELSE side
                     /\ Skew(thumb, full) \in -LongSide(full) .. LongSide(full)
      <3> DEFINE full == TurnedSize(o, pic.size)
      <3>1. o \in Nat /\ pic.size \in Size
        BY <2>1, <2>2, DecodedType
      <3>2. full \in Size
        BY <3>1, TurnedType
      <3>3. Thumb(pic, o, side).size = ScaleTo(full, side)
        BY DEF Thumb
      <3> HIDE DEF full, o, side
      <3>4. /\ LongSide(ScaleTo(full, side))
                  = IF LongSide(full) < side THEN LongSide(full) ELSE side
            /\ Skew(ScaleTo(full, side), full) \in -LongSide(full) .. LongSide(full)
        BY <2>1, <3>2, ScaledFits
      <3> QED
        BY <3>3, <3>4 DEF full
    <2> QED
      BY <2>2 DEF ThumbFits
  <1> QED
    BY <1>1, TypeCorrect, PTL

\* Of every photo whose RAW file has no more directories than it will visit,
\* ExtractPreview shows the largest JPEG that the file's pointers lead to, be they
\* in circles or trees, cut or too long (raw.go:57-169).
THEOREM PreviewsAreLargest == Spec => []PreviewIsLargest
  <1>1. TypeOK => PreviewIsLargest
    <2> SUFFICES ASSUME TypeOK, NEW id \in PhotoIDs, lib[id] # Nil, lib[id].tiff # Nil,
                        Cardinality(Reachable(lib[id].tiff)) <= MaxVisited
                 PROVE  Previews(lib[id].tiff) = Largest(Readable(lib[id].tiff))
      BY DEF PreviewIsLargest
    <2> DEFINE tiff == lib[id].tiff
    <2>1. lib[id] \in File
      BY FilesAssumption DEF TypeOK
    <2>2. tiff \in Tiff /\ tiff # Nil
      BY <2>1 DEF File
    <2>3. Walk(tiff).visited = Reachable(tiff)
      BY <2>2, AllVisited
    <2>4. Walk(tiff).found =
             UNION {Jpegs(tiff.dirs[off]) : off \in Whole(tiff, Reachable(tiff))}
      BY <2>2, <2>3, WalkEnds DEF Sees
    <2> HIDE DEF tiff
    <2>5. {r \in Walk(tiff).found : ReadsBack(r)} = Readable(tiff)
      BY <2>4 DEF Readable, Whole
    <2>6. Previews(tiff) = Largest(Readable(tiff))
      BY <2>2, <2>5 DEF Previews
    <2> QED BY <2>6 DEF tiff
  <1> QED BY <1>1, TypeCorrect, PTL

-----------------------------------------------------------------------------
(***************************************************************************)
(* What is cached for a photo is its picture.  A thumbnail is made in      *)
(* three reads of the name: the cache's, the orientation's and the         *)
(* picture's.  Between them the file may move to the trash directory and   *)
(* back; so what is held is compared with the file wherever it is.         *)
(***************************************************************************)
\* A thumbnail of the photo's file, in the library or in the trash directory.
MadeOf(thumb, key) ==
    \A file \in {lib[key[1]], bin[key[1]]} \ {Nil} :
        thumb \in Thumbnails(file, key[1] \in Raws, key[1] \in returned, key[2])

\* A photo's file is never in both places.
OneFile == \A id \in PhotoIDs : lib[id] = Nil \/ bin[id] = Nil

\* The orientation read is the one of the file that the picture will be read of,
\* or was read while the file was away, and then none.
TurnRead(r) ==
    (At(r, "decode") /\ Photo(r) \notin replaced) =>
        /\ lib[Photo(r)] # Nil =>
              req[r].turn \in Turned(lib[Photo(r)], Photo(r) \in returned)
        /\ bin[Photo(r)] # Nil => req[r].turn \in Turned(bin[Photo(r)], TRUE)

HoldsPicture(r) ==
    /\ (/\ req[r].pc \in {"mkdir", "create", "encode", "rename", "reopen"}
        /\ Photo(r) \notin replaced) => MadeOf(req[r].thumb, req[r].key)
    /\ (At(r, "rename") /\ temp[r] # Nil) => temp[r] = req[r].thumb

CacheMade ==
    \A key \in Keys :
        (cache[key] # Nil /\ key[1] \notin replaced) => MadeOf(cache[key], key)

OfPhotos ==
    /\ OneFile
    /\ \A r \in Requests : TurnRead(r) /\ HoldsPicture(r)
    /\ CacheMade

\* A request that was blind to the file may show it in one more way.
LEMMA BlindMore ==
    ASSUME NEW file, NEW raw, NEW side, NEW id, NEW S, NEW T, S \subseteq T
    PROVE  Thumbnails(file, raw, id \in S, side) \subseteq
           Thumbnails(file, raw, id \in T, side)
  <1>1. Turned(file, id \in S) \subseteq Turned(file, id \in T)
    BY DEF Turned
  <1> QED
    BY <1>1 DEF Thumbnails

LEMMA InitOfPhotos == Init => OfPhotos
  <1> SUFFICES ASSUME Init PROVE OfPhotos
    OBVIOUS
  <1>1. OneFile /\ CacheMade
    BY DEF Init, OneFile, CacheMade
  <1>2. \A r \in Requests : req[r].pc = "idle"
    BY DEF Init, Idle
  <1>3. \A r \in Requests : TurnRead(r) /\ HoldsPicture(r)
    BY <1>2 DEF TurnRead, HoldsPicture, At
  <1> QED
    BY <1>1, <1>3 DEF OfPhotos

\* One request takes a step that changes no file but its own.
LEMMA OneRequest ==
    ASSUME OfPhotos, NEW r \in Requests, Kept, UNCHANGED cache,
           \A q \in Requests \ {r} : req'[q] = req[q] /\ temp'[q] = temp[q],
           TurnRead(r)', HoldsPicture(r)'
    PROVE  OfPhotos'
  <1> USE DEF Kept, OfPhotos
  <1>1. OneFile' /\ CacheMade'
    BY DEF OneFile, CacheMade, MadeOf
  <1>2. ASSUME NEW q \in Requests \ {r} PROVE TurnRead(q)' /\ HoldsPicture(q)'
    <2>1. TurnRead(q) /\ HoldsPicture(q)
      OBVIOUS
    <2>2. req'[q] = req[q] /\ temp'[q] = temp[q]
      OBVIOUS
    <2> QED
      BY <2>1, <2>2 DEF TurnRead, HoldsPicture, At, Photo, MadeOf
  <1> QED
    BY <1>1, <1>2

LEMMA ServeOfPhotos ==
    ASSUME Inv, OfPhotos, NEW r \in Requests, NEW key \in Keys, Serve(r, key)
    PROVE  OfPhotos'
  <1>1. /\ req'[r].pc \in {"done", "exif"}
        /\ \A q \in Requests \ {r} : req'[q] = req[q] /\ temp'[q] = temp[q]
        /\ Kept /\ UNCHANGED cache
    BY DEF Serve, Inv, TypeOK
  <1>2. TurnRead(r)' /\ HoldsPicture(r)'
    BY <1>1 DEF TurnRead, HoldsPicture, At
  <1> QED
    BY <1>1, <1>2, OneRequest

LEMMA ReadExifOfPhotos ==
    ASSUME Inv, OfPhotos, NEW r \in Requests, ReadExif(r) PROVE OfPhotos'
  <1> DEFINE file == lib[Photo(r)]
             turn == IF file = Nil THEN 0 ELSE Orientation(file)
  <1>1. /\ req'[r] = [pc |-> "decode", key |-> req[r].key, turn |-> turn]
        /\ \A q \in Requests \ {r} : req'[q] = req[q] /\ temp'[q] = temp[q]
        /\ Kept /\ UNCHANGED cache
    BY DEF ReadExif, Inv, TypeOK
  <1>2. Photo(r) \in PhotoIDs
    <2>1. req[r].key \in Keys
      BY DEF ReadExif, Inv, TypeOK, At, Stage, Idle
    <2> QED
      BY <2>1, KeySizes DEF Photo
  <1>3. lib[Photo(r)] = Nil \/ bin[Photo(r)] = Nil
    BY <1>2 DEF OfPhotos, OneFile
  <1>4. Photo(r)' = Photo(r)
    BY <1>1 DEF Photo
  <1>5. TurnRead(r)' /\ HoldsPicture(r)'
    BY <1>1, <1>3, <1>4 DEF TurnRead, HoldsPicture, At, Kept, Turned
  <1> QED
    BY <1>1, <1>5, OneRequest

\* A request that ends holds nothing any more.
LEMMA EndedOfPhotos ==
    ASSUME Inv, OfPhotos, NEW r \in Requests, NEW answer, Answers(r, answer), Kept,
           UNCHANGED cache, temp' \in {temp, [temp EXCEPT ![r] = Nil]}
    PROVE  OfPhotos'
  <1>1. /\ req'[r].pc = "done"
        /\ \A q \in Requests \ {r} : req'[q] = req[q] /\ temp'[q] = temp[q]
    BY DEF Answers, Inv, TypeOK
  <1>2. TurnRead(r)' /\ HoldsPicture(r)'
    BY <1>1 DEF TurnRead, HoldsPicture, At
  <1> QED
    BY <1>1, <1>2, OneRequest

\* The picture is read of the file whose orientation was read.
LEMMA DecodeOfPhotos ==
    ASSUME Inv, OfPhotos, NEW r \in Requests, Decode(r) PROVE OfPhotos'
  <1> DEFINE id == Photo(r)
             file == lib[id]
  <1>1. /\ req[r] \in [pc: {"decode"}, key: Keys, turn: Nat]
        /\ id = req[r].key[1] /\ id \in PhotoIDs
    <2>1. req[r] \in [pc: {"decode"}, key: Keys, turn: Nat]
      BY DEF Inv, TypeOK, Decode, At, Stage, Idle
    <2> QED
      BY <2>1, KeySizes DEF Photo
  <1>2. Kept /\ UNCHANGED <<cache, temp>>
    BY DEF Decode
  <1>3. CASE Answers(r, Nil)
    BY <1>2, <1>3, EndedOfPhotos
  <1>4. ASSUME file # Nil, NEW pic \in Decodings(file, id \in Raws), pic # Nil,
               req' = [req EXCEPT ![r] =
                         [pc |-> "mkdir", key |-> @.key,
                          thumb |-> Thumb(pic, @.turn, @.key[2])]]
        PROVE  OfPhotos'
    <2> DEFINE thumb == Thumb(pic, req[r].turn, req[r].key[2])
    <2>1. /\ req'[r] = [pc |-> "mkdir", key |-> req[r].key, thumb |-> thumb]
          /\ \A q \in Requests \ {r} : req'[q] = req[q] /\ temp'[q] = temp[q]
      BY <1>2, <1>4 DEF Inv, TypeOK
    <2>2. TurnRead(r)'
      BY <2>1 DEF TurnRead, At
    <2>3. id \notin replaced => req[r].turn \in Turned(file, id \in returned)
      BY <1>4 DEF OfPhotos, TurnRead, Decode
    <2>4. bin[id] = Nil
      BY <1>1, <1>4 DEF OfPhotos, OneFile
    <2>5. id \notin replaced =>
             thumb \in Thumbnails(file, id \in Raws, id \in returned, req[r].key[2])
      BY <1>4, <2>3 DEF Thumbnails
    <2>6. id \notin replaced => MadeOf(thumb, req[r].key)
      BY <1>1, <2>4, <2>5 DEF MadeOf
    <2>7. HoldsPicture(r)'
      <3> HIDE DEF thumb
      <3>1. req'[r].pc = "mkdir" /\ req'[r].key = req[r].key /\ req'[r].thumb = thumb
        BY <2>1
      <3>2. Photo(r)' = id
        BY <3>1 DEF Photo
      <3>3. id \notin replaced => MadeOf(req[r].thumb, req[r].key)'
        BY <1>2, <2>6, <3>1 DEF MadeOf, Kept
      <3> QED
        BY <1>2, <3>1, <3>2, <3>3 DEF HoldsPicture, At, Kept
    <2> QED
      BY <1>2, <2>1, <2>2, <2>7, OneRequest
  <1> QED
    BY <1>3, <1>4 DEF Decode

\* From one stage to the next with the thumbnail in hand.
LEMMA GoneOn ==
    ASSUME Inv, OfPhotos, NEW r \in Requests, NEW from \in {"mkdir", "create", "encode"},
           NEW to \in {"create", "encode", "rename"},
           At(r, from), Goes(r, to), Kept, UNCHANGED cache,
           \A q \in Requests \ {r} : temp'[q] = temp[q],
           (to = "rename" /\ temp'[r] # Nil) => temp'[r] = req[r].thumb
    PROVE  OfPhotos'
  <1>1. req[r] \in [pc: {from}, key: Keys, thumb: Thumbnail]
    BY DEF Inv, TypeOK, At, Stage, Idle
  <1>2. /\ req'[r].pc = to /\ req'[r].key = req[r].key /\ req'[r].thumb = req[r].thumb
        /\ \A q \in Requests \ {r} : req'[q] = req[q]
    <2>1. req' = [req EXCEPT ![r] = [pc |-> to, key |-> req[r].key,
                                     thumb |-> req[r].thumb]]
      BY <1>1, Advance
    <2> QED
      BY <2>1 DEF Inv, TypeOK
  <1>3. TurnRead(r)'
    BY <1>2 DEF TurnRead, At
  <1>4. Photo(r) \notin replaced => MadeOf(req[r].thumb, req[r].key)
    BY DEF OfPhotos, HoldsPicture, At
  <1>5. Photo(r) \notin replaced => MadeOf(req[r].thumb, req[r].key)'
    BY <1>2, <1>4 DEF MadeOf, Kept
  <1>6. HoldsPicture(r)'
    BY <1>2, <1>5 DEF HoldsPicture, At, Photo, Kept
  <1> QED
    BY <1>2, <1>3, <1>6, OneRequest

\* What is renamed into the cache is what the request holds.
LEMMA RenameOfPhotos ==
    ASSUME Inv, OfPhotos, NEW r \in Requests, Rename(r) PROVE OfPhotos'
  <1>1. req[r] \in [pc: {"rename"}, key: Keys, thumb: Thumbnail]
    BY DEF Rename, Inv, TypeOK, At, Stage, Idle
  <1>2. CASE temp[r] = Nil
    BY <1>2, EndedOfPhotos DEF Rename
  <1>3. CASE temp[r] # Nil
    <2>1. /\ cache' = [cache EXCEPT ![req[r].key] = temp[r]]
          /\ Goes(r, "reopen") /\ Kept /\ temp' = [temp EXCEPT ![r] = Nil]
      BY <1>3 DEF Rename
    <2>2. req' = [req EXCEPT ![r] = [pc |-> "reopen", key |-> req[r].key,
                                     thumb |-> req[r].thumb]]
      BY <1>1, <2>1, Advance
    <2>3. /\ req'[r].pc = "reopen" /\ req'[r].key = req[r].key
          /\ req'[r].thumb = req[r].thumb
          /\ \A q \in Requests \ {r} : req'[q] = req[q] /\ temp'[q] = temp[q]
      BY <2>1, <2>2 DEF Inv, TypeOK
    <2>4. temp[r] = req[r].thumb /\ (Photo(r) \notin replaced =>
                                        MadeOf(req[r].thumb, req[r].key))
      BY <1>3 DEF Rename, OfPhotos, HoldsPicture, At
    <2>5. OneFile'
      BY <2>1 DEF OfPhotos, OneFile, Kept
    <2>6. \A thumb, key : MadeOf(thumb, key) <=> MadeOf(thumb, key)'
      BY <2>1 DEF MadeOf, Kept
    <2>7. ASSUME NEW q \in Requests PROVE TurnRead(q)' /\ HoldsPicture(q)'
      <3>1. TurnRead(q) /\ HoldsPicture(q)
        BY DEF OfPhotos
      <3>2. CASE q = r
        BY <2>1, <2>3, <2>4, <3>2 DEF TurnRead, HoldsPicture, At, Photo, Kept, MadeOf
      <3>3. CASE q # r
        BY <2>1, <2>3, <3>1, <3>3 DEF TurnRead, HoldsPicture, At, Photo, Kept, MadeOf
      <3> QED
        BY <3>2, <3>3
    <2>8. CacheMade'
      <3> SUFFICES ASSUME NEW key \in Keys, cache'[key] # Nil, key[1] \notin replaced'
                   PROVE  MadeOf(cache[key], key)'
        BY DEF CacheMade
      <3>1. CASE key = req[r].key
        <4>1. cache'[key] = req[r].thumb /\ Photo(r) \notin replaced
          BY <1>1, <2>1, <2>4, <3>1 DEF Inv, TypeOK, Photo, Kept
        <4>2. MadeOf(req[r].thumb, key)
          BY <2>4, <3>1, <4>1
        <4> QED
          BY <2>1, <4>1, <4>2 DEF MadeOf, Kept
      <3>2. CASE key # req[r].key
        <4>1. cache'[key] = cache[key] /\ key[1] \notin replaced
          BY <2>1, <3>2 DEF Inv, TypeOK, Kept
        <4>2. MadeOf(cache[key], key)
          BY <4>1 DEF OfPhotos, CacheMade
        <4> QED
          BY <2>1, <4>1, <4>2 DEF MadeOf, Kept
      <3> QED
        BY <3>1, <3>2
    <2> QED
      BY <2>5, <2>7, <2>8 DEF OfPhotos
  <1> QED
    BY <1>2, <1>3

LEMMA ServeThumbOfPhotos ==
    ASSUME Inv, OfPhotos, NEW r \in Requests, ServeThumb(r) PROVE OfPhotos'
  <1>1. CASE MkdirAll(r)
    BY <1>1, GoneOn DEF MkdirAll
  <1>2. CASE CreateTemp(r)
    <2>1. CASE dir
      <3>1. /\ temp' = [temp EXCEPT ![r] = [req[r].thumb EXCEPT !.whole = FALSE]]
            /\ Goes(r, "encode") /\ At(r, "create") /\ Kept /\ UNCHANGED cache
        BY <1>2, <2>1 DEF CreateTemp
      <3>2. \A q \in Requests \ {r} : temp'[q] = temp[q]
        BY <3>1 DEF Inv, TypeOK
      <3> QED
        BY <3>1, <3>2, GoneOn
    <2>2. CASE ~dir
      BY <1>2, <2>2, EndedOfPhotos DEF CreateTemp
    <2> QED
      BY <2>1, <2>2
  <1>3. CASE Encode(r)
    <2>1. CASE /\ temp' = [temp EXCEPT ![r] = IF @ = Nil THEN Nil ELSE req[r].thumb]
               /\ Goes(r, "rename")
      <3>1. /\ \A q \in Requests \ {r} : temp'[q] = temp[q]
            /\ temp'[r] # Nil => temp'[r] = req[r].thumb
        BY <2>1 DEF Inv, TypeOK
      <3>2. At(r, "encode") /\ Kept /\ UNCHANGED cache
        BY <1>3 DEF Encode
      <3> QED
        BY <2>1, <3>1, <3>2, GoneOn
    <2>2. CASE temp' = [temp EXCEPT ![r] = Nil] /\ Answers(r, Nil)
      BY <1>3, <2>2, EndedOfPhotos DEF Encode
    <2> QED
      BY <1>3, <2>1, <2>2 DEF Encode
  <1>4. CASE Reopen(r)
    BY <1>4, EndedOfPhotos DEF Reopen
  <1> QED
    BY <1>1, <1>2, <1>3, <1>4, ReadExifOfPhotos, DecodeOfPhotos, RenameOfPhotos
       DEF ServeThumb

\* The file of one photo moves.  Only the requests and thumbnails of that photo
\* notice, and only what is made of the file in its new place is left of them.
LEMMA OneFileMoved ==
    ASSUME Inv, OfPhotos, NEW id \in PhotoIDs, UNCHANGED <<cache, temp, req>>,
           replaced \subseteq replaced', returned \subseteq returned',
           lib' \in [PhotoIDs -> Files \cup {Nil}], bin' \in [PhotoIDs -> Files \cup {Nil}],
           \A other \in PhotoIDs \ {id} : lib'[other] = lib[other] /\ bin'[other] = bin[other],
           lib'[id] = Nil \/ bin'[id] = Nil,
           \/ id \in replaced'
           \/ {lib'[id], bin'[id]} \ {Nil} \subseteq {lib[id], bin[id]} \ {Nil}
              /\ \A r \in Requests : (At(r, "decode") /\ Photo(r) = id) =>
                    \/ id \in returned'
                    \/ lib'[id] = Nil
           \/ ~Held(id) /\ \A key \in Keys : key[1] = id => cache[key] = Nil
    PROVE  OfPhotos'
  <1>1. OneFile'
    BY DEF OfPhotos, OneFile
  <1>2. ASSUME NEW thumb, NEW key \in Keys, MadeOf(thumb, key),
               \/ key[1] # id
               \/ {lib'[id], bin'[id]} \ {Nil} \subseteq {lib[id], bin[id]} \ {Nil}
        PROVE  MadeOf(thumb, key)'
    <2>1. key[1] \in PhotoIDs
      BY KeySizes
    <2>2. {lib'[key[1]], bin'[key[1]]} \ {Nil} \subseteq {lib[key[1]], bin[key[1]]} \ {Nil}
      BY <1>2, <2>1
    <2>3. \A file : thumb \in Thumbnails(file, key[1] \in Raws,
                                         key[1] \in returned, key[2])
                    => thumb \in Thumbnails(file, key[1] \in Raws,
                                            key[1] \in returned', key[2])
      BY BlindMore
    <2> QED
      BY <1>2, <2>2, <2>3 DEF MadeOf
  <1>3. CacheMade'
    <2> SUFFICES ASSUME NEW key \in Keys, cache[key] # Nil, key[1] \notin replaced'
                 PROVE  MadeOf(cache[key], key)'
      BY DEF CacheMade
    <2>1. MadeOf(cache[key], key)
      BY DEF OfPhotos, CacheMade
    <2> QED
      BY <1>2, <2>1 DEF MadeOf
  <1>4. ASSUME NEW r \in Requests PROVE TurnRead(r)'
    <2> DEFINE x == Photo(r)
               turn == req[r].turn
    <2> SUFFICES ASSUME At(r, "decode"), x \notin replaced'
                 PROVE  /\ lib'[x] # Nil => turn \in Turned(lib'[x], x \in returned')
                        /\ bin'[x] # Nil => turn \in Turned(bin'[x], TRUE)
      BY DEF TurnRead, At, Photo
    <2>1. x \in PhotoIDs /\ Running(r)
      <3>1. req[r].key \in Keys
        BY DEF Inv, TypeOK, Stage, Idle, At
      <3> QED
        BY <3>1, KeySizes DEF Photo, Running, At
    <2>2. /\ lib[x] # Nil => turn \in Turned(lib[x], x \in returned)
          /\ bin[x] # Nil => turn \in Turned(bin[x], TRUE)
      BY DEF OfPhotos, TurnRead
    <2>3. CASE x # id
      BY <2>1, <2>2, <2>3 DEF Turned
    <2>4. CASE x = id
      <3>1. /\ {lib'[id], bin'[id]} \ {Nil} \subseteq {lib[id], bin[id]} \ {Nil}
            /\ id \in returned' \/ lib'[id] = Nil
        BY <2>1, <2>4 DEF Held
      <3>2. \A file \in {lib[id], bin[id]} \ {Nil} : turn \in Turned(file, TRUE)
        BY <2>2, <2>4 DEF Turned
      <3> HIDE DEF x, turn
      <3> QED
        BY <2>4, <3>1, <3>2 DEF Turned
    <2> QED
      BY <2>3, <2>4
  <1>5. ASSUME NEW r \in Requests PROVE HoldsPicture(r)'
    <2>1. HoldsPicture(r)
      BY DEF OfPhotos
    <2>2. ASSUME req[r].pc \in {"mkdir", "create", "encode", "rename", "reopen"},
                 Photo(r) \notin replaced'
          PROVE  MadeOf(req[r].thumb, req[r].key)'
      <3>1. req[r].key \in Keys /\ Running(r)
        BY <2>2 DEF Inv, TypeOK, Stage, Idle, Running
      <3>2. MadeOf(req[r].thumb, req[r].key)
        BY <2>1, <2>2 DEF HoldsPicture
      <3>3. \/ Photo(r) # id
            \/ {lib'[id], bin'[id]} \ {Nil} \subseteq {lib[id], bin[id]} \ {Nil}
        BY <2>2, <3>1 DEF Held
      <3>4. \A thumb, key : (thumb = req[r].thumb /\ key = req[r].key)
                              => MadeOf(thumb, key)'
        BY <1>2, <3>1, <3>2, <3>3 DEF Photo
      <3> QED
        BY <3>4 DEF MadeOf
    <2> QED
      BY <2>1, <2>2 DEF HoldsPicture, At, Photo
  <1> QED
    BY <1>1, <1>3, <1>4, <1>5 DEF OfPhotos

LEMMA MeanwhileOfPhotos ==
    ASSUME Inv, OfPhotos, NEW id \in PhotoIDs,
           Trash(id) \/ Restore(id) \/ \E file \in Replacements : Replace(id, file)
    PROVE  OfPhotos'
  <1>1. CASE Trash(id)
    BY <1>1, OneFileMoved DEF Trash, Inv, TypeOK
  <1>2. CASE Restore(id)
    <2>1. /\ lib' = [lib EXCEPT ![id] = bin[id]] /\ bin' = [bin EXCEPT ![id] = Nil]
          /\ returned' = IF \E r \in Requests : At(r, "decode") /\ Photo(r) = id
                         THEN returned \cup {id} ELSE returned
          /\ UNCHANGED <<cache, temp, req, replaced>>
      BY <1>2 DEF Restore
    <2>2. lib' \in [PhotoIDs -> Files \cup {Nil}] /\ bin' \in [PhotoIDs -> Files \cup {Nil}]
      BY <2>1 DEF Inv, TypeOK
    <2>3. /\ lib'[id] = bin[id] /\ bin'[id] = Nil
          /\ \A other \in PhotoIDs \ {id} : lib'[other] = lib[other] /\ bin'[other] = bin[other]
      BY <2>1 DEF Inv, TypeOK
    <2>4. /\ replaced \subseteq replaced' /\ returned \subseteq returned'
          /\ \A r \in Requests : (At(r, "decode") /\ Photo(r) = id) => id \in returned'
      BY <2>1
    <2> QED
      BY <2>1, <2>2, <2>3, <2>4, OneFileMoved
  <1>3. ASSUME NEW file \in Replacements, Replace(id, file) PROVE OfPhotos'
    <2>1. /\ lib[id] # Nil /\ lib' = [lib EXCEPT ![id] = file] /\ bin' = bin
          /\ replaced' = IF Held(id) \/ \E key \in Keys : key[1] = id /\ cache[key] # Nil
                         THEN replaced \cup {id} ELSE replaced
          /\ UNCHANGED <<cache, temp, req, returned>>
      BY <1>3 DEF Replace
    <2>2. lib' \in [PhotoIDs -> Files \cup {Nil}] /\ bin' \in [PhotoIDs -> Files \cup {Nil}]
      <3>1. file \in Files \cup {Nil}
        BY DEF Files
      <3> QED
        BY <2>1, <3>1 DEF Inv, TypeOK
    <2>3. /\ bin'[id] = Nil
          /\ \A other \in PhotoIDs \ {id} : lib'[other] = lib[other] /\ bin'[other] = bin[other]
      BY <2>1 DEF Inv, TypeOK, OfPhotos, OneFile
    <2>4. /\ replaced \subseteq replaced'
          /\ \/ id \in replaced'
             \/ ~Held(id) /\ \A key \in Keys : key[1] = id => cache[key] = Nil
      BY <2>1
    <2> QED
      BY <2>1, <2>2, <2>3, <2>4, OneFileMoved
  <1> QED
    BY <1>1, <1>2, <1>3

\* A photo whose file was replaced counts again once nothing is left of the old
\* one: no thumbnail, and no request that may bring one.
LEMMA ClearThumbsOfPhotos == ASSUME Inv, OfPhotos, ClearThumbs PROVE OfPhotos'
  <1>1. /\ cache' = [key \in Keys |-> Nil] /\ temp' = [r \in Requests |-> Nil]
        /\ UNCHANGED <<lib, bin, req>>
        /\ replaced' = {id \in replaced : Held(id)}
        /\ returned' = {id \in returned : Held(id)}
    BY DEF ClearThumbs
  <1>2. OneFile' /\ CacheMade'
    BY <1>1 DEF OfPhotos, OneFile, CacheMade
  <1>3. ASSUME NEW r \in Requests PROVE TurnRead(r)' /\ HoldsPicture(r)'
    <2>1. TurnRead(r) /\ HoldsPicture(r)
      BY DEF OfPhotos
    <2>2. Running(r) => /\ Photo(r) \in replaced => Photo(r) \in replaced'
                        /\ Photo(r) \in returned => Photo(r) \in returned'
      BY <1>1 DEF Held
    <2>3. TurnRead(r)'
      BY <1>1, <2>1, <2>2 DEF TurnRead, At, Photo, Running, Turned
    <2>4. HoldsPicture(r)'
      BY <1>1, <2>1, <2>2 DEF HoldsPicture, At, Photo, Running, MadeOf
    <2> QED
      BY <2>3, <2>4
  <1> QED
    BY <1>2, <1>3 DEF OfPhotos

LEMMA CrashOfPhotos == ASSUME Inv, OfPhotos, Crash PROVE OfPhotos'
  <1>1. /\ req' = [r \in Requests |-> IF Running(r) THEN Idle ELSE req[r]]
        /\ temp' = [r \in Requests |-> Nil]
        /\ UNCHANGED <<lib, bin, cache, replaced, returned>>
    BY DEF Crash
  <1>2. OneFile' /\ CacheMade'
    BY <1>1 DEF OfPhotos, OneFile, CacheMade, MadeOf
  <1>3. ASSUME NEW r \in Requests PROVE TurnRead(r)' /\ HoldsPicture(r)'
    <2>1. req'[r].pc \in {"idle", "done"}
      BY <1>1 DEF Idle, Running
    <2> QED
      BY <2>1 DEF TurnRead, HoldsPicture, At
  <1> QED
    BY <1>2, <1>3 DEF OfPhotos

LEMMA NextOfPhotos == Inv /\ OfPhotos /\ [Next]_vars => OfPhotos'
  <1> SUFFICES ASSUME Inv, OfPhotos, [Next]_vars PROVE OfPhotos'
    OBVIOUS
  <1>1. CASE UNCHANGED vars
    BY <1>1 DEF vars, OfPhotos, OneFile, TurnRead, HoldsPicture, CacheMade, MadeOf, At,
                Photo
  <1>2. ASSUME NEW r \in Requests, NEW id \in PhotoIDs, NEW width \in Widths,
               HandleThumb(r, id, width)
        PROVE  OfPhotos'
    BY <1>1, <1>2, AskedIsKey, ServeOfPhotos DEF HandleThumb
  <1>3. ASSUME NEW r \in Requests, NEW id \in PhotoIDs, HandleServePhoto(r, id)
        PROVE  OfPhotos'
    BY <1>3, FullIsKey, ServeOfPhotos DEF HandleServePhoto
  <1> QED
    BY <1>1, <1>2, <1>3, ServeThumbOfPhotos, MeanwhileOfPhotos, ClearThumbsOfPhotos,
       CrashOfPhotos DEF Next

\* Thumbnails are of the file of the photo they are filed under, at the size of
\* their name (thumb.go:37-82), wherever the file is moved while requests read it,
\* and turned as it says, or not at all for a photo whose file came back between
\* the two reads of a request.  Photos whose file the user replaced under a request
\* or a cached thumbnail are excused until .thumbs is deleted.
THEOREM CacheIsOfPhotos == Spec => []CachedIsOfPhoto
  <1>1. Init => OfPhotos
    BY InitOfPhotos
  <1>2. Inv /\ OfPhotos /\ [Next]_vars => OfPhotos'
    BY NextOfPhotos
  <1>3. OfPhotos => CachedIsOfPhoto
    BY DEF OfPhotos, CacheMade, MadeOf, CachedIsOfPhoto
  <1> QED
    BY <1>1, <1>2, <1>3, InvCorrect, PTL DEF Spec
=============================================================================
