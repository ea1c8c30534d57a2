----------------------------- MODULE DupesProofs -----------------------------
(***************************************************************************)
(* Proofs about Dupes, for every table of photos, every order a stable     *)
(* sort can leave, every threshold and every window: the union-find joins  *)
(* exactly the components, and names each after its smallest photo.        *)
(*                                                                         *)
(* Neither find nor the components are reasoned about by induction: a      *)
(* claim about all photos is proved for the least photo of which it fails. *)
(***************************************************************************)
EXTENDS Dupes, FiniteSetTheorems, FunctionTheorems, NaturalsInduction,
        WellFoundedInduction, TLAPS

LEMMA LeastPhoto ==
    ASSUME NEW T \in SUBSET PhotoIDs, T # {}
    PROVE  \E x \in T : \A y \in T : x <= y
  <1> DEFINE R == OpToRel(<, Nat)
  <1>1. IsWellFoundedOn(R, Nat)
    BY NatLessThanWellFounded
  <1>2. T \subseteq Nat
    BY ConstantsAssumption
  <1>3. PICK x \in T : \A y \in T : ~(<<y, x>> \in R)
    <2> HIDE DEF R
    <2> QED BY <1>1, <1>2, WFMin
  <1>4. \A y \in T : y < x => <<y, x>> \in R
    BY <1>2 DEF OpToRel
  <1> HIDE DEF R
  <1>5. \A y \in T : x \in Nat /\ y \in Nat /\ ~(y < x)
    BY <1>2, <1>3, <1>4
  <1> QED BY <1>5

-----------------------------------------------------------------------------
(***************************************************************************)
(* The union-find.  A photo's parent is never larger than the photo, so    *)
(* that find ends.                                                         *)
(***************************************************************************)
Tree(up) == up \in [PhotoIDs -> PhotoIDs] /\ \A x \in PhotoIDs : up[x] <= x

ClosedUp(up, S) == S \in SUBSET PhotoIDs /\ \A z \in S : up[z] \in S

\* The photos find passes on its way up from x.
Above(up, x) ==
    {y \in PhotoIDs : \A S \in SUBSET PhotoIDs : x \in S /\ ClosedUp(up, S) => y \in S}

LEMMA AboveFacts ==
    ASSUME NEW up, Tree(up), NEW x \in PhotoIDs
    PROVE  /\ x \in Above(up, x)
           /\ \A y \in Above(up, x) : y \in PhotoIDs /\ up[y] \in Above(up, x)
           /\ \A S : x \in S /\ ClosedUp(up, S) => Above(up, x) \subseteq S
  BY DEF Tree, Above, ClosedUp

LEMMA RootAbove ==
    ASSUME NEW up, Tree(up), NEW x \in PhotoIDs
    PROVE  \E r \in Above(up, x) : up[r] = r
  <1>1. Above(up, x) \in SUBSET PhotoIDs /\ Above(up, x) # {}
    BY AboveFacts DEF Above
  <1>2. PICK r \in Above(up, x) : \A y \in Above(up, x) : r <= y
    BY <1>1, LeastPhoto
  <1>3. up[r] \in Above(up, x) /\ r \in PhotoIDs
    BY AboveFacts
  <1>4. up[r] <= r /\ r <= up[r] /\ r \in Nat /\ up[r] \in Nat
    BY <1>1, <1>2, <1>3, ConstantsAssumption DEF Tree
  <1> QED BY <1>4

LEMMA OneRootAbove ==
    ASSUME NEW up, Tree(up), NEW x \in PhotoIDs,
           NEW r \in Above(up, x), up[r] = r, NEW w \in Above(up, x), up[w] = w
    PROVE  r = w
  <1> DEFINE S == {y \in PhotoIDs : r \in Above(up, y)}
  <1>0. r \in PhotoIDs /\ w \in PhotoIDs
    BY DEF Above
  <1>1. ASSUME NEW y \in S PROVE up[y] \in S
    <2>1. y \in PhotoIDs /\ up[y] \in PhotoIDs /\ r \in Above(up, y)
      BY DEF Tree
    <2>2. CASE y = r
      BY <2>1, <2>2
    <2>3. CASE y # r
      <3>1. ASSUME NEW T \in SUBSET PhotoIDs, up[y] \in T, ClosedUp(up, T)
            PROVE  r \in T
        <4>1. ClosedUp(up, T \cup {y})
          BY <2>1, <3>1 DEF ClosedUp
        <4>2. r \in T \cup {y}
          BY <2>1, <4>1, AboveFacts
        <4> QED BY <2>3, <4>2
      <3>2. r \in Above(up, up[y])
        BY <1>0, <3>1 DEF Above
      <3> QED BY <2>1, <3>2
    <2> QED BY <2>2, <2>3
  <1>2. ClosedUp(up, S) /\ x \in S
    BY <1>1 DEF ClosedUp
  <1>3. w \in S
    <2> HIDE DEF S
    <2> QED BY <1>2, AboveFacts
  <1>4. ClosedUp(up, {w})
    BY <1>0 DEF ClosedUp
  <1>5. r \in {w}
    BY <1>0, <1>3, <1>4, AboveFacts
  <1> QED BY <1>5

\* find, one call of it unfolded.
LEMMA RootUnfolds ==
    ASSUME NEW up, Tree(up), NEW p \in PhotoIDs
    PROVE  Root(up, p) = IF up[p] = p THEN p ELSE Root(up, up[p])
  <1> DEFINE g == [x \in PhotoIDs |-> CHOOSE r \in Above(up, x) : up[r] = r]
             Step(f) == [x \in PhotoIDs |-> IF up[x] = x THEN x ELSE f[up[x]]]
             find == CHOOSE f : f = Step(f)
  <1>1. ASSUME NEW x \in PhotoIDs PROVE g[x] \in Above(up, x) /\ up[g[x]] = g[x]
    BY RootAbove
  <1>2. ASSUME NEW x \in PhotoIDs PROVE g[x] = IF up[x] = x THEN x ELSE g[up[x]]
    <2> HIDE DEF g
    <2>1. up[x] \in PhotoIDs
      BY DEF Tree
    <2>2. CASE up[x] = x
      BY <1>1, <2>2, AboveFacts, OneRootAbove
    <2>3. CASE up[x] # x
      <3>1. ClosedUp(up, Above(up, x)) /\ up[x] \in Above(up, x)
        BY AboveFacts DEF ClosedUp
      <3>2. Above(up, up[x]) \subseteq Above(up, x)
        BY <2>1, <3>1, AboveFacts
      <3>3. g[up[x]] \in Above(up, x) /\ up[g[up[x]]] = g[up[x]]
        BY <1>1, <2>1, <3>2
      <3>4. g[up[x]] = g[x]
        BY <1>1, <3>3, OneRootAbove
      <3> QED BY <2>3, <3>4
    <2> QED BY <2>2, <2>3
  <1>3. g = Step(g)
    <2>1. g = [x \in PhotoIDs |-> g[x]]
      OBVIOUS
    <2> HIDE DEF g
    <2> QED BY <1>2, <2>1
  <1> HIDE DEF g
  <1>4. find = Step(find)
    <2> HIDE DEF Step
    <2> QED BY <1>3
  <1>5. \A x : Root(up, x) = find[x]
    BY DEF Root
  <1> HIDE DEF find
  <1>6. up[p] \in PhotoIDs
    BY DEF Tree
  <1>7. find[p] = IF up[p] = p THEN p ELSE find[up[p]]
    BY <1>4
  <1> QED BY <1>5, <1>7

LEMMA RootFacts ==
    ASSUME NEW up, Tree(up), NEW E, ClosedUp(up, E)
    PROVE  /\ \A x \in PhotoIDs : /\ Root(up, x) \in PhotoIDs
                                  /\ up[Root(up, x)] = Root(up, x)
                                  /\ Root(up, x) <= x
           /\ \A x \in E : Root(up, x) \in E
  <1> DEFINE Good(x) == /\ Root(up, x) \in PhotoIDs
                        /\ up[Root(up, x)] = Root(up, x)
                        /\ Root(up, x) <= x
                        /\ x \in E => Root(up, x) \in E
             Bad == {x \in PhotoIDs : ~Good(x)}
  <1>1. ASSUME Bad # {} PROVE FALSE
    <2>1. PICK x \in Bad : \A y \in Bad : x <= y
      BY <1>1, LeastPhoto
    <2>2. x \in PhotoIDs /\ up[x] \in PhotoIDs /\ up[x] <= x /\ ~Good(x)
      BY <2>1 DEF Tree
    <2>3. x \in Nat /\ up[x] \in Nat
      BY <2>2, ConstantsAssumption
    <2>4. CASE up[x] = x
      <3>1. Root(up, x) = x
        BY <2>2, <2>4, RootUnfolds
      <3> QED BY <2>2, <2>3, <2>4, <3>1
    <2>5. CASE up[x] # x
      <3>1. Root(up, x) = Root(up, up[x])
        BY <2>2, <2>5, RootUnfolds
      <3>2. ~(x <= up[x])
        BY <2>2, <2>3, <2>5
      <3>3. Good(up[x])
        BY <2>1, <2>2, <3>2
      <3>4. Root(up, up[x]) \in Nat
        BY <3>3, ConstantsAssumption
      <3>5. Root(up, x) <= x
        BY <2>2, <2>3, <3>1, <3>3, <3>4
      <3>6. x \in E => up[x] \in E
        BY DEF ClosedUp
      <3> QED BY <2>2, <3>1, <3>3, <3>5, <3>6
    <2> QED BY <2>4, <2>5
  <1>2. \A x \in PhotoIDs : Good(x)
    BY <1>1
  <1>3. \A x \in E : x \in PhotoIDs
    BY DEF ClosedUp
  <1> HIDE DEF Bad
  <1> QED BY <1>2, <1>3

\* The root b hung under the root a.
LEMMA RootsHung ==
    ASSUME NEW up, Tree(up), NEW a \in PhotoIDs, up[a] = a,
           NEW b \in PhotoIDs, up[b] = b, a < b,
           NEW v \in [PhotoIDs -> PhotoIDs], v[b] = a,
           \A x \in PhotoIDs : x # b => v[x] = up[x]
    PROVE  /\ Tree(v)
           /\ \A x \in PhotoIDs :
                 Root(v, x) = IF Root(up, x) = b THEN a ELSE Root(up, x)
  <1>0. a \in Nat /\ b \in Nat /\ a # b
    BY ConstantsAssumption
  <1>2. Tree(v)
    BY <1>0 DEF Tree
  <1> DEFINE Good(x) == Root(v, x) = IF Root(up, x) = b THEN a ELSE Root(up, x)
             Bad == {x \in PhotoIDs : ~Good(x)}
  <1>3. ASSUME Bad # {} PROVE FALSE
    <2>1. PICK x \in Bad : \A y \in Bad : x <= y
      BY <1>3, LeastPhoto
    <2>2. x \in PhotoIDs /\ up[x] \in PhotoIDs /\ up[x] <= x /\ ~Good(x)
      BY <2>1 DEF Tree
    <2>3. x \in Nat /\ up[x] \in Nat
      BY <2>2, ConstantsAssumption
    <2>4. CASE x = b
      <3>1. v[a] = a
        BY <1>0
      <3>2. Root(v, a) = a
        BY <1>2, <3>1, RootUnfolds
      <3>3. Root(v, b) = a
        BY <1>0, <1>2, <3>2, RootUnfolds
      <3>4. Root(up, b) = b
        BY RootUnfolds
      <3> QED BY <2>2, <2>4, <3>3, <3>4
    <2>5. CASE x # b /\ up[x] = x
      <3>1. v[x] = x
        BY <2>2, <2>5
      <3>2. Root(up, x) = x /\ Root(v, x) = x
        BY <1>2, <2>2, <2>5, <3>1, RootUnfolds
      <3> QED BY <2>2, <2>5, <3>2
    <2>6. CASE x # b /\ up[x] # x
      <3>1. v[x] = up[x]
        BY <2>2, <2>6
      <3>2. Root(up, x) = Root(up, up[x]) /\ Root(v, x) = Root(v, up[x])
        BY <1>2, <2>2, <2>6, <3>1, RootUnfolds
      <3>3. ~(x <= up[x])
        BY <2>2, <2>3, <2>6
      <3>4. Good(up[x])
        BY <2>1, <2>2, <3>3
      <3> QED BY <2>2, <3>2, <3>4
    <2> QED BY <2>4, <2>5, <2>6
  <1>4. \A x \in PhotoIDs : Good(x)
    BY <1>3
  <1> HIDE DEF Bad
  <1> QED BY <1>2, <1>4

\* The root of x after p and q were joined.
Merged(p, q, x) ==
    IF Find(x) \in {Find(p), Find(q)}
    THEN IF Find(p) < Find(q) THEN Find(p) ELSE Find(q)
    ELSE Find(x)

LEMMA UnionJoins ==
    ASSUME Tree(parent), NEW E, ClosedUp(parent, E), NEW p \in E, NEW q \in E
    PROVE  /\ Tree(Union(p, q)) /\ ClosedUp(Union(p, q), E)
           /\ \A x \in PhotoIDs : Root(Union(p, q), x) = Merged(p, q, x)
  <1> DEFINE a == Find(p)
             b == Find(q)
  <1>1. /\ a \in E /\ a \in PhotoIDs /\ parent[a] = a
        /\ b \in E /\ b \in PhotoIDs /\ parent[b] = b
    <2>1. p \in PhotoIDs /\ q \in PhotoIDs
      BY DEF ClosedUp
    <2> QED BY <2>1, RootFacts DEF Find
  <1>2. a \in Nat /\ b \in Nat
    BY <1>1, ConstantsAssumption
  <1>3. \A x : Find(x) = Root(parent, x)
    BY DEF Find
  <1> HIDE DEF a, b
  <1>4. Union(p, q) = IF a < b THEN [parent EXCEPT ![b] = a]
                      ELSE [parent EXCEPT ![a] = b]
    BY DEF Union, a, b
  <1>5. \A x : Merged(p, q, x) = IF Root(parent, x) \in {a, b}
                                 THEN IF a < b THEN a ELSE b
                                 ELSE Root(parent, x)
    BY <1>3 DEF Merged, a, b
  <1>6. ASSUME NEW r \in {a, b}, NEW w \in {a, b}
        PROVE  ClosedUp([parent EXCEPT ![r] = w], E)
    BY <1>1 DEF ClosedUp, Tree
  <1>7. CASE a < b
    <2> DEFINE v == [parent EXCEPT ![b] = a]
    <2>1. /\ v \in [PhotoIDs -> PhotoIDs] /\ v[b] = a
          /\ \A x \in PhotoIDs : x # b => v[x] = parent[x]
          /\ ClosedUp(v, E)
      BY <1>1, <1>6 DEF Tree
    <2>2. Union(p, q) = v
      BY <1>4, <1>7
    <2> HIDE DEF v
    <2>3. /\ Tree(v)
          /\ \A x \in PhotoIDs :
                Root(v, x) = IF Root(parent, x) = b THEN a ELSE Root(parent, x)
      BY <1>1, <1>7, <2>1, RootsHung
    <2> QED BY <1>5, <1>7, <2>1, <2>2, <2>3
  <1>8. CASE b < a
    <2> DEFINE v == [parent EXCEPT ![a] = b]
    <2>1. /\ v \in [PhotoIDs -> PhotoIDs] /\ v[a] = b
          /\ \A x \in PhotoIDs : x # a => v[x] = parent[x]
          /\ ClosedUp(v, E)
      BY <1>1, <1>6 DEF Tree
    <2>2. Union(p, q) = v /\ ~(a < b)
      BY <1>2, <1>4, <1>8
    <2> HIDE DEF v
    <2>3. /\ Tree(v)
          /\ \A x \in PhotoIDs :
                Root(v, x) = IF Root(parent, x) = a THEN b ELSE Root(parent, x)
      BY <1>1, <1>8, <2>1, RootsHung
    <2> QED BY <1>5, <2>1, <2>2, <2>3
  <1>9. CASE a = b
    <2>1. Union(p, q) = [parent EXCEPT ![a] = a]
      BY <1>2, <1>4, <1>9
    <2>2. Union(p, q) = parent
      BY <1>1, <2>1 DEF Tree
    <2> QED BY <1>2, <1>5, <1>9, <2>2
  <1> QED BY <1>2, <1>7, <1>8, <1>9

-----------------------------------------------------------------------------
(***************************************************************************)
(* The components.                                                         *)
(***************************************************************************)
LEMMA AlikeSymmetric ==
    ASSUME photos \in [PhotoIDs -> Photo]
    PROVE  \A p, q \in Eligible(photos) : Alike(p, q) <=> Alike(q, p)
  <1> SUFFICES ASSUME NEW p \in Eligible(photos), NEW q \in Eligible(photos), Alike(p, q)
               PROVE  Alike(q, p)
    OBVIOUS
  <1>1. Distance(photos[p].hash, photos[q].hash) = Distance(photos[q].hash, photos[p].hash)
    <2> DEFINE a == photos[p].hash
               b == photos[q].hash
    <2>1. (a \ b) \cup (b \ a) = (b \ a) \cup (a \ b)
      OBVIOUS
    <2>2. Cardinality((a \ b) \cup (b \ a)) = Cardinality((b \ a) \cup (a \ b))
      BY <2>1
    <2> QED BY <2>2 DEF Distance
  <1>2. Close(q, p)
    BY <1>1 DEF Alike, Close
  <1>3. TakenTogether(q, p)
    <2> DEFINE a == photos[p].time
               b == photos[q].time
    <2>1. TakenTogether(p, q)
      BY DEF Alike
    <2>2. a \in Nat /\ b \in Nat
      BY ConstantsAssumption DEF Eligible, Photo
    <2>3. window <= 0 \/ a = 0 \/ b = 0 \/ (IF a < b THEN b - a ELSE a - b) <= window
      BY <2>1 DEF TakenTogether, Gap
    <2>4. (IF a < b THEN b - a ELSE a - b) = IF b < a THEN a - b ELSE b - a
      BY <2>2
    <2> QED BY <2>3, <2>4 DEF TakenTogether, Gap
  <1> QED BY <1>2, <1>3 DEF Alike

LEMMA ComponentFacts ==
    ASSUME NEW p \in Eligible(photos)
    PROVE  /\ p \in Component(p)
           /\ Component(p) \in SUBSET Eligible(photos)
           /\ ClosedUnderAlike(Component(p))
           /\ \A S \in SUBSET Eligible(photos) :
                 p \in S /\ ClosedUnderAlike(S) => Component(p) \subseteq S
  BY DEF Component, ClosedUnderAlike

LEMMA ComponentShared ==
    ASSUME photos \in [PhotoIDs -> Photo],
           NEW p \in Eligible(photos), NEW q \in Component(p)
    PROVE  Component(q) = Component(p)
  <1> DEFINE rest == Eligible(photos) \ Component(q)
  <1>1. q \in Eligible(photos) /\ Component(p) \in SUBSET Eligible(photos)
    BY ComponentFacts
  <1>2. Component(q) \subseteq Component(p)
    BY <1>1, ComponentFacts
  <1>3. p \in Component(q)
    <2> SUFFICES ASSUME p \notin Component(q) PROVE FALSE
      OBVIOUS
    <2>1. ClosedUnderAlike(rest)
      <3>1. ClosedUnderAlike(Component(q)) /\ Component(q) \in SUBSET Eligible(photos)
        BY <1>1, ComponentFacts
      <3> HIDE DEF rest
      <3>2. \A x : x \in rest <=> x \in Eligible(photos) /\ x \notin Component(q)
        BY DEF rest
      <3> QED BY <3>1, <3>2, AlikeSymmetric DEF ClosedUnderAlike
    <2>2. Component(p) \subseteq rest
      BY <2>1, ComponentFacts
    <2> QED BY <1>1, <2>2, ComponentFacts
  <1>4. Component(p) \subseteq Component(q)
    BY <1>1, <1>3, ComponentFacts
  <1> QED BY <1>2, <1>4

-----------------------------------------------------------------------------
(***************************************************************************)
(* The invariant: the row lists the eligible photos in the order of their  *)
(* times; no photo has left its component; and the alike pairs the two     *)
(* loops have passed are joined, those a break skipped among them.         *)
(***************************************************************************)
Passed(m, n) == m < n /\ (m < i \/ (m = i /\ n < j))

InsideComponents == \A p \in Eligible(photos) : Component(Find(p)) = Component(p)

PassedJoined ==
    \A m, n \in 1 .. Len(row) :
        Passed(m, n) /\ Alike(row[m], row[n]) => Find(row[m]) = Find(row[n])

IInv ==
    /\ TypeOK /\ i \in Nat /\ j \in Nat
    /\ row \in SortedByTime(photos, Eligible(photos))
    /\ Tree(parent) /\ ClosedUp(parent, Eligible(photos))
    /\ InsideComponents
    /\ PassedJoined

LEMMA RowFacts ==
    ASSUME row \in SortedByTime(photos, Eligible(photos))
    PROVE  /\ Len(row) \in Nat /\ row \in Seq(Eligible(photos))
           /\ \A m \in 1 .. Len(row) : row[m] \in Eligible(photos)
           /\ \A m, n \in 1 .. Len(row) :
                 m < n => photos[row[m]].time <= photos[row[n]].time
           /\ \A p \in Eligible(photos) : \E m \in 1 .. Len(row) : row[m] = p
  <1> DEFINE E == Eligible(photos)
             k == Cardinality(E)
  <1>1. IsFiniteSet(E) /\ k \in Nat
    <2>1. E \in SUBSET PhotoIDs
      BY DEF Eligible
    <2>2. IsFiniteSet(E)
      BY <2>1, FS_Subset, ConstantsAssumption
    <2> QED BY <2>2, FS_CardinalityType
  <1>2. /\ row \in [1 .. k -> E]
        /\ \A m, n \in 1 .. k : row[m] = row[n] => m = n
        /\ \A m, n \in 1 .. k : m < n => photos[row[m]].time <= photos[row[n]].time
    BY DEF SortedByTime
  <1> HIDE DEF k, E
  <1>3. row \in Seq(E) /\ Len(row) = k
    BY <1>1, <1>2
  <1>4. row \in Injection(1 .. k, E)
    BY <1>2 DEF Injection, IsInjective
  <1>5. IsFiniteSet(1 .. k) /\ Cardinality(1 .. k) = k
    BY <1>1, FS_Interval
  <1>6. row \in Surjection(1 .. k, E)
    BY <1>1, <1>4, <1>5, FS_Injection DEF k
  <1>7. \A p \in E : \E m \in 1 .. k : row[m] = p
    BY <1>6 DEF Surjection
  <1> QED BY <1>1, <1>2, <1>3, <1>7 DEF E

LEMMA InitInv == Init => IInv
  <1> SUFFICES ASSUME Init PROVE IInv
    OBVIOUS
  <1> DEFINE E == Eligible(photos)
  <1>1. photos \in [PhotoIDs -> Photo]
    BY ConstantsAssumption DEF Init, Photo
  <1>2. row \in SortedByTime(photos, E) /\ i = 1 /\ j = 2
    BY DEF Init
  <1>3. /\ parent \in [PhotoIDs -> PhotoIDs]
        /\ \A x \in PhotoIDs : parent[x] = x
    BY DEF Init
  <1>4. TypeOK
    <2>1. Len(row) \in Nat /\ row \in Seq(E)
      BY <1>2, RowFacts
    <2>2. Done \/ (i \in 1 .. Len(row) /\ j \in i + 1 .. Len(row) + 1)
      BY <1>2, <2>1 DEF Done
    <2> QED BY <1>1, <1>3, <2>1, <2>2 DEF TypeOK, Init
  <1>5. Tree(parent)
    BY <1>3, ConstantsAssumption DEF Tree
  <1>6. ClosedUp(parent, E) /\ \A x \in E : x \in PhotoIDs
    BY <1>3 DEF ClosedUp, Eligible
  <1>7. \A x \in E : Find(x) = x
    BY <1>3, <1>5, <1>6, RootUnfolds DEF Find
  <1>8. InsideComponents
    BY <1>7 DEF InsideComponents
  <1>9. PassedJoined
    BY <1>2, RowFacts DEF PassedJoined, Passed
  <1> QED BY <1>2, <1>4, <1>5, <1>6, <1>8, <1>9 DEF IInv

\* A pair in the row that is not too far apart was taken together.
LEMMA NotTooFar ==
    ASSUME TypeOK, row \in SortedByTime(photos, Eligible(photos)),
           NEW m \in 1 .. Len(row), NEW n \in 1 .. Len(row), m < n,
           ~TooFar(row[m], row[n])
    PROVE  TakenTogether(row[m], row[n])
  <1> DEFINE a == photos[row[m]].time
             b == photos[row[n]].time
  <1>1. a \in Nat /\ b \in Nat /\ window \in Int
    <2>1. row[m] \in PhotoIDs /\ row[n] \in PhotoIDs
      BY RowFacts DEF Eligible
    <2> QED BY <2>1, ConstantsAssumption DEF TypeOK, Photo
  <1>2. a <= b
    BY RowFacts
  <1>3. ~(window > 0) \/ a = 0 \/ b = 0 \/ ~(b - a > window)
    BY DEF TooFar
  <1>4. Gap(row[m], row[n]) = IF a < b THEN b - a ELSE a - b
    BY DEF Gap
  <1> HIDE DEF a, b
  <1>5. window <= 0 \/ a = 0 \/ b = 0 \/ Gap(row[m], row[n]) <= window
    BY <1>1, <1>2, <1>3, <1>4
  <1> QED BY <1>5 DEF TakenTogether, a, b

\* Once a pair is too far apart, so are the pairs further along the row.
LEMMA TooFarOnwards ==
    ASSUME TypeOK, row \in SortedByTime(photos, Eligible(photos)),
           NEW m \in 1 .. Len(row), NEW n \in 1 .. Len(row), m < n,
           TooFar(row[m], row[n]),
           NEW k \in 1 .. Len(row), n <= k
    PROVE  ~Alike(row[m], row[k])
  <1> DEFINE a == photos[row[m]].time
             b == photos[row[n]].time
             c == photos[row[k]].time
  <1>1. a \in Nat /\ b \in Nat /\ c \in Nat /\ window \in Int
    <2>1. row[m] \in PhotoIDs /\ row[n] \in PhotoIDs /\ row[k] \in PhotoIDs
      BY RowFacts DEF Eligible
    <2> QED BY <2>1, ConstantsAssumption DEF TypeOK, Photo
  <1>2. b <= c
    <2>1. n = k \/ n < k
      BY RowFacts
    <2>2. CASE n = k
      BY <1>1, <2>2
    <2>3. CASE n < k
      BY <2>3, RowFacts
    <2> QED BY <2>1, <2>2, <2>3
  <1>3. window > 0 /\ a # 0 /\ b # 0 /\ b - a > window
    BY DEF TooFar
  <1>4. Gap(row[m], row[k]) = IF a < c THEN c - a ELSE a - c
    BY DEF Gap
  <1> HIDE DEF a, b, c
  <1>5. ~(window <= 0) /\ a # 0 /\ c # 0 /\ ~(Gap(row[m], row[k]) <= window)
    BY <1>1, <1>2, <1>3, <1>4
  <1> QED BY <1>5 DEF Alike, TakenTogether, a, c

\* Joining an alike pair keeps every photo in its component.
LEMMA JoinedInside ==
    ASSUME TypeOK, Tree(parent), ClosedUp(parent, Eligible(photos)), InsideComponents,
           NEW p \in Eligible(photos), NEW q \in Eligible(photos), Alike(p, q),
           NEW x \in Eligible(photos)
    PROVE  Component(Merged(p, q, x)) = Component(x)
  <1>1. /\ Component(Find(p)) = Component(p) /\ Component(Find(q)) = Component(q)
        /\ Component(Find(x)) = Component(x)
    BY DEF InsideComponents
  <1>2. Component(p) = Component(q)
    <2>1. q \in Component(p)
      BY ComponentFacts DEF ClosedUnderAlike
    <2> QED BY <2>1, ComponentShared DEF TypeOK
  <1> QED BY <1>1, <1>2 DEF Merged

LEMMA NextInv == IInv /\ [Next]_vars => IInv'
  <1> SUFFICES ASSUME IInv, [Next]_vars PROVE IInv'
    OBVIOUS
  <1> DEFINE E == Eligible(photos)
  <1>1. /\ TypeOK /\ row \in SortedByTime(photos, E) /\ i \in Nat /\ j \in Nat
        /\ Tree(parent) /\ ClosedUp(parent, E) /\ InsideComponents /\ PassedJoined
    BY DEF IInv
  <1>3. ASSUME Compare \/ NextRow \/ UNCHANGED vars
        PROVE  /\ photos' = photos /\ threshold' = threshold /\ window' = window
               /\ row' = row /\ Eligible(photos)' = E
               /\ \A p, q : Alike(p, q)' <=> Alike(p, q)
               /\ \A p : Component(p)' = Component(p)
    <2>1. photos' = photos /\ threshold' = threshold /\ window' = window /\ row' = row
      BY <1>3 DEF Compare, NextRow, input, vars
    <2> QED BY <2>1 DEF Eligible, Alike, Close, TakenTogether, Gap, Component,
               ClosedUnderAlike
  <1>2. CASE UNCHANGED vars
    <2>1. i' = i /\ j' = j /\ parent' = parent
      BY <1>2 DEF vars
    <2>2. \A x : Find(x)' = Find(x)
      BY <2>1 DEF Find
    <2>3. InsideComponents'
      BY <1>1, <1>2, <1>3, <2>2 DEF InsideComponents
    <2>4. PassedJoined'
      BY <1>1, <1>2, <1>3, <2>1, <2>2 DEF PassedJoined, Passed
    <2>5. TypeOK'
      BY <1>1, <1>2, <1>3, <2>1 DEF TypeOK, Done
    <2> QED BY <1>1, <1>2, <1>3, <2>1, <2>3, <2>4, <2>5 DEF IInv
  <1>4. CASE Compare
    <2> DEFINE p == row[i]
               q == row[j]
    <2>1. /\ ~Done /\ i \in 1 .. Len(row) /\ j \in i + 1 .. Len(row) /\ Len(row) \in Nat
          /\ i' = i /\ j' = j + 1 /\ ~TooFar(p, q)
          /\ parent' = IF Close(p, q) THEN Union(p, q) ELSE parent
      <3>1. Len(row) \in Nat
        BY <1>1, RowFacts
      <3>2. i < Len(row) /\ j <= Len(row) /\ ~Done
        BY <1>1, <1>4, <3>1 DEF Compare, Compares, Done
      <3>3. i \in 1 .. Len(row) /\ j \in i + 1 .. Len(row) + 1
        BY <1>1, <3>2 DEF TypeOK
      <3>4. j \in i + 1 .. Len(row)
        BY <1>1, <3>1, <3>2, <3>3
      <3>5. /\ i' = i /\ j' = j + 1 /\ ~TooFar(p, q)
            /\ parent' = IF Close(p, q) THEN Union(p, q) ELSE parent
        BY <1>4 DEF Compare
      <3> QED BY <3>1, <3>2, <3>3, <3>4, <3>5
    <2>2. p \in E /\ q \in E /\ TakenTogether(p, q)
      <3>1. j \in 1 .. Len(row) /\ i < j
        BY <2>1
      <3>2. TakenTogether(p, q)
        BY <1>1, <2>1, <3>1, NotTooFar
      <3> QED BY <1>1, <2>1, <3>1, <3>2, RowFacts
    <2> HIDE DEF p, q
    <2>3. Close(p, q) <=> Alike(p, q)
      BY <2>2 DEF Alike
    <2>4. /\ Tree(parent') /\ ClosedUp(parent', E)
          /\ \A x \in PhotoIDs : Find(x)' = IF Close(p, q) THEN Merged(p, q, x) ELSE Find(x)
      <3>1. CASE Close(p, q)
        BY <1>1, <2>1, <2>2, <3>1, UnionJoins DEF Find
      <3>2. CASE ~Close(p, q)
        BY <1>1, <2>1, <3>2 DEF Find
      <3> QED BY <3>1, <3>2
    <2>5. E \in SUBSET PhotoIDs
      BY DEF Eligible
    <2>6. InsideComponents'
      <3>1. ASSUME NEW x \in E PROVE Component(Find(x)') = Component(x)
        BY <1>1, <2>2, <2>3, <2>4, <2>5, JoinedInside DEF InsideComponents
      <3> QED BY <1>3, <1>4, <3>1 DEF InsideComponents
    <2>7. PassedJoined'
      <3> SUFFICES ASSUME NEW m \in 1 .. Len(row), NEW n \in 1 .. Len(row),
                          Passed(m, n)', Alike(row[m], row[n])
                   PROVE  Find(row[m])' = Find(row[n])'
        BY <1>3, <1>4 DEF PassedJoined
      <3>0. row' = row
        BY <1>3, <1>4
      <3>1. Passed(m, n) \/ (row[m] = p /\ row[n] = q)
        BY <2>1 DEF Passed, p, q
      <3>2. row[m] \in PhotoIDs /\ row[n] \in PhotoIDs
        BY <1>1, <2>5, RowFacts
      <3>3. CASE Passed(m, n)
        <4>1. Find(row[m]) = Find(row[n])
          BY <1>1, <3>3 DEF PassedJoined
        <4> QED BY <2>4, <3>0, <3>2, <4>1 DEF Merged
      <3>4. CASE row[m] = p /\ row[n] = q
        BY <2>3, <2>4, <3>0, <3>2, <3>4 DEF Merged
      <3> QED BY <3>1, <3>3, <3>4
    <2>8. TypeOK'
      BY <1>1, <1>3, <1>4, <2>1, <2>4 DEF TypeOK, Done, Tree
    <2> QED BY <1>1, <1>3, <1>4, <2>1, <2>4, <2>6, <2>7, <2>8 DEF IInv
  <1>5. CASE NextRow
    <2>1. /\ ~Done /\ i \in 1 .. Len(row) /\ j \in i + 1 .. Len(row) + 1
          /\ Len(row) \in Nat /\ i < Len(row)
          /\ i' = i + 1 /\ j' = i + 2 /\ parent' = parent
          /\ j <= Len(row) => TooFar(row[i], row[j])
      BY <1>1, <1>5, RowFacts DEF NextRow, Done, TypeOK
    <2>2. \A x : Find(x)' = Find(x)
      BY <2>1 DEF Find
    <2>3. InsideComponents'
      BY <1>1, <1>3, <1>5, <2>2 DEF InsideComponents
    <2>4. PassedJoined'
      <3> SUFFICES ASSUME NEW m \in 1 .. Len(row), NEW n \in 1 .. Len(row),
                          Passed(m, n)', Alike(row[m], row[n])
                   PROVE  Find(row[m]) = Find(row[n])
        BY <1>3, <1>5, <2>2 DEF PassedJoined
      <3>1. m < n /\ (Passed(m, n) \/ (m = i /\ j <= n))
        BY <2>1 DEF Passed
      <3>2. CASE m = i /\ j <= n
        <4>1. j \in 1 .. Len(row) /\ m < j /\ TooFar(row[m], row[j])
          BY <2>1, <3>2
        <4> QED BY <1>1, <3>2, <4>1, TooFarOnwards
      <3> QED BY <1>1, <3>1, <3>2 DEF PassedJoined
    <2>5. TypeOK'
      BY <1>1, <1>3, <1>5, <2>1 DEF TypeOK, Done
    <2> QED BY <1>1, <1>3, <1>5, <2>1, <2>3, <2>4, <2>5 DEF IInv
  <1> QED BY <1>2, <1>4, <1>5 DEF Next

THEOREM Invariant == Spec => []IInv
  BY InitInv, NextInv, PTL DEF Spec

\* The photos handed in stay as they are, and each pair is one of two photos,
\* in every behaviour (TypeOK).
THEOREM TypeCorrect == Spec => []TypeOK
  <1>1. IInv => TypeOK
    BY DEF IInv
  <1> QED BY <1>1, Invariant, PTL

LEMMA RootsAreSmallest ==
    ASSUME IInv, NEW p \in Eligible(photos)
    PROVE  /\ Find(p) \in Eligible(photos) /\ Find(p) \in Members(Find(p))
           /\ \A q \in Members(Find(p)) : Find(p) <= q
           /\ Members(Find(p)) \subseteq Component(p)
  <1>1. /\ Tree(parent) /\ ClosedUp(parent, Eligible(photos)) /\ InsideComponents
        /\ photos \in [PhotoIDs -> Photo]
    BY DEF IInv, TypeOK
  <1>2. \A q \in Eligible(photos) : q \in PhotoIDs
    BY DEF Eligible
  <1>3. ASSUME NEW q \in Eligible(photos)
        PROVE  /\ Find(q) \in Eligible(photos) /\ Find(q) <= q
               /\ parent[Find(q)] = Find(q)
    BY <1>1, <1>2, RootFacts DEF Find
  <1>4. Find(Find(p)) = Find(p)
    BY <1>1, <1>2, <1>3, RootUnfolds DEF Find
  <1>5. Find(p) \in Members(Find(p))
    BY <1>3, <1>4 DEF Members
  <1>6. ASSUME NEW q \in Members(Find(p)) PROVE Find(p) <= q /\ q \in Component(p)
    <2>1. q \in Eligible(photos) /\ Find(q) = Find(p)
      BY DEF Members
    <2>2. Component(q) = Component(p)
      BY <1>1, <2>1 DEF InsideComponents
    <2> QED BY <1>3, <2>1, <2>2, ComponentFacts
  <1> QED BY <1>3, <1>5, <1>6

\* However far the loops have come, no group of the union-find reaches out of a
\* component, and each is named by its smallest photo (OnlyAlikeJoined).
THEOREM JoinsOnlyAlike == Spec => []OnlyAlikeJoined
  <1>1. ASSUME IInv PROVE OnlyAlikeJoined
    <2>1. ASSUME NEW S \in SUBSET Eligible(photos), ClosedUnderAlike(S), NEW p \in S
          PROVE  Members(Find(p)) \subseteq S
      BY <1>1, <2>1, RootsAreSmallest, ComponentFacts
    <2> QED BY <1>1, <2>1, RootsAreSmallest DEF OnlyAlikeJoined
  <1> QED BY <1>1, Invariant, PTL

\* When the loops end the groups are the components (ClustersAreComponents):
\* breaking off a row at the first pair out of the window loses no alike pair,
\* in whatever order photos of one time come, and the same photos have the same
\* cluster ids in every run.
THEOREM FindsComponents == Spec => []ClustersAreComponents
  <1>1. ASSUME IInv, Done, NEW p \in Eligible(photos)
        PROVE  Component(p) \subseteq Members(Find(p))
    <2> DEFINE S == Members(Find(p))
    <2>1. p \in S /\ S \in SUBSET Eligible(photos)
      BY DEF Members
    <2>2. ASSUME NEW a \in S, NEW b \in Eligible(photos) \ S, Alike(a, b)
          PROVE  FALSE
      <3>1. /\ row \in SortedByTime(photos, Eligible(photos)) /\ PassedJoined
            /\ photos \in [PhotoIDs -> Photo] /\ i \in Nat
        BY <1>1 DEF IInv, TypeOK
      <3>2. /\ a \in Eligible(photos) /\ Find(a) = Find(p)
            /\ b \in Eligible(photos) /\ Find(b) # Find(p)
        BY DEF Members
      <3>3. PICK m \in 1 .. Len(row), n \in 1 .. Len(row) : row[m] = a /\ row[n] = b
        BY <3>1, <3>2, RowFacts
      <3>4. Alike(b, a)
        BY <2>2, <3>1, <3>2, AlikeSymmetric
      <3>5. m # n /\ Len(row) \in Nat
        BY <3>1, <3>2, <3>3, RowFacts
      <3>6. Len(row) <= i
        BY <1>1, <3>1, <3>5 DEF Done
      <3>7. Passed(m, n) \/ Passed(n, m)
        BY <3>1, <3>5, <3>6 DEF Passed
      <3> QED BY <2>2, <3>1, <3>2, <3>3, <3>4, <3>7 DEF PassedJoined
    <2>3. ClosedUnderAlike(S)
      BY <2>2 DEF ClosedUnderAlike
    <2> QED BY <2>1, <2>3, ComponentFacts
  <1>2. ASSUME IInv PROVE ClustersAreComponents
    BY <1>1, <1>2, RootsAreSmallest DEF ClustersAreComponents
  <1> QED BY <1>2, Invariant, PTL
=============================================================================
