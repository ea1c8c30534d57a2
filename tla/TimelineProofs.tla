---------------------------- MODULE TimelineProofs ----------------------------
(***************************************************************************)
(* The store implements Timeline, for every set of photos, clock, caps and *)
(* settings: every step of PhotoStore is a step of Timeline on the looks   *)
(* the undo stack leads back to, or a stutter.                             *)
(***************************************************************************)
EXTENDS StoreTimeline, StepProofs

(***************************************************************************)
(* The look before an entry, without its CHOOSE.                           *)
(***************************************************************************)
Saw(op) == [state |-> op.prevState, keepCount |-> op.prevKeepCount,
            unsureCount |-> op.prevUnsureCount]

NoneFrom(q, n, id) == \A i \in n .. Len(q) : ~Decides(q[i], id)

FirstFrom(q, n, id, i) ==
    /\ i \in n .. Len(q)
    /\ Decides(q[i], id)
    /\ \A k \in n .. Len(q) : Decides(q[k], id) => i <= k

LEMMA BeforeNone ==
    ASSUME NEW q, NEW look, NEW n, NEW id, look = Gone \/ NoneFrom(q, n, id)
    PROVE  LookBefore(q, look, n, id) = look
  <1> DEFINE later == {i \in n .. Len(q) : Decides(q[i], id)}
  <1>1. look # Gone => later = {}
    BY DEF NoneFrom
  <1> QED
    BY <1>1 DEF LookBefore

LEMMA BeforeFirst ==
    ASSUME NEW q \in Seq(Decision), NEW look, NEW n \in Nat, NEW id,
           look # Gone, NEW i, FirstFrom(q, n, id, i)
    PROVE  LookBefore(q, look, n, id) = Saw(q[i].ops[id])
  <1> DEFINE later == {j \in n .. Len(q) : Decides(q[j], id)}
             first == CHOOSE j \in later : \A k \in later : j <= k
  <1>1. i \in later /\ \A k \in later : i <= k /\ k \in Int
    BY DEF FirstFrom
  <1>2. first \in later /\ \A k \in later : first <= k
    BY <1>1
  <1>3. first = i
    <2> HIDE DEF first, later
    <2>1. first <= i /\ i <= first /\ first \in Int /\ i \in Int
      BY <1>1, <1>2
    <2> QED
      BY <2>1
  <1>4. LookBefore(q, look, n, id) = Saw(q[first].ops[id])
    BY <1>1 DEF LookBefore, Saw
  <1> QED
    BY <1>3, <1>4

LEMMA FirstOrNone ==
    ASSUME NEW q \in Seq(Decision), NEW n \in Nat, NEW id
    PROVE  NoneFrom(q, n, id) \/ \E i : FirstFrom(q, n, id, i)
  <1> DEFINE later == {i \in n .. Len(q) : Decides(q[i], id)}
  <1>1. CASE later = {}
    BY <1>1 DEF NoneFrom
  <1>2. CASE later # {}
    <2>1. later \in SUBSET Nat
      OBVIOUS
    <2> HIDE DEF later
    <2>2. PICK i \in later : \A k \in later : i <= k
      BY <1>2, <2>1, NatMinimum
    <2> QED
      BY <2>2 DEF FirstFrom, later
  <1> QED
    BY <1>1, <1>2

\* Two stacks that agree on the entries from n on that decide the photo.
LEMMA BeforeSame ==
    ASSUME NEW q \in Seq(Decision), NEW q2 \in Seq(Decision), NEW n \in Nat,
           NEW id, NEW look, Len(q2) = Len(q),
           \A i \in n .. Len(q) : /\ Decides(q2[i], id) <=> Decides(q[i], id)
                                  /\ q2[i].ops = q[i].ops
    PROVE  LookBefore(q2, look, n, id) = LookBefore(q, look, n, id)
  <1>1. CASE look = Gone \/ NoneFrom(q, n, id)
    <2>1. look = Gone \/ NoneFrom(q2, n, id)
      BY <1>1 DEF NoneFrom
    <2> QED
      BY <1>1, <2>1, BeforeNone
  <1>2. CASE look # Gone /\ ~NoneFrom(q, n, id)
    <2>1. PICK i : FirstFrom(q, n, id, i)
      BY <1>2, FirstOrNone
    <2>2. FirstFrom(q2, n, id, i) /\ q2[i].ops = q[i].ops
      BY <2>1 DEF FirstFrom
    <2> QED
      BY <1>2, <2>1, <2>2, BeforeFirst
  <1> QED
    BY <1>1, <1>2

-----------------------------------------------------------------------------
(***************************************************************************)
(* Looks and pasts of a store value.                                       *)
(***************************************************************************)
LEMMA LooksTyped ==
    ASSUME NEW s, StoreType(s), NEW gone
    PROVE  /\ LooksOf(s, gone) \in Timelines!Looks
           /\ \A id \in PhotoIDs :
                 /\ LooksOf(s, gone)[id] = Gone <=> id \in gone
                 /\ id \notin gone /\ Known(s, id) =>
                       /\ LooksOf(s, gone)[id] = LookOf(s.photos[id])
                       /\ LooksOf(s, gone)[id] \in Timelines!Look
                 /\ id \notin gone /\ ~Known(s, id) => LooksOf(s, gone)[id] = Nil
  <1> DEFINE L == LooksOf(s, gone)
  <1>1. \A id \in PhotoIDs : L[id] = LookNow(s, gone, id)
    BY DEF LooksOf
  <1>2. \A id \in PhotoIDs : Known(s, id) =>
           LookOf(s.photos[id]) \in Timelines!Look
    BY PhotoType DEF LookOf, Timelines!Look, Photo
  <1>3. L \in [PhotoIDs -> Timelines!Look \cup {Nil, Gone}]
    BY <1>2 DEF LooksOf, LookNow
  <1> HIDE DEF L
  <1>4. \A id \in PhotoIDs :
           /\ L[id] = Gone <=> id \in gone
           /\ id \notin gone /\ Known(s, id) =>
                 /\ L[id] = LookOf(s.photos[id])
                 /\ L[id] \in Timelines!Look
           /\ id \notin gone /\ ~Known(s, id) => L[id] = Nil
    BY <1>1, <1>2, LookAssumption DEF LookNow
  <1> QED
    BY <1>3, <1>4 DEF L, Timelines!Looks

LEMMA PastTyped ==
    ASSUME NEW s, StoreType(s), NEW gone
    PROVE  /\ HasSession(s) =>
                 /\ PastOf(s, gone) \in Seq(Timelines!Looks)
                 /\ PastOf(s, gone) # Nil
                 /\ s.session.stack \in Seq(Decision)
                 /\ DOMAIN PastOf(s, gone) = DOMAIN s.session.stack
                 /\ Len(PastOf(s, gone)) = Len(s.session.stack)
                 /\ \A n \in DOMAIN s.session.stack, id \in PhotoIDs :
                       PastOf(s, gone)[n][id] =
                          LookBefore(s.session.stack, LooksOf(s, gone)[id], n, id)
           /\ ~HasSession(s) => PastOf(s, gone) = Nil
  <1> SUFFICES ASSUME HasSession(s)
               PROVE  /\ PastOf(s, gone) \in Seq(Timelines!Looks)
                      /\ PastOf(s, gone) # Nil
                      /\ s.session.stack \in Seq(Decision)
                      /\ DOMAIN PastOf(s, gone) = DOMAIN s.session.stack
                      /\ Len(PastOf(s, gone)) = Len(s.session.stack)
                      /\ \A n \in DOMAIN s.session.stack, id \in PhotoIDs :
                            PastOf(s, gone)[n][id] =
                               LookBefore(s.session.stack,
                                          LooksOf(s, gone)[id], n, id)
    BY DEF PastOf
  <1> DEFINE q == s.session.stack
             L == LooksOf(s, gone)
             P == PastOf(s, gone)
  <1>1. /\ q \in Seq(Decision) /\ Len(q) \in Nat /\ DOMAIN q = 1 .. Len(q)
        /\ \A i \in DOMAIN q : q[i] \in Decision /\ EntryOK(q[i])
    BY LiveType DEF Live, Session
  <1>2. L \in Timelines!Looks
    BY LooksTyped
  <1>3. P = [n \in DOMAIN q |-> [id \in PhotoIDs |-> LookBefore(q, L[id], n, id)]]
    BY DEF PastOf
  <1> HIDE DEF q, L, P
  <1>4. ASSUME NEW n \in DOMAIN q, NEW id \in PhotoIDs
        PROVE  LookBefore(q, L[id], n, id) \in Timelines!Look \cup {Nil, Gone}
    <2>1. n \in Nat
      BY <1>1
    <2>2. CASE L[id] = Gone \/ NoneFrom(q, n, id)
      BY <1>2, <2>2, BeforeNone DEF Timelines!Looks
    <2>3. CASE L[id] # Gone /\ ~NoneFrom(q, n, id)
      <3>1. PICK i : FirstFrom(q, n, id, i)
        BY <1>1, <2>1, <2>3, FirstOrNone
      <3>2. q[i] \in Decision /\ EntryOK(q[i]) /\ Decides(q[i], id)
        BY <1>1, <2>1, <3>1 DEF FirstFrom
      <3>3. q[i].ops[id] \in MemberOp /\ q[i].ops[id].prevState \in States
        BY <3>2 DEF Decision, Decides, EntryOK, Touched
      <3>4. Saw(q[i].ops[id]) \in Timelines!Look
        BY <3>3 DEF Saw, Timelines!Look, MemberOp
      <3> QED
        BY <1>1, <2>1, <2>3, <3>1, <3>4, BeforeFirst
    <2> QED
      BY <2>2, <2>3
  <1>5. \A n \in DOMAIN q : P[n] \in Timelines!Looks
    BY <1>3, <1>4 DEF Timelines!Looks
  <1>6. /\ P \in Seq(Timelines!Looks) /\ DOMAIN P = DOMAIN q /\ Len(P) = Len(q)
    BY <1>1, <1>3, <1>5
  <1>7. P # Nil
    BY <1>6, LookAssumption
  <1>8. \A n \in DOMAIN q, id \in PhotoIDs : P[n][id] = LookBefore(q, L[id], n, id)
    BY <1>3
  <1> QED
    BY <1>1, <1>6, <1>7, <1>8 DEF q, L, P

\* Where session and looks stay, so does the past.
LEMMA PastSame ==
    ASSUME NEW s, NEW u, NEW gone, LooksOf(u, gone) = LooksOf(s, gone),
           HasSession(u) <=> HasSession(s),
           HasSession(s) => u.session.stack = s.session.stack
    PROVE  PastOf(u, gone) = PastOf(s, gone)
  BY DEF PastOf

-----------------------------------------------------------------------------
(***************************************************************************)
(* What each method does to looks and past.                                *)
(***************************************************************************)
\* A photo the store does not know is decided by no entry: it always was new.
LEMMA SimUpsert ==
    ASSUME NEW s, StoreType(s), NEW gone, Chained(s, PhotoIDs \ gone),
           NEW id \in PhotoIDs, NEW u, u = AfterUpsertPhoto(s, id)
    PROVE  \/ /\ LooksOf(u, gone) = LooksOf(s, gone)
              /\ PastOf(u, gone) = PastOf(s, gone)
           \/ /\ LooksOf(s, gone)[id] = Nil
              /\ LooksOf(u, gone) =
                    [LooksOf(s, gone) EXCEPT ![id] = Timelines!New]
              /\ PastOf(u, gone) =
                    Timelines!Always(PastOf(s, gone), {id}, Timelines!New)
  <1> DEFINE q == s.session.stack
             L == LooksOf(s, gone)
             L2 == LooksOf(u, gone)
             P == PastOf(s, gone)
             P2 == PastOf(u, gone)
  <1>1. /\ u.session = s.session
        /\ \A x \in PhotoIDs : x # id => u.photos[x] = s.photos[x]
        /\ Known(s, id) => u.photos[id] = s.photos[id]
        /\ ~Known(s, id) => u.photos[id] = NewPhoto
    BY DEF AfterUpsertPhoto, StoreType, PhotoTables
  <1>2. \A x \in PhotoIDs : L2[x] = LookNow(u, gone, x) /\ L[x] = LookNow(s, gone, x)
    BY DEF LooksOf
  <1>3. CASE Known(s, id) \/ id \in gone
    <2>1. L2 = L
      BY <1>1, <1>3 DEF LooksOf, LookNow, Known
    <2> QED
      BY <1>1, <2>1, PastSame DEF HasSession
  <1>4. CASE ~Known(s, id) /\ id \notin gone
    <2>1. StoreType(u)
      BY UpsertPhotoType
    <2>2. NewPhoto # Nil
      BY NilAssumption DEF NewPhoto, Photo, States
    <2>3. /\ L[id] = Nil
          /\ L2[id] = Timelines!New
          /\ \A x \in PhotoIDs : x # id => L2[x] = L[x]
      <3>1. L[id] = Nil
        BY <1>2, <1>4 DEF LookNow
      <3>2. LookNow(u, gone, id) = LookOf(NewPhoto)
        BY <1>1, <1>4, <2>2 DEF LookNow, Known
      <3>3. LookOf(NewPhoto) = Timelines!New
        BY DEF LookOf, NewPhoto, Timelines!New
      <3>4. \A x \in PhotoIDs : x # id => LookNow(u, gone, x) = LookNow(s, gone, x)
        BY <1>1 DEF LookNow, Known
      <3> HIDE DEF L, L2
      <3> QED
        BY <1>2, <3>1, <3>2, <3>3, <3>4
    <2>4. L2 = [L EXCEPT ![id] = Timelines!New]
      <3>1. /\ L2 = [x \in PhotoIDs |-> L2[x]]
            /\ L = [x \in PhotoIDs |-> L[x]]
        BY DEF LooksOf
      <3> HIDE DEF L, L2
      <3> QED
        BY <2>3, <3>1
    <2>5. CASE HasSession(s)
      <3>1. /\ q \in Seq(Decision) /\ Deciders(q, id) = {}
            /\ DOMAIN q = 1 .. Len(q)
        <4>1. StackLinked(s, id)
          BY <1>4, <2>5 DEF Chained, Linked
        <4>2. Deciders(q, id) = {}
          BY <1>4, <4>1, ChainOf
        <4>3. q \in Seq(Decision)
          BY <2>5, LiveType DEF Live, Session
        <4> QED
          BY <4>2, <4>3
      <3>2. P2 = [n \in DOMAIN q |->
                    [x \in PhotoIDs |-> LookBefore(q, L2[x], n, x)]]
        BY <1>1, <2>5 DEF PastOf, HasSession
      <3>3. P = [n \in DOMAIN q |->
                    [x \in PhotoIDs |-> LookBefore(q, L[x], n, x)]]
        BY <2>5 DEF PastOf
      <3>4. P # Nil
        BY <2>5, PastTyped
      <3>5. \A n \in DOMAIN q : NoneFrom(q, n, id)
        BY <3>1 DEF Deciders, NoneFrom
      <3> HIDE DEF q, L, L2, P, P2
      <3>6. \A n \in DOMAIN q, x \in PhotoIDs :
               LookBefore(q, L2[x], n, x) =
                  IF x \in {id} THEN Timelines!New ELSE LookBefore(q, L[x], n, x)
        BY <2>3, <3>5, BeforeNone
      <3>7. Timelines!Always(P, {id}, Timelines!New) =
               [n \in DOMAIN q |->
                  [x \in PhotoIDs |-> IF x \in {id} THEN Timelines!New
                                      ELSE LookBefore(q, L[x], n, x)]]
        BY <3>3, <3>4 DEF Timelines!Always
      <3>8. P2 = Timelines!Always(P, {id}, Timelines!New)
        BY <3>2, <3>6, <3>7
      <3> QED
        BY <2>3, <2>4, <3>8 DEF L, L2, P, P2
    <2>6. CASE ~HasSession(s)
      <3>1. P = Nil /\ P2 = Nil
        BY <1>1, <2>6 DEF PastOf, HasSession
      <3> QED
        BY <2>3, <2>4, <3>1 DEF Timelines!Always
    <2> QED
      BY <2>5, <2>6
  <1> QED
    BY <1>3, <1>4

\* A rescan takes photos away from the looks and from the past.
LEMMA SimForget ==
    ASSUME NEW s, StoreType(s), NEW u, StoreType(u), u.session = s.session,
           NEW gone, NEW all, gone \subseteq all,
           \A x \in PhotoIDs : x \notin all => u.photos[x] = s.photos[x]
    PROVE  /\ LooksOf(u, all) =
                 [x \in PhotoIDs |-> IF x \in all THEN Gone
                                     ELSE LooksOf(s, gone)[x]]
           /\ PastOf(u, all) = Timelines!Always(PastOf(s, gone), all, Gone)
  <1> DEFINE q == s.session.stack
             L == LooksOf(s, gone)
             L2 == LooksOf(u, all)
             P == PastOf(s, gone)
             P2 == PastOf(u, all)
  <1>1. L2 = [x \in PhotoIDs |-> IF x \in all THEN Gone ELSE L[x]]
    BY DEF LooksOf, LookNow, Known
  <1>2. CASE HasSession(s)
    <2>1. P2 = [n \in DOMAIN q |->
                  [x \in PhotoIDs |-> LookBefore(q, L2[x], n, x)]]
      BY <1>2 DEF PastOf, HasSession
    <2>2. P = [n \in DOMAIN q |->
                  [x \in PhotoIDs |-> LookBefore(q, L[x], n, x)]]
      BY <1>2 DEF PastOf
    <2>3. P # Nil
      BY <1>2, PastTyped
    <2> HIDE DEF q, L, L2, P, P2
    <2>4. \A n \in DOMAIN q, x \in PhotoIDs :
             LookBefore(q, L2[x], n, x) =
                IF x \in all THEN Gone ELSE LookBefore(q, L[x], n, x)
      BY <1>1, BeforeNone
    <2>5. Timelines!Always(P, all, Gone) =
             [n \in DOMAIN q |->
                [x \in PhotoIDs |-> IF x \in all THEN Gone
                                    ELSE LookBefore(q, L[x], n, x)]]
      BY <2>2, <2>3 DEF Timelines!Always
    <2>6. P2 = Timelines!Always(P, all, Gone)
      BY <2>1, <2>4, <2>5
    <2> QED
      BY <1>1, <2>6 DEF L, L2, P, P2
  <1>3. CASE ~HasSession(s)
    <2>1. P = Nil /\ P2 = Nil
      BY <1>3 DEF PastOf, HasSession
    <2> QED
      BY <1>1, <2>1 DEF Timelines!Always
  <1> QED
    BY <1>2, <1>3

\* One entry more or less on the stack: the past grows by the looks that the
\* entry saved, which are those of the store value without it.
LEMMA PastAppend ==
    ASSUME NEW s, StoreType(s), HasSession(s), NEW u, StoreType(u), HasSession(u),
           NEW gone, NEW d \in Decision,
           u.session.stack = Append(s.session.stack, d),
           \A x \in PhotoIDs :
              /\ x \notin gone /\ Decides(d, x) =>
                    LooksOf(s, gone)[x] = Saw(d.ops[x])
              /\ ~Decides(d, x) => LooksOf(u, gone)[x] = LooksOf(s, gone)[x]
    PROVE  PastOf(u, gone) = Append(PastOf(s, gone), LooksOf(s, gone))
  <1> DEFINE q == s.session.stack
             q2 == u.session.stack
             L == LooksOf(s, gone)
             L2 == LooksOf(u, gone)
             P == PastOf(s, gone)
             P2 == PastOf(u, gone)
  <1>1. /\ P \in Seq(Timelines!Looks) /\ P # Nil
        /\ q \in Seq(Decision) /\ Len(P) = Len(q)
        /\ \A n \in DOMAIN q, x \in PhotoIDs :
              P[n][x] = LookBefore(q, L[x], n, x)
    BY PastTyped
  <1>2. P2 = [n \in DOMAIN q2 |-> [x \in PhotoIDs |-> LookBefore(q2, L2[x], n, x)]]
    BY DEF PastOf
  <1>3. /\ L \in Timelines!Looks
        /\ \A x \in PhotoIDs : L[x] = Gone <=> x \in gone
    BY LooksTyped
  <1>4. /\ L2 \in Timelines!Looks
        /\ \A x \in PhotoIDs : L2[x] = Gone <=> x \in gone
    BY LooksTyped
  <1>5. /\ Len(q) \in Nat /\ DOMAIN q = 1 .. Len(q)
        /\ DOMAIN q2 = 1 .. Len(q) + 1 /\ Len(q2) = Len(q) + 1
        /\ \A i \in 1 .. Len(q) : q2[i] = q[i]
        /\ q2[Len(q) + 1] = d
        /\ q2 \in Seq(Decision)
    <2> HIDE DEF q
    <2>1. q2 = Append(q, d)
      BY DEF q
    <2> HIDE DEF q2
    <2> QED
      BY <1>1, <2>1
  <1>6. ASSUME NEW x \in PhotoIDs, ~Decides(d, x) PROVE L2[x] = L[x]
    BY <1>6
  <1>7. ASSUME NEW x \in PhotoIDs, Decides(d, x), x \notin gone
         PROVE  L[x] = Saw(d.ops[x])
    BY <1>7
  <1> HIDE DEF q, q2, L, L2, P, P2
  <1>8. ASSUME NEW x \in PhotoIDs, x \in gone PROVE L[x] = Gone /\ L2[x] = Gone
    BY <1>3, <1>4, <1>8
  <1>9. ASSUME NEW n \in DOMAIN q, NEW x \in PhotoIDs
         PROVE  LookBefore(q2, L2[x], n, x) = P[n][x]
    <2>1. P[n][x] = LookBefore(q, L[x], n, x) /\ n \in Nat
      BY <1>1, <1>5
    <2>2. CASE x \in gone
      BY <1>8, <2>1, <2>2, BeforeNone
    <2>3. CASE x \notin gone /\ ~NoneFrom(q, n, x)
      <3>1. PICK i : FirstFrom(q, n, x, i)
        BY <1>1, <2>1, <2>3, FirstOrNone
      <3>2. FirstFrom(q2, n, x, i) /\ q2[i] = q[i]
        <4>1. i \in 1 .. Len(q) /\ i \in n .. Len(q2) /\ q2[i] = q[i]
          BY <1>5, <2>1, <3>1 DEF FirstFrom
        <4>2. ASSUME NEW k \in n .. Len(q2), Decides(q2[k], x) PROVE i <= k
          <5>1. k = Len(q) + 1 \/ k \in n .. Len(q)
            BY <1>5, <2>1
          <5> QED
            BY <1>5, <2>1, <3>1, <4>1, <4>2, <5>1 DEF FirstFrom
        <4> QED
          BY <3>1, <4>1, <4>2 DEF FirstFrom
      <3>3. L[x] # Gone /\ L2[x] # Gone
        BY <1>3, <1>4, <2>3
      <3>4. LookBefore(q, L[x], n, x) = Saw(q[i].ops[x])
        BY <1>1, <2>1, <3>1, <3>3, BeforeFirst
      <3>5. LookBefore(q2, L2[x], n, x) = Saw(q2[i].ops[x])
        BY <1>5, <2>1, <3>2, <3>3, BeforeFirst
      <3> QED
        BY <2>1, <3>2, <3>4, <3>5
    <2>4. CASE x \notin gone /\ NoneFrom(q, n, x)
      <3>1. P[n][x] = L[x]
        BY <2>1, <2>4, BeforeNone
      <3>2. CASE Decides(d, x)
        <4>1. FirstFrom(q2, n, x, Len(q) + 1)
          BY <1>5, <2>1, <2>4, <3>2 DEF FirstFrom, NoneFrom
        <4>2. L2[x] # Gone
          BY <1>4, <2>4
        <4> QED
          BY <1>5, <1>7, <2>1, <2>4, <3>1, <3>2, <4>1, <4>2, BeforeFirst
      <3>3. CASE ~Decides(d, x)
        <4>1. NoneFrom(q2, n, x)
          BY <1>5, <2>1, <2>4, <3>3 DEF NoneFrom
        <4> QED
          BY <1>6, <3>1, <3>3, <4>1, BeforeNone
      <3> QED
        BY <3>2, <3>3
    <2> QED
      BY <2>2, <2>3, <2>4
  <1>10. ASSUME NEW x \in PhotoIDs
         PROVE  LookBefore(q2, L2[x], Len(q) + 1, x) = L[x]
    <2>1. Len(q) + 1 \in Nat /\ (Len(q) + 1) .. Len(q2) = {Len(q) + 1}
      BY <1>5
    <2>2. CASE x \in gone
      BY <1>8, <2>2, BeforeNone
    <2>3. CASE x \notin gone /\ Decides(d, x)
      <3>1. FirstFrom(q2, Len(q) + 1, x, Len(q) + 1)
        BY <1>5, <2>1, <2>3 DEF FirstFrom
      <3>2. L2[x] # Gone
        BY <1>4, <2>3
      <3> QED
        BY <1>5, <1>7, <2>1, <2>3, <3>1, <3>2, BeforeFirst
    <2>4. CASE x \notin gone /\ ~Decides(d, x)
      <3>1. NoneFrom(q2, Len(q) + 1, x)
        BY <1>5, <2>1, <2>4 DEF NoneFrom
      <3> QED
        BY <1>6, <2>4, <3>1, BeforeNone
    <2> QED
      BY <2>2, <2>3, <2>4
  <1>11. P2 = Append(P, L)
    <2>1. \A n \in DOMAIN q : P[n] \in Timelines!Looks
      BY <1>1, <1>5
    <2>2. ASSUME NEW n \in DOMAIN q PROVE P2[n] = P[n]
      <3>1. P2[n] = [x \in PhotoIDs |-> LookBefore(q2, L2[x], n, x)]
        BY <1>2, <1>5
      <3>2. P[n] = [x \in PhotoIDs |-> P[n][x]]
        BY <2>1 DEF Timelines!Looks
      <3> QED
        BY <1>9, <3>1, <3>2
    <2>3. P2[Len(q) + 1] = L
      <3>1. P2[Len(q) + 1] =
               [x \in PhotoIDs |-> LookBefore(q2, L2[x], Len(q) + 1, x)]
        BY <1>2, <1>5
      <3>2. L = [x \in PhotoIDs |-> L[x]]
        BY <1>3 DEF Timelines!Looks
      <3> QED
        BY <1>10, <3>1, <3>2
    <2>4. P2 \in Seq(Timelines!Looks) /\ Len(P2) = Len(q) + 1
      <3>1. \A n \in 1 .. Len(q) + 1 : P2[n] \in Timelines!Looks
        BY <1>3, <1>5, <2>1, <2>2, <2>3
      <3>2. P2 = [n \in 1 .. Len(q) + 1 |-> P2[n]]
        BY <1>2, <1>5
      <3> QED
        BY <1>5, <3>1, <3>2
    <2>5. Append(P, L) \in Seq(Timelines!Looks) /\ Len(Append(P, L)) = Len(q) + 1
      BY <1>1, <1>3
    <2>6. \A n \in 1 .. Len(q) + 1 : P2[n] = Append(P, L)[n]
      BY <1>1, <1>3, <1>5, <2>2, <2>3
    <2> QED
      BY <2>4, <2>5, <2>6, SeqEqual
  <1> QED
    BY <1>11 DEF L, P, P2

\* A recorded answer puts the looks on the past and changes some of them.
LEMMA SimPush ==
    ASSUME NEW s, StoreType(s), FifoOK(s), HasSession(s),
           NEW u, StoreType(u), PushStep(s, u), NEW gone
    PROVE  /\ PastOf(s, gone) # Nil
           /\ PastOf(u, gone) = Append(PastOf(s, gone), LooksOf(s, gone))
           /\ \A x \in PhotoIDs :
                 \/ LooksOf(u, gone)[x] = LooksOf(s, gone)[x]
                 \/ /\ LooksOf(s, gone)[x] \notin {Nil, Gone}
                    /\ LooksOf(u, gone)[x] \in
                          {Timelines!Kept(LooksOf(s, gone)[x]),
                           Timelines!Trashed(LooksOf(s, gone)[x])}
  <1> DEFINE q == s.session.stack
             q2 == u.session.stack
             L == LooksOf(s, gone)
             L2 == LooksOf(u, gone)
             P == PastOf(s, gone)
             P2 == PastOf(u, gone)
  <1>1. PICK s2, d : /\ Live(s2)
                     /\ d \in Decision
                     /\ EntryOK(d)
                     /\ s2.session.stack = s.session.stack
                     /\ DecidesFrom(s, s2, d)
                     /\ FifoFits(s2.session)
                     /\ u = Pushed(s2, d, RolledBack(d))
    BY DEF PushStep, Pushes, Prepared
  <1>2. /\ q2 = Append(q, d)
        /\ u.photos = s2.photos
        /\ Live(u)
        /\ u.session.recentlySkipped = s2.session.recentlySkipped
    <2>1. RolledBack(d) \in Nat
      BY <1>1, RolledBackType
    <2>2. /\ u.session.stack = Append(s2.session.stack, d)
          /\ u.photos = s2.photos
          /\ Live(u)
          /\ u.session.recentlySkipped = s2.session.recentlySkipped
      BY <1>1, <2>1, PushedType
    <2> QED
      BY <1>1, <2>2
  <1>3. HasSession(u)
    BY <1>1, <1>2, LiveHasSession DEF FifoFits
  <1>4. P # Nil
    BY PastTyped
  <1>6. /\ L \in Timelines!Looks
        /\ \A x \in PhotoIDs :
              /\ L[x] = Gone <=> x \in gone
              /\ x \notin gone /\ Known(s, x) =>
                    L[x] = LookOf(s.photos[x]) /\ L[x] \in Timelines!Look
              /\ x \notin gone /\ ~Known(s, x) => L[x] = Nil
    BY LooksTyped
  <1>7. /\ L2 \in Timelines!Looks
        /\ \A x \in PhotoIDs :
              /\ L2[x] = Gone <=> x \in gone
              /\ x \notin gone /\ Known(u, x) => L2[x] = LookOf(u.photos[x])
              /\ x \notin gone /\ ~Known(u, x) => L2[x] = Nil
    BY LooksTyped
  <1>8. \A x \in PhotoIDs :
           /\ Decides(d, x) =>
                 /\ Known(s, x) /\ Known(u, x)
                 /\ Saved(d.ops[x], s.photos[x])
                 /\ Left(d.ops[x], u.photos[x].state, u.photos[x].keepCount,
                         u.photos[x].unsureCount)
           /\ ~Decides(d, x) => u.photos[x] = s.photos[x]
    BY <1>1, <1>2 DEF DecidesFrom, Known
  <1> HIDE DEF L, L2
  <1>10. ASSUME NEW x \in PhotoIDs, ~Decides(d, x) PROVE L2[x] = L[x]
    BY <1>6, <1>7, <1>8, <1>10 DEF Known
  <1>11. ASSUME NEW x \in PhotoIDs, Decides(d, x), x \notin gone
         PROVE  /\ L[x] = Saw(d.ops[x])
                /\ L[x] \notin {Nil, Gone}
                /\ L2[x] \in {Timelines!Kept(L[x]), Timelines!Trashed(L[x])}
    <2>1. s.photos[x] \in Photo /\ u.photos[x] \in Photo
      BY <1>8, <1>11, PhotoType
    <2>2. L[x] = LookOf(s.photos[x]) /\ L2[x] = LookOf(u.photos[x])
      BY <1>6, <1>7, <1>8, <1>11
    <2>3. L[x] \notin {Nil, Gone}
      BY <1>6, <1>8, <1>11, LookAssumption
    <2>4. L[x] = Saw(d.ops[x])
      BY <1>8, <1>11, <2>2 DEF Saved, LookOf, Saw
    <2>5. CASE d.ops[x].newState = "kept"
      <3>a. /\ u.photos[x].state = "kept"
            /\ u.photos[x].keepCount = s.photos[x].keepCount + 1
            /\ u.photos[x].unsureCount = s.photos[x].unsureCount
        BY <1>8, <1>11, <2>1, <2>5 DEF Saved, Left, Photo
      <3>1. L2[x] = Timelines!Kept(L[x])
        BY <2>2, <3>a DEF LookOf, Timelines!Kept
      <3> QED
        BY <2>3, <2>4, <3>1
    <2>6. CASE d.ops[x].newState = "trashed"
      <3>1. L2[x] = Timelines!Trashed(L[x])
        BY <1>8, <1>11, <2>1, <2>2, <2>6
           DEF Saved, Left, LookOf, Photo, Timelines!Trashed
      <3> QED
        BY <2>3, <2>4, <3>1
    <2> QED
      BY <1>8, <1>11, <2>5, <2>6 DEF Saved
  <1>12. ASSUME NEW x \in PhotoIDs, x \in gone PROVE L[x] = Gone /\ L2[x] = Gone
    BY <1>6, <1>7, <1>12
  <1>13. P2 = Append(P, L)
    BY <1>1, <1>2, <1>3, <1>10, <1>11, PastAppend DEF L, L2
  <1> QED
    BY <1>4, <1>10, <1>11, <1>12, <1>13 DEF L, L2

\* An undo takes the last of the past and shows it: the entry it pops saved what
\* the photos were.
LEMMA SimUndo ==
    ASSUME NEW s, StoreType(s), FifoOK(s), CanUndo(s),
           NEW gone, Chained(s, PhotoIDs \ gone),
           NEW u, u = AfterUndo(s)
    PROVE  LET P == PastOf(s, gone)
           IN  /\ P \notin {Nil, <<>>}
               /\ LooksOf(u, gone) = P[Len(P)]
               /\ PastOf(u, gone) = SubSeq(P, 1, Len(P) - 1)
  <1> DEFINE q == s.session.stack
             d == Last(q)
             rest == SubSeq(q, 1, Len(q) - 1)
             L == LooksOf(s, gone)
             L2 == LooksOf(u, gone)
             P == PastOf(s, gone)
             P2 == PastOf(u, gone)
  <1>1. /\ q \in Seq(Decision) /\ q # <<>> /\ HasSession(s)
        /\ d \in Decision /\ EntryOK(d)
    BY PoppedType DEF CanUndo
  <1>2. /\ u.session.stack = rest
        /\ StoreType(u)
        /\ UndoFails(s) => u.photos = s.photos
        /\ ~UndoFails(s) => u.photos = PhotosUndone(s, d)
    BY UndoFields, Zenon
  <1>3. HasSession(u)
    BY FifoUndone
  <1>4. q = Append(rest, d) /\ rest \in Seq(Decision)
    <2> HIDE DEF q
    <2> QED
      BY <1>1 DEF Last
  <1>5. UndoFails(s) => d.kind = "decision" /\ ~Known(s, d.photo)
    BY DEF UndoFails
  <1>6. \A x \in PhotoIDs :
           /\ x \notin gone /\ Known(s, x) => L[x] = LookOf(s.photos[x])
           /\ L[x] = Gone <=> x \in gone
    BY LooksTyped
  <1>7. /\ L2 \in Timelines!Looks
        /\ \A x \in PhotoIDs :
             x \notin gone /\ Known(u, x) => L2[x] = LookOf(u.photos[x])
    BY <1>2, LooksTyped
  <1>8. ASSUME NEW x \in PhotoIDs, x \notin gone, Decides(d, x)
        PROVE  Known(s, x)
    <2>1. /\ StackLinked(s, x)
          /\ Len(q) \in Deciders(q, x)
      BY <1>1, <1>8, DecidersPopped DEF Chained, Linked
    <2> QED
      BY <2>1, ChainOf
  <1> HIDE DEF q, d, rest, L, L2, P, P2
  <1>9. ASSUME NEW x \in PhotoIDs, x \notin gone, Decides(d, x)
        PROVE  L2[x] = Saw(d.ops[x])
    <2>1. Known(s, x)
      BY <1>8, <1>9
    <2>2. ~UndoFails(s)
      BY <1>1, <1>5, <1>9, <2>1 DEF EntryOK, Touched, Decides
    <2>3. u.photos[x] = Reverted(s.photos[x], d.ops[x])
      BY <1>2, <1>9, <2>1, <2>2 DEF PhotosUndone, Decides, Touched
    <2>4. s.photos[x] \in Photo /\ d.ops[x] \in MemberOp
      BY <1>1, <1>9, <2>1, PhotoType DEF Decision, Decides
    <2>5. d.ops[x].prevState \in States
      BY <1>1, <1>9 DEF EntryOK, Touched, Decides
    <2>6. Reverted(s.photos[x], d.ops[x]) \in Photo
      BY <2>4, <2>5, RevertedType
    <2>7. Known(u, x)
      BY <2>3, <2>6, NilAssumption DEF Known
    <2>8. LookOf(Reverted(s.photos[x], d.ops[x])) = Saw(d.ops[x])
      BY <2>4 DEF LookOf, Reverted, Photo, Saw
    <2> QED
      BY <1>7, <1>9, <2>3, <2>7, <2>8
  <1>10. ASSUME NEW x \in PhotoIDs, ~Decides(d, x)
         PROVE  L[x] = L2[x]
    <2>1. u.photos[x] = s.photos[x]
      BY <1>2, <1>10 DEF PhotosUndone, Decides, Touched
    <2> QED
      BY <2>1 DEF L, L2, LooksOf, LookNow, Known
  <1>11. P = Append(P2, L2)
    BY <1>1, <1>2, <1>3, <1>4, <1>9, <1>10, PastAppend DEF q, P, P2, L, L2
  <1>12. P2 \in Seq(Timelines!Looks) /\ P \in Seq(Timelines!Looks) /\ P # Nil
    BY <1>1, <1>2, <1>3, PastTyped DEF P, P2
  <1>13. /\ P # <<>> /\ P[Len(P)] = L2
         /\ P2 = SubSeq(P, 1, Len(P) - 1)
    BY <1>7, <1>11, <1>12
  <1> QED
    BY <1>12, <1>13 DEF L2, P, P2

\* Where only the session's other fields or the settings change, nothing does.
LEMMA SimSame ==
    ASSUME NEW s, NEW u, NEW gone, u.photos = s.photos,
           HasSession(u) <=> HasSession(s),
           HasSession(s) => u.session.stack = s.session.stack
    PROVE  /\ LooksOf(u, gone) = LooksOf(s, gone)
           /\ PastOf(u, gone) = PastOf(s, gone)
  <1>1. LooksOf(u, gone) = LooksOf(s, gone)
    BY DEF LooksOf, LookNow, Known
  <1> QED
    BY <1>1, PastSame

\* A session that begins or ends leaves no past.
LEMMA SimFresh ==
    ASSUME NEW s, NEW u, StoreType(u), NEW gone, u.photos = s.photos,
           u.session = Nil \/ u.session.stack = <<>>
    PROVE  /\ LooksOf(u, gone) = LooksOf(s, gone)
           /\ PastOf(u, gone) \in {Nil, <<>>}
  <1>1. LooksOf(u, gone) = LooksOf(s, gone)
    BY DEF LooksOf, LookNow, Known
  <1>2. CASE HasSession(u)
    <2>1. u.session.stack = <<>>
      BY <1>2 DEF HasSession
    <2>2. /\ PastOf(u, gone) \in Seq(Timelines!Looks)
          /\ Len(PastOf(u, gone)) = Len(u.session.stack)
      BY <1>2, PastTyped
    <2>3. Len(PastOf(u, gone)) = 0
      BY <2>1, <2>2
    <2> QED
      BY <1>1, <2>2, <2>3, EmptySeq
  <1>3. CASE ~HasSession(u)
    BY <1>1, <1>3 DEF PastOf
  <1> QED
    BY <1>1, <1>2, <1>3

\* load reads the retired state as unsorted, in the looks; the past has none of
\* it, if the entries had none.
LEMMA SimLoaded ==
    ASSUME NEW f, StoreType(f), FifoOK(f), UnsureForgotten(f), NEW gone
    PROVE  /\ LooksOf(Loaded(f), gone) = Timelines!Read(LooksOf(f, gone))
           /\ PastOf(Loaded(f), gone) = Timelines!ReadPast(PastOf(f, gone))
  <1> DEFINE u == Loaded(f)
             q == f.session.stack
             q2 == u.session.stack
             L == LooksOf(f, gone)
             L2 == LooksOf(u, gone)
             P == PastOf(f, gone)
             P2 == PastOf(u, gone)
  <1>1. StoreType(u) /\ (f.session = Nil => u.session = Nil)
    BY LoadedFields
  <1>2. u.photos =
          [x \in PhotoIDs |->
              IF Known(f, x) /\ f.photos[x].state = "unsure"
              THEN [f.photos[x] EXCEPT !.state = "unsorted"]
              ELSE f.photos[x]]
    BY LoadedFields, Zenon
  <1>3. /\ L \in Timelines!Looks
        /\ \A x \in PhotoIDs :
              /\ L[x] = Gone <=> x \in gone
              /\ x \notin gone /\ Known(f, x) =>
                    L[x] = LookOf(f.photos[x]) /\ L[x] \in Timelines!Look
              /\ x \notin gone /\ ~Known(f, x) => L[x] = Nil
    BY LooksTyped
  <1>4. /\ L2 \in Timelines!Looks
        /\ \A x \in PhotoIDs :
              /\ L2[x] = Gone <=> x \in gone
              /\ x \notin gone /\ Known(u, x) => L2[x] = LookOf(u.photos[x])
              /\ x \notin gone /\ ~Known(u, x) => L2[x] = Nil
    BY <1>1, LooksTyped
  <1> HIDE DEF u, L, L2
  <1>5. ASSUME NEW x \in PhotoIDs
        PROVE  L2[x] = Timelines!Read(L)[x]
    <2>1. Timelines!Read(L)[x] =
             IF L[x] \notin {Nil, Gone} /\ L[x].state = "unsure"
             THEN [L[x] EXCEPT !.state = "unsorted"] ELSE L[x]
      BY DEF Timelines!Read
    <2>2. CASE x \in gone
      BY <1>3, <1>4, <2>1, <2>2
    <2>3. CASE x \notin gone /\ Known(f, x) /\ f.photos[x].state = "unsure"
      <3>1. f.photos[x] \in Photo
        BY <2>3, PhotoType
      <3>2. u.photos[x] = [f.photos[x] EXCEPT !.state = "unsorted"]
        BY <1>2, <2>3
      <3>3. [f.photos[x] EXCEPT !.state = "unsorted"] \in Photo
        BY <3>1 DEF Photo, States
      <3>4. L2[x] = LookOf(u.photos[x])
        BY <1>4, <2>3, <3>2, <3>3, NilAssumption DEF Known
      <3>5. L[x] = LookOf(f.photos[x]) /\ L[x] \notin {Nil, Gone}
        BY <1>3, <2>3, LookAssumption
      <3>6. L[x].state = "unsure"
        BY <2>3, <3>5 DEF LookOf
      <3>7. LookOf([f.photos[x] EXCEPT !.state = "unsorted"])
               = [LookOf(f.photos[x]) EXCEPT !.state = "unsorted"]
        BY <3>1 DEF LookOf, Photo
      <3> QED
        BY <2>1, <3>2, <3>4, <3>5, <3>6, <3>7
    <2>4. CASE x \notin gone /\ Known(f, x) /\ f.photos[x].state # "unsure"
      <3>1. u.photos[x] = f.photos[x] /\ Known(u, x)
        BY <1>2, <2>4 DEF Known
      <3>2. L2[x] = LookOf(u.photos[x]) /\ L[x] = LookOf(f.photos[x])
        BY <1>3, <1>4, <2>4, <3>1
      <3>3. LookOf(f.photos[x]).state # "unsure"
        BY <2>4 DEF LookOf
      <3> QED
        BY <2>1, <3>1, <3>2, <3>3
    <2>5. CASE x \notin gone /\ ~Known(f, x)
      <3>1. ~Known(u, x)
        BY <1>2, <2>5 DEF Known
      <3> QED
        BY <1>3, <1>4, <2>1, <2>5, <3>1
    <2> QED
      BY <2>2, <2>3, <2>4, <2>5
  <1>6. L2 = Timelines!Read(L)
    <2>1. L2 = [x \in PhotoIDs |-> L2[x]]
      BY <1>4 DEF Timelines!Looks
    <2>2. Timelines!Read(L) = [x \in PhotoIDs |-> Timelines!Read(L)[x]]
      BY DEF Timelines!Read
    <2> QED
      BY <1>5, <2>1, <2>2
  <1>7. CASE ~HasSession(f)
    <2>1. P = Nil /\ P2 = Nil
      BY <1>1, <1>7 DEF PastOf, HasSession, u
    <2> QED
      BY <1>6, <2>1 DEF Timelines!ReadPast, L, L2, u
  <1>8. CASE HasSession(f)
    <2>1. /\ q \in Seq(Decision) /\ P # Nil
          /\ \A n \in DOMAIN q, x \in PhotoIDs :
                P[n][x] = LookBefore(q, L[x], n, x)
      BY <1>8, PastTyped DEF L
    <2>2. /\ P = [n \in DOMAIN q |->
                     [x \in PhotoIDs |-> LookBefore(q, L[x], n, x)]]
      BY <1>8 DEF PastOf, L
    <2>3. Live(u) /\ u.session.recentlySkipped = f.session.recentlySkipped
      <3>1. f.session \in Session(f.session.recentlySkipped)
        BY <1>8, LiveType DEF Live
      <3> QED
        BY <1>8, <3>1, LoadedFields DEF HasSession, Session, u
    <2>4. HasSession(u)
      BY <1>8, <2>3, LiveHasSession DEF FifoOK
    <2>5. /\ DOMAIN q2 = DOMAIN q
          /\ \A i \in DOMAIN q : q2[i].ops = q[i].ops
          /\ \A i \in DOMAIN q : \A id : Decides(q2[i], id) <=> Decides(q[i], id)
      BY <1>8, LoadedStack DEF HasSession, u
    <2>6. P2 = [n \in DOMAIN q2 |->
                  [x \in PhotoIDs |-> LookBefore(q2, L2[x], n, x)]]
      BY <2>4 DEF PastOf, L2
    <2>7. q2 \in Seq(Decision)
      BY <2>3 DEF Live, Session
    <2>8. Len(q2) = Len(q) /\ DOMAIN q = 1 .. Len(q)
      BY <2>1, <2>5, <2>7
    <2> HIDE DEF q, q2, P, P2
    <2>9. ASSUME NEW n \in DOMAIN q, NEW x \in PhotoIDs
          PROVE  LookBefore(q2, L2[x], n, x) = Timelines!Read(P[n])[x]
      <3>1. n \in Nat /\ n .. Len(q) \subseteq DOMAIN q
        BY <2>1, <2>8
      <3>2. LookBefore(q2, L2[x], n, x) = LookBefore(q, L2[x], n, x)
        BY <2>1, <2>5, <2>7, <2>8, <3>1, BeforeSame
      <3>3. CASE L[x] = Gone \/ NoneFrom(q, n, x)
        <4>1. L2[x] = Gone \/ NoneFrom(q, n, x)
          BY <1>3, <1>4, <3>3
        <4>2. P[n][x] = L[x] /\ LookBefore(q, L2[x], n, x) = L2[x]
          BY <2>1, <3>3, <4>1, BeforeNone
        <4>3. Timelines!Read(P[n])[x] = Timelines!Read(L)[x]
          BY <4>2 DEF Timelines!Read
        <4> QED
          BY <1>5, <3>2, <4>2, <4>3
      <3>4. CASE L[x] # Gone /\ ~NoneFrom(q, n, x)
        <4>1. PICK i : FirstFrom(q, n, x, i)
          BY <2>1, <3>1, <3>4, FirstOrNone
        <4>2. L2[x] # Gone
          BY <1>3, <1>4, <3>4
        <4>3. LookBefore(q, L2[x], n, x) = Saw(q[i].ops[x])
          BY <2>1, <3>1, <4>1, <4>2, BeforeFirst
        <4>4. P[n][x] = Saw(q[i].ops[x])
          BY <2>1, <3>1, <3>4, <4>1, BeforeFirst
        <4>5. q[i].ops[x].prevState # "unsure"
          BY <1>8, <3>1, <4>1 DEF UnsureForgotten, FirstFrom, q
        <4>6. Timelines!Read(P[n])[x] = P[n][x]
          BY <4>4, <4>5 DEF Timelines!Read, Saw
        <4> QED
          BY <3>2, <4>3, <4>4, <4>6
      <3> QED
        BY <3>3, <3>4
    <2>10. P2 = Timelines!ReadPast(P)
      <3>1. DOMAIN P = DOMAIN q
        BY <2>2
      <3>2. Timelines!ReadPast(P) = [n \in DOMAIN q |-> Timelines!Read(P[n])]
        BY <2>1, <3>1 DEF Timelines!ReadPast
      <3>3. \A n \in DOMAIN q :
               Timelines!Read(P[n]) = [x \in PhotoIDs |-> Timelines!Read(P[n])[x]]
        BY DEF Timelines!Read
      <3>4. ASSUME NEW n \in DOMAIN q
            PROVE  [x \in PhotoIDs |-> LookBefore(q2, L2[x], n, x)]
                      = Timelines!Read(P[n])
        BY <2>9, <3>3
      <3> QED
        BY <2>5, <2>6, <3>2, <3>4
    <2> QED
      BY <1>6, <2>10 DEF L, L2, P, P2, u
  <1> QED
    BY <1>7, <1>8

-----------------------------------------------------------------------------
(***************************************************************************)
(* Steps.  Moves is what Timeline lets looks and past do, apart from       *)
(* rescans and restarts; then they are saved or the save fails.            *)
(***************************************************************************)
Moves(L, P, L2, P2) ==
    \/ L2 = L /\ P2 = P
    \/ \E id \in PhotoIDs :
          /\ L[id] = Nil
          /\ L2 = [L EXCEPT ![id] = Timelines!New]
          /\ P2 = Timelines!Always(P, {id}, Timelines!New)
    \/ L2 = L /\ P2 \in {Nil, <<>>}
    \/ /\ P # Nil
       /\ P2 = Append(P, L)
       /\ \A id \in PhotoIDs :
             \/ L2[id] = L[id]
             \/ /\ L[id] \notin {Nil, Gone}
                /\ L2[id] \in {Timelines!Kept(L[id]), Timelines!Trashed(L[id])}
    \/ /\ P \notin {Nil, <<>>}
       /\ L2 = P[Len(P)]
       /\ P2 = SubSeq(P, 1, Len(P) - 1)

\* The invariants a step needs.
SimInv == TypeOK /\ StackInv /\ SkipListBounded /\ UnsureInv

\* Methods that keep to Moves, recorded in memory and saved or not.
Moved ==
    /\ forgotten' = forgotten
    /\ disk' \in {mem', disk}
    /\ Moves(LooksOf(mem, forgotten), PastOf(mem, forgotten),
             LooksOf(mem', forgotten), PastOf(mem', forgotten))

LEMMA MovedIsStep == Moved => Timelines!Next \/ UNCHANGED Timelines!vars
  <1> SUFFICES ASSUME Moved PROVE Timelines!Next \/ UNCHANGED Timelines!vars
    OBVIOUS
  <1> DEFINE L == LooksOf(mem, forgotten)
             P == PastOf(mem, forgotten)
             L2 == LooksOf(mem', forgotten)
             P2 == PastOf(mem', forgotten)
             S == [looks |-> LooksOf(disk, forgotten),
                   past |-> PastOf(disk, forgotten)]
             S2 == [looks |-> LooksOf(disk', forgotten),
                    past |-> PastOf(disk', forgotten)]
  <1>1. forgotten' = forgotten /\ S2 \in {S, [looks |-> L2, past |-> P2]}
    BY DEF Moved
  <1>2. Moves(L, P, L2, P2)
    BY DEF Moved
  <1>3. LooksOf(mem, forgotten)' = L2 /\ PastOf(mem, forgotten)' = P2
    BY <1>1
  <1>4. Timelines!Saves
    BY <1>1, <1>3 DEF Timelines!Saves
  <1> HIDE DEF L, P, L2, P2
  <1>5. CASE L2 = L /\ P2 = P
    BY <1>3, <1>4, <1>5 DEF Timelines!Next, Timelines!Resaved, L, P
  <1>6. ASSUME NEW id \in PhotoIDs, L[id] = Nil,
               L2 = [L EXCEPT ![id] = Timelines!New],
               P2 = Timelines!Always(P, {id}, Timelines!New)
        PROVE  Timelines!Next
    BY <1>3, <1>4, <1>6 DEF Timelines!Next, Timelines!Scanned, L, P
  <1>7. CASE L2 = L /\ P2 \in {Nil, <<>>}
    BY <1>3, <1>4, <1>7 DEF Timelines!Next, Timelines!Session, L
  <1>8. CASE /\ P # Nil
             /\ P2 = Append(P, L)
             /\ \A id \in PhotoIDs :
                   \/ L2[id] = L[id]
                   \/ /\ L[id] \notin {Nil, Gone}
                      /\ L2[id] \in {Timelines!Kept(L[id]),
                                     Timelines!Trashed(L[id])}
    BY <1>3, <1>4, <1>8
       DEF Timelines!Next, Timelines!Answer, Timelines!Here, L, P
  <1>9. CASE /\ P \notin {Nil, <<>>}
             /\ L2 = P[Len(P)]
             /\ P2 = SubSeq(P, 1, Len(P) - 1)
    BY <1>3, <1>4, <1>9 DEF Timelines!Next, Timelines!Undo, P
  <1> QED
    BY <1>2, <1>5, <1>6, <1>7, <1>8, <1>9 DEF Moves

LEMMA CalledMoves ==
    ASSUME NEW s, StoreType(s), FifoOK(s), NEW gone,
           Chained(s, PhotoIDs \ gone), NEW t \in Nat, NEW u,
           \/ \E id \in PhotoIDs : u = AfterUpsertPhoto(s, id)
           \/ u = AfterAutoStartSession(s, t)
           \/ u = AfterEndSession(s)
           \/ HasSession(s) /\ \E delta \in Batches : u = AfterSessionExtend(s, delta)
           \/ HasSession(s) /\ PushStep(s, u)
           \/ CanUndo(s) /\ u = AfterUndo(s)
           \/ \E ns \in SettingsChoices : u = AfterUpdateSettings(s, ns)
    PROVE  Moves(LooksOf(s, gone), PastOf(s, gone),
                 LooksOf(u, gone), PastOf(u, gone))
  <1> DEFINE L == LooksOf(s, gone)
             P == PastOf(s, gone)
             L2 == LooksOf(u, gone)
             P2 == PastOf(u, gone)
  <1>a. ASSUME L2 = L, P2 = P PROVE Moves(L, P, L2, P2)
    BY <1>a DEF Moves
  <1>b. ASSUME L2 = L, P2 \in {Nil, <<>>} PROVE Moves(L, P, L2, P2)
    BY <1>b DEF Moves
  <1>1. ASSUME NEW id \in PhotoIDs, u = AfterUpsertPhoto(s, id)
        PROVE  Moves(L, P, L2, P2)
    <2>1. \/ L2 = L /\ P2 = P
          \/ /\ L[id] = Nil
             /\ L2 = [L EXCEPT ![id] = Timelines!New]
             /\ P2 = Timelines!Always(P, {id}, Timelines!New)
      BY <1>1, SimUpsert
    <2> HIDE DEF L, P, L2, P2
    <2> QED
      BY <2>1 DEF Moves
  <1>2. ASSUME u = AfterAutoStartSession(s, t) PROVE Moves(L, P, L2, P2)
    <2>1. u.session.stack = <<>> /\ u.photos = s.photos /\ StoreType(u)
      BY <1>2, StartSessionType
         DEF AfterAutoStartSession, AfterStartSession, StoreType
    <2> QED
      BY <2>1, <1>b, SimFresh
  <1>3. ASSUME u = AfterEndSession(s) PROVE Moves(L, P, L2, P2)
    <2>1. u.session = Nil /\ u.photos = s.photos
      BY <1>3 DEF AfterEndSession, StoreType
    <2>2. StoreType(u)
      BY <1>3, EndSessionType
    <2> QED
      BY <2>1, <2>2, <1>b, SimFresh
  <1>4. ASSUME HasSession(s), NEW delta \in Batches,
               u = AfterSessionExtend(s, delta)
        PROVE  Moves(L, P, L2, P2)
    <2>1. delta \in Int
      BY ConstantsAssumption
    <2>2. /\ Live(u) /\ u.session.recentlySkipped = <<>>
          /\ u.session.stack = s.session.stack /\ u.photos = s.photos
      BY <1>4, <2>1, SessionExtendType
    <2>3. HasSession(u)
      BY <2>2, LiveHasSession, EmptySeq
    <2> QED
      BY <1>4, <1>a, <2>2, <2>3, SimSame
  <1>5. ASSUME HasSession(s), PushStep(s, u) PROVE Moves(L, P, L2, P2)
    <2>1. StoreType(u)
      BY <1>5, PushStepType
    <2>2. /\ P # Nil
          /\ P2 = Append(P, L)
          /\ \A x \in PhotoIDs :
                \/ L2[x] = L[x]
                \/ /\ L[x] \notin {Nil, Gone}
                   /\ L2[x] \in {Timelines!Kept(L[x]), Timelines!Trashed(L[x])}
      BY <1>5, <2>1, SimPush
    <2> HIDE DEF L, P, L2, P2
    <2> QED
      BY <2>2 DEF Moves
  <1>6. ASSUME CanUndo(s), u = AfterUndo(s) PROVE Moves(L, P, L2, P2)
    <2>1. /\ P \notin {Nil, <<>>}
          /\ L2 = P[Len(P)]
          /\ P2 = SubSeq(P, 1, Len(P) - 1)
      BY <1>6, SimUndo
    <2> HIDE DEF L, P, L2, P2
    <2> QED
      BY <2>1 DEF Moves
  <1>7. ASSUME NEW ns \in SettingsChoices, u = AfterUpdateSettings(s, ns)
        PROVE  Moves(L, P, L2, P2)
    <2>1. u.session = s.session /\ u.photos = s.photos
      BY <1>7 DEF AfterUpdateSettings, StoreType
    <2> QED
      BY <1>a, <2>1, SimSame DEF HasSession
  <1> QED
    BY <1>1, <1>2, <1>3, <1>4, <1>5, <1>6, <1>7

\* A rescan that drops photos.
LEMMA SimDropped ==
    ASSUME TypeOK, NEW seen \in SUBSET PhotoIDs, ForgetMissing(seen)
    PROVE  Timelines!Next
  <1> DEFINE all == forgotten \cup Missing(mem, seen)
             L == LooksOf(mem, forgotten)
             P == PastOf(mem, forgotten)
             L2 == LooksOf(mem', all)
             P2 == PastOf(mem', all)
             D == LooksOf(disk, forgotten)
             Q == PastOf(disk, forgotten)
             D2 == LooksOf(disk', all)
             Q2 == PastOf(disk', all)
  <1>1. /\ StoreType(mem) /\ StoreType(disk) /\ StoreType(mem')
        /\ mem' = AfterForgetMissing(mem, seen)
        /\ disk' \in {mem', disk} /\ forgotten' = all
        /\ all \subseteq PhotoIDs /\ forgotten \subseteq all
    BY ForgetMissingType DEF TypeOK, ForgetMissing, Commit, Missing
  <1>2. /\ mem'.session = mem.session
        /\ \A x \in PhotoIDs : x \notin all => mem'.photos[x] = mem.photos[x]
    BY <1>1 DEF AfterForgetMissing, StoreType
  <1> HIDE DEF all
  <1>3. /\ L2 = [x \in PhotoIDs |-> IF x \in all THEN Gone ELSE L[x]]
        /\ P2 = Timelines!Always(P, all, Gone)
    BY <1>1, <1>2, SimForget
  <1>4. ASSUME disk' = disk
        PROVE  /\ D2 = [x \in PhotoIDs |-> IF x \in all THEN Gone ELSE D[x]]
               /\ Q2 = Timelines!Always(Q, all, Gone)
    BY <1>1, <1>4, SimForget
  <1>5. disk' = mem' => D2 = L2 /\ Q2 = P2
    OBVIOUS
  <1>6. {x \in PhotoIDs : L2[x] = Gone} = all
    <2>1. \A x \in PhotoIDs : L2[x] = Gone <=> x \in all
      BY <1>1, LooksTyped
    <2> HIDE DEF L2
    <2> QED
      BY <1>1, <2>1
  <1>7. /\ LooksOf(mem, forgotten)' = L2 /\ PastOf(mem, forgotten)' = P2
        /\ LooksOf(disk, forgotten)' = D2 /\ PastOf(disk, forgotten)' = Q2
    BY <1>1
  <1> HIDE DEF L, P, L2, P2, D, Q, D2, Q2
  <1>8. \A x \in PhotoIDs \ all : L2[x] = L[x]
    BY <1>3
  <1>9. [looks |-> D2, past |-> Q2] \in
           {[looks |-> L2, past |-> P2],
            [looks |-> [x \in PhotoIDs |-> IF x \in all THEN Gone ELSE D[x]],
             past |-> Timelines!Always(Q, all, Gone)]}
    BY <1>1, <1>4, <1>5
  <1>10. Timelines!Dropped
    BY <1>3, <1>6, <1>7, <1>8, <1>9 DEF Timelines!Dropped, L, P, D, Q
  <1> QED
    BY <1>10 DEF Timelines!Next

\* A new process, on the saved looks or, after a clean stop, on those it had.
LEMMA SimReopen ==
    ASSUME NEW f, StoreType(f), FifoOK(f), UnsureForgotten(f), Reopen(f),
           NEW from,
           from = [looks |-> LooksOf(f, forgotten), past |-> PastOf(f, forgotten)]
    PROVE  Timelines!Restart(from)
  <1> DEFINE u == Opened(f, now)
             u0 == [Loaded(f) EXCEPT !.session = Nil]
             L2 == LooksOf(u, forgotten)
             P2 == PastOf(u, forgotten)
  <1>1. /\ mem' = u /\ forgotten' = forgotten
        /\ disk' \in {u, f}
    BY DEF Reopen
  <1>2. /\ LooksOf(Loaded(f), forgotten) = Timelines!Read(from.looks)
        /\ PastOf(Loaded(f), forgotten) = Timelines!ReadPast(from.past)
    BY SimLoaded
  <1>3. u0.session = Nil /\ u0.photos = Loaded(f).photos
    <2>1. StoreType(Loaded(f))
      BY LoadedFields
    <2> QED
      BY <2>1, SessionReplaced DEF IsSession
  <1>4. L2 = Timelines!Read(from.looks)
        /\ P2 \in {Timelines!ReadPast(from.past), Nil}
    <2>1. CASE u = Loaded(f)
      BY <1>2, <2>1
    <2>2. CASE u = u0
      <3>1. LooksOf(u0, forgotten) = LooksOf(Loaded(f), forgotten)
        BY <1>3 DEF LooksOf, LookNow, Known
      <3>2. PastOf(u0, forgotten) = Nil
        BY <1>3 DEF PastOf, HasSession
      <3> QED
        BY <1>2, <2>2, <3>1, <3>2
    <2> QED
      BY <2>1, <2>2 DEF Opened
  <1> HIDE DEF u
  <1>5. LooksOf(mem, forgotten)' = L2 /\ PastOf(mem, forgotten)' = P2
    BY <1>1
  <1>6. [looks |-> LooksOf(disk', forgotten'), past |-> PastOf(disk', forgotten')]
           \in {from, [looks |-> L2, past |-> P2]}
    BY <1>1
  <1> HIDE DEF L2, P2
  <1> QED
    BY <1>4, <1>5, <1>6 DEF Timelines!Restart

LEMMA SimInit ==
    ASSUME \A f \in StateFiles : UnsureForgotten(f), Init
    PROVE  Timelines!Init
  <1>1. PICK f \in StateFiles : Start(f)
    BY DEF Init
  <1> DEFINE u == Opened(f, now)
             u0 == [Loaded(f) EXCEPT !.session = Nil]
             L2 == LooksOf(u, forgotten)
             P2 == PastOf(u, forgotten)
             S == [looks |-> LooksOf(disk, forgotten),
                   past |-> PastOf(disk, forgotten)]
  <1>2. StoreType(f) /\ FifoOK(f) /\ UnsureForgotten(f)
    BY StateFilesAssumption DEF FileOK
  <1>3. StoreType(u) /\ UnsureGone(u)
    BY <1>2, OpenedType, UnsureOpened
  <1>4. mem = u /\ StoreType(disk)
    BY <1>1, <1>2, <1>3 DEF Start
  <1>5. /\ LooksOf(Loaded(f), forgotten) = Timelines!Read(LooksOf(f, forgotten))
        /\ PastOf(Loaded(f), forgotten) = Timelines!ReadPast(PastOf(f, forgotten))
    BY <1>2, SimLoaded
  <1>6. S.looks \in Timelines!Looks /\ (S.past = Nil \/ S.past \in Seq(Timelines!Looks))
    BY <1>4, LooksTyped, PastTyped
  <1>7. CASE ~DropsSession(f, now)
    <2>1. u = Loaded(f) /\ disk = f
      BY <1>1, <1>7 DEF Opened, Start
    <2> QED
      BY <1>4, <1>5, <1>6, <2>1 DEF Timelines!Init
  <1>8. CASE DropsSession(f, now)
    <2>1. u = u0 /\ disk = u
      BY <1>1, <1>8 DEF Opened, Start
    <2>2. u0.session = Nil
      <3>1. StoreType(Loaded(f))
        BY <1>2, LoadedFields
      <3> QED
        BY <3>1, SessionReplaced DEF IsSession
    <2>3. P2 = Nil
      BY <2>1, <2>2 DEF PastOf, HasSession
    <2>4. Timelines!Read(L2) = L2
      <3>1. L2 \in Timelines!Looks
        BY <1>3, LooksTyped
      <3>2. ASSUME NEW x \in PhotoIDs, L2[x] \notin {Nil, Gone}
            PROVE  L2[x].state # "unsure"
        <4>1. x \notin forgotten /\ Known(u, x) /\ L2[x] = LookOf(u.photos[x])
          BY <1>3, <3>2, LooksTyped
        <4>2. u.photos[x].state # "unsure"
          BY <1>3, <4>1 DEF UnsureGone, NoneUnsure
        <4>3. LookOf(u.photos[x]).state = u.photos[x].state
          BY DEF LookOf
        <4> QED
          BY <4>1, <4>2, <4>3
      <3> HIDE DEF L2
      <3>3. Timelines!Read(L2) = [x \in PhotoIDs |-> L2[x]]
        BY <3>2 DEF Timelines!Read
      <3> QED
        BY <3>1, <3>3 DEF Timelines!Looks
    <2>5. LooksOf(mem, forgotten) = L2 /\ PastOf(mem, forgotten) = Nil
          /\ S.looks = L2 /\ disk = mem
      BY <1>4, <2>1, <2>3
    <2> QED
      BY <1>6, <2>4, <2>5 DEF Timelines!Init
  <1> QED
    BY <1>7, <1>8

LEMMA SimNext ==
    ASSUME SimInv, [Next]_vars
    PROVE  Timelines!Next \/ UNCHANGED Timelines!vars
  <1> DEFINE Goal == Timelines!Next \/ UNCHANGED Timelines!vars
  <1>0. /\ StoreType(mem) /\ StoreType(disk) /\ now \in 0 .. MaxNow /\ now \in Nat
        /\ FifoOK(mem) /\ FifoOK(disk)
        /\ Chained(mem, PhotoIDs \ forgotten)
        /\ UnsureForgotten(mem) /\ UnsureForgotten(disk)
    BY ConstantsAssumption
       DEF SimInv, TypeOK, StackInv, SkipListBounded, UnsureInv, UnsureGone
  <1>m. ASSUME forgotten' = forgotten, disk' \in {mem', disk},
               Moves(LooksOf(mem, forgotten), PastOf(mem, forgotten),
                     LooksOf(mem', forgotten), PastOf(mem', forgotten))
        PROVE  Goal
    BY <1>m, MovedIsStep DEF Moved
  <1> HIDE DEF Goal
  <1>c. ASSUME NEW u, StoreCall(u),
               Moves(LooksOf(mem, forgotten), PastOf(mem, forgotten),
                     LooksOf(u, forgotten), PastOf(u, forgotten))
        PROVE  Goal
    BY <1>c, <1>m DEF StoreCall, Commit
  <1>p. ASSUME NEW u, HasSession(mem), PushStep(mem, u), StoreCall(u) PROVE Goal
    BY <1>0, <1>p, <1>c, CalledMoves
  <1>1. ASSUME NEW id \in PhotoIDs, UpsertPhoto(id) PROVE Goal
    <2>1. mem' = AfterUpsertPhoto(mem, id) /\ disk' \in {mem', disk}
          /\ forgotten' = forgotten
      BY <1>1 DEF UpsertPhoto
    <2> QED
      BY <1>0, <1>m, <2>1, CalledMoves
  <1>2. ASSUME NEW seen \in SUBSET PhotoIDs, ForgetMissing(seen) PROVE Goal
    BY <1>2, SimDropped DEF SimInv, Goal
  <1>3. ASSUME AutoStartSession PROVE Goal
    BY <1>0, <1>3, <1>c, CalledMoves DEF AutoStartSession
  <1>4. ASSUME EndSession PROVE Goal
    BY <1>0, <1>4, <1>c, CalledMoves DEF EndSession
  <1>5. ASSUME NEW delta \in Batches, SessionExtend(delta) PROVE Goal
    BY <1>0, <1>5, <1>c, CalledMoves DEF SessionExtend
  <1>6. ASSUME NEW id \in PhotoIDs, NEW req \in MemberRequest,
               RecordDecision(id, req.newState, req.trashTo)
        PROVE  Goal
    <2>1. HasSession(mem) /\ CanDecide(mem, id)
      BY <1>6 DEF RecordDecision, CanDecide
    <2> QED
      BY <1>0, <1>6, <1>p, <2>1, RecordDecisionPushes DEF RecordDecision
  <1>7. ASSUME NEW id \in PhotoIDs, RecordSkip(id) PROVE Goal
    <2>1. HasSession(mem) /\ CanDecide(mem, id)
      BY <1>7 DEF RecordSkip, CanDecide
    <2> QED
      BY <1>0, <1>7, <1>p, <2>1, RecordSkipPushes DEF RecordSkip
  <1>8. ASSUME NEW clusterID \in PhotoIDs, NEW list \in MemberLists,
               SkipCluster(clusterID, list)
        PROVE  Goal
    <2>1. list \in Seq(PhotoIDs) /\ HasSession(mem)
      BY <1>8 DEF MemberLists, SkipCluster
    <2> QED
      BY <1>0, <1>8, <1>p, <2>1, SkipClusterPushes DEF SkipCluster
  <1>9. ASSUME NEW clusterID \in PhotoIDs, NEW req \in ClusterRequests,
               RecordClusterDecision(clusterID, req)
        PROVE  Goal
    <2>1. HasSession(mem) /\ CanDecideCluster(mem, req)
      BY <1>9 DEF RecordClusterDecision, CanDecideCluster
    <2> QED
      BY <1>0, <1>9, <1>p, <2>1, RecordClusterDecisionPushes
         DEF RecordClusterDecision
  <1>10. ASSUME Undo PROVE Goal
    <2>1. /\ CanUndo(mem) /\ mem' = AfterUndo(mem) /\ disk' \in {mem', disk}
          /\ forgotten' = forgotten
      BY <1>10 DEF Undo, StoreCall, Commit
    <2> QED
      BY <1>0, <1>m, <2>1, CalledMoves
  <1>11. ASSUME NEW ns \in SettingsChoices, UpdateSettings(ns) PROVE Goal
    BY <1>0, <1>11, <1>c, CalledMoves DEF UpdateSettings
  <1>12. ASSUME Crash PROVE Goal
    <2>1. Reopen(disk)
      BY <1>12 DEF Crash
    <2> QED
      BY <1>0, <2>1, SimReopen DEF Timelines!Next, Goal
  <1>13. ASSUME Shutdown PROVE Goal
    <2>1. Reopen(mem)
      BY <1>13 DEF Shutdown
    <2> QED
      BY <1>0, <2>1, SimReopen DEF Timelines!Next, Goal
  <1>14. ASSUME Tick \/ UNCHANGED vars PROVE Goal
    BY <1>14 DEF Tick, vars, Timelines!vars, Goal
  <1>15. /\ \A path \in TrashPaths :
              [newState |-> "trashed", trashTo |-> path] \in MemberRequest
         /\ [newState |-> "kept", trashTo |-> Nil] \in MemberRequest
    BY DEF MemberRequest
  <1>16. Goal
    BY <1>1, <1>2, <1>3, <1>4, <1>5, <1>6, <1>7, <1>8, <1>9, <1>10, <1>11,
       <1>12, <1>13, <1>14, <1>15 DEF Next
  <1> QED
    BY <1>16 DEF Goal

\* If the undo stack of the file a first start finds does not remember the
\* retired state, the store implements the timeline (ImplementsTimeline): an undo
\* shows every photo, state and counts, as it was before the answer it takes
\* back, whatever was decided, skipped, rescanned, restarted or lost in between.
THEOREM TimelineCorrect ==
    ASSUME \A f \in StateFiles : UnsureForgotten(f)
    PROVE  Spec => ImplementsTimeline
  <1>1. Init => SimInv
    BY TypeInit, StackInit, FifoInit, UnsureInit DEF SimInv
  <1>2. SimInv /\ [Next]_vars => SimInv'
    BY TypeNext, StackNext, FifoNext, UnsureNext DEF SimInv
  <1>3. Init => Timelines!Init
    BY SimInit
  <1>4. SimInv /\ [Next]_vars => [Timelines!Next]_(Timelines!vars)
    BY SimNext
  <1> QED
    BY <1>1, <1>2, <1>3, <1>4, PTL DEF Spec, ImplementsTimeline, Timelines!Spec
=============================================================================
