------------------------------ MODULE StepProofs ------------------------------
(***************************************************************************)
(* More that a store value keeps, for every set of photos, clock, caps and *)
(* settings: the list of skipped photos stays within its cap, the retired  *)
(* state does not come back, a trashed photo stays trashed until it is     *)
(* decided or undone, the undo stack is a chain for every photo, and an    *)
(* undo right after a call gives back what the call changed.               *)
(*                                                                         *)
(* Every step installs in memory, and perhaps in the file, the result of   *)
(* one method or of opening a file (StepCalls); what is proved of the      *)
(* results then holds of the steps.                                        *)
(***************************************************************************)
EXTENDS PhotoStoreProofs

\* The results of the methods on s at time t.
Called(s, u, t) ==
    \/ \E id \in PhotoIDs : u = AfterUpsertPhoto(s, id)
    \/ \E seen \in SUBSET PhotoIDs : u = AfterForgetMissing(s, seen)
    \/ u = AfterAutoStartSession(s, t)
    \/ u = AfterEndSession(s)
    \/ HasSession(s) /\ \E delta \in Batches : u = AfterSessionExtend(s, delta)
    \/ HasSession(s) /\ PushStep(s, u)
    \/ CanUndo(s) /\ u = AfterUndo(s)
    \/ \E ns \in SettingsChoices : u = AfterUpdateSettings(s, ns)

StepKinds ==
    \/ Called(mem, mem', now) /\ disk' \in {mem', disk}
    \/ \E f \in {mem, disk} : mem' = Opened(f, now) /\ disk' \in {mem', f}
    \/ mem' = mem /\ disk' = disk

LEMMA StepCalls == TypeOK /\ [Next]_vars => StepKinds
  <1> SUFFICES ASSUME TypeOK, [Next]_vars PROVE StepKinds
    OBVIOUS
  <1>0. StoreType(mem) /\ now \in 0 .. MaxNow
    BY ConstantsAssumption DEF TypeOK
  <1>a. ASSUME NEW u, Called(mem, u, now), StoreCall(u) PROVE StepKinds
    BY <1>a DEF StoreCall, Commit, StepKinds
  <1>b. ASSUME NEW u, HasSession(mem), PushStep(mem, u), StoreCall(u)
        PROVE  StepKinds
    BY <1>a, <1>b DEF Called
  <1>1. ASSUME NEW id \in PhotoIDs, UpsertPhoto(id) PROVE StepKinds
    BY <1>1 DEF UpsertPhoto, Called, StepKinds
  <1>2. ASSUME NEW seen \in SUBSET PhotoIDs, ForgetMissing(seen) PROVE StepKinds
    BY <1>2 DEF ForgetMissing, Commit, Called, StepKinds
  <1>3. ASSUME AutoStartSession PROVE StepKinds
    BY <1>3, <1>a DEF AutoStartSession, Called
  <1>4. ASSUME EndSession PROVE StepKinds
    BY <1>4, <1>a DEF EndSession, Called
  <1>5. ASSUME NEW delta \in Batches, SessionExtend(delta) PROVE StepKinds
    BY <1>5, <1>a DEF SessionExtend, Called
  <1>6. ASSUME NEW id \in PhotoIDs, NEW req \in MemberRequest,
               RecordDecision(id, req.newState, req.trashTo)
        PROVE  StepKinds
    <2>1. HasSession(mem) /\ CanDecide(mem, id)
      BY <1>6 DEF RecordDecision, CanDecide
    <2> QED BY <1>0, <1>6, <1>b, <2>1, RecordDecisionPushes DEF RecordDecision
  <1>7. ASSUME NEW id \in PhotoIDs, RecordSkip(id) PROVE StepKinds
    <2>1. HasSession(mem) /\ CanDecide(mem, id)
      BY <1>7 DEF RecordSkip, CanDecide
    <2> QED BY <1>0, <1>7, <1>b, <2>1, RecordSkipPushes DEF RecordSkip
  <1>8. ASSUME NEW clusterID \in PhotoIDs, NEW list \in MemberLists,
               SkipCluster(clusterID, list)
        PROVE  StepKinds
    <2>1. list \in Seq(PhotoIDs) /\ HasSession(mem)
      BY <1>8 DEF MemberLists, SkipCluster
    <2> QED BY <1>0, <1>8, <1>b, <2>1, SkipClusterPushes DEF SkipCluster
  <1>9. ASSUME NEW clusterID \in PhotoIDs, NEW req \in ClusterRequests,
               RecordClusterDecision(clusterID, req)
        PROVE  StepKinds
    <2>1. HasSession(mem) /\ CanDecideCluster(mem, req)
      BY <1>9 DEF RecordClusterDecision, CanDecideCluster
    <2> QED BY <1>0, <1>9, <1>b, <2>1, RecordClusterDecisionPushes
            DEF RecordClusterDecision
  <1>10. ASSUME Undo PROVE StepKinds
    <2>1. Called(mem, AfterUndo(mem), now)
      BY <1>10 DEF Undo, Called
    <2> QED BY <1>10, <1>a, <2>1 DEF Undo, StepKinds
  <1>11. ASSUME NEW ns \in SettingsChoices, UpdateSettings(ns) PROVE StepKinds
    BY <1>11, <1>a DEF UpdateSettings, Called
  <1>12. ASSUME Crash \/ Shutdown PROVE StepKinds
    BY <1>12 DEF Crash, Shutdown, Reopen, StepKinds
  <1>13. ASSUME Tick \/ UNCHANGED vars PROVE StepKinds
    BY <1>13 DEF Tick, vars, StepKinds
  <1>14. /\ \A path \in TrashPaths :
              [newState |-> "trashed", trashTo |-> path] \in MemberRequest
         /\ [newState |-> "kept", trashTo |-> Nil] \in MemberRequest
    BY DEF MemberRequest
  <1> HIDE DEF StepKinds
  <1> QED
    BY <1>1, <1>2, <1>3, <1>4, <1>5, <1>6, <1>7, <1>8, <1>9, <1>10, <1>11,
       <1>12, <1>13, <1>14 DEF Next

-----------------------------------------------------------------------------
(***************************************************************************)
(* The list of skipped photos.                                             *)
(***************************************************************************)
\* Every rank below the size of a finite set of naturals is taken by a member:
\* ranks are an injection of the set into its ranks.
LEMMA Nth ==
    ASSUME NEW n \in Nat, NEW kept \in SUBSET (1 .. n),
           NEW k \in 1 .. Cardinality(kept)
    PROVE  \E i \in kept : Cardinality({j \in kept : j <= i}) = k
  <1> DEFINE upTo(i) == {j \in kept : j <= i}
             rank == [i \in kept |-> Cardinality(upTo(i))]
             ranks == 1 .. Cardinality(kept)
  <1>1. IsFiniteSet(kept) /\ Cardinality(kept) \in Nat
    <2>1. IsFiniteSet(1 .. n)
      BY FS_Interval
    <2> QED BY <2>1, FS_Subset, FS_CardinalityType
  <1>2. ASSUME NEW i \in kept
        PROVE  /\ IsFiniteSet(upTo(i))
               /\ Cardinality(upTo(i)) \in ranks
    <2>0. upTo(i) \in SUBSET kept
      OBVIOUS
    <2>2. upTo(i) # {}
      BY <1>2
    <2> HIDE DEF upTo
    <2>1. /\ IsFiniteSet(upTo(i)) /\ Cardinality(upTo(i)) <= Cardinality(kept)
          /\ Cardinality(upTo(i)) \in Nat
      BY <1>1, <2>0, FS_Subset, FS_CardinalityType
    <2>3. Cardinality(upTo(i)) # 0
      BY <2>1, <2>2, FS_EmptySet
    <2> QED BY <1>1, <2>1, <2>3
  <1>3. ASSUME NEW i \in kept, NEW j \in kept, rank[i] = rank[j], i < j
        PROVE  FALSE
    <2>1. upTo(i) \in SUBSET upTo(j) /\ j \in upTo(j) /\ j \notin upTo(i)
      <3>1. i \in Int /\ j \in Int /\ i < j /\ \A x \in kept : x \in Int
        BY <1>3
      <3> HIDE DEF rank, ranks
      <3>2. ASSUME NEW x \in upTo(i) PROVE x \in upTo(j)
        <4>1. x \in kept /\ x <= i /\ x \in Int
          BY <3>1
        <4> QED BY <3>1, <4>1
      <3>3. j \in upTo(j) /\ j \notin upTo(i)
        BY <3>1
      <3> QED BY <3>2, <3>3
    <2>2. Cardinality(upTo(j)) = Cardinality(upTo(i))
      BY <1>3
    <2>3. IsFiniteSet(upTo(j))
      BY <1>2
    <2> HIDE DEF upTo
    <2>4. upTo(j) = upTo(i)
      BY <2>1, <2>2, <2>3, FS_Subset
    <2> QED BY <2>1, <2>4
  <1>4. rank \in Injection(kept, ranks)
    <2>1. rank \in [kept -> ranks]
      BY <1>2
    <2>2. \A i, j \in kept : rank[i] = rank[j] => i = j
      BY <1>3
    <2> HIDE DEF rank, ranks
    <2> QED BY <2>1, <2>2 DEF Injection, IsInjective
  <1>5. IsFiniteSet(ranks) /\ Cardinality(ranks) = Cardinality(kept)
    BY <1>1, FS_Interval
  <1> HIDE DEF rank, ranks
  <1>6. rank \in Surjection(kept, ranks)
    BY <1>4, <1>5, FS_Injection
  <1>7. PICK i \in kept : rank[i] = k
    BY <1>6 DEF Surjection, ranks
  <1> QED BY <1>7 DEF rank

LEMMA UnskippedWithin ==
    ASSUME NEW q \in Seq(PhotoIDs), NEW M
    PROVE  Unskipped(q, M) \in Seq(PhotoIDs) /\ Len(Unskipped(q, M)) <= Len(q)
  <1> DEFINE gone(i) == q[i] \in M /\ \A j \in (i + 1) .. Len(q) : q[j] # q[i]
             kept == {i \in DOMAIN q : ~gone(i)}
             nth(k) == CHOOSE i \in kept : Cardinality({j \in kept : j <= i}) = k
             m == Cardinality(kept)
             u == [k \in 1 .. m |-> q[nth(k)]]
  <1>1. Len(q) \in Nat /\ DOMAIN q = 1 .. Len(q)
    OBVIOUS
  <1>2. kept \in SUBSET (1 .. Len(q))
    BY <1>1
  <1>3. m \in Nat /\ m <= Len(q)
    <2>1. IsFiniteSet(1 .. Len(q)) /\ Cardinality(1 .. Len(q)) = Len(q)
      BY <1>1, FS_Interval
    <2> QED BY <1>2, <2>1, FS_Subset, FS_CardinalityType
  <1>4. Unskipped(q, M) = u
    BY DEF Unskipped
  <1> HIDE DEF kept
  <1>5. ASSUME NEW k \in 1 .. m PROVE nth(k) \in kept
    <2>1. \E i \in kept : Cardinality({j \in kept : j <= i}) = k
      BY <1>1, <1>2, Nth
    <2> QED BY <2>1
  <1> HIDE DEF nth, m
  <1>6. ASSUME NEW k \in 1 .. m PROVE q[nth(k)] \in PhotoIDs
    <2>1. nth(k) \in 1 .. Len(q)
      BY <1>2, <1>5
    <2> QED BY <2>1
  <1> QED BY <1>3, <1>4, <1>6

\* What one value keeps another keeps when the FIFO got no longer.
LEMMA FifoShorter ==
    ASSUME NEW s, NEW u, FifoOK(s), HasSession(u) => HasSession(s),
           s.session.target \in Nat, u.session.target = s.session.target,
           s.session.recentlySkipped \in Seq(PhotoIDs) =>
              /\ u.session.recentlySkipped \in Seq(PhotoIDs)
              /\ Len(u.session.recentlySkipped) <= Len(s.session.recentlySkipped)
    PROVE  FifoOK(u)
  <1> SUFFICES ASSUME HasSession(u) PROVE FifoFits(u.session)
    BY FifoWithin
  <1>1. FifoFits(s.session)
    BY FifoWithin
  <1>2. /\ Len(u.session.recentlySkipped) \in Nat
        /\ Len(s.session.recentlySkipped) \in Nat
        /\ FifoCap(s.session) \in Nat
        /\ FifoCap(u.session) = FifoCap(s.session)
    BY <1>1, LenProperties, ConstantsAssumption DEF FifoCap, FifoFits
  <1> QED
    BY <1>1, <1>2 DEF FifoFits

LEMMA FifoEmpty ==
    ASSUME NEW u, u.session.target \in Nat, u.session.recentlySkipped = <<>>
    PROVE  FifoOK(u)
  <1>0. <<>> \in Seq(PhotoIDs) /\ Len(<<>>) = 0
    OBVIOUS
  <1>1. FifoCap(u.session) \in Nat
    BY ConstantsAssumption DEF FifoCap
  <1>2. /\ u.session.recentlySkipped \in Seq(PhotoIDs)
        /\ Len(u.session.recentlySkipped) = 0
    BY <1>0, Zenon
  <1>3. FifoFits(u.session)
    BY <1>1, <1>2 DEF FifoFits
  <1> QED
    BY <1>3, FifoWithin, Zenon

LEMMA UndoFifo ==
    ASSUME NEW s, StoreType(s), CanUndo(s)
    PROVE  \/ AfterUndo(s).session.recentlySkipped = s.session.recentlySkipped
           \/ \E M : AfterUndo(s).session.recentlySkipped =
                         Unskipped(s.session.recentlySkipped, M)
  <1> DEFINE d == Last(s.session.stack)
             M == UndoneMembers(d)
             fifo == IF IsSkip(d) THEN Unskipped(s.session.recentlySkipped, M)
                     ELSE s.session.recentlySkipped
  <1>1. s.session \in Session(s.session.recentlySkipped)
    BY LiveType DEF CanUndo, Live
  <1> HIDE DEF d, M
  <1>2. CASE UndoFails(s)
    BY <1>1, <1>2 DEF AfterUndo, StoreType, Session
  <1>3. CASE ~UndoFails(s)
    <2>1. AfterUndo(s).session.recentlySkipped = fifo
      <3> HIDE DEF fifo
      <3> QED
        BY <1>1, <1>3 DEF AfterUndo, StoreType, Session, fifo, d, M
    <2> QED
      BY <2>1
  <1> QED
    BY <1>2, <1>3

LEMMA FifoUndone ==
    ASSUME NEW s, StoreType(s), FifoOK(s), CanUndo(s)
    PROVE  LET u == AfterUndo(s)
           IN  /\ u.session.recentlySkipped \in Seq(PhotoIDs)
               /\ Len(u.session.recentlySkipped) <= Len(s.session.recentlySkipped)
               /\ HasSession(u)
  <1> DEFINE q == s.session.recentlySkipped
             u == AfterUndo(s)
  <1>1. q \in Seq(PhotoIDs) /\ Len(q) \in Nat
    BY LenProperties DEF FifoOK, CanUndo
  <1>2. PICK M : u.session.recentlySkipped \in {q, Unskipped(q, M)}
    BY UndoFifo
  <1>3. Live(u)
    BY UndoFields
  <1> HIDE DEF q, u
  <1>4. Unskipped(q, M) \in Seq(PhotoIDs) /\ Len(Unskipped(q, M)) <= Len(q)
    BY <1>1, UnskippedWithin
  <1>5. /\ u.session.recentlySkipped \in Seq(PhotoIDs)
        /\ Len(u.session.recentlySkipped) <= Len(q)
    BY <1>1, <1>2, <1>4
  <1> QED
    BY <1>3, <1>5, LiveHasSession DEF q, u

LEMMA FifoCalled ==
    ASSUME NEW s, StoreType(s), FifoOK(s), NEW t \in Nat, NEW u, Called(s, u, t)
    PROVE  FifoOK(u)
  <1>a. ASSUME u.session = s.session PROVE FifoOK(u)
    BY <1>a DEF FifoOK, HasSession
  <1>b. ASSUME HasSession(s)
        PROVE  /\ s.session \in Session(s.session.recentlySkipped)
               /\ s.session.target \in Nat
    BY <1>b, LiveType DEF Live, Session
  <1>1. ASSUME NEW id \in PhotoIDs, u = AfterUpsertPhoto(s, id) PROVE FifoOK(u)
    BY <1>1, <1>a DEF AfterUpsertPhoto, StoreType
  <1>2. ASSUME NEW seen \in SUBSET PhotoIDs, u = AfterForgetMissing(s, seen)
        PROVE  FifoOK(u)
    BY <1>2, <1>a DEF AfterForgetMissing, StoreType
  <1>3. ASSUME u = AfterAutoStartSession(s, t) PROVE FifoOK(u)
    <2>1. AutoTarget(s) \in Nat
      BY DEF AutoTarget, StoreType, Settings
    <2>2. u.session.target = AutoTarget(s) /\ u.session.recentlySkipped = <<>>
      BY <1>3 DEF AfterAutoStartSession, AfterStartSession, StoreType
    <2> QED
      BY <2>1, <2>2, FifoEmpty
  <1>4. ASSUME u = AfterEndSession(s) PROVE FifoOK(u)
    BY <1>4 DEF AfterEndSession, StoreType, FifoOK, HasSession
  <1>5. ASSUME HasSession(s), NEW delta \in Batches,
               u = AfterSessionExtend(s, delta)
        PROVE  FifoOK(u)
    <2>1. delta \in Int
      BY ConstantsAssumption
    <2>2. /\ u.session.recentlySkipped = <<>>
          /\ u.session.target = IF delta <= 0 THEN 0
                                ELSE IF s.session.target > 0
                                     THEN s.session.target + delta
                                     ELSE s.session.target
      BY <1>5, <1>b DEF AfterSessionExtend, StoreType, Session
    <2>3. u.session.target \in Nat
      BY <1>5, <1>b, <2>1, <2>2
    <2> QED
      BY <2>2, <2>3, FifoEmpty
  <1>6. ASSUME HasSession(s), PushStep(s, u) PROVE FifoOK(u)
    <2>1. PICK s2, d : /\ Live(s2) /\ FifoFits(s2.session)
                       /\ d \in Decision /\ EntryOK(d)
                       /\ u = Pushed(s2, d, RolledBack(d))
      BY <1>6 DEF PushStep, Pushes, Prepared
    <2>2. /\ u.session.target = s2.session.target
          /\ u.session.recentlySkipped = s2.session.recentlySkipped
      BY <2>1, RolledBackType, PushedType
    <2>3. s2.session.target \in Nat
      BY <2>1 DEF Live, Session
    <2> QED
      BY <2>1, <2>2, <2>3, FifoWithin DEF FifoFits, FifoCap
  <1>7. ASSUME CanUndo(s), u = AfterUndo(s) PROVE FifoOK(u)
    <2>1. u.session.target = s.session.target
      BY <1>7, UndoFields
    <2>2. /\ u.session.recentlySkipped \in Seq(PhotoIDs)
          /\ Len(u.session.recentlySkipped) <= Len(s.session.recentlySkipped)
      BY <1>7, FifoUndone
    <2> QED
      BY <1>7, <1>b, <2>1, <2>2, FifoShorter DEF CanUndo
  <1>8. ASSUME NEW ns \in SettingsChoices, u = AfterUpdateSettings(s, ns)
        PROVE  FifoOK(u)
    BY <1>8, <1>a DEF AfterUpdateSettings, StoreType
  <1> QED
    BY <1>1, <1>2, <1>3, <1>4, <1>5, <1>6, <1>7, <1>8 DEF Called

LEMMA FifoOpened ==
    ASSUME NEW f, StoreType(f), FifoOK(f), NEW t
    PROVE  FifoOK(Opened(f, t))
  <1> DEFINE u == Loaded(f)
  <1>1. StoreType(u) /\ (f.session = Nil => u.session = Nil)
    BY LoadedFields
  <1>2. ASSUME f.session # Nil
        PROVE  /\ f.session.target \in Nat
               /\ u.session.target = f.session.target
               /\ u.session.recentlySkipped = f.session.recentlySkipped
    <2>1. f.session \in Session(f.session.recentlySkipped)
      BY <1>2, LiveType DEF HasSession, Live
    <2> QED
      BY <1>2, <2>1, LoadedFields DEF Session
  <1> HIDE DEF u
  <1>3. FifoOK(u)
    BY <1>1, <1>2 DEF FifoOK, HasSession
  <1>4. [u EXCEPT !.session = Nil].session = Nil
    BY <1>1, SessionReplaced DEF IsSession
  <1>5. FifoOK([u EXCEPT !.session = Nil])
    BY <1>4 DEF FifoOK, HasSession
  <1> QED
    BY <1>3, <1>5 DEF Opened, u

LEMMA FifoInit == Init => SkipListBounded
  <1> SUFFICES ASSUME Init PROVE SkipListBounded
    OBVIOUS
  <1>1. PICK f \in StateFiles : Start(f)
    BY DEF Init
  <1>2. StoreType(f) /\ FifoOK(f)
    BY StateFilesAssumption DEF FileOK
  <1>3. FifoOK(Opened(f, now))
    BY <1>2, FifoOpened
  <1> QED
    BY <1>1, <1>2, <1>3 DEF SkipListBounded, Start

LEMMA FifoNext == TypeOK /\ SkipListBounded /\ [Next]_vars => SkipListBounded'
  <1> SUFFICES ASSUME TypeOK, SkipListBounded, StepKinds PROVE SkipListBounded'
    BY StepCalls
  <1>0. /\ StoreType(mem) /\ StoreType(disk) /\ now \in Nat
        /\ FifoOK(mem) /\ FifoOK(disk)
    BY ConstantsAssumption DEF TypeOK, SkipListBounded
  <1>1. CASE Called(mem, mem', now) /\ disk' \in {mem', disk}
    <2>1. FifoOK(mem')
      BY <1>0, <1>1, FifoCalled
    <2> QED
      BY <1>0, <1>1, <2>1 DEF SkipListBounded
  <1>2. CASE \E f \in {mem, disk} : mem' = Opened(f, now) /\ disk' \in {mem', f}
    BY <1>0, <1>2, FifoOpened DEF SkipListBounded
  <1>3. CASE mem' = mem /\ disk' = disk
    BY <1>0, <1>3 DEF SkipListBounded
  <1> QED
    BY <1>1, <1>2, <1>3 DEF StepKinds

\* In every behaviour the list of skipped photos holds photo ids and no more of
\* them than its cap (SkipListBounded): skips, cluster skips, undos and extended
\* batches in any order cannot let it grow past that.
THEOREM SkipListCorrect == Spec => []SkipListBounded
  BY TypeCorrect, FifoInit, FifoNext, PTL DEF Spec

-----------------------------------------------------------------------------
(***************************************************************************)
(* The retired state.  A photo cannot come back to it, neither by a        *)
(* decision nor from an entry.                                             *)
(***************************************************************************)
UnsureGone(s) == NoneUnsure(s) /\ UnsureForgotten(s)

LEMMA UnsurePushed ==
    ASSUME NEW s, StoreType(s), HasSession(s), UnsureGone(s),
           NEW u, PushStep(s, u)
    PROVE  UnsureGone(u)
  <1>1. PICK s2, d : /\ Live(s2)
                     /\ d \in Decision
                     /\ EntryOK(d)
                     /\ s2.session.stack = s.session.stack
                     /\ DecidesFrom(s, s2, d)
                     /\ u = Pushed(s2, d, RolledBack(d))
    BY DEF PushStep, Pushes, Prepared
  <1> DEFINE q == s.session.stack
             q2 == u.session.stack
  <1>2. q2 = Append(q, d) /\ u.photos = s2.photos
    <2>1. RolledBack(d) \in Nat
      BY <1>1, RolledBackType
    <2>2. u.session.stack = Append(s2.session.stack, d) /\ u.photos = s2.photos
      BY <1>1, <2>1, PushedType
    <2> QED
      BY <1>1, <2>2
  <1>3. q \in Seq(Decision)
    BY LiveType DEF Live, Session
  <1> HIDE DEF q, q2
  <1>4. /\ DOMAIN q2 = (DOMAIN q) \cup {Len(q) + 1}
        /\ \A i \in DOMAIN q : q2[i] = q[i]
        /\ q2[Len(q) + 1] = d
    BY <1>1, <1>2, <1>3
  <1>5. ASSUME NEW i \in DOMAIN q2, NEW id \in PhotoIDs, Decides(q2[i], id)
        PROVE  q2[i].ops[id].prevState # "unsure"
    <2>1. CASE i \in DOMAIN q
      BY <1>4, <1>5, <2>1 DEF UnsureGone, UnsureForgotten, q
    <2>2. CASE i = Len(q) + 1
      BY <1>1, <1>4, <1>5, <2>2 DEF DecidesFrom, Saved, UnsureGone, NoneUnsure
    <2> QED
      BY <1>4, <2>1, <2>2
  <1>6. ASSUME NEW id \in PhotoIDs, Known(u, id)
        PROVE  u.photos[id].state # "unsure"
    <2>1. CASE Decides(d, id)
      BY <1>1, <1>2, <2>1 DEF DecidesFrom, Saved, Left
    <2>2. CASE ~Decides(d, id)
      BY <1>1, <1>2, <1>6, <2>2 DEF DecidesFrom, Known, UnsureGone, NoneUnsure
    <2> QED
      BY <2>1, <2>2
  <1> QED
    BY <1>5, <1>6 DEF UnsureGone, NoneUnsure, UnsureForgotten, q2

LEMMA UnsureUndone ==
    ASSUME NEW s, StoreType(s), CanUndo(s), UnsureGone(s)
    PROVE  UnsureGone(AfterUndo(s))
  <1> DEFINE u == AfterUndo(s)
             q == s.session.stack
             d == Last(q)
             rest == SubSeq(q, 1, Len(q) - 1)
  <1>1. /\ q \in Seq(Decision) /\ q # <<>> /\ d \in Decision /\ EntryOK(d)
        /\ HasSession(s)
    BY PoppedType DEF CanUndo
  <1>2. /\ u.session.stack = rest
        /\ u.photos = s.photos \/ u.photos = PhotosUndone(s, d)
    BY UndoFields, Zenon
  <1>3. /\ \A i \in DOMAIN rest : i \in DOMAIN q /\ rest[i] = q[i]
        /\ Len(q) \in DOMAIN q /\ d = q[Len(q)]
    BY <1>1 DEF Last
  <1>6. \A i \in DOMAIN q, id \in PhotoIDs :
           Decides(q[i], id) => q[i].ops[id].prevState # "unsure"
    BY <1>1 DEF UnsureGone, UnsureForgotten
  <1> HIDE DEF u, rest, d, q
  <1>4. UnsureForgotten(u)
    BY <1>2, <1>3, <1>6 DEF UnsureForgotten
  <1>5. ASSUME NEW id \in PhotoIDs, Known(u, id)
        PROVE  u.photos[id].state # "unsure"
    <2>1. CASE u.photos[id] = s.photos[id]
      BY <1>5, <2>1 DEF UnsureGone, NoneUnsure, Known
    <2>2. CASE u.photos[id] # s.photos[id]
      <3>1. /\ Decides(d, id) /\ Known(s, id)
            /\ u.photos[id] = Reverted(s.photos[id], d.ops[id])
        BY <1>2, <2>2 DEF PhotosUndone, Decides, Touched
      <3>2. s.photos[id] \in Photo
        BY <3>1, PhotoType
      <3>3. u.photos[id].state = d.ops[id].prevState
        BY <3>1, <3>2 DEF Reverted, Photo
      <3>4. d.ops[id].prevState # "unsure"
        BY <1>3, <1>6, <3>1
      <3> QED
        BY <3>3, <3>4
    <2> QED
      BY <2>1, <2>2
  <1> QED
    BY <1>4, <1>5 DEF UnsureGone, NoneUnsure, u

LEMMA UnsureCalled ==
    ASSUME NEW s, StoreType(s), UnsureGone(s), NEW t \in Nat,
           NEW u, Called(s, u, t)
    PROVE  UnsureGone(u)
  <1>a. ASSUME \/ u.session = s.session
               \/ u.session = Nil
               \/ u.session.stack = <<>>
               \/ HasSession(s) /\ u.session.stack = s.session.stack,
               \A x \in PhotoIDs :
                   Known(u, x) => \/ Known(s, x) /\ u.photos[x] = s.photos[x]
                                  \/ u.photos[x].state = "unsorted"
        PROVE  UnsureGone(u)
    BY <1>a DEF UnsureGone, NoneUnsure, UnsureForgotten, HasSession
  <1>1. ASSUME NEW id \in PhotoIDs, u = AfterUpsertPhoto(s, id)
        PROVE  UnsureGone(u)
    <2>1. /\ u.session = s.session
          /\ \A x \in PhotoIDs : u.photos[x] \in {s.photos[x], NewPhoto}
      BY <1>1 DEF AfterUpsertPhoto, StoreType, PhotoTables
    <2> QED
      BY <1>a, <2>1 DEF NewPhoto, Known
  <1>2. ASSUME NEW seen \in SUBSET PhotoIDs, u = AfterForgetMissing(s, seen)
        PROVE  UnsureGone(u)
    <2>1. /\ u.session = s.session
          /\ \A x \in PhotoIDs : u.photos[x] \in {s.photos[x], Nil}
      BY <1>2 DEF AfterForgetMissing, StoreType, PhotoTables
    <2> QED
      BY <1>a, <2>1 DEF Known
  <1>b. ASSUME u.photos = s.photos
        PROVE  \A x \in PhotoIDs : Known(u, x) =>
                   Known(s, x) /\ u.photos[x] = s.photos[x]
    BY <1>b DEF Known
  <1>3. ASSUME u = AfterAutoStartSession(s, t) PROVE UnsureGone(u)
    <2>1. u.session.stack = <<>> /\ u.photos = s.photos
      BY <1>3 DEF AfterAutoStartSession, AfterStartSession, StoreType
    <2> QED
      BY <1>a, <1>b, <2>1
  <1>4. ASSUME u = AfterEndSession(s) PROVE UnsureGone(u)
    <2>1. u.session = Nil /\ u.photos = s.photos
      BY <1>4 DEF AfterEndSession, StoreType
    <2> QED
      BY <1>a, <1>b, <2>1
  <1>5. ASSUME HasSession(s), NEW delta \in Batches,
               u = AfterSessionExtend(s, delta)
        PROVE  UnsureGone(u)
    <2>1. s.session \in Session(s.session.recentlySkipped)
      BY <1>5, LiveType DEF Live
    <2>2. u.session.stack = s.session.stack /\ u.photos = s.photos
      BY <1>5, <2>1 DEF AfterSessionExtend, StoreType, Session
    <2> QED
      BY <1>5, <1>a, <1>b, <2>2
  <1>6. ASSUME HasSession(s), PushStep(s, u) PROVE UnsureGone(u)
    BY <1>6, UnsurePushed
  <1>7. ASSUME CanUndo(s), u = AfterUndo(s) PROVE UnsureGone(u)
    BY <1>7, UnsureUndone
  <1>8. ASSUME NEW ns \in SettingsChoices, u = AfterUpdateSettings(s, ns)
        PROVE  UnsureGone(u)
    <2>1. u.session = s.session /\ u.photos = s.photos
      BY <1>8 DEF AfterUpdateSettings, StoreType
    <2> QED
      BY <1>a, <1>b, <2>1
  <1> QED
    BY <1>1, <1>2, <1>3, <1>4, <1>5, <1>6, <1>7, <1>8 DEF Called

\* load turns every "unsure" photo into an unsorted one and keeps the entries.
LEMMA UnsureOpened ==
    ASSUME NEW f, StoreType(f), UnsureForgotten(f), NEW t
    PROVE  UnsureGone(Opened(f, t))
  <1> DEFINE u == Loaded(f)
             u0 == [u EXCEPT !.session = Nil]
  <1>1. StoreType(u) /\ (f.session = Nil => u.session = Nil)
    BY LoadedFields
  <1>2. u.photos =
          [x \in PhotoIDs |->
              IF Known(f, x) /\ f.photos[x].state = "unsure"
              THEN [f.photos[x] EXCEPT !.state = "unsorted"]
              ELSE f.photos[x]]
    BY LoadedFields, Zenon
  <1>3. f.session # Nil =>
           LET q == f.session.stack
               q2 == u.session.stack
           IN  /\ DOMAIN q2 = DOMAIN q
               /\ \A i \in DOMAIN q : q2[i].ops = q[i].ops
               /\ \A i \in DOMAIN q : \A id : Decides(q2[i], id) <=> Decides(q[i], id)
    BY LoadedStack
  <1>4. u0.session = Nil /\ u0.photos = u.photos
    BY <1>1, SessionReplaced DEF IsSession
  <1> HIDE DEF u, u0
  <1>5. NoneUnsure(u) /\ NoneUnsure(u0)
    <2>1. ASSUME NEW id \in PhotoIDs, u.photos[id] # Nil
          PROVE  u.photos[id].state # "unsure"
      <3>1. CASE Known(f, id) /\ f.photos[id].state = "unsure"
        <4>1. f.photos[id] \in Photo
          BY <3>1, PhotoType
        <4> QED
          BY <1>2, <3>1, <4>1 DEF Photo
      <3>2. CASE ~(Known(f, id) /\ f.photos[id].state = "unsure")
        BY <1>2, <2>1, <3>2 DEF Known
      <3> QED
        BY <3>1, <3>2
    <2> QED
      BY <1>4, <2>1 DEF NoneUnsure, Known
  <1>6. UnsureForgotten(u) /\ UnsureForgotten(u0)
    BY <1>1, <1>3, <1>4 DEF UnsureForgotten, HasSession
  <1> QED
    BY <1>5, <1>6 DEF UnsureGone, Opened, u, u0

UnsureInv == UnsureGone(mem) /\ UnsureForgotten(disk)

LEMMA UnsureInit ==
    ASSUME \A f \in StateFiles : UnsureForgotten(f)
    PROVE  Init => UnsureInv
  <1> SUFFICES ASSUME Init PROVE UnsureInv
    OBVIOUS
  <1>1. PICK f \in StateFiles : Start(f)
    BY DEF Init
  <1>2. StoreType(f) /\ UnsureForgotten(f)
    BY StateFilesAssumption DEF FileOK
  <1>3. UnsureGone(Opened(f, now))
    BY <1>2, UnsureOpened
  <1> QED
    BY <1>1, <1>2, <1>3 DEF UnsureInv, UnsureGone, Start

LEMMA UnsureNext == TypeOK /\ UnsureInv /\ [Next]_vars => UnsureInv'
  <1> SUFFICES ASSUME TypeOK, UnsureInv, StepKinds PROVE UnsureInv'
    BY StepCalls
  <1>0. /\ StoreType(mem) /\ StoreType(disk) /\ now \in Nat
        /\ UnsureGone(mem) /\ UnsureForgotten(mem) /\ UnsureForgotten(disk)
    BY ConstantsAssumption DEF TypeOK, UnsureInv, UnsureGone
  <1>1. CASE Called(mem, mem', now) /\ disk' \in {mem', disk}
    <2>1. UnsureGone(mem')
      BY <1>0, <1>1, UnsureCalled
    <2> QED
      BY <1>0, <1>1, <2>1 DEF UnsureInv, UnsureGone
  <1>2. CASE \E f \in {mem, disk} : mem' = Opened(f, now) /\ disk' \in {mem', f}
    <2>1. PICK f \in {mem, disk} : mem' = Opened(f, now) /\ disk' \in {mem', f}
      BY <1>2
    <2>2. UnsureGone(mem')
      BY <1>0, <2>1, UnsureOpened
    <2> QED
      BY <1>0, <2>1, <2>2 DEF UnsureInv, UnsureGone
  <1>3. CASE mem' = mem /\ disk' = disk
    BY <1>0, <1>3 DEF UnsureInv
  <1> QED
    BY <1>1, <1>2, <1>3 DEF StepKinds

\* If the undo stack of the file a first start finds does not remember the
\* retired state, no photo is ever in it and no entry ever remembers it
\* (UnsureRetired).
THEOREM UnsureCorrect ==
    ASSUME \A f \in StateFiles : UnsureForgotten(f)
    PROVE  Spec => []UnsureRetired
  <1>1. Init => UnsureInv
    BY UnsureInit
  <1>2. UnsureInv => UnsureRetired
    BY DEF UnsureInv, UnsureRetired, UnsureGone
  <1> QED
    BY <1>1, <1>2, TypeCorrect, UnsureNext, PTL DEF Spec

-----------------------------------------------------------------------------
(***************************************************************************)
(* Trashed photos.                                                         *)
(***************************************************************************)
LEMMA TrashedPushed ==
    ASSUME NEW s, StoreType(s), FifoOK(s), HasSession(s), NEW u, PushStep(s, u),
           NEW id \in PhotoIDs, IsTrashed(s, id), ~IsTrashed(u, id)
    PROVE  AddsDecision(s, u, id)
  <1>1. PICK s2, d : /\ Live(s2)
                     /\ d \in Decision
                     /\ EntryOK(d)
                     /\ s2.session.stack = s.session.stack
                     /\ DecidesFrom(s, s2, d)
                     /\ FifoFits(s2.session)
                     /\ u = Pushed(s2, d, RolledBack(d))
    BY DEF PushStep, Pushes, Prepared
  <1>2. RolledBack(d) \in Nat
    BY <1>1, RolledBackType
  <1>3. /\ u.session.stack = Append(s2.session.stack, d)
        /\ u.session.recentlySkipped = s2.session.recentlySkipped
        /\ u.photos = s2.photos
        /\ Live(u)
    BY <1>1, <1>2, PushedType
  <1>4. s2.session.stack \in Seq(Decision)
    BY <1>1 DEF Live, Session
  <1>5. /\ u.session.stack # <<>> /\ Last(u.session.stack) = d
        /\ SubSeq(u.session.stack, 1, Len(u.session.stack) - 1)
              = s.session.stack
    BY <1>1, <1>3, <1>4 DEF Last
  <1>6. HasSession(u)
    BY <1>1, <1>3, LiveHasSession DEF FifoFits
  <1>7. Decides(d, id)
    BY <1>1, <1>3 DEF DecidesFrom, IsTrashed, Known
  <1> QED
    BY <1>5, <1>6, <1>7 DEF AddsDecision

LEMMA TrashedCalled ==
    ASSUME NEW s, StoreType(s), FifoOK(s), NEW t \in Nat, NEW u, Called(s, u, t),
           NEW id \in PhotoIDs, IsTrashed(s, id), ~IsTrashed(u, id)
    PROVE  AddsDecision(s, u, id) \/ AddsDecision(u, s, id)
  <1>a. u.photos[id] # s.photos[id]
    BY DEF IsTrashed, Known
  <1>1. ASSUME NEW x \in PhotoIDs, u = AfterUpsertPhoto(s, x) PROVE FALSE
    BY <1>1, <1>a DEF AfterUpsertPhoto, StoreType, PhotoTables, IsTrashed
  <1>2. ASSUME NEW seen \in SUBSET PhotoIDs, u = AfterForgetMissing(s, seen)
        PROVE  FALSE
    BY <1>2, <1>a DEF AfterForgetMissing, StoreType, Missing, IsTrashed
  <1>3. ASSUME u = AfterAutoStartSession(s, t) PROVE FALSE
    BY <1>3, <1>a DEF AfterAutoStartSession, AfterStartSession, StoreType
  <1>4. ASSUME u = AfterEndSession(s) PROVE FALSE
    BY <1>4, <1>a DEF AfterEndSession, StoreType
  <1>5. ASSUME HasSession(s), NEW delta \in Batches,
               u = AfterSessionExtend(s, delta)
        PROVE  FALSE
    BY <1>5, <1>a DEF AfterSessionExtend, StoreType
  <1>6. ASSUME HasSession(s), PushStep(s, u) PROVE AddsDecision(s, u, id)
    BY <1>6, TrashedPushed
  <1>7. ASSUME CanUndo(s), u = AfterUndo(s) PROVE AddsDecision(u, s, id)
    <2> DEFINE d == Last(s.session.stack)
               rest == SubSeq(s.session.stack, 1, Len(s.session.stack) - 1)
    <2>1. /\ u.photos = s.photos \/ u.photos = PhotosUndone(s, d)
          /\ Live(u) /\ u.session.stack = rest
      BY <1>7, UndoFields
    <2>2. u.session.recentlySkipped \in Seq(PhotoIDs)
      BY <1>7, FifoUndone
    <2>b. HasSession(u)
      BY <2>1, <2>2, LiveHasSession
    <2>a. d = Last(s.session.stack) /\ rest = SubSeq(s.session.stack, 1,
                                                    Len(s.session.stack) - 1)
      OBVIOUS
    <2> HIDE DEF d, rest
    <2>3. Decides(d, id)
      BY <1>a, <2>1 DEF PhotosUndone, Decides, Touched
    <2> QED
      BY <1>7, <2>1, <2>3, <2>a, <2>b DEF AddsDecision, CanUndo
  <1>8. ASSUME NEW ns \in SettingsChoices, u = AfterUpdateSettings(s, ns)
        PROVE  FALSE
    BY <1>8, <1>a DEF AfterUpdateSettings, StoreType
  <1> QED
    BY <1>1, <1>2, <1>3, <1>4, <1>5, <1>6, <1>7, <1>8 DEF Called

LEMMA TrashedOpened ==
    ASSUME NEW f, StoreType(f), NEW t, NEW id \in PhotoIDs, IsTrashed(f, id)
    PROVE  IsTrashed(Opened(f, t), id)
  <1> DEFINE u == Loaded(f)
             u0 == [u EXCEPT !.session = Nil]
  <1>1. StoreType(u)
    BY LoadedFields
  <1>2. u.photos =
          [x \in PhotoIDs |->
              IF Known(f, x) /\ f.photos[x].state = "unsure"
              THEN [f.photos[x] EXCEPT !.state = "unsorted"]
              ELSE f.photos[x]]
    BY LoadedFields, Zenon
  <1>3. u0.photos = u.photos
    BY <1>1, SessionReplaced DEF IsSession
  <1> HIDE DEF u, u0
  <1>4. IsTrashed(u, id) /\ IsTrashed(u0, id)
    BY <1>2, <1>3 DEF IsTrashed, Known
  <1> QED
    BY <1>4 DEF Opened, u, u0

LEMMA TrashedNext ==
    ASSUME TypeOK, SkipListBounded, [Next]_vars,
           NEW id \in PhotoIDs, IsTrashed(mem, id), ~IsTrashed(mem', id)
    PROVE  \/ AddsDecision(mem, mem', id) \/ AddsDecision(mem', mem, id)
           \/ mem' = Opened(disk, now) /\ ~IsTrashed(disk, id)
  <1>0. /\ StoreType(mem) /\ StoreType(disk) /\ now \in Nat /\ FifoOK(mem)
        /\ StepKinds
    BY StepCalls, ConstantsAssumption DEF TypeOK, SkipListBounded
  <1>1. CASE Called(mem, mem', now)
    BY <1>0, <1>1, TrashedCalled
  <1>2. ASSUME NEW f \in {mem, disk}, mem' = Opened(f, now)
        PROVE  mem' = Opened(disk, now) /\ ~IsTrashed(disk, id)
    <2>1. ~IsTrashed(f, id)
      BY <1>0, <1>2, TrashedOpened
    <2> QED
      BY <1>2, <2>1
  <1>3. CASE mem' = mem
    BY <1>3
  <1> QED
    BY <1>0, <1>1, <1>2, <1>3 DEF StepKinds

\* A trashed photo leaves that state only in a step that pushes a decision on
\* it, in one that pops such a decision, or in a restart on a state file that
\* does not have it trashed (TrashedUntilUndone): a rescan that misses its file,
\* a call about another photo, the end of a session or a clean restart does not.
THEOREM TrashedCorrect == Spec => TrashedUntilUndone
  <1>1. TypeOK /\ SkipListBounded /\ [Next]_vars =>
           [\A id \in PhotoIDs :
              (IsTrashed(mem, id) /\ ~IsTrashed(mem', id)) =>
                \/ AddsDecision(mem, mem', id)
                \/ AddsDecision(mem', mem, id)
                \/ mem' = Opened(disk, now) /\ ~IsTrashed(disk, id)
                \/ UpsertPhoto(id)]_vars
    BY TrashedNext
  <1> QED
    BY <1>1, TypeCorrect, SkipListCorrect, PTL DEF Spec, TrashedUntilUndone

-----------------------------------------------------------------------------
(***************************************************************************)
(* What a batch leaves in the undo stack: the entries that decide a photo  *)
(* form a chain that ends in the photo as it is now.                       *)
(***************************************************************************)
(***************************************************************************)
(* The chain of one photo: the stack q, the photo p.                       *)
(***************************************************************************)
Deciders(q, id) == {i \in DOMAIN q : Decides(q[i], id)}

LinkedBelow(q, id) ==
    \A i, j \in Deciders(q, id) :
        (i < j /\ \A k \in Deciders(q, id) : k <= i \/ j <= k) =>
            Left(q[i].ops[id], q[j].ops[id].prevState,
                 q[j].ops[id].prevKeepCount, q[j].ops[id].prevUnsureCount)

EndsIn(q, id, state, keepCount, unsureCount) ==
    \A i \in Deciders(q, id) :
        (\A k \in Deciders(q, id) : k <= i) =>
            Left(q[i].ops[id], state, keepCount, unsureCount)

LEMMA ChainOf ==
    ASSUME NEW s, NEW id
    PROVE  StackLinked(s, id) <=>
              /\ Deciders(s.session.stack, id) # {} => Known(s, id)
              /\ LinkedBelow(s.session.stack, id)
              /\ EndsIn(s.session.stack, id, s.photos[id].state,
                        s.photos[id].keepCount, s.photos[id].unsureCount)
  BY DEF StackLinked, Deciders, LinkedBelow, EndsIn

\* Where no entry decides a photo there is nothing to link.
LEMMA Unlinked ==
    ASSUME NEW s, NEW id, Deciders(s.session.stack, id) = {}
    PROVE  StackLinked(s, id)
  BY ChainOf DEF LinkedBelow, EndsIn

LEMMA DecidersPushed ==
    ASSUME NEW q \in Seq(Decision), NEW d \in Decision, NEW id
    PROVE  /\ Len(q) \in Nat
           /\ Deciders(q, id) \subseteq 1 .. Len(q)
           /\ \A i \in 1 .. Len(q) : Append(q, d)[i] = q[i]
           /\ Append(q, d)[Len(q) + 1] = d
           /\ Decides(d, id) =>
                 Deciders(Append(q, d), id) = Deciders(q, id) \cup {Len(q) + 1}
           /\ ~Decides(d, id) => Deciders(Append(q, d), id) = Deciders(q, id)
  <1>1. /\ Len(q) \in Nat /\ DOMAIN q = 1 .. Len(q)
        /\ DOMAIN Append(q, d) = 1 .. Len(q) + 1
        /\ \A i \in 1 .. Len(q) : Append(q, d)[i] = q[i]
        /\ Append(q, d)[Len(q) + 1] = d
    OBVIOUS
  <1> HIDE DEF Decides
  <1>2. DOMAIN Append(q, d) = (DOMAIN q) \cup {Len(q) + 1}
    BY <1>1
  <1> QED
    BY <1>1, <1>2 DEF Deciders

\* An entry that saved the photo as it was links to the chain.
LEMMA ChainPushed ==
    ASSUME NEW q \in Seq(Decision), NEW d \in Decision, NEW id, Decides(d, id),
           NEW state, NEW keepCount, NEW unsureCount,
           LinkedBelow(q, id),
           EndsIn(q, id, d.ops[id].prevState, d.ops[id].prevKeepCount,
                  d.ops[id].prevUnsureCount),
           Left(d.ops[id], state, keepCount, unsureCount)
    PROVE  /\ LinkedBelow(Append(q, d), id)
           /\ EndsIn(Append(q, d), id, state, keepCount, unsureCount)
  <1> DEFINE n == Len(q) + 1
             q2 == Append(q, d)
             T == Deciders(q, id)
  <1>1. /\ n \in Nat /\ n - 1 \in Nat /\ T \subseteq 1 .. n - 1
        /\ \A i \in T : q2[i] = q[i]
        /\ q2[n] = d
        /\ Deciders(q2, id) = T \cup {n}
    BY DecidersPushed
  <1> HIDE DEF n, q2, T
  <1>2. LinkedBelow(q2, id)
    <2> SUFFICES ASSUME NEW i \in T \cup {n}, NEW j \in T \cup {n}, i < j,
                        \A k \in T \cup {n} : k <= i \/ j <= k
                 PROVE  Left(q2[i].ops[id], q2[j].ops[id].prevState,
                             q2[j].ops[id].prevKeepCount,
                             q2[j].ops[id].prevUnsureCount)
      BY <1>1 DEF LinkedBelow
    <2>1. i \in T
      BY <1>1
    <2>2. CASE j \in T
      BY <1>1, <2>1, <2>2 DEF LinkedBelow, T
    <2>3. CASE j = n
      <3>1. \A k \in T : k <= i
        BY <1>1, <2>3
      <3> QED
        BY <1>1, <2>1, <2>3, <3>1 DEF EndsIn, T
    <2> QED
      BY <2>2, <2>3
  <1>3. EndsIn(q2, id, state, keepCount, unsureCount)
    <2> SUFFICES ASSUME NEW i \in T \cup {n}, \A k \in T \cup {n} : k <= i
                 PROVE  Left(q2[i].ops[id], state, keepCount, unsureCount)
      BY <1>1 DEF EndsIn
    <2>1. i = n
      BY <1>1
    <2> QED
      BY <1>1, <2>1
  <1> QED
    BY <1>2, <1>3 DEF q2

LEMMA ChainPassed ==
    ASSUME NEW q \in Seq(Decision), NEW d \in Decision, NEW id, ~Decides(d, id)
    PROVE  /\ LinkedBelow(q, id) => LinkedBelow(Append(q, d), id)
           /\ \A state, keepCount, unsureCount :
                 EndsIn(q, id, state, keepCount, unsureCount) =>
                     EndsIn(Append(q, d), id, state, keepCount, unsureCount)
  <1>1. /\ \A i \in Deciders(q, id) : Append(q, d)[i] = q[i]
        /\ Deciders(Append(q, d), id) = Deciders(q, id)
    BY DecidersPushed
  <1> QED
    BY <1>1 DEF LinkedBelow, EndsIn

LEMMA DecidersPopped ==
    ASSUME NEW q \in Seq(Decision), q # <<>>, NEW id,
           NEW rest, rest = SubSeq(q, 1, Len(q) - 1)
    PROVE  /\ Len(q) \in Nat \ {0}
           /\ Deciders(rest, id) = Deciders(q, id) \ {Len(q)}
           /\ Deciders(q, id) \subseteq 1 .. Len(q)
           /\ \A i \in Deciders(rest, id) : rest[i] = q[i]
           /\ Decides(Last(q), id) <=> Len(q) \in Deciders(q, id)
  <1>1. /\ Len(q) \in Nat \ {0} /\ DOMAIN q = 1 .. Len(q)
        /\ DOMAIN rest = 1 .. Len(q) - 1
        /\ \A i \in 1 .. Len(q) - 1 : rest[i] = q[i]
    OBVIOUS
  <1>2. DOMAIN rest = (DOMAIN q) \ {Len(q)} /\ Len(q) \in DOMAIN q
    BY <1>1
  <1> QED
    BY <1>1, <1>2 DEF Deciders, Last

\* The entry below left what the popped one had saved.
LEMMA ChainPopped ==
    ASSUME NEW q \in Seq(Decision), q # <<>>, NEW id,
           NEW rest, rest = SubSeq(q, 1, Len(q) - 1),
           LinkedBelow(q, id)
    PROVE  /\ LinkedBelow(rest, id)
           /\ Decides(Last(q), id) =>
                 EndsIn(rest, id, Last(q).ops[id].prevState,
                        Last(q).ops[id].prevKeepCount,
                        Last(q).ops[id].prevUnsureCount)
           /\ ~Decides(Last(q), id) =>
                 \A state, keepCount, unsureCount :
                     EndsIn(q, id, state, keepCount, unsureCount) =>
                         EndsIn(rest, id, state, keepCount, unsureCount)
  <1> DEFINE n == Len(q)
             T == Deciders(q, id)
             R == Deciders(rest, id)
  <1>1. /\ n \in Nat \ {0} /\ R = T \ {n} /\ T \subseteq 1 .. n
        /\ \A i \in R : rest[i] = q[i]
        /\ Decides(Last(q), id) <=> n \in T
        /\ Last(q) = q[n]
    <2>1. n \in Nat \ {0}
      BY DecidersPopped, Zenon
    <2>2. R = T \ {n}
      BY DecidersPopped, Zenon
    <2>3. T \subseteq 1 .. n
      BY DecidersPopped, Zenon
    <2>4. ASSUME NEW i \in R PROVE rest[i] = q[i]
      <3> HIDE DEF T, R
      <3> QED
        BY <2>1, <2>2, <2>3
    <2>5. Decides(Last(q), id) <=> n \in T
      BY DecidersPopped, Zenon
    <2> QED
      BY <2>1, <2>2, <2>3, <2>4, <2>5 DEF Last
  <1> HIDE DEF n, T, R
  <1>2. LinkedBelow(rest, id)
    <2> SUFFICES ASSUME NEW i \in R, NEW j \in R, i < j,
                        \A k \in R : k <= i \/ j <= k
                 PROVE  Left(rest[i].ops[id], rest[j].ops[id].prevState,
                             rest[j].ops[id].prevKeepCount,
                             rest[j].ops[id].prevUnsureCount)
      BY DEF LinkedBelow, R
    <2>1. \A k \in T : k <= i \/ j <= k
      BY <1>1
    <2> QED
      BY <1>1, <2>1 DEF LinkedBelow, T
  <1>3. ASSUME Decides(Last(q), id)
        PROVE  EndsIn(rest, id, Last(q).ops[id].prevState,
                      Last(q).ops[id].prevKeepCount, Last(q).ops[id].prevUnsureCount)
    <2> SUFFICES ASSUME NEW i \in R, \A k \in R : k <= i
                 PROVE  Left(rest[i].ops[id], q[n].ops[id].prevState,
                             q[n].ops[id].prevKeepCount,
                             q[n].ops[id].prevUnsureCount)
      BY <1>1 DEF EndsIn, R
    <2>1. i \in T /\ n \in T /\ i < n /\ \A k \in T : k <= i \/ n <= k
      BY <1>1, <1>3
    <2> QED
      BY <1>1, <2>1 DEF LinkedBelow, T
  <1>4. ASSUME ~Decides(Last(q), id) PROVE R = T
    BY <1>1, <1>4
  <1> QED
    BY <1>1, <1>2, <1>3, <1>4 DEF EndsIn, R, T

(***************************************************************************)
(* Store values with a sound chain: ids are the photos no rescan dropped.  *)
(***************************************************************************)
Chained(s, ids) == Linked(s, ids) /\ NoUnsureMade(s)

LEMMA ChainedLess ==
    ASSUME NEW s, NEW ids, NEW less \in SUBSET ids, Chained(s, ids)
    PROVE  Chained(s, less)
  BY DEF Chained, Linked

\* A call that leaves the stack and the photos of ids alone.
LEMMA ChainedSame ==
    ASSUME NEW s, NEW u, NEW ids, Chained(s, ids),
           HasSession(u) => HasSession(s) /\ u.session.stack = s.session.stack,
           \A x \in ids : u.photos[x] = s.photos[x]
    PROVE  Chained(u, ids)
  <1>1. NoUnsureMade(u)
    BY DEF Chained, NoUnsureMade
  <1>2. ASSUME HasSession(u), NEW id \in ids PROVE StackLinked(u, id)
    <2>1. StackLinked(s, id)
      BY <1>2 DEF Chained, Linked
    <2> QED
      BY <1>2, <2>1, ChainOf DEF Known
  <1> QED
    BY <1>1, <1>2 DEF Chained, Linked

\* Neither does a call that leaves no entry.
LEMMA ChainedFresh ==
    ASSUME NEW u, NEW ids, u.session = Nil \/ u.session.stack = <<>>
    PROVE  Chained(u, ids)
  <1>1. ASSUME u.session # Nil, NEW id PROVE Deciders(u.session.stack, id) = {}
    BY <1>1 DEF Deciders
  <1> QED
    BY <1>1, Unlinked DEF Chained, Linked, NoUnsureMade, HasSession

\* A photo the store does not know is decided by no entry.
LEMMA ChainedUpsert ==
    ASSUME NEW s, StoreType(s), NEW id \in PhotoIDs,
           NEW ids \in SUBSET PhotoIDs, Chained(s, ids)
    PROVE  Chained(AfterUpsertPhoto(s, id), ids)
  <1> DEFINE u == AfterUpsertPhoto(s, id)
  <1>1. CASE Known(s, id)
    BY <1>1 DEF AfterUpsertPhoto
  <1>2. CASE ~Known(s, id)
    <2>1. /\ u.session = s.session
          /\ \A x \in PhotoIDs : x # id => u.photos[x] = s.photos[x]
      BY <1>2 DEF AfterUpsertPhoto, StoreType, PhotoTables
    <2> HIDE DEF u
    <2>2. Chained(u, ids \ {id})
      <3>1. Chained(s, ids \ {id})
        BY ChainedLess
      <3> QED
        BY <2>1, <3>1, ChainedSame DEF HasSession
    <2>3. ASSUME HasSession(u), id \in ids PROVE StackLinked(u, id)
      <3>1. StackLinked(s, id)
        BY <2>1, <2>3 DEF Chained, Linked, HasSession
      <3> QED
        BY <1>2, <2>1, <3>1, ChainOf, Unlinked
    <2> QED
      BY <2>2, <2>3 DEF Chained, Linked, u
  <1> QED
    BY <1>1, <1>2

LEMMA ChainedForget ==
    ASSUME NEW s, StoreType(s), NEW seen, NEW ids \in SUBSET PhotoIDs,
           Chained(s, ids)
    PROVE  Chained(AfterForgetMissing(s, seen), ids \ Missing(s, seen))
  <1> DEFINE u == AfterForgetMissing(s, seen)
             left == ids \ Missing(s, seen)
  <1>1. u.session = s.session /\ \A x \in left : u.photos[x] = s.photos[x]
    BY DEF AfterForgetMissing, StoreType
  <1>2. Chained(s, left)
    BY ChainedLess
  <1> HIDE DEF u, left
  <1> QED
    BY <1>1, <1>2, ChainedSame DEF HasSession, u, left

LEMMA ChainedPushStep ==
    ASSUME NEW s, StoreType(s), HasSession(s), NEW u, PushStep(s, u),
           NEW ids \in SUBSET PhotoIDs, Chained(s, ids)
    PROVE  Chained(u, ids)
  <1>1. PICK s2, d : /\ Live(s2)
                     /\ d \in Decision
                     /\ EntryOK(d)
                     /\ s2.session.stack = s.session.stack
                     /\ DecidesFrom(s, s2, d)
                     /\ u = Pushed(s2, d, RolledBack(d))
    BY DEF PushStep, Pushes, Prepared
  <1> DEFINE q == s.session.stack
  <1>2. /\ u.session.stack = Append(q, d)
        /\ u.photos = s2.photos
        /\ q \in Seq(Decision)
    <2>1. RolledBack(d) \in Nat
      BY <1>1, RolledBackType
    <2>2. q \in Seq(Decision)
      BY LiveType DEF Live, Session
    <2> QED
      BY <1>1, <2>1, <2>2, PushedType
  <1> HIDE DEF q
  <1>3. NoUnsureMade(u)
    <2> SUFFICES ASSUME NEW i \in DOMAIN Append(q, d), NEW id \in PhotoIDs,
                        Decides(Append(q, d)[i], id)
                 PROVE  Append(q, d)[i].ops[id].newState # "unsure"
      BY <1>2 DEF NoUnsureMade
    <2>1. CASE i = Len(q) + 1
      <3>1. Append(q, d)[i] = d
        BY <1>1, <1>2, <2>1
      <3> QED
        BY <1>1, <3>1 DEF DecidesFrom, Saved
    <2>2. CASE i # Len(q) + 1
      <3>1. i \in DOMAIN q /\ Append(q, d)[i] = q[i]
        BY <1>1, <1>2, <2>2
      <3> QED
        BY <3>1 DEF Chained, NoUnsureMade, q
    <2> QED
      BY <2>1, <2>2
  <1>4. ASSUME NEW id \in ids PROVE StackLinked(u, id)
    <2> DEFINE p == s.photos[id]
               p2 == u.photos[id]
    <2>1. /\ Deciders(q, id) # {} => Known(s, id)
          /\ LinkedBelow(q, id)
          /\ EndsIn(q, id, p.state, p.keepCount, p.unsureCount)
      BY ChainOf DEF Chained, Linked, q
    <2>2. CASE Decides(d, id)
      <3>1. /\ Known(u, id) /\ Saved(d.ops[id], p)
            /\ Left(d.ops[id], p2.state, p2.keepCount, p2.unsureCount)
        BY <1>1, <1>2, <2>2 DEF DecidesFrom, Known
      <3> HIDE DEF p2, p
      <3>2. /\ LinkedBelow(Append(q, d), id)
            /\ EndsIn(Append(q, d), id, p2.state, p2.keepCount, p2.unsureCount)
        BY <1>1, <1>2, <2>1, <2>2, <3>1, ChainPushed DEF Saved
      <3> QED
        BY <1>2, <3>1, <3>2, ChainOf DEF p2
    <2>3. CASE ~Decides(d, id)
      <3>1. p2 = p /\ (Known(u, id) <=> Known(s, id))
        BY <1>1, <1>2, <2>3 DEF DecidesFrom, Known
      <3>2. Deciders(Append(q, d), id) = Deciders(q, id)
        BY <1>1, <1>2, <2>3, DecidersPushed
      <3> HIDE DEF p2, p
      <3>3. /\ LinkedBelow(Append(q, d), id)
            /\ EndsIn(Append(q, d), id, p2.state, p2.keepCount, p2.unsureCount)
        BY <1>1, <1>2, <2>1, <2>3, <3>1, ChainPassed
      <3> QED
        BY <1>2, <2>1, <3>1, <3>2, <3>3, ChainOf DEF p2
    <2> QED
      BY <2>2, <2>3
  <1> QED
    BY <1>3, <1>4 DEF Chained, Linked

LEMMA ChainedUndo ==
    ASSUME NEW s, StoreType(s), CanUndo(s), NEW ids \in SUBSET PhotoIDs,
           Chained(s, ids)
    PROVE  Chained(AfterUndo(s), ids)
  <1> DEFINE u == AfterUndo(s)
             q == s.session.stack
             d == Last(q)
             rest == SubSeq(q, 1, Len(q) - 1)
  <1>1. /\ q \in Seq(Decision) /\ q # <<>> /\ HasSession(s)
        /\ d \in Decision /\ EntryOK(d)
    BY PoppedType DEF CanUndo
  <1>2. /\ u.session.stack = rest
        /\ UndoFails(s) => u.photos = s.photos
        /\ ~UndoFails(s) => u.photos = PhotosUndone(s, d)
    BY UndoFields, Zenon
  <1>3. \A i \in DOMAIN rest : i \in DOMAIN q /\ rest[i] = q[i]
    BY <1>1
  <1>4. UndoFails(s) => d.kind = "decision" /\ ~Known(s, d.photo)
    BY DEF UndoFails
  <1>5. rest = SubSeq(q, 1, Len(q) - 1) /\ d = Last(q)
    OBVIOUS
  <1> HIDE DEF u, rest, d
  <1>6. NoUnsureMade(u)
    BY <1>1, <1>2, <1>3 DEF Chained, NoUnsureMade
  <1>7. ASSUME NEW id \in ids PROVE StackLinked(u, id)
    <2> DEFINE p == s.photos[id]
               p2 == u.photos[id]
    <2>1. /\ Deciders(q, id) # {} => Known(s, id)
          /\ LinkedBelow(q, id)
          /\ EndsIn(q, id, p.state, p.keepCount, p.unsureCount)
      BY <1>1, ChainOf DEF Chained, Linked
    <2>2. /\ Deciders(rest, id) \subseteq Deciders(q, id)
          /\ Decides(d, id) => Deciders(q, id) # {}
      <3> HIDE DEF q, Deciders
      <3>1. Deciders(rest, id) = Deciders(q, id) \ {Len(q)}
        BY <1>1, <1>5, DecidersPopped
      <3>2. Decides(Last(q), id) <=> Len(q) \in Deciders(q, id)
        BY <1>1, <1>5, DecidersPopped
      <3> QED
        BY <1>5, <3>1, <3>2
    <2> HIDE DEF q, p, p2
    <2>3. /\ LinkedBelow(rest, id)
          /\ Decides(d, id) =>
                EndsIn(rest, id, d.ops[id].prevState, d.ops[id].prevKeepCount,
                       d.ops[id].prevUnsureCount)
          /\ ~Decides(d, id) =>
                EndsIn(rest, id, p.state, p.keepCount, p.unsureCount)
      BY <1>1, <1>5, <2>1, ChainPopped
    <2>4. CASE Decides(d, id)
      <3>1. id \in Touched(d) /\ ~IsSkip(d) /\ id \in PhotoIDs
        BY <2>4 DEF Decides, Touched
      <3>2. Known(s, id)
        BY <2>1, <2>2, <2>4
      <3>3. ~UndoFails(s)
        BY <1>1, <1>4, <3>1, <3>2 DEF EntryOK
      <3>4. p2 = Reverted(p, d.ops[id])
        BY <1>2, <3>1, <3>2, <3>3 DEF PhotosUndone, p, p2
      <3>5. p \in Photo /\ d.ops[id] \in MemberOp /\ d.ops[id].prevState \in States
        BY <1>1, <3>1, <3>2, PhotoType DEF Decision, EntryOK, Touched, p
      <3>6. /\ p2 \in Photo
            /\ p2.state = d.ops[id].prevState
            /\ p2.keepCount = d.ops[id].prevKeepCount
            /\ p2.unsureCount = d.ops[id].prevUnsureCount
        BY <3>4, <3>5, RevertedType DEF Reverted, Photo
      <3>7. Known(u, id)
        BY <3>6, NilAssumption DEF Known, p2
      <3> QED
        BY <1>2, <2>3, <2>4, <3>6, <3>7, ChainOf DEF p2
    <2>5. CASE ~Decides(d, id)
      <3>1. p2 = p
        BY <1>2, <2>5 DEF PhotosUndone, Decides, Touched, p, p2
      <3>2. Known(u, id) <=> Known(s, id)
        BY <3>1 DEF Known, p, p2
      <3> QED
        BY <1>2, <2>1, <2>2, <2>3, <2>5, <3>1, <3>2, ChainOf DEF p2
    <2> QED
      BY <2>4, <2>5
  <1> QED
    BY <1>6, <1>7 DEF Chained, Linked, u

\* A photo an entry decides is not "unsure", so load leaves it alone.
LEMMA ChainedOpened ==
    ASSUME NEW f, StoreType(f), NEW t, NEW ids \in SUBSET PhotoIDs,
           Chained(f, ids)
    PROVE  Chained(Opened(f, t), ids)
  <1> DEFINE u == Loaded(f)
             q == f.session.stack
             q2 == u.session.stack
  <1>1. CASE f.session = Nil
    <2>1. u.session = Nil /\ StoreType(u)
      BY <1>1, LoadedFields
    <2>2. Opened(f, t).session = Nil
      BY <2>1, SessionReplaced DEF Opened, IsSession
    <2> QED
      BY <2>2, ChainedFresh
  <1>2. CASE f.session # Nil
    <2>1. /\ DOMAIN q2 = DOMAIN q
          /\ \A i \in DOMAIN q : q2[i].ops = q[i].ops
          /\ \A i \in DOMAIN q : \A id : Decides(q2[i], id) <=> Decides(q[i], id)
      BY <1>2, LoadedStack
    <2>2. \A x \in PhotoIDs :
             /\ u.photos[x] = IF Known(f, x) /\ f.photos[x].state = "unsure"
                              THEN [f.photos[x] EXCEPT !.state = "unsorted"]
                              ELSE f.photos[x]
             /\ Known(f, x) => Known(u, x)
      <3>1. \A x \in PhotoIDs :
               u.photos[x] = IF Known(f, x) /\ f.photos[x].state = "unsure"
                             THEN [f.photos[x] EXCEPT !.state = "unsorted"]
                             ELSE f.photos[x]
        <4>1. u.photos =
                 [x \in PhotoIDs |->
                     IF Known(f, x) /\ f.photos[x].state = "unsure"
                     THEN [f.photos[x] EXCEPT !.state = "unsorted"]
                     ELSE f.photos[x]]
          BY LoadedFields, Zenon
        <4> HIDE DEF u
        <4> QED
          BY <4>1
      <3>2. \A x \in PhotoIDs : Known(f, x) =>
               [f.photos[x] EXCEPT !.state = "unsorted"] \in Photo
        BY PhotoType DEF Photo, States
      <3> HIDE DEF u
      <3> QED
        BY <3>1, <3>2, NilAssumption DEF Known
    <2> HIDE DEF u, q, q2
    <2>3. NoUnsureMade(u)
      BY <1>2, <2>1 DEF Chained, NoUnsureMade, HasSession, q, q2
    <2>4. ASSUME NEW id \in ids PROVE StackLinked(u, id)
      <3> DEFINE p == f.photos[id]
                 p2 == u.photos[id]
      <3>1. /\ Deciders(q, id) # {} => Known(f, id)
            /\ LinkedBelow(q, id)
            /\ EndsIn(q, id, p.state, p.keepCount, p.unsureCount)
        BY <1>2, ChainOf DEF Chained, Linked, HasSession, q
      <3>2. Deciders(q2, id) = Deciders(q, id)
        BY <2>1 DEF Deciders
      <3>3. \A i \in Deciders(q, id) :
               /\ q2[i].ops = q[i].ops
               /\ q[i].ops[id].newState # "unsure"
        BY <1>2, <2>1 DEF Chained, NoUnsureMade, HasSession, Deciders, q
      <3>4. LinkedBelow(q2, id)
        BY <3>1, <3>2, <3>3 DEF LinkedBelow
      <3>5. EndsIn(q2, id, p2.state, p2.keepCount, p2.unsureCount)
        <4> SUFFICES ASSUME NEW i \in Deciders(q, id),
                            \A k \in Deciders(q, id) : k <= i
                     PROVE  Left(q2[i].ops[id], p2.state, p2.keepCount,
                                 p2.unsureCount)
          BY <3>2 DEF EndsIn
        <4>1. Left(q[i].ops[id], p.state, p.keepCount, p.unsureCount)
          BY <3>1 DEF EndsIn
        <4>2. p.state # "unsure"
          BY <3>3, <4>1 DEF Left
        <4>3. p2 = p
          BY <2>2, <4>2
        <4> QED
          BY <3>3, <4>1, <4>3
      <3>6. Deciders(q2, id) # {} => Known(u, id)
        BY <2>2, <3>1, <3>2
      <3> HIDE DEF p2
      <3> QED
        BY <3>4, <3>5, <3>6, ChainOf DEF p2, q2
    <2>5. Chained(u, ids)
      BY <2>3, <2>4 DEF Chained, Linked
    <2>6. CASE DropsSession(f, t)
      <3>1. StoreType(u)
        BY LoadedFields DEF u
      <3>2. Opened(f, t).session = Nil
        BY <2>6, <3>1, SessionReplaced DEF Opened, IsSession, u
      <3> QED
        BY <3>2, ChainedFresh
    <2>7. CASE ~DropsSession(f, t)
      BY <2>5, <2>7 DEF Opened, u
    <2> QED
      BY <2>6, <2>7
  <1> QED
    BY <1>1, <1>2

-----------------------------------------------------------------------------
(***************************************************************************)
(* The chain in every behaviour.                                           *)
(***************************************************************************)
StackInv ==
    /\ Chained(mem, PhotoIDs \ forgotten)
    /\ Chained(disk, PhotoIDs \ forgotten)

LEMMA StackInit == Init => StackInv
  <1> SUFFICES ASSUME Init PROVE StackInv
    OBVIOUS
  <1>1. PICK f \in StateFiles : Start(f)
    BY DEF Init
  <1>2. StoreType(f) /\ Chained(f, PhotoIDs)
    BY StateFilesAssumption DEF FileOK, Chained
  <1>3. Chained(Opened(f, now), PhotoIDs)
    BY <1>2, ChainedOpened
  <1>4. forgotten = {}
    BY DEF Init
  <1> QED
    BY <1>1, <1>2, <1>3, <1>4 DEF StackInv, Start

LEMMA StackNext == TypeOK /\ StackInv /\ [Next]_vars => StackInv'
  <1> DEFINE ids == PhotoIDs \ forgotten
  <1> SUFFICES ASSUME TypeOK, StackInv, [Next]_vars PROVE StackInv'
    OBVIOUS
  <1>0. /\ StoreType(mem) /\ StoreType(disk) /\ now \in 0 .. MaxNow
        /\ now \in Nat /\ Chained(mem, ids) /\ Chained(disk, ids)
        /\ ids \in SUBSET PhotoIDs
    BY ConstantsAssumption DEF TypeOK, StackInv
  <1>a. ASSUME NEW u, Chained(u, ids), StoreCall(u) PROVE StackInv'
    BY <1>0, <1>a DEF StoreCall, Commit, StackInv
  <1>1. ASSUME NEW id \in PhotoIDs, UpsertPhoto(id) PROVE StackInv'
    <2>1. Chained(AfterUpsertPhoto(mem, id), ids)
      BY <1>0, ChainedUpsert
    <2> QED
      BY <1>0, <1>1, <2>1 DEF UpsertPhoto, StackInv
  <1>2. ASSUME NEW seen \in SUBSET PhotoIDs, ForgetMissing(seen) PROVE StackInv'
    <2> DEFINE left == ids \ Missing(mem, seen)
    <2>1. Chained(AfterForgetMissing(mem, seen), left)
      BY <1>0, ChainedForget
    <2>2. Chained(disk, left)
      BY <1>0, ChainedLess
    <2>3. left = PhotoIDs \ forgotten'
      BY <1>2 DEF ForgetMissing
    <2> HIDE DEF left
    <2> QED
      BY <1>2, <2>1, <2>2, <2>3 DEF ForgetMissing, Commit, StackInv
  <1>3. ASSUME AutoStartSession PROVE StackInv'
    <2> DEFINE u == AfterAutoStartSession(mem, now)
    <2>1. u.session.stack = <<>>
      BY <1>0 DEF AfterAutoStartSession, AfterStartSession, StoreType
    <2> HIDE DEF u
    <2> QED
      BY <1>3, <1>a, <2>1, ChainedFresh DEF AutoStartSession, u
  <1>4. ASSUME EndSession PROVE StackInv'
    <2>1. AfterEndSession(mem).session = Nil
      BY <1>0 DEF AfterEndSession, StoreType
    <2> QED
      BY <1>4, <1>a, <2>1, ChainedFresh DEF EndSession
  <1>5. ASSUME NEW delta \in Batches, SessionExtend(delta) PROVE StackInv'
    <2> DEFINE u == AfterSessionExtend(mem, delta)
    <2>1. mem.session \in Session(mem.session.recentlySkipped) /\ HasSession(mem)
      BY <1>0, <1>5, LiveType DEF Live, SessionExtend
    <2>2. u.session.stack = mem.session.stack /\ u.photos = mem.photos
      BY <1>0, <2>1 DEF AfterSessionExtend, StoreType, Session
    <2> HIDE DEF u
    <2>3. Chained(u, ids)
      BY <1>0, <2>1, <2>2, ChainedSame
    <2> QED
      BY <1>5, <1>a, <2>3 DEF SessionExtend, u
  <1>6. ASSUME NEW id \in PhotoIDs, NEW req \in MemberRequest,
               RecordDecision(id, req.newState, req.trashTo)
        PROVE  StackInv'
    <2>1. HasSession(mem) /\ CanDecide(mem, id)
      BY <1>6 DEF RecordDecision, CanDecide
    <2>2. Chained(AfterRecordDecision(mem, id, req.newState, req.trashTo, now), ids)
      BY <1>0, <2>1, RecordDecisionPushes, ChainedPushStep
    <2> QED
      BY <1>6, <1>a, <2>2 DEF RecordDecision
  <1>7. ASSUME NEW id \in PhotoIDs, RecordSkip(id) PROVE StackInv'
    <2>1. HasSession(mem) /\ CanDecide(mem, id)
      BY <1>7 DEF RecordSkip, CanDecide
    <2>2. Chained(AfterRecordSkip(mem, id, now), ids)
      BY <1>0, <2>1, RecordSkipPushes, ChainedPushStep
    <2> QED
      BY <1>7, <1>a, <2>2 DEF RecordSkip
  <1>8. ASSUME NEW clusterID \in PhotoIDs, NEW list \in MemberLists,
               SkipCluster(clusterID, list)
        PROVE  StackInv'
    <2>1. list \in Seq(PhotoIDs) /\ HasSession(mem)
      BY <1>8 DEF MemberLists, SkipCluster
    <2>2. Chained(AfterSkipCluster(mem, clusterID, list, now), ids)
      BY <1>0, <2>1, SkipClusterPushes, ChainedPushStep
    <2> QED
      BY <1>8, <1>a, <2>2 DEF SkipCluster
  <1>9. ASSUME NEW clusterID \in PhotoIDs, NEW req \in ClusterRequests,
               RecordClusterDecision(clusterID, req)
        PROVE  StackInv'
    <2>1. HasSession(mem) /\ CanDecideCluster(mem, req)
      BY <1>9 DEF RecordClusterDecision, CanDecideCluster
    <2>2. Chained(AfterRecordClusterDecision(mem, clusterID, req, now), ids)
      BY <1>0, <2>1, RecordClusterDecisionPushes, ChainedPushStep
    <2> QED
      BY <1>9, <1>a, <2>2 DEF RecordClusterDecision
  <1>10. ASSUME Undo PROVE StackInv'
    <2>1. Chained(AfterUndo(mem), ids)
      BY <1>0, <1>10, ChainedUndo DEF Undo
    <2> QED
      BY <1>0, <1>10, <1>a, <2>1 DEF Undo, StackInv
  <1>11. ASSUME NEW ns \in SettingsChoices, UpdateSettings(ns) PROVE StackInv'
    <2> DEFINE u == AfterUpdateSettings(mem, ns)
    <2>1. u.session = mem.session /\ u.photos = mem.photos
      BY <1>0 DEF AfterUpdateSettings, StoreType
    <2> HIDE DEF u
    <2>2. Chained(u, ids)
      BY <1>0, <2>1, ChainedSame DEF HasSession
    <2> QED
      BY <1>11, <1>a, <2>2 DEF UpdateSettings, u
  <1>12. ASSUME Crash \/ Shutdown PROVE StackInv'
    <2>1. Chained(Opened(mem, now), ids) /\ Chained(Opened(disk, now), ids)
      BY <1>0, ChainedOpened
    <2> QED
      BY <1>0, <1>12, <2>1 DEF Crash, Shutdown, Reopen, StackInv
  <1>13. ASSUME Tick \/ UNCHANGED vars PROVE StackInv'
    BY <1>0, <1>13 DEF Tick, vars, StackInv
  <1>14. /\ \A path \in TrashPaths :
              [newState |-> "trashed", trashTo |-> path] \in MemberRequest
         /\ [newState |-> "kept", trashTo |-> Nil] \in MemberRequest
    BY DEF MemberRequest
  <1> QED
    BY <1>1, <1>2, <1>3, <1>4, <1>5, <1>6, <1>7, <1>8, <1>9, <1>10, <1>11,
       <1>12, <1>13, <1>14 DEF Next

\* In every behaviour the entries that decide a photo no rescan dropped form a
\* chain that ends in the photo as it is (UndoStackLinked): undoing the batch
\* leads every photo back to where it stood when the batch began, through
\* rescans, restarts and lost saves.
THEOREM StackCorrect == Spec => []UndoStackLinked
  <1>1. StackInv => UndoStackLinked
    BY DEF StackInv, UndoStackLinked, Chained
  <1> QED
    BY <1>1, TypeCorrect, StackInit, StackNext, PTL DEF Spec

-----------------------------------------------------------------------------
(***************************************************************************)
(* An undo right after a call.                                             *)
(***************************************************************************)
LEMMA LastAppended ==
    ASSUME NEW D, NEW q \in Seq(D), NEW d
    PROVE  /\ Last(Append(q, d)) = d
           /\ SubSeq(Append(q, d), 1, Len(Append(q, d)) - 1) = q
  <1>1. q \in Seq(D \cup {d}) /\ d \in D \cup {d}
    OBVIOUS
  <1> DEFINE E == D \cup {d}
  <1> HIDE DEF E
  <1>2. q \in Seq(E) /\ d \in E
    BY <1>1 DEF E
  <1>3. /\ Append(q, d) \in Seq(E) /\ Len(Append(q, d)) = Len(q) + 1
        /\ Len(q) \in Nat
        /\ \A i \in 1 .. Len(q) : Append(q, d)[i] = q[i]
        /\ Append(q, d)[Len(q) + 1] = d
    BY <1>2
  <1>4. SubSeq(Append(q, d), 1, Len(q)) = q
    <2>1. SubSeq(Append(q, d), 1, Len(q)) = [i \in 1 .. Len(q) |-> q[i]]
      BY <1>3
    <2>2. q = [i \in 1 .. Len(q) |-> q[i]]
      BY <1>2
    <2> QED BY <2>1, <2>2
  <1> QED BY <1>3, <1>4 DEF Last

\* The session after the entry d was pushed and popped again.
FifoUnskipped(sess, d) ==
    IF IsSkip(d) THEN Unskipped(sess.recentlySkipped, UndoneMembers(d))
    ELSE sess.recentlySkipped

\* The undo of the entry just pushed takes the entry and its amount away again.
LEMMA PushedUndone ==
    ASSUME NEW s, Live(s), NEW d, Day(d.at) \in Days, RolledBack(d) \in Nat,
           d.kind = "decision" => Known(s, d.photo)
    PROVE  AfterUndo(Pushed(s, d, RolledBack(d)))
             = [s EXCEPT !.session = [s.session EXCEPT
                                         !.recentlySkipped = FifoUnskipped(s.session, d)],
                         !.photos = PhotosUndone(s, d)]
  <1> DEFINE n == RolledBack(d)
             sess == s.session
             q == sess.stack
             fifo == FifoUnskipped(sess, d)
             sess1 == [sess EXCEPT !.stack = Append(q, d), !.done = @ + n]
             daily1 == [s.daily EXCEPT ![Day(d.at)] = @ + n]
             u == Pushed(s, d, n)
             sess2 == [sess1 EXCEPT !.stack = SubSeq(@, 1, Len(@) - 1),
                                    !.done = Minus(@, n),
                                    !.recentlySkipped = fifo]
             daily2 == [daily1 EXCEPT ![Day(d.at)] = Minus(@, n)]
  <1>1. /\ s \in [photos: PhotoTables, session: {sess}, settings: Settings,
                  daily: [Days -> Nat], lastBatchDone: Nat]
        /\ sess \in [target: Nat, done: Nat, mix: Mixes, startedAt: Nat,
                     stack: Seq(Decision), recentlySkipped: {sess.recentlySkipped}]
        /\ q \in Seq(Decision)
    BY DEF Live, Session
  <1>2. Last(Append(q, d)) = d /\ SubSeq(Append(q, d), 1, Len(Append(q, d)) - 1) = q
    BY <1>1, LastAppended
  <1>3. u = [s EXCEPT !.session = sess1, !.daily = daily1]
    BY <1>1 DEF Pushed
  <1> HIDE DEF n, fifo
  <1>4. /\ sess1.stack = Append(q, d) /\ sess1.done = sess.done + n
        /\ sess1.recentlySkipped = sess.recentlySkipped
    BY <1>1
  <1>5. sess2 = [sess EXCEPT !.recentlySkipped = fifo]
    <2>1. SubSeq(sess1.stack, 1, Len(sess1.stack) - 1) = q
      BY <1>2, <1>4
    <2>2. Minus(sess1.done, n) = sess.done
      <3>1. n \in Nat /\ sess.done \in Nat
        BY <1>1 DEF n
      <3> QED BY <1>4, <3>1 DEF Minus
    <2>3. sess2 = [sess1 EXCEPT !.stack = q, !.done = sess.done,
                                !.recentlySkipped = fifo]
      BY <2>1, <2>2
    <2> QED BY <1>1, <2>3
  <1>6. daily2 = s.daily
    <2>1. n \in Nat /\ s.daily \in [Days -> Nat]
      BY <1>1 DEF n
    <2>2. Minus(s.daily[Day(d.at)] + n, n) = s.daily[Day(d.at)]
      BY <2>1 DEF Minus
    <2>3. daily2 = [s.daily EXCEPT ![Day(d.at)] = Minus(s.daily[Day(d.at)] + n, n)]
      BY <2>1
    <2> QED BY <2>1, <2>2, <2>3
  <1>7. /\ u.session = sess1 /\ u.daily = daily1 /\ u.photos = s.photos
        /\ Last(u.session.stack) = d
    BY <1>1, <1>2, <1>3, <1>4
  <1>8. ~UndoFails(u)
    BY <1>7 DEF UndoFails, Known
  <1>9. AfterUndo(u) = [u EXCEPT !.session = sess2, !.daily = daily2,
                                 !.photos = PhotosUndone(s, d)]
    <2>1. fifo = IF IsSkip(d) THEN Unskipped(u.session.recentlySkipped, UndoneMembers(d))
                 ELSE u.session.recentlySkipped
      BY <1>4, <1>7 DEF fifo, FifoUnskipped
    <2>2. PhotosUndone(s, d) = [x \in PhotoIDs |->
                                  IF ~IsSkip(d) /\ x \in Touched(d) /\ Known(u, x)
                                  THEN Reverted(u.photos[x], d.ops[x])
                                  ELSE u.photos[x]]
      BY <1>7 DEF PhotosUndone, Known
    <2>3. /\ u \in [photos: PhotoTables, session: {sess1}, settings: Settings,
                    daily: {daily1}, lastBatchDone: Nat]
          /\ sess1 \in [target: Nat, done: {sess1.done}, mix: Mixes, startedAt: Nat,
                        stack: {sess1.stack}, recentlySkipped: {sess.recentlySkipped}]
          /\ daily1 = [day \in Days |-> daily1[day]]
      BY <1>1, <1>3
    <2> HIDE DEF u, sess1, daily1
    <2> DEFINE popped == [u EXCEPT !.session.stack = SubSeq(@, 1, Len(@) - 1)]
               members == UndoneMembers(d)
    <2>4. AfterUndo(u) = [popped EXCEPT
                            !.session.done = Minus(@, n),
                            !.daily[Day(d.at)] = Minus(@, n),
                            !.session.recentlySkipped =
                                IF IsSkip(d) THEN Unskipped(@, members) ELSE @,
                            !.photos = PhotosUndone(s, d)]
      <3> DEFINE e == Last(u.session.stack)
                 back(f) == [x \in PhotoIDs |->
                               IF ~IsSkip(f) /\ x \in Touched(f) /\ Known(u, x)
                               THEN Reverted(u.photos[x], f.ops[x])
                               ELSE u.photos[x]]
      <3>1. AfterUndo(u) = [popped EXCEPT
                              !.session.done = Minus(@, RolledBack(e)),
                              !.daily[Day(e.at)] = Minus(@, RolledBack(e)),
                              !.session.recentlySkipped =
                                  IF IsSkip(e) THEN Unskipped(@, UndoneMembers(e)) ELSE @,
                              !.photos = back(e)]
        BY <1>8 DEF AfterUndo
      <3>2. e = d /\ PhotosUndone(s, d) = back(d)
        BY <1>7, <2>2
      <3> HIDE DEF e, back, popped
      <3> QED BY <3>1, <3>2 DEF n
    <2>5. popped.session.recentlySkipped = u.session.recentlySkipped
      BY <1>7, <2>3
    <2> HIDE DEF popped, members
    <2>6. AfterUndo(u) = [popped EXCEPT
                            !.session.done = Minus(@, n),
                            !.daily[Day(d.at)] = Minus(@, n),
                            !.session.recentlySkipped = fifo,
                            !.photos = PhotosUndone(s, d)]
      BY <2>1, <2>4, <2>5 DEF members
    <2> QED BY <1>7, <2>3, <2>6 DEF popped
  <1> HIDE DEF u, sess1, sess2, daily1, daily2
  <1>10. AfterUndo(u) = [s EXCEPT !.session = sess2, !.photos = PhotosUndone(s, d)]
    BY <1>1, <1>3, <1>6, <1>9
  <1> QED BY <1>5, <1>10 DEF u, n, fifo

\* A call that decides the photos X as r asks, undone.
LEMMA DecidedUndone ==
    ASSUME NEW s, StoreType(s), HasSession(s), NEW X \in SUBSET PhotoIDs,
           \A x \in X : Known(s, x), NEW r \in [X -> MemberRequest],
           NEW t \in 0 .. MaxNow, NEW d, ~IsSkip(d), d.at = t, RolledBack(d) \in Nat,
           d.kind = "decision" => d.photo \in X,
           \A x \in PhotoIDs :
              d.ops[x] = IF x \in X
                         THEN Op(s.photos[x], r[x].newState, r[x].trashTo)
                         ELSE Nil,
           NEW photos, photos = [x \in PhotoIDs |-> photos[x]],
           \A x \in PhotoIDs :
              photos[x] = IF x \in X
                          THEN Decided(s.photos[x], r[x].newState, r[x].trashTo, t)
                          ELSE s.photos[x]
    PROVE  Restorable(AfterUndo(Pushed([s EXCEPT !.photos = photos], d, RolledBack(d))))
             = Restorable(s)
  <1> DEFINE s2 == [s EXCEPT !.photos = photos]
             back == PhotosUndone(s2, d)
             v == [s2 EXCEPT !.session = [s2.session EXCEPT
                                !.recentlySkipped = FifoUnskipped(s2.session, d)],
                             !.photos = back]
  <1>0. t \in Nat /\ Day(d.at) \in Days
    BY DayInDays, ConstantsAssumption
  <1>1. \A x \in X : s.photos[x] \in Photo
    BY PhotoType
  <1>2. ASSUME NEW x \in X
        PROVE  LET p == s.photos[x]
                   op == Op(p, r[x].newState, r[x].trashTo)
                   p2 == Decided(p, r[x].newState, r[x].trashTo, t)
               IN  /\ p2 \in Photo /\ op # Nil /\ Reverted(p2, op) \in Photo
                   /\ [Reverted(p2, op) EXCEPT !.lastDecisionAt = 0, !.trashedPath = Nil]
                        = [p EXCEPT !.lastDecisionAt = 0, !.trashedPath = Nil]
    <2> DEFINE p == s.photos[x]
               op == Op(p, r[x].newState, r[x].trashTo)
               p2 == Decided(p, r[x].newState, r[x].trashTo, t)
    <2>1. p \in Photo /\ r[x] \in MemberRequest
      BY <1>1, <1>2
    <2>2. p2 \in Photo
      BY <1>0, <2>1, DecidedType
    <2>3. op \in MemberOp /\ op.prevState \in States /\ op # Nil
      BY <2>1, OpType
    <2>4. Reverted(p2, op) \in Photo
      BY <2>2, <2>3, RevertedType
    <2>5. /\ op.prevState = p.state /\ op.prevKeepCount = p.keepCount
          /\ op.prevUnsureCount = p.unsureCount
      BY DEF Op
    <2> HIDE DEF p, op, p2
    <2>6. [Reverted(p2, op) EXCEPT !.lastDecisionAt = 0, !.trashedPath = Nil]
            = [p EXCEPT !.lastDecisionAt = 0, !.trashedPath = Nil]
      BY <2>1, <2>2, <2>4, <2>5 DEF Reverted, Photo
    <2> QED BY <2>2, <2>3, <2>4, <2>6 DEF p, op, p2
  <1>3. photos \in PhotoTables
    <2>1. ASSUME NEW x \in PhotoIDs PROVE photos[x] \in Photo \cup {Nil}
      <3>1. CASE x \in X
        <4> DEFINE w == Decided(s.photos[x], r[x].newState, r[x].trashTo, t)
        <4>1. w \in Photo
          BY <1>2, <3>1
        <4>2. photos[x] = w
          BY <3>1
        <4> HIDE DEF w
        <4> QED BY <4>1, <4>2
      <3>2. CASE x \notin X
        BY <3>2 DEF StoreType, PhotoTables
      <3> QED BY <3>1, <3>2
    <2> QED BY <2>1 DEF PhotoTables
  <1>4. /\ Live(s2) /\ s2.session = s.session /\ s2.daily = s.daily
        /\ s2.photos = photos
    <2>1. /\ StoreType(s2) /\ s2.session = s.session /\ s2.daily = s.daily
          /\ s2.photos = photos
      BY <1>3, PhotosReplaced
    <2> HIDE DEF s2
    <2>2. HasSession(s2)
      BY <2>1 DEF HasSession
    <2> QED BY <2>1, <2>2, LiveType
  <1>5. \A x \in X : Known(s2, x)
    <2> HIDE DEF s2
    <2>1. ASSUME NEW x \in X PROVE photos[x] \in Photo
      <3> DEFINE w == Decided(s.photos[x], r[x].newState, r[x].trashTo, t)
      <3>1. w \in Photo
        BY <1>2
      <3>2. x \in PhotoIDs
        OBVIOUS
      <3> HIDE DEF w
      <3>3. photos[x] = w
        BY <3>2 DEF w
      <3> QED BY <3>1, <3>3
    <2>2. Nil \notin Photo
      BY NilAssumption
    <2>3. ASSUME NEW x \in X PROVE s2.photos[x] # Nil
      <3>1. photos[x] \in Photo /\ s2.photos[x] = photos[x]
        BY <1>4, <2>1, Zenon
      <3> QED BY <2>2, <3>1, Zenon
    <2> QED BY <2>3 DEF Known
  <1>6. AfterUndo(Pushed(s2, d, RolledBack(d))) = v
    BY <1>0, <1>4, <1>5, PushedUndone
  <1>7. [s2.session EXCEPT !.recentlySkipped = FifoUnskipped(s2.session, d)] = s.session
    <2> HIDE DEF s2
    <2> DEFINE sess == s2.session
    <2>1. /\ sess \in [target: Nat, done: Nat, mix: Mixes, startedAt: Nat,
                       stack: Seq(Decision), recentlySkipped: {sess.recentlySkipped}]
          /\ FifoUnskipped(sess, d) = sess.recentlySkipped
      BY <1>4 DEF FifoUnskipped, Live, Session
    <2> HIDE DEF sess
    <2>2. [sess EXCEPT !.recentlySkipped = FifoUnskipped(sess, d)] = sess
      BY <2>1
    <2> QED BY <1>4, <2>2 DEF sess
  <1>8. v.session = s.session /\ v.daily = s.daily /\ v.photos = back
    <2> HIDE DEF s2, back
    <2>1. s2 \in [photos: PhotoTables, session: {s.session}, settings: Settings,
                  daily: [Days -> Nat], lastBatchDone: Nat]
      BY <1>4 DEF Live
    <2>2. v = [s2 EXCEPT !.session = s.session, !.photos = back]
      BY <1>7
    <2> HIDE DEF v
    <2> QED BY <1>4, <2>1, <2>2
  <1>9. \A x \in PhotoIDs :
           back[x] = IF x \in X
                     THEN Reverted(Decided(s.photos[x], r[x].newState, r[x].trashTo, t),
                                   Op(s.photos[x], r[x].newState, r[x].trashTo))
                     ELSE s.photos[x]
    <2>1. \A x \in PhotoIDs : x \in Touched(d) <=> x \in X
      BY <1>2 DEF Touched
    <2> HIDE DEF s2
    <2> QED BY <1>4, <1>5, <2>1 DEF PhotosUndone
  <1> HIDE DEF v, back
  <1>10. \A x \in PhotoIDs :
            (IF Known(v, x)
             THEN [v.photos[x] EXCEPT !.lastDecisionAt = 0, !.trashedPath = Nil] ELSE Nil)
            = IF Known(s, x)
              THEN [s.photos[x] EXCEPT !.lastDecisionAt = 0, !.trashedPath = Nil] ELSE Nil
    <2> SUFFICES ASSUME NEW x \in PhotoIDs
                 PROVE  (IF Known(v, x)
                         THEN [v.photos[x] EXCEPT !.lastDecisionAt = 0, !.trashedPath = Nil]
                         ELSE Nil)
                        = IF Known(s, x)
                          THEN [s.photos[x] EXCEPT !.lastDecisionAt = 0, !.trashedPath = Nil]
                          ELSE Nil
      OBVIOUS
    <2>1. CASE x \in X
      <3> DEFINE w == Reverted(Decided(s.photos[x], r[x].newState, r[x].trashTo, t),
                               Op(s.photos[x], r[x].newState, r[x].trashTo))
      <3>1. v.photos[x] = w
        BY <1>8, <1>9, <2>1
      <3>2. /\ w \in Photo
            /\ [w EXCEPT !.lastDecisionAt = 0, !.trashedPath = Nil]
                 = [s.photos[x] EXCEPT !.lastDecisionAt = 0, !.trashedPath = Nil]
        BY <1>2, <2>1
      <3> HIDE DEF w
      <3>3. Known(v, x) /\ Known(s, x)
        BY <2>1, <3>1, <3>2, NilAssumption DEF Known
      <3> QED BY <3>1, <3>2, <3>3
    <2>2. CASE x \notin X
      BY <1>8, <1>9, <2>2 DEF Known
    <2> QED BY <2>1, <2>2
  <1>11. Restorable(v) = Restorable(s)
    BY <1>8, <1>10 DEF Restorable
  <1> QED BY <1>6, <1>11

\* ids lists the members of M, each of them once.
Lists(ids, M) ==
    /\ ids \in Seq(PhotoIDs)
    /\ \A i, j \in DOMAIN ids : ids[i] = ids[j] => i = j
    /\ \A x : x \in M <=> \E i \in DOMAIN ids : ids[i] = x

\* A call that appends ids to the list of skipped photos, undone.
LEMMA UnskippedAppended ==
    ASSUME NEW q \in Seq(PhotoIDs), NEW ids, NEW M, Lists(ids, M)
    PROVE  Unskipped(q \o ids, M) = q
  <1> DEFINE w == q \o ids
             n == Len(q)
             m == Len(ids)
             gone(i) == w[i] \in M /\ \A j \in (i + 1) .. Len(w) : w[j] # w[i]
             kept == {i \in DOMAIN w : ~gone(i)}
             nth(k) == CHOOSE i \in kept : Cardinality({j \in kept : j <= i}) = k
  <1>1. /\ n \in Nat /\ m \in Nat /\ Len(w) = n + m /\ DOMAIN w = 1 .. n + m
        /\ \A i \in 1 .. n : w[i] = q[i]
        /\ \A i \in 1 .. m : w[n + i] = ids[i]
        /\ DOMAIN ids = 1 .. m
    BY DEF Lists
  <1>0. /\ \A i, j \in 1 .. m : ids[i] = ids[j] => i = j
        /\ \A x : x \in M <=> \E i \in 1 .. m : ids[i] = x
    BY <1>1 DEF Lists
  <1>2. Unskipped(w, M) = [k \in 1 .. Cardinality(kept) |-> w[nth(k)]]
    BY DEF Unskipped
  <1> HIDE DEF w, n, m
  <1>3. ASSUME NEW i \in 1 .. n PROVE ~gone(i)
    <2> SUFFICES ASSUME w[i] \in M PROVE \E j \in (i + 1) .. Len(w) : w[j] = w[i]
      OBVIOUS
    <2>1. PICK k \in 1 .. m : ids[k] = w[i]
      BY <1>0
    <2>2. n + k \in (i + 1) .. Len(w) /\ w[n + k] = w[i]
      BY <1>1, <2>1
    <2> QED BY <2>2
  <1>4. ASSUME NEW i \in (n + 1) .. (n + m) PROVE gone(i)
    <2>1. i - n \in 1 .. m /\ w[i] = ids[i - n]
      <3>1. i - n \in 1 .. m /\ n + (i - n) = i
        BY <1>1
      <3> QED BY <1>1, <3>1
    <2>2. w[i] \in M
      BY <1>0, <2>1
    <2>3. ASSUME NEW j \in (i + 1) .. Len(w) PROVE w[j] # w[i]
      <3>1. j - n \in 1 .. m /\ n + (j - n) = j /\ j - n # i - n
        BY <1>1
      <3>2. w[j] = ids[j - n]
        BY <1>1, <3>1
      <3> QED BY <1>0, <2>1, <3>1, <3>2
    <2> QED BY <2>2, <2>3
  <1>5. kept = 1 .. n
    <2> HIDE DEF gone
    <2>1. DOMAIN w = (1 .. n) \cup ((n + 1) .. (n + m))
      BY <1>1
    <2> QED BY <1>3, <1>4, <2>1
  <1> HIDE DEF kept
  <1>6. Cardinality(kept) = n
    BY <1>1, <1>5, FS_Interval
  <1>7. ASSUME NEW k \in 1 .. n PROVE nth(k) = k
    <2>1. ASSUME NEW i \in kept PROVE Cardinality({j \in kept : j <= i}) = i
      <3>1. i \in 1 .. n /\ i \in Nat /\ n \in Nat
        BY <1>1, <1>5
      <3>2. \A j \in 1 .. i : j \in 1 .. n
        BY <3>1
      <3>3. \A j \in 1 .. n : j <= i <=> j \in 1 .. i
        BY <3>1
      <3>4. {j \in kept : j <= i} = 1 .. i
        BY <1>5, <3>2, <3>3
      <3>5. Cardinality(1 .. i) = i
        BY <3>1, FS_Interval
      <3> QED BY <3>4, <3>5
    <2>2. k \in kept
      BY <1>5
    <2> QED BY <2>1, <2>2
  <1> HIDE DEF nth
  <1>8. Unskipped(w, M) = [k \in 1 .. n |-> q[k]]
    BY <1>1, <1>2, <1>6, <1>7
  <1>9. q = [k \in 1 .. n |-> q[k]]
    BY DEF n
  <1> QED BY <1>8, <1>9 DEF w

LEMMA DecisionUndone ==
    ASSUME NEW s, StoreType(s), HasSession(s), NEW id \in PhotoIDs, Known(s, id),
           NEW req \in MemberRequest, NEW t \in 0 .. MaxNow
    PROVE  Restorable(AfterUndo(AfterRecordDecision(s, id, req.newState,
                                                    req.trashTo, t)))
             = Restorable(s)
  <1> DEFINE r == [x \in {id} |-> req]
             d == [photo |-> id, kind |-> "decision", at |-> t,
                   advanced |-> FALSE, counterBump |-> 0,
                   ops |-> [x \in PhotoIDs |->
                              IF x = id
                              THEN Op(s.photos[id], req.newState, req.trashTo)
                              ELSE Nil]]
             photos == [x \in PhotoIDs |->
                          IF x \in {id}
                          THEN Decided(s.photos[x], r[x].newState, r[x].trashTo, t)
                          ELSE s.photos[x]]
             s2 == [s EXCEPT !.photos[id] = Decided(@, req.newState, req.trashTo, t)]
  <1>1. AfterRecordDecision(s, id, req.newState, req.trashTo, t) = Pushed(s2, d, 1)
    BY DEF AfterRecordDecision
  <1>2. s2 = [s EXCEPT !.photos = photos]
    <2>1. s.photos = [x \in PhotoIDs |-> s.photos[x]]
      BY DEF StoreType, PhotoTables
    <2> DEFINE w == Decided(s.photos[id], req.newState, req.trashTo, t)
               table == [s.photos EXCEPT ![id] = w]
    <2>2. s2 = [s EXCEPT !.photos = table]
      OBVIOUS
    <2>3. photos = [x \in PhotoIDs |-> IF x = id THEN w ELSE s.photos[x]]
      OBVIOUS
    <2> HIDE DEF w
    <2>4. table = [x \in PhotoIDs |-> IF x = id THEN w ELSE s.photos[x]]
      BY <2>1
    <2> QED BY <2>2, <2>3, <2>4, Zenon
  <1>3. RolledBack(d) = 1 /\ ~IsSkip(d)
    BY DEF RolledBack, BumpAmount, IsSkip
  <1>4. /\ \A x \in PhotoIDs :
              d.ops[x] = IF x \in {id}
                         THEN Op(s.photos[x], r[x].newState, r[x].trashTo)
                         ELSE Nil
        /\ photos = [x \in PhotoIDs |-> photos[x]]
        /\ \A x \in PhotoIDs :
              photos[x] = IF x \in {id}
                          THEN Decided(s.photos[x], r[x].newState, r[x].trashTo, t)
                          ELSE s.photos[x]
    OBVIOUS
  <1>5. /\ {id} \in SUBSET PhotoIDs /\ \A x \in {id} : Known(s, x)
        /\ r \in [{id} -> MemberRequest] /\ 1 \in Nat
        /\ d.at = t /\ (d.kind = "decision" => d.photo \in {id})
    OBVIOUS
  <1> HIDE DEF d, s2, r
  <1>6. Restorable(AfterUndo(Pushed([s EXCEPT !.photos = photos], d, RolledBack(d))))
          = Restorable(s)
    <2> HIDE DEF photos
    <2>1. RolledBack(d) \in Nat
      BY <1>3
    <2> QED BY <1>3, <1>4, <1>5, <2>1, DecidedUndone
  <1> QED BY <1>1, <1>2, <1>3, <1>6

LEMMA ClusterDecisionUndone ==
    ASSUME NEW s, StoreType(s), HasSession(s), NEW clusterID,
           NEW req \in ClusterRequests, CanDecideCluster(s, req), NEW t \in 0 .. MaxNow
    PROVE  Restorable(AfterUndo(AfterRecordClusterDecision(s, clusterID, req, t)))
             = Restorable(s)
  <1> DEFINE X == Requested(req)
             bump == ClusterBump(s, Cardinality(X))
             r == [x \in X |-> req[x]]
             d == [photo |-> clusterID, kind |-> "cluster", at |-> t,
                   advanced |-> FALSE, counterBump |-> bump,
                   ops |-> [x \in PhotoIDs |->
                              IF x \in X
                              THEN Op(s.photos[x], req[x].newState, req[x].trashTo)
                              ELSE Nil]]
             photos == [x \in PhotoIDs |->
                          IF x \in X
                          THEN Decided(s.photos[x], req[x].newState, req[x].trashTo, t)
                          ELSE s.photos[x]]
  <1>1. AfterRecordClusterDecision(s, clusterID, req, t)
          = Pushed([s EXCEPT !.photos = photos], d, bump)
    BY DEF AfterRecordClusterDecision
  <1>2. bump \in Nat \ {0}
    BY RequestedCount, ClusterBumpType, ConstantsAssumption
  <1>3. X \in SUBSET PhotoIDs /\ \A x \in X : Known(s, x)
    BY DEF Requested, CanDecideCluster
  <1>4. r \in [X -> MemberRequest]
    BY DEF Requested, ClusterRequests
  <1> HIDE DEF X, bump
  <1>5. RolledBack(d) = bump /\ ~IsSkip(d)
    BY <1>2 DEF RolledBack, BumpAmount, IsSkip
  <1>6. /\ \A x \in PhotoIDs :
              d.ops[x] = IF x \in X
                         THEN Op(s.photos[x], r[x].newState, r[x].trashTo)
                         ELSE Nil
        /\ photos = [x \in PhotoIDs |-> photos[x]]
        /\ \A x \in PhotoIDs :
              photos[x] = IF x \in X
                          THEN Decided(s.photos[x], r[x].newState, r[x].trashTo, t)
                          ELSE s.photos[x]
    OBVIOUS
  <1>7. d.at = t /\ (d.kind = "decision" => d.photo \in X)
    OBVIOUS
  <1> HIDE DEF d, photos, r
  <1>8. RolledBack(d) \in Nat
    BY <1>2, <1>5
  <1>9. Restorable(AfterUndo(Pushed([s EXCEPT !.photos = photos], d, RolledBack(d))))
          = Restorable(s)
    BY <1>3, <1>4, <1>5, <1>6, <1>7, <1>8, DecidedUndone
  <1> QED BY <1>1, <1>5, <1>9

\* A skip that fits the list of skipped photos, undone.
LEMMA SkippedUndone ==
    ASSUME NEW s, StoreType(s), HasSession(s),
           s.session.recentlySkipped \in Seq(PhotoIDs),
           NEW ids, NEW d, IsSkip(d), d.at \in 0 .. MaxNow, RolledBack(d) \in Nat,
           Lists(ids, UndoneMembers(d)),
           NEW v, v = [s EXCEPT !.session.recentlySkipped = @ \o ids]
    PROVE  AfterUndo(Pushed(v, d, RolledBack(d))) = s
  <1> DEFINE q == s.session.recentlySkipped
             list == q \o ids
             s2 == [s EXCEPT !.session.recentlySkipped = list]
             u == AfterUndo(Pushed(s2, d, RolledBack(d)))
  <1>1. Live(s)
    BY LiveType
  <1>2. IsSkip(d) /\ (d.kind = "decision" => Known(s2, d.photo)) /\ Day(d.at) \in Days
    BY DayInDays, ConstantsAssumption DEF IsSkip
  <1> HIDE DEF list
  <1>3. /\ Live(s2)
        /\ s2.session = [s.session EXCEPT !.recentlySkipped = list]
        /\ s2.photos = s.photos
    BY <1>1, FifoReplaced
  <1>4. s2.session.recentlySkipped = list
    BY <1>1, <1>3 DEF Live, Session
  <1> HIDE DEF s2
  <1>5. FifoUnskipped(s2.session, d) = q
    <2> HIDE DEF q
    <2>1. q \in Seq(PhotoIDs)
      BY DEF q
    <2>2. Unskipped(q \o ids, UndoneMembers(d)) = q
      BY <2>1, UnskippedAppended
    <2> QED BY <1>2, <1>4, <2>2 DEF FifoUnskipped, list, q
  <1>6. PhotosUndone(s2, d) = s.photos
    <2>1. s.photos = [x \in PhotoIDs |-> s.photos[x]]
      BY DEF StoreType, PhotoTables
    <2> QED BY <1>2, <1>3, <2>1 DEF PhotosUndone
  <1>7. u = [s2 EXCEPT !.session = [s2.session EXCEPT !.recentlySkipped = q],
                       !.photos = s.photos]
    <2>1. AfterUndo(Pushed(s2, d, RolledBack(d)))
            = [s2 EXCEPT !.session = [s2.session EXCEPT
                                        !.recentlySkipped = FifoUnskipped(s2.session, d)],
                         !.photos = PhotosUndone(s2, d)]
      BY <1>2, <1>3, PushedUndone
    <2> QED BY <1>5, <1>6, <2>1, Zenon
  <1>8. [s2.session EXCEPT !.recentlySkipped = q] = s.session
    <2>1. s.session \in [target: Nat, done: Nat, mix: Mixes, startedAt: Nat,
                         stack: Seq(Decision), recentlySkipped: {q}]
      BY <1>1 DEF Live, Session
    <2> QED BY <1>3, <2>1
  <1>9. u = [s2 EXCEPT !.session = s.session, !.photos = s.photos]
    BY <1>7, <1>8
  <1>10. [s2 EXCEPT !.session = s.session, !.photos = s.photos] = s
    <2>1. s \in [photos: PhotoTables, session: {s.session}, settings: Settings,
                 daily: [Days -> Nat], lastBatchDone: Nat]
      BY <1>1 DEF Live
    <2> QED BY <2>1 DEF s2
  <1> QED BY <1>9, <1>10 DEF s2, list

LEMMA NewestFits ==
    ASSUME NEW q, NEW cap, Len(q) <= cap, Len(q) \in Nat, cap \in Nat
    PROVE  Newest(q, cap) = q
  BY DEF Newest

LEMMA SkipUndone ==
    ASSUME NEW s, StoreType(s), HasSession(s),
           s.session.recentlySkipped \in Seq(PhotoIDs),
           NEW id \in PhotoIDs, NEW t \in 0 .. MaxNow,
           Len(s.session.recentlySkipped) + 1 <= CapOf(s.session, SkipCap)
    PROVE  AfterUndo(AfterRecordSkip(s, id, t)) = s
  <1> DEFINE advance == s.settings.skipAdvancesCounter
             d == [photo |-> id, kind |-> "skip", at |-> t,
                   advanced |-> advance, counterBump |-> 0,
                   ops |-> [x \in PhotoIDs |->
                              IF x = id
                              THEN [ZeroOp EXCEPT !.prevState = s.photos[id].state,
                                                  !.newState = s.photos[id].state]
                              ELSE Nil]]
             q == s.session.recentlySkipped
             fifo == Newest(Append(q, id), CapOf(s.session, SkipCap))
             n == IF advance THEN 1 ELSE 0
  <1>1. AfterRecordSkip(s, id, t)
          = Pushed([s EXCEPT !.session.recentlySkipped = fifo], d, n)
    BY DEF AfterRecordSkip
  <1>2. advance \in BOOLEAN
    BY DEF StoreType, Settings
  <1>3. RolledBack(d) = n /\ n \in Nat
    BY <1>2 DEF RolledBack, BumpAmount, IsSkip
  <1>4. CapOf(s.session, SkipCap) \in Nat
    <2>1. /\ CapOf(s.session, SkipCap) \in 0 .. FifoCap(s.session)
          /\ FifoCap(s.session) \in Nat
      BY LiveType, CapsBounded
    <2> QED BY <2>1
  <1>5. fifo = q \o <<id>>
    <2>1. /\ Len(Append(q, id)) = Len(q) + 1 /\ Len(q) \in Nat
          /\ Append(q, id) = q \o <<id>>
      OBVIOUS
    <2>2. Len(Append(q, id)) <= CapOf(s.session, SkipCap)
      BY <2>1
    <2>3. Len(Append(q, id)) \in Nat
      BY <2>1
    <2> QED BY <1>4, <2>1, <2>2, <2>3, NewestFits
  <1> DEFINE ids == <<id>>
  <1>6. /\ ids \in Seq(PhotoIDs)
        /\ \A i, j \in DOMAIN ids : ids[i] = ids[j] => i = j
    OBVIOUS
  <1>7. IsSkip(d) /\ d.at = t /\ UndoneMembers(d) = {id}
    BY DEF UndoneMembers, IsSkip
  <1> HIDE DEF d, fifo, n
  <1>8. Lists(ids, UndoneMembers(d))
    BY <1>6, <1>7 DEF Lists
  <1> HIDE DEF ids
  <1>9. RolledBack(d) \in Nat
    BY <1>3
  <1>10. AfterUndo(Pushed([s EXCEPT !.session.recentlySkipped = fifo], d,
                          RolledBack(d))) = s
    <2> DEFINE v == [s EXCEPT !.session.recentlySkipped = fifo]
    <2>1. v = [s EXCEPT !.session.recentlySkipped = @ \o ids]
      BY <1>5 DEF ids
    <2> HIDE DEF v
    <2>2. d.at \in 0 .. MaxNow
      BY <1>7
    <2> QED BY <2>1, <2>2, <1>7, <1>8, <1>9, SkippedUndone DEF v
  <1> QED BY <1>1, <1>3, <1>10

LEMMA ClusterSkipUndone ==
    ASSUME NEW s, StoreType(s), HasSession(s),
           s.session.recentlySkipped \in Seq(PhotoIDs),
           NEW clusterID, NEW ids \in Seq(PhotoIDs),
           \A i, j \in DOMAIN ids : ids[i] = ids[j] => i = j,
           NEW t \in 0 .. MaxNow,
           Len(s.session.recentlySkipped) + Len(ids) <= CapOf(s.session, ClusterSkipCap)
    PROVE  AfterUndo(AfterSkipCluster(s, clusterID, ids, t)) = s
  <1> DEFINE advance == s.settings.skipAdvancesCounter
             bump == IF advance THEN ClusterBump(s, Len(ids)) ELSE 0
             d == [photo |-> clusterID, kind |-> "clusterSkip", at |-> t,
                   advanced |-> advance, counterBump |-> bump,
                   ops |-> [x \in PhotoIDs |->
                              IF \E i \in DOMAIN ids : ids[i] = x THEN ZeroOp
                              ELSE Nil]]
             q == s.session.recentlySkipped
             fifo == Newest(q \o ids, CapOf(s.session, ClusterSkipCap))
  <1>1. AfterSkipCluster(s, clusterID, ids, t)
          = Pushed([s EXCEPT !.session.recentlySkipped = fifo], d, bump)
    BY DEF AfterSkipCluster
  <1>2. /\ advance \in BOOLEAN /\ bump \in Nat
        /\ (advance => bump # 0) /\ (~advance => bump = 0)
    BY LenProperties, ClusterBumpType DEF StoreType, Settings
  <1> HIDE DEF bump
  <1>3. RolledBack(d) = bump
    BY <1>2 DEF RolledBack, BumpAmount, IsSkip
  <1>4. CapOf(s.session, ClusterSkipCap) \in Nat
    <2>1. /\ CapOf(s.session, ClusterSkipCap) \in 0 .. FifoCap(s.session)
          /\ FifoCap(s.session) \in Nat
      BY LiveType, CapsBounded
    <2> QED BY <2>1
  <1>5. fifo = q \o ids
    <2>1. Len(q \o ids) = Len(q) + Len(ids) /\ Len(q \o ids) \in Nat
      OBVIOUS
    <2>2. Len(q \o ids) <= CapOf(s.session, ClusterSkipCap)
      BY <2>1
    <2> DEFINE w == q \o ids
               cap == CapOf(s.session, ClusterSkipCap)
    <2> HIDE DEF w, cap
    <2>3. Len(w) \in Nat /\ Len(w) <= cap /\ cap \in Nat
      BY <1>4, <2>1, <2>2 DEF w, cap
    <2>4. Newest(w, cap) = w
      BY <2>3, NewestFits
    <2> QED BY <2>4 DEF w, cap
  <1>6. IsSkip(d) /\ d.at \in 0 .. MaxNow
    BY DEF IsSkip
  <1>7. Lists(ids, UndoneMembers(d))
    <2>1. ZeroOp # Nil
      BY NilAssumption DEF ZeroOp, MemberOp
    <2>2. \A i \in DOMAIN ids : ids[i] \in PhotoIDs
      OBVIOUS
    <2>3. UndoneMembers(d) = {x \in PhotoIDs : \E i \in DOMAIN ids : ids[i] = x}
      BY <2>1 DEF UndoneMembers, Touched
    <2> HIDE DEF d
    <2> QED BY <2>2, <2>3 DEF Lists
  <1> HIDE DEF d, fifo
  <1>8. RolledBack(d) \in Nat
    BY <1>2, <1>3
  <1>9. AfterUndo(Pushed([s EXCEPT !.session.recentlySkipped = fifo], d,
                         RolledBack(d))) = s
    <2> DEFINE v == [s EXCEPT !.session.recentlySkipped = fifo]
    <2>1. v = [s EXCEPT !.session.recentlySkipped = @ \o ids]
      BY <1>5
    <2> HIDE DEF v
    <2> QED BY <1>6, <1>7, <1>8, <2>1, SkippedUndone DEF v
  <1> QED BY <1>1, <1>3, <1>9

LEMMA UndoInvertsHere == TypeOK /\ SkipListBounded => UndoInverts
  <1> SUFFICES ASSUME TypeOK, SkipListBounded, HasSession(mem)
               PROVE  LET someID == CHOOSE id \in PhotoIDs : TRUE
                      IN  /\ \A id \in PhotoIDs : Known(mem, id) =>
                                /\ \A req \in MemberRequest :
                                      Restorable(AfterUndo(AfterRecordDecision(
                                          mem, id, req.newState, req.trashTo, now)))
                                        = Restorable(mem)
                                /\ FitsFifo(1, SkipCap) =>
                                      AfterUndo(AfterRecordSkip(mem, id, now)) = mem
                          /\ \A req \in ClusterRequests :
                                (Requested(req) # {} /\ CanDecideCluster(mem, req)) =>
                                    Restorable(AfterUndo(AfterRecordClusterDecision(
                                        mem, someID, req, now))) = Restorable(mem)
                          /\ \A ids \in MemberLists :
                                FitsFifo(Len(ids), ClusterSkipCap) =>
                                    AfterUndo(AfterSkipCluster(mem, someID, ids, now))
                                      = mem
    BY DEF UndoInverts
  <1> DEFINE someID == CHOOSE id \in PhotoIDs : TRUE
  <1>1. StoreType(mem) /\ now \in 0 .. MaxNow
    BY ConstantsAssumption DEF TypeOK
  <1>2. mem.session.recentlySkipped \in Seq(PhotoIDs)
    BY DEF SkipListBounded, FifoOK
  <1>3. ASSUME NEW id \in PhotoIDs, Known(mem, id), NEW req \in MemberRequest
        PROVE  Restorable(AfterUndo(AfterRecordDecision(
                   mem, id, req.newState, req.trashTo, now))) = Restorable(mem)
    BY <1>1, <1>3, DecisionUndone
  <1>4. ASSUME NEW id \in PhotoIDs, FitsFifo(1, SkipCap)
        PROVE  AfterUndo(AfterRecordSkip(mem, id, now)) = mem
    BY <1>1, <1>2, <1>4, SkipUndone DEF FitsFifo
  <1>5. ASSUME NEW req \in ClusterRequests, CanDecideCluster(mem, req)
        PROVE  Restorable(AfterUndo(AfterRecordClusterDecision(mem, someID, req, now)))
                 = Restorable(mem)
    <2> HIDE DEF someID
    <2> QED BY <1>1, <1>5, ClusterDecisionUndone
  <1>6. ASSUME NEW ids \in MemberLists, FitsFifo(Len(ids), ClusterSkipCap)
        PROVE  AfterUndo(AfterSkipCluster(mem, someID, ids, now)) = mem
    <2> HIDE DEF someID
    <2>1. /\ ids \in Seq(PhotoIDs)
          /\ \A i, j \in DOMAIN ids : ids[i] = ids[j] => i = j
      BY DEF MemberLists
    <2> QED BY <1>1, <1>2, <1>6, <2>1, ClusterSkipUndone DEF FitsFifo
  <1> QED BY <1>3, <1>4, <1>5, <1>6

\* In every state an undo right after a decision, a cluster decision or a skip
\* gives back session, counters and skip list, and the photos but for their
\* LastDecisionAt and a trash path older than the entry (UndoInverts): no entry
\* saves too little to take the rest of its effect away.  A skip that pushes an
\* older one out of a full list is exempt.
THEOREM UndoInvertsCorrect == Spec => []UndoInverts
  BY TypeCorrect, SkipListCorrect, UndoInvertsHere, PTL
=============================================================================
