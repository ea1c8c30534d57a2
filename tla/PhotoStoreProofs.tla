--------------------------- MODULE PhotoStoreProofs ---------------------------
EXTENDS PhotoStore, FiniteSetTheorems, SequenceTheorems,
        WellFoundedInduction, TLAPS

LEMMA DayInDays ==
    ASSUME NEW t \in 0 .. MaxNow
    PROVE  Day(t) \in Days
  <1>1. DayLength \in Nat /\ DayLength > 0 /\ MaxNow \in Nat
    BY ConstantsAssumption
  <1> DEFINE q == t \div DayLength
             r == MaxNow \div DayLength
  <1>2. q \in Int /\ r \in Int
    BY <1>1
  <1>3. DayLength * q <= t /\ t < DayLength * q + DayLength
    BY <1>1
  <1>4. DayLength * r <= MaxNow /\ MaxNow < DayLength * r + DayLength
    BY <1>1
  <1>5. q >= 0
    BY <1>1, <1>2, <1>3
  <1>6. q <= r
    BY <1>1, <1>2, <1>3, <1>4
  <1> QED BY <1>2, <1>5, <1>6 DEF Day, Days

\* A well-formed store value with a session.  Nil is not known to differ from
\* every session record, so the lemmas below argue from this and not from
\* HasSession.
Live(s) ==
    /\ s \in [photos: PhotoTables, session: {s.session}, settings: Settings,
              daily: [Days -> Nat], lastBatchDone: Nat]
    /\ s.session \in Session(s.session.recentlySkipped)
    /\ \A i \in DOMAIN s.session.stack : EntryOK(s.session.stack[i])

LEMMA LiveType == \A s : StoreType(s) /\ HasSession(s) => Live(s)
  BY DEF StoreType, IsSession, HasSession, Live

LEMMA LiveHasSession ==
    ASSUME NEW s, Live(s), s.session.recentlySkipped \in Seq(PhotoIDs)
    PROVE  HasSession(s)
  <1>1. s.session \in [target: Nat, done: Nat, mix: Mixes, startedAt: Nat,
                       stack: Seq(Decision), recentlySkipped: Seq(PhotoIDs)]
    BY DEF Live, Session
  <1> QED BY <1>1, NilAssumption DEF HasSession

LEMMA TypeOfLive == \A s : Live(s) => StoreType(s)
  BY DEF StoreType, IsSession, HasSession, Live

\* The counter of a day after n was put on the day of an entry d.
DailyPushed(s, d, n) == [s.daily EXCEPT ![Day(d.at)] = @ + n]

LEMMA PushedType ==
    ASSUME NEW s, Live(s), NEW d \in Decision, EntryOK(d), NEW n \in Nat
    PROVE  /\ Live(Pushed(s, d, n))
           /\ Pushed(s, d, n).session.stack = Append(s.session.stack, d)
           /\ Pushed(s, d, n).session.done = s.session.done + n
           /\ Pushed(s, d, n).session.target = s.session.target
           /\ Pushed(s, d, n).session.recentlySkipped = s.session.recentlySkipped
           /\ Pushed(s, d, n).daily = DailyPushed(s, d, n)
           /\ Pushed(s, d, n).photos = s.photos
  <1> DEFINE sess == s.session
             u == Pushed(s, d, n)
             sess2 == [sess EXCEPT !.stack = Append(@, d), !.done = @ + n]
  <1>1. sess \in Session(sess.recentlySkipped)
    BY DEF Live
  <1>2. /\ sess2 \in Session(sess2.recentlySkipped)
        /\ sess2.stack = Append(sess.stack, d)
        /\ sess2.done = sess.done + n
        /\ sess2.target = sess.target
        /\ sess2.recentlySkipped = sess.recentlySkipped
    <2>1. /\ sess.stack \in Seq(Decision)
          /\ sess.done \in Nat
      BY <1>1 DEF Session
    <2>2. Append(sess.stack, d) \in Seq(Decision) /\ sess.done + n \in Nat
      BY <2>1
    <2> HIDE DEF sess
    <2>3. sess2.recentlySkipped = sess.recentlySkipped
      BY <1>1 DEF Session
    <2> QED BY <1>1, <2>2, <2>3 DEF Session
  <1>3. u = [s EXCEPT !.session = sess2, !.daily[Day(d.at)] = @ + n]
    BY DEF Pushed
  <1>4. /\ u.session = sess2
        /\ u.daily = [s.daily EXCEPT ![Day(d.at)] = @ + n]
        /\ u.photos = s.photos
        /\ u \in [photos: PhotoTables, session: {u.session},
                  settings: Settings, daily: [Days -> Nat], lastBatchDone: Nat]
    <2>1. s \in [photos: PhotoTables, session: {s.session}, settings: Settings,
                 daily: [Days -> Nat], lastBatchDone: Nat]
      BY DEF Live
    <2>2. [s.daily EXCEPT ![Day(d.at)] = @ + n] \in [Days -> Nat]
      BY <2>1 DEF EntryOK
    <2> HIDE DEF sess2, u
    <2>3. u.session = sess2
      BY <1>3, <2>1
    <2> QED BY <1>3, <2>1, <2>2, <2>3
  <1>5. \A i \in DOMAIN sess2.stack : EntryOK(sess2.stack[i])
    <2>1. sess.stack \in Seq(Decision)
      BY <1>1 DEF Session
    <2> QED BY <1>2, <2>1 DEF Live
  <1> HIDE DEF sess2
  <1> QED BY <1>2, <1>4, <1>5 DEF Live, DailyPushed

\* Replacing one field of a store value.
LEMMA PhotosReplaced ==
    ASSUME NEW s, StoreType(s), NEW photos \in PhotoTables
    PROVE  /\ StoreType([s EXCEPT !.photos = photos])
           /\ [s EXCEPT !.photos = photos].session = s.session
           /\ [s EXCEPT !.photos = photos].settings = s.settings
           /\ [s EXCEPT !.photos = photos].daily = s.daily
           /\ [s EXCEPT !.photos = photos].photos = photos
  BY DEF StoreType, HasSession

LEMMA SessionReplaced ==
    ASSUME NEW s, StoreType(s), NEW sess, IsSession(sess),
           sess # Nil => \A i \in DOMAIN sess.stack : EntryOK(sess.stack[i])
    PROVE  /\ StoreType([s EXCEPT !.session = sess])
           /\ [s EXCEPT !.session = sess].session = sess
           /\ [s EXCEPT !.session = sess].settings = s.settings
           /\ [s EXCEPT !.session = sess].daily = s.daily
           /\ [s EXCEPT !.session = sess].photos = s.photos
  BY DEF StoreType, HasSession

LEMMA PhotoType ==
    ASSUME NEW s, StoreType(s), NEW id \in PhotoIDs, Known(s, id)
    PROVE  s.photos[id] \in Photo
  BY DEF StoreType, PhotoTables, Known

LEMMA DecidedType ==
    ASSUME NEW p \in Photo, NEW req \in MemberRequest, NEW t \in Nat
    PROVE  Decided(p, req.newState, req.trashTo, t) \in Photo
  <1>1. req.newState \in States /\ req.trashTo \in TrashPaths \cup {Nil}
    BY DEF MemberRequest, States
  <1>2. p.keepCount \in Nat /\ p.unsureCount \in Nat
    BY DEF Photo
  <1>3. /\ (IF req.newState = "kept" THEN p.keepCount + 1 ELSE p.keepCount) \in Nat
        /\ (IF req.newState = "unsure" THEN p.unsureCount + 1
            ELSE p.unsureCount) \in Nat
        /\ (IF req.newState = "trashed" THEN req.trashTo ELSE p.trashedPath)
              \in TrashPaths \cup {Nil}
    BY <1>1, <1>2 DEF Photo
  <1> QED BY <1>1, <1>3 DEF Decided, Photo

LEMMA OpType ==
    ASSUME NEW p \in Photo, NEW req \in MemberRequest
    PROVE  /\ Op(p, req.newState, req.trashTo) \in MemberOp
           /\ Op(p, req.newState, req.trashTo).prevState \in States
           /\ Op(p, req.newState, req.trashTo) # Nil
  BY NilAssumption DEF Op, Photo, MemberOp, MemberRequest, States

LEMMA UpsertPhotoType ==
    ASSUME NEW s, StoreType(s), NEW id \in PhotoIDs
    PROVE  StoreType(AfterUpsertPhoto(s, id))
  <1>1. NewPhoto \in Photo
    BY DEF NewPhoto, Photo, States
  <1>2. [s.photos EXCEPT ![id] = NewPhoto] \in PhotoTables
    BY <1>1 DEF StoreType, PhotoTables
  <1>3. [s EXCEPT !.photos[id] = NewPhoto]
          = [s EXCEPT !.photos = [s.photos EXCEPT ![id] = NewPhoto]]
    OBVIOUS
  <1> QED BY <1>2, <1>3, PhotosReplaced DEF AfterUpsertPhoto

LEMMA ForgetMissingType ==
    ASSUME NEW s, StoreType(s), NEW seen
    PROVE  StoreType(AfterForgetMissing(s, seen))
  <1> DEFINE photos == [x \in PhotoIDs |-> IF x \in Missing(s, seen) THEN Nil
                                           ELSE s.photos[x]]
  <1>1. photos \in PhotoTables
    BY DEF StoreType, PhotoTables
  <1>2. AfterForgetMissing(s, seen) = [s EXCEPT !.photos = photos]
    BY DEF AfterForgetMissing
  <1> QED BY <1>1, <1>2, PhotosReplaced

LEMMA FreshSession ==
    ASSUME NEW s, StoreType(s), NEW target \in Nat, NEW mix \in Mixes,
           NEW t \in Nat
    PROVE  LET u == AfterStartSession(s, target, mix, t)
           IN  /\ StoreType(u)
               /\ u.session.stack = <<>>
               /\ u.photos = s.photos
  <1> DEFINE sess == [target |-> target, done |-> 0, mix |-> mix,
                      startedAt |-> t, stack |-> <<>>, recentlySkipped |-> <<>>]
  <1>1. IsSession(sess)
    BY DEF IsSession, Session
  <1>2. sess.stack = <<>> /\ \A i \in DOMAIN sess.stack : EntryOK(sess.stack[i])
    OBVIOUS
  <1>3. AfterStartSession(s, target, mix, t) = [s EXCEPT !.session = sess]
    BY DEF AfterStartSession
  <1> HIDE DEF sess
  <1> QED BY <1>1, <1>2, <1>3, SessionReplaced

LEMMA AutoSession ==
    ASSUME NEW s, StoreType(s)
    PROVE  AutoTarget(s) \in Nat /\ AutoMix(s) \in Mixes
  BY DEF AutoTarget, AutoMix, StoreType, Settings, Mixes

LEMMA StartSessionType ==
    ASSUME NEW s, StoreType(s), NEW t \in Nat
    PROVE  StoreType(AfterAutoStartSession(s, t))
  BY AutoSession, FreshSession DEF AfterAutoStartSession

LEMMA EndSessionType ==
    ASSUME NEW s, StoreType(s)
    PROVE  StoreType(AfterEndSession(s))
  <1>1. HasSession(s) => s.session.done \in Nat
    BY DEF StoreType, IsSession, Session, HasSession
  <1> QED BY <1>1 DEF AfterEndSession, StoreType, IsSession, HasSession

LEMMA SessionExtendType ==
    ASSUME NEW s, StoreType(s), HasSession(s), NEW delta \in Int
    PROVE  /\ StoreType(AfterSessionExtend(s, delta))
           /\ Live(AfterSessionExtend(s, delta))
           /\ AfterSessionExtend(s, delta).session.stack = s.session.stack
           /\ AfterSessionExtend(s, delta).session.recentlySkipped = <<>>
           /\ AfterSessionExtend(s, delta).photos = s.photos
  <1> DEFINE target == IF delta <= 0 THEN 0
                       ELSE IF s.session.target > 0 THEN s.session.target + delta
                       ELSE s.session.target
             sess == [s.session EXCEPT !.target = target,
                                       !.recentlySkipped = <<>>]
  <1>1. s.session \in Session(s.session.recentlySkipped)
    BY DEF StoreType, IsSession, HasSession
  <1>2. target \in Nat
    BY <1>1 DEF Session
  <1>3. /\ sess \in Session(sess.recentlySkipped)
        /\ sess.stack = s.session.stack
        /\ sess.recentlySkipped = <<>>
    BY <1>1, <1>2 DEF Session
  <1>4. AfterSessionExtend(s, delta) = [s EXCEPT !.session = sess]
    BY <1>1 DEF AfterSessionExtend, Session, StoreType
  <1> DEFINE u == AfterSessionExtend(s, delta)
  <1> HIDE DEF sess
  <1>5. StoreType(u) /\ u.session = sess /\ u.photos = s.photos
    BY <1>3, <1>4, SessionReplaced DEF IsSession, StoreType, HasSession
  <1> HIDE DEF u
  <1>6. Live(u)
    BY <1>3, <1>5 DEF StoreType, Live, HasSession
  <1> QED BY <1>3, <1>5, <1>6 DEF u

(***************************************************************************)
(* Every method that records something first changes photos or FIFO (s2)   *)
(* and then pushes one entry, which counts exactly what its undo takes     *)
(* back and which saved the photos it decides as they were.                *)
(***************************************************************************)
Saved(op, p) ==
    /\ op.prevState = p.state
    /\ op.prevKeepCount = p.keepCount
    /\ op.prevUnsureCount = p.unsureCount
    /\ op.newState \in {"kept", "trashed"}

\* The trash path of the photo p after op.
PathAfter(op, p) == IF op.newState = "trashed" THEN op.trashTo ELSE p.trashedPath

DecidesFrom(s, s2, d) ==
    \A x \in PhotoIDs :
        /\ Decides(d, x) =>
              /\ Known(s, x) /\ Known(s2, x)
              /\ s2.photos[x].trashedPath = PathAfter(d.ops[x], s.photos[x])
              /\ Saved(d.ops[x], s.photos[x])
              /\ Left(d.ops[x], s2.photos[x].state, s2.photos[x].keepCount,
                      s2.photos[x].unsureCount)
        /\ ~Decides(d, x) => s2.photos[x] = s.photos[x]

\* The longest FIFO a session may have.
FifoCap(sess) ==
    IF sess.target > 0 THEN sess.target
    ELSE IF SkipCap < ClusterSkipCap THEN ClusterSkipCap ELSE SkipCap

FifoFits(sess) ==
    /\ sess.recentlySkipped \in Seq(PhotoIDs)
    /\ Len(sess.recentlySkipped) <= FifoCap(sess)

LEMMA FifoWithin ==
    ASSUME NEW s, s.session.target \in Nat
    PROVE  FifoOK(s) <=> (HasSession(s) => FifoFits(s.session))
  BY DEF FifoOK, FifoCap, FifoFits

\* s2 is s with photos or FIFO changed as the entry d says.
Prepared(s, s2, d) ==
    /\ Live(s2)
    /\ d \in Decision
    /\ EntryOK(d)
    /\ s2.session.stack = s.session.stack
    /\ s2.session.done = s.session.done
    /\ s2.daily = s.daily
    /\ DecidesFrom(s, s2, d)
    /\ FifoOK(s) => FifoFits(s2.session)

Pushes(s, u, d) == \E s2 : Prepared(s, s2, d) /\ u = Pushed(s2, d, RolledBack(d))

PushStep(s, u) == \E d : Pushes(s, u, d)

LEMMA RolledBackType ==
    ASSUME NEW d \in Decision
    PROVE  RolledBack(d) \in Nat
  BY DEF RolledBack, BumpAmount, Decision

LEMMA PushStepType ==
    ASSUME NEW s, NEW u, PushStep(s, u)
    PROVE  StoreType(u)
  <1>1. PICK s2, d : /\ Live(s2)
                     /\ d \in Decision
                     /\ EntryOK(d)
                     /\ u = Pushed(s2, d, RolledBack(d))
    BY DEF PushStep, Pushes, Prepared
  <1>2. RolledBack(d) \in Nat
    BY <1>1, RolledBackType
  <1> QED BY <1>1, <1>2, PushedType, TypeOfLive

LEMMA OpSaves ==
    ASSUME NEW p \in Photo, NEW req \in MemberRequest, NEW t \in Nat
    PROVE  LET op == Op(p, req.newState, req.trashTo)
               p2 == Decided(p, req.newState, req.trashTo, t)
           IN  /\ Saved(op, p)
               /\ Left(op, p2.state, p2.keepCount, p2.unsureCount)
               /\ p2.trashedPath = PathAfter(op, p)
  <1>1. req.newState \in {"kept", "trashed"}
    BY DEF MemberRequest
  <1>2. p.keepCount \in Nat /\ p.unsureCount \in Nat
    BY DEF Photo
  <1> QED BY <1>1, <1>2 DEF Op, Decided, Saved, Left, PathAfter, Photo

LEMMA RecordDecisionEntry ==
    ASSUME NEW s, StoreType(s), NEW id \in PhotoIDs, CanDecide(s, id),
           NEW req \in MemberRequest, NEW t \in 0 .. MaxNow
    PROVE  \E d :
              /\ Pushes(s, AfterRecordDecision(s, id, req.newState, req.trashTo, t), d)
              /\ d.kind = "decision" /\ Decides(d, id)
              /\ \A x \in PhotoIDs : Decides(d, x) =>
                    /\ x = id
                    /\ d.ops[x].newState = req.newState
                    /\ d.ops[x].trashTo = req.trashTo
  <1> DEFINE p == s.photos[id]
             op == Op(p, req.newState, req.trashTo)
             d == [photo |-> id, kind |-> "decision", at |-> t,
                   advanced |-> FALSE, counterBump |-> 0,
                   ops |-> [x \in PhotoIDs |-> IF x = id THEN op ELSE Nil]]
             p2 == Decided(p, req.newState, req.trashTo, t)
             photos == [s.photos EXCEPT ![id] = p2]
             s2 == [s EXCEPT !.photos = photos]
  <1>1. p \in Photo /\ t \in Nat
    BY PhotoType, ConstantsAssumption DEF CanDecide
  <1>2. op \in MemberOp /\ op.prevState \in States /\ op # Nil
    BY <1>1, OpType
  <1>3. photos \in PhotoTables
    BY <1>1, DecidedType DEF StoreType, PhotoTables
  <1>4. /\ Live(s2) /\ s2.session = s.session
        /\ s2.daily = s.daily /\ s2.photos = photos
    BY <1>3, PhotosReplaced, LiveType DEF CanDecide, HasSession
  <1>5. d \in Decision /\ EntryOK(d)
    <2> HIDE DEF op
    <2>1. d \in Decision
      BY <1>1, <1>2 DEF Decision, Kinds
    <2>2. Touched(d) = {id}
      BY <1>2 DEF Touched
    <2> QED BY <2>1, <2>2, <1>2, DayInDays DEF EntryOK
  <1>6. AfterRecordDecision(s, id, req.newState, req.trashTo, t)
          = Pushed(s2, d, 1)
    BY DEF AfterRecordDecision
  <1>7. RolledBack(d) = 1
    BY DEF RolledBack, BumpAmount, IsSkip
  <1>8. DecidesFrom(s, s2, d)
    <2> HIDE DEF op, p2, s2
    <2>1. \A x \in PhotoIDs : Decides(d, x) <=> x = id
      BY <1>2 DEF Decides, IsSkip
    <2>2. /\ d.ops[id] = op
          /\ s2.photos[id] = p2
          /\ \A x \in PhotoIDs : x # id => s2.photos[x] = s.photos[x]
      BY <1>4 DEF StoreType, PhotoTables
    <2>3. /\ Saved(op, p)
          /\ Left(op, p2.state, p2.keepCount, p2.unsureCount)
          /\ p2.trashedPath = PathAfter(op, p)
      BY <1>1, OpSaves DEF op, p2
    <2>4. Known(s2, id)
      BY <1>1, <2>2, DecidedType, NilAssumption DEF p2, Known
    <2> HIDE DEF d
    <2> QED BY <2>1, <2>2, <2>3, <2>4 DEF DecidesFrom, CanDecide
  <1>9. /\ d.kind = "decision" /\ Decides(d, id)
        /\ \A x \in PhotoIDs : Decides(d, x) =>
            /\ x = id
            /\ d.ops[x].newState = req.newState
            /\ d.ops[x].trashTo = req.trashTo
    <2>1. Decides(d, id)
      <3> HIDE DEF op
      <3> QED BY <1>2 DEF Decides, IsSkip
    <2> QED BY <2>1 DEF Decides, Op
  <1> HIDE DEF d, s2
  <1>10. FifoOK(s) => FifoFits(s2.session)
    BY <1>4, FifoWithin DEF CanDecide, Live, Session
  <1>11. Prepared(s, s2, d)
    BY <1>4, <1>5, <1>8, <1>10 DEF Prepared
  <1> QED BY <1>6, <1>7, <1>9, <1>11 DEF Pushes

LEMMA RecordDecisionPushes ==
    ASSUME NEW s, StoreType(s), NEW id \in PhotoIDs, CanDecide(s, id),
           NEW req \in MemberRequest, NEW t \in 0 .. MaxNow
    PROVE  PushStep(s, AfterRecordDecision(s, id, req.newState, req.trashTo, t))
  BY RecordDecisionEntry DEF PushStep

\* Replacing the FIFO leaves the stack alone.
LEMMA FifoReplaced ==
    ASSUME NEW s, Live(s), NEW fifo
    PROVE  /\ Live([s EXCEPT !.session.recentlySkipped = fifo])
           /\ [s EXCEPT !.session.recentlySkipped = fifo].session
                = [s.session EXCEPT !.recentlySkipped = fifo]
           /\ [s EXCEPT !.session.recentlySkipped = fifo].daily = s.daily
           /\ [s EXCEPT !.session.recentlySkipped = fifo].photos = s.photos
  <1> DEFINE sess == [s.session EXCEPT !.recentlySkipped = fifo]
             s2 == [s EXCEPT !.session = sess]
  <1>1. s.session \in Session(s.session.recentlySkipped)
    BY DEF Live
  <1>2. /\ sess \in Session(sess.recentlySkipped)
        /\ sess.stack = s.session.stack
    BY <1>1 DEF Session
  <1> HIDE DEF sess
  <1>3. /\ s2.session = sess /\ s2.daily = s.daily /\ s2.photos = s.photos
        /\ s2 \in [photos: PhotoTables, session: {s2.session},
                   settings: Settings, daily: [Days -> Nat], lastBatchDone: Nat]
    BY DEF Live
  <1>4. Live(s2)
    BY <1>2, <1>3 DEF Live
  <1>5. [s EXCEPT !.session.recentlySkipped = fifo] = s2
    BY DEF sess
  <1> QED BY <1>3, <1>4, <1>5 DEF sess

LEMMA NewestBounded ==
    ASSUME NEW q \in Seq(PhotoIDs), NEW cap \in Nat
    PROVE  Newest(q, cap) \in Seq(PhotoIDs) /\ Len(Newest(q, cap)) <= cap
  BY DEF Newest

LEMMA CapsBounded ==
    ASSUME NEW s, Live(s)
    PROVE  /\ CapOf(s.session, SkipCap) \in 0 .. FifoCap(s.session)
           /\ CapOf(s.session, ClusterSkipCap) \in 0 .. FifoCap(s.session)
           /\ FifoCap(s.session) \in Nat
  <1>1. s.session.target \in Nat
    BY DEF Live, Session
  <1> QED BY <1>1, ConstantsAssumption DEF CapOf, FifoCap

LEMMA SkipIsPush ==
    ASSUME NEW s, StoreType(s), HasSession(s), NEW fifo,
           FifoOK(s) => /\ fifo \in Seq(PhotoIDs)
                        /\ Len(fifo) <= FifoCap(s.session),
           NEW d \in Decision, EntryOK(d), IsSkip(d)
    PROVE  /\ Pushes(s, Pushed([s EXCEPT !.session.recentlySkipped = fifo], d,
                              RolledBack(d)), d)
           /\ \A x : ~Decides(d, x)
  <1> DEFINE s2 == [s EXCEPT !.session.recentlySkipped = fifo]
  <1>1. Live(s)
    BY LiveType
  <1>2. /\ Live(s2)
        /\ s2.session = [s.session EXCEPT !.recentlySkipped = fifo]
        /\ s2.daily = s.daily
        /\ s2.photos = s.photos
    BY <1>1, FifoReplaced
  <1>3. s2.session.stack = s.session.stack /\ s2.session.done = s.session.done
    BY <1>1, <1>2 DEF Live, Session
  <1>4. DecidesFrom(s, s2, d)
    BY <1>2 DEF DecidesFrom, Decides
  <1>5. FifoOK(s) => FifoFits(s2.session)
    <2>1. s2.session.recentlySkipped = fifo /\ s2.session.target = s.session.target
      BY <1>1, <1>2 DEF Live, Session
    <2> HIDE DEF s2
    <2> QED BY <2>1 DEF FifoCap, FifoFits
  <1>6. \A x : ~Decides(d, x)
    BY DEF Decides
  <1> HIDE DEF s2
  <1>7. Prepared(s, s2, d)
    BY <1>2, <1>3, <1>4, <1>5 DEF Prepared
  <1> QED BY <1>6, <1>7 DEF Pushes, s2

LEMMA RecordSkipEntry ==
    ASSUME NEW s, StoreType(s), NEW id \in PhotoIDs, CanDecide(s, id),
           NEW t \in 0 .. MaxNow
    PROVE  \E d : /\ Pushes(s, AfterRecordSkip(s, id, t), d)
                  /\ d.photo = id
                  /\ \A x : ~Decides(d, x)
  <1> DEFINE advance == s.settings.skipAdvancesCounter
             op == [ZeroOp EXCEPT !.prevState = s.photos[id].state,
                                  !.newState = s.photos[id].state]
             d == [photo |-> id, kind |-> "skip", at |-> t,
                   advanced |-> advance, counterBump |-> 0,
                   ops |-> [x \in PhotoIDs |-> IF x = id THEN op ELSE Nil]]
             fifo == Newest(Append(s.session.recentlySkipped, id),
                            CapOf(s.session, SkipCap))
             n == IF advance THEN 1 ELSE 0
  <1>1. op \in MemberOp
    BY PhotoType DEF CanDecide, ZeroOp, MemberOp, Photo
  <1>2. advance \in BOOLEAN /\ t \in Nat
    BY ConstantsAssumption DEF StoreType, Settings
  <1>3. d \in Decision /\ EntryOK(d)
    BY <1>1, <1>2, DayInDays DEF Decision, Kinds, EntryOK, IsSkip
  <1>4. AfterRecordSkip(s, id, t)
          = Pushed([s EXCEPT !.session.recentlySkipped = fifo], d, n)
    BY DEF AfterRecordSkip
  <1>5. RolledBack(d) = n
    BY <1>2 DEF RolledBack, BumpAmount, IsSkip
  <1>6. IsSkip(d)
    BY DEF IsSkip
  <1>7. FifoOK(s) => fifo \in Seq(PhotoIDs) /\ Len(fifo) <= FifoCap(s.session)
    <2>1. FifoOK(s) => Append(s.session.recentlySkipped, id) \in Seq(PhotoIDs)
      BY DEF FifoOK, CanDecide
    <2>2. /\ CapOf(s.session, SkipCap) \in 0 .. FifoCap(s.session)
          /\ FifoCap(s.session) \in Nat
      BY LiveType, CapsBounded DEF CanDecide
    <2>3. CapOf(s.session, SkipCap) \in Nat
      BY <2>2
    <2> HAVE FifoOK(s)
    <2>4. fifo \in Seq(PhotoIDs) /\ Len(fifo) <= CapOf(s.session, SkipCap)
      BY <2>1, <2>3, NewestBounded
    <2>5. Len(fifo) \in Nat
      BY <2>4, LenProperties
    <2> HIDE DEF fifo
    <2> QED BY <2>2, <2>4, <2>5
  <1>8. d.photo = id
    OBVIOUS
  <1> HIDE DEF d, fifo, n
  <1> QED BY <1>3, <1>4, <1>5, <1>6, <1>7, <1>8, SkipIsPush DEF CanDecide

LEMMA RecordSkipPushes ==
    ASSUME NEW s, StoreType(s), NEW id \in PhotoIDs, CanDecide(s, id),
           NEW t \in 0 .. MaxNow
    PROVE  PushStep(s, AfterRecordSkip(s, id, t))
  BY RecordSkipEntry DEF PushStep

LEMMA ClusterBumpType ==
    ASSUME NEW s, NEW n \in Nat
    PROVE  ClusterBump(s, n) \in Nat \ {0}
  BY DEF ClusterBump

LEMMA SkipClusterEntry ==
    ASSUME NEW s, StoreType(s), HasSession(s), NEW clusterID \in PhotoIDs,
           NEW ids \in Seq(PhotoIDs), NEW t \in 0 .. MaxNow
    PROVE  \E d : /\ Pushes(s, AfterSkipCluster(s, clusterID, ids, t), d)
                  /\ d.kind = "clusterSkip"
                  /\ \A x : ~Decides(d, x)
  <1> DEFINE advance == s.settings.skipAdvancesCounter
             bump == IF advance THEN ClusterBump(s, Len(ids)) ELSE 0
             d == [photo |-> clusterID, kind |-> "clusterSkip", at |-> t,
                   advanced |-> advance, counterBump |-> bump,
                   ops |-> [x \in PhotoIDs |->
                              IF \E i \in DOMAIN ids : ids[i] = x THEN ZeroOp
                              ELSE Nil]]
             fifo == Newest(s.session.recentlySkipped \o ids,
                            CapOf(s.session, ClusterSkipCap))
  <1>1. ZeroOp \in MemberOp
    BY DEF ZeroOp, MemberOp
  <1>2. advance \in BOOLEAN /\ t \in Nat /\ bump \in Nat
    BY LenProperties, ClusterBumpType, ConstantsAssumption DEF StoreType, Settings
  <1> HIDE DEF bump
  <1>3. d \in Decision /\ EntryOK(d)
    BY <1>1, <1>2, DayInDays DEF Decision, Kinds, EntryOK, IsSkip
  <1>4. AfterSkipCluster(s, clusterID, ids, t)
          = Pushed([s EXCEPT !.session.recentlySkipped = fifo], d, bump)
    BY DEF AfterSkipCluster, bump
  <1>5. RolledBack(d) = bump
    BY <1>2, ClusterBumpType DEF RolledBack, BumpAmount, IsSkip, bump
  <1>6. IsSkip(d)
    BY DEF IsSkip
  <1>7. FifoOK(s) => fifo \in Seq(PhotoIDs) /\ Len(fifo) <= FifoCap(s.session)
    <2>1. FifoOK(s) => s.session.recentlySkipped \o ids \in Seq(PhotoIDs)
      BY DEF FifoOK
    <2>2. /\ CapOf(s.session, ClusterSkipCap) \in 0 .. FifoCap(s.session)
          /\ FifoCap(s.session) \in Nat
      BY LiveType, CapsBounded
    <2>3. CapOf(s.session, ClusterSkipCap) \in Nat
      BY <2>2
    <2> HAVE FifoOK(s)
    <2>4. fifo \in Seq(PhotoIDs) /\ Len(fifo) <= CapOf(s.session, ClusterSkipCap)
      BY <2>1, <2>3, NewestBounded
    <2>5. Len(fifo) \in Nat
      BY <2>4, LenProperties
    <2> HIDE DEF fifo
    <2> QED BY <2>2, <2>4, <2>5
  <1>8. d.kind = "clusterSkip"
    OBVIOUS
  <1> HIDE DEF d, fifo
  <1> QED BY <1>3, <1>4, <1>5, <1>6, <1>7, <1>8, SkipIsPush

LEMMA SkipClusterPushes ==
    ASSUME NEW s, StoreType(s), HasSession(s), NEW clusterID \in PhotoIDs,
           NEW ids \in Seq(PhotoIDs), NEW t \in 0 .. MaxNow
    PROVE  PushStep(s, AfterSkipCluster(s, clusterID, ids, t))
  BY SkipClusterEntry DEF PushStep

LEMMA RequestedCount ==
    ASSUME NEW req \in ClusterRequests, NEW n, n = Cardinality(Requested(req)),
           IsFiniteSet(PhotoIDs)
    PROVE  n \in Nat
  <1>1. IsFiniteSet(Requested(req))
    BY FS_Subset DEF Requested
  <1> QED BY <1>1, FS_CardinalityType

LEMMA RecordClusterDecisionEntry ==
    ASSUME NEW s, StoreType(s), NEW clusterID \in PhotoIDs,
           NEW req \in ClusterRequests, CanDecideCluster(s, req),
           NEW t \in 0 .. MaxNow
    PROVE  \E d :
              /\ Pushes(s, AfterRecordClusterDecision(s, clusterID, req, t), d)
              /\ d.kind = "cluster"
              /\ \A x \in PhotoIDs : req[x] # Nil => Decides(d, x)
              /\ \A x \in PhotoIDs : Decides(d, x) =>
                    /\ req[x] # Nil
                    /\ d.ops[x].newState = req[x].newState
                    /\ d.ops[x].trashTo = req[x].trashTo
  <1> DEFINE bump == ClusterBump(s, Cardinality(Requested(req)))
             op(x) == Op(s.photos[x], req[x].newState, req[x].trashTo)
             d == [photo |-> clusterID, kind |-> "cluster", at |-> t,
                   advanced |-> FALSE, counterBump |-> bump,
                   ops |-> [x \in PhotoIDs |->
                              IF x \in Requested(req) THEN op(x) ELSE Nil]]
             p2(x) == Decided(s.photos[x], req[x].newState, req[x].trashTo, t)
             photos == [x \in PhotoIDs |-> IF x \in Requested(req) THEN p2(x)
                                           ELSE s.photos[x]]
             s2 == [s EXCEPT !.photos = photos]
  <1>1. bump \in Nat \ {0}
    BY RequestedCount, ClusterBumpType, ConstantsAssumption
  <1>2. t \in Nat
    BY ConstantsAssumption
  <1>3. \A x \in Requested(req) :
           /\ req[x] \in MemberRequest
           /\ s.photos[x] \in Photo
    BY PhotoType DEF Requested, ClusterRequests, CanDecideCluster
  <1>4. \A x \in Requested(req) :
           /\ op(x) \in MemberOp
           /\ op(x).prevState \in States
           /\ op(x) # Nil
           /\ p2(x) \in Photo
    BY <1>2, <1>3, OpType, DecidedType
  <1>5. photos \in PhotoTables
    <2> HIDE DEF p2
    <2> QED BY <1>4 DEF StoreType, PhotoTables
  <1>6. /\ Live(s2) /\ s2.session = s.session
        /\ s2.daily = s.daily /\ s2.photos = photos
    BY <1>5, PhotosReplaced, LiveType DEF CanDecideCluster, HasSession
  <1>7. d \in Decision /\ EntryOK(d)
    <2> HIDE DEF op, bump
    <2>1. d \in Decision
      BY <1>1, <1>2, <1>4 DEF Decision, Kinds
    <2>2. \A x \in Touched(d) : d.ops[x].prevState \in States
      BY <1>4 DEF Touched
    <2> QED BY <2>1, <2>2, DayInDays DEF EntryOK
  <1>8. AfterRecordClusterDecision(s, clusterID, req, t) = Pushed(s2, d, bump)
    BY DEF AfterRecordClusterDecision
  <1>9. RolledBack(d) = bump
    <2> HIDE DEF bump
    <2> QED BY <1>1 DEF RolledBack, BumpAmount, IsSkip
  <1>10. DecidesFrom(s, s2, d)
    <2> HIDE DEF op, p2, s2, bump
    <2>1. \A x \in PhotoIDs : Decides(d, x) <=> x \in Requested(req)
      BY <1>4 DEF Decides, IsSkip, Requested
    <2>2. \A x \in Requested(req) :
             /\ d.ops[x] = op(x)
             /\ s2.photos[x] = p2(x)
             /\ Saved(op(x), s.photos[x])
             /\ Left(op(x), p2(x).state, p2(x).keepCount, p2(x).unsureCount)
             /\ p2(x).trashedPath = PathAfter(op(x), s.photos[x])
      <3>1. \A x \in Requested(req) : x \in PhotoIDs
        BY DEF Requested
      <3>2. \A x \in Requested(req) : d.ops[x] = op(x) /\ s2.photos[x] = p2(x)
        BY <1>6, <3>1
      <3>3. \A x \in Requested(req) :
               /\ Saved(op(x), s.photos[x])
               /\ Left(op(x), p2(x).state, p2(x).keepCount, p2(x).unsureCount)
               /\ p2(x).trashedPath = PathAfter(op(x), s.photos[x])
        BY <1>2, <1>3, OpSaves DEF op, p2
      <3> QED BY <3>2, <3>3
    <2>3. \A x \in PhotoIDs : x \notin Requested(req) =>
             s2.photos[x] = s.photos[x]
      BY <1>6
    <2>4. \A x \in Requested(req) : Known(s2, x)
      BY <1>4, <2>2, NilAssumption DEF Known
    <2> HIDE DEF d
    <2> QED BY <2>1, <2>2, <2>3, <2>4 DEF DecidesFrom, CanDecideCluster
  <1>11. /\ d.kind = "cluster"
         /\ \A x \in PhotoIDs : req[x] # Nil => Decides(d, x)
         /\ \A x \in PhotoIDs : Decides(d, x) =>
            /\ req[x] # Nil
            /\ d.ops[x].newState = req[x].newState
            /\ d.ops[x].trashTo = req[x].trashTo
    <2>1. \A x \in PhotoIDs : req[x] # Nil => Decides(d, x)
      <3> HIDE DEF op, bump
      <3> QED BY <1>4 DEF Decides, IsSkip, Requested
    <2> QED BY <2>1 DEF Decides, Op, Requested
  <1> HIDE DEF d, s2, bump
  <1>12. FifoOK(s) => FifoFits(s2.session)
    BY <1>6, FifoWithin DEF CanDecideCluster, Live, Session
  <1>13. Prepared(s, s2, d)
    BY <1>6, <1>7, <1>10, <1>12 DEF Prepared
  <1> QED BY <1>8, <1>9, <1>11, <1>13 DEF Pushes

LEMMA RecordClusterDecisionPushes ==
    ASSUME NEW s, StoreType(s), NEW clusterID \in PhotoIDs,
           NEW req \in ClusterRequests, CanDecideCluster(s, req),
           NEW t \in 0 .. MaxNow
    PROVE  PushStep(s, AfterRecordClusterDecision(s, clusterID, req, t))
  BY RecordClusterDecisionEntry DEF PushStep

\* The entry Undo pops, and what is left of the stack.
LEMMA PoppedType ==
    ASSUME NEW s, StoreType(s), CanUndo(s)
    PROVE  /\ Live(s)
           /\ Len(s.session.stack) \in Nat \ {0}
           /\ s.session.stack \in Seq(Decision)
           /\ s.session.done \in Nat
           /\ Last(s.session.stack) \in Decision
           /\ EntryOK(Last(s.session.stack))
           /\ RolledBack(Last(s.session.stack)) \in Nat
           /\ SubSeq(s.session.stack, 1, Len(s.session.stack) - 1)
                \in Seq(Decision)
  <1> DEFINE q == s.session.stack
  <1>1. Live(s)
    BY LiveType DEF CanUndo
  <1>2. q \in Seq(Decision) /\ s.session.done \in Nat
    BY <1>1 DEF Live, Session
  <1>3. Len(q) \in Nat \ {0}
    BY <1>2 DEF CanUndo
  <1>4. Last(q) \in Decision /\ EntryOK(Last(q))
    BY <1>1, <1>2, <1>3 DEF Live, Last
  <1>5. RolledBack(Last(q)) \in Nat
    BY <1>4 DEF RolledBack, BumpAmount, Decision
  <1> QED BY <1>1, <1>2, <1>3, <1>4, <1>5

LEMMA MinusType ==
    ASSUME NEW n \in Nat, NEW k \in Nat
    PROVE  Minus(n, k) \in Nat
  BY DEF Minus

LEMMA RevertedType ==
    ASSUME NEW p \in Photo, NEW op \in MemberOp, op.prevState \in States
    PROVE  Reverted(p, op) \in Photo
  BY DEF Reverted, Photo, MemberOp

\* AfterUndo field by field.
\* The parts of a store value after the entry d is undone.
DailyUndone(s, d) == [s.daily EXCEPT ![Day(d.at)] = Minus(@, RolledBack(d))]

PhotosUndone(s, d) ==
    [x \in PhotoIDs |->
        IF ~IsSkip(d) /\ x \in Touched(d) /\ Known(s, x)
        THEN Reverted(s.photos[x], d.ops[x])
        ELSE s.photos[x]]

LEMMA UndoFields ==
    ASSUME NEW s, StoreType(s), CanUndo(s),
           NEW d, d = Last(s.session.stack),
           NEW rest, rest = SubSeq(s.session.stack, 1, Len(s.session.stack) - 1)
    PROVE  LET u == AfterUndo(s)
           IN  /\ StoreType(u)
               /\ Live(u)
               /\ u.session.stack = rest
               /\ u.session.target = s.session.target
               /\ UndoFails(s) =>
                    /\ u.session.done = s.session.done
                    /\ u.daily = s.daily
                    /\ u.photos = s.photos
               /\ ~UndoFails(s) =>
                    /\ u.session.done = Minus(s.session.done, RolledBack(d))
                    /\ u.daily = DailyUndone(s, d)
                    /\ u.photos = PhotosUndone(s, d)
  <1> DEFINE n == RolledBack(d)
             fifo == IF IsSkip(d)
                     THEN Unskipped(s.session.recentlySkipped, UndoneMembers(d))
                     ELSE s.session.recentlySkipped
             sess1 == [s.session EXCEPT !.stack = rest]
             sess2 == [s.session EXCEPT !.stack = rest,
                                        !.done = Minus(@, n),
                                        !.recentlySkipped = fifo]
             daily == [s.daily EXCEPT ![Day(d.at)] = Minus(@, n)]
             photos == [x \in PhotoIDs |->
                          IF ~IsSkip(d) /\ x \in Touched(d) /\ Known(s, x)
                          THEN Reverted(s.photos[x], d.ops[x])
                          ELSE s.photos[x]]
             failed == [s EXCEPT !.session = sess1]
             undone == [s EXCEPT !.session = sess2, !.daily = daily,
                                 !.photos = photos]
  <1>1. /\ Live(s) /\ rest \in Seq(Decision) /\ n \in Nat
        /\ d \in Decision /\ EntryOK(d)
        /\ Len(s.session.stack) \in Nat \ {0}
        /\ s.session.stack \in Seq(Decision)
        /\ s.session.done \in Nat
    BY PoppedType
  <1>2. \A i \in DOMAIN rest : EntryOK(rest[i])
    BY <1>1 DEF Live
  <1>3. s.session \in Session(s.session.recentlySkipped)
    BY <1>1 DEF Live
  <1> HIDE DEF fifo, n
  <1>4. /\ sess1 \in Session(sess1.recentlySkipped)
        /\ sess1.stack = rest
        /\ sess1.done = s.session.done
        /\ sess1.target = s.session.target
    BY <1>1, <1>3 DEF Session
  <1>5. /\ sess2 \in Session(sess2.recentlySkipped)
        /\ sess2.stack = rest
        /\ sess2.done = Minus(s.session.done, n)
        /\ sess2.target = s.session.target
    <2>1. Minus(s.session.done, n) \in Nat
      BY <1>1, MinusType
    <2> QED BY <1>1, <1>3, <2>1 DEF Session
  <1>6. daily \in [Days -> Nat]
    BY <1>1, MinusType DEF StoreType, EntryOK
  <1>7. photos \in PhotoTables
    <2>1. \A x \in PhotoIDs :
             (~IsSkip(d) /\ x \in Touched(d) /\ Known(s, x)) =>
                Reverted(s.photos[x], d.ops[x]) \in Photo
      <3>1. \A x \in Touched(d) : x \in PhotoIDs /\ d.ops[x] \in MemberOp
        BY <1>1 DEF Touched, Decision
      <3> QED BY <1>1, <3>1, PhotoType, RevertedType DEF EntryOK
    <2> QED BY <2>1 DEF StoreType, PhotoTables
  <1> HIDE DEF sess1, sess2, daily, photos
  <1>8. /\ StoreType(failed)
        /\ failed.session = sess1
        /\ failed.daily = s.daily
        /\ failed.photos = s.photos
        /\ Live(failed)
    <2>1. /\ StoreType(failed)
          /\ failed.session = sess1
          /\ failed.daily = s.daily
          /\ failed.photos = s.photos
      BY <1>2, <1>4, SessionReplaced DEF IsSession
    <2> HIDE DEF failed
    <2> QED BY <1>2, <1>4, <2>1 DEF StoreType, Live
  <1>9. /\ StoreType(undone)
        /\ undone.session = sess2
        /\ undone.daily = daily
        /\ undone.photos = photos
        /\ Live(undone)
    <2>1. /\ StoreType(undone)
          /\ undone.session = sess2
          /\ undone.daily = daily
          /\ undone.photos = photos
      BY <1>2, <1>5, <1>6, <1>7 DEF StoreType, IsSession, HasSession
    <2> HIDE DEF undone
    <2> QED BY <1>2, <1>5, <2>1 DEF StoreType, Live
  <1>10. CASE UndoFails(s)
    <2>1. AfterUndo(s) = failed
      BY <1>10 DEF AfterUndo, sess1
    <2> QED BY <1>4, <1>8, <1>10, <2>1
  <1>11. CASE ~UndoFails(s)
    <2>1. AfterUndo(s) = undone
      BY <1>1, <1>3, <1>11
         DEF AfterUndo, sess2, daily, photos, fifo, n, StoreType, Session
    <2>2. daily = DailyUndone(s, d) /\ photos = PhotosUndone(s, d)
      BY DEF daily, photos, n, DailyUndone, PhotosUndone
    <2> QED BY <1>5, <1>9, <1>11, <2>1, <2>2 DEF n
  <1> QED BY <1>10, <1>11

LEMMA UpdateSettingsType ==
    ASSUME NEW s, StoreType(s), NEW ns \in SettingsChoices
    PROVE  StoreType(AfterUpdateSettings(s, ns))
  <1>1. ns \in Settings
    BY ConstantsAssumption
  <1> QED BY <1>1 DEF AfterUpdateSettings, StoreType, HasSession

LEMMA LoadedSettingsType ==
    ASSUME NEW st \in Settings
    PROVE  LoadedSettings(st) \in Settings
  <1>1. DefaultSettings \in Settings
    BY ConstantsAssumption DEF DefaultSettings, Settings, Mixes
  <1> DEFINE u == IF st.baseRate = 0 THEN DefaultSettings ELSE st
  <1>2. u \in Settings
    BY <1>1
  <1>3. LoadedSettings(st) =
          [u EXCEPT !.dupeThreshold = IF @ = 0 THEN 35 ELSE @,
                    !.defaultBatchSize = IF @ = 0 THEN DefaultBatch ELSE @,
                    !.defaultMix = IF @ \in Mixes THEN @ ELSE "mixed"]
    BY DEF LoadedSettings
  <1> HIDE DEF u
  <1>4. /\ (IF u.dupeThreshold = 0 THEN 35 ELSE u.dupeThreshold) \in Int
        /\ (IF u.defaultBatchSize = 0 THEN DefaultBatch
            ELSE u.defaultBatchSize) \in Int
    BY <1>2, ConstantsAssumption DEF Settings
  <1>5. (IF u.defaultMix \in Mixes THEN u.defaultMix ELSE "mixed")
          \in Mixes \cup {"none"}
    BY DEF Mixes
  <1> QED BY <1>2, <1>3, <1>4, <1>5 DEF Settings

\* load keeps every entry but for the kind of an empty cluster skip.
LEMMA LoadedDecisionFields ==
    ASSUME NEW d \in Decision
    PROVE  /\ LoadedDecision(d) \in Decision
           /\ LoadedDecision(d).ops = d.ops
           /\ LoadedDecision(d).at = d.at
           /\ LoadedDecision(d).photo = d.photo
           /\ IsSkip(LoadedDecision(d)) <=> IsSkip(d)
           /\ LoadedDecision(d).kind = "decision" <=> d.kind = "decision"
           /\ RolledBack(LoadedDecision(d)) = RolledBack(d)
  BY DEF LoadedDecision, Decision, Kinds, IsSkip, RolledBack, BumpAmount

LEMMA LoadedDecisionOK ==
    ASSUME NEW d \in Decision, EntryOK(d)
    PROVE  EntryOK(LoadedDecision(d))
  BY LoadedDecisionFields DEF EntryOK, Touched

LEMMA LoadedFields ==
    ASSUME NEW f, StoreType(f)
    PROVE  /\ StoreType(Loaded(f))
           /\ f.session # Nil => Live(Loaded(f))
           /\ Loaded(f).daily = f.daily
           /\ f.session = Nil => Loaded(f).session = Nil
           /\ f.session # Nil =>
                 Loaded(f).session =
                    [f.session EXCEPT !.stack =
                        [i \in DOMAIN f.session.stack |->
                            LoadedDecision(f.session.stack[i])]]
           /\ Loaded(f).photos =
                 [x \in PhotoIDs |->
                     IF Known(f, x) /\ f.photos[x].state = "unsure"
                     THEN [f.photos[x] EXCEPT !.state = "unsorted"]
                     ELSE f.photos[x]]
  <1> DEFINE photos == [x \in PhotoIDs |->
                          IF Known(f, x) /\ f.photos[x].state = "unsure"
                          THEN [f.photos[x] EXCEPT !.state = "unsorted"]
                          ELSE f.photos[x]]
             stack == [i \in DOMAIN f.session.stack |->
                          LoadedDecision(f.session.stack[i])]
             live == [f.session EXCEPT !.stack = stack]
             sess == IF f.session = Nil THEN Nil ELSE live
  <1>1. photos \in PhotoTables
    <2>1. \A x \in PhotoIDs : Known(f, x) =>
             [f.photos[x] EXCEPT !.state = "unsorted"] \in Photo
      BY PhotoType DEF Photo, States
    <2> QED BY <2>1 DEF StoreType, PhotoTables
  <1>2. f.session # Nil => /\ live \in Session(live.recentlySkipped)
                           /\ live.stack = stack
                           /\ \A i \in DOMAIN stack : EntryOK(stack[i])
    <2> HAVE f.session # Nil
    <2>1. Live(f)
      BY LiveType DEF HasSession
    <2>2. f.session \in Session(f.session.recentlySkipped)
      BY <2>1 DEF Live
    <2>3. f.session.stack \in Seq(Decision)
      BY <2>2 DEF Session
    <2>4. stack \in Seq(Decision)
      BY <2>3, LoadedDecisionFields
    <2>5. \A i \in DOMAIN stack : EntryOK(stack[i])
      BY <2>1, <2>3, LoadedDecisionOK DEF Live
    <2> HIDE DEF stack
    <2> QED BY <2>2, <2>4, <2>5 DEF Session
  <1>3. LoadedSettings(f.settings) \in Settings
    BY LoadedSettingsType DEF StoreType
  <1>4. Loaded(f) = [f EXCEPT !.settings = LoadedSettings(f.settings),
                              !.session = sess, !.photos = photos]
    BY DEF Loaded, LoadedSession
  <1> HIDE DEF photos, live
  <1>5. IsSession(sess) /\ (sess # Nil => \A i \in DOMAIN sess.stack :
                                             EntryOK(sess.stack[i]))
    BY <1>2 DEF IsSession
  <1> HIDE DEF sess
  <1>6. StoreType([f EXCEPT !.settings = LoadedSettings(f.settings),
                            !.session = sess, !.photos = photos])
    BY <1>1, <1>3, <1>5 DEF StoreType, HasSession
  <1>7. /\ Loaded(f).daily = f.daily
        /\ Loaded(f).session = sess
        /\ Loaded(f).photos = photos
    BY <1>4 DEF StoreType
  <1>8. f.session # Nil => Live(Loaded(f))
    <2> HAVE f.session # Nil
    <2>1. Loaded(f).session = live /\ StoreType(Loaded(f))
      BY <1>4, <1>6, <1>7 DEF sess
    <2> QED BY <1>2, <2>1 DEF StoreType, Live
  <1> QED BY <1>4, <1>6, <1>7, <1>8 DEF sess, live, photos

\* What load makes of the stack: the same entries, decided by the same.
LEMMA LoadedStack ==
    ASSUME NEW f, StoreType(f), f.session # Nil
    PROVE  LET q == f.session.stack
               q2 == Loaded(f).session.stack
           IN  /\ DOMAIN q2 = DOMAIN q
               /\ \A i \in DOMAIN q : q2[i].ops = q[i].ops
               /\ \A i \in DOMAIN q : \A id : Decides(q2[i], id) <=> Decides(q[i], id)
  <1> DEFINE q == f.session.stack
             q2 == [i \in DOMAIN q |-> LoadedDecision(q[i])]
  <1>1. q \in Seq(Decision) /\ f.session \in Session(f.session.recentlySkipped)
    BY LiveType DEF HasSession, Live, Session
  <1>2. Loaded(f).session.stack = q2
    BY <1>1, LoadedFields DEF Session
  <1>3. \A i \in DOMAIN q : q[i] \in Decision
    BY <1>1
  <1>4. \A i \in DOMAIN q : /\ q2[i].ops = q[i].ops
                            /\ IsSkip(q2[i]) <=> IsSkip(q[i])
    BY <1>3, LoadedDecisionFields
  <1>5. DOMAIN q2 = DOMAIN q
    OBVIOUS
  <1> HIDE DEF q, q2
  <1> QED
    BY <1>2, <1>4, <1>5 DEF Decides, q

LEMMA OpenedType ==
    ASSUME NEW f, StoreType(f), NEW t
    PROVE  StoreType(Opened(f, t))
  <1>1. StoreType(Loaded(f))
    BY LoadedFields
  <1> QED BY <1>1, SessionReplaced DEF Opened, IsSession

-----------------------------------------------------------------------------
(***************************************************************************)
(* Type correctness.                                                       *)
(***************************************************************************)
LEMMA TypeInit == Init => TypeOK
  <1> SUFFICES ASSUME Init PROVE TypeOK
    OBVIOUS
  <1>1. PICK f \in StateFiles : Start(f)
    BY DEF Init
  <1>2. StoreType(f)
    BY StateFilesAssumption DEF FileOK
  <1>3. StoreType(mem) /\ StoreType(disk)
    BY <1>1, <1>2, OpenedType DEF Start
  <1> QED BY <1>3, ConstantsAssumption DEF Init, TypeOK

\* What every step but UpsertPhoto, Undo and Reopen does to mem and disk.
LEMMA CommitType ==
    ASSUME TypeOK, NEW s, StoreType(s), Commit(s)
    PROVE  StoreType(mem') /\ StoreType(disk')
  BY DEF Commit, TypeOK

LEMMA TypeNext == TypeOK /\ [Next]_vars => TypeOK'
  <1> SUFFICES ASSUME TypeOK, [Next]_vars PROVE TypeOK'
    OBVIOUS
  <1>0. StoreType(mem) /\ StoreType(disk) /\ now \in 0 .. MaxNow /\ now \in Nat
        /\ MaxNow \in Nat
    BY ConstantsAssumption DEF TypeOK
  <1> SUFFICES /\ StoreType(mem') /\ StoreType(disk')
               /\ now' \in 1 .. MaxNow /\ forgotten' \subseteq PhotoIDs
    BY DEF TypeOK
  <1>1. ASSUME NEW id \in PhotoIDs, UpsertPhoto(id)
        PROVE  StoreType(mem') /\ StoreType(disk')
    BY <1>0, <1>1, UpsertPhotoType DEF UpsertPhoto
  <1>2. ASSUME NEW seen \in SUBSET PhotoIDs, ForgetMissing(seen)
        PROVE  StoreType(mem') /\ StoreType(disk')
    BY <1>0, <1>2, ForgetMissingType, CommitType DEF ForgetMissing
  <1>3. ASSUME AutoStartSession
        PROVE  StoreType(mem') /\ StoreType(disk')
    BY <1>0, <1>3, StartSessionType, CommitType DEF AutoStartSession, StoreCall
  <1>4. ASSUME EndSession
        PROVE  StoreType(mem') /\ StoreType(disk')
    BY <1>0, <1>4, EndSessionType, CommitType DEF EndSession, StoreCall
  <1>5. ASSUME NEW delta \in Batches, SessionExtend(delta)
        PROVE  StoreType(mem') /\ StoreType(disk')
    BY <1>0, <1>5, SessionExtendType, CommitType, ConstantsAssumption
       DEF SessionExtend, StoreCall
  <1>6. ASSUME NEW id \in PhotoIDs, NEW req \in MemberRequest,
               RecordDecision(id, req.newState, req.trashTo)
        PROVE  StoreType(mem') /\ StoreType(disk')
    BY <1>0, <1>6, RecordDecisionPushes, PushStepType, CommitType DEF RecordDecision, StoreCall
  <1>7. ASSUME NEW id \in PhotoIDs, RecordSkip(id)
        PROVE  StoreType(mem') /\ StoreType(disk')
    BY <1>0, <1>7, RecordSkipPushes, PushStepType, CommitType DEF RecordSkip, StoreCall
  <1>8. ASSUME NEW clusterID \in PhotoIDs, NEW ids \in MemberLists,
               SkipCluster(clusterID, ids)
        PROVE  StoreType(mem') /\ StoreType(disk')
    <2>1. ids \in Seq(PhotoIDs)
      BY DEF MemberLists
    <2> QED BY <1>0, <1>8, <2>1, SkipClusterPushes, PushStepType, CommitType
            DEF SkipCluster, StoreCall
  <1>9. ASSUME NEW clusterID \in PhotoIDs, NEW req \in ClusterRequests,
               RecordClusterDecision(clusterID, req)
        PROVE  StoreType(mem') /\ StoreType(disk')
    BY <1>0, <1>9, RecordClusterDecisionPushes, PushStepType, CommitType
       DEF RecordClusterDecision, StoreCall
  <1>10. ASSUME Undo
         PROVE  StoreType(mem') /\ StoreType(disk')
    <2>1. StoreType(AfterUndo(mem))
      BY <1>0, <1>10, UndoFields DEF Undo
    <2> QED BY <1>0, <1>10, <2>1, CommitType DEF Undo, StoreCall
  <1>11. ASSUME NEW ns \in SettingsChoices, UpdateSettings(ns)
         PROVE  StoreType(mem') /\ StoreType(disk')
    BY <1>0, <1>11, UpdateSettingsType, CommitType DEF UpdateSettings, StoreCall
  <1>12. ASSUME Crash \/ Shutdown
         PROVE  StoreType(mem') /\ StoreType(disk')
    BY <1>0, <1>12, OpenedType DEF Crash, Shutdown, Reopen
  <1>13. ASSUME Tick \/ UNCHANGED vars
         PROVE  StoreType(mem') /\ StoreType(disk')
    BY <1>0, <1>13 DEF Tick, vars
  <1>14. /\ \A path \in TrashPaths :
              [newState |-> "trashed", trashTo |-> path] \in MemberRequest
         /\ [newState |-> "kept", trashTo |-> Nil] \in MemberRequest
    BY DEF MemberRequest
  <1>15. StoreType(mem') /\ StoreType(disk')
    BY <1>1, <1>2, <1>3, <1>4, <1>5, <1>6, <1>7, <1>8, <1>9, <1>10, <1>11,
       <1>12, <1>13, <1>14 DEF Next
  <1>16. now' \in 1 .. MaxNow /\ forgotten' \subseteq PhotoIDs
    BY <1>0 DEF TypeOK, Next, vars, UpsertPhoto, ForgetMissing,
       AutoStartSession, EndSession, SessionExtend, RecordDecision, RecordSkip,
       SkipCluster, RecordClusterDecision, Undo, UpdateSettings, Crash,
       Shutdown, Reopen, Tick, StoreCall, Missing
  <1> QED BY <1>15, <1>16

\* Memory and state file hold well-formed store values in every behaviour.
THEOREM TypeCorrect == Spec => []TypeOK
  BY TypeInit, TypeNext, PTL DEF Spec

-----------------------------------------------------------------------------
(***************************************************************************)
(* Sums.                                                                   *)
(***************************************************************************)
LEMMA NatMinimum ==
    ASSUME NEW T \in SUBSET Nat, T # {}
    PROVE  \E x \in T : \A y \in T : x <= y
  <1> DEFINE R == OpToRel(<, Nat)
  <1>1. IsWellFoundedOn(R, Nat)
    BY NatLessThanWellFounded
  <1>2. PICK x \in T : \A y \in T : ~(<<y, x>> \in R)
    <2> HIDE DEF R
    <2> QED BY <1>1, WFMin
  <1>3. \A y \in T : y < x => <<y, x>> \in R
    BY DEF OpToRel
  <1> HIDE DEF R
  <1>4. \A y \in T : x \in Nat /\ y \in Nat /\ ~(y < x)
    BY <1>2, <1>3
  <1> QED BY <1>4

\* Partial sums of naturals do not decrease; by the least distance from the
\* end at which they would.
LEMMA SumMonotone ==
    ASSUME NEW n \in Nat, NEW w, \A i \in 1 .. n : w[i] \in Nat,
           NEW c \in [0 .. n -> Nat],
           \A i \in 1 .. n : c[i] = c[i - 1] + w[i]
    PROVE  \A i \in 0 .. n : c[i] <= c[n]
  <1> DEFINE T == {k \in 0 .. n : c[n - k] > c[n]}
  <1>1. SUFFICES ASSUME T # {} PROVE FALSE
    <2>1. ASSUME T = {}, NEW i \in 0 .. n PROVE c[i] <= c[n]
      <3>1. n - i \in 0 .. n /\ n - (n - i) = i
        OBVIOUS
      <3>2. ~(c[i] > c[n])
        BY <2>1, <3>1
      <3> QED BY <3>2
    <2> QED BY <2>1
  <1>2. PICK k \in T : \A y \in T : k <= y
    <2>1. T \in SUBSET Nat
      OBVIOUS
    <2> HIDE DEF T
    <2> QED BY <1>1, <2>1, NatMinimum
  <1>3. k \in 1 .. n
    <2>1. k # 0
      BY <1>2
    <2> QED BY <1>2, <2>1
  <1>4. k - 1 \in 0 .. n /\ k - 1 \notin T
    <2>1. k - 1 \in 0 .. n /\ ~(k <= k - 1)
      BY <1>3
    <2> HIDE DEF T
    <2> QED BY <1>2, <2>1
  <1>5. ~(c[n - (k - 1)] > c[n])
    BY <1>4
  <1>6. n - (k - 1) = (n - k) + 1 /\ n - k \in 0 .. n /\ (n - k) + 1 \in 1 .. n
    BY <1>3
  <1>7. c[(n - k) + 1] = c[n - k] + w[(n - k) + 1] /\ w[(n - k) + 1] \in Nat
    <2>1. ((n - k) + 1) - 1 = n - k
      BY <1>3
    <2> QED BY <1>6, <2>1
  <1> QED BY <1>2, <1>5, <1>6, <1>7

LEMMA SumPush ==
    ASSUME NEW w, Len(w) \in Nat, NEW total \in Nat, SumsUpTo(w, total),
           NEW k \in Nat, NEW w2, Len(w2) = Len(w) + 1,
           \A i \in 1 .. Len(w) : w2[i] = w[i], w2[Len(w) + 1] = k
    PROVE  SumsUpTo(w2, total + k)
  <1> DEFINE n == Len(w)
  <1>1. PICK c \in [0 .. n -> 0 .. total] :
           c[0] = 0 /\ \A i \in 1 .. n : c[i] = c[i - 1] + w[i]
    BY DEF SumsUpTo
  <1> DEFINE c2 == [i \in 0 .. n + 1 |-> IF i <= n THEN c[i] ELSE c[n] + k]
  <1>2. c2 \in [0 .. Len(w2) -> 0 .. (total + k)]
    BY <1>1
  <1>3. c2[0] = 0
    BY <1>1
  <1>4. ASSUME NEW i \in 1 .. Len(w2) PROVE c2[i] = c2[i - 1] + w2[i]
    <2>1. CASE i <= n
      BY <1>1, <2>1
    <2>2. CASE i = n + 1
      <3>1. c2[i - 1] = c[n] /\ c2[i] = c[n] + k /\ w2[i] = k
        BY <2>2
      <3> QED BY <3>1
    <2> QED BY <2>1, <2>2
  <1> QED BY <1>2, <1>3, <1>4 DEF SumsUpTo

LEMMA SumPop ==
    ASSUME NEW w, Len(w) \in Nat \ {0}, \A i \in 1 .. Len(w) : w[i] \in Nat,
           NEW total \in Nat, SumsUpTo(w, total),
           NEW w2, Len(w2) = Len(w) - 1, \A i \in 1 .. Len(w2) : w2[i] = w[i]
    PROVE  /\ w[Len(w)] <= total
           /\ SumsUpTo(w2, total - w[Len(w)])
           /\ SumsUpTo(w2, total)
  <1> DEFINE m == Len(w)
             n == m - 1
             k == w[m]
  <1>1. PICK c \in [0 .. m -> 0 .. total] :
           c[0] = 0 /\ \A i \in 1 .. m : c[i] = c[i - 1] + w[i]
    BY DEF SumsUpTo
  <1>2. m \in Nat \ {0} /\ k \in Nat /\ Len(w2) = n
        /\ \A i \in 1 .. m : w[i] \in Nat
    OBVIOUS
  <1> HIDE DEF m
  <1> DEFINE c2 == [i \in 0 .. n |-> c[i]]
  <1>3. /\ n \in Nat /\ m \in 1 .. m /\ n \in 0 .. m /\ 0 \in 0 .. n
        /\ 1 .. n \subseteq 1 .. m /\ 0 .. n \subseteq 0 .. m
    BY <1>2
  <1>4. c[m] = c[n] + k /\ c[m] \in 0 .. total /\ c[n] \in 0 .. total
    BY <1>1, <1>3
  <1>5. /\ c2 \in [0 .. n -> Nat]
        /\ \A i \in 1 .. n : w[i] \in Nat /\ c2[i] = c2[i - 1] + w[i]
    <2>1. c2 \in [0 .. n -> Nat]
      BY <1>1, <1>3
    <2>2. ASSUME NEW i \in 1 .. n
          PROVE  w[i] \in Nat /\ c2[i] = c2[i - 1] + w[i]
      <3>1. i \in 1 .. m /\ i \in 0 .. n /\ i - 1 \in 0 .. n
        BY <1>3
      <3> QED BY <1>1, <1>2, <3>1
    <2> QED BY <2>1, <2>2
  <1>6. \A i \in 0 .. n : c2[i] <= c2[n]
    <2> HIDE DEF c2, n
    <2> QED BY <1>3, <1>5, SumMonotone
  <1>7. c2[n] = c[n] /\ c[n] <= total - k /\ k <= total
    BY <1>2, <1>3, <1>4
  <1>8. \A i \in 0 .. n : c2[i] \in 0 .. (total - k) /\ c2[i] \in 0 .. total
    BY <1>2, <1>3, <1>5, <1>6, <1>7
  <1>9. c2 \in [0 .. n -> 0 .. (total - k)] /\ c2 \in [0 .. n -> 0 .. total]
    BY <1>8
  <1>10. c2[0] = 0 /\ \A i \in 1 .. n : c2[i] = c2[i - 1] + w2[i]
    BY <1>1, <1>2, <1>3, <1>5
  <1> HIDE DEF c2, n
  <1>11. Len(w2) = n
    BY <1>2 DEF n
  <1> QED BY <1>7, <1>9, <1>10, <1>11 DEF SumsUpTo, m

LEMMA SumEmpty ==
    ASSUME NEW w, Len(w) = 0, NEW total \in Nat
    PROVE  SumsUpTo(w, total)
  <1> DEFINE c == [i \in 0 .. 0 |-> 0]
  <1>1. c \in [0 .. Len(w) -> 0 .. total] /\ c[0] = 0
    OBVIOUS
  <1>2. \A i \in 1 .. Len(w) : c[i] = c[i - 1] + w[i]
    OBVIOUS
  <1> HIDE DEF c
  <1> QED BY <1>1, <1>2 DEF SumsUpTo

-----------------------------------------------------------------------------
(***************************************************************************)
(* Counters cover the undo stack.  The three ways a step can touch what    *)
(* CountersCover speaks of: not at all, by pushing an entry, by Undo; and  *)
(* load, which may change the kind of an entry.                            *)
(***************************************************************************)
Covered(s) ==
    /\ SumsUpTo(Amounts(s.session.stack), s.session.done)
    /\ \A day \in Days :
          SumsUpTo(AmountsOn(s.session.stack, day), s.daily[day])

LEMMA AmountsType ==
    ASSUME NEW q \in Seq(Decision), NEW day
    PROVE  /\ Len(q) \in Nat
           /\ Len(Amounts(q)) = Len(q)
           /\ Len(AmountsOn(q, day)) = Len(q)
           /\ \A i \in 1 .. Len(q) :
                /\ Amounts(q)[i] = RolledBack(q[i])
                /\ AmountsOn(q, day)[i] = IF Day(q[i].at) = day
                                          THEN RolledBack(q[i]) ELSE 0
                /\ Amounts(q)[i] \in Nat
                /\ AmountsOn(q, day)[i] \in Nat
  <1>1. Len(q) \in Nat /\ \A i \in 1 .. Len(q) : q[i] \in Decision
    OBVIOUS
  <1>2. \A i \in 1 .. Len(q) : RolledBack(q[i]) \in Nat
    BY <1>1, RolledBackType
  <1> QED BY <1>1, <1>2 DEF Amounts, AmountsOn

LEMMA AmountsPushed ==
    ASSUME NEW q \in Seq(Decision), NEW d \in Decision, NEW total \in Nat
    PROVE  /\ SumsUpTo(Amounts(q), total) =>
                 SumsUpTo(Amounts(Append(q, d)), total + RolledBack(d))
           /\ \A day : SumsUpTo(AmountsOn(q, day), total) =>
                 SumsUpTo(AmountsOn(Append(q, d), day),
                          total + IF Day(d.at) = day THEN RolledBack(d) ELSE 0)
  <1> DEFINE q2 == Append(q, d)
  <1>1. q2 \in Seq(Decision) /\ RolledBack(d) \in Nat
    BY RolledBackType
  <1>2. /\ Len(q) \in Nat /\ Len(q2) = Len(q) + 1
        /\ \A i \in 1 .. Len(q) : q2[i] = q[i] /\ i \in 1 .. Len(q2)
        /\ q2[Len(q) + 1] = d /\ Len(q) + 1 \in 1 .. Len(q2)
    OBVIOUS
  <1> HIDE DEF q2
  <1>3. ASSUME SumsUpTo(Amounts(q), total)
        PROVE  SumsUpTo(Amounts(q2), total + RolledBack(d))
    <2> DEFINE w == Amounts(q)
               w2 == Amounts(q2)
    <2>1. Len(w) = Len(q) /\ \A i \in 1 .. Len(q) : w[i] = RolledBack(q[i])
      BY AmountsType
    <2>2. Len(w2) = Len(q2) /\ \A i \in 1 .. Len(q2) : w2[i] = RolledBack(q2[i])
      BY <1>1, AmountsType
    <2>3. SumsUpTo(w, total)
      BY <1>3
    <2> HIDE DEF w, w2
    <2>4. /\ Len(w) \in Nat /\ Len(w2) = Len(w) + 1
          /\ \A i \in 1 .. Len(w) : w2[i] = w[i]
          /\ w2[Len(w) + 1] = RolledBack(d)
      BY <1>2, <2>1, <2>2
    <2>5. SumsUpTo(w2, total + RolledBack(d))
      BY <1>1, <2>3, <2>4, SumPush
    <2> QED BY <2>5 DEF w2
  <1>4. ASSUME NEW day, SumsUpTo(AmountsOn(q, day), total)
        PROVE  SumsUpTo(AmountsOn(q2, day),
                        total + IF Day(d.at) = day THEN RolledBack(d) ELSE 0)
    <2> DEFINE w == AmountsOn(q, day)
               w2 == AmountsOn(q2, day)
               on(e) == IF Day(e.at) = day THEN RolledBack(e) ELSE 0
               k == on(d)
    <2>1. Len(w) = Len(q) /\ \A i \in 1 .. Len(q) : w[i] = on(q[i])
      BY AmountsType
    <2>2. Len(w2) = Len(q2) /\ \A i \in 1 .. Len(q2) : w2[i] = on(q2[i])
      BY <1>1, AmountsType
    <2>3. SumsUpTo(w, total) /\ k \in Nat
      BY <1>1, <1>4
    <2> HIDE DEF w, w2
    <2>4. /\ Len(w) \in Nat /\ Len(w2) = Len(w) + 1
          /\ \A i \in 1 .. Len(w) : w2[i] = w[i]
          /\ w2[Len(w) + 1] = k
      BY <1>2, <2>1, <2>2
    <2> HIDE DEF k, on
    <2>5. SumsUpTo(w2, total + k)
      BY <2>3, <2>4, SumPush
    <2> QED BY <2>5 DEF w2, k, on
  <1> QED BY <1>3, <1>4 DEF q2

LEMMA AmountsPopped ==
    ASSUME NEW q \in Seq(Decision), q # << >>, NEW total \in Nat
    PROVE  LET d == Last(q)
               rest == SubSeq(q, 1, Len(q) - 1)
               on(day) == IF Day(d.at) = day THEN RolledBack(d) ELSE 0
           IN  /\ SumsUpTo(Amounts(q), total) =>
                     /\ RolledBack(d) <= total
                     /\ SumsUpTo(Amounts(rest), total - RolledBack(d))
                     /\ SumsUpTo(Amounts(rest), total)
               /\ \A day : SumsUpTo(AmountsOn(q, day), total) =>
                     /\ on(day) <= total
                     /\ SumsUpTo(AmountsOn(rest, day), total - on(day))
                     /\ SumsUpTo(AmountsOn(rest, day), total)
  <1> DEFINE d == Last(q)
             rest == SubSeq(q, 1, Len(q) - 1)
  <1>1. rest \in Seq(Decision) /\ Len(q) \in Nat \ {0}
    OBVIOUS
  <1>2. /\ Len(rest) = Len(q) - 1
        /\ \A i \in 1 .. Len(rest) : rest[i] = q[i] /\ i \in 1 .. Len(q)
        /\ Len(q) \in 1 .. Len(q) /\ q[Len(q)] = d
    <2>1. 1 \in 1 .. Len(q) + 1 /\ Len(q) - 1 \in 1 - 1 .. Len(q)
      BY <1>1
    <2>2. /\ Len(rest) = Len(q) - 1
          /\ \A i \in 1 .. Len(q) - 1 : rest[i] = q[i]
      <3> DEFINE m == Len(q) - 1
      <3>1. m \in Nat
        BY <1>1
      <3>2. rest = [i \in 1 .. m |-> q[i]]
        BY <1>1
      <3> HIDE DEF rest, m
      <3>3. Len(rest) = m
        BY <3>1, <3>2
      <3> QED BY <3>2, <3>3 DEF m
    <2> HIDE DEF rest
    <2> QED BY <1>1, <2>2 DEF Last
  <1> HIDE DEF d, rest
  <1>3. ASSUME SumsUpTo(Amounts(q), total)
        PROVE  /\ RolledBack(d) <= total
               /\ SumsUpTo(Amounts(rest), total - RolledBack(d))
               /\ SumsUpTo(Amounts(rest), total)
    <2> DEFINE w == Amounts(q)
               w2 == Amounts(rest)
    <2>1. Len(w) = Len(q)
          /\ \A i \in 1 .. Len(q) : w[i] = RolledBack(q[i]) /\ w[i] \in Nat
      BY AmountsType
    <2>2. Len(w2) = Len(rest)
          /\ \A i \in 1 .. Len(rest) : w2[i] = RolledBack(rest[i])
      BY <1>1, AmountsType
    <2>3. SumsUpTo(w, total)
      BY <1>3
    <2> HIDE DEF w, w2
    <2>4. /\ Len(w) \in Nat \ {0} /\ Len(w2) = Len(w) - 1
          /\ \A i \in 1 .. Len(w2) : w2[i] = w[i]
          /\ w[Len(w)] = RolledBack(d)
          /\ \A i \in 1 .. Len(w) : w[i] \in Nat
      BY <1>1, <1>2, <2>1, <2>2
    <2>5. /\ w[Len(w)] <= total
          /\ SumsUpTo(w2, total - w[Len(w)])
          /\ SumsUpTo(w2, total)
      BY <2>3, <2>4, SumPop
    <2> QED BY <2>4, <2>5 DEF w2
  <1>4. ASSUME NEW day, SumsUpTo(AmountsOn(q, day), total)
        PROVE  LET k == IF Day(d.at) = day THEN RolledBack(d) ELSE 0
               IN  /\ k <= total
                   /\ SumsUpTo(AmountsOn(rest, day), total - k)
                   /\ SumsUpTo(AmountsOn(rest, day), total)
    <2> DEFINE w == AmountsOn(q, day)
               w2 == AmountsOn(rest, day)
               on(e) == IF Day(e.at) = day THEN RolledBack(e) ELSE 0
               k == on(d)
    <2>1. Len(w) = Len(q)
          /\ \A i \in 1 .. Len(q) : w[i] = on(q[i]) /\ w[i] \in Nat
      BY AmountsType
    <2>2. Len(w2) = Len(rest) /\ \A i \in 1 .. Len(rest) : w2[i] = on(rest[i])
      BY <1>1, AmountsType
    <2>3. SumsUpTo(w, total)
      BY <1>4
    <2> HIDE DEF w, w2
    <2>4. /\ Len(w) \in Nat \ {0} /\ Len(w2) = Len(w) - 1
          /\ \A i \in 1 .. Len(w2) : w2[i] = w[i]
          /\ w[Len(w)] = k
          /\ \A i \in 1 .. Len(w) : w[i] \in Nat
      BY <1>1, <1>2, <2>1, <2>2
    <2>5. /\ w[Len(w)] <= total
          /\ SumsUpTo(w2, total - w[Len(w)])
          /\ SumsUpTo(w2, total)
      BY <2>3, <2>4, SumPop
    <2> QED BY <2>4, <2>5 DEF w2, k, on
  <1> QED BY <1>3, <1>4 DEF d, rest

\* What a step does to the stack and the counters when it pushes an entry.
LEMMA CoveredPush ==
    ASSUME NEW s, Live(s), Covered(s), NEW d \in Decision, EntryOK(d)
    PROVE  Covered(Pushed(s, d, RolledBack(d)))
  <1> DEFINE n == RolledBack(d)
             u == Pushed(s, d, n)
             sess == s.session
  <1>1. /\ sess.stack \in Seq(Decision) /\ sess.done \in Nat
        /\ sess \in Session(sess.recentlySkipped)
        /\ s.daily \in [Days -> Nat]
        /\ n \in Nat /\ Day(d.at) \in Days
    BY RolledBackType DEF Live, Session, EntryOK
  <1>2. n \in Nat
    BY <1>1
  <1> HIDE DEF n
  <1>3. /\ u.session.stack = Append(sess.stack, d)
        /\ u.session.done = sess.done + n
        /\ u.daily = DailyPushed(s, d, n)
    BY <1>2, PushedType, Zenon
  <1> HIDE DEF u, sess
  <1>4. SumsUpTo(Amounts(Append(sess.stack, d)), sess.done + n)
    BY <1>1, AmountsPushed DEF Covered, sess, n
  <1>5. ASSUME NEW day \in Days
        PROVE  SumsUpTo(AmountsOn(Append(sess.stack, d), day), u.daily[day])
    <2>1. SumsUpTo(AmountsOn(sess.stack, day), s.daily[day])
      BY DEF Covered, sess
    <2>2. s.daily[day] \in Nat
      BY <1>1
    <2>3. SumsUpTo(AmountsOn(Append(sess.stack, d), day),
                   s.daily[day] + IF Day(d.at) = day THEN n ELSE 0)
      BY <1>1, <2>1, <2>2, AmountsPushed DEF n
    <2>4. u.daily[day] = s.daily[day] + IF Day(d.at) = day THEN n ELSE 0
      BY <1>1, <1>3, <2>2 DEF DailyPushed
    <2> QED BY <2>3, <2>4
  <1> QED BY <1>3, <1>4, <1>5 DEF Covered, u, n

\* The top entry never takes back more than there is; so nothing is clamped.
LEMMA CoveredPop ==
    ASSUME NEW s, StoreType(s), CanUndo(s), Covered(s)
    PROVE  /\ RolledBack(Last(s.session.stack)) <= s.session.done
           /\ RolledBack(Last(s.session.stack))
                 <= s.daily[Day(Last(s.session.stack).at)]
           /\ Covered(AfterUndo(s))
  <1> DEFINE q == s.session.stack
             d == Last(q)
             rest == SubSeq(q, 1, Len(q) - 1)
             n == RolledBack(d)
             u == AfterUndo(s)
             on(day) == IF Day(d.at) = day THEN n ELSE 0
  <1>1. /\ q \in Seq(Decision) /\ q # << >>
        /\ s.session.done \in Nat /\ n \in Nat /\ Day(d.at) \in Days
    BY PoppedType DEF EntryOK, CanUndo
  <1>2. s.daily \in [Days -> Nat]
    BY DEF StoreType
  <1>3. /\ u.session.stack = rest
        /\ UndoFails(s) => u.session.done = s.session.done /\ u.daily = s.daily
        /\ ~UndoFails(s) =>
             /\ u.session.done = Minus(s.session.done, n)
             /\ u.daily = DailyUndone(s, d)
    <2>1. d = Last(s.session.stack)
      OBVIOUS
    <2>2. rest = SubSeq(s.session.stack, 1, Len(s.session.stack) - 1)
      OBVIOUS
    <2> HIDE DEF d, rest
    <2>3. u.session.stack = rest
      BY <2>1, <2>2, UndoFields, Zenon
    <2>4. UndoFails(s) => u.session.done = s.session.done /\ u.daily = s.daily
      BY <2>1, <2>2, UndoFields, Zenon
    <2>5. ~UndoFails(s) => u.session.done = Minus(s.session.done, RolledBack(d))
      BY <2>1, <2>2, UndoFields, Zenon
    <2>6. ~UndoFails(s) => u.daily = DailyUndone(s, d)
      BY <2>1, <2>2, UndoFields, Zenon
    <2> QED BY <2>3, <2>4, <2>5, <2>6
  <1>4. /\ SumsUpTo(Amounts(q), s.session.done)
        /\ \A day \in Days : SumsUpTo(AmountsOn(q, day), s.daily[day])
    BY DEF Covered
  <1> HIDE DEF q, u
  <1>5. /\ n <= s.session.done
        /\ SumsUpTo(Amounts(rest), s.session.done - n)
        /\ SumsUpTo(Amounts(rest), s.session.done)
    BY <1>1, <1>4, AmountsPopped
  <1>6. ASSUME NEW day \in Days
        PROVE  /\ on(day) <= s.daily[day]
               /\ SumsUpTo(AmountsOn(rest, day), s.daily[day] - on(day))
               /\ SumsUpTo(AmountsOn(rest, day), s.daily[day])
    <2>1. s.daily[day] \in Nat /\ SumsUpTo(AmountsOn(q, day), s.daily[day])
      BY <1>2, <1>4
    <2> QED BY <1>1, <2>1, AmountsPopped
  <1>7. n <= s.daily[Day(d.at)]
    BY <1>1, <1>6
  <1> HIDE DEF d, rest, n
  <1>8. Covered(u)
    <2>1. CASE UndoFails(s)
      BY <1>3, <1>5, <1>6, <2>1 DEF Covered
    <2>2. CASE ~UndoFails(s)
      <3>1. u.session.done = s.session.done - n
        BY <1>1, <1>3, <1>5, <2>2 DEF Minus
      <3>2. ASSUME NEW day \in Days
            PROVE  u.daily[day] = s.daily[day] - on(day)
        <4>1. s.daily[day] \in Nat
          BY <1>2
        <4>2. CASE Day(d.at) = day
          BY <1>1, <1>2, <1>3, <1>7, <2>2, <4>1, <4>2
             DEF Minus, DailyUndone, n
        <4>3. CASE Day(d.at) # day
          BY <1>1, <1>2, <1>3, <2>2, <4>1, <4>3 DEF DailyUndone
        <4> QED BY <4>2, <4>3
      <3> QED BY <1>3, <1>5, <1>6, <3>1, <3>2 DEF Covered
    <2> QED BY <2>1, <2>2
  <1> QED BY <1>5, <1>7, <1>8 DEF d, n, q, u

\* The store values the steps lead to.
LEMMA CoverSame ==
    ASSUME NEW s, NEW u, CountersCover(s), u.session = s.session,
           u.daily = s.daily
    PROVE  CountersCover(u)
  BY DEF CountersCover, HasSession

LEMMA CoverNoSession ==
    ASSUME NEW u, u.session = Nil
    PROVE  CountersCover(u)
  BY DEF CountersCover, HasSession

LEMMA CoverPushStep ==
    ASSUME NEW s, CountersCover(s), HasSession(s), NEW u, PushStep(s, u)
    PROVE  CountersCover(u)
  <1>1. PICK s2, d : /\ Live(s2)
                     /\ d \in Decision
                     /\ EntryOK(d)
                     /\ s2.session.stack = s.session.stack
                     /\ s2.session.done = s.session.done
                     /\ s2.daily = s.daily
                     /\ u = Pushed(s2, d, RolledBack(d))
    BY DEF PushStep, Pushes, Prepared
  <1>2. Covered(s2)
    BY <1>1 DEF CountersCover, Covered
  <1>3. Covered(u)
    BY <1>1, <1>2, CoveredPush
  <1> QED BY <1>3 DEF CountersCover, Covered

LEMMA CoverStart ==
    ASSUME NEW s, StoreType(s), NEW t \in Nat
    PROVE  CountersCover(AfterAutoStartSession(s, t))
  <1> DEFINE u == AfterAutoStartSession(s, t)
  <1>1. u.session.stack = <<>> /\ u.session.done = 0 /\ u.daily = s.daily
    BY DEF AfterAutoStartSession, AfterStartSession, StoreType
  <1>2. Len(Amounts(<<>>)) = 0 /\ \A day : Len(AmountsOn(<<>>, day)) = 0
    BY DEF Amounts, AmountsOn
  <1>3. s.daily \in [Days -> Nat]
    BY DEF StoreType
  <1>4. Covered(u)
    <2> HIDE DEF u
    <2>1. SumsUpTo(Amounts(<<>>), 0)
      BY <1>2, SumEmpty
    <2>2. \A day \in Days : SumsUpTo(AmountsOn(<<>>, day), s.daily[day])
      BY <1>2, <1>3, SumEmpty
    <2> QED BY <1>1, <2>1, <2>2 DEF Covered
  <1> QED BY <1>4 DEF CountersCover, Covered

LEMMA CoverExtend ==
    ASSUME NEW s, StoreType(s), HasSession(s), CountersCover(s), NEW delta
    PROVE  CountersCover(AfterSessionExtend(s, delta))
  <1> DEFINE u == AfterSessionExtend(s, delta)
  <1>1. s.session \in Session(s.session.recentlySkipped)
    BY LiveType DEF Live
  <1>2. /\ u.session.stack = s.session.stack
        /\ u.session.done = s.session.done
        /\ u.daily = s.daily
    BY <1>1 DEF AfterSessionExtend, StoreType, Session
  <1> QED BY <1>2 DEF CountersCover

LEMMA CoverUndo ==
    ASSUME NEW s, StoreType(s), CanUndo(s), CountersCover(s)
    PROVE  /\ CountersCover(AfterUndo(s))
           /\ RolledBack(Last(s.session.stack)) <= s.session.done
           /\ RolledBack(Last(s.session.stack))
                 <= s.daily[Day(Last(s.session.stack).at)]
  <1>1. Covered(s)
    BY DEF CountersCover, Covered, CanUndo
  <1>2. /\ Covered(AfterUndo(s))
        /\ RolledBack(Last(s.session.stack)) <= s.session.done
        /\ RolledBack(Last(s.session.stack))
              <= s.daily[Day(Last(s.session.stack).at)]
    BY <1>1, CoveredPop
  <1> QED BY <1>2 DEF CountersCover, Covered

LEMMA CoverOpened ==
    ASSUME NEW f, StoreType(f), CountersCover(f), NEW t
    PROVE  CountersCover(Opened(f, t))
  <1> DEFINE q == f.session.stack
             u == Loaded(f)
  <1>1. ASSUME f.session # Nil
        PROVE  /\ Amounts(u.session.stack) = Amounts(q)
               /\ \A day : AmountsOn(u.session.stack, day) = AmountsOn(q, day)
               /\ u.session.done = f.session.done
    <2>1. f.session \in Session(f.session.recentlySkipped)
      BY <1>1, LiveType DEF Live, HasSession
    <2> DEFINE q2 == [i \in DOMAIN q |-> LoadedDecision(q[i])]
    <2>2. u.session = [f.session EXCEPT !.stack = q2]
      BY <1>1, LoadedFields
    <2> HIDE DEF u, q2
    <2>3. u.session.stack = q2 /\ u.session.done = f.session.done
      BY <2>1, <2>2 DEF Session
    <2>4. q \in Seq(Decision)
      BY <2>1 DEF Session
    <2>5. /\ Len(q2) = Len(q)
          /\ \A i \in 1 .. Len(q) : /\ q2[i].at = q[i].at
                                     /\ RolledBack(q2[i]) = RolledBack(q[i])
      <3>1. \A i \in 1 .. Len(q) : q[i] \in Decision
        BY <2>4
      <3>2. Len(q2) = Len(q) /\ \A i \in 1 .. Len(q) :
                                     q2[i] = LoadedDecision(q[i])
        BY <2>4 DEF q2
      <3> QED BY <3>1, <3>2, LoadedDecisionFields
    <2> QED BY <2>3, <2>5 DEF Amounts, AmountsOn
  <1>2. u.daily = f.daily /\ (f.session = Nil => u.session = Nil)
    BY LoadedFields
  <1>3. StoreType(u)
    BY LoadedFields
  <1> HIDE DEF u
  <1>4. CountersCover(u)
    BY <1>1, <1>2 DEF CountersCover, HasSession
  <1>5. IsSession(Nil) /\ [u EXCEPT !.session = Nil].session = Nil
    BY <1>3, SessionReplaced DEF IsSession
  <1> QED BY <1>4, <1>5, CoverNoSession DEF Opened, u

LEMMA CoverInit == Init => CounterCoversStack
  <1> SUFFICES ASSUME Init PROVE CounterCoversStack
    OBVIOUS
  <1>1. PICK f \in StateFiles : Start(f)
    BY DEF Init
  <1>2. StoreType(f) /\ CountersCover(f)
    BY StateFilesAssumption DEF FileOK
  <1>3. CountersCover(Opened(f, now))
    BY <1>2, CoverOpened
  <1> QED BY <1>1, <1>2, <1>3 DEF CounterCoversStack, Start

LEMMA CoverNext ==
    TypeOK /\ CounterCoversStack /\ [Next]_vars => CounterCoversStack'
  <1> SUFFICES ASSUME TypeOK, CounterCoversStack, [Next]_vars
               PROVE  CountersCover(mem') /\ CountersCover(disk')
    BY DEF CounterCoversStack
  <1>0. /\ StoreType(mem) /\ StoreType(disk) /\ now \in 0 .. MaxNow
        /\ now \in Nat /\ CountersCover(mem) /\ CountersCover(disk)
    BY ConstantsAssumption DEF TypeOK, CounterCoversStack
  <1> DEFINE Commits(u) == CountersCover(u) /\ Commit(u)
             OK == CountersCover(mem') /\ CountersCover(disk')
  <1>a. ASSUME NEW u, Commits(u) PROVE OK
    BY <1>0, <1>a DEF Commit
  <1>1. ASSUME NEW id \in PhotoIDs, UpsertPhoto(id) PROVE OK
    <2>1. /\ AfterUpsertPhoto(mem, id).session = mem.session
          /\ AfterUpsertPhoto(mem, id).daily = mem.daily
      BY <1>0 DEF AfterUpsertPhoto, StoreType
    <2> QED BY <1>0, <1>1, <2>1, CoverSame DEF UpsertPhoto
  <1>2. ASSUME NEW seen \in SUBSET PhotoIDs, ForgetMissing(seen) PROVE OK
    <2>1. /\ AfterForgetMissing(mem, seen).session = mem.session
          /\ AfterForgetMissing(mem, seen).daily = mem.daily
      BY <1>0 DEF AfterForgetMissing, StoreType
    <2> QED BY <1>0, <1>2, <1>a, <2>1, CoverSame DEF ForgetMissing
  <1>3. ASSUME AutoStartSession PROVE OK
    BY <1>0, <1>3, <1>a, CoverStart DEF AutoStartSession, StoreCall
  <1>4. ASSUME EndSession PROVE OK
    <2>1. AfterEndSession(mem).session = Nil
      BY <1>0 DEF AfterEndSession, StoreType
    <2> QED BY <1>4, <1>a, <2>1, CoverNoSession DEF EndSession, StoreCall
  <1>5. ASSUME NEW delta \in Batches, SessionExtend(delta) PROVE OK
    BY <1>0, <1>5, <1>a, CoverExtend DEF SessionExtend, StoreCall
  <1>6. ASSUME NEW id \in PhotoIDs, NEW req \in MemberRequest,
               RecordDecision(id, req.newState, req.trashTo)
        PROVE  OK
    <2>1. HasSession(mem) /\ CanDecide(mem, id)
      BY <1>6 DEF RecordDecision, CanDecide
    <2> QED BY <1>0, <1>6, <1>a, <2>1, RecordDecisionPushes, CoverPushStep
            DEF RecordDecision, StoreCall
  <1>7. ASSUME NEW id \in PhotoIDs, RecordSkip(id) PROVE OK
    <2>1. HasSession(mem) /\ CanDecide(mem, id)
      BY <1>7 DEF RecordSkip, CanDecide
    <2> QED BY <1>0, <1>7, <1>a, <2>1, RecordSkipPushes, CoverPushStep
            DEF RecordSkip, StoreCall
  <1>8. ASSUME NEW clusterID \in PhotoIDs, NEW ids \in MemberLists,
               SkipCluster(clusterID, ids)
        PROVE  OK
    <2>1. ids \in Seq(PhotoIDs)
      BY DEF MemberLists
    <2> QED BY <1>0, <1>8, <1>a, <2>1, SkipClusterPushes, CoverPushStep
            DEF SkipCluster, StoreCall
  <1>9. ASSUME NEW clusterID \in PhotoIDs, NEW req \in ClusterRequests,
               RecordClusterDecision(clusterID, req)
        PROVE  OK
    <2>1. HasSession(mem) /\ CanDecideCluster(mem, req)
      BY <1>9 DEF RecordClusterDecision, CanDecideCluster
    <2> QED BY <1>0, <1>9, <1>a, <2>1, RecordClusterDecisionPushes,
               CoverPushStep
            DEF RecordClusterDecision, StoreCall
  <1>10. ASSUME Undo PROVE OK
    <2>1. CountersCover(AfterUndo(mem))
      BY <1>0, <1>10, CoverUndo DEF Undo
    <2> QED BY <1>0, <1>10, <1>a, <2>1 DEF Undo, StoreCall
  <1>11. ASSUME NEW ns \in SettingsChoices, UpdateSettings(ns) PROVE OK
    <2>1. /\ AfterUpdateSettings(mem, ns).session = mem.session
          /\ AfterUpdateSettings(mem, ns).daily = mem.daily
      BY <1>0 DEF AfterUpdateSettings, StoreType
    <2> QED BY <1>0, <1>11, <1>a, <2>1, CoverSame DEF UpdateSettings, StoreCall
  <1>12. ASSUME Crash \/ Shutdown PROVE OK
    BY <1>0, <1>12, CoverOpened DEF Crash, Shutdown, Reopen
  <1>13. ASSUME Tick \/ UNCHANGED vars PROVE OK
    BY <1>0, <1>13 DEF Tick, vars
  <1>14. /\ \A path \in TrashPaths :
              [newState |-> "trashed", trashTo |-> path] \in MemberRequest
         /\ [newState |-> "kept", trashTo |-> Nil] \in MemberRequest
    BY DEF MemberRequest
  <1> HIDE DEF OK
  <1>15. OK
    BY <1>1, <1>2, <1>3, <1>4, <1>5, <1>6, <1>7, <1>8, <1>9, <1>10, <1>11,
       <1>12, <1>13, <1>14 DEF Next
  <1> QED BY <1>15 DEF OK

\* In every behaviour Done and the daily counters cover the undo stack
\* (CounterCoversStack): undoing a batch entry by entry cannot take off a
\* counter more than the batch put on it.
THEOREM CountersCorrect == Spec => []CounterCoversStack
  <1>1. TypeOK /\ CounterCoversStack /\ [Next]_vars => CounterCoversStack'
    BY CoverNext
  <1> QED BY <1>1, TypeCorrect, CoverInit, PTL DEF Spec

LEMMA CoverNoClamp == TypeOK /\ CounterCoversStack => UndoNeverClamps
  <1> SUFFICES ASSUME TypeOK, CounterCoversStack,
                      NEW s \in {mem, disk}, CanUndo(s)
               PROVE  /\ RolledBack(Last(s.session.stack)) <= s.session.done
                      /\ RolledBack(Last(s.session.stack))
                            <= s.daily[Day(Last(s.session.stack).at)]
    BY DEF UndoNeverClamps
  <1>1. StoreType(s) /\ CountersCover(s)
    BY DEF TypeOK, CounterCoversStack
  <1> QED BY <1>1, CoverUndo

\* The clamps at zero in Undo's rollback of the counters are never reached
\* (UndoNeverClamps): it follows from CountersCorrect.
THEOREM NoClamp == Spec => []UndoNeverClamps
  BY TypeCorrect, CountersCorrect, CoverNoClamp, PTL
=============================================================================
