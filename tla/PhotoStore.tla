------------------------------ MODULE PhotoStore ------------------------------
(***************************************************************************)
(* The store of photoSwipe (src/internal/store): photo table, session with *)
(* its undo stack, settings and daily counters, kept in memory (mem) under *)
(* one mutex and written whole to the state file (disk) by every mutator.  *)
(*                                                                         *)
(* A store value is a record; every mutating method M is an operator       *)
(* AfterM that maps the value before the call to the value after it, and   *)
(* an action that installs the result in memory and saves it.  The mutex   *)
(* makes a method one step.  saveLocked writes a temporary file and        *)
(* renames it, so the state file is always a complete value; when the save *)
(* fails the method returns an error but memory stays mutated.             *)
(*                                                                         *)
(* Left out as data no method reads back: LastSeenAt, Path, AddedAt,       *)
(* session and token identifiers.  SizeBytes, Time and the hash fields are *)
(* only input to clustering.  SetPhotoState and MarkSeen have no caller in *)
(* the program.                                                            *)
(***************************************************************************)
EXTENDS Integers, Sequences, FiniteSets

CONSTANTS
    PhotoIDs,        \* the identifiers (hashes of relative paths) in play
    TrashPaths,      \* file names inside the trash directory
    Nil,             \* nil: no session, no photo, no operation, no path
    StateFiles,      \* the state files the first start may find
    SettingsChoices, \* the settings the settings form may post
    Batches,         \* the deltas POST /session/extend may carry
    DefaultBatch,    \* DefaultSettings().DefaultBatchSize (10 in the code)
    SkipCap,         \* FIFO cap of RecordSkip in an open-ended session (5)
    ClusterSkipCap,  \* FIFO cap of SkipCluster in an open-ended session (10)
    DayLength,       \* clock ticks per day; also staleSessionAge (24 h)
    SavesMayFail,    \* whether saveLocked may return an error
    MaxNow,          \* bound: last instant of the clock
    MaxStack,        \* bound: entries of an undo stack
    MaxDone,         \* bound: decisions counted in a session
    MaxDaily,        \* bound: decisions counted in a day
    MaxTarget        \* bound: target of a session

States == {"unsorted", "kept", "unsure", "trashed"}

Mixes == {"all_new", "mixed", "heavy_review", "review_only"}

Settings == [baseRate: Nat, decay: Nat, unsureBaseRate: Nat, cooldown: Nat,
             lockThreshold: Int, dupeThreshold: Int, defaultBatchSize: Int,
             defaultMix: Mixes \cup {"none"}, skipAdvancesCounter: BOOLEAN,
             clusterCountsAsOne: BOOLEAN]

\* Rates in hundredths, the cooldown in clock ticks.
DefaultSettings ==
    [baseRate |-> 15, decay |-> 40, unsureBaseRate |-> 60, cooldown |-> 1,
     lockThreshold |-> 0, dupeThreshold |-> 35,
     defaultBatchSize |-> DefaultBatch, defaultMix |-> "mixed",
     skipAdvancesCounter |-> FALSE, clusterCountsAsOne |-> TRUE]

\* Zero is the zero time: never decided.
Photo == [state: States, keepCount: Nat, unsureCount: Nat,
          lastDecisionAt: Nat, trashedPath: TrashPaths \cup {Nil}]

NewPhoto == [state |-> "unsorted", keepCount |-> 0, unsureCount |-> 0,
             lastDecisionAt |-> 0, trashedPath |-> Nil]

\* One photo's transition.  "none" is the empty PhotoState.
MemberOp == [prevState: States \cup {"none"}, newState: States \cup {"none"},
             prevKeepCount: Nat, prevUnsureCount: Nat,
             trashTo: TrashPaths \cup {Nil}]

\* Mutant: the counts are saved after the decision has changed them.
OpAfterChange(p, newState, trashTo) ==
    [prevState |-> p.state, newState |-> newState,
     prevKeepCount |-> p.keepCount + IF newState = "kept" THEN 1 ELSE 0,
     prevUnsureCount |-> p.unsureCount, trashTo |-> trashTo]

Op(p, newState, trashTo) ==
    [prevState |-> p.state, newState |-> newState,
     prevKeepCount |-> p.keepCount, prevUnsureCount |-> p.unsureCount,
     trashTo |-> trashTo]

\* ClusterMemberOp{PhotoID: id}, all that SkipCluster fills in.
ZeroOp == [prevState |-> "none", newState |-> "none", prevKeepCount |-> 0,
           prevUnsureCount |-> 0, trashTo |-> Nil]

(***************************************************************************)
(* An undo stack entry.  kind stands for the pair (Skipped, Cluster # nil) *)
(* on which Undo switches; ops holds an operation for each photo the entry *)
(* touches, one for a single decision or skip.                             *)
(***************************************************************************)
Kinds == {"decision", "cluster", "skip", "clusterSkip"}

Decision == [photo: PhotoIDs, kind: Kinds, at: Nat, advanced: BOOLEAN,
             counterBump: Nat,
             ops: [PhotoIDs -> MemberOp \cup {Nil}]]

Touched(d) == {x \in PhotoIDs : d.ops[x] # Nil}

Day(t) == t \div DayLength

Days == 0 .. Day(MaxNow)

Stale(sess, t) == t - sess.startedAt > DayLength

Complete(sess) == sess.target > 0 /\ sess.done >= sess.target

(***************************************************************************)
(* Methods of the store, as operators on a store value s at time t.  A     *)
(* method that returns an error before touching anything has no step: the  *)
(* Can operators are its conditions.                                       *)
(***************************************************************************)
HasSession(s) == s.session # Nil

Known(s, id) == s.photos[id] # Nil

\* The photo after a decision; LastDecisionAt is stamped on every outcome.
Decided(p, newState, trashTo, t) ==
    [p EXCEPT !.state = newState,
              !.keepCount = IF newState = "kept" THEN @ + 1 ELSE @,
              !.unsureCount = IF newState = "unsure" THEN @ + 1 ELSE @,
              !.trashedPath = IF newState = "trashed" THEN trashTo ELSE @,
              !.lastDecisionAt = t]

\* Mutant: counts on the day the session began.
PushedOnFirstDay(s, d, n) ==
    [s EXCEPT !.session.stack = Append(@, d),
              !.session.done = @ + n,
              !.daily[Day(s.session.startedAt)] = @ + n]

\* Push an entry and advance Done and the day's counter by n.
Pushed(s, d, n) ==
    [s EXCEPT !.session.stack = Append(@, d),
              !.session.done = @ + n,
              !.daily[Day(d.at)] = @ + n]

AfterUpsertPhoto(s, id) ==
    IF Known(s, id)
    THEN s
    ELSE [s EXCEPT !.photos[id] = NewPhoto]

\* Mutant: trashed photos are not spared.
MissingAll(s, seen) == {id \in PhotoIDs : Known(s, id) /\ id \notin seen}

\* The photos ForgetMissing drops: not seen by the scan and not trashed.
Missing(s, seen) ==
    {id \in PhotoIDs : /\ Known(s, id)
                       /\ id \notin seen
                       /\ s.photos[id].state # "trashed"}

AfterForgetMissing(s, seen) ==
    [s EXCEPT !.photos = [x \in PhotoIDs |->
                             IF x \in Missing(s, seen) THEN Nil ELSE @[x]]]

AutoTarget(s) ==
    IF s.settings.defaultBatchSize < 0 THEN 0 ELSE s.settings.defaultBatchSize

AutoMix(s) ==
    IF s.settings.defaultMix \in Mixes THEN s.settings.defaultMix ELSE "mixed"

\* Mutant: the undo stack outlives the session.
StartKeepingStack(s, target, mix, t) ==
    [s EXCEPT !.session =
        [target |-> target, done |-> 0, mix |-> mix, startedAt |-> t,
         stack |-> IF HasSession(s) THEN s.session.stack ELSE <<>>,
         recentlySkipped |-> <<>>]]

\* Replaces whatever session there is: the check is in the caller.
AfterStartSession(s, target, mix, t) ==
    [s EXCEPT !.session =
        [target |-> target, done |-> 0, mix |-> mix, startedAt |-> t,
         stack |-> <<>>, recentlySkipped |-> <<>>]]

AfterAutoStartSession(s, t) ==
    AfterStartSession(s, AutoTarget(s), AutoMix(s), t)

AfterEndSession(s) ==
    [s EXCEPT !.lastBatchDone = IF HasSession(s) THEN s.session.done ELSE @,
              !.session = Nil]

\* Mutant: any delta is added to any target.
ExtendBlindly(s, delta) ==
    [s EXCEPT !.session.target = @ + delta,
              !.session.recentlySkipped = <<>>]

AfterSessionExtend(s, delta) ==
    [s EXCEPT !.session.target = IF delta <= 0 THEN 0
                                 ELSE IF @ > 0 THEN @ + delta ELSE @,
              !.session.recentlySkipped = <<>>]

CanDecide(s, id) == HasSession(s) /\ Known(s, id)

AfterRecordDecision(s, id, newState, trashTo, t) ==
    LET d == [photo |-> id, kind |-> "decision", at |-> t, advanced |-> FALSE,
              counterBump |-> 0,
              ops |-> [x \in PhotoIDs |->
                          IF x = id THEN Op(s.photos[id], newState, trashTo)
                          ELSE Nil]]
    IN  Pushed([s EXCEPT !.photos[id] = Decided(@, newState, trashTo, t)], d, 1)

\* Mutant: one more than the cap.
NewestOffByOne(q, cap) ==
    IF Len(q) > cap + 1 THEN SubSeq(q, Len(q) - cap, Len(q)) ELSE q

\* The last cap elements of a sequence.
Newest(q, cap) ==
    IF Len(q) > cap THEN SubSeq(q, Len(q) - cap + 1, Len(q)) ELSE q

CapOf(sess, openEnded) == IF sess.target <= 0 THEN openEnded ELSE sess.target

AfterRecordSkip(s, id, t) ==
    LET p == s.photos[id]
        advance == s.settings.skipAdvancesCounter
        d == [photo |-> id, kind |-> "skip", at |-> t, advanced |-> advance,
              counterBump |-> 0,
              ops |-> [x \in PhotoIDs |->
                          IF x = id THEN [ZeroOp EXCEPT !.prevState = p.state,
                                                        !.newState = p.state]
                          ELSE Nil]]
        fifo == Newest(Append(s.session.recentlySkipped, id),
                       CapOf(s.session, SkipCap))
    IN  Pushed([s EXCEPT !.session.recentlySkipped = fifo],
               d, IF advance THEN 1 ELSE 0)

\* What a resolved cluster of n members adds to Done.
ClusterBump(s, n) ==
    IF s.settings.clusterCountsAsOne \/ n < 1 THEN 1 ELSE n

AfterSkipCluster(s, clusterID, ids, t) ==
    LET advance == s.settings.skipAdvancesCounter
        bump == IF advance THEN ClusterBump(s, Len(ids)) ELSE 0
        d == [photo |-> clusterID, kind |-> "clusterSkip", at |-> t,
              advanced |-> advance, counterBump |-> bump,
              ops |-> [x \in PhotoIDs |->
                          IF \E i \in DOMAIN ids : ids[i] = x THEN ZeroOp
                          ELSE Nil]]
        fifo == Newest(s.session.recentlySkipped \o ids,
                       CapOf(s.session, ClusterSkipCap))
    IN  Pushed([s EXCEPT !.session.recentlySkipped = fifo], d, bump)

\* What the handler asks of the members of a cluster: keep or trash each.
MemberRequest == [newState: {"kept"}, trashTo: {Nil}]
                 \cup [newState: {"trashed"}, trashTo: TrashPaths]

ClusterRequests == [PhotoIDs -> MemberRequest \cup {Nil}]

Requested(req) == {x \in PhotoIDs : req[x] # Nil}

CanDecideCluster(s, req) ==
    HasSession(s) /\ \A id \in Requested(req) : Known(s, id)

AfterRecordClusterDecision(s, clusterID, req, t) ==
    LET bump == ClusterBump(s, Cardinality(Requested(req)))
        d == [photo |-> clusterID, kind |-> "cluster", at |-> t,
              advanced |-> FALSE, counterBump |-> bump,
              ops |-> [x \in PhotoIDs |->
                          IF x \in Requested(req)
                          THEN Op(s.photos[x], req[x].newState, req[x].trashTo)
                          ELSE Nil]]
        photos == [x \in PhotoIDs |->
                      IF x \in Requested(req)
                      THEN Decided(s.photos[x], req[x].newState,
                                   req[x].trashTo, t)
                      ELSE s.photos[x]]
    IN  Pushed([s EXCEPT !.photos = photos], d, bump)

(***************************************************************************)
(* Undo.  The popped entry's amount is taken off Done and off the counter  *)
(* of the day it was recorded, clamped at zero.                            *)
(***************************************************************************)
IsSkip(d) == d.kind \in {"skip", "clusterSkip"}

BumpAmount(d) == IF d.counterBump <= 0 THEN 1 ELSE d.counterBump

\* Mutant: free skips are taken back too.
RolledBackAlways(d) == BumpAmount(d)

\* What Undo takes back: nothing for a skip that did not advance.
RolledBack(d) == IF IsSkip(d) /\ ~d.advanced THEN 0 ELSE BumpAmount(d)

Minus(n, k) == IF n >= k THEN n - k ELSE 0

Last(q) == q[Len(q)]

\* Mutant: the counts stay.
RevertedState(p, op) ==
    [p EXCEPT !.state = op.prevState,
              !.trashedPath = IF op.newState = "trashed" THEN Nil ELSE @]

\* A member put back: LastDecisionAt is not part of what was saved.
Reverted(p, op) ==
    [p EXCEPT !.state = op.prevState,
              !.keepCount = op.prevKeepCount,
              !.unsureCount = op.prevUnsureCount,
              !.trashedPath = IF op.newState = "trashed" THEN Nil ELSE @]

\* Mutant: every occurrence goes.
UnskippedAll(q, M) == SelectSeq(q, LAMBDA id : id \notin M)

\* q without the last occurrence of each member of M.
Unskipped(q, M) ==
    LET gone(i) == q[i] \in M /\ \A j \in (i + 1) .. Len(q) : q[j] # q[i]
        kept == {i \in DOMAIN q : ~gone(i)}
        nth(k) == CHOOSE i \in kept : Cardinality({j \in kept : j <= i}) = k
    IN  [k \in 1 .. Cardinality(kept) |-> q[nth(k)]]

CanUndo(s) == HasSession(s) /\ s.session.stack # <<>>

\* A single decision on a photo that was forgotten: the entry is popped, then
\* Undo returns an error before the counters are rolled back and before the save.
UndoFails(s) ==
    LET d == Last(s.session.stack) IN d.kind = "decision" /\ ~Known(s, d.photo)

UndoneMembers(d) == IF d.kind = "skip" THEN {d.photo} ELSE Touched(d)

\* Mutant: the members of a cluster keep their new state.
UndoSingles(s) ==
    LET d == Last(s.session.stack)
        n == RolledBack(d)
    IN  [s EXCEPT
            !.session.stack = SubSeq(@, 1, Len(@) - 1),
            !.session.done = Minus(@, n),
            !.daily[Day(d.at)] = Minus(@, n),
            !.photos = [x \in PhotoIDs |->
                           IF d.kind = "decision" /\ d.photo = x /\ Known(s, x)
                           THEN Reverted(s.photos[x], d.ops[x])
                           ELSE s.photos[x]]]

AfterUndo(s) ==
    LET d == Last(s.session.stack)
        n == RolledBack(d)
        popped == [s EXCEPT !.session.stack = SubSeq(@, 1, Len(@) - 1)]
    IN  IF UndoFails(s)
        THEN popped
        ELSE [popped EXCEPT
                !.session.done = Minus(@, n),
                !.daily[Day(d.at)] = Minus(@, n),
                !.session.recentlySkipped =
                    IF IsSkip(d) THEN Unskipped(@, UndoneMembers(d)) ELSE @,
                !.photos = [x \in PhotoIDs |->
                               IF ~IsSkip(d) /\ x \in Touched(d) /\ Known(s, x)
                               THEN Reverted(s.photos[x], d.ops[x])
                               ELSE s.photos[x]]]

AfterUpdateSettings(s, ns) == [s EXCEPT !.settings = ns]

(***************************************************************************)
(* Start-up: load and Open.  Zero rate, threshold or batch size mean "not  *)
(* in the file"; an empty cluster is not written (omitempty) and comes     *)
(* back nil, which turns a cluster skip into a single skip.                *)
(***************************************************************************)
LoadedSettings(st) ==
    LET u == IF st.baseRate = 0 THEN DefaultSettings ELSE st
    IN  [u EXCEPT !.dupeThreshold = IF @ = 0 THEN 35 ELSE @,
                  !.defaultBatchSize = IF @ = 0 THEN DefaultBatch ELSE @,
                  !.defaultMix = IF @ \in Mixes THEN @ ELSE "mixed"]

LoadedDecision(d) ==
    IF d.kind = "clusterSkip" /\ Touched(d) = {}
    THEN [d EXCEPT !.kind = "skip"]
    ELSE d

\* Mutant: Done is not written to the file.
LoadedWithoutDone(sess) == [sess EXCEPT !.done = 0]

LoadedSession(sess) ==
    [sess EXCEPT !.stack = [i \in DOMAIN @ |-> LoadedDecision(@[i])]]

\* Mutant: "unsure" photos stay.
LoadedVerbatim(f) ==
    [f EXCEPT !.settings = LoadedSettings(@),
              !.session = IF @ = Nil THEN @ ELSE LoadedSession(@)]

Loaded(f) ==
    [f EXCEPT !.settings = LoadedSettings(@),
              !.session = IF @ = Nil THEN @ ELSE LoadedSession(@),
              !.photos = [x \in PhotoIDs |->
                             IF Known(f, x) /\ f.photos[x].state = "unsure"
                             THEN [f.photos[x] EXCEPT !.state = "unsorted"]
                             ELSE f.photos[x]]]

DropsSession(f, t) == HasSession(f) /\ Stale(f.session, t)

Opened(f, t) ==
    IF DropsSession(f, t)
    THEN [Loaded(f) EXCEPT !.session = Nil]
    ELSE Loaded(f)

-----------------------------------------------------------------------------
VARIABLES
    mem,        \* Store.state
    disk,       \* the contents of .photosort-state.json
    now,        \* the wall clock
    forgotten   \* history: every id ForgetMissing has ever dropped

vars == <<mem, disk, now, forgotten>>

\* A first start on the state file f.
Start(f) ==
    /\ mem = Opened(f, now)
    /\ disk = IF DropsSession(f, now) THEN Opened(f, now) ELSE f

Init ==
    /\ now = 1
    /\ forgotten = {}
    /\ \E f \in StateFiles : Start(f)

\* saveLocked: the file becomes s, or stays as it is when the write fails.
Commit(s) ==
    /\ mem' = s
    /\ disk' \in IF SavesMayFail THEN {s, disk} ELSE {s}

StoreCall(s) == Commit(s) /\ UNCHANGED <<now, forgotten>>

\* An existing entry is saved only when size or time changed.
UpsertPhoto(id) ==
    /\ mem' = AfterUpsertPhoto(mem, id)
    /\ disk' \in IF SavesMayFail \/ Known(mem, id)
                 THEN {mem', disk}
                 ELSE {mem'}
    /\ UNCHANGED <<now, forgotten>>

ForgetMissing(seen) ==
    /\ Missing(mem, seen) # {}
    /\ Commit(AfterForgetMissing(mem, seen))
    /\ forgotten' = forgotten \cup Missing(mem, seen)
    /\ UNCHANGED now

AutoStartSession ==
    /\ AutoTarget(mem) <= MaxTarget
    /\ StoreCall(AfterAutoStartSession(mem, now))

EndSession == StoreCall(AfterEndSession(mem))

SessionExtend(delta) ==
    /\ HasSession(mem)
    /\ mem.session.target + delta <= MaxTarget
    /\ StoreCall(AfterSessionExtend(mem, delta))

\* Room for an entry that counts n, within the bounds.
Room(n) ==
    /\ Len(mem.session.stack) < MaxStack
    /\ mem.session.done + n <= MaxDone
    /\ mem.daily[Day(now)] + n <= MaxDaily

RecordDecision(id, newState, trashTo) ==
    /\ CanDecide(mem, id)
    /\ Room(1)
    /\ StoreCall(AfterRecordDecision(mem, id, newState, trashTo, now))

RecordSkip(id) ==
    /\ CanDecide(mem, id)
    /\ Room(1)
    /\ StoreCall(AfterRecordSkip(mem, id, now))

SkipCluster(clusterID, ids) ==
    /\ HasSession(mem)
    /\ Room(ClusterBump(mem, Len(ids)))
    /\ StoreCall(AfterSkipCluster(mem, clusterID, ids, now))

RecordClusterDecision(clusterID, req) ==
    /\ CanDecideCluster(mem, req)
    /\ Requested(req) # {}
    /\ Room(ClusterBump(mem, Cardinality(Requested(req))))
    /\ StoreCall(AfterRecordClusterDecision(mem, clusterID, req, now))

Undo ==
    /\ CanUndo(mem)
    /\ IF UndoFails(mem)
       THEN mem' = AfterUndo(mem) /\ UNCHANGED <<disk, now, forgotten>>
       ELSE StoreCall(AfterUndo(mem))

UpdateSettings(ns) == StoreCall(AfterUpdateSettings(mem, ns))

\* A new process opens the file f.
Reopen(f) ==
    /\ mem' = Opened(f, now)
    /\ disk' = IF DropsSession(f, now) THEN mem' ELSE f
    /\ UNCHANGED <<now, forgotten>>

\* The process dies; what memory had and the file had not is gone.
Crash == Reopen(disk)

\* A clean stop: Close saves memory once more.
Shutdown == Reopen(mem)

Tick ==
    /\ now < MaxNow
    /\ now' = now + 1
    /\ UNCHANGED <<mem, disk, forgotten>>

\* Orders in which a cluster's undecided members can be listed.
MemberLists ==
    {ids \in UNION {[1 .. n -> PhotoIDs] : n \in 0 .. Cardinality(PhotoIDs)} :
        \A i, j \in DOMAIN ids : ids[i] = ids[j] => i = j}

Next ==
    \/ \E id \in PhotoIDs : UpsertPhoto(id)
    \/ \E seen \in SUBSET PhotoIDs : ForgetMissing(seen)
    \/ AutoStartSession
    \/ EndSession
    \/ \E delta \in Batches : SessionExtend(delta)
    \/ \E id \in PhotoIDs : RecordDecision(id, "kept", Nil)
    \/ \E id \in PhotoIDs, path \in TrashPaths :
            RecordDecision(id, "trashed", path)
    \/ \E id \in PhotoIDs : RecordSkip(id)
    \/ \E clusterID \in PhotoIDs, ids \in MemberLists :
            SkipCluster(clusterID, ids)
    \/ \E clusterID \in PhotoIDs, req \in ClusterRequests :
            RecordClusterDecision(clusterID, req)
    \/ Undo
    \/ \E ns \in SettingsChoices : UpdateSettings(ns)
    \/ Crash
    \/ Shutdown
    \/ Tick

Spec == Init /\ [][Next]_vars

-----------------------------------------------------------------------------
(***************************************************************************)
(* Type correctness.  The elements of RecentlySkipped are constrained by   *)
(* SkipListBounded below.                                                  *)
(***************************************************************************)
Session(fifo) ==
    [target: Nat, done: Nat, mix: Mixes, startedAt: Nat,
     stack: Seq(Decision), recentlySkipped: {fifo}]

IsSession(x) == x = Nil \/ x \in Session(x.recentlySkipped)

PhotoTables == [PhotoIDs -> Photo \cup {Nil}]

EntryOK(d) ==
    /\ Day(d.at) \in Days
    /\ d.kind = "decision" => Touched(d) = {d.photo}
    /\ ~IsSkip(d) => \A x \in Touched(d) : d.ops[x].prevState \in States

StoreType(s) ==
    /\ s \in [photos: PhotoTables, session: {s.session}, settings: Settings,
              daily: [Days -> Nat], lastBatchDone: Nat]
    /\ IsSession(s.session)
    /\ HasSession(s) =>
          \A i \in DOMAIN s.session.stack : EntryOK(s.session.stack[i])

\* Memory and state file always hold well-formed store values: every method,
\* whether its save succeeds or fails, and every start-up keeps them so.
TypeOK ==
    /\ StoreType(mem)
    /\ StoreType(disk)
    /\ now \in 1 .. MaxNow
    /\ forgotten \subseteq PhotoIDs

(***************************************************************************)
(* Counters.  A sum is stated with a witness c, c[i] being the sum of the  *)
(* first i amounts.                                                        *)
(***************************************************************************)
SumsUpTo(w, total) ==
    \E c \in [0 .. Len(w) -> 0 .. total] :
        /\ c[0] = 0
        /\ \A i \in 1 .. Len(w) : c[i] = c[i - 1] + w[i]

\* What each entry of a stack would take back, at all and from one day.
Amounts(q) == [i \in 1 .. Len(q) |-> RolledBack(q[i])]

AmountsOn(q, day) ==
    [i \in 1 .. Len(q) |-> IF Day(q[i].at) = day THEN RolledBack(q[i]) ELSE 0]

CountersCover(s) ==
    HasSession(s) =>
        /\ SumsUpTo(Amounts(s.session.stack), s.session.done)
        /\ \A day \in Days :
              SumsUpTo(AmountsOn(s.session.stack, day), s.daily[day])

\* Everything the undo stack could still take back is in Done, and in the
\* counter of the day each entry was recorded (Undo, store.go:639-736):
\* undoing a batch entry by entry, across midnight, restarts, lost saves and
\* changed settings, never takes more off a counter than was put on it.
CounterCoversStack == CountersCover(mem) /\ CountersCover(disk)

\* The clamps of rollbackCounter (store.go:659-667) are never what decides the
\* result: an undo subtracts exactly what its entry added.
UndoNeverClamps ==
    \A s \in {mem, disk} : CanUndo(s) =>
        LET d == Last(s.session.stack)
        IN  /\ RolledBack(d) <= s.session.done
            /\ RolledBack(d) <= s.daily[Day(d.at)]

(***************************************************************************)
(* The undo stack as a chain.                                              *)
(***************************************************************************)
Decides(d, id) == ~IsSkip(d) /\ d.ops[id] # Nil

\* op left the photo in this state with these counts.
Left(op, state, keepCount, unsureCount) ==
    /\ state = op.newState
    /\ keepCount = op.prevKeepCount + IF op.newState = "kept" THEN 1 ELSE 0
    /\ unsureCount = op.prevUnsureCount + IF op.newState = "unsure" THEN 1 ELSE 0

StackLinked(s, id) ==
    LET q == s.session.stack
        T == {i \in DOMAIN q : Decides(q[i], id)}
        p == s.photos[id]
    IN  /\ T # {} => Known(s, id)
        /\ \A i, j \in T :
              (i < j /\ \A k \in T : k <= i \/ j <= k) =>
                  Left(q[i].ops[id], q[j].ops[id].prevState,
                       q[j].ops[id].prevKeepCount, q[j].ops[id].prevUnsureCount)
        /\ \A i \in T :
              (\A k \in T : k <= i) =>
                  Left(q[i].ops[id], p.state, p.keepCount, p.unsureCount)

Linked(s, ids) ==
    HasSession(s) => \A id \in ids : StackLinked(s, id)

\* The entries that decide one photo form a chain: what an entry saved as the
\* state before it is what the entry below left, and the photo is now as the top
\* one left it.  So undoing the whole batch leads every photo back, through the
\* very states it went through, to where it stood when the session began
\* (RecordDecision, RecordClusterDecision, Undo), whatever rescans, restarts and
\* lost saves came in between, unless a rescan dropped the photo.
UndoStackLinked ==
    \A s \in {mem, disk} : Linked(s, PhotoIDs \ forgotten)

\* The part of a store value an undo gives back.
Restorable(s) ==
    [session |-> s.session, daily |-> s.daily,
     photos |-> [x \in PhotoIDs |->
        IF Known(s, x)
        THEN [s.photos[x] EXCEPT !.lastDecisionAt = 0, !.trashedPath = Nil]
        ELSE Nil]]

FitsFifo(n, openEnded) ==
    Len(mem.session.recentlySkipped) + n <= CapOf(mem.session, openEnded)

\* Undo right after any decision, cluster decision or skip gives back session,
\* counters and photos (store.go:639-736).  A skip that pushes an older one out
\* of the FIFO does not get the older one back.
UndoInverts ==
    LET someID == CHOOSE id \in PhotoIDs : TRUE
    IN  (HasSession(mem) /\ Len(mem.session.stack) < MaxStack) =>
        /\ \A id \in PhotoIDs : Known(mem, id) =>
              /\ \A req \in MemberRequest :
                    Restorable(AfterUndo(AfterRecordDecision(
                        mem, id, req.newState, req.trashTo, now)))
                      = Restorable(mem)
              /\ FitsFifo(1, SkipCap) =>
                    AfterUndo(AfterRecordSkip(mem, id, now)) = mem
        /\ \A req \in ClusterRequests :
              (Requested(req) # {} /\ CanDecideCluster(mem, req)) =>
                  Restorable(AfterUndo(AfterRecordClusterDecision(
                      mem, someID, req, now))) = Restorable(mem)
        /\ \A ids \in MemberLists :
              FitsFifo(Len(ids), ClusterSkipCap) =>
                  AfterUndo(AfterSkipCluster(mem, someID, ids, now)) = mem

FifoOK(s) ==
    HasSession(s) =>
        LET fifo == s.session.recentlySkipped
        IN  /\ fifo \in Seq(PhotoIDs)
            /\ s.session.target > 0 => Len(fifo) <= s.session.target
            /\ s.session.target = 0 =>
                  Len(fifo) <= IF SkipCap < ClusterSkipCap THEN ClusterSkipCap
                               ELSE SkipCap

\* RecentlySkipped holds photo ids, never more than its cap: the target, or the
\* larger of the two open-ended caps (store.go:475-482, 513-520).  Were it to
\* grow past that, a small library would run out of candidates for good.
SkipListBounded == FifoOK(mem) /\ FifoOK(disk)

NoneUnsure(s) == \A id \in PhotoIDs : Known(s, id) => s.photos[id].state # "unsure"

\* No stack entry remembers the state.
UnsureForgotten(s) ==
    HasSession(s) =>
        \A i \in DOMAIN s.session.stack, id \in PhotoIDs :
            Decides(s.session.stack[i], id) =>
                s.session.stack[i].ops[id].prevState # "unsure"

\* Once load has turned the retired "unsure" photos into unsorted ones
\* (store.go:92-99) nothing brings the state back: no decision, and no undo,
\* because no stack entry remembers it either.
UnsureRetired == NoneUnsure(mem) /\ UnsureForgotten(mem)

IsTrashed(s, id) == Known(s, id) /\ s.photos[id].state = "trashed"

\* u is s with one more entry on the undo stack, an entry that decides id.
AddsDecision(s, u, id) ==
    /\ HasSession(s) /\ HasSession(u)
    /\ u.session.stack # <<>>
    /\ Decides(Last(u.session.stack), id)
    /\ s.session.stack = SubSeq(u.session.stack, 1, Len(u.session.stack) - 1)

\* A trashed photo leaves that state only in a step that records a decision on
\* it, in one that takes the newest decision back and finds it there, or in a
\* restart on a state file that does not have it trashed (the trashing was
\* never saved).  Rescans that miss the file, other photos' decisions and undos,
\* ended and replaced sessions, settings and clean restarts leave it trashed.
\* What a rescan makes of a trashed photo whose file it sees again is left open
\* (UpsertPhoto): there the code and docs/operations.md:148-152 disagree.
TrashedUntilUndone ==
    [][\A id \in PhotoIDs :
          (IsTrashed(mem, id) /\ ~IsTrashed(mem', id)) =>
              \/ AddsDecision(mem, mem', id)
              \/ AddsDecision(mem', mem, id)
              \/ mem' = Opened(disk, now) /\ ~IsTrashed(disk, id)
              \/ UpsertPhoto(id)]_vars

-----------------------------------------------------------------------------
(***************************************************************************)
(* What the proofs and the runs assume of the constants.                   *)
(***************************************************************************)
\* No decision in the program makes a photo "unsure".
NoUnsureMade(s) ==
    HasSession(s) =>
        \A i \in DOMAIN s.session.stack, id \in PhotoIDs :
            Decides(s.session.stack[i], id) =>
                s.session.stack[i].ops[id].newState # "unsure"

\* A state file as the store itself writes it.
FileOK(f) ==
    /\ StoreType(f)
    /\ CountersCover(f)
    /\ Linked(f, PhotoIDs)
    /\ NoUnsureMade(f)
    /\ FifoOK(f)

ASSUME ConstantsAssumption ==
    /\ IsFiniteSet(PhotoIDs)
    /\ DayLength \in Nat \ {0}
    /\ MaxNow \in Nat \ {0}
    /\ DefaultBatch \in Int
    /\ SettingsChoices \subseteq Settings
    /\ Batches \subseteq Int
    /\ SkipCap \in Nat /\ ClusterSkipCap \in Nat
    /\ SavesMayFail \in BOOLEAN

\* Nil is none of the values it stands in for the lack of.
ASSUME NilAssumption ==
    /\ Nil \notin Photo
    /\ Nil \notin MemberOp
    /\ Nil \notin [target: Nat, done: Nat, mix: Mixes, startedAt: Nat,
                    stack: Seq(Decision), recentlySkipped: Seq(PhotoIDs)]

ASSUME StateFilesAssumption == \A f \in StateFiles : FileOK(f)
=============================================================================
