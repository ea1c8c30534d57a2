----------------------------- MODULE StoreTimeline -----------------------------
(***************************************************************************)
(* PhotoStore implements Timeline: the looks an undo stack remembers are   *)
(* those its entries lead back to, read from the top of the stack down.    *)
(***************************************************************************)
EXTENDS PhotoStore

CONSTANT Gone   \* a photo a rescan dropped

LookOf(p) == [state |-> p.state, keepCount |-> p.keepCount,
              unsureCount |-> p.unsureCount]

LookNow(s, gone, id) ==
    IF id \in gone THEN Gone
    ELSE IF Known(s, id) THEN LookOf(s.photos[id])
    ELSE Nil

LooksOf(s, gone) == [id \in PhotoIDs |-> LookNow(s, gone, id)]

\* The look before entry n of the stack q: what the first entry from n on that
\* decided the photo saved of it; else the look it has now.
LookBefore(q, look, n, id) ==
    LET later == {i \in n .. Len(q) : Decides(q[i], id)}
        op == q[CHOOSE i \in later : \A k \in later : i <= k].ops[id]
    IN  IF look = Gone \/ later = {} THEN look
        ELSE [state |-> op.prevState, keepCount |-> op.prevKeepCount,
              unsureCount |-> op.prevUnsureCount]

PastOf(s, gone) ==
    IF ~HasSession(s) THEN Nil
    ELSE [n \in DOMAIN s.session.stack |->
             [id \in PhotoIDs |->
                 LookBefore(s.session.stack, LooksOf(s, gone)[id], n, id)]]

Timelines == INSTANCE Timeline WITH
    looks <- LooksOf(mem, forgotten),
    past <- PastOf(mem, forgotten),
    saved <- [looks |-> LooksOf(disk, forgotten), past |-> PastOf(disk, forgotten)]

\* Nil and Gone are neither looks nor, Nil, a past.
ASSUME LookAssumption ==
    /\ {Nil, Gone} \cap Timelines!Look = {}
    /\ Nil # Gone
    /\ Nil \notin Seq(Timelines!Looks)

\* The store implements the timeline: whatever is decided, skipped, undone,
\* rescanned, restarted or lost in a failed save, an undo shows every photo as it
\* was before the answer it takes back (docs/architecture.md:87-89; Undo,
\* store.go:639-736), state and counts.
ImplementsTimeline == Timelines!Spec
=============================================================================
