------------------------------- MODULE Timeline -------------------------------
(***************************************************************************)
(* What the store promises of undo, without its bookkeeping                *)
(* (docs/architecture.md:79-94): a batch remembers what all the photos     *)
(* looked like before each answer, and an undo shows them like that again. *)
(* The store keeps per entry only what one answer changed; PhotoStore is   *)
(* shown to implement this module in StoreTimeline.                        *)
(*                                                                         *)
(* A photo's look is its state and its counts.  Nil is a photo not there   *)
(* yet, Gone one a rescan dropped: of those nothing is promised, even when *)
(* they come back.                                                         *)
(***************************************************************************)
EXTENDS Integers, Sequences

CONSTANTS PhotoIDs, Nil, Gone, States

VARIABLES
    looks,   \* the photos now
    past,    \* their earlier looks, latest last; Nil without a session
    saved    \* looks and past in the state file

vars == <<looks, past, saved>>

Look == [state: States, keepCount: Nat, unsureCount: Nat]

New == [state |-> "unsorted", keepCount |-> 0, unsureCount |-> 0]

Looks == [PhotoIDs -> Look \cup {Nil, Gone}]

Here(id) == looks[id] \notin {Nil, Gone}

\* The past as it were had the photos of S always been v.
Always(P, S, v) ==
    IF P = Nil THEN Nil
    ELSE [n \in DOMAIN P |-> [id \in PhotoIDs |-> IF id \in S THEN v ELSE P[n][id]]]

\* A change is saved, or the save fails; a later one may make up for it.
Saves == saved' \in {saved, [looks |-> looks', past |-> past']}

Resaved == UNCHANGED <<looks, past>> /\ Saves

Scanned(id) ==
    /\ looks[id] = Nil
    /\ looks' = [looks EXCEPT ![id] = New]
    /\ past' = Always(past, {id}, New)
    /\ Saves

Dropped ==
    LET gone == {id \in PhotoIDs : looks'[id] = Gone}
    IN  /\ \A id \in PhotoIDs \ gone : looks'[id] = looks[id]
        /\ past' = Always(past, gone, Gone)
        /\ saved' \in {[looks |-> looks', past |-> past'],
                       [looks |-> [id \in PhotoIDs |->
                                      IF id \in gone THEN Gone ELSE saved.looks[id]],
                        past |-> Always(saved.past, gone, Gone)]}

Kept(look) == [state |-> "kept", keepCount |-> look.keepCount + 1,
               unsureCount |-> look.unsureCount]

Trashed(look) == [look EXCEPT !.state = "trashed"]

\* An answer keeps and trashes any photos; a skip none.
Answer ==
    /\ past # Nil
    /\ past' = Append(past, looks)
    /\ \A id \in PhotoIDs :
          looks'[id] \in {looks[id]} \cup IF Here(id)
                                          THEN {Kept(looks[id]), Trashed(looks[id])}
                                          ELSE {}
    /\ Saves

Undo ==
    /\ past \notin {Nil, <<>>}
    /\ looks' = past[Len(past)]
    /\ past' = SubSeq(past, 1, Len(past) - 1)
    /\ Saves

\* A session begins or ends.
Session ==
    /\ past' \in {Nil, <<>>}
    /\ UNCHANGED looks
    /\ Saves

\* The retired "unsure" is read as unsorted.
Read(L) ==
    [id \in PhotoIDs |-> IF L[id] \notin {Nil, Gone} /\ L[id].state = "unsure"
                         THEN [L[id] EXCEPT !.state = "unsorted"]
                         ELSE L[id]]

ReadPast(P) == IF P = Nil THEN Nil ELSE [n \in DOMAIN P |-> Read(P[n])]

\* A new process starts from what was saved, or from what a clean stop saved
\* last; a stale session is over.
Restart(from) ==
    /\ looks' = Read(from.looks)
    /\ past' \in {ReadPast(from.past), Nil}
    /\ saved' \in {from, [looks |-> looks', past |-> past']}

Init ==
    /\ saved.looks \in Looks
    /\ saved.past = Nil \/ saved.past \in Seq(Looks)
    /\ looks = Read(saved.looks)
    /\ past \in {ReadPast(saved.past), Nil}

Next ==
    \/ \E id \in PhotoIDs : Scanned(id)
    \/ Dropped
    \/ Answer
    \/ Undo
    \/ Session
    \/ Resaved
    \/ Restart(saved)
    \/ Restart([looks |-> looks, past |-> past])

Spec == Init /\ [][Next]_vars
=============================================================================
