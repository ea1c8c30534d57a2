------------------------------- MODULE MCDupes -------------------------------
(***************************************************************************)
(* Small instances of Dupes for TLC.                                       *)
(***************************************************************************)
EXTENDS Dupes

\* {1} and {2} are alike only through {1, 2}.
Hashed(times) ==
    [hash: (SUBSET Bits) \ {{}}, time: times, trashed: {FALSE}]

NotHashed == [hash |-> {}, time |-> 1, trashed |-> FALSE]

InTrash == [hash |-> Bits, time |-> 1, trashed |-> TRUE]

\* Four photos taken at two times; three at any times; two beside one that is in
\* the trash and one that is not hashed.
MCTables ==
    [PhotoIDs -> Hashed({1, 3})]
    \cup {[t EXCEPT ![4] = NotHashed] :
             t \in [PhotoIDs -> Hashed(Times)]}
    \cup {[t EXCEPT ![1] = NotHashed, ![3] = InTrash] :
             t \in [PhotoIDs -> Hashed({1})]}
=============================================================================
