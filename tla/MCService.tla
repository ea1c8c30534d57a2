------------------------------ MODULE MCService ------------------------------
(***************************************************************************)
(* Small instances of Service for TLC.                                     *)
(***************************************************************************)
EXTENDS Service, StoreTimeline, TLC

MCTrashPaths == PhotoIDs \X (1 .. MaxSlot)

\* A library whose photos the indexer has not seen, no cooldown.
MCFresh == [photos |-> [x \in PhotoIDs |-> Nil], session |-> Nil,
            settings |-> [DefaultSettings EXCEPT !.cooldown = 0],
            daily |-> [d \in Days |-> 0], lastBatchDone |-> 0]

MCFreshFile == {MCFresh}

\* The settings form saved as it is: the file catches up with memory.
SameSettings == {MCFresh.settings}

NoSettings == {}
=============================================================================
