----------------------------- MODULE MCPhotoStore -----------------------------
(***************************************************************************)
(* Small instances of PhotoStore for TLC.                                  *)
(***************************************************************************)
EXTENDS StoreTimeline, TLC

CONSTANTS a, b   \* two photos

\* A library an older version left behind: every photo has the retired
\* "unsure" state, and every skip and cluster decision counts in full.
Legacy ==
    [photos |-> [x \in PhotoIDs |->
                    [NewPhoto EXCEPT !.state = "unsure", !.unsureCount = 1,
                                     !.lastDecisionAt = 1]],
     session |-> Nil,
     settings |-> [DefaultSettings EXCEPT !.skipAdvancesCounter = TRUE,
                                          !.clusterCountsAsOne = FALSE],
     daily |-> [d \in Days |-> 0], lastBatchDone |-> 0]

\* Skips are free, a cluster counts for each of its photos.
Mixed == [Legacy EXCEPT !.settings.skipAdvancesCounter = FALSE]

MixedFile == {Mixed}

LegacyFile == {Legacy}

\* One more, or open-ended from now on.
OneOrOpen == {-1, 1}

\* Every zero that load takes for "missing"; the handler accepts any number.
ZeroSettings ==
    {[DefaultSettings EXCEPT !.baseRate = 0, !.dupeThreshold = 0,
                             !.defaultBatchSize = 0]}

NoSettings == {}

PhotoSymmetry == Permutations(PhotoIDs)
=============================================================================
