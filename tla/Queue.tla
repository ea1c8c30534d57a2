-------------------------------- MODULE Queue --------------------------------
(***************************************************************************)
(* The resurface algorithm (src/internal/queue): which photos Next can     *)
(* return.  Next samples by weight; only whether a weight is positive      *)
(* decides who can be sampled, so weights are kept to their sign.  Rates   *)
(* are in hundredths.                                                      *)
(***************************************************************************)
EXTENDS Integers

\* mixWeights, in tenths.
NewMult(mix) ==
    CASE mix = "heavy_review" -> 3
      [] mix = "review_only"  -> 0
      [] OTHER                -> 10

ResurfaceMult(mix) ==
    CASE mix = "all_new"      -> 0
      [] mix = "heavy_review" -> 25
      [] OTHER                -> 10

\* rate * decay^n, of which only the sign matters.
Resurfaces(rate, decay, n) == rate > 0 /\ (decay > 0 \/ n = 0)

CoolingDown(p, settings, t) ==
    p.lastDecisionAt # 0 /\ t - p.lastDecisionAt < settings.cooldown

AutoLocked(p, settings) ==
    settings.lockThreshold > 0 /\ p.keepCount >= settings.lockThreshold

\* weightFor > 0
HasWeight(p, settings, mix, t) ==
    /\ p.state # "trashed"
    /\ ~AutoLocked(p, settings)
    /\ ~CoolingDown(p, settings, t)
    /\ \/ /\ p.state = "unsorted"
          /\ NewMult(mix) > 0
       \/ /\ p.state = "kept"
          /\ ResurfaceMult(mix) > 0
          /\ Resurfaces(settings.baseRate, settings.decay, p.keepCount)
       \/ /\ p.state = "unsure"
          /\ ResurfaceMult(mix) > 0
          /\ Resurfaces(settings.unsureBaseRate, settings.decay, p.unsureCount)

\* The pool of Next over the photos of the table that the session has not
\* just skipped; an empty pool is ErrNoCandidate.
Pool(photos, ids, sess, settings, t) ==
    {id \in ids :
        /\ \A i \in DOMAIN sess.recentlySkipped : sess.recentlySkipped[i] # id
        /\ HasWeight(photos[id], settings, sess.mix, t)}
=============================================================================
