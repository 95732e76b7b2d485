-------------------------- MODULE MCAlertPipeline --------------------------
(***************************************************************************)
(* Instances for TLC: one worker with two writers, or two workers with one *)
(* each, fed by one or two schedulers; all responses of up to MaxSeries    *)
(* series of up to MaxLength points.                                       *)
(***************************************************************************)
EXTENDS AlertPipeline, TLC

CONSTANTS d1, d2, w1, w2, k1, k2, MaxSeries, MaxLength

MCOneWorker == [k \in Writers |-> w1]
Pairs == {[x \in {w1, w2, k1, k2} |-> x],
          (w1 :> w2) @@ (w2 :> w1) @@ (k1 :> k2) @@ (k2 :> k1)}
MCTwoWorkers == [k \in Writers |-> IF k = k1 THEN w1 ELSE w2]
UpTo(n, S) == UNION {[1 .. k -> S] : k \in 0 .. n}
MCResponses == UpTo(MaxSeries, UpTo(MaxLength, Values))
=============================================================================
