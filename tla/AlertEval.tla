----------------------------- MODULE AlertEval -----------------------------
(***************************************************************************)
(* eval in pkg/alerting/executor.go: the state of a check from the points  *)
(* of its probes, one loop inside another.  A series is bad when it has    *)
(* Steps bad points in a row, gaps aside; the check is critical when       *)
(* NumProbes series are.                                                   *)
(***************************************************************************)
EXTENDS Naturals, Sequences, FiniteSets, SequencesExt

CONSTANTS
    Responses,  \* what Graphite may answer: sequences of series
    Steps,      \* healthSettings.Steps
    NumProbes   \* healthSettings.NumProbes

Values == {"null", "good", "bad", "garbled"}

\* getJobs leaves out checks whose settings are 0.
ASSUME EvalAssumption ==
    /\ Responses \subseteq Seq(Seq(Values))
    /\ Steps \in Nat \ {0} /\ NumProbes \in Nat \ {0}

Larger(a, b) == IF a > b THEN a ELSE b

NoPoints == [curStreak |-> 0, maxStreak |-> 0, nonNullPoints |-> 0]

\* Mutant: the streak that a good point ends is not compared.
CountUncompared(c, v) ==
    CASE v = "good" -> [c EXCEPT !.curStreak = 0, !.nonNullPoints = @ + 1]
      [] v = "bad"  -> [c EXCEPT !.curStreak = @ + 1, !.nonNullPoints = @ + 1]
      [] OTHER      -> c

\* One point; a gap neither ends nor lengthens a streak.
Count(c, v) ==
    CASE v = "good" -> [curStreak |-> 0,
                        maxStreak |-> Larger(c.curStreak, c.maxStreak),
                        nonNullPoints |-> c.nonNullPoints + 1]
      [] v = "bad"  -> [c EXCEPT !.curStreak = @ + 1, !.nonNullPoints = @ + 1]
      [] OTHER      -> c

\* The loop's variables after each point of a series.
Counters(s) ==
    LET c[n \in 0 .. Len(s)] ==
            IF n = 0 THEN NoPoints ELSE Count(c[n - 1], s[n])
    IN  c
Scan(s) == Counters(s)[Len(s)]

WithData(res) == {e \in DOMAIN res : Scan(res[e]).nonNullPoints > 0}
BadEndpoints(res) ==
    {e \in DOMAIN res :
        Larger(Scan(res[e]).curStreak, Scan(res[e]).maxStreak) >= Steps}

\* A value that is no number is an error, as is no series at all (ErrNoData);
\* series without a point are a state of their own.
Eval(res) ==
    CASE res = <<>> \/ \E s \in ToSet(res) : Contains(s, "garbled") -> "error"
      [] OTHER -> IF WithData(res) = {} THEN "unknown"
                  ELSE IF Cardinality(BadEndpoints(res)) >= NumProbes THEN "crit"
                  ELSE "ok"

-----------------------------------------------------------------------------
(* Properties.                                                             *)

\* Somewhere between a and b there are Steps bad points and no good one.
BadRun(s) ==
    \E a, b \in DOMAIN s :
        /\ \A i \in a .. b : s[i] # "good"
        /\ Cardinality({i \in a .. b : s[i] = "bad"}) >= Steps
Has(res, S) == \E s \in ToSet(res) : ToSet(s) \cap S # {}

\* Whatever gaps and short series Graphite returns, eval finds the state that
\* the settings describe.
FindsState ==
    \A res \in Responses : ~Has(res, {"garbled"}) /\ res # <<>> =>
        /\ Eval(res) = "unknown" <=> ~Has(res, {"good", "bad"})
        /\ Eval(res) = "crit" <=>
             Cardinality({e \in DOMAIN res : BadRun(res[e])}) >= NumProbes
=============================================================================
