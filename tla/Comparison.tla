----------------------------- MODULE Comparison -----------------------------
(***************************************************************************)
(* A comparison is an effect: it has a verdict, "yes", "no" or "raises",   *)
(* and leaves something in the Value, which the next one finds there.      *)
(***************************************************************************)
EXTENDS Naturals, Sequences

CONSTANTS Storable,  \* what a Value may have
          Nothing    \* what it has before anything was stored

ASSUME ComparisonAssumption == Nothing \in Storable

Verdict(yes, v) == [verdict |-> IF yes THEN "yes" ELSE "no", stored |-> v]

(***************************************************************************)
(* Comparisons are made in turn, each a function of what the Value has,    *)
(* until one has another verdict than the ones before it; start is what    *)
(* there is when none was made.                                            *)
(***************************************************************************)
While(verdict, comparisons, start) ==
  LET made[i \in 0..Len(comparisons)] ==
        IF i = 0
        THEN start
        ELSE LET before == made[i - 1] IN
               IF before.verdict = verdict THEN comparisons[i][before.stored] ELSE before
  IN made[Len(comparisons)]

=============================================================================
