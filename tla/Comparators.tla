---------------------------- MODULE Comparators ----------------------------
(***************************************************************************)
(* Comparators (comparators.py), the ones with a memory above all:         *)
(* Remember stores what it is compared with, and Value compares with it.   *)
(* Which comparators are evaluated, in which order and how often, decides  *)
(* what is stored.                                                         *)
(*                                                                         *)
(* A comparator is a record with its class as "op"; there is one Value.    *)
(***************************************************************************)
EXTENDS Comparison

(***************************************************************************)
(* comparator == rhs, with the Value holding v: the verdict, and what the  *)
(* Value holds then.                                                       *)
(***************************************************************************)
\* The predicates on rhs alone.  They take an exception for a no, so they hold for a
\* set of arguments.
Predicate(c, rhs, v) == Verdict(rhs \in c.holds, v)

FuncEquals(c, rhs, v) ==
  IF rhs \in c.raises THEN [verdict |-> "raises", stored |-> v] ELSE Verdict(rhs \in c.holds, v)

ValueEquals(rhs, v) == Verdict(v # Nothing /\ rhs = v, v)

RememberEquals(rhs, v) == Verdict(TRUE, rhs)

RECURSIVE Equals(_, _, _)

\* What the predicate raises is a no, and not a yes.
NotEquals(c, rhs, v) ==
  LET of == Equals(c.of, rhs, v) IN Verdict(of.verdict = "no", of.stored)

Compared(comparators, rhs) ==
  [i \in DOMAIN comparators |-> [v \in Storable |-> Equals(comparators[i], rhs, v)]]

AndEquals(c, rhs, v) == While("yes", Compared(c.of, rhs), Verdict(TRUE, v))

OrEquals(c, rhs, v) == While("no", Compared(c.of, rhs), Verdict(FALSE, v))

Equals(c, rhs, v) ==
  CASE c.op = "predicate" -> Predicate(c, rhs, v)
    [] c.op = "func"      -> FuncEquals(c, rhs, v)
    [] c.op = "value"     -> ValueEquals(rhs, v)
    [] c.op = "remember"  -> RememberEquals(rhs, v)
    [] c.op = "not"       -> NotEquals(c, rhs, v)
    [] c.op = "and"       -> AndEquals(c, rhs, v)
    [] c.op = "or"        -> OrEquals(c, rhs, v)

RECURSIVE Mentions(_, _)
Mentions(c, op) ==
  CASE c.op = "not"           -> Mentions(c.of, op)
    [] c.op \in {"and", "or"} -> \E i \in DOMAIN c.of : Mentions(c.of[i], op)
    [] OTHER                  -> c.op = op

=============================================================================
