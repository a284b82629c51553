--------------------------- MODULE MC_MockAnything ---------------------------
(* MockAnything with one method name, a literal argument, a second one the   *)
(* signature does not accept, and a comparator that is equal to both.        *)
EXTENDS MockAnything

MCArgs == {"one", "two", "any"}

MCMatches == [a \in MCArgs |-> IF a = "any" THEN MCArgs ELSE {a}]

MCLegal == {"foo"} \X {"one", "any"}

=============================================================================
