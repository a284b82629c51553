---------------------------- MODULE MC_FluentMock ----------------------------
(* One method, two literal arguments, a comparator equal to both, and an     *)
(* argument that the signature of the method turns down.                     *)
EXTENDS FluentMock, TLC

MCArgs == {"one", "two", "any", "bad"}

MCMatches == [a \in MCArgs |-> IF a = "any" THEN {"one", "two", "any"} ELSE {a}]

MCLegal == {"foo"} \X {"one", "two", "any"}

GroupSymmetry == Permutations(Group)

=============================================================================
