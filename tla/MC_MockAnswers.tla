---------------------------- MODULE MC_MockAnswers ----------------------------
(* An object that is read by subscripts, and by nothing else.                *)
EXTENDS MockAnswers

MCArgs == 0..2

MCMatches == [a \in MCArgs |-> {a}]

MCLegal == Name \X MCArgs

=============================================================================
