------------------------- MODULE MC_SignatureChecker -------------------------
(* Methods with up to two positional parameters, called with up to three     *)
(* and with any of four keywords, one of which no method knows.              *)
EXTENDS SignatureChecker

CONSTANTS Routes,   \* how the methods are found
          Slashed,  \* how many positional parameters no keyword fills
          NamedOnly \* the keyword-only parameters they may have

MCParameter == {"a", "b", "k", "z"}

MCMethods ==
  {m \in [route : Routes, positional : {<<>>, <<"a">>, <<"a", "b">>},
          needed : 0..2, slashed : Slashed, varargs : BOOLEAN, varkw : BOOLEAN,
          named : SUBSET NamedOnly, namedNeeded : SUBSET NamedOnly] :
     /\ m.needed <= Len(m.positional) /\ m.slashed <= Len(m.positional)
     /\ m.namedNeeded \subseteq m.named}

Orders == {names \in UNION {[1..n -> MCParameter] : n \in 0..3} : Distinct(names)}

MCCalls ==
  {c \in [given : 0..3, first : {"plain", "instance", "comparator"}, keywords : Orders] :
     c.given = 0 => c.first = "plain"}

=============================================================================
