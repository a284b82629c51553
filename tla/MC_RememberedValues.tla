------------------------- MODULE MC_RememberedValues -------------------------
(* A key that must be equal, and an argument that is remembered, compared    *)
(* with what is remembered, or with both a predicate and what is remembered. *)
EXTENDS RememberedValues, Comparators

Literal(v) == [op |-> "predicate", holds |-> {v}]

RememberIt == [op |-> "remember"]

TheValue == [op |-> "value"]

OneOf(op, c, d) == [op |-> op, of |-> <<c, d>>]

Func(yes, raising) == [op |-> "func", holds |-> yes, raises |-> raising]

Negated(c) == [op |-> "not", of |-> c]

\* A Remember comes last in what is evaluated.
MCCareful ==
  {<<Literal("k"), c>> :
     c \in {RememberIt, TheValue, Negated(TheValue),
            OneOf("and", Literal("a"), RememberIt),
            OneOf("and", Negated(TheValue), RememberIt),
            OneOf("or", TheValue, Literal("b")),
            Negated(Func({"a"}, {"b"}))}}

MCExpected ==
  MCCareful \cup {<<RememberIt, Literal("a")>>,
                  <<Literal("k"), Func({"a"}, {"b"})>>,
                  <<Literal("k"), OneOf("and", RememberIt, Literal("a"))>>}

Having(op) ==
  {params \in MCExpected : \E i \in DOMAIN params : Mentions(params[i], op)}

MCStoring == Having("remember")

MCReading == Having("value")

MCPassed == {<<"k", "a">>, <<"k", "b">>, <<"b", "a">>, <<"k">>}

\* The careful ones are.
ASSUME CarefulAssumption == ComparatorsAreCareful

=============================================================================
