----------------------------- MODULE MC_StubOut -----------------------------
(* A class, a subclass of it, an instance of the subclass and a module; some *)
(* are stubbed with smart_set, the others with set.                          *)
EXTENDS StubOutForTesting

MCObject == {"A", "B", "b", "m"}

MCKind == [A |-> "class", B |-> "class", b |-> "instance", m |-> "module"]

MCMro == [A |-> <<"A">>, B |-> <<"B", "A">>, b |-> <<"b", "B", "A">>, m |-> <<"m">>]

StubSymmetry == Permutations(Stub)

=============================================================================
