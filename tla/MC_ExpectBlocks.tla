--------------------------- MODULE MC_ExpectBlocks ---------------------------
(* Two Mox instances without stubs; the mocks are of kind "anything".       *)
EXTENDS ExpectBlocks, TLC

\* No step depends on the last exception, nor on the order in which Mox instances were
\* registered and mocks made.
ExpectView == <<Registered, held, [a \in Address |-> MocksOf(a)], mocks, single, blocks>>

AddressSymmetry == Permutations(Address)

=============================================================================
