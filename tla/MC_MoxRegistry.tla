--------------------------- MODULE MC_MoxRegistry ---------------------------
(* Two addresses for Mox instances, an attribute that holds a function and  *)
(* one that holds a class.                                                  *)
EXTENDS MoxRegistry, TLC

AddressSymmetry == Permutations(Address)

=============================================================================
