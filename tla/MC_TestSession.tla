--------------------------- MODULE MC_TestSession ---------------------------
(* The addresses of Mox instances other than those made at import are alike. *)
EXTENDS TestSession, TLC

AddressSymmetry == Permutations(Address \ AtImport)

\* The last exception decides nothing.
SessionView == <<moxes, registry, held, mocks, slots,
                 phase, fixture, patches, failing, first, report>>

=============================================================================
