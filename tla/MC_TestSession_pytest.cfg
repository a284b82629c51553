SPECIFICATION SessionSpec
CONSTANTS
  Address = {creator, a, b}
  Slot = {f, C}
  ClassSlot = {C}
  Original = Original
  OverFactories = FALSE
  MaxMocks = 2
  MaxOwed = 1
  Harness = "pytest"
  Creator = creator
  Shared = {}
  NoMox = NoMox
INVARIANTS
  StubsAreRestored
  MocksStayInTheirTest
  PassedMeansVerified
SYMMETRY AddressSymmetry
VIEW SessionView
