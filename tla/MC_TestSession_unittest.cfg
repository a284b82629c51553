SPECIFICATION SessionSpec
CONSTANTS
  Address = {creator, x, a, b}
  Slot = {f}
  ClassSlot = {}
  Original = Original
  OverFactories = FALSE
  MaxMocks = 2
  MaxOwed = 1
  Harness = "unittest"
  Creator = creator
  Shared = {x}
  NoMox = NoMox
INVARIANTS
  StubsAreRestored
  MocksStayInTheirTest
  PassedMeansVerified
  EveryStubCanBeUndone
SYMMETRY AddressSymmetry
VIEW SessionView
