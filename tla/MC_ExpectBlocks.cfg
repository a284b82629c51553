SPECIFICATION ExpectSpec
CONSTANTS
  Address = {a, b}
  Slot = {}
  ClassSlot = {}
  Original = Original
  NoMox = NoMox
  OverFactories = FALSE
  MaxMocks = 2
  MaxOwed = 1
  NotAMock = NotAMock
  MaxNesting = 2
INVARIANT
  NoLeftoverStubs
PROPERTIES
  BareBlockReplaysAll
  GivenStubsAreReplayed
  OthersGoOnRecording
  OthersKeepTheirCalls
SYMMETRY AddressSymmetry
VIEW ExpectView
