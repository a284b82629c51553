SPECIFICATION Spec
CONSTANTS
  Address = {a, b}
  Slot = {f, C}
  ClassSlot = {C}
  Original = Original
  NoMox = NoMox
  OverFactories = FALSE
  MaxMocks = 2
  MaxOwed = 1
INVARIANTS
  TypeOK
  EveryStubCanBeUndone
  ExpectedCreationsHaveInstances
SYMMETRY AddressSymmetry
