SPECIFICATION Spec
CONSTANTS
  Object <- MCObject
  Kind <- MCKind
  Mro <- MCMro
  NoObject = "none"
  ReadOnly = {"m"}
  Stub = {s, t}
  Smart = {"B", "m"}
  Liberties = {"readonly"}
  MaxLog = 4
INVARIANTS
  TypeOK
  RestoredToOriginal
  OriginalsAreKept
SYMMETRY StubSymmetry
