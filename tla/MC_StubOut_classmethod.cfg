SPECIFICATION Spec
CONSTANTS
  Object <- MCObject
  Kind <- MCKind
  Mro <- MCMro
  NoObject = "none"
  ReadOnly = {}
  Stub = {"s", "t"}
  Smart = {"B", "m"}
  Liberties = {"classmethod"}
  MaxLog = 4
INVARIANTS
  RestoredToOriginal
