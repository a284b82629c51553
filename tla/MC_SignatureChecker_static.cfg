SPECIFICATION Spec
CONSTANTS
  Parameter <- MCParameter
  Methods <- MCMethods
  Calls <- MCCalls
  Slashed = {0}
  NamedOnly = {}
  Routes = {"static"}
INVARIANTS
  RaisesOnlyIfWrong
CHECK_DEADLOCK FALSE
