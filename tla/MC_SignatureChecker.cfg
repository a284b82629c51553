SPECIFICATION Spec
CONSTANTS
  Parameter <- MCParameter
  Methods <- MCMethods
  Calls <- MCCalls
  Slashed = {0, 1}
  NamedOnly = {"k"}
  Routes = {"function", "method", "bound", "static", "local"}
INVARIANTS
  NoRightCallIsRefused
  NoWrongCallIsRecorded
CHECK_DEADLOCK FALSE
