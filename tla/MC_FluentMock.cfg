SPECIFICATION ScriptedSpec
CONSTANTS
  Group = {g, h}
  NoGroup = NoGroup
  Name = {"foo"}
  Args <- MCArgs
  NoArgs = NoArgs
  Matches <- MCMatches
  Legal <- MCLegal
  OfClass = TRUE
  MaxMethods = 3
  MaxQueues = 2
  MaxItems = 3
  Passed = {"one", "two"}
  MaxCalls = 3
INVARIANTS
  NoExpectationIsLost
  EveryExpectedCallWasMade
PROPERTY
  KeepsPromise
SYMMETRY GroupSymmetry
