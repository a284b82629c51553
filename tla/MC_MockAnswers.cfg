SPECIFICATION AnswersSpec
CONSTANTS
  Group = {"g"}
  NoGroup = NoGroup
  Name = {"__getitem__"}
  Args <- MCArgs
  NoArgs = NoArgs
  Matches <- MCMatches
  Legal <- MCLegal
  OfClass = TRUE
  MaxMethods = 2
  MaxQueues = 1
  MaxItems = 2
  Provides = {"__getitem__"}
  Recorded = {0, 1}
  Value = {"None", "v"}
  Unset = Unset
  Exceptions = {"IndexError"}
  NoException = NoException
  MaxDepth = 2
INVARIANTS
  ConfiguredValueStays
  AnswersAgree
PROPERTY
  IterationEnds
