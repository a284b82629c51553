SPECIFICATION Spec
CONSTANTS
  Group = {"g"}
  NoGroup = NoGroup
  Name = {"foo"}
  Args <- MCArgs
  NoArgs = NoArgs
  Matches <- MCMatches
  Legal <- MCLegal
  OfClass = TRUE
  MaxMethods = 2
  MaxQueues = 2
  MaxItems = 3
INVARIANTS
  TypeOK
  QueuesStayApart
  GroupsCanBeSatisfied
  GroupsAreMerged
PROPERTY
  RefusalResurfaces
