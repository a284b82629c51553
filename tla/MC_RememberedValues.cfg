SPECIFICATION Spec
CONSTANTS
  Group = {"g"}
  NoGroup = NoGroup
  Argument = {"k", "a", "b"}
  Class = "C"
  Nothing = "nothing"
  Storable = {"k", "a", "b", "C", "nothing"}
  Equal <- Equals
  Expected <- MCExpected
  Storing <- MCStoring
  Reading <- MCReading
  Passed <- MCPassed
  Careful <- MCCareful
  Optional = 1
  Liberties = {}
  MaxMethods = 3
INVARIANTS
  VerifiedMeansAnswered
  StoredByAnsweredCalls
