SPECIFICATION FairSpec
CONSTANTS
  Name = {x, y, z}
  MaxEdges = 4
INVARIANTS
  GraphTypeOK
  EdgesMirrored
  LookupsDoNotInsert
  VisitingIsOnStack
  VerdictCorrect
PROPERTY ValidateTerminates
CHECK_DEADLOCK FALSE
