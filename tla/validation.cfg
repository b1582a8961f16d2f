\* The client of generated steps, three requests at a time in the server.
CONSTANTS
  Key = {k1}
  Val = {v1, v2}
  None = None
  Tombstone = Tombstone
  Attempts = 2
  MaxHandlers = 3
SPECIFICATION FairSpec
INVARIANTS
  AnswersExplained
PROPERTIES
  StepEnds
