SPECIFICATION Spec
CONSTANTS
  iris = iris
  marius = marius
  wren = wren
  atlas = atlas
  Iris = iris
  Order <- MCOrder
  Candidates <- MCCandidates
  Duration = 30
  Schedules <- MCSchedules
  None = None
CHECK_DEADLOCK FALSE
INVARIANTS
  TypeOK
  ConfirmedSlotIsCommon
  ReportIsBacked
  ListenersAreSequential
PROPERTIES
  ImplementsGroupCommit
  RunEnds
