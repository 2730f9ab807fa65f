SPECIFICATION Spec
CONSTANTS
  Reference <- MCReference
  Choices <- MCChoices
  OtherCalendars <- MCCalendars
  Duration = 30
  Limits = {1, 3}
  MaxEdits = 2
  None = None
CHECK_DEADLOCK FALSE
INVARIANTS
  TypeOK
  ChecksTellTheTruth
  AnswerSuitsBoth
  ListenerHasItsResources
  NothingIsLeftUp
PROPERTIES
  DemoEnds
