SPECIFICATION Spec
CONSTANTS
  Calendars <- MCCalendars
  Durations <- MCDurations
  References <- MCReferences
  Limit = 3
CHECK_DEADLOCK FALSE
INVARIANTS
  FoundAreFree
  AnswerIsFirstFree
PROPERTIES
  SearchEnds
