SPECIFICATION Spec
CONSTANTS
  Calendars <- MCCalendars
  Durations = {480}
  References <- MCReferences
  Limit = 3
CHECK_DEADLOCK FALSE
INVARIANT MeetingsEndInWorkday
