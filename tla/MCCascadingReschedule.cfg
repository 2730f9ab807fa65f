SPECIFICATION Spec
CONSTANTS
  IrisCalendar <- MCIris
  MariusCalendar <- MCMarius
  AtlasFreeSlots <- MCAtlasFree
  Request <- MCRequest
  Reasoners = {"scripted", "injected"}
  None = None
CHECK_DEADLOCK FALSE
INVARIANTS
  TypeOK
  AcceptsAfterAtlas
  ResultIsBacked
  CalendarsAreAgreed
PROPERTIES
  CascadeEnds
