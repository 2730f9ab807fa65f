SPECIFICATION InboxSpec
CONSTANTS
  alice = alice
  bob = bob
  r1 = r1
  r2 = r2
  Principals = {alice, bob}
  Tasks = {r1, r2}
  Polls = {r1, r2}
  Offers <- MCOffers
  Durations <- MCDurations
  Reasoner <- MCReasoner
  Discloses <- MCDiscloses
  SingleProcess = {}
  InitialEvents <- MCInitialEvents
  PollsOverlap = TRUE
  None = None
  Today <- MCToday
CHECK_DEADLOCK FALSE
INVARIANTS
  InboxTypeOK
  OwnCardIsSettled
  CardIsWithPeer
  ProcessedIsBooked
PROPERTIES
  EverySubmitAnswered
