SPECIFICATION FairSpec
CONSTANTS
  alice = alice
  bob = bob
  t1 = t1
  t2 = t2
  k1 = k1
  k2 = k2
  Principals = {alice, bob}
  Tasks = {t1, t2}
  Polls = {k1, k2}
  Offers <- MCOffers
  Durations <- MCDurations
  Reasoner <- MCReasoner
  Discloses <- MCDiscloses
  SingleProcess = {bob}
  InitialEvents <- MCInitialEvents
  PollsOverlap = FALSE
  None = None
INVARIANTS
  TypeOK
  BookedOnce
  BookingsAgreed
  ProcessedIsBooked
  OwnerBooksOnReturn
PROPERTIES
  FinishedPollMissesNothing
  AgreementIsShared
  ProposalsEnd
  PollsEnd
CHECK_DEADLOCK FALSE
