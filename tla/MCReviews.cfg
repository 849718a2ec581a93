CONSTANTS
  socket = socket
  backfill = backfill
  converter = converter
  lee = lee
  Components = {"ingest", "outbox", "review"}
  Handlers = {socket, backfill}
  Reconcilers = {converter}
  MaxFiles = 1
  MaxDeliveries = 2
  MaxFaults = 2
  MaxOutbox = 1
  Reviewers = {lee}
  NoReviewer = NoReviewer
  MaxCandidates = 2
  Page = 2
  ReviewDays = {1, 2}
  LastDay = 2
  MaxIncidents = 1
SPECIFICATION ReviewsSpec
CHECK_DEADLOCK FALSE
INVARIANT ReviewsTypeOK
INVARIANT ReadyMeansSearchable
INVARIANT ExpiredWasSeen
INVARIANT DoneMeansDecided
INVARIANT OutboxHoldsWhatIsOwed
INVARIANT ReplayChangesNothing
PROPERTY PromiseKept
