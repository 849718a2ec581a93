CONSTANTS
  socket = socket
  backfill = backfill
  converter = converter
  lee = lee
  Components = {"review"}
  Handlers = {socket, backfill}
  Reconcilers = {converter}
  MaxFiles = 1
  MaxDeliveries = 2
  MaxFaults = 0
  MaxOutbox = 1
  Reviewers = {lee}
  NoReviewer = NoReviewer
  MaxCandidates = 1
  Page = 1
  ReviewDays = {1, 3}
  LastDay = 3
  MaxIncidents = 0
SPECIFICATION ReviewsSpec
CHECK_DEADLOCK FALSE
PROPERTY DeferredIsShownAgain
