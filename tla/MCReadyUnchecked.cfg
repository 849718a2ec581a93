CONSTANTS
  socket = socket
  backfill = backfill
  converter = converter
  Handlers = {socket}
  Reconcilers = {converter}
  MaxFiles = 1
  MaxDeliveries = 1
  MaxFaults = 1
  MaxOutbox = 1
SPECIFICATION Spec
CHECK_DEADLOCK FALSE
INVARIANT ReadyPassedEveryCheck
