CONSTANTS
  socket = socket
  backfill = backfill
  converter = converter
  Handlers = {socket}
  Reconcilers = {}
  MaxFiles = 1
  MaxDeliveries = 2
  MaxFaults = 0
  MaxOutbox = 1
SPECIFICATION Spec
CHECK_DEADLOCK FALSE
INVARIANT RefusedIsNowhere
