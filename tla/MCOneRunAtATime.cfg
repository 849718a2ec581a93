CONSTANTS
  retry = retry
  nightly = nightly
  drawing = drawing
  NoJob = NoJob
  Jobs = {drawing}
  Runs = {retry, nightly}
  MAX_ATTEMPTS = 2
  BREAKER_THRESHOLD = 2
  Limit = 2
SPECIFICATION QueueSpec
INVARIANT OneRunAtATime
