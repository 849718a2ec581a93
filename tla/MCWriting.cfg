CONSTANTS
  pilot = pilot
  collector = collector
  archiver = archiver
  loop = loop
  discovery = discovery
  retry = retry
  nightly = nightly
  drawing = drawing
  sheet = sheet
  Components = {"pilot", "collector", "membership", "queue"}
  MaxCutover = 2
  Pilots = {pilot}
  Collectors = {collector}
  Archivers = {archiver}
  PeriodicSyncers = {loop}
  EventSyncers = {discovery}
  CacheTicks = 1
  SettleTicks = 2
  WriteTicks = 1
  NoJob = NoJob
  Jobs = {drawing, sheet}
  Runs = {retry, nightly}
  MAX_ATTEMPTS = 1
  BREAKER_THRESHOLD = 1
  Limit = 2
SPECIFICATION WritingSpec
SYMMETRY Alike
INVARIANT WritingTypeOK
INVARIANT SettledHandoverIsExclusive
INVARIANT SettledPauseIsEmpty
INVARIANT AcceptedModesAreStorable
INVARIANT SucceededIsPublished
INVARIANT SharedOnlyAfterLapse
INVARIANT AttemptsAreRuns
PROPERTY SyncNeverMovesOwnership
PROPERTY SyncNeverLiftsHold
PROPERTY CutoverNeverMovesBack
PROPERTY SuccessStaysUnlessOvertaken
