CONSTANTS
  pilot = pilot
  collector = collector
  archiver = archiver
  loop = loop
  discovery = discovery
  MaxCutover = 1
  Pilots = {}
  Collectors = {collector}
  Archivers = {archiver}
  PeriodicSyncers = {loop}
  EventSyncers = {}
  CacheTicks = 1
  SettleTicks = 2
  WriteTicks = 3
SPECIFICATION Spec
INVARIANT SettledHandoverIsExclusive
