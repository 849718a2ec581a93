CONSTANTS
  pilot = pilot
  collector = collector
  archiver = archiver
  loop = loop
  discovery = discovery
  MaxCutover = 2
  Pilots = {}
  Collectors = {}
  Archivers = {}
  PeriodicSyncers = {loop}
  EventSyncers = {discovery}
  CacheTicks = 1
  SettleTicks = 0
  WriteTicks = 0
SPECIFICATION Spec
PROPERTY PauseIsEndedByConsole
