CONSTANTS
  a1 = a1  a2 = a2  k1 = k1  k2 = k2
  w1 = w1  w2 = w2  p1 = p1  p2 = p2
  ann = ann  timer = timer  hand = hand  d1 = d1
  q1 = q1  q2 = q2  ceo = ceo  th1 = th1  th2 = th2  ra = ra  rb = rb
  retry = retry  nightly = nightly  drawing = drawing
  Components = {"sweep"}
  Archivers = {a1, a2}
  NoArchiver = NoArchiver
  Consoles = {k1, k2}
  JobIds = {1, 2}
  Channels = {"c1", "c2"}
  Everywhere = "all"
  Before = 2
  LastTs = 3
  ChannelOf <- channelOf
  ParentOf <- parentOf
  Lookback = 2
  Scopes <- scopes
  MaxUpsets = 1
  Workspaces = {w1, w2}
  Global = Global
  Photos = {p1, p2}
  WorkspaceOf <- workspaceOf
  Routes = {m1}
  ApprovalIds = {1, 2}
  Limits <- limitChoices
  OwnLimits <- ownLimits
  MaxEvents = 1
  Keys = {d1}
  People = {ann}
  PersonOf <- personOf
  NoKey = NoKey
  Senders = {timer, hand}
  Timer = timer
  DmAttempts = 2
  Horizon = 1
  LastTick = 2
  MaxTurns = 1
  Questions = {q1, q2}
  Asker <- asker
  InChannel = {q1}
  Threads = {th1, th2}
  NoQuestion = NoQuestion
  Rooms = {ra, rb}
  MaxShifts = 2
  Jobs = {drawing}
  Runs = {retry, nightly}
  NoJob = NoJob
  MAX_ATTEMPTS = 2
  BREAKER_THRESHOLD = 2
  Limit = 2
  SweptChannels = {1, 2}
  MaxCutover = 1
  MaxPresses = 3
SPECIFICATION ServicesSpec
PROPERTY RemovalIsNoticed
CHECK_DEADLOCK FALSE
