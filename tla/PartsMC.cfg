SPECIFICATION PartsSpec
CONSTANTS
  Capacity = 5
  Target = 2
  Highwater = 4
  MaxBurst = 6
  MaxWanted = 3
  MaxMade = 13
  Pictures = {p1, p2, p3}
  MaxSerial = 5
  MaxSessions = 2
  DotsPerTick = 4
  DotsPerLine = 35
  LinesPerFrame = 3
  VertOffset = 1
  EntryTicks = 6
  OutTicks = 5
  Lengths = {4, 5, 7}
  Sent <- PacketsSent
  Received <- PacketsReceived
  TraceMax = 3
  MaxPackets = 6
  Config = Config
  App = App
  Game = Game
  NoMap = NoMap
  NoImage = NoImage
  Chunks = 2
  Images <- MCImages
  Kind <- MCKind
  Claims <- MCClaims
  Pages <- MCPages
  Host = Host
  Threads = {t1, t2}
  Real = Real
  NoFd = NoFd
  Buffers = {b1, b2, b3}
  PoolKeep = 1
  NoBuffer = NoBuffer
  Blank = Blank
  MaxLosses = 1
INVARIANTS
  NothingIsUsedAfter
  ShowsTheNewest
  TraceIsTrue
  ServesWhatItHolds
  CaptureFollows
  AtRestIsCurrent
PROPERTIES
  HeardInTime
  FifoSpec
  CatchesUp
  OneAnswerPerRaise
  StagedIsWhole
  SlotSpec
  StopIsShown
  CallsReturn
