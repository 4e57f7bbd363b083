SPECIFICATION GatewaySpec
CONSTANTS
  q1 = q1
  q2 = q2
  a1 = a1
  a2 = a2
  a3 = a3
  series = series
  other = other
  m1 = m1
  v1 = v1
  roll = roll
  Session = {s1}
  Request = {1, 2, 3, 4}
  File = {1, 2, 3, 4}
  MaxChunk = 2
  MaxUpload = 3
  Declared <- MCDeclared
  None = None
  Fan = {q1, q2}
  Provider = {"streamed", "matchstream", "ntvs", "cdnlivetv"}
  Ways <- MCWays
  Listings <- MCListings
  DefaultLength = 3
  ShortLength = 2
  MaxFeeds = 1
  LiveTtl = 1
  NearTtl = 2
  EmptyTtl = 2
  FutureTtl = 3
  StaleTtl = 4
  NearWindow = 3
  LastMoment = 6
  Watcher = {q1, q2}
  Address = {a1, a2, a3}
  PageAt <- MCPageAt
  Flaky = {a2}
  Queries <- MCQueries
  MaxCandidates = 2
  PreflightMax = 2
  MaxStreams = 1
  StreamTtl = 2
  FailureTtl = 1
  StreamPermits = 1
  LastTick = 3
  Reader = {q1, q2}
  Page = {series, other}
  Sliding = {series}
  Ttl <- MCTtl
  Wants <- MCWants
  MinDelta = 1
  MaxKept = 1
  UnusedAge = 1
  LastDay = 1
  Player = {q1, q2}
  Fixed <- MCFixed
  Rolling = roll
  HostOf <- MCHostOf
  DirOf <- MCDirOf
  Segments <- MCSegments
  Duration = 2
  UpstreamKept = 4
  KeyEvery = 2
  EdgeCount = 3
  StartOffset = 4
  StartOffsetMin = 2
  MaxHeight = 1080
  ListTtl = 0
  MaxLists = 1
  DecisionTtl = 0
  MaxDecisions = 1
  CurlPermits = 1
  ProbePermits = 1
  EncodePermits = 1
  LastBeat = 1
  LastEdge = 5
SYMMETRY MCSymmetry
VIEW MCView
CHECK_DEADLOCK FALSE
INVARIANTS
  UploadInv
  PublishedExact
  StreamsHonest
  TmdbSound
  LiveRight
PROPERTIES
  ScheduleHonest
