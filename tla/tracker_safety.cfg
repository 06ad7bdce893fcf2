SPECIFICATION Spec
CONSTANTS
  s1 = s1
  s2 = s2
  Slaves <- TwoSlaves
  Rosters <- AnyRoster
  QueueDepth = 2
  PendingMax = 2
  MaxRetries = 1
  AckTimeout = 1
  DemuxTimeout = 2
  ExecMargin = 1
  ExecTimeout <- Short
  MaxAge = 2
  MaxLag = 1
  MaxHandle = 3
  MaxOther = 0
  RidMax = 4
  SentMax = 0
  Mishaps <- AllMishaps
INVARIANTS TypeOK Accounted ReplyIsOwn
PROPERTIES ServiceSpec
CHECK_DEADLOCK FALSE
