SPECIFICATION FairSpec
CONSTANTS
  s1 = s1
  s2 = s2
  Slaves <- OneSlave
  Rosters <- OneRoster
  QueueDepth = 2
  PendingMax = 3
  MaxRetries = 2
  AckTimeout = 2
  DemuxTimeout = 3
  ExecMargin = 1
  ExecTimeout <- Short
  MaxAge = 3
  MaxLag = 1
  MaxHandle = 2
  MaxOther = 0
  RidMax = 5
  SentMax = 0
  Mishaps <- ResendDrop
PROPERTIES AcceptedCompletes
