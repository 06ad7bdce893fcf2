SPECIFICATION FairSpec
CONSTANTS
  s1 = s1
  s2 = s2
  Slaves <- OneSlave
  Rosters <- OneRoster
  QueueDepth = 2
  PendingMax = 2
  MaxRetries = 2
  AckTimeout = 3
  DemuxTimeout = 5
  ExecMargin = 2
  ExecTimeout <- ShortAndLong
  MaxAge = 6
  MaxLag = 1
  MaxHandle = 2
  MaxOther = 1
  RidMax = 5
  SentMax = 4
  Mishaps <- FirstSendDrop
INVARIANTS QueuedNotOnWire BoundedResends
PROPERTIES NoLateTransmission GateHolds AcceptedCompletes
