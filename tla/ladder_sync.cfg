SPECIFICATION FairSpec
CONSTANTS
  RosterCount = 2
  PollCfgSet = TRUE
  ShellDepth = 3
  MaxBeats = 2
  MaxMishaps = 3
  MaxBounces = 1
  Mishaps = {"reboot", "bounce", "unseen", "full", "late", "broken"}
INVARIANTS TypeOK ChainIsSingle DoneMeansProvisioned
PROPERTIES LadderCompletes Provisioned
