SPECIFICATION Spec
CONSTANTS
  RosterCount = 1
  PollCfgSet = FALSE
  ShellDepth = 3
  MaxBeats = 2
  MaxMishaps = 2
  MaxBounces = 2
  Mishaps = {"bounce"}
INVARIANT PayloadsMatchEvents
