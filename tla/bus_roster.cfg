SPECIFICATION FairSpec
CONSTANTS
  s1 = s1
  s2 = s2
  Slaves <- TwoSlaves
  IlSlots <- OneSlot
  Absent <- SecondSlave
  MaxCmd = 0
  MaxTrips = 0
  MaxMishaps = 2
  Mishaps = {"lose", "reset", "off", "stall"}
  Timed <- AllTimed
  RosterMax = 3
  MaxMisses = 2
  Disabled <- NoSlaves
  Cooldown = 3
PROPERTIES Swept LivenessSettles
