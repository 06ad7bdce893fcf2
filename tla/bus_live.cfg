SPECIFICATION FairSpec
CONSTANTS
  s1 = s1
  s2 = s2
  Slaves <- OneSlave
  IlSlots <- OneSlot
  Absent <- NoSlaves
  MaxCmd = 1
  MaxTrips = 1
  MaxMishaps = 1
  Mishaps = {"lose", "restart"}
  Timed <- AllTimed
  RosterMax = 1
  MaxMisses = 1
  Disabled <- NoSlaves
  Cooldown = 3
PROPERTIES AckedAnswered GapCloses
