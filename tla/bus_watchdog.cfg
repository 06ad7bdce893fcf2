SPECIFICATION Spec
CONSTANTS
  s1 = s1
  s2 = s2
  Slaves <- OneSlave
  IlSlots <- OneSlot
  Absent <- NoSlaves
  MaxCmd = 2
  MaxTrips = 0
  MaxMishaps = 1
  Mishaps = {"lapse"}
  Timed <- AllTimed
  RosterMax = 1
  MaxMisses = 2
  Disabled <- NoSlaves
  Cooldown = 3
INVARIANT FreshClaimSpared
