SPECIFICATION Spec
CONSTANTS
  s1 = s1
  s2 = s2
  Slaves <- OneSlave
  IlSlots <- OneSlot
  Absent <- NoSlaves
  MaxCmd = 2
  MaxTrips = 1
  MaxMishaps = 1
  Mishaps = {"lose", "lapse", "clear", "unregister"}
  Timed <- AllTimed
  RosterMax = 1
  MaxMisses = 1
  Disabled <- NoSlaves
  Cooldown = 3
INVARIANTS TypeOK RepliesAreExecutions RefusedNeverClaimed WindowCoherent
PROPERTY OnceSpec
