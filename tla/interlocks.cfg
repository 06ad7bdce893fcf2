SPECIFICATION FairSpec
CONSTANTS
  NSlots = 2
  door = door
  heat = heat
  power = power
  Pins <- BoardPins
  Programs <- BoardPrograms
  Compiled <- Registry
  Faulty <- Hanging
  Levels <- BoardLevels
  Analog <- Thermometers
  MaxBoots = 2
  GpioPins = {power}
  Commands = {"write", "output"}
INVARIANTS TypeOK ClaimsMatchArmed
PROPERTIES RestoreKeeps VetoInTime ReleaseInTime SteadyVote BootLoopEnds
