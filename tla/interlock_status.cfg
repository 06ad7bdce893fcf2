SPECIFICATION StatusSpec
CONSTANTS
  NSlots = 2
  door = door
  heat = heat
  power = power
  Pins <- BoardPins
  Programs <- DoorPrograms
  Compiled <- Registry
  Faulty <- NoPrograms
  Levels <- BoardLevels
  Analog <- Thermometers
  MaxBoots = 1
  GpioPins = {}
  Commands = {}
  SeqMax = 2
INVARIANTS VoteKnown
