\* Transmissions with every cut of a transaction, restarts, losses and bursts.
SPECIFICATION Spec
CONSTANTS
  None = None
  Climates <- MCClimates
  Pressures <- MCPressures
  Dusts <- MCDusts
  Batteries <- MCBatteries
  Eeproms <- MCEeproms
  Beyond <- MCBeyond
  Held <- MCHeld
  Registers <- MCRegisters
  Bursts <- MCBursts
INVARIANTS
  FreshValues
  OnlyMeasured
  ReadingsTrue
  BurstsDetected
