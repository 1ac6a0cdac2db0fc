\* Limbs of two bits: all multipliers, increments, seeds and states.
SPECIFICATION FairSpec
CONSTANTS
  Base = 4
  Multiplier <- MCMultiplier
  Increment = {0, 1, 2, 3}
  X <- MCX
  Seed <- MCSeed
PROPERTY IsLcg
PROPERTY FullPeriod
