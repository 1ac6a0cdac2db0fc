\* One thread, as under numactl -C 0.
SPECIFICATION Spec
CONSTANTS
  Base = 4
  Thread = {t1}
  Main = t1
  NElements = 6
  NLookup = 6
  A <- MCA
  C = 3
  X <- MCX
  Seed <- MCSeed
  MaxSamples = 4
  NULL = NULL
INVARIANT ExactAccount
PROPERTY ImplementsGenerator
