\* Two threads: races on x and on processed, the handler in either.
SPECIFICATION Spec
CONSTANTS
  Base = 4
  Thread = {t1, t2}
  Main = t1
  NElements = 6
  NLookup = 3
  A <- MCA
  C = 3
  X <- MCX
  Seed <- MCSeed
  MaxSamples = 2
  NULL = NULL
INVARIANT LookupsHit
INVARIANT SamplesBounded
INVARIANT SamplesNumbered
