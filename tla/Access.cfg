\* Scripts that race with the start of the benchmark or wait for it, mappings that
\* may fail, and mode complete.
SPECIFICATION FairSpec
CONSTANTS
  Words = 3
  Reads = 2
  Plans <- MCPlans
INVARIANTS
  ReadsFilled
  AnswerMeansDone
  OnlyBenchSignalled
  StrayUnanswered
PROPERTIES
  ScriptEnds
  RunCompletes
