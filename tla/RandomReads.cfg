\* Five bits; a quotient by 3 has eleven values: two pages are all read, and
\* of four pages a tail is not.
SPECIFICATION Spec
CONSTANTS
  Mod = 32
  Divisor = 3
  PageInts = 4
  Multipliers <- MCMultipliers
  Increments <- MCIncrements
  Pages = {1, 2, 3, 4}
  MaxLoops = 34
INVARIANTS
  ReadsInside
  ReadsSpread
CHECK_DEADLOCK FALSE
