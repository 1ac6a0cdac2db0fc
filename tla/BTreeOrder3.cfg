\* MIN_ORDER: trees of three levels, merges and redistribution of
\* internal nodes, in the middle of the operations too.
SPECIFICATION FairPrintSpec
CONSTANTS
  Order = 3
  MaxKey = 6
  Key <- MCKey
  Val = {v1}
  Node = {n1, n2, n3, n4, n5, n6, n7, n8, n9, n10, n11, n12}
  Ops = {"insert", "delete", "find"}
  Width = 16
  NULL = NULL
  Void = Void
INVARIANT NoLeakNoDangling
INVARIANT ParentsAgree
INVARIANT HoldsInside
INVARIANT PrintsLevels
INVARIANT PrintsLeaves
PROPERTY ImplementsMap
PROPERTY CallsReturn
