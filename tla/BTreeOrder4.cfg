\* The least order at which entries of leaves are redistributed; values are
\* overwritten and ranges read.
SPECIFICATION PrintSpec
CONSTANTS
  Order = 4
  MaxKey = 6
  Key <- MCKey
  Val = {v1, v2}
  Node = {n1, n2, n3, n4, n5, n6, n7, n8, n9}
  Ops = {"insert", "delete", "find", "range"}
  Width = 16
  NULL = NULL
  Void = Void
INVARIANT ArraysFit
INVARIANT MinOccupancy
INVARIANT LeafChain
INVARIANT RangeSound
INVARIANT RangeFits
PROPERTY ImplementsMap
