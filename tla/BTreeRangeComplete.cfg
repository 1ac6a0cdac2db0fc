\* find_range misses keys.
SPECIFICATION PrintSpec
CONSTANTS
  Order = 3
  MaxKey = 4
  Key <- MCKey
  Val = {v1}
  Node = {n1, n2, n3, n4, n5, n6, n7, n8, n9}
  Ops = {"insert", "delete", "range"}
  Width = 16
  NULL = NULL
  Void = Void
INVARIANT RangeComplete
