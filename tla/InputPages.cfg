\* An int of 4 bits, pages of 4 ints: seven pages wrap around.
SPECIFICATION FairSpec
CONSTANTS
  PageInts = 4
  SizeofInt = 4
  IntMod = 16
  LongMod = 512
  AddressSpace = 128
  Arg <- MCArg
  Text = Text
INVARIANTS
  SizeExact
  PagesAlike
  StoresInside
PROPERTY Settles
