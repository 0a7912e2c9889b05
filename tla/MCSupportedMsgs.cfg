SPECIFICATION Spec
CONSTANTS
  ByteBits = 2
  IntBits = 3
  WordBits = 4
  MsgArray <- TwoMessages
  Arrays <- AllArrays
  Upgrades = TRUE
INVARIANT
  BitsAreExact
  NothingInvented
