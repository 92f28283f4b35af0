CONSTANTS
  Key = {"a", "d"}
  Value = {"v", "w"}
  Slot <- MCSlot
  Depth = 3
  Digit <- MCDigit
  Byte <- MCByte
  MaxRecords = 2
SPECIFICATION SpecByHand
INVARIANTS CollisionAssertHolds
