CONSTANTS
  Key = {"a", "b", "c"}
  Value = {"v"}
  Slot <- MCSlot
  Depth = 3
  Digit <- MCDigit
  Byte <- MCByte
  MaxRecords = 3
SPECIFICATION Spec
INVARIANTS TypeOK IndexSound CollisionAssertHolds
PROPERTIES NoSemanticChange ImplementsMap
