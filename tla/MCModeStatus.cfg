SPECIFICATION Spec
CONSTANTS
  Thread <- Threads
  Prio <- Priority
  Bit <- Bits
  Writes <- WritesOf
  BkgOrder <- OneBit
  FrostOrder <- OneCoil
  MaxAlarms = 1
INVARIANTS
  FirmBits
  FrostRefreshed
PROPERTIES
  ChangesFromBelow
