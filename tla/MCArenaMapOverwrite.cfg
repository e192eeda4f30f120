SPECIFICATION Spec
CONSTANTS
  Keys <- MCKeys
  Values <- MCValues
  NoKey <- MCNoKey
  NoValue = NoValue
  OK = OK
  Hash <- MCHash
  InitCapacity = 4
  BlockSize = 3
  SizeMod = 65536
  MaxBytes = 6
INVARIANTS
  OverwriteStaysInBlock
