SPECIFICATION FairSpec
CONSTANTS
  k1 = k1
  k2 = k2
  k3 = k3
  k4 = k4
  Keys <- MCKeys
  Values = {v1, v2}
  NoKey = NoKey
  NoValue = NoValue
  OK = OK
  Hash <- MCHash
  InitCapacity = 4
INVARIANTS
  TypeOK
  Searchable
  NoDuplicates
  SizeCountsKeys
  SlotAlwaysFound
  RehashCopies
PROPERTIES
  ImplementsDict
  
