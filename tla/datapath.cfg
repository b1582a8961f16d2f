\* Four MemTables of three of four keys in blocks of two, towers of up to two levels,
\* two of the merges they call for, and damage to a file after any of them.
CONSTANTS
  Key <- KeysUpTo4
  Val <- OneToFour
  Tombstone = Tombstone
  None = None
  NoFile = NoFile
  Torn = Torn
  Garbled = Garbled
  Unreadable = {}
  Unstorable = {}
  MaxLevels = 2
  HeadNode = HeadNode
  Nil = Nil
  DataBlockEntries = 2
  IndexCapacity = 2
  Zeros = Zeros
  ReadError = ReadError
  FilterLength = 5
  FilterHashes = 3
  WordSize = 8
  HashOne <- SomeHashOne
  HashTwo <- SomeHashTwo
  NoRange = NoRange
  FLUSH_THRESHOLD = 3
  COMPACTION_THRESHOLD = 2
  Workload <- FourFlushes
  MaxTables = 4
  DamagedAfter = {1, 2, 3, 4}
  Garbage = Garbage
SPECIFICATION FairSpec
INVARIANTS
  LookupsAgree
  SkipListSound
  MergeEmitsMerged
  
PROPERTIES
  MergeEnds
