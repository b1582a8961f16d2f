\* Failing file operations, crashes and a value no SSTable can hold; MemTables and
\* chunks of two of three keys, so that a merge ends with a chunk that is not full.
CONSTANTS
  Key <- KeysUpTo3
  Val = {v1, v2}
  Tombstone = Tombstone
  None = None
  NoFile = NoFile
  Torn = Torn
  Garbled = Garbled
  Unreadable = {}
  Unstorable = {v2}
  FLUSH_THRESHOLD = 2
  COMPACTION_THRESHOLD = 2
  MaxTables = 2
  MaxLog = 2
  Faults <- HarmlessFaults
SPECIFICATION BloomSpec
INVARIANTS
  LevelOneSorted
  FiltersSound
  CrashSafe
  FaultInv
  BloomInv
PROPERTIES
  ImplementsRejectingKVStore
