\* The write path with its bloom sidecars, and a crash between any two steps.
CONSTANTS
  Key <- KeysUpTo2
  Val = {v1}
  Tombstone = Tombstone
  None = None
  NoFile = NoFile
  Torn = Torn
  Garbled = Garbled
  Unreadable = {}
  Unstorable = {}
  FLUSH_THRESHOLD = 1
  COMPACTION_THRESHOLD = 2
  MaxTables = 3
  MaxLog = 2
  Faults = {}
SPECIFICATION FairBloomSpec
INVARIANTS
  TypeOK
  CrashSafe
  PublishedTablesDurable
  LogRebuildsMemTable
  ManifestMatchesMemory
  LevelOneSorted
  RecoveryInv
  FiltersSound
PROPERTIES
  LiveTablesKept
  ImplementsKVStore
  WriteReturns
  FlushCompletes
