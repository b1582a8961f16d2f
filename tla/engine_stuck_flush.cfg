\* A crash leaves a full MemTable in the log.
CONSTANTS
  Key <- KeysUpTo2
  Val = {v1}
  Tombstone = Tombstone
  None = None
  NoFile = NoFile
  Torn = Torn
  Garbled = Garbled
  Unreadable = {}
  Unstorable = {}
  FLUSH_THRESHOLD = 1
  COMPACTION_THRESHOLD = 2
  MaxTables = 3
  MaxLog = 2
SPECIFICATION Spec
INVARIANTS
  MemTableFitsTable
