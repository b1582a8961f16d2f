\* One value that is not UTF-8 reaches the log.
CONSTANTS
  Key <- KeysUpTo2
  Val = {v1, v2}
  Tombstone = Tombstone
  None = None
  NoFile = NoFile
  Torn = Torn
  Garbled = Garbled
  Unreadable = {v2}
  Unstorable = {}
  FLUSH_THRESHOLD = 1
  COMPACTION_THRESHOLD = 2
  MaxTables = 3
  MaxLog = 2
SPECIFICATION Spec
INVARIANTS
  LogRebuildsMemTable
