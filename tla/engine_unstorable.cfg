\* One value no SSTable can hold reaches the MemTable.
CONSTANTS
  Key <- KeysUpTo2
  Val = {v1, v2}
  Tombstone = Tombstone
  None = None
  NoFile = NoFile
  Torn = Torn
  Garbled = Garbled
  Unreadable = {}
  Unstorable = {v2}
  FLUSH_THRESHOLD = 1
  COMPACTION_THRESHOLD = 2
  MaxTables = 3
  MaxLog = 2
SPECIFICATION FairSpec
PROPERTIES
  FlushCompletes
