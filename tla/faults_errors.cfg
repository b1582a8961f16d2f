\* Every failure there is, and a value no SSTable can hold: what readers see,
\* and the lock of the writer.
CONSTANTS
  Key <- KeysUpTo2
  Val = {v1, v2}
  Tombstone = Tombstone
  None = None
  NoFile = NoFile
  Torn = Torn
  Garbled = Garbled
  Unreadable = {}
  Unstorable = {v2}
  FLUSH_THRESHOLD = 1
  COMPACTION_THRESHOLD = 2
  MaxTables = 2
  MaxLog = 2
  Faults <- AllFaults
SPECIFICATION FairFaultySpec
PROPERTIES
  
  WriteReturns
