------------------------------- MODULE Engine -------------------------------
(***************************************************************************)
(* The write path of the engine (engine.go, wal.go, sstable.go,            *)
(* compaction.go): Put and Delete log a record, change the MemTable, flush *)
(* it to a level-0 SSTable when it is full, and compact both levels when   *)
(* enough level-0 tables exist.  writeMu is held from the first step to    *)
(* the last, so one program counter describes the writer.                  *)
(*                                                                         *)
(* Every file operation is a step of its own, and the file system has a    *)
(* volatile cache: for the log, the manifest and each table directory      *)
(* there is the state programs see and the state that is on the device,    *)
(* which an fsync brings up to date.  A crash may strike between any two   *)
(* steps and keeps, object by object, either the one or the other.         *)
(*                                                                         *)
(* Here no file operation returns an error; EngineFaults adds those.       *)
(*                                                                         *)
(* A definition named <Name>_<bug> is <Name> with a bug a change of the    *)
(* code could introduce; no specification uses it.  Each shows that some   *)
(* property below would notice.                                            *)
(***************************************************************************)
EXTENDS LSMTables

CONSTANTS
  FLUSH_THRESHOLD,       \* entries that fill a MemTable, and an SSTable
  COMPACTION_THRESHOLD,  \* level-0 tables that start a compaction
  MaxTables,             \* bound: table numbers of a level
  MaxLog                 \* bound: records in the log when a write starts

ASSUME ThresholdsArePositive ==
  /\ FLUSH_THRESHOLD \in Nat \ {0}
  /\ COMPACTION_THRESHOLD \in Nat \ {0}
ASSUME BoundsAreNaturals == MaxTables \in Nat /\ MaxLog \in Nat

VARIABLES
  pc,              \* what the holder of writeMu does next; "idle" when it is free
  op,              \* the record being written
  memTable,        \* the MemTable
  levels,          \* the store's level state: l0 and l1, as in the manifest
  job,             \* the running compaction: its inputs l0, l1 and its output new
  wal,             \* the lines of the log file
  walSynced,       \* the lines on the device
  manifest,        \* the manifest file
  manifestSynced,  \* the one on the device
  files,           \* the table files of directories l0 and l1
  filesSynced      \* the ones on the device

volatileVars == <<pc, op, memTable, levels, job>>
walVars == <<wal, walSynced>>
manifestVars == <<manifest, manifestSynced>>
fileVars == <<files, filesSynced>>
vars == <<volatileVars, walVars, manifestVars, fileVars>>

Idx == 1..MaxTables
L1Table == [idx : Idx, min : Key, max : Key]
Levels == [l0 : Seq(Idx), l1 : Seq(L1Table)]
Files == [0..1 -> [Idx -> Table \cup {NoFile}]]

NoLevels == [l0 |-> <<>>, l1 |-> <<>>]
NoJob == [l0 |-> <<>>, l1 |-> <<>>, new |-> <<>>]
Numbers(tables) == {tables[i].idx : i \in DOMAIN tables}

Init ==
  /\ pc = "idle"
  /\ op = None
  /\ memTable = EmptyTable
  /\ levels = NoLevels
  /\ job = NoJob
  /\ wal = <<>> /\ walSynced = <<>>
  /\ manifest = NoLevels /\ manifestSynced = NoLevels
  /\ files = [l \in 0..1 |-> [i \in Idx |-> NoFile]]
  /\ filesSynced = files

-----------------------------------------------------------------------------
(***************************************************************************)
(* Helpers of the store.                                                   *)
(***************************************************************************)
\* Does level l of a level state or manifest name table n?
NamesTable(lv, l, n) ==
  IF l = 0 THEN n \in {lv.l0[i] : i \in DOMAIN lv.l0} ELSE n \in Numbers(lv.l1)

\* pruneLevelsFromDisk, pruneLevelTables: drop the tables whose file is missing
\* (nothing changes if none is).
Prune(lv, fs) ==
  IF \A l \in 0..1, n \in Idx : NamesTable(lv, l, n) => fs[l][n] # NoFile
  THEN lv
  ELSE [l0 |-> Kept(lv.l0, {i \in DOMAIN lv.l0 : fs[0][lv.l0[i]] # NoFile}),
        l1 |-> Kept(lv.l1, {i \in DOMAIN lv.l1 : fs[1][lv.l1[i].idx] # NoFile})]

\* getNewSSTableName(0) looks at the level state, not at the directory.
NewL0 == NextIndex({levels.l0[i] : i \in DOMAIN levels.l0})

\* flushChunk numbers its chunks from 1 and does not ask for the file.
FreeL1_fromOne == {i \in Idx : i > Len(job.new)}

\* flushChunk: the first number after those of the inputs that names no file.
FreeL1 == {i \in Idx : i >= NextIndex(Numbers(job.l1)) /\ files[1][i] = NoFile}

\* The last key of a chunk is repeated in the next one.
Unwritten_overlap ==
  LET all == Merged(job.l0, job.l1, files)
  IN  {k \in KeysIn(all) : \A i \in DOMAIN job.new : k >= job.new[i].max}

\* The merged keys no chunk holds yet; chunks are cut in ascending order.
Unwritten ==
  LET all == Merged(job.l0, job.l1, files)
  IN  {k \in KeysIn(all) : \A i \in DOMAIN job.new : k > job.new[i].max}

\* writeMu.Unlock, whatever the outcome of the operation.
Unlock ==
  /\ pc' = "idle"
  /\ op' = None

\* Bounds of the model: numbers for one more flush and one more compaction.
Room ==
  /\ Len(wal) < MaxLog
  /\ NewL0 \in Idx
  /\ LET free == {i \in Idx : i >= NextIndex(Numbers(levels.l1)) /\ files[1][i] = NoFile}
     IN  Cardinality(free) * FLUSH_THRESHOLD >= Cardinality(Key)

-----------------------------------------------------------------------------
(***************************************************************************)
(* Put and Delete: the log, then the MemTable.                             *)
(***************************************************************************)
\* Delete forgets the type of the record it logs.
Begin_untyped(k, e) ==
  /\ pc = "idle" /\ Room
  /\ op' = [key |-> k, entry |-> IF e = Tombstone THEN None ELSE e]
  /\ pc' = "append"
  /\ UNCHANGED <<memTable, levels, job, walVars, manifestVars, fileVars>>

Begin(k, e) ==
  /\ pc = "idle" /\ Room
  /\ op' = [key |-> k, entry |-> e]
  /\ pc' = "append"
  /\ UNCHANGED <<memTable, levels, job, walVars, manifestVars, fileVars>>

WalAppend ==
  /\ pc = "append"
  /\ wal' = LogAppend(wal, op)
  /\ pc' = "walSync"
  /\ UNCHANGED <<op, memTable, levels, job, walSynced, manifestVars, fileVars>>

\* append returns without f.Sync.
WalSync_skipped ==
  /\ pc = "walSync"
  /\ pc' = "apply"
  /\ UNCHANGED <<op, memTable, levels, job, walVars, manifestVars, fileVars>>

WalSync ==
  /\ pc = "walSync"
  /\ walSynced' = wal
  /\ pc' = "apply"
  /\ UNCHANGED <<op, memTable, levels, job, wal, manifestVars, fileVars>>

\* memTable.put or memTable.delete, and the test of flushMemTableIfNeeded.
Apply ==
  /\ pc = "apply"
  /\ memTable' = [memTable EXCEPT ![op.key] = op.entry]
  /\ IF Size(memTable') = FLUSH_THRESHOLD
     THEN pc' = "writeTable" /\ op' = None
     ELSE Unlock
  /\ UNCHANGED <<levels, job, walVars, manifestVars, fileVars>>

-----------------------------------------------------------------------------
(***************************************************************************)
(* flushMemTableIfNeeded and saveLevel0SSTableEntries.  The table is       *)
(* written and synced under a temporary name and renamed into place; then  *)
(* its directory is synced, then the manifest is replaced the same way.    *)
(***************************************************************************)
WriteTable ==
  /\ pc = "writeTable" /\ Storable(memTable)
  /\ files' = [files EXCEPT ![0] = [@ EXCEPT ![NewL0] = memTable]]
  /\ pc' = "tableSync"
  /\ UNCHANGED <<op, memTable, levels, job, walVars, manifestVars, filesSynced>>

\* flushMemTableIfNeeded goes on after an error of SaveSSTable.
RefuseTable_ignored ==
  /\ pc = "writeTable" /\ ~Storable(memTable)
  /\ pc' = "truncate"
  /\ UNCHANGED <<op, memTable, levels, job, walVars, manifestVars, fileVars>>

\* A table with an entry that cannot be encoded is not written; the temporary
\* file is removed and SaveSSTable's error ends the operation.
RefuseTable ==
  /\ pc = "writeTable" /\ ~Storable(memTable)
  /\ Unlock
  /\ UNCHANGED <<memTable, levels, job, walVars, manifestVars, fileVars>>

\* writeSortedSSTableFile returns without syncing.
TableSync_skipped ==
  /\ pc = "tableSync"
  /\ pc' = "publish"
  /\ UNCHANGED <<op, memTable, levels, job, walVars, manifestVars, fileVars>>

TableSync ==
  /\ pc = "tableSync"
  /\ filesSynced' = [filesSynced EXCEPT ![0] = files[0]]
  /\ pc' = "publish"
  /\ UNCHANGED <<op, memTable, levels, job, walVars, manifestVars, files>>

\* appendTableToManifestLocked reads the manifest back from disk and appends.
Publish ==
  /\ pc = "publish"
  /\ manifest' = [manifest EXCEPT !.l0 = Append(@, NewL0)]
  /\ pc' = "publishSync"
  /\ UNCHANGED <<op, memTable, levels, job, walVars, manifestSynced, fileVars>>

\* The table is added to the manifest and not to sst.levels.
PublishSync_manifestOnly ==
  /\ pc = "publishSync"
  /\ manifestSynced' = manifest
  /\ pc' = "truncate"
  /\ UNCHANGED <<op, memTable, levels, job, walVars, manifest, fileVars>>

PublishSync ==
  /\ pc = "publishSync"
  /\ manifestSynced' = manifest
  /\ levels' = [levels EXCEPT !.l0 = Append(@, NewL0)]
  /\ pc' = "truncate"
  /\ UNCHANGED <<op, memTable, job, walVars, manifest, fileVars>>

WalTruncate ==
  /\ pc = "truncate"
  /\ wal' = <<>>
  /\ pc' = "truncateSync"
  /\ UNCHANGED <<op, memTable, levels, job, walSynced, manifestVars, fileVars>>

\* truncate returns without f.Sync.
TruncateSync_skipped ==
  /\ pc = "truncateSync"
  /\ pc' = "clear"
  /\ UNCHANGED <<op, memTable, levels, job, walVars, manifestVars, fileVars>>

TruncateSync ==
  /\ pc = "truncateSync"
  /\ walSynced' = wal
  /\ pc' = "clear"
  /\ UNCHANGED <<op, memTable, levels, job, wal, manifestVars, fileVars>>

\* The flush forgets memTable.clear.
MemClear_skipped ==
  /\ pc = "clear"
  /\ pc' = "maybeCompact"
  /\ UNCHANGED <<op, memTable, levels, job, walVars, manifestVars, fileVars>>

MemClear ==
  /\ pc = "clear"
  /\ memTable' = EmptyTable
  /\ pc' = "maybeCompact"
  /\ UNCHANGED <<op, levels, job, walVars, manifestVars, fileVars>>

-----------------------------------------------------------------------------
(***************************************************************************)
(* maybeCompactIfNeeded and compactSSTables.                               *)
(***************************************************************************)
NoCompaction ==
  /\ pc = "maybeCompact" /\ Len(levels.l0) # COMPACTION_THRESHOLD
  /\ Unlock
  /\ UNCHANGED <<memTable, levels, job, walVars, manifestVars, fileVars>>

\* The inputs are the tables of both levels that exist on disk.
StartCompaction ==
  /\ pc = "maybeCompact" /\ Len(levels.l0) = COMPACTION_THRESHOLD
  /\ LET lv == Prune(levels, files)
     IN  /\ job' = [l0 |-> lv.l0, l1 |-> lv.l1, new |-> <<>>]
         /\ pc' = IF Len(lv.l0) < 2 THEN "rewrite" ELSE "merge"
  /\ UNCHANGED <<op, memTable, levels, walVars, manifestVars, fileVars>>

\* Too few level-0 tables: only the pruned levels are made persistent.
RewritePruned ==
  /\ pc = "rewrite"
  /\ manifest' = [l0 |-> job.l0, l1 |-> job.l1]
  /\ pc' = "rewriteSync"
  /\ UNCHANGED <<op, memTable, levels, job, walVars, manifestSynced, fileVars>>

RewriteSync ==
  /\ pc = "rewriteSync"
  /\ manifestSynced' = manifest
  /\ levels' = [l0 |-> job.l0, l1 |-> job.l1]
  /\ job' = NoJob
  /\ Unlock
  /\ UNCHANGED <<memTable, walVars, manifest, fileVars>>

\* flushChunk: the next FLUSH_THRESHOLD merged keys become a level-1 table.
WriteChunk ==
  /\ pc = "merge" /\ Unwritten # {} /\ FreeL1 # {}
  /\ LET all == Merged(job.l0, job.l1, files)
         ks  == Lowest(Unwritten, FLUSH_THRESHOLD)
         n   == Min(FreeL1)
     IN  /\ files' = [files EXCEPT ![1] = [@ EXCEPT ![n] =
                        [k \in Key |-> IF k \in ks THEN all[k] ELSE None]]]
         /\ job' = [job EXCEPT !.new =
                      Append(@, [idx |-> n, min |-> Min(ks), max |-> Max(ks)])]
  /\ pc' = "chunkSync"
  /\ UNCHANGED <<op, memTable, levels, walVars, manifestVars, filesSynced>>

\* The chunk is not synced before the next one is written.
ChunkSync_skipped ==
  /\ pc = "chunkSync"
  /\ pc' = "merge"
  /\ UNCHANGED <<op, memTable, levels, job, walVars, manifestVars, fileVars>>

ChunkSync ==
  /\ pc = "chunkSync"
  /\ filesSynced' = [filesSynced EXCEPT ![1] = files[1]]
  /\ pc' = "merge"
  /\ UNCHANGED <<op, memTable, levels, job, walVars, manifestVars, files>>

\* The new level 1 replaces both levels in the manifest ...
Install ==
  /\ pc = "merge" /\ Unwritten = {}
  /\ manifest' = [l0 |-> <<>>, l1 |-> job.new]
  /\ pc' = "installSync"
  /\ UNCHANGED <<op, memTable, levels, job, walVars, manifestSynced, fileVars>>

\* ... and, once that is durable, in memory.
InstallSync ==
  /\ pc = "installSync"
  /\ manifestSynced' = manifest
  /\ levels' = [l0 |-> <<>>, l1 |-> job.new]
  /\ pc' = "remove"
  /\ UNCHANGED <<op, memTable, job, walVars, manifest, fileVars>>

\* The inputs are removed; no directory sync follows, so a crash may bring
\* back any of them.
RemoveInputs ==
  /\ pc = "remove"
  /\ files' = [l \in 0..1 |-> [i \in Idx |->
                 IF i \in (IF l = 0 THEN {job.l0[j] : j \in DOMAIN job.l0}
                                    ELSE Numbers(job.l1))
                 THEN NoFile ELSE files[l][i]]]
  /\ job' = NoJob
  /\ Unlock
  /\ UNCHANGED <<memTable, levels, walVars, manifestVars, filesSynced>>

-----------------------------------------------------------------------------
(***************************************************************************)
(* A crash (of the process or of the machine) and the next start.          *)
(***************************************************************************)
\* The table slots in which the cache and the device differ.
Unsynced ==
  {s \in (0..1) \X Idx : files[s[1]][s[2]] # filesSynced[s[1]][s[2]]}

\* The directories as they are if the slots in S are lost with the cache.
FilesAfter(S) ==
  [l \in 0..1 |-> [i \in Idx |->
     IF <<l, i>> \in S THEN filesSynced[l][i] ELSE files[l][i]]]

LoseMemory ==
  /\ pc' = "down"
  /\ op' = None
  /\ memTable' = EmptyTable
  /\ levels' = NoLevels
  /\ job' = NoJob

Crash ==
  /\ pc # "down"
  /\ LoseMemory
  /\ wal' \in {wal, walSynced} /\ walSynced' = wal'
  /\ manifest' \in {manifest, manifestSynced} /\ manifestSynced' = manifest'
  /\ \E S \in SUBSET Unsynced : files' = FilesAfter(S)
  /\ filesSynced' = files'

\* NewEngine: load the manifest without the tables that are missing, replay
\* the log into an empty MemTable.  It neither flushes nor compacts.
Restart ==
  /\ pc = "down"
  /\ levels' = Prune(manifest, files)
  /\ memTable' = Replay(wal)
  /\ pc' = "idle"
  /\ UNCHANGED <<op, job, walVars, manifestVars, fileVars>>

-----------------------------------------------------------------------------
Write == \E k \in Key, e \in Entry : Begin(k, e)
Log == WalAppend \/ WalSync
Flush ==
  \/ WriteTable \/ RefuseTable \/ TableSync \/ Publish \/ PublishSync
  \/ WalTruncate \/ TruncateSync \/ MemClear
Compact ==
  \/ NoCompaction \/ StartCompaction \/ RewritePruned \/ RewriteSync
  \/ WriteChunk \/ ChunkSync \/ Install \/ InstallSync \/ RemoveInputs

\* The steps of the goroutine that holds writeMu.
WriterStep == Log \/ Apply \/ Flush \/ Compact

Next == Write \/ WriterStep \/ Crash \/ Restart

Spec == Init /\ [][Next]_vars

\* A goroutine that holds the lock and is not blocked runs on, and a server
\* that stopped is started again.
FairSpec == Spec /\ WF_vars(WriterStep) /\ WF_vars(Restart)

-----------------------------------------------------------------------------
(***************************************************************************)
(* Correctness.                                                            *)
(***************************************************************************)
\* What NewEngine makes of a log, a manifest and the table directories.
Recovered(w, m, fs) ==
  LET mem == Replay(w)
      lv  == Prune(m, fs)
  IN  [k \in Key |-> Visible(Find(mem, lv, fs, k))]

\* What Get answers for each key: from memory and the tables while the engine
\* runs, and what it will answer after the restart while it is down.
View ==
  IF pc = "down"
  THEN Recovered(wal, manifest, files)
  ELSE [k \in Key |-> Visible(Find(memTable, levels, files, k))]

PCs == {"idle", "append", "walSync", "apply", "writeTable", "tableSync",
        "publish", "publishSync", "truncate", "truncateSync", "clear",
        "maybeCompact", "rewrite", "rewriteSync", "merge", "chunkSync",
        "installSync", "remove", "down"}

\* Every variable stays in its type.
TypeOK ==
  /\ pc \in PCs
  /\ op \in Record \cup {None}
  /\ memTable \in Table
  /\ levels \in Levels
  /\ job \in [l0 : Seq(Idx), l1 : Seq(L1Table), new : Seq(L1Table)]
  /\ wal \in Seq(Line) /\ walSynced \in Seq(Line)
  /\ manifest \in Levels /\ manifestSynced \in Levels
  /\ files \in Files /\ filesSynced \in Files

\* Wherever a crash strikes, the restart finds every write that returned: the
\* values are those readers saw before it, except that the interrupted write
\* may have happened.  This is what the order of log, fsync, table, manifest,
\* truncation and removal in Put, saveLevel0SSTableWithWriter and
\* compactSSTables is for.
CrashSafe ==
  pc # "down" =>
    \A w \in {wal, walSynced}, m \in {manifest, manifestSynced},
       S \in SUBSET Unsynced :
      \/ Recovered(w, m, FilesAfter(S)) = View
      \/ /\ op # None
         /\ Recovered(w, m, FilesAfter(S)) =
              [View EXCEPT ![op.key] = Visible(op.entry)]

\* A table a manifest names, the cached one or the one on the device, is on
\* the device with the contents the cache shows: tables are synced before the
\* manifest names them and removed only after the manifest stopped to.
PublishedTablesDurable ==
  \A l \in 0..1, n \in Idx :
    NamesTable(manifest, l, n) \/ NamesTable(manifestSynced, l, n)
      => files[l][n] # NoFile /\ filesSynced[l][n] = files[l][n]

\* SSTables are immutable: no step changes the file of a table that the
\* manifest names before and after it, whatever numbers orphans of earlier
\* crashes occupy (getNewSSTableName, and the os.Stat loop of flushChunk).
LiveTablesKept ==
  [][\A l \in 0..1, n \in Idx :
       NamesTable(manifest, l, n) /\ NamesTable(manifest', l, n)
         => files'[l][n] = files[l][n]]_vars

\* The level state in memory and the manifest say the same except between the
\* replacement of the manifest and the end of its fsync, though a flush edits
\* the manifest it reads back from disk and a compaction the one in memory.
ManifestMatchesMemory ==
  pc \notin {"publishSync", "rewriteSync", "installSync", "down"}
    => manifest = levels

\* Between two writes the log on the device rebuilds the MemTable exactly: it
\* has no record a flush has already made part of level 0, or those would
\* shadow newer tables after a restart, and misses none.
LogRebuildsMemTable == pc = "idle" => Replay(walSynced) = memTable

\* "L1 tables are sorted and non-overlapping, so the range lets reads avoid
\* opening tables that cannot contain a key" (sstable.go): ranges ascend, and
\* each is the exact range of its table.
LevelOneSorted ==
  /\ SortedRun(levels.l1, files[1])
  /\ SortedRun(manifest.l1, files[1])
  /\ SortedRun(manifestSynced.l1, files[1])
  /\ SortedRun(job.new, files[1])

\* A write that holds writeMu gives it back: no merge loops, no step of the
\* flush or the compaction is left without a successor.
WriteReturns == (pc = "append") ~> (pc \in {"idle", "down"})

\* A MemTable that reached the threshold is flushed: "expected memtable to be
\* empty after flush" (engine_test.go).
FlushCompletes == (pc = "writeTable") ~> (pc = "down" \/ memTable = EmptyTable)

\* No MemTable outgrows a table: FLUSH_THRESHOLD is sstableMaxEntries, the
\* most writeBlockBasedTable accepts.
MemTableFitsTable == Size(memTable) <= FLUSH_THRESHOLD

\* "compact when number of tables are met" (engine.go): level 0 never has
\* more tables than start a compaction.
LevelZeroCompacts == Len(levels.l0) <= COMPACTION_THRESHOLD
=============================================================================
