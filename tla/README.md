# k-lsm-engine in TLA+

A verification project for the storage engine of this repository and the programs
around it: TLA+ modules of its write path, crashes, I/O errors, concurrent reads,
data structures and clients, TLC runs over small instances of them, and TLAPS proofs
for every instance. Line numbers refer to
`src/internal/storage` unless a path is given.

## 1. The system

A key-value server (`src/cmd/server`) around a log-structured merge tree
(`src/internal/storage`). It has a single writer at a time, any number of
readers, no background threads, and no network between its parts.

| part | state | operations |
|---|---|---|
| Engine (`engine.go`) | `memTable`, `wal`, `ssTableStore`, `writeMu` | `Put`, `Delete`, `Get`, `NewEngine`; `flushMemTableIfNeeded`, `maybeCompactIfNeeded` |
| Write-ahead log (`wal.go`) | the file `wal.db`: a JSON line with a CRC per record | `append` (write, fsync, directory sync), `truncate`, `getAll` |
| MemTable (`memtable.go`) | a skip list under a read-write lock | `put`, `delete`, `get`, `entries`, `size`, `clear` |
| Skip list (`memtable_skiplist.go`) | towers of nodes | `add`, `get`, `entries`, `clear` |
| SSTable store (`sstable.go`) | `levels` (tables, ranges and filters of two levels), the manifest file, `mu` | `saveLevel0SSTableEntries`, `appendTableToManifestLocked`, `rewriteManifestFromLevels`, `getKey`, loading and pruning |
| Compaction (`compaction.go`) | readers and a heap while it runs | `compactSSTables` |
| Block-based table (`block_based_table.go`) | a file of fixed-size blocks | write, open, search, read a block |
| Bloom filters (`bloom_filter.go`) | a sidecar file per table, a filter in memory | write, read, load, query |
| Directory sync (`fsync.go`) | - | `syncParentDir` |
| Server (`src/cmd/server`) | a goroutine per request | GET, PUT, DELETE; metrics |
| Load generator (`src/cmd/gen`) | the map its steps should leave | writes a file of steps and expected answers |
| Client (`src/cmd/client`) | the step it is at | sends the steps one at a time, with retries, and compares |

**How they interact.** `Put` and `Delete` take `writeMu`, append a record to the
log and fsync it, and change the MemTable. The write that brings the MemTable to
`FLUSH_THRESHOLD` entries also saves it as a level-0 table (written and synced
under a temporary name, renamed, directory synced), adds the table to the manifest
(replaced in the same way) and to the level state, truncates the log and clears
the MemTable. The flush that brings level 0 to `COMPACTION_THRESHOLD` tables then
merges both levels into new level-1 tables, replaces manifest and level state, and
removes the inputs. Each table gets a bloom sidecar, written and synced under its final
name before the table is renamed, and removed after it. All of this happens under
`writeMu`, the table work also under the store's write lock. `Get` takes neither of them for its whole duration: it
looks at the MemTable under one lock, then at the tables under the read lock of
the store, skipping those whose filter denies the key. `NewEngine` loads the manifest,
drops tables without a file, loads filters, and replays the log. `gen` writes a file of
steps; `client` sends them to `server` one after the other and tries a failed one again.

**What is hard here.** Four kinds of durable state (log, manifest, two table
directories) change one file operation at a time, each with a volatile and a
durable version, and a crash can separate any two of them. Every operation can
fail, most failures are logged and swallowed, and clean-up code then removes
files. Orphans of crashes and failures stay for ever and their names come up
again. Both thresholds are tested for equality, by the operation that should
pass through them. `Get` reads two places under two locks while entries move
between them. A sidecar belongs to a number, and numbers outlive tables. A request that
times out goes on in the server while its client repeats it or moves on.

**What makes the parts correct.**
- Engine: an acknowledged write is found by every later read and survives every
  crash; an interrupted one happened or did not; reads are linearizable;
  a write gives its lock back; MemTable and level 0 stay bounded.
- Log: between two writes it rebuilds the MemTable exactly.
- Store: what the manifest names is on the device and never changes; manifest and
  memory agree; level-1 ranges ascend, do not overlap, and are exact.
- Compaction: the outputs say what the inputs said, newest version first; outputs
  of one that failed can go, its inputs cannot.
- MemTable and skip list: an ordered map, however high the towers. Block-based table: a
  lookup finds what was written, corruption is noticed. Bloom filter: no false
  negative, and the filter consulted belongs to the table. Manifest text: it reads
  back as it was written.
- Client and server: an answer is one the steps before it explain, and every step ends.

## 2. Modules

```
LSMTables            tables, log and lookups as data and functions
  Engine             the write path, crash and restart
    EngineInv        the inductive invariants
      EngineImplements   Engine implements KVStore
        MCEngine         instances for TLC
    EngineFaults     + I/O errors                     MCEngineFaults
      EngineFaultsInv    its inductive invariants
      EngineBlooms   + bloom sidecars and filters
        EngineBloomsInv  its inductive invariant      MCEngineBlooms
    EngineReads      + concurrent Gets                MCEngineReads
  SkipList           the MemTable's skip list
  BlockTable         table files and bloom filters
    DataPath         SkipList, BlockTable and ManifestText at work; the merge loop
                                                      MCDataPath
ManifestText         the text of the manifest
KVStore              what the engine promises (abstract)
  Validation         gen, client and server over KVStore

LSMTablesProofs -> EngineProofs -> EngineReadsProofs
                                -> EngineFaultsProofs -> EngineBloomsProofs
                -> DataPathProofs -> MergeProofs
ValidationProofs
```

### LSMTables: data

A table (the MemTable, or the contents of a file) is a function from keys to
entries, `None` where it has none; a deleted key has the entry `Tombstone`. Keys
are integers, which stand for strings under their order. The log is a sequence of
records and of two kinds of bad lines: `Torn`, a last line that a crash or a failed
write cut short, and `Garbled`, a terminated line at which `getAll` stops.
A complete record that lacks only its newline counts as `Torn`; `getAll` would
accept it, and appending after it garbles it all the same.

`Unreadable` names keys and values whose record does not survive the log (not
UTF-8, or a line above 64 KB), `Unstorable` those `writePaddedString` refuses
(empty, above 64 bytes, containing NUL). Lookups (`L0Find`, `L1Find`, `Find`),
`Replay`, the result of the merge (`Merged`) and the naming rules are operators.

### Engine: the write path

| variable | in the code |
|---|---|
| `pc`, `op` | where the holder of `writeMu` is, and its record |
| `memTable` | `Engine.memTable` |
| `levels` | `sstableStore.levels`: numbers of level 0, numbers and ranges of level 1 |
| `job` | locals of `compactSSTables`: inputs, and the outputs so far |
| `wal`, `walSynced` | `wal.db` as programs see it, and on the device |
| `manifest`, `manifestSynced` | `manifest.db`, the same two |
| `files`, `filesSynced` | the files `l0/sst-n.db`, `l1/sst-n.db`, the same two |

Each action is one file operation or one change in memory, named after what
it does (`WalAppend`, `WalSync`, `Apply`, `WriteTable`, `TableSync`, `Publish`,
`PublishSync`, ...). Writing, syncing and renaming a temporary file is one step,
because nobody sees the file before the rename; the directory sync is the
step that makes the rename durable. `compactSSTables` is a loop of `WriteChunk` and
`ChunkSync`; its heap is abstracted to the operator `Merged`, and a chunk takes the
lowest `FLUSH_THRESHOLD` keys not yet written.

`Crash` may happen anywhere and resolves log, manifest and every table slot
independently to its cached or its durable version. Slots of one directory being
lost independently is somewhat stronger than file systems are. `Restart` is
`NewEngine`.

### EngineFaults: I/O errors

Every early return of the code, with what its callers and deferred functions do:
log append (open, torn write, sync), table (write, directory sync), manifest (before
and after the rename), truncation, merge, chunks, installation, removal of inputs.
The constant `Faults` selects the kinds that may happen. A failed directory sync
leaves the durable state as it was, and a later crash or sync decides.
`CompactionForgets` is an `os.Stat` that fails where a compaction prunes: any tables
are dropped from the level state although their files are there. It is the only way to
a compaction of fewer than two tables, which merely rewrites the manifest.

### EngineBlooms: sidecars and filters

| variable | in the code |
|---|---|
| `side` | how far the sidecar of the table about to be written is |
| `sidecars`, `sidecarsSynced` | the files `sst-n.db.bloom`, as programs see them and on the device |
| `filters` | `bloomFilters` of both levels |

A filter stands for the set of keys it was made of (its bits are in `BlockTable`).
`WriteSidecar` and `SidecarSync` come before `WriteTable` and `WriteChunk`; every other
action is an action of `EngineFaults` with what it does to sidecars and filters
(`SyncBoth`, `Register`, `Reload`, `PruneBoth`, `RemoveBoth`, `CrashBoth`,
`RestartBoth`, `Beside`). A crash resolves each sidecar on its own, like the tables.
Removing a sidecar may fail, and then it stays. The module assumes
`COMPACTION_THRESHOLD >= 2` (`CompactionsMerge`).

### EngineReads: concurrent Gets

Readers step through `StartGet`, `ReadMemTable`, `ReadStore`, `ReturnGet` beside all
steps of the writer. `StoreLocked` lists the states in which the writer
has the write lock of the store. `WriteTable` also runs under it; as the file
it creates is named by nothing yet, when the lock is taken before it does not
matter to a reader. `seen` is a history variable: all values the key had
since the call.

### SkipList, BlockTable, ManifestText: data structures

`SkipList` has the towers as a next function per level; `Add` takes the height that
`generateLevel` draws as a parameter. `BlockTable` has a file as an index and blocks of
slots with a checksum, which matches the slots it was taken of and no others; `TableGet` is the
two binary searches, `Bits` the double hash with its wrap-around (`WordSize` stands for 2^32).
`ManifestText` has the manifest as its lines, written and parsed; quoting is left out, as
`%q` and `Unquote` are inverse.

### DataPath: one operation at a time

`Put`, `Flush`, the steps of a merge and `Reopen` on these structures, with nothing else
going on. `StartMerge`, `MergeEntry` and `FinishMerge` are `compactSSTables` entry by entry:
readers that cross block boundaries, the heap by `Less`, chunks that fill up. `Damage` changes
a value on a block or cuts a file short; `StartFails` and `MergeFails` are what a merge does
then, and `Lookup` goes on to the next table as `getKey` does. `Engine` takes for granted
what this module shows: that a table answers for its entries, and that the loop computes
`Merged`.

### KVStore: the promise

A map, at most one pending write, and a flag that says if the store is up. A
write commits atomically, may be rejected where the constant says so, and a
crash may or may not execute the pending one. The refinement maps the map to what
`Get` answers (`View`), the pending write to `op`, and `up` to `pc # "down"`.

### Validation: the programs around the engine

`NextStep` is `gen` together with the loop of `client`; `Send`, `SendWithoutBody`,
`Refused`, `Timeout`, `Retry`, `GiveUp` and `Answer` are one step of it with `doWithRetry`.
`HandleGet`, `Lock`, `HandleWrite` and `Drop` are the handlers of `server`, whose engine is
a `KVStore`: a handler whose client has left keeps waiting for `writeMu` and may get it
after a later request. `SendWithoutBody` is a detail of the code: `req.Clone` shares the
reader of the body, so a PUT that is repeated after its body was sent has none and fails.
`possible` and `alone` are history variables: the values the steps so far allow each
key to have, and whether the current write has its key to itself.

### Definitions that no specification uses

`<Name>_<bug>` is `<Name>` with a defect that a change of the code could bring
(`WalSync_skipped`, `Merged_oldestWins`). Put in the place of `<Name>`, each makes
TLC find a violation of one property; they document what the property is sensitive to.

## 3. Runs

Every run finishes within five minutes with two workers.

| run | question | properties |
|---|---|---|
| `engine_crash` | What does a restart find when a crash separates any two steps, sidecars included? Do writes and flushes come to an end? | `TypeOK`, `CrashSafe`, `PublishedTablesDurable`, `LogRebuildsMemTable`, `ManifestMatchesMemory`, `LevelOneSorted`, `RecoveryInv`, `FiltersSound`, `LiveTablesKept`, `ImplementsKVStore`, `WriteReturns`, `FlushCompletes` |
| `faults_refine` | What do errors, crashes after them and entries no table can hold mean to callers? Tables of several keys. | `LevelOneSorted`, `FiltersSound`, `CrashSafe`, `FaultInv`, `BloomInv`, `ImplementsRejectingKVStore` |
| `faults_errors` | Does any error path disturb readers, or keep the lock? | `ReadersUndisturbed`, `WriteReturns` |
| `reads` | Concurrent `Get`: its answers, and its turn at the lock | `ReadTypeOK`, `GetLinearizable`, `GetReturns` |
| `datapath` | Do the data structures do, together, what `Engine` takes for granted? What does damage cost? | `LookupsAgree`, `SkipListSound`, `MergeEmitsMerged`, `ManifestRoundTrips`, `MergeEnds` |
| `validation` | Which answers may the client get, with time-outs, retries and restarts? Does each step end? | `AnswersExplained`, `StepEnds` |

Six more runs are expected to end in a violation; they are disagreements
between the code and what its comments and tests say:

| run | property | what happens |
|---|---|---|
| `engine_stuck_flush` | `MemTableFitsTable` | A crash leaves a full MemTable in the log; the count passes `FLUSH_THRESHOLD` unseen, and nothing is ever flushed again (`engine.go:130`). |
| `engine_stuck_compaction` | `LevelZeroCompacts` | A crash between flush and compaction; the next flush passes `COMPACTION_THRESHOLD` (`engine.go:155`). |
| `engine_unstorable` | `FlushCompletes` | `Put("key", "")` is acknowledged and makes every flush fail (`block_based_table.go:93`). |
| `engine_unreadable` | `LogRebuildsMemTable` | A value that is not UTF-8 is acknowledged, and the log stops at its record (`wal.go:165`). |
| `faults_torn_log` | `CrashSafe` | Records appended after a torn one share its line and are lost (`wal.go:73`). |
| `faults_install_sync` | `CrashSafe` | The directory sync of a compaction's manifest fails; the tables that manifest names are removed (`compaction.go:224`). |

`faults_refine` therefore leaves out the faults `tornCrash`, `tornAppend` and
`installSync`. It also leaves out `appendSync`: a record that reached the file before
an error may come back at the next restart although `Put` did not apply it. No document
says whether it must not, so it is a hazard and not a finding. The same holds of
`stat`: a compaction that cannot stat a table forgets it. `faults_errors` has all kinds;
its `ReadersUndisturbed` allows a forgotten table to take its keys along, and nothing else.

**Bounds.** Two keys in the runs of the engine, three with `FLUSH_THRESHOLD` 2 in `faults_refine`;
one or two values and tombstones; one reader, since readers share nothing with one
another and each is judged alone. `FLUSH_THRESHOLD` is 1 to 3 for 63 * 31 = 1953,
`COMPACTION_THRESHOLD` is 2 for 5. What matters is that a table can shadow another, that a
key can be deleted and written again, that a compaction has both level-0 and level-1 inputs
and more than one output, that its last chunk is not full, and that numbers are
reused by tables of other keys: all occur within two compactions. `MaxTables` bounds the table
numbers and `MaxLog` the log; the guard `Room` lets a write start only when both
suffice for its flush and its compaction, so that nothing inside an
operation is cut off. When orphans of crashes have used up the numbers, `Room` stays
false and no further write starts.

`datapath` has four keys, towers of up to two levels, MemTables and chunks of three, blocks and
an index of two: a table has two blocks and the last is not full, and a search meets every
boundary. `Workload` gives the writes before each of four flushes (with values that
differ by flush, and deletes), which call for two merges, the second of them with inputs on both
levels and two outputs. `DamagedAfter` lets the damage happen after each flush, to one file at a
time. Filters have five bits and the word size is 8, with hashes that overlap and wrap around.
`validation` has one key (steps on other keys do not touch it), two values, two attempts for the
five of `doWithRetry`, and three requests at a time in the server: the current one, the
first attempt of it, and one of an earlier step. TLC checks deadlock in every run.

**Fairness.** `FairSpec` is weakly fair to the goroutine that holds `writeMu` (it is
never blocked for good: readers give the store lock back after one lookup) and to
the restart. `FairReadSpec` adds weak fairness of readers between locks, and strong
fairness of `ReadStore`: the store lock is released again and again but not for good,
and Go's `RWMutex` wakes waiting readers when a writer unlocks, before another may lock.
Nothing assumes that writes arrive. A fault is a step of the same goroutine;
`FairFaultySpec` and `FairBloomSpec` are fair to the operation going on, not to its success.
`FairSpec` of `DataPath` is weakly fair to the merge, which runs in the goroutine
of the `Put` that filled the MemTable. `FairSpec` of `Validation` is weakly fair to the
client, to the server's handlers together (some handler that can move does) and to the
restart; it does not assume that a time-out ever happens.

## 4. Proofs

For every set of integer keys and of values, every pair of positive
thresholds and all bounds, for every size of blocks and index and every height of
towers, TLAPS checks:

| theorem | of | property |
|---|---|---|
| `StoreInvariant` | `EngineProofs` | `StoreInv` |
| `TypeCorrect` | | `TypeOK` |
| `TablesDurable` | | `PublishedTablesDurable` |
| `ManifestAgrees` | | `ManifestMatchesMemory` |
| `LiveTablesStay` | | `LiveTablesKept` |
| `SafetyInvariant` | | `SafetyInv` |
| `LevelOneStaysSorted` | | `LevelOneSorted` |
| `RecoveryInvariant` | | `RecoveryInv` |
| `LogRebuilds` | | `LogRebuildsMemTable`, if `Unreadable = {}` |
| `EngineIsCrashSafe` | | `CrashSafe`, if `Unreadable = {}` |
| `EngineImplementsKVStore` | | `ImplementsKVStore`, if `Unreadable = {}` |
| `ReadInvariant` | `EngineReadsProofs` | the inductive invariant of the readers |
| `ReadsTypeCorrect` | | `ReadTypeOK` |
| `ReadsLinearizable` | | `GetLinearizable` |
| `FaultyTablesInvariant` | `EngineFaultsProofs` | `FaultTablesInv`, without `installSync` |
| `FaultyTypeCorrect` | | `TypeOK`, without `installSync` |
| `FaultyLevelOneSorted` | | `LevelOneSorted`, without `installSync` |
| `ReadersStayUndisturbed` | | `ReadersUndisturbed`, without `installSync` |
| `HarmlessFaultsInvariant` | | `FaultTablesInv` and `FaultLogInv`, harmless failures |
| `FaultyInvariant` | | `FaultInv` |
| `HarmlessFaultsAreCrashSafe` | | `CrashSafe`, harmless failures |
| `FaultyEngineImplementsKVStore` | | `ImplementsRejectingKVStore`, harmless failures |
| `BloomsRefineFaults` | `EngineBloomsProofs` | `BloomSpec` implies `FaultySpec` |
| `BloomsRefineEngine` | | `BloomSpec` implies `Spec`, if nothing fails |
| `BloomsKeepLevelOneSorted` | | `LevelOneSorted`, without `installSync` |
| `BloomsAreCrashSafe` | | `CrashSafe`, harmless failures |
| `BloomsImplementKVStore` | | `ImplementsRejectingKVStore`, harmless failures |
| `BloomsInvariant` | | `FaultTablesInv` and `BloomInv`, without `installSync` |
| `FiltersNeverDeny` | | `FiltersSound`, without `installSync` |
| `SkipListIsMap` | `DataPathProofs` | `Add` and `ListGet` are those of a map |
| `EntriesAreTheMap` | | `Entries` is that map, in the order of its keys |
| `TableGetFindsWritten` | | `TableGet` finds what `BlockFile` wrote, and no more |
| `TableFileAnswersForWritten` | | so does a lookup through filter and index |
| `MemTableTowersSound` | | `SkipListSound` |
| `MemTableIsCurrent` | | what the MemTable answers was written last |
| `FullMemTableFits` | | a full MemTable of storable data is `Writable` |
| `FlushLosesNothing` | | the new table answers as the MemTable did |
| `ManifestKeepsLevels` | | `ManifestRoundTrips` |
| `MergeWritesMerged` | `MergeProofs` | `MergeEmitsMerged` |
| `LookupsFindLastWrite` | | `LookupsAgree` |
| `ExplainedInvariant` | `ValidationProofs` | `Explained` |
| `AnswersAreExplained` | | `AnswersExplained` |

**Assumptions.** Keys are finitely many integers; sentinels differ from data;
thresholds are positive; bounds are natural numbers (`KeysAreOrdered`,
`SentinelsDiffer`, `UnfitDataIsData`, `SentinelsAreNoData`, `ThresholdsArePositive`,
`BoundsAreNaturals`; for `Validation`, whose theorems hold for every number of attempts
and of requests, `SentinelsDiffer`, `CountsArePositive` and `NoneIsNoWrite`; for the data
structures also `SomeLevel`, `HeadAndNilAreNoKeys`, `BlocksHaveRoom`, `OutcomesDiffer`,
`ThresholdsFitTables`, `WorkloadIsWrites`, `GarbageIsNoData` and `NothingIsNoData`; TLC evaluates them in every run). `Unreadable = {}` cannot be
dropped: `engine_unreadable` is the counterexample. `Unstorable` is arbitrary.

"Without `installSync`" is every set of failures but that of the directory sync after a
compaction's manifest: it removes tables that a manifest names, `faults_install_sync` shows
what follows, and the invariant about tables does not survive it. Torn records, failed log
syncs and forgotten tables are among the others. "Harmless failures" is every
subset of `HarmlessFaults`, together with `Unreadable = {}`; each kind left out can bring
back or lose a write (see the end of section 3), so that `CrashSafe` is false with it.

**The invariant.** `CrashSafe` is about all crashes that could happen now, and
does not survive a step by itself. `EngineInv` strengthens it in three parts.
`StoreInv` is about files: where manifest and memory stand inside a
replacement (`ManifestInTransit`), that the table to be published is complete and
durable (`FlushedTable`), that inputs of a compaction are all named and outputs are not
inputs (`CompactionInputs`, `CompactionOutputs`). `DataInv` is about contents: a
flushed MemTable is the newest level-0 table until it is cleared, level 1 is a
sorted run, and at any point of the merge the chunks answer for exactly the keys
they took over, with what the merge gives them (`MergeProgress`). `LogMatches` says
which prefix of the log stands for the MemTable in every state. From these,
each combination of durable and cached objects a crash can leave is shown to give
the same answers as before it, or those after the pending write.

`LSMTablesProofs` has the lemmas on the operators: what `Replay` does with an append,
how `Prune` and `Lowest` work, that the sorted run of chunks answers
like the merge, that the merge answers like the two levels. The refinement proof
cites the invariant and maps each action to a step of `KVStore` or a stutter.

**Failures.** `StoreInv` and `LogMatches` are false after a failure: a flush that fails
after its manifest leaves the manifest naming a table that is gone, or that a crash brings
back; the log repeats what a table already says, or was truncated on one side only. `FaultTablesInv` says
what remains. A manifest names the tables of the level state, perhaps more than once, and besides
only the number the next flush will take (`ManifestsFollow`); if that number may come back with
an old table, the MemTable has all its keys (`MemTableCovers`), because a failed flush
clears nothing; at the start that number is the highest, so that dropping it is the same as
never having published (`Loadable`). With it, no failure can disturb a reader. `FaultLogInv` is about the
answers the log gives together with the tables and not about its text: cached and durable log
`Rebuild` what the MemTable answers, and a table that was left behind is shadowed
by the log or says nothing new (`LogCovers`). From both, whatever a crash leaves
answers like the engine before it, or like it after the pending write; and each
failure is, for `KVStore`, the rejection of a write that had no effect, or a stutter.

**Filters.** The steps of `EngineBlooms` are steps of `EngineFaults` with more variables, or
change sidecars only, so what is proved of the one holds of the other; with no failures they
are steps of `Engine`. `FiltersSound` speaks of filters after any crash and any restart, and
`BloomInv` of the sidecars that decide them: every sidecar that a number has, cached or on the
device, knows all keys of every table this number has or may get back, as long as a manifest
names it or is about to (`SidecarsFit`). A sidecar may stand beside a foreign table only while
nobody names the number. The order of the code makes that so: the sidecar is durable before its table is
renamed, and goes after it.

**Readers.** `GetLinearizable` is about the answer a `Get` has; the invariant
is about one on its way. After a miss in the MemTable, what the tables alone would
answer is a value the key has had since the call: at the miss it is what `Get` would
answer altogether, and while the reader waits it changes only when a flush publishes the
MemTable, to what `Get` answers at that moment. The proof builds on `EngineInv`, because a
compaction that is installed must not change it at all.

**Data structures.** `TowersSound` is inductive as it stands: a search leaves every
level at the last node before its key (`UpdateIsPred`), and a tower linked in there, up
to any height, keeps each level ascending, complete and part of the one below. With what
the keys that were never added look like (`Tidy`), the entries of the list are its map in the
order of the keys, one for each that `size` counts. `LaidOut` says where an entry is in a file: the binary search of the
index finds the only block that may have the key, also where the last block is not full,
and the one in the block finds the only slot; the filter was made of the same keys. `FlushLosesNothing` puts
the two together. `Walk`, `Update` and `Entries` are recursive functions, of which no
induction theorem can be used here: the proofs give a function that solves the
equation, and show by the greatest key at which it could differ that no other does.

**Manifest.** The lines are folded over levels and tables, and read back by a recursion
over the lines. The proof gives the solution of the recursion: after the first lines of a level its
tables so far, after its blank line the whole level (`Parsed`). The invariant needs the shape
of the levels beside the text: their numbers ascend, so that the sort before writing keeps
them, and only level 1 has ranges, because a line of level 0 has no room for one.

**Merge.** `MergeEmitsMerged` relates what was written to the inputs, and its invariant says
where each reader is (`ReaderAt`): it has passed exactly the keys up to the current one.
A reader at an entry has that entry in the heap, one that is at its end has none (`LoopInv`).
So the least item of the heap is the next key of them all, and the first one that `Less`
gives is from the input that `Merged` prefers: level 0 before level 1, a newer table before an
older one. Advancing may cross the end of a block (`Advance`), where the blocks of a file have to be
sorted one after the other and none of them empty (`GoodFile`, `NamedFiles`). The outputs hold what was
written, `FLUSH_THRESHOLD` keys each, and are no inputs (`OutputsGood`, `MergeShape`), so that writing
one, or removing them when the merge is given up, changes no input. Damage fits into
the same invariant: a damaged block does not read back, no reader ever stands in one.

**Lookups.** `LookupsAgree` compares a lookup through MemTable, ranges, filters and files with
the write made last. Of the tables that answer for a key the first in the order of `getKey`
decides (`FirstSays`), and the ranges hide none of them (`RangesFit`). `LookupInv` says of the
tables alone what the property says of the engine: where the MemTable has nothing, they have
the last entry of each key that damage did not cost (`TablesAgree`). A flush puts its table
first; a start may forget the ranges of level 1, which changes no answer (`SameTables`); a
garbled or shortened file stops answering and says nothing new (`DamagedSays`). The merge is the step
that needs more: it ends only after it has read all inputs to their end (`AllInputsRead`), so
no input is damaged, and what its chunks answer together is what the first of the inputs said
(`MergedIsFound`, `SpreadOverChunks`). Hence the last part of the invariant: a named file that passes all
its checks is one that was written (`NamedUntouched`), and as long as keys are lost to damage some
named file is harmed (`Harmed`), so that no merge can end and bury the loss.

**Clients.** `Explained` says that what a key has, and every write still on its
way to it in the server, is possible. Only an acknowledged write narrows what is
possible, and only if it was alone on its key when it started; then whatever is on its
way to the key since is another attempt of the same step, and the key has its value.

**Only model-checked.** Liveness (`WriteReturns`, `FlushCompletes`, `GetReturns`,
`MergeEnds`, `StepEnds`), which is out of the prover's reach. `ReadersUndisturbed` with
`installSync` among the failures, where no restart comes in between (`faults_errors`).

## 5. Not modelled

- `Stat` errors in `pruneLevelsFromDisk` at start-up: beside every crash they multiply
  the states beyond TLC's reach. The same loss is modelled where a compaction prunes.
- `log.Fatal` at start-up when the manifest cannot be read: the server does not start.
- Temporary files left by a crash (nothing looks at them), and `saveLevel0SSTable` with its
  map of entries, which only tests call.
- Padding, page offsets and the JSON of a log record; strings are integers under
  their order.
- Writes that fail inside `Put`, as clients see them: the handler answers 200 all the
  same, and then any later answer would be explained. `Validation` takes an engine
  whose writes succeed.
- The parser of the step file and the comparison `client` prints; the SCAN lines of
  `gen`, which `client` does not accept; HTTP paths and status texts; metrics, logging.

## 6. Plan

Done: the write path with its invariants and proofs; I/O errors and bloom sidecars, both
with proofs for every failure or every harmless one; concurrent reads with the
proof of linearizability; skip list and table files with the proof of what a flush writes,
manifest text and merge loop; client and server with the proof about answers.

The merge loop, the manifest and the lookups are proved as well. Left is one proof:

1. `ReadersUndisturbed` with `installSync` until the next restart: the level state in memory
   stays right, the manifest does not.
