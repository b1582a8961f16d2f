------------------------- MODULE EngineBloomsProofs -------------------------
(***************************************************************************)
(* Theorems about the bloom filters, for every set of keys and values,     *)
(* every pair of thresholds and every bound: the engine with filters takes *)
(* only steps of the engine without, and no filter ever hides a key,       *)
(* whatever fails except the directory sync after a compaction's manifest. *)
(***************************************************************************)
EXTENDS EngineBloomsInv, EngineFaultsProofs

(***************************************************************************)
(* The engine below the filters.                                           *)
(***************************************************************************)
\* What filters and sidecars add to a step leaves the rest of it as it was.
LEMMA BloomStepIsFaultyStep ==
  ASSUME [BloomNext]_allVars
  PROVE  [FaultyNext]_vars
<1>1. CASE BeginWrite \/ CrashBoth \/ RestartBoth
  BY <1>1 DEF BeginWrite, CrashBoth, RestartBoth, FaultyNext
<1>2. CASE WriteSidecar \/ SidecarSync
  BY <1>2 DEF WriteSidecar, SidecarSync
<1>3. CASE TableAfterSidecar \/ SyncBoth \/ Register \/ Reload \/ PruneBoth \/ Beside
  BY <1>3 DEF TableAfterSidecar, SyncBoth, Register, Reload, PruneBoth, Beside,
     FaultyNext, FaultyStep, WriterStep, Flush, Compact
<1>4. CASE RemoveBoth
  BY <1>4 DEF RemoveBoth, FaultyNext, FaultyStep, WriterStep, Flush, Compact
<1>5. CASE UNCHANGED allVars
  BY <1>5 DEF allVars
<1> QED
  BY <1>1, <1>2, <1>3, <1>4, <1>5 DEF BloomNext, BloomStep

\* Whatever holds of the engine with failing file operations holds of the one
\* with bloom filters: no step waits for a filter or is changed by one.
THEOREM BloomsRefineFaults == BloomSpec => FaultySpec
<1>1. BloomInit => Init
  BY DEF BloomInit
<1>2. [BloomNext]_allVars => [FaultyNext]_vars
  BY BloomStepIsFaultyStep
<1> QED
  BY <1>1, <1>2, PTL DEF BloomSpec, FaultySpec

\* Where nothing fails it takes only steps of Engine, so that every theorem about
\* Engine holds beside sidecars and filters too.
THEOREM BloomsRefineEngine ==
  ASSUME Faults = {}
  PROVE  BloomSpec => Spec
<1>1. \A kind, at : ~Fails(kind, at)
  BY DEF Fails
<1>2. ~(LogFault \/ FlushFault \/ CompactFault \/ CompactionForgets \/ CrashTears)
  BY <1>1 DEF LogFault, AppendFails, AppendTears, AppendSyncFails, FlushFault, SaveFails,
     SaveSyncFails, PublishFails, PublishSyncFails, TruncateFails, TruncateSyncFails,
     CompactFault, MergeFails, ChunkSyncFails, InstallFails, InstallSyncFails, RewriteFails,
     RemoveFails, CompactionForgets, CrashTears
<1>3. [FaultyNext]_vars => [Next]_vars
  BY <1>2 DEF FaultyNext, FaultyStep, Next
<1> QED
  BY <1>3, BloomsRefineFaults, PTL DEF FaultySpec, Spec

\* So the engine with bloom filters is crash safe under harmless failures,
THEOREM BloomsAreCrashSafe ==
  ASSUME Faults \subseteq HarmlessFaults, Unreadable = {}
  PROVE  BloomSpec => []CrashSafe
BY BloomsRefineFaults, HarmlessFaultsAreCrashSafe, PTL

\* is a map whose writes may be rejected,
THEOREM BloomsImplementKVStore ==
  ASSUME Faults \subseteq HarmlessFaults, Unreadable = {}
  PROVE  BloomSpec => ImplementsRejectingKVStore
BY BloomsRefineFaults, FaultyEngineImplementsKVStore, PTL

\* and keeps level 1 sorted with exact ranges.
THEOREM BloomsKeepLevelOneSorted ==
  ASSUME "installSync" \notin Faults
  PROVE  BloomSpec => []LevelOneSorted
BY BloomsRefineFaults, FaultyLevelOneSorted, PTL

-----------------------------------------------------------------------------
(***************************************************************************)
(* Steps that write no sidecar.                                            *)
(***************************************************************************)
Writing == {"tableSync", "publish", "publishSync"}
Merging == {"merge", "chunkSync", "installSync"}

\* The step leaves every table its sidecars or takes them away.
Shrinks == \A l \in 0..1, n \in Idx : SidecarsOf(l, n)' \subseteq SidecarsOf(l, n)

\* While the tables that matter keep their contents, they keep fitting sidecars.
LEMMA FitsPassedOn ==
  ASSUME FaultTablesInv, SidecarsFit, Shrinks, pc # "down", pc' # "down",
         UNCHANGED <<levels, manifestVars>>, NextUnnamed \/ LeftBehind' \subseteq LeftBehind,
         \A l \in 0..1, n \in Idx : NamesTable(levels, l, n) => files'[l][n] = files[l][n],
         pc' \in Writing => pc \in Writing /\ files' = files,
         pc' \in Merging => \/ pc \in Merging /\ files' = files /\ job'.new = job.new
                            \/ job'.new = <<>>
  PROVE  SidecarsFit'
<1> USE DEF SidecarsFit, Fits, Shrinks
<1>1. levels' = levels /\ manifest' = manifest /\ manifestSynced' = manifestSynced
      /\ NewL0' = NewL0
  BY DEF manifestVars, NewL0
<1>2. \A l \in 0..1, n \in Idx :
        NamesTable(levels', l, n) => Fits(l, n, files[l][n])'
  BY <1>1
<1>3. pc' \in Writing => Fits(0, NewL0, files[0][NewL0])'
  <2> SUFFICES ASSUME pc' \in Writing PROVE Fits(0, NewL0, files[0][NewL0])'
    OBVIOUS
  <2>1. NewL0 \in Idx /\ files' = files
    BY DEF Writing, FaultTablesInv, FlushHasNumber
  <2>2. Fits(0, NewL0, files[0][NewL0])
    BY DEF Writing
  <2> QED
    BY <1>1, <2>1, <2>2
<1>4. pc' \in Merging => \A n \in Numbers(job'.new) : Fits(1, n, files[1][n])'
  <2> SUFFICES ASSUME pc' \in Merging, NEW n \in Numbers(job'.new)
               PROVE  Fits(1, n, files[1][n])'
    OBVIOUS
  <2>1. pc \in Merging /\ files' = files /\ job'.new = job.new
    BY DEF Numbers
  <2>2. n \in Idx /\ Fits(1, n, files[1][n])
    BY <2>1 DEF Merging, FaultTablesInv, OutputsApart
  <2> QED
    BY <2>1, <2>2
<1>5. \A m \in {manifest, manifestSynced} : NamesTable(m, 0, NewL0) =>
        \A t \in LeftBehind' : Fits(0, NewL0, t)'
  <2>1. \A m \in {manifest, manifestSynced} : NamesTable(m, 0, NewL0) => NewL0 \in Idx
    BY DEF FaultTablesInv, TypeOK, NamesTable, Levels
  <2> QED
    BY <1>1, <2>1 DEF NextUnnamed
<1> QED
  BY <1>1, <1>2, <1>3, <1>4, <1>5 DEF Writing, Merging

\* Filters in memory stay while the level state and its files do.
LEMMA FiltersPassedOn ==
  ASSUME FiltersFit, filters' = filters,
         \A l \in 0..1, n \in Idx : NamesTable(levels, l, n) =>
           NamesTable(levels', l, n) /\ files'[l][n] = files[l][n]
  PROVE  FiltersFit'
BY DEF FiltersFit

-----------------------------------------------------------------------------
(***************************************************************************)
(* What each step does to sidecars.                                        *)
(***************************************************************************)
SidecarTypes == sidecars \in Sidecars /\ sidecarsSynced \in Sidecars /\ filters \in Sidecars

\* Taking sidecars away leaves the others.
LEMMA WithoutTakesAway ==
  ASSUME NEW sc \in Sidecars, NEW D
  PROVE  /\ Without(sc, D) \in Sidecars
         /\ \A l \in 0..1, n \in Idx : Without(sc, D)[l][n] \in {sc[l][n], NoFile}
BY DEF Without, Sidecars

\* A table's sidecar is written under its number, beside no table that a
\* manifest names.
LEMMA NextIsTyped ==
  ASSUME TypeOK, FlushHasNumber, WritesTable
  PROVE  /\ NextTable.level \in 0..1 /\ NextTable.idx \in Idx
         /\ NextTable.keys \in SUBSET Key
         /\ NextTable.level = 0 => pc = "writeTable" /\ NextTable.idx = NewL0
                                   /\ NextTable.keys = KeysIn(memTable)
         /\ NextTable.level = 1 => pc = "merge" /\ NextTable.idx = Min(FreeL1)
                                   /\ files[1][NextTable.idx] = NoFile
                                   /\ NextTable.keys = Lowest(Unwritten, FLUSH_THRESHOLD)
<1>1. CASE pc = "writeTable"
  <2>1. NextTable = [level |-> 0, idx |-> NewL0, keys |-> KeysIn(memTable)]
    BY <1>1 DEF NextTable
  <2>2. NewL0 \in Idx /\ KeysIn(memTable) \in SUBSET Key
    BY <1>1 DEF FlushHasNumber, KeysIn
  <2> QED
    BY <1>1, <2>1, <2>2
<1>2. CASE pc # "writeTable"
  <2>1. pc = "merge" /\ FreeL1 # {}
    BY <1>2 DEF WritesTable
  <2>2. NextTable = [level |-> 1, idx |-> Min(FreeL1),
                     keys |-> Lowest(Unwritten, FLUSH_THRESHOLD)]
    BY <1>2 DEF NextTable
  <2>3. Min(FreeL1) \in Idx /\ files[1][Min(FreeL1)] = NoFile
    BY <2>1, FreeNumber DEF FreeL1
  <2>4. Lowest(Unwritten, FLUSH_THRESHOLD) \in SUBSET Key
    BY UnwrittenAreKeys DEF Lowest
  <2> QED
    BY <2>1, <2>2, <2>3, <2>4
<1> QED
  BY <1>1, <1>2

\* Only the rename of a new sidecar gives a table another one.
LEMMA SidecarsShrink ==
  ASSUME SidecarTypes, [BloomNext]_allVars, ~WriteSidecar
  PROVE  Shrinks /\ sidecars' \in Sidecars /\ sidecarsSynced' \in Sidecars
<1> USE DEF SidecarTypes
<1>1. CASE SidecarSync \/ SyncBoth
  <2>1. sidecars' = sidecars
    BY <1>1 DEF SidecarSync, SyncBoth
  <2>2. PICK l : sidecarsSynced' = [sidecarsSynced EXCEPT ![l] = sidecars[l]]
    BY <1>1 DEF SidecarSync, SyncBoth
  <2>3. /\ sidecarsSynced' \in Sidecars
        /\ \A i \in 0..1, n \in Idx : sidecarsSynced'[i][n] \in {sidecarsSynced[i][n], sidecars[i][n]}
    BY <2>2 DEF Sidecars
  <2> QED
    BY <2>1, <2>3 DEF Shrinks, SidecarsOf
<1>2. CASE PruneBoth \/ RemoveBoth \/ RestartBoth
  <2>1. /\ sidecarsSynced' = sidecarsSynced
        /\ \E D : sidecars' = sidecars \/ sidecars' = Without(sidecars, D)
    BY <1>2 DEF PruneBoth, RemoveBoth, RestartBoth
  <2>2. /\ sidecars' \in Sidecars
        /\ \A i \in 0..1, n \in Idx : sidecars'[i][n] \in {sidecars[i][n], NoFile}
    BY <2>1, WithoutTakesAway
  <2> QED
    BY <2>1, <2>2 DEF Shrinks, SidecarsOf
<1>3. CASE CrashBoth
  <2>1. PICK S : sidecars' = [l \in 0..1 |-> [n \in Idx |->
                   IF <<l, n>> \in S THEN sidecarsSynced[l][n] ELSE sidecars[l][n]]]
    BY <1>3 DEF CrashBoth
  <2>2. /\ sidecars' \in Sidecars
        /\ \A i \in 0..1, n \in Idx : sidecars'[i][n] \in {sidecarsSynced[i][n], sidecars[i][n]}
    BY <2>1 DEF Sidecars
  <2>3. sidecarsSynced' = sidecars'
    BY <1>3 DEF CrashBoth
  <2> QED
    BY <2>2, <2>3 DEF Shrinks, SidecarsOf
<1>4. CASE \/ BeginWrite \/ TableAfterSidecar \/ Register \/ Reload \/ Beside
           \/ UNCHANGED allVars
  <2>1. sidecars' = sidecars /\ sidecarsSynced' = sidecarsSynced
    BY <1>4 DEF BeginWrite, TableAfterSidecar, Register, Reload, Beside, allVars,
       bloomVars, sidecarVars
  <2> QED
    BY <2>1 DEF Shrinks, SidecarsOf
<1> QED
  BY <1>1, <1>2, <1>3, <1>4 DEF BloomNext, BloomStep

\* Each other step leaves what is in hand alone, or starts anew.
LEMMA InHandStep ==
  ASSUME FaultTablesInv, SidecarTypes, SidecarInHand, [BloomNext]_allVars
  PROVE  SidecarInHand'
<1>1. CASE WriteSidecar
  <2>1. /\ WritesTable /\ UNCHANGED vars /\ side' = "written"
        /\ sidecars' = [sidecars EXCEPT ![NextTable.level] =
                          [@ EXCEPT ![NextTable.idx] = NextTable.keys]]
    BY <1>1 DEF WriteSidecar
  <2>2. NextTable' = NextTable /\ WritesTable' = WritesTable
    BY <2>1 DEF vars, volatileVars, fileVars, NextTable, WritesTable, NewL0, FreeL1, Unwritten
  <2>3. NextTable.level \in 0..1 /\ NextTable.idx \in Idx
    BY <2>1, NextIsTyped DEF FaultTablesInv
  <2> QED
    BY <2>1, <2>2, <2>3 DEF SidecarInHand, SidecarTypes, Sidecars
<1>2. CASE SidecarSync
  <2>1. /\ UNCHANGED vars /\ side = "written" /\ side' = "synced" /\ sidecars' = sidecars
        /\ sidecarsSynced' = [sidecarsSynced EXCEPT ![NextTable.level] = sidecars[NextTable.level]]
    BY <1>2 DEF SidecarSync
  <2>2. NextTable' = NextTable /\ WritesTable' = WritesTable
    BY <2>1 DEF vars, volatileVars, fileVars, NextTable, WritesTable, NewL0, FreeL1, Unwritten
  <2>3. NextTable.level \in 0..1 /\ NextTable.idx \in Idx
    BY <2>1, NextIsTyped DEF FaultTablesInv, SidecarInHand
  <2> QED
    BY <2>1, <2>2, <2>3 DEF SidecarInHand, SidecarTypes, Sidecars
<1>3. CASE TableAfterSidecar \/ RemoveBoth \/ CrashBoth
  BY <1>3 DEF TableAfterSidecar, RemoveBoth, CrashBoth, SidecarInHand
<1>4. CASE BeginWrite \/ SyncBoth \/ Register \/ Reload \/ PruneBoth \/ RestartBoth \/ Beside
  <2>1. side' = side
    BY <1>4 DEF BeginWrite, SyncBoth, Register, Reload, PruneBoth, RestartBoth, Beside, bloomVars
  <2>2. ~WritesTable
    BY <1>4 DEF BeginWrite, SyncBoth, Register, Reload, PruneBoth, RestartBoth, Beside,
       Write, Begin, TableSync, ChunkSync, PublishSync, InstallSync, StartCompaction,
       Restart, Log, WalAppend, WalSync, Apply, Publish, WalTruncate, TruncateSync,
       MemClear, NoCompaction, Install, WritesTable
  <2> QED
    BY <2>1, <2>2 DEF SidecarInHand
<1>5. CASE UNCHANGED allVars
  <2>1. /\ side' = side /\ sidecars' = sidecars /\ sidecarsSynced' = sidecarsSynced
        /\ UNCHANGED vars
    BY <1>5 DEF allVars, bloomVars, sidecarVars
  <2>2. NextTable' = NextTable /\ WritesTable' = WritesTable
    BY <2>1 DEF vars, volatileVars, fileVars, NextTable, WritesTable, NewL0, FreeL1, Unwritten
  <2> QED
    BY <2>1, <2>2 DEF SidecarInHand
<1> QED
  BY <1>1, <1>2, <1>3, <1>4, <1>5 DEF BloomNext, BloomStep

-----------------------------------------------------------------------------
(***************************************************************************)
(* Sidecars fit their tables.                                              *)
(***************************************************************************)
\* Steps that neither write a table nor change what manifests name.
LEMMA QuietFits ==
  ASSUME FaultTablesInv, "installSync" \notin Faults, SidecarTypes, SidecarsFit, pc # "down",
         \/ BeginWrite \/ SidecarSync \/ SyncBoth \/ PruneBoth \/ RemoveBoth
         \/ Beside /\ ~Publish /\ ~Install
         \/ UNCHANGED allVars
  PROVE  SidecarsFit'
<1>1. [BloomNext]_allVars /\ ~WriteSidecar
  BY DEF BloomNext, BloomStep, BeginWrite, SidecarSync, SyncBoth, PruneBoth,
     RemoveBoth, Beside, bloomVars, allVars, WriteSidecar
<1>2. Shrinks /\ [FaultyNext]_vars
  BY <1>1, SidecarsShrink, BloomStepIsFaultyStep
<1>3. /\ pc' # "down" /\ UNCHANGED <<levels, manifestVars>>
      /\ pc' \in Writing => pc \in Writing /\ files' = files
      /\ pc' \in Merging => \/ pc \in Merging /\ files' = files /\ job'.new = job.new
                            \/ job'.new = <<>>
  <2> USE DEF Writing, Merging
  <2>1. CASE BeginWrite \/ Log \/ Apply \/ WalTruncate \/ TruncateSync \/ MemClear
    BY <2>1 DEF BeginWrite, Write, Begin, Log, WalAppend, WalSync, Apply, WalTruncate,
       TruncateSync, MemClear, Unlock
  <2>2. CASE NoCompaction \/ SyncBoth
    BY <2>2 DEF NoCompaction, SyncBoth, TableSync, ChunkSync, Unlock
  <2>3. CASE PruneBoth
    BY <2>3 DEF PruneBoth, StartCompaction
  <2>4. CASE RemoveBoth
    <3>1. CASE RemoveInputs \/ RemoveFails
      BY <3>1 DEF RemoveInputs, RemoveFails, Unlock
    <3>2. CASE RefuseTable \/ LogFault \/ FlushFault
      BY <3>2 DEF RefuseTable, LogFault, AppendFails, AppendTears, AppendSyncFails,
         FlushFault, SaveFails, SaveSyncFails, PublishFails, PublishSyncFails,
         TruncateFails, TruncateSyncFails, Fails, Unlock
    <3>3. CASE CompactFault /\ ~RemoveFails
      BY <3>3 DEF CompactFault, MergeFails, ChunkSyncFails, InstallFails,
         InstallSyncFails, RewriteFails, Abandon, Fails, Unlock
    <3> QED
      BY <2>4, <3>1, <3>2, <3>3 DEF RemoveBoth
  <2>5. CASE SidecarSync \/ UNCHANGED allVars
    BY <2>5 DEF SidecarSync, allVars, vars, volatileVars, fileVars
  <2> QED
    BY <2>1, <2>2, <2>3, <2>4, <2>5 DEF Beside
<1>4. NextUnnamed \/ LeftBehind' \subseteq LeftBehind
  <2>1. NewL0' = NewL0
    BY <1>3 DEF NewL0
  <2>2. CASE files' = files /\ filesSynced' = filesSynced
    BY <2>1, <2>2 DEF LeftBehind
  <2>3. CASE pc \in {"maybeCompact", "rewrite", "merge", "chunkSync", "remove"}
    BY <2>3, UnnamedIfFlushed DEF Flushed
  <2>4. CASE TableSync \/ PublishFails \/ PublishSyncFails
    <3>1. NewL0 \in Idx /\ files \in Files /\ filesSynced \in Files
      BY <2>4 DEF TableSync, PublishFails, PublishSyncFails, Fails, FaultTablesInv,
         FlushHasNumber, TypeOK
    <3> QED
      BY <2>1, <2>4, <3>1 DEF TableSync, PublishFails, PublishSyncFails, RemoveNewTable,
         LeftBehind, Files
  <2> QED
    <3>1. CASE BeginWrite \/ SidecarSync \/ UNCHANGED allVars
      BY <2>2, <3>1 DEF BeginWrite, Write, Begin, SidecarSync, allVars, vars, fileVars
    <3>2. CASE Beside /\ ~Publish /\ ~Install
      BY <2>2, <3>2 DEF Beside, Log, WalAppend, WalSync, Apply, WalTruncate, TruncateSync,
         MemClear, NoCompaction, fileVars
    <3>3. CASE SyncBoth \/ PruneBoth
      BY <2>3, <2>4, <3>3 DEF SyncBoth, ChunkSync, PruneBoth, StartCompaction
    <3>4. CASE RefuseTable \/ LogFault \/ FlushFault
      BY <2>2, <2>4, <3>4 DEF RefuseTable, LogFault, AppendFails, AppendTears,
         AppendSyncFails, FlushFault, SaveFails, SaveSyncFails, TruncateFails,
         TruncateSyncFails, fileVars
    <3>5. CASE RemoveInputs \/ CompactFault
      BY <2>3, <3>5 DEF RemoveInputs, CompactFault, MergeFails, ChunkSyncFails,
         InstallFails, InstallSyncFails, RewriteFails, RemoveFails, Fails
    <3> QED
      BY <3>1, <3>2, <3>3, <3>4, <3>5 DEF RemoveBoth
<1>5. \A l \in 0..1, n \in Idx : NamesTable(levels, l, n) => files'[l][n] = files[l][n]
  BY <1>2, <1>3, NamedFilesKept DEF Crash, CrashTears, LoseMemory
<1> QED
  BY <1>2, <1>3, <1>4, <1>5, FitsPassedOn

\* A new sidecar stands beside no table that is named, or beside one whose
\* keys it knows: the one a failed flush left, which the MemTable covers.
LEMMA WriteSidecarFits ==
  ASSUME FaultTablesInv, SidecarTypes, SidecarsFit, WriteSidecar
  PROVE  SidecarsFit'
<1> DEFINE L == NextTable.level
           N == NextTable.idx
           K == NextTable.keys
<1>1. /\ WritesTable /\ UNCHANGED vars /\ sidecarsSynced' = sidecarsSynced
      /\ sidecars' = [sidecars EXCEPT ![L] = [@ EXCEPT ![N] = K]]
  BY DEF WriteSidecar
<1>2. /\ L \in 0..1 /\ N \in Idx
      /\ L = 0 => pc = "writeTable" /\ N = NewL0 /\ K = KeysIn(memTable)
      /\ L = 1 => pc = "merge" /\ files[1][N] = NoFile
  BY <1>1, NextIsTyped DEF FaultTablesInv
<1> HIDE DEF L, N, K
<1>3. \A l \in 0..1, n \in Idx :
        \/ SidecarsOf(l, n)' = SidecarsOf(l, n)
        \/ l = L /\ n = N /\ SidecarsOf(l, n)' \subseteq SidecarsOf(l, n) \cup {K}
  BY <1>1, <1>2 DEF SidecarTypes, Sidecars, SidecarsOf
<1>4. /\ pc' = pc /\ levels' = levels /\ job' = job /\ files' = files /\ memTable' = memTable
      /\ filesSynced' = filesSynced /\ manifest' = manifest /\ manifestSynced' = manifestSynced
      /\ pc \in {"writeTable", "merge"}
  BY <1>1, <1>2 DEF vars, volatileVars, fileVars, manifestVars
<1>5. NewL0' = NewL0 /\ LeftBehind' = LeftBehind
  BY <1>4 DEF NewL0, LeftBehind
<1>6. \A l \in 0..1, n \in Idx : NamesTable(levels, l, n) => Fits(l, n, files[l][n])'
  <2>1. \A l \in 0..1, n \in Idx : NamesTable(levels, l, n) => ~(l = L /\ n = N)
    <3>1. levels \in Levels
      BY DEF FaultTablesInv, TypeOK
    <3>2. ~NamesTable(levels, 0, NewL0)
      BY <3>1, FreshNumber
    <3> QED
      BY <1>2, <3>2 DEF FaultTablesInv, LevelsOnDevice
  <2> QED
    BY <1>3, <1>4, <2>1 DEF SidecarsFit, Fits
<1>7. pc = "merge" => \A n \in Numbers(job.new) : Fits(1, n, files[1][n])'
  <2> SUFFICES ASSUME pc = "merge", NEW n \in Numbers(job.new)
               PROVE  Fits(1, n, files[1][n])'
    OBVIOUS
  <2>1. n \in Idx /\ files[1][n] # NoFile /\ Fits(1, n, files[1][n])
    BY DEF FaultTablesInv, OutputsApart, SidecarsFit
  <2>2. SidecarsOf(1, n)' = SidecarsOf(1, n)
    BY <1>2, <1>3, <2>1
  <2> QED
    BY <1>4, <2>1, <2>2 DEF Fits
<1>8. \A m \in {manifest, manifestSynced} : NamesTable(m, 0, NewL0) =>
        \A t \in LeftBehind : Fits(0, NewL0, t)'
  <2> SUFFICES ASSUME NEW m \in {manifest, manifestSynced}, NamesTable(m, 0, NewL0),
                      NEW t \in LeftBehind
               PROVE  Fits(0, NewL0, t)'
    OBVIOUS
  <2>1. NewL0 \in Idx
    BY DEF FaultTablesInv, TypeOK, NamesTable, Levels
  <2>2. Fits(0, NewL0, t) /\ KeysIn(t) \subseteq KeysIn(memTable)
    BY <1>4 DEF SidecarsFit, FaultTablesInv, MemTableCovers
  <2> QED
    BY <1>2, <1>3, <1>5, <2>1, <2>2 DEF Fits
<1> QED
  BY <1>4, <1>5, <1>6, <1>7, <1>8 DEF SidecarsFit

\* A table appears beside the sidecar that was made for it.
LEMMA TableFits ==
  ASSUME FaultTablesInv, FaultTablesInv', "installSync" \notin Faults,
         SidecarTypes, SidecarInHand, SidecarsFit, TableAfterSidecar
  PROVE  SidecarsFit'
<1>1. /\ side = "synced" /\ sidecars' = sidecars /\ sidecarsSynced' = sidecarsSynced
      /\ WriteTable \/ WriteChunk
  BY DEF TableAfterSidecar, sidecarVars
<1>2. \A l \in 0..1, n \in Idx : SidecarsOf(l, n)' = SidecarsOf(l, n)
  BY <1>1 DEF SidecarsOf
<1>3. /\ WritesTable
      /\ SidecarsOf(NextTable.level, NextTable.idx) \subseteq {NextTable.keys}
  BY <1>1 DEF SidecarInHand, SidecarsOf
<1>4. levels' = levels /\ manifest' = manifest /\ manifestSynced' = manifestSynced
      /\ NewL0' = NewL0
  <2>1. levels' = levels /\ manifest' = manifest /\ manifestSynced' = manifestSynced
    BY <1>1 DEF WriteTable, WriteChunk, manifestVars
  <2> QED
    BY <2>1 DEF NewL0
<1>5. \A l \in 0..1, n \in Idx : NamesTable(levels, l, n) => Fits(l, n, files[l][n])'
  <2>1. [FaultyNext]_vars /\ ~Crash /\ ~CrashTears
    BY <1>1 DEF WriteTable, WriteChunk, FaultyNext, FaultyStep, WriterStep, Flush, Compact,
       Crash, CrashTears, LoseMemory
  <2>2. \A l \in 0..1, n \in Idx : NamesTable(levels, l, n) => files'[l][n] = files[l][n]
    BY <2>1, NamedFilesKept
  <2> QED
    BY <1>2, <2>2 DEF SidecarsFit, Fits
<1>6. CASE WriteTable
  <2>1. /\ pc = "writeTable" /\ pc' = "tableSync" /\ memTable' = memTable
        /\ filesSynced' = filesSynced
        /\ files' = [files EXCEPT ![0] = [@ EXCEPT ![NewL0] = memTable]]
    BY <1>6 DEF WriteTable
  <2>2. NewL0 \in Idx /\ files \in Files
    BY <2>1 DEF FaultTablesInv, FlushHasNumber, TypeOK
  <2>3. /\ files'[0][NewL0] = memTable
        /\ LeftBehind' \subseteq LeftBehind \cup {memTable}
    BY <1>4, <2>1, <2>2 DEF Files, LeftBehind
  <2>4. SidecarsOf(0, NewL0) \subseteq {KeysIn(memTable)}
    BY <1>3, <2>1 DEF NextTable
  <2>5. Fits(0, NewL0, memTable)'
    BY <1>2, <1>4, <2>1, <2>2, <2>4 DEF Fits
  <2>6. \A m \in {manifest, manifestSynced} : NamesTable(m, 0, NewL0) =>
          \A t \in LeftBehind' : Fits(0, NewL0, t)'
    <3> SUFFICES ASSUME NEW m \in {manifest, manifestSynced}, NamesTable(m, 0, NewL0),
                        NEW t \in LeftBehind'
                 PROVE  Fits(0, NewL0, t)'
      OBVIOUS
    <3>1. CASE t \in LeftBehind
      BY <1>2, <1>4, <2>1, <2>2, <3>1 DEF SidecarsFit, Fits
    <3>2. CASE t = memTable
      BY <2>1, <2>5, <3>2
    <3> QED
      BY <2>3, <3>1, <3>2
  <2>7. Fits(0, NewL0, files[0][NewL0])'
    BY <1>4, <2>1, <2>3, <2>5 DEF Fits
  <2> QED
    BY <1>4, <1>5, <2>1, <2>6, <2>7 DEF SidecarsFit
<1>7. CASE WriteChunk
  <2>1. /\ pc = "merge" /\ pc' = "chunkSync" /\ TypeOK
    BY <1>7 DEF WriteChunk, FaultTablesInv
  <2> DEFINE ks == Lowest(Unwritten, FLUSH_THRESHOLD)
             n == Min(FreeL1)
             t == [k \in Key |->
                     IF k \in ks THEN Merged(job.l0, job.l1, files)[k] ELSE None]
             x == [idx |-> n, min |-> Min(ks), max |-> Max(ks)]
  <2>2. /\ n \in Idx /\ files[1][n] = NoFile
        /\ SidecarsOf(1, n) \subseteq {ks}
    <3>1. NextTable = [level |-> 1, idx |-> n, keys |-> ks]
      BY <2>1 DEF NextTable
    <3>2. NextTable.level = 1 /\ NextTable.idx = n /\ NextTable.keys = ks
      BY <3>1
    <3> HIDE DEF n, ks
    <3>3. n \in Idx /\ files[1][n] = NoFile
      BY <1>3, <2>1, <3>2, NextIsTyped DEF FaultTablesInv
    <3> QED
      BY <1>3, <3>2, <3>3
  <2>3. /\ files' = [files EXCEPT ![1] = [@ EXCEPT ![n] = t]]
        /\ job' = [job EXCEPT !.new = Append(job.new, x)]
    BY <1>7 DEF WriteChunk
  <2>4. KeysIn(t) \subseteq ks
    BY DEF KeysIn
  <2>5. x.idx = n
    OBVIOUS
  <2> HIDE DEF n, ks, t, x
  <2>6. /\ files'[1][n] = t
        /\ \A i \in Idx : i # n => files'[1][i] = files[1][i]
    BY <2>1, <2>2, <2>3 DEF TypeOK, Files
  <2>7. job'.new = Append(job.new, x) /\ job.new \in Seq(L1Table)
    BY <2>1, <2>3 DEF TypeOK
  <2>8. \A i \in Numbers(job'.new) : i \in Numbers(job.new) \/ i = n
    <3>1. /\ DOMAIN job'.new = DOMAIN job.new \cup {Len(job.new) + 1}
          /\ job'.new[Len(job.new) + 1] = x
          /\ \A i \in DOMAIN job.new : job'.new[i] = job.new[i]
      BY <2>7
    <3> QED
      BY <2>5, <3>1 DEF Numbers
  <2>9. \A i \in Numbers(job'.new) : Fits(1, i, files[1][i])'
    <3> SUFFICES ASSUME NEW i \in Numbers(job'.new) PROVE Fits(1, i, files[1][i])'
      OBVIOUS
    <3>1. CASE i = n
      <4>1. SidecarsOf(1, i)' \subseteq {ks}
        BY <1>2, <2>2, <3>1
      <4>2. KeysIn(files'[1][i]) \subseteq ks
        BY <2>4, <2>6, <3>1
      <4> QED
        BY <4>1, <4>2 DEF Fits
    <3>2. CASE i \in Numbers(job.new)
      <4>1. i \in Idx /\ i # n /\ Fits(1, i, files[1][i])
        BY <2>1, <2>2, <3>2 DEF FaultTablesInv, OutputsApart, SidecarsFit
      <4> QED
        BY <1>2, <2>6, <4>1 DEF Fits
    <3> QED
      BY <2>8, <3>1, <3>2
  <2>10. NextUnnamed'
    BY <2>1, UnnamedAfter DEF Flushed
  <2> QED
    BY <1>4, <1>5, <2>1, <2>9, <2>10 DEF SidecarsFit, NextUnnamed
<1> QED
  BY <1>1, <1>6, <1>7

\* A manifest names a table whose sidecars fit already.
LEMMA ManifestFits ==
  ASSUME FaultTablesInv, FaultTablesInv', SidecarTypes, SidecarsFit,
         Beside, Publish \/ Install
  PROVE  SidecarsFit'
<1>1. /\ sidecars' = sidecars /\ sidecarsSynced' = sidecarsSynced
      /\ levels' = levels /\ job' = job /\ files' = files /\ filesSynced' = filesSynced
      /\ manifestSynced' = manifestSynced
  BY DEF Beside, bloomVars, sidecarVars, Publish, Install, fileVars
<1>2. NewL0' = NewL0
  BY <1>1 DEF NewL0
<1>3. /\ LeftBehind' = LeftBehind
      /\ \A l, n : SidecarsOf(l, n)' = SidecarsOf(l, n)
  BY <1>1, <1>2 DEF LeftBehind, SidecarsOf
<1>4. \A l, n, t : Fits(l, n, t)' = Fits(l, n, t)
  BY <1>3 DEF Fits
<1>5. \A l \in 0..1, n \in Idx : NamesTable(levels, l, n) => Fits(l, n, files[l][n])'
  BY <1>1, <1>3 DEF SidecarsFit, Fits
<1>6. CASE Publish
  <2>1. pc = "publish" /\ pc' = "publishSync"
    BY <1>6 DEF Publish
  <2>2. /\ LeftBehind \subseteq {files[0][NewL0]}
        /\ Fits(0, NewL0, files[0][NewL0])
    BY <2>1 DEF FaultTablesInv, FlushedTable, LeftBehind, SidecarsFit
  <2>3. Fits(0, NewL0, files[0][NewL0])'
    BY <1>1, <1>2, <1>3, <2>2 DEF Fits
  <2>4. \A t \in LeftBehind' : Fits(0, NewL0, t)'
    BY <1>2, <1>3, <2>2 DEF Fits
  <2> QED
    BY <1>1, <1>5, <2>1, <2>3, <2>4 DEF SidecarsFit
<1>7. CASE Install
  <2>1. pc = "merge" /\ pc' = "installSync"
    BY <1>7 DEF Install
  <2>2. NextUnnamed'
    BY <2>1, UnnamedAfter DEF Flushed
  <2>3. \A n \in Numbers(job.new) : Fits(1, n, files[1][n])'
    BY <1>1, <1>3, <2>1 DEF SidecarsFit, Fits
  <2> QED
    BY <1>1, <1>5, <2>1, <2>2, <2>3 DEF SidecarsFit, NextUnnamed
<1> QED
  BY <1>6, <1>7

\* The level state takes over a table the flush wrote, or the compaction.
LEMMA LevelsFit ==
  ASSUME FaultTablesInv, FaultTablesInv', SidecarTypes, SidecarsFit, Register \/ Reload
  PROVE  SidecarsFit'
<1>1. /\ sidecars' = sidecars /\ sidecarsSynced' = sidecarsSynced /\ files' = files
      /\ pc' \in {"truncate", "remove"}
  BY DEF Register, Reload, sidecarVars, PublishSync, InstallSync, fileVars
<1>2. \A l, n, t : Fits(l, n, t)' = Fits(l, n, t)
  <2>1. \A l, n : SidecarsOf(l, n)' = SidecarsOf(l, n)
    BY <1>1 DEF SidecarsOf
  <2> QED
    BY <2>1 DEF Fits
<1>3. NextUnnamed'
  BY <1>1, UnnamedAfter DEF Flushed
<1>4. ASSUME NEW l \in 0..1, NEW n \in Idx, NamesTable(levels', l, n)
      PROVE  Fits(l, n, files[l][n])
  <2>1. CASE Register
    <3>1. /\ pc = "publishSync"
          /\ levels' = [levels EXCEPT !.l0 = Append(levels.l0, NewL0)]
          /\ levels \in Levels
      BY <2>1 DEF Register, PublishSync, FaultTablesInv, TypeOK
    <3>2. /\ levels'.l0 = Append(levels.l0, NewL0) /\ levels'.l1 = levels.l1
          /\ levels.l0 \in Seq(Idx)
      BY <3>1 DEF Levels
    <3>3. NamesTable(levels, l, n) \/ (l = 0 /\ n = NewL0)
      <4>1. \A i \in DOMAIN levels'.l0 :
              \/ i \in DOMAIN levels.l0 /\ levels'.l0[i] = levels.l0[i]
              \/ levels'.l0[i] = NewL0
        BY <3>2
      <4> QED
        BY <1>4, <3>2, <4>1 DEF NamesTable
    <3> QED
      BY <3>1, <3>3 DEF SidecarsFit
  <2>2. CASE Reload
    <3>1. pc = "installSync" /\ levels' = [l0 |-> <<>>, l1 |-> job.new]
      BY <2>2 DEF Reload, InstallSync
    <3>2. l = 1 /\ n \in Numbers(job.new)
      BY <1>4, <3>1 DEF NamesTable
    <3> QED
      BY <3>1, <3>2 DEF SidecarsFit
  <2> QED
    BY <2>1, <2>2
<1>5. \A l \in 0..1, n \in Idx : NamesTable(levels', l, n) => Fits(l, n, files[l][n])'
  <2>1. \A l, n : SidecarsOf(l, n)' = SidecarsOf(l, n)
    BY <1>1 DEF SidecarsOf
  <2> QED
    BY <1>1, <1>4, <2>1 DEF Fits
<1> QED
  BY <1>1, <1>3, <1>5 DEF SidecarsFit, NextUnnamed

\* What a manifest names, and a crash leaves, fits the sidecars it leaves.
LEMMA CrashFits ==
  ASSUME FaultTablesInv, SidecarTypes, SidecarsFit, CrashBoth, "installSync" \notin Faults
  PROVE  SidecarsFit'
<1>1. /\ pc # "down" /\ pc' = "down" /\ levels' = NoLevels
      /\ manifest' \in {manifest, manifestSynced}
      /\ \E S \in SUBSET Unsynced : files' = FilesAfter(S)
  BY DEF CrashBoth, Crash, CrashTears, Fails, LoseMemory
<1>2. Shrinks
  <2>1. [BloomNext]_allVars /\ ~WriteSidecar
    BY DEF BloomNext, CrashBoth, WriteSidecar
  <2> QED
    BY <2>1, SidecarsShrink
<1>3. PICK S \in SUBSET Unsynced : files' = FilesAfter(S)
  BY <1>1
<1>4. PICK m \in {manifest, manifestSynced} : m = manifest'
  BY <1>1
<1>5. /\ m \in Levels
      /\ \A n \in Idx : NamesTable(m, 0, n) => NamesTable(levels, 0, n) \/ n = NewL0
      /\ \A n \in Idx : NamesTable(m, 1, n) => files'[1][n] = files[1][n]
  BY <1>1, <1>3, ManifestAtCrash
<1>6. /\ \A l \in 0..1, n \in Idx : files'[l][n] \in {files[l][n], filesSynced[l][n]}
      /\ \A l \in 0..1, n \in Idx : NamesTable(levels, l, n) => files'[l][n] = files[l][n]
  BY <1>3, CrashLeavesLevels
<1>7. ASSUME NEW l \in 0..1, NEW n \in Idx, NamesTable(m, l, n), files'[l][n] # NoFile
      PROVE  Fits(l, n, files[l][n])'
  <2>1. \A t : t = files'[l][n] /\ Fits(l, n, t) => Fits(l, n, files[l][n])'
    BY <1>2 DEF Shrinks, Fits
  <2>2. CASE NamesTable(levels, l, n)
    BY <1>6, <2>1, <2>2 DEF SidecarsFit
  <2>3. CASE l = 0 /\ n = NewL0
    <3>1. files'[0][n] \in LeftBehind
      BY <1>6, <1>7, <2>3 DEF LeftBehind
    <3> QED
      BY <1>1, <1>7, <2>1, <2>3, <3>1 DEF SidecarsFit
  <2>4. CASE l = 1 /\ ~NamesTable(levels, l, n)
    <3>1. ~Follows(m)
      BY <1>7, <2>4 DEF Follows, NamesTable
    <3>2. pc \in {"rewriteSync", "installSync"} /\ m = manifest
      BY <1>1, <3>1 DEF FaultTablesInv, ManifestsFollow
    <3>3. pc = "installSync" /\ n \in Numbers(job.new)
      BY <1>7, <2>4, <3>2 DEF FaultTablesInv, ManifestsFollow, InputsOfLevels, NamesTable
    <3> QED
      BY <1>5, <1>7, <2>1, <2>4, <3>3 DEF SidecarsFit
  <2> QED
    BY <1>5, <1>7, <2>2, <2>3, <2>4
<1>8. \A l \in 0..1, n \in Idx : ~NamesTable(levels', l, n)
  BY <1>1 DEF NamesTable, NoLevels, Numbers
<1> QED
  BY <1>1, <1>4, <1>7, <1>8 DEF SidecarsFit

\* A start-up keeps what it finds.
LEMMA RestartFits ==
  ASSUME FaultTablesInv, SidecarTypes, SidecarsFit, RestartBoth
  PROVE  SidecarsFit'
<1>1. /\ Restart /\ pc = "down" /\ pc' = "idle" /\ levels' = Prune(manifest, files)
      /\ files' = files /\ manifest' = manifest /\ manifestSynced' = manifest
      /\ manifest \in Levels
  BY DEF RestartBoth, Restart, FaultTablesInv, ManifestsFollow, TypeOK, manifestVars, fileVars
<1>2. Shrinks
  <2>1. [BloomNext]_allVars /\ ~WriteSidecar
    BY <1>1 DEF BloomNext, RestartBoth, WriteSidecar, WritesTable
  <2> QED
    BY <2>1, SidecarsShrink
<1>3. \A l \in 0..1, n \in Idx : NamesTable(levels', l, n) => Fits(l, n, files[l][n])'
  <2>1. \A l \in 0..1, n \in Idx :
          NamesTable(levels', l, n) => NamesTable(manifest, l, n) /\ files[l][n] # NoFile
    BY <1>1, PruneNames
  <2> QED
    BY <1>1, <1>2, <2>1 DEF SidecarsFit, Shrinks, Fits
<1>4. NamesTable(manifest, 0, NewL0') => LeftBehind' = {}
  BY <1>1, RestartLeavesNothing
<1> QED
  BY <1>1, <1>3, <1>4 DEF SidecarsFit

LEMMA SidecarsFitStep ==
  ASSUME FaultTablesInv, FaultTablesInv', "installSync" \notin Faults,
         SidecarTypes, SidecarInHand, SidecarsFit, [BloomNext]_allVars
  PROVE  SidecarsFit'
<1>1. CASE WriteSidecar
  BY <1>1, WriteSidecarFits
<1>2. CASE TableAfterSidecar
  BY <1>2, TableFits
<1>3. CASE Beside /\ (Publish \/ Install)
  BY <1>3, ManifestFits
<1>4. CASE Register \/ Reload
  BY <1>4, LevelsFit
<1>5. CASE CrashBoth
  BY <1>5, CrashFits
<1>6. CASE RestartBoth
  BY <1>6, RestartFits
<1>7. CASE \/ BeginWrite \/ SidecarSync \/ SyncBoth \/ PruneBoth \/ RemoveBoth
           \/ Beside /\ ~Publish /\ ~Install
  <2>1. pc # "down"
    BY <1>7 DEF BeginWrite, Write, Begin, SidecarSync, SidecarInHand, WritesTable, SyncBoth,
       TableSync, ChunkSync, PruneBoth, StartCompaction, RemoveBoth, RemoveInputs,
       RefuseTable, LogFault, AppendFails, AppendTears, AppendSyncFails, FlushFault,
       SaveFails, SaveSyncFails, PublishFails, PublishSyncFails, TruncateFails,
       TruncateSyncFails, CompactFault, MergeFails, ChunkSyncFails, InstallFails,
       InstallSyncFails, RewriteFails, RemoveFails, Fails, Beside, Log, WalAppend, WalSync,
       Apply, WalTruncate, TruncateSync, MemClear, NoCompaction
  <2> QED
    BY <1>7, <2>1, QuietFits
<1>8. CASE UNCHANGED allVars
  <2>1. /\ pc' = pc /\ levels' = levels /\ job' = job /\ files' = files
        /\ filesSynced' = filesSynced /\ manifest' = manifest
        /\ manifestSynced' = manifestSynced
        /\ sidecars' = sidecars /\ sidecarsSynced' = sidecarsSynced
    BY <1>8 DEF allVars, vars, volatileVars, manifestVars, fileVars, bloomVars, sidecarVars
  <2>2. NewL0' = NewL0
    BY <2>1 DEF NewL0
  <2>3. LeftBehind' = LeftBehind /\ \A l, n : SidecarsOf(l, n)' = SidecarsOf(l, n)
    BY <2>1, <2>2 DEF LeftBehind, SidecarsOf
  <2>4. \A l, n : Fits(l, n, files[l][n])' = Fits(l, n, files[l][n])
    BY <2>1, <2>3 DEF Fits
  <2>5. /\ Fits(0, NewL0, files[0][NewL0])' = Fits(0, NewL0, files[0][NewL0])
        /\ \A t : Fits(0, NewL0, t)' = Fits(0, NewL0, t)
    BY <2>1, <2>2, <2>3 DEF Fits
  <2> QED
    BY <2>1, <2>2, <2>3, <2>4, <2>5 DEF SidecarsFit
<1> QED
  BY <1>1, <1>2, <1>3, <1>4, <1>5, <1>6, <1>7, <1>8 DEF BloomNext, BloomStep

-----------------------------------------------------------------------------
(***************************************************************************)
(* Filters fit their tables.                                               *)
(***************************************************************************)
\* A step that is not of the crash leaves the engine up, or as it was.
LEMMA CrashIsBoth ==
  ASSUME [BloomNext]_allVars, ~CrashBoth
  PROVE  ~Crash /\ ~CrashTears
<1> SUFFICES pc' = pc \/ pc' # "down"
  BY DEF Crash, CrashTears, Fails, LoseMemory
<1>1. CASE RemoveBoth
  BY <1>1 DEF RemoveBoth, RemoveInputs, RefuseTable, LogFault, AppendFails, AppendTears,
     AppendSyncFails, FlushFault, SaveFails, SaveSyncFails, PublishFails, PublishSyncFails,
     TruncateFails, TruncateSyncFails, CompactFault, MergeFails, ChunkSyncFails,
     InstallFails, InstallSyncFails, RewriteFails, RemoveFails, Abandon, Unlock
<1>2. CASE Beside
  BY <1>2 DEF Beside, Log, WalAppend, WalSync, Apply, Publish, WalTruncate, TruncateSync,
     MemClear, NoCompaction, Install, Unlock
<1>3. CASE BeginWrite \/ WriteSidecar \/ SidecarSync \/ RestartBoth \/ UNCHANGED allVars
  BY <1>3 DEF BeginWrite, Write, Begin, WriteSidecar, SidecarSync, RestartBoth, Restart,
     allVars, vars, volatileVars
<1>4. CASE TableAfterSidecar \/ SyncBoth \/ PruneBoth \/ Register \/ Reload
  BY <1>4 DEF TableAfterSidecar, WriteTable, WriteChunk, SyncBoth, TableSync, ChunkSync,
     PruneBoth, StartCompaction, Register, PublishSync, Reload, InstallSync
<1> QED
  BY <1>1, <1>2, <1>3, <1>4 DEF BloomNext, BloomStep

LEMMA FiltersFitStep ==
  ASSUME FaultTablesInv, FaultTablesInv', "installSync" \notin Faults,
         SidecarTypes, SidecarsFit, SidecarsFit', FiltersFit, [BloomNext]_allVars
  PROVE  FiltersFit' /\ filters' \in Sidecars
<1>1. [FaultyNext]_vars
  BY BloomStepIsFaultyStep
<1>2. CASE CrashBoth
  BY <1>2 DEF CrashBoth, NoFilters, FiltersFit, Sidecars
<1>3. ASSUME NEW sc \in Sidecars, filters' = Load(levels', sc),
             \A l \in 0..1, n \in Idx : sc[l][n] # NoFile => sc[l][n] \in SidecarsOf(l, n)'
      PROVE  FiltersFit' /\ filters' \in Sidecars
  <2>1. filters' \in Sidecars
    BY <1>3 DEF Load, Sidecars
  <2>2. \A l \in 0..1, n \in Idx : filters'[l][n] # NoFile =>
          NamesTable(levels', l, n) /\ filters'[l][n] \in SidecarsOf(l, n)'
    BY <1>3 DEF Load
  <2> QED
    BY <2>1, <2>2 DEF FiltersFit, SidecarsFit, Fits
<1>4. CASE Reload \/ RestartBoth
  <2>1. \E sc \in {sidecars, sidecars'} : sc = sidecars' /\ filters' = Load(levels', sc)
    BY <1>4 DEF Reload, RestartBoth, sidecarVars
  <2>2. sidecars' \in Sidecars
    <3>1. ~WriteSidecar
      BY <1>4 DEF Reload, InstallSync, RestartBoth, Restart, WriteSidecar, vars, volatileVars
    <3> QED
      BY <3>1, SidecarsShrink
  <2> QED
    BY <1>3, <2>1, <2>2 DEF SidecarsOf
<1>5. CASE Register
  <2>1. /\ pc = "publishSync" /\ files' = files /\ sidecars' = sidecars
        /\ levels' = [levels EXCEPT !.l0 = Append(levels.l0, NewL0)]
    BY <1>5 DEF Register, PublishSync, fileVars, sidecarVars
  <2>2. /\ levels \in Levels /\ NewL0 \in Idx
        /\ Fits(0, NewL0, files[0][NewL0])
    BY <2>1 DEF FaultTablesInv, TypeOK, FlushHasNumber, SidecarsFit
  <2>3. /\ levels'.l0 = Append(levels.l0, NewL0) /\ levels'.l1 = levels.l1
        /\ levels.l0 \in Seq(Idx)
    BY <2>1, <2>2 DEF Levels
  <2>4. /\ NamesTable(levels', 0, NewL0)
        /\ \A l \in 0..1, n \in Idx : NamesTable(levels, l, n) => NamesTable(levels', l, n)
    <3>1. /\ Len(levels.l0) + 1 \in DOMAIN levels'.l0
          /\ levels'.l0[Len(levels.l0) + 1] = NewL0
          /\ \A i \in DOMAIN levels.l0 : i \in DOMAIN levels'.l0 /\ levels'.l0[i] = levels.l0[i]
      BY <2>3
    <3>2. \A n : NamesTable(levels, 0, n) => NamesTable(levels', 0, n)
      BY <3>1 DEF NamesTable
    <3> QED
      BY <2>3, <3>1, <3>2 DEF NamesTable
  <2>5. CASE filters' = [filters EXCEPT ![0] = [@ EXCEPT ![NewL0] = sidecars[0][NewL0]]]
    <3>1. /\ filters' \in Sidecars
          /\ \A l \in 0..1, n \in Idx : \/ filters'[l][n] = filters[l][n]
                                        \/ l = 0 /\ n = NewL0 /\ filters'[l][n] = sidecars[l][n]
      BY <2>2, <2>5 DEF SidecarTypes, Sidecars
    <3>2. sidecars[0][NewL0] # NoFile => KeysIn(files[0][NewL0]) \subseteq sidecars[0][NewL0]
      BY <2>2 DEF Fits, SidecarsOf
    <3>3. ASSUME NEW l \in 0..1, NEW n \in Idx, filters'[l][n] # NoFile
          PROVE  NamesTable(levels', l, n) /\ KeysIn(files[l][n]) \subseteq filters'[l][n]
      <4>1. CASE filters'[l][n] = filters[l][n]
        BY <2>4, <3>3, <4>1 DEF FiltersFit
      <4>2. CASE l = 0 /\ n = NewL0 /\ filters'[l][n] = sidecars[l][n]
        BY <2>4, <3>2, <3>3, <4>2
      <4> QED
        BY <3>1, <4>1, <4>2
    <3> QED
      BY <2>1, <3>1, <3>3 DEF FiltersFit
  <2>6. CASE filters' = filters
    BY <2>1, <2>4, <2>6 DEF FiltersFit, SidecarTypes
  <2> QED
    BY <1>5, <2>5, <2>6 DEF Register
<1>6. CASE filters' = filters /\ levels' = levels /\ ~CrashBoth
  BY <1>1, <1>6, CrashIsBoth, NamedFilesKept, FiltersPassedOn DEF SidecarTypes
<1>7. CASE \/ BeginWrite \/ WriteSidecar \/ SidecarSync \/ TableAfterSidecar \/ SyncBoth
           \/ PruneBoth \/ RemoveBoth \/ Beside \/ UNCHANGED allVars
  <2>1. filters' = filters
    BY <1>7 DEF BeginWrite, WriteSidecar, SidecarSync, TableAfterSidecar, SyncBoth,
       PruneBoth, RemoveBoth, Beside, allVars, bloomVars
  <2>2. levels' = levels
    <3>1. CASE RemoveBoth
      BY <3>1 DEF RemoveBoth, RemoveInputs, RefuseTable, LogFault, AppendFails, AppendTears,
         AppendSyncFails, FlushFault, SaveFails, SaveSyncFails, PublishFails,
         PublishSyncFails, TruncateFails, TruncateSyncFails, CompactFault, MergeFails,
         ChunkSyncFails, InstallFails, InstallSyncFails, RewriteFails, RemoveFails, Abandon
    <3>2. CASE Beside
      BY <3>2 DEF Beside, Log, WalAppend, WalSync, Apply, Publish, WalTruncate, TruncateSync,
         MemClear, NoCompaction, Install
    <3>3. CASE BeginWrite \/ WriteSidecar \/ SidecarSync \/ UNCHANGED allVars
      BY <3>3 DEF BeginWrite, Write, Begin, WriteSidecar, SidecarSync, allVars, vars,
         volatileVars
    <3>4. CASE TableAfterSidecar \/ SyncBoth \/ PruneBoth
      BY <3>4 DEF TableAfterSidecar, WriteTable, WriteChunk, SyncBoth, TableSync, ChunkSync,
         PruneBoth, StartCompaction
    <3> QED
      BY <1>7, <3>1, <3>2, <3>3, <3>4
  <2> QED
    BY <1>2, <1>6, <2>1, <2>2
<1> QED
  BY <1>2, <1>4, <1>5, <1>7 DEF BloomNext, BloomStep

-----------------------------------------------------------------------------
LEMMA InitBlooms == BloomInit => BloomInv
<1> SUFFICES ASSUME BloomInit PROVE BloomInv
  OBVIOUS
<1>1. /\ pc = "idle" /\ levels = NoLevels /\ manifest = NoLevels /\ manifestSynced = NoLevels
      /\ side = "none" /\ sidecars = NoFilters /\ sidecarsSynced = NoFilters
      /\ filters = NoFilters
  BY DEF BloomInit, Init
<1>2. NoFilters \in Sidecars /\ \A l \in 0..1, n \in Idx : NoFilters[l][n] = NoFile
  BY DEF NoFilters, Sidecars
<1>3. \A l \in 0..1 : \A n : ~NamesTable(NoLevels, l, n)
  BY DEF NamesTable, NoLevels, Numbers
<1>4. SidecarsFit
  BY <1>1, <1>3 DEF SidecarsFit
<1> QED
  BY <1>1, <1>2, <1>4 DEF BloomInv, SidecarInHand, FiltersFit

LEMMA BloomsStep ==
  ASSUME FaultTablesInv, "installSync" \notin Faults, BloomInv, [BloomNext]_allVars
  PROVE  FaultTablesInv' /\ BloomInv'
<1>1. FaultTablesInv'
  BY BloomStepIsFaultyStep, TablesStep
<1>2. SidecarTypes /\ SidecarInHand /\ SidecarsFit /\ FiltersFit
  BY DEF BloomInv, SidecarTypes
<1>3. SidecarInHand'
  BY <1>2, InHandStep
<1>4. SidecarsFit'
  BY <1>1, <1>2, SidecarsFitStep
<1>5. FiltersFit' /\ filters' \in Sidecars
  BY <1>1, <1>2, <1>4, FiltersFitStep
<1>6. sidecars' \in Sidecars /\ sidecarsSynced' \in Sidecars
  <2>1. CASE WriteSidecar
    <3>1. /\ WritesTable /\ sidecarsSynced' = sidecarsSynced
          /\ sidecars' = [sidecars EXCEPT ![NextTable.level] =
                            [@ EXCEPT ![NextTable.idx] = NextTable.keys]]
      BY <2>1 DEF WriteSidecar
    <3>2. /\ NextTable.level \in 0..1 /\ NextTable.idx \in Idx
          /\ NextTable.keys \in SUBSET Key
      BY <3>1, NextIsTyped DEF FaultTablesInv
    <3> QED
      BY <1>2, <3>1, <3>2 DEF SidecarTypes, Sidecars
  <2>2. CASE ~WriteSidecar
    BY <1>2, <2>2, SidecarsShrink
  <2> QED
    BY <2>1, <2>2
<1> QED
  BY <1>1, <1>3, <1>4, <1>5, <1>6 DEF BloomInv

LEMMA BloomsAreSound == FaultTablesInv /\ BloomInv => FiltersSound
<1> SUFFICES ASSUME FaultTablesInv, BloomInv PROVE FiltersSound
  OBVIOUS
<1>1. ~Denies(levels, filters)
  BY DEF Denies, Named, Slots, BloomInv, FiltersFit
<1>2. ASSUME pc = "down" PROVE ~Denies(manifest, sidecars)
  <2> SUFFICES ASSUME NEW l \in 0..1, NEW n \in Idx, NamesTable(manifest, l, n),
                      sidecars[l][n] # NoFile, files[l][n] # NoFile
               PROVE  KeysIn(files[l][n]) \subseteq sidecars[l][n]
    BY DEF Denies, Named, Slots
  <2>1. Fits(l, n, files[l][n]) /\ sidecars[l][n] \in SidecarsOf(l, n)
    BY <1>2 DEF BloomInv, SidecarsFit, SidecarsOf
  <2> QED
    BY <2>1 DEF Fits
<1> QED
  BY <1>1, <1>2 DEF FiltersSound

\* Whatever fails, except the directory sync after a compaction's manifest,
\* and wherever a crash strikes, sidecars stay beside tables they fit.
THEOREM BloomsInvariant ==
  ASSUME "installSync" \notin Faults
  PROVE  BloomSpec => [](FaultTablesInv /\ BloomInv)
<1>1. BloomInit => FaultTablesInv /\ BloomInv
  BY InitTables, InitBlooms DEF BloomInit
<1>2. FaultTablesInv /\ BloomInv /\ [BloomNext]_allVars => (FaultTablesInv /\ BloomInv)'
  BY BloomsStep
<1> QED
  BY <1>1, <1>2, PTL DEF BloomSpec

\* No bloom filter ever makes getKey skip a table that has the key: not that
\* of a table a failed flush left behind, of one a crash brought back, or of
\* a number that was used before.
THEOREM FiltersNeverDeny ==
  ASSUME "installSync" \notin Faults
  PROVE  BloomSpec => []FiltersSound
<1>1. FaultTablesInv /\ BloomInv => FiltersSound
  BY BloomsAreSound
<1> QED
  BY <1>1, BloomsInvariant, PTL
=============================================================================
