---------------------------- MODULE EngineBlooms ----------------------------
(***************************************************************************)
(* The bloom filters beside the tables of EngineFaults (bloom_filter.go).  *)
(*                                                                         *)
(* The filter of a table is kept in a sidecar, sst-<n>.db.bloom.  It is    *)
(* written, synced and renamed under its final name before the table is    *)
(* renamed under its own, and removed after it.  The store keeps filters   *)
(* in memory, and getKey does not open a table whose filter denies the     *)
(* key.  A sidecar that is missing or does not read back only costs a      *)
(* look at the table; one made of other entries would hide keys.           *)
(*                                                                         *)
(* A filter stands here for the set of keys it was made of.  Those it      *)
(* finds by accident only cost a look at the table as well.                *)
(*                                                                         *)
(* Every step is a step of EngineFaults, with what it does to sidecars and *)
(* filters beside it, or one of the two steps that write a sidecar.  Stat  *)
(* errors are left out, and with them compactions of fewer than two        *)
(* tables, which only rewrite the manifest.                                *)
(***************************************************************************)
EXTENDS EngineFaults

ASSUME CompactionsMerge == COMPACTION_THRESHOLD >= 2

VARIABLES
  side,            \* the sidecar of the next table: "none", "written" or "synced"
  sidecars,        \* the sidecars in directories l0 and l1
  sidecarsSynced,  \* the ones on the device
  filters          \* the bloomFilters of both levels in memory

sidecarVars == <<sidecars, sidecarsSynced>>
bloomVars == <<side, sidecarVars, filters>>
allVars == <<vars, bloomVars>>

\* A set of keys per table; NoFile where there is no sidecar or filter.
NoFilters == [l \in 0..1 |-> [n \in Idx |-> NoFile]]

BloomInit ==
  /\ Init
  /\ side = "none"
  /\ sidecars = NoFilters /\ sidecarsSynced = NoFilters
  /\ filters = NoFilters

-----------------------------------------------------------------------------
Slots == (0..1) \X Idx
Named(lv) == {s \in Slots : NamesTable(lv, s[1], s[2])}
Missing(lv) == {s \in Named(lv) : files[s[1]][s[2]] = NoFile}

\* The table that flushMemTableIfNeeded or flushChunk is about to write.
NextTable ==
  IF pc = "writeTable"
  THEN [level |-> 0, idx |-> NewL0, keys |-> KeysIn(memTable)]
  ELSE [level |-> 1, idx |-> Min(FreeL1), keys |-> Lowest(Unwritten, FLUSH_THRESHOLD)]

WritesTable ==
  \/ pc = "writeTable" /\ Storable(memTable)
  \/ pc = "merge" /\ Unwritten # {} /\ FreeL1 # {}

\* sc without the sidecars of the slots D.
Without(sc, D) ==
  [l \in 0..1 |-> [n \in Idx |-> IF <<l, n>> \in D THEN NoFile ELSE sc[l][n]]]

\* loadBloomFilters: one for every table of lv whose sidecar reads back.
Load(lv, sc) ==
  [l \in 0..1 |-> [n \in Idx |-> IF NamesTable(lv, l, n) THEN sc[l][n] ELSE NoFile]]

-----------------------------------------------------------------------------
(***************************************************************************)
(* Writing a table: sidecar, its directory, table, directory again.        *)
(***************************************************************************)
\* writeBloomFilterSidecar up to its rename.
WriteSidecar ==
  /\ WritesTable /\ side = "none"
  /\ LET t == NextTable
     IN  sidecars' = [sidecars EXCEPT ![t.level] = [@ EXCEPT ![t.idx] = t.keys]]
  /\ side' = "written"
  /\ UNCHANGED <<vars, sidecarsSynced, filters>>

\* The directory is not synced before the table is renamed.
SidecarSync_skipped ==
  /\ side = "written"
  /\ side' = "synced"
  /\ UNCHANGED <<vars, sidecarVars, filters>>

\* Its syncParentDir.  That the directory's tables become durable with it is
\* left out: a crash loses more here than it does there.
SidecarSync ==
  /\ side = "written"
  /\ LET l == NextTable.level
     IN  sidecarsSynced' = [sidecarsSynced EXCEPT ![l] = sidecars[l]]
  /\ side' = "synced"
  /\ UNCHANGED <<vars, sidecars, filters>>

TableAfterSidecar ==
  /\ WriteTable \/ WriteChunk
  /\ side = "synced" /\ side' = "none"
  /\ UNCHANGED <<sidecarVars, filters>>

SyncBoth ==
  /\ TableSync \/ ChunkSync
  /\ LET l == IF pc = "tableSync" THEN 0 ELSE 1
     IN  sidecarsSynced' = [sidecarsSynced EXCEPT ![l] = sidecars[l]]
  /\ UNCHANGED <<side, sidecars, filters>>

-----------------------------------------------------------------------------
(***************************************************************************)
(* Filters in memory.                                                      *)
(***************************************************************************)
\* registerBloomFilter after the manifest: nothing happens if the sidecar
\* does not read back.
Register ==
  /\ PublishSync
  /\ \/ filters' = [filters EXCEPT ![0] = [@ EXCEPT ![NewL0] = sidecars[0][NewL0]]]
     \/ UNCHANGED filters
  /\ UNCHANGED <<side, sidecarVars>>

\* A compaction puts its tables' filters beside those of the old levels.
Reload_keepsOld ==
  /\ InstallSync
  /\ filters' = [l \in 0..1 |-> [n \in Idx |->
                   IF NamesTable(levels', l, n) THEN sidecars[l][n] ELSE filters[l][n]]]
  /\ UNCHANGED <<side, sidecarVars>>

\* compactSSTables reads the filters of the levels it installs anew.
Reload ==
  /\ InstallSync
  /\ filters' = Load(levels', sidecars)
  /\ UNCHANGED <<side, sidecarVars>>

-----------------------------------------------------------------------------
(***************************************************************************)
(* Removing sidecars.  An error is logged or ignored, the sidecar stays.   *)
(***************************************************************************)
\* Pruning removes those of missing tables.
PruneBoth ==
  /\ StartCompaction
  /\ sidecars' \in {sidecars, Without(sidecars, Missing(levels))}
  /\ UNCHANGED <<side, sidecarsSynced, filters>>

\* removeSSTableAndBloom removes those of removed tables, the deferred function
\* of writeSortedSSTableFile that of the table it did not finish.
RemoveBoth ==
  /\ RemoveInputs \/ RefuseTable \/ LogFault \/ FlushFault \/ CompactFault
  /\ LET gone   == {s \in Slots : files[s[1]][s[2]] # NoFile /\ files'[s[1]][s[2]] = NoFile}
         undone == IF pc = "writeTable" \/ side # "none"
                   THEN {<<NextTable.level, NextTable.idx>>} ELSE {}
     IN  sidecars' \in {sidecars, Without(sidecars, gone),
                        Without(sidecars, gone \cup undone)}
  /\ side' = "none"
  /\ UNCHANGED <<sidecarsSynced, filters>>

-----------------------------------------------------------------------------
CrashBoth ==
  /\ Crash \/ CrashTears
  /\ side' = "none"
  /\ filters' = NoFilters
  /\ \E S \in SUBSET {s \in Slots : sidecars[s[1]][s[2]] # sidecarsSynced[s[1]][s[2]]} :
       sidecars' = [l \in 0..1 |-> [n \in Idx |->
                      IF <<l, n>> \in S THEN sidecarsSynced[l][n] ELSE sidecars[l][n]]]
  /\ sidecarsSynced' = sidecars'

\* newSSTableStore prunes and loads.
RestartBoth ==
  /\ Restart
  /\ sidecars' \in {sidecars, Without(sidecars, Missing(manifest))}
  /\ filters' = Load(levels', sidecars')
  /\ UNCHANGED <<side, sidecarsSynced>>

\* The other steps leave sidecars and filters alone.
Beside ==
  /\ \/ Log \/ Apply \/ Publish \/ WalTruncate \/ TruncateSync \/ MemClear
     \/ NoCompaction \/ Install
  /\ UNCHANGED bloomVars

BeginWrite == Write /\ UNCHANGED bloomVars

-----------------------------------------------------------------------------
\* The steps of the goroutine that holds writeMu.
BloomStep ==
  \/ WriteSidecar \/ SidecarSync \/ TableAfterSidecar \/ SyncBoth
  \/ Register \/ Reload \/ PruneBoth \/ RemoveBoth \/ Beside

BloomNext == BeginWrite \/ BloomStep \/ CrashBoth \/ RestartBoth

BloomSpec == BloomInit /\ [][BloomNext]_allVars

\* As in Engine: an operation that holds the lock goes on.
FairBloomSpec ==
  BloomSpec /\ WF_allVars(BloomStep) /\ WF_allVars(RestartBoth)

-----------------------------------------------------------------------------
\* A filter that sc has for a table of lv misses a key of that table.
Denies(lv, sc) ==
  \E s \in Named(lv) :
    LET f == sc[s[1]][s[2]]  t == files[s[1]][s[2]]
    IN  f # NoFile /\ t # NoFile /\ ~(KeysIn(t) \subseteq f)

\* No filter hides a key from getKey: those in memory know every key of their
\* tables, and while the engine is down so do the sidecars of the tables the
\* next start will load.  A crash may leave a sidecar of a table that was never
\* renamed, or bring back one that was removed, beside the number of a later
\* table (writeSortedSSTableFile, removeSSTableAndBloom, loadBloomFilters).
FiltersSound ==
  /\ ~Denies(levels, filters)
  /\ pc = "down" => ~Denies(manifest, sidecars)
=============================================================================
