------------------------- MODULE EngineFaultsProofs -------------------------
(***************************************************************************)
(* Theorems about the engine when file operations fail, for every set of   *)
(* keys and values, every pair of thresholds and every bound: whatever     *)
(* fails, except the directory sync after a compaction's manifest, what    *)
(* readers see is undisturbed; and after the harmless failures a restart   *)
(* still finds every write that returned.                                  *)
(***************************************************************************)
EXTENDS EngineFaultsInv, EngineProofs

(***************************************************************************)
(* Table numbers.                                                          *)
(***************************************************************************)
\* The number after those of level 0 is above them.
LEMMA NextIsAbove ==
  ASSUME NEW lv \in Levels, NEW next, next = NextIndex({lv.l0[i] : i \in DOMAIN lv.l0})
  PROVE  /\ next \in Nat /\ next = NextIndex(L0Numbers(lv))
         /\ \A n : NamesTable(lv, 0, n) => n \in Idx /\ n \in Nat /\ n < next
<1> DEFINE nums == {lv.l0[i] : i \in DOMAIN lv.l0}
<1>1. lv.l0 \in Seq(Idx)
  BY DEF Levels
<1>2. nums \in SUBSET Idx
  BY <1>1
<1>3. IsFiniteSet(Idx) /\ Idx \subseteq Nat
  BY BoundsAreNaturals, FS_Interval DEF Idx
<1>4. \A n : n \in nums <=> NamesTable(lv, 0, n)
  BY DEF NamesTable
<1>5. next = NextIndex(nums)
  OBVIOUS
<1> HIDE DEF nums
<1>6. nums \in SUBSET Nat /\ IsFiniteSet(nums)
  BY <1>2, <1>3, FS_Subset
<1>7. NextIndex(nums) \in Nat /\ \A x \in nums : x < NextIndex(nums)
  BY <1>6, NextIndexIsFresh
<1>8. L0Numbers(lv) = nums
  BY <1>2, <1>4 DEF L0Numbers
<1> QED
  BY <1>2, <1>4, <1>5, <1>6, <1>7, <1>8

\* The number of the next flush is above those of level 0.
LEMMA NumbersBelowNext ==
  ASSUME levels \in Levels
  PROVE  /\ NewL0 \in Nat /\ NewL0 = NextIndex(L0Numbers(levels))
         /\ \A n : NamesTable(levels, 0, n) => n \in Idx /\ n \in Nat /\ n < NewL0
BY NextIsAbove DEF NewL0

\* Once a flush is published no manifest names the number of the next one.
LEMMA NextIsUnnamed ==
  ASSUME FaultTablesInv, Flushed
  PROVE  \A m \in {manifest, manifestSynced} : ~NamesTable(m, 0, NewL0)
<1> USE DEF FaultTablesInv
<1>1. levels \in Levels /\ pc # "down"
  BY DEF TypeOK, Flushed
<1>2. NewL0 \in Nat /\ ~NamesTable(levels, 0, NewL0)
  BY <1>1, FreshNumber
<1>3. \A m \in Levels : L0Numbers(m) \subseteq L0Numbers(levels) =>
        ~NamesTable(m, 0, NewL0)
  <2> TAKE m \in Levels
  <2>1. m.l0 \in Seq(Idx)
    BY DEF Levels
  <2>2. NamesTable(m, 0, NewL0) => NewL0 \in L0Numbers(m)
    BY <2>1 DEF NamesTable, L0Numbers
  <2> QED
    BY <1>2, <2>2 DEF L0Numbers
<1>4. manifest \in Levels /\ manifestSynced \in Levels
  BY DEF TypeOK
<1>5. \A m : Follows(m) => L0Numbers(m) \subseteq L0Numbers(levels)
  BY DEF Follows
<1>6. L0Numbers(manifestSynced) \subseteq L0Numbers(levels)
  BY <1>1, <1>5 DEF ManifestsFollow
<1>7. L0Numbers(manifest) \subseteq L0Numbers(levels)
  <2>1. CASE pc \notin {"rewriteSync", "installSync"}
    BY <1>1, <1>5, <2>1 DEF ManifestsFollow
  <2>2. CASE pc = "rewriteSync"
    BY <2>2 DEF ManifestsFollow, InputsOfLevels, L0Numbers, NamesTable
  <2>3. CASE pc = "installSync"
    BY <2>3 DEF ManifestsFollow, L0Numbers, NamesTable
  <2> QED
    BY <2>1, <2>2, <2>3
<1> QED
  BY <1>3, <1>4, <1>6, <1>7

-----------------------------------------------------------------------------
(***************************************************************************)
(* What the steps share.                                                   *)
(***************************************************************************)
\* A step that leaves levels and manifests alone passes on what is said of
\* them: it may end an operation, but not publish one.
LEMMA FollowKept ==
  ASSUME FaultTablesInv, UNCHANGED <<levels, manifestVars>>,
         pc \notin {"rewriteSync", "installSync", "down"},
         pc' \notin {"publishSync", "rewriteSync", "installSync", "down"},
         Flushed' => Flushed
  PROVE  ManifestsFollow' /\ NewL0' = NewL0
<1>1. levels' = levels /\ manifest' = manifest /\ manifestSynced' = manifestSynced
  BY DEF manifestVars
<1>2. NewL0' = NewL0
  BY <1>1 DEF NewL0
<1>3. \A m : Follows(m) => Follows(m)'
  BY <1>1, <1>2 DEF Follows
<1>4. Follows(manifest) /\ Follows(manifestSynced) /\ Ascends(levels.l0)
  BY DEF FaultTablesInv, ManifestsFollow
<1>5. Follows(manifest)' /\ Follows(manifestSynced)'
  BY <1>1, <1>3, <1>4
<1> QED
  BY <1>1, <1>2, <1>4, <1>5 DEF ManifestsFollow

\* A MemTable that does not lose keys covers what it covered.
LEMMA CoversKept ==
  ASSUME FaultTablesInv, pc # "down", UNCHANGED <<levels, manifestVars>>,
         KeysIn(memTable) \subseteq KeysIn(memTable)', LeftBehind' \subseteq LeftBehind
  PROVE  MemTableCovers'
<1>1. levels' = levels /\ manifest' = manifest /\ manifestSynced' = manifestSynced
  BY DEF manifestVars
<1>2. NewL0' = NewL0
  BY <1>1 DEF NewL0
<1> QED
  BY <1>1, <1>2 DEF FaultTablesInv, MemTableCovers

\* After a published flush there is nothing to cover.
LEMMA NothingToCover ==
  ASSUME FaultTablesInv, Flushed, UNCHANGED <<levels, manifestVars>>
  PROVE  MemTableCovers'
<1>1. levels' = levels /\ manifest' = manifest /\ manifestSynced' = manifestSynced
  BY DEF manifestVars
<1>2. NewL0' = NewL0
  BY <1>1 DEF NewL0
<1> QED
  BY <1>1, <1>2, NextIsUnnamed DEF MemTableCovers

\* A step that keeps the files of the tables the levels name keeps them on the
\* device.
LEMMA OnDeviceKept ==
  ASSUME FaultTablesInv, UNCHANGED levels,
         \A l \in 0..1, n \in Idx : NamesTable(levels, l, n) =>
           /\ files'[l][n] = files[l][n]
           /\ filesSynced'[l][n] \in {filesSynced[l][n], files[l][n]}
  PROVE  LevelsOnDevice'
BY DEF FaultTablesInv, LevelsOnDevice

\* The same steps keep the runs of the levels and of the manifests.
LEMMA RunsOfLevelsKept ==
  ASSUME FaultTablesInv, UNCHANGED <<levels, manifestVars>>,
         pc \notin {"rewriteSync", "installSync", "down"},
         \A n \in Idx : NamesTable(levels, 1, n) => files'[1][n] = files[1][n],
         SortedRun(job.new, files[1])'
  PROVE  LevelOneSorted'
<1>1. levels' = levels /\ manifest' = manifest /\ manifestSynced' = manifestSynced
  BY DEF manifestVars
<1>2. manifest.l1 = levels.l1 /\ manifestSynced.l1 = levels.l1
  BY DEF FaultTablesInv, ManifestsFollow, Follows
<1>3. levels.l1 \in Seq(L1Table)
  BY DEF FaultTablesInv, TypeOK, Levels
<1>4. \A n \in Numbers(levels.l1) : files'[1][n] = files[1][n]
  BY <1>3, NumbersAreIdx DEF NamesTable
<1>5. SortedRun(levels.l1, files'[1])
  BY <1>4, RunKept DEF FaultTablesInv, DataInv, LevelOneSorted
<1> QED
  BY <1>1, <1>2, <1>5 DEF LevelOneSorted

-----------------------------------------------------------------------------
(***************************************************************************)
(* The log, the MemTable, and operations that end before they changed a    *)
(* table.                                                                  *)
(***************************************************************************)
LEMMA BeforeTheTable ==
  ASSUME FaultTablesInv, UNCHANGED <<levels, job, manifestVars, fileVars>>,
         pc \in {"idle", "append", "walSync", "apply", "writeTable", "tableSync"},
         pc' \in {"idle", "append", "walSync", "apply", "writeTable"},
         KeysIn(memTable) \subseteq KeysIn(memTable)',
         TypeOK', RecordInHand', FlushHasNumber'
  PROVE  FaultTablesInv'
<1>1. /\ levels' = levels /\ job' = job /\ files' = files /\ filesSynced' = filesSynced
      /\ ~Flushed'
  BY DEF fileVars, Flushed
<1>2. ManifestsFollow' /\ NewL0' = NewL0
  BY <1>1, FollowKept
<1>3. LeftBehind' = LeftBehind
  BY <1>1, <1>2 DEF LeftBehind
<1>4. MemTableCovers'
  BY <1>3, CoversKept
<1>5. LevelsOnDevice'
  BY <1>1, OnDeviceKept
<1>6. SortedRun(job.new, files[1])'
  BY <1>1 DEF FaultTablesInv, DataInv, LevelOneSorted
<1>7. LevelOneSorted'
  BY <1>1, <1>6, RunsOfLevelsKept
<1>8. FlushedTable' /\ InputsOfLevels' /\ OutputsApart' /\ FlushedIsNewest' /\ MergeProgress'
  BY DEF FlushedTable, InputsOfLevels, OutputsApart, FlushedIsNewest, MergeProgress
<1> QED
  BY <1>2, <1>4, <1>5, <1>7, <1>8 DEF FaultTablesInv, DataInv

LEMMA BeginTables ==
  ASSUME FaultTablesInv, NEW k \in Key, NEW e \in Entry, Begin(k, e)
  PROVE  FaultTablesInv'
<1> USE DEF Begin
<1>1. NewL0' = NewL0
  BY DEF NewL0
<1>2. TypeOK' /\ RecordInHand' /\ FlushHasNumber'
  BY <1>1 DEF FaultTablesInv, TypeOK, walVars, manifestVars, fileVars, PCs, Record,
     RecordInHand, FlushHasNumber, Room
<1> QED
  BY <1>2, BeforeTheTable

LEMMA LogTables ==
  ASSUME FaultTablesInv, Log \/ LogFault
  PROVE  FaultTablesInv'
<1>1. /\ UNCHANGED <<memTable, levels, job, manifestVars, fileVars>>
      /\ \/ pc = "append" /\ pc' = "walSync" /\ op' = op
         \/ pc = "walSync" /\ pc' = "apply" /\ op' = op
         \/ pc \in {"append", "walSync"} /\ pc' = "idle" /\ op' = None
  BY DEF Log, LogFault, WalAppend, WalSync, AppendFails, AppendTears, AppendSyncFails,
     Fails, Unlock
<1>2. wal \in Seq(Line) /\ walSynced \in Seq(Line) /\ (pc = "append" => op \in Record)
  BY DEF FaultTablesInv, TypeOK, RecordInHand
<1>3. wal' \in Seq(Line) /\ walSynced' \in Seq(Line)
  <2>1. \/ wal' = wal
        \/ wal' = LogAppend(wal, op) /\ pc = "append"
        \/ wal' = TornAppend(wal)
    BY DEF Log, LogFault, WalAppend, WalSync, AppendFails, AppendTears,
       AppendSyncFails, Fails, walVars
  <2>2. TornAppend(wal) \in Seq(Line)
    BY <1>2 DEF TornAppend, Line
  <2>3. walSynced' \in {walSynced, wal}
    BY DEF Log, LogFault, WalAppend, WalSync, AppendFails, AppendTears,
       AppendSyncFails, Fails, walVars
  <2> QED
    BY <1>2, <2>1, <2>2, <2>3, LogAppendType
<1>4. NewL0' = NewL0
  BY <1>1 DEF NewL0
<1>5. TypeOK' /\ RecordInHand' /\ FlushHasNumber'
  BY <1>1, <1>3, <1>4 DEF FaultTablesInv, TypeOK, manifestVars, fileVars, PCs,
     RecordInHand, FlushHasNumber
<1> QED
  BY <1>1, <1>5, BeforeTheTable

LEMMA ApplyTables ==
  ASSUME FaultTablesInv, Apply
  PROVE  FaultTablesInv'
<1>1. /\ UNCHANGED <<levels, job, walVars, manifestVars, fileVars>>
      /\ pc = "apply" /\ pc' \in {"writeTable", "idle"} /\ op' = None
      /\ memTable' = [memTable EXCEPT ![op.key] = op.entry]
  BY DEF Apply, Unlock
<1>2. op \in Record /\ memTable \in Table
  BY <1>1 DEF FaultTablesInv, TypeOK, RecordInHand
<1>3. op.entry # None /\ op.entry \in Entry /\ op.key \in Key
  BY <1>2, SentinelsDiffer DEF Record, Entry
<1>4. memTable' \in Table /\ KeysIn(memTable) \subseteq KeysIn(memTable)'
  BY <1>1, <1>2, <1>3 DEF Table, KeysIn
<1>5. NewL0' = NewL0
  BY <1>1 DEF NewL0
<1>6. TypeOK' /\ RecordInHand' /\ FlushHasNumber'
  BY <1>1, <1>4, <1>5 DEF FaultTablesInv, TypeOK, walVars, manifestVars, fileVars, PCs,
     RecordInHand, FlushHasNumber
<1> QED
  BY <1>1, <1>4, <1>6, BeforeTheTable

LEMMA UnwrittenTables ==
  ASSUME FaultTablesInv, RefuseTable \/ SaveFails \/ SaveSyncFails
  PROVE  FaultTablesInv'
<1>1. /\ UNCHANGED <<memTable, levels, job, walVars, manifestVars, fileVars>>
      /\ pc \in {"writeTable", "tableSync"} /\ pc' = "idle" /\ op' = None
  BY DEF RefuseTable, SaveFails, SaveSyncFails, Fails, Unlock
<1>2. TypeOK' /\ RecordInHand' /\ FlushHasNumber'
  BY <1>1 DEF FaultTablesInv, TypeOK, walVars, manifestVars, fileVars, PCs,
     RecordInHand, FlushHasNumber
<1> QED
  BY <1>1, <1>2, BeforeTheTable

-----------------------------------------------------------------------------
(***************************************************************************)
(* The flush.                                                              *)
(***************************************************************************)
LEMMA WriteTableTables ==
  ASSUME FaultTablesInv, WriteTable
  PROVE  FaultTablesInv'
<1>1. /\ pc = "writeTable" /\ pc' = "tableSync" /\ ~Flushed'
      /\ UNCHANGED <<op, memTable, levels, job, walVars, manifestVars, filesSynced>>
      /\ files' = [files EXCEPT ![0] = [@ EXCEPT ![NewL0] = memTable]]
  BY DEF WriteTable, Flushed
<1>2. /\ NewL0 \in Idx /\ memTable \in Table /\ files \in Files /\ levels \in Levels
  BY <1>1 DEF FaultTablesInv, TypeOK, FlushHasNumber
<1>3. /\ files' \in Files /\ files'[1] = files[1]
      /\ files'[0][NewL0] = memTable
      /\ \A n \in Idx : n # NewL0 => files'[0][n] = files[0][n]
  BY <1>1, <1>2 DEF Files
<1>4. ManifestsFollow' /\ NewL0' = NewL0
  BY <1>1, FollowKept
<1>5. TypeOK' /\ RecordInHand' /\ FlushHasNumber'
  BY <1>1, <1>3, <1>4 DEF FaultTablesInv, TypeOK, walVars, manifestVars, PCs,
     RecordInHand, FlushHasNumber
<1>6. MemTableCovers'
  <2>1. LeftBehind' \subseteq LeftBehind \cup {memTable}
    BY <1>1, <1>3, <1>4 DEF LeftBehind
  <2>2. manifest' = manifest /\ manifestSynced' = manifestSynced /\ memTable' = memTable
    BY <1>1 DEF manifestVars
  <2> QED
    BY <1>1, <1>4, <2>1, <2>2 DEF FaultTablesInv, MemTableCovers
<1>7. LevelsOnDevice'
  BY <1>1, <1>2, <1>3, FreshNumber, OnDeviceKept
<1>8. LevelOneSorted'
  BY <1>1, <1>3, RunsOfLevelsKept DEF FaultTablesInv, DataInv, LevelOneSorted
<1>9. FlushedTable' /\ InputsOfLevels' /\ OutputsApart' /\ FlushedIsNewest' /\ MergeProgress'
  BY <1>1, <1>3, <1>4
     DEF FlushedTable, InputsOfLevels, OutputsApart, FlushedIsNewest, MergeProgress
<1> QED
  BY <1>4, <1>5, <1>6, <1>7, <1>8, <1>9 DEF FaultTablesInv, DataInv

LEMMA TableSyncTables ==
  ASSUME FaultTablesInv, TableSync
  PROVE  FaultTablesInv'
<1>1. /\ pc = "tableSync" /\ pc' = "publish" /\ ~Flushed'
      /\ UNCHANGED <<op, memTable, levels, job, walVars, manifestVars, files>>
      /\ filesSynced' = [filesSynced EXCEPT ![0] = files[0]]
  BY DEF TableSync, Flushed
<1>2. files \in Files /\ filesSynced \in Files /\ NewL0 \in Idx
  BY <1>1 DEF FaultTablesInv, TypeOK, FlushHasNumber
<1>3. /\ filesSynced' \in Files
      /\ \A n \in Idx : /\ filesSynced'[0][n] = files[0][n]
                        /\ filesSynced'[1][n] = filesSynced[1][n]
  BY <1>1, <1>2 DEF Files
<1>4. ManifestsFollow' /\ NewL0' = NewL0
  BY <1>1, FollowKept
<1>5. TypeOK' /\ RecordInHand' /\ FlushHasNumber'
  BY <1>1, <1>3, <1>4 DEF FaultTablesInv, TypeOK, walVars, manifestVars, PCs,
     RecordInHand, FlushHasNumber
<1>6. MemTableCovers'
  <2>1. LeftBehind' \subseteq LeftBehind
    BY <1>1, <1>2, <1>3, <1>4 DEF LeftBehind
  <2> QED
    BY <1>1, <2>1, CoversKept
<1>7. LevelsOnDevice'
  <2>1. \A l \in 0..1, n \in Idx : filesSynced'[l][n] \in {filesSynced[l][n], files[l][n]}
    BY <1>3
  <2> QED
    BY <1>1, <2>1, OnDeviceKept
<1>8. LevelOneSorted'
  BY <1>1, RunsOfLevelsKept DEF FaultTablesInv, DataInv, LevelOneSorted
<1>9. FlushedTable' /\ InputsOfLevels' /\ OutputsApart' /\ FlushedIsNewest' /\ MergeProgress'
  BY <1>1, <1>2, <1>3, <1>4
     DEF FaultTablesInv, FlushedTable, InputsOfLevels, OutputsApart, FlushedIsNewest,
         MergeProgress
<1> QED
  BY <1>4, <1>5, <1>6, <1>7, <1>8, <1>9 DEF FaultTablesInv, DataInv

\* A manifest of ascending numbers stays one with the number of the flush.
LEMMA AppendAscends ==
  ASSUME NEW I \in SUBSET Int, NEW names \in Seq(I), NEW n \in I, Ascends(names),
         \A i \in DOMAIN names : names[i] <= n
  PROVE  Ascends(Append(names, n))
<1> DEFINE s == Append(names, n)
<1>1. /\ Len(names) \in Nat
      /\ DOMAIN names = 1..Len(names) /\ DOMAIN s = 1..(Len(names) + 1)
      /\ s[Len(names) + 1] = n /\ \A i \in 1..Len(names) : s[i] = names[i]
  OBVIOUS
<1> HIDE DEF s
<1>2. Ascends(s)
  <2> SUFFICES ASSUME NEW i \in DOMAIN s, NEW j \in DOMAIN s, i < j PROVE s[i] <= s[j]
    BY DEF Ascends
  <2>1. i \in DOMAIN names /\ s[i] = names[i]
    BY <1>1
  <2>2. CASE j = Len(names) + 1
    BY <1>1, <2>1, <2>2
  <2>3. CASE j # Len(names) + 1
    <3>1. j \in DOMAIN names /\ s[j] = names[j]
      BY <1>1, <2>3
    <3> QED
      BY <2>1, <3>1 DEF Ascends
  <2> QED
    BY <2>2, <2>3
<1> QED
  BY <1>2 DEF s

\* What a manifest and the level state have in common when a flush is added.
LEMMA FollowsBelowNext ==
  ASSUME levels \in Levels, NEW m \in Levels,
         L0Numbers(m) \subseteq L0Numbers(levels) \cup {NewL0}
  PROVE  \A i \in DOMAIN m.l0 : m.l0[i] <= NewL0
<1>1. m.l0 \in Seq(Idx)
  BY DEF Levels
<1>2. \A i \in DOMAIN m.l0 : m.l0[i] \in L0Numbers(m)
  BY <1>1 DEF L0Numbers, NamesTable
<1>3. NewL0 \in Nat /\ \A n \in L0Numbers(levels) : n \in Nat /\ n < NewL0
  BY NumbersBelowNext DEF L0Numbers
<1> QED
  BY <1>2, <1>3

LEMMA PublishTables ==
  ASSUME FaultTablesInv, Publish
  PROVE  FaultTablesInv'
<1>1. /\ pc = "publish" /\ pc' = "publishSync" /\ ~Flushed'
      /\ UNCHANGED <<op, memTable, levels, job, walVars, manifestSynced, fileVars>>
      /\ manifest' = [manifest EXCEPT !.l0 = Append(manifest.l0, NewL0)]
  BY DEF Publish, Flushed
<1>2. /\ NewL0 \in Idx /\ NewL0' = NewL0
      /\ levels \in Levels /\ manifest \in Levels
      /\ Follows(manifest) /\ Follows(manifestSynced)
  BY <1>1 DEF FaultTablesInv, TypeOK, FlushHasNumber, NewL0, ManifestsFollow
<1>3. /\ manifest' \in Levels
      /\ \A l \in 0..1, i \in Idx :
           NamesTable(manifest', l, i) <=> NamesTable(manifest, l, i)
                                           \/ (l = 0 /\ i = NewL0)
  BY <1>1, <1>2, OneMoreTable
<1>4. L0Numbers(manifest') = L0Numbers(manifest) \cup {NewL0}
  BY <1>2, <1>3 DEF L0Numbers
<1>5. manifest'.l1 = manifest.l1 /\ manifest'.l0 = Append(manifest.l0, NewL0)
  BY <1>1, <1>2 DEF Levels
<1>6. Ascends(manifest'.l0)
  <2>1. manifest.l0 \in Seq(Idx) /\ Idx \in SUBSET Int
    BY <1>2 DEF Levels, Idx
  <2>2. \A i \in DOMAIN manifest.l0 : manifest.l0[i] <= NewL0
    BY <1>2, FollowsBelowNext DEF Follows
  <2> QED
    BY <1>2, <1>5, <2>1, <2>2, AppendAscends DEF Follows
<1>7. ManifestsFollow'
  <2>1. Follows(manifest)' /\ Follows(manifestSynced)'
    BY <1>1, <1>2, <1>4, <1>5, <1>6 DEF Follows, L0Numbers
  <2>2. Ascends(levels.l0)'
    BY <1>1 DEF FaultTablesInv, ManifestsFollow
  <2>3. NamesTable(manifest', 0, NewL0')
    BY <1>2, <1>3
  <2> QED
    BY <1>1, <2>1, <2>2, <2>3 DEF ManifestsFollow
<1>8. TypeOK' /\ RecordInHand' /\ FlushHasNumber'
  BY <1>1, <1>2, <1>3 DEF FaultTablesInv, TypeOK, walVars, fileVars, PCs, RecordInHand,
     FlushHasNumber
<1>9. MemTableCovers'
  <2>1. LeftBehind' \subseteq {memTable} /\ memTable' = memTable
    BY <1>1, <1>2 DEF FaultTablesInv, FlushedTable, LeftBehind, fileVars
  <2> QED
    BY <2>1 DEF MemTableCovers
<1>10. LevelsOnDevice'
  BY <1>1, OnDeviceKept DEF fileVars
<1>11. LevelOneSorted'
  BY <1>1, <1>5 DEF FaultTablesInv, DataInv, LevelOneSorted, fileVars
<1>12. FlushedTable' /\ InputsOfLevels' /\ OutputsApart' /\ FlushedIsNewest' /\ MergeProgress'
  BY <1>1, <1>2 DEF FaultTablesInv, FlushedTable, InputsOfLevels, OutputsApart,
     FlushedIsNewest, MergeProgress, fileVars
<1> QED
  BY <1>7, <1>8, <1>9, <1>10, <1>11, <1>12 DEF FaultTablesInv, DataInv

LEMMA PublishSyncTables ==
  ASSUME FaultTablesInv, PublishSync
  PROVE  FaultTablesInv'
<1>1. /\ pc = "publishSync" /\ pc' = "truncate"
      /\ UNCHANGED <<op, memTable, job, walVars, manifest, fileVars>>
      /\ manifestSynced' = manifest
      /\ levels' = [levels EXCEPT !.l0 = Append(levels.l0, NewL0)]
  BY DEF PublishSync
<1>2. /\ NewL0 \in Idx /\ levels \in Levels /\ manifest \in Levels
      /\ Follows(manifest) /\ NamesTable(manifest, 0, NewL0)
      /\ Ascends(levels.l0)
  BY <1>1 DEF FaultTablesInv, TypeOK, FlushHasNumber, ManifestsFollow
<1>3. /\ levels' \in Levels
      /\ \A l \in 0..1, i \in Idx :
           NamesTable(levels', l, i) <=> NamesTable(levels, l, i) \/ (l = 0 /\ i = NewL0)
  BY <1>1, <1>2, OneMoreTable
<1>4. /\ levels'.l1 = levels.l1 /\ levels'.l0 = Append(levels.l0, NewL0)
      /\ levels.l0 \in Seq(Idx)
  BY <1>1, <1>2 DEF Levels
<1>5. L0Numbers(levels') = L0Numbers(manifest)
  BY <1>2, <1>3 DEF L0Numbers, Follows
<1>6. Ascends(levels'.l0)
  <2>1. Idx \in SUBSET Int
    BY DEF Idx
  <2>2. \A i \in DOMAIN levels.l0 : levels.l0[i] <= NewL0
    BY <1>2, FollowsBelowNext
  <2> QED
    BY <1>2, <1>4, <2>1, <2>2, AppendAscends
<1>7. ManifestsFollow'
  <2>1. Follows(manifest)' /\ Follows(manifestSynced)'
    BY <1>1, <1>2, <1>4, <1>5 DEF Follows, L0Numbers
  <2> QED
    BY <1>1, <1>6, <2>1 DEF ManifestsFollow
<1>8. TypeOK' /\ RecordInHand' /\ FlushHasNumber'
  BY <1>1, <1>3 DEF FaultTablesInv, TypeOK, walVars, fileVars, PCs, RecordInHand,
     FlushHasNumber
<1>9. MemTableCovers'
  <2>1. NewL0' \in Nat /\ ~NamesTable(levels', 0, NewL0')
    BY <1>3, NextIsAbove DEF NewL0
  <2>2. manifest.l0 \in Seq(Idx)
    BY <1>2 DEF Levels
  <2>3. \A n : NamesTable(manifest, 0, n) => NamesTable(levels', 0, n)
    BY <1>5, <2>2 DEF L0Numbers, NamesTable
  <2> QED
    BY <1>1, <2>1, <2>3 DEF MemTableCovers
<1>10. LevelsOnDevice'
  BY <1>1, <1>3, TablesAreFiles
     DEF FaultTablesInv, TypeOK, LevelsOnDevice, FlushedTable, fileVars
<1>11. LevelOneSorted'
  BY <1>1, <1>2, <1>4 DEF FaultTablesInv, DataInv, LevelOneSorted, Follows, fileVars
<1>12. FlushedIsNewest'
  <2>1. /\ Len(levels'.l0) = Len(levels.l0) + 1
        /\ levels'.l0[Len(levels'.l0)] = NewL0
    BY <1>2, <1>4
  <2> QED
    BY <1>1, <1>4, <2>1 DEF FaultTablesInv, FlushedTable, FlushedIsNewest, fileVars
<1>13. FlushedTable' /\ InputsOfLevels' /\ OutputsApart' /\ MergeProgress'
  BY <1>1 DEF FlushedTable, InputsOfLevels, OutputsApart, MergeProgress
<1> QED
  BY <1>7, <1>8, <1>9, <1>10, <1>11, <1>12, <1>13 DEF FaultTablesInv, DataInv

\* A flush that cannot publish its table takes the file away again.
LEMMA UnpublishTables ==
  ASSUME FaultTablesInv, PublishFails \/ PublishSyncFails
  PROVE  FaultTablesInv'
<1>1. /\ pc \in {"publish", "publishSync"} /\ pc' = "idle" /\ op' = None /\ ~Flushed'
      /\ UNCHANGED <<memTable, levels, job, walVars, manifestVars, filesSynced>>
      /\ files' = [files EXCEPT ![0] = [@ EXCEPT ![NewL0] = NoFile]]
  BY DEF PublishFails, PublishSyncFails, Fails, Unlock, RemoveNewTable, Flushed
<1>2. /\ NewL0 \in Idx /\ files \in Files /\ levels \in Levels
  BY <1>1 DEF FaultTablesInv, TypeOK, FlushHasNumber
<1>3. /\ files' \in Files /\ files'[1] = files[1]
      /\ files'[0][NewL0] = NoFile
      /\ \A n \in Idx : n # NewL0 => files'[0][n] = files[0][n]
  BY <1>1, <1>2 DEF Files
<1>4. ManifestsFollow' /\ NewL0' = NewL0
  BY <1>1, FollowKept
<1>5. TypeOK' /\ RecordInHand' /\ FlushHasNumber'
  BY <1>1, <1>3, <1>4 DEF FaultTablesInv, TypeOK, walVars, manifestVars, PCs,
     RecordInHand, FlushHasNumber
<1>6. MemTableCovers'
  <2>1. LeftBehind' \subseteq LeftBehind
    BY <1>1, <1>3, <1>4 DEF LeftBehind
  <2> QED
    BY <1>1, <2>1, CoversKept
<1>7. LevelsOnDevice'
  BY <1>1, <1>2, <1>3, FreshNumber, OnDeviceKept
<1>8. LevelOneSorted'
  BY <1>1, <1>3, RunsOfLevelsKept DEF FaultTablesInv, DataInv, LevelOneSorted
<1>9. FlushedTable' /\ InputsOfLevels' /\ OutputsApart' /\ FlushedIsNewest' /\ MergeProgress'
  BY <1>1 DEF FlushedTable, InputsOfLevels, OutputsApart, FlushedIsNewest, MergeProgress
<1> QED
  BY <1>4, <1>5, <1>6, <1>7, <1>8, <1>9 DEF FaultTablesInv, DataInv

\* The log and the MemTable are emptied, or not.
LEMMA EmptyingTables ==
  ASSUME FaultTablesInv,
         \/ WalTruncate \/ TruncateSync \/ MemClear \/ NoCompaction
         \/ TruncateFails \/ TruncateSyncFails
  PROVE  FaultTablesInv'
<1>1. /\ UNCHANGED <<levels, job, manifestVars, fileVars>>
      /\ pc \in {"truncate", "truncateSync", "clear", "maybeCompact"}
      /\ pc' \in {"truncateSync", "clear", "maybeCompact", "idle"}
      /\ op' \in {op, None}
      /\ wal' \in {wal, <<>>} /\ walSynced' \in {walSynced, wal}
      /\ memTable' \in {memTable, EmptyTable}
      /\ pc' \in {"truncateSync", "clear"} =>
           memTable' = memTable /\ pc \in {"truncate", "truncateSync"}
  BY DEF WalTruncate, TruncateSync, MemClear, NoCompaction, TruncateFails,
     TruncateSyncFails, Fails, Unlock, walVars
<1>2. /\ levels' = levels /\ job' = job /\ files' = files /\ filesSynced' = filesSynced
      /\ Flushed
  BY <1>1 DEF fileVars, Flushed
<1>3. ManifestsFollow' /\ NewL0' = NewL0
  BY <1>1, <1>2, FollowKept
<1>4. TypeOK' /\ RecordInHand' /\ FlushHasNumber'
  <2>1. EmptyTable \in Table /\ <<>> \in Seq(Line)
    BY DEF EmptyTable, Table
  <2> QED
    BY <1>1, <1>2, <2>1, ZenonT(60) DEF FaultTablesInv, TypeOK, manifestVars, PCs,
       RecordInHand, FlushHasNumber
<1>5. MemTableCovers'
  BY <1>1, <1>2, NothingToCover
<1>6. LevelsOnDevice'
  BY <1>2, OnDeviceKept
<1>7. LevelOneSorted'
  BY <1>1, <1>2, RunsOfLevelsKept DEF FaultTablesInv, DataInv, LevelOneSorted
<1>8. FlushedIsNewest'
  BY <1>1, <1>2 DEF FaultTablesInv, DataInv, FlushedIsNewest
<1>9. FlushedTable' /\ InputsOfLevels' /\ OutputsApart' /\ MergeProgress'
  BY <1>1 DEF FlushedTable, InputsOfLevels, OutputsApart, MergeProgress
<1> QED
  BY <1>3, <1>4, <1>5, <1>6, <1>7, <1>8, <1>9 DEF FaultTablesInv, DataInv

-----------------------------------------------------------------------------
(***************************************************************************)
(* Pruning, and the compaction.                                            *)
(***************************************************************************)
\* What is left of a level state: the tables that are there, in their order.
LEMMA PruneNames ==
  ASSUME NEW lv \in Levels, NEW fs
  PROVE  /\ Prune(lv, fs) \in Levels
         /\ \A l \in 0..1, n \in Idx :
              NamesTable(Prune(lv, fs), l, n) <=> NamesTable(lv, l, n) /\ fs[l][n] # NoFile
<1> DEFINE I0 == {i \in DOMAIN lv.l0 : fs[0][lv.l0[i]] # NoFile}
           I1 == {i \in DOMAIN lv.l1 : fs[1][lv.l1[i].idx] # NoFile}
<1>1. lv.l0 \in Seq(Idx) /\ lv.l1 \in Seq(L1Table)
  BY DEF Levels
<1>2. CASE \A l \in 0..1, n \in Idx : NamesTable(lv, l, n) => fs[l][n] # NoFile
  BY <1>2, NothingPruned
<1>3. CASE ~\A l \in 0..1, n \in Idx : NamesTable(lv, l, n) => fs[l][n] # NoFile
  <2>1. Prune(lv, fs) = [l0 |-> Kept(lv.l0, I0), l1 |-> Kept(lv.l1, I1)]
    BY <1>3 DEF Prune
  <2>2. I0 \in SUBSET DOMAIN lv.l0 /\ I1 \in SUBSET DOMAIN lv.l1
    OBVIOUS
  <2>3. /\ \A i \in I0 : fs[0][lv.l0[i]] # NoFile
        /\ \A i \in DOMAIN lv.l0 : fs[0][lv.l0[i]] # NoFile => i \in I0
        /\ \A i \in I1 : fs[1][lv.l1[i].idx] # NoFile
        /\ \A i \in DOMAIN lv.l1 : fs[1][lv.l1[i].idx] # NoFile => i \in I1
    OBVIOUS
  <2> HIDE DEF I0, I1
  <2> DEFINE k0 == Kept(lv.l0, I0)
             k1 == Kept(lv.l1, I1)
  <2>4. /\ k0 \in Seq(Idx)
        /\ \A j \in DOMAIN k0 : \E i \in I0 : k0[j] = lv.l0[i]
        /\ \A i \in I0 : \E j \in DOMAIN k0 : k0[j] = lv.l0[i]
    <3> DEFINE s == lv.l0
    <3>1. s \in Seq(Idx) /\ I0 \in SUBSET DOMAIN s
      BY <1>1, <2>2
    <3> HIDE DEF s
    <3>2. /\ Kept(s, I0) \in Seq(Idx)
          /\ \A j \in DOMAIN Kept(s, I0) : \E i \in I0 : Kept(s, I0)[j] = s[i]
          /\ \A i \in I0 : \E j \in DOMAIN Kept(s, I0) : Kept(s, I0)[j] = s[i]
      BY <3>1, KeptMembers
    <3> QED
      BY <3>2, Zenon DEF s
  <2>5. /\ k1 \in Seq(L1Table)
        /\ \A j \in DOMAIN k1 : \E i \in I1 : k1[j] = lv.l1[i]
        /\ \A i \in I1 : \E j \in DOMAIN k1 : k1[j] = lv.l1[i]
    BY <1>1, <2>2, KeptMembers
  <2> HIDE DEF k0, k1
  <2>6. Prune(lv, fs).l0 = k0 /\ Prune(lv, fs).l1 = k1 /\ Prune(lv, fs) \in Levels
    BY <2>1, <2>4, <2>5 DEF Levels, k0, k1
  <2>7. ASSUME NEW n \in Idx
        PROVE  NamesTable(Prune(lv, fs), 0, n) <=> NamesTable(lv, 0, n) /\ fs[0][n] # NoFile
    BY <2>2, <2>3, <2>4, <2>6 DEF NamesTable
  <2>8. ASSUME NEW n \in Idx
        PROVE  NamesTable(Prune(lv, fs), 1, n) <=> NamesTable(lv, 1, n) /\ fs[1][n] # NoFile
    <3>1. NamesTable(Prune(lv, fs), 1, n) <=> \E j \in DOMAIN k1 : k1[j].idx = n
      BY <2>6 DEF NamesTable, Numbers
    <3>2. NamesTable(lv, 1, n) <=> \E i \in DOMAIN lv.l1 : lv.l1[i].idx = n
      BY DEF NamesTable, Numbers
    <3> QED
      BY <2>2, <2>3, <2>5, <3>1, <3>2
  <2> QED
    BY <2>6, <2>7, <2>8
<1> QED
  BY <1>2, <1>3

\* Pruning keeps the order of both levels.
LEMMA PruneOrder ==
  ASSUME NEW lv \in Levels, NEW fs, NEW dir, Ascends(lv.l0), SortedRun(lv.l1, dir)
  PROVE  Ascends(Prune(lv, fs).l0) /\ SortedRun(Prune(lv, fs).l1, dir)
<1> DEFINE I0 == {i \in DOMAIN lv.l0 : fs[0][lv.l0[i]] # NoFile}
           I1 == {i \in DOMAIN lv.l1 : fs[1][lv.l1[i].idx] # NoFile}
<1>1. lv.l0 \in Seq(Idx) /\ lv.l1 \in Seq(L1Table)
  BY DEF Levels
<1>2. CASE \A l \in 0..1, n \in Idx : NamesTable(lv, l, n) => fs[l][n] # NoFile
  BY <1>2, NothingPruned
<1>3. CASE ~\A l \in 0..1, n \in Idx : NamesTable(lv, l, n) => fs[l][n] # NoFile
  <2>1. Prune(lv, fs) = [l0 |-> Kept(lv.l0, I0), l1 |-> Kept(lv.l1, I1)]
    BY <1>3 DEF Prune
  <2>2. I0 \in SUBSET DOMAIN lv.l0 /\ I1 \in SUBSET DOMAIN lv.l1
    OBVIOUS
  <2> HIDE DEF I0, I1
  <2>3. Ascends(Kept(lv.l0, I0))
    BY <1>1, <2>2, KeptAscends
  <2>4. SortedRun(Kept(lv.l1, I1), dir)
    BY <1>1, <2>2, KeptRun
  <2> QED
    BY <2>1, <2>3, <2>4
<1> QED
  BY <1>2, <1>3

\* A compaction starts with tables of the level state and has written none.
LEMMA CompactionBegins ==
  ASSUME FaultTablesInv, pc = "maybeCompact", pc' \in {"rewrite", "merge"},
         UNCHANGED <<op, memTable, levels, walVars, manifestVars, fileVars>>,
         NEW lv \in Levels, job' = [l0 |-> lv.l0, l1 |-> lv.l1, new |-> <<>>],
         Ascends(lv.l0), SortedRun(lv.l1, files[1]),
         L0Numbers(lv) \subseteq L0Numbers(levels),
         Numbers(lv.l1) \subseteq Numbers(levels.l1),
         "stat" \notin Faults => lv = levels
  PROVE  FaultTablesInv'
<1>1. /\ levels' = levels /\ files' = files /\ filesSynced' = filesSynced
      /\ job'.l0 = lv.l0 /\ job'.l1 = lv.l1 /\ job'.new = <<>>
      /\ Flushed
  BY DEF fileVars, Flushed
<1>2. ManifestsFollow' /\ NewL0' = NewL0
  BY FollowKept, <1>1
<1>3. TypeOK' /\ RecordInHand' /\ FlushHasNumber'
  BY <1>1, SMTT(60) DEF FaultTablesInv, TypeOK, walVars, manifestVars, PCs, RecordInHand,
     FlushHasNumber, Levels
<1>4. MemTableCovers'
  BY <1>1, NothingToCover
<1>5. LevelsOnDevice'
  BY <1>1, OnDeviceKept
<1>6. SortedRun(job'.new, files'[1])
  BY <1>1, EmptyRun
<1>7. LevelOneSorted'
  BY <1>1, <1>6, RunsOfLevelsKept
<1>8. InputsOfLevels'
  <2>1. L0Numbers(job') = L0Numbers(lv) /\ L0Numbers(levels') = L0Numbers(levels)
    BY <1>1 DEF L0Numbers, NamesTable
  <2> QED
    BY <1>1, <2>1 DEF InputsOfLevels
<1>9. OutputsApart' /\ FlushedTable' /\ FlushedIsNewest'
  BY <1>1 DEF OutputsApart, FlushedTable, FlushedIsNewest, Numbers
<1>10. MergeProgress'
  <2>1. \A k \in Key : L1Find(job'.new, files'[1], k) = None
    BY <1>1 DEF L1Find
  <2>2. Unwritten' = KeysIn(Merged(job'.l0, job'.l1, files'))
    BY <1>1 DEF Unwritten
  <2> QED
    BY <2>1, <2>2 DEF MergeProgress, KeysIn
<1> QED
  BY <1>2, <1>3, <1>4, <1>5, <1>7, <1>8, <1>9, <1>10 DEF FaultTablesInv, DataInv

LEMMA StartTables ==
  ASSUME FaultTablesInv, StartCompaction \/ CompactionForgets
  PROVE  FaultTablesInv'
<1>1. /\ pc = "maybeCompact" /\ pc' \in {"rewrite", "merge"}
      /\ UNCHANGED <<op, memTable, levels, walVars, manifestVars, fileVars>>
  BY DEF StartCompaction, CompactionForgets, Fails
<1>2. levels \in Levels /\ Ascends(levels.l0) /\ SortedRun(levels.l1, files[1])
  BY <1>1 DEF FaultTablesInv, TypeOK, ManifestsFollow, DataInv, LevelOneSorted
<1>3. PICK fs : /\ job' = [l0 |-> Prune(levels, fs).l0, l1 |-> Prune(levels, fs).l1,
                           new |-> <<>>]
                /\ "stat" \notin Faults => fs = files
  BY DEF StartCompaction, CompactionForgets, Fails
<1> DEFINE lv == Prune(levels, fs)
<1>4. /\ lv \in Levels
      /\ \A l \in 0..1, n \in Idx : NamesTable(lv, l, n) => NamesTable(levels, l, n)
  BY <1>2, PruneNames
<1>5. Ascends(lv.l0) /\ SortedRun(lv.l1, files[1])
  BY <1>2, PruneOrder
<1>6. "stat" \notin Faults => lv = levels
  BY <1>3, NothingPruned DEF FaultTablesInv, LevelsOnDevice
<1>7. job' = [l0 |-> lv.l0, l1 |-> lv.l1, new |-> <<>>]
  BY <1>3
<1> HIDE DEF lv
<1>8. L0Numbers(lv) \subseteq L0Numbers(levels)
  BY <1>4 DEF L0Numbers
<1>9. Numbers(lv.l1) \subseteq Numbers(levels.l1)
  <2>1. Numbers(lv.l1) \in SUBSET Idx
    BY <1>4, NumbersAreIdx DEF Levels
  <2> QED
    BY <1>4, <2>1 DEF NamesTable
<1> QED
  BY <1>1, <1>4, <1>5, <1>6, <1>7, <1>8, <1>9, CompactionBegins

\* The inputs of a compaction name no table the level state does not.
LEMMA InputsAreNamed ==
  ASSUME FaultTablesInv,
         pc \in {"rewrite", "rewriteSync", "merge", "chunkSync", "installSync"}
  PROVE  /\ [l0 |-> job.l0, l1 |-> job.l1] \in Levels
         /\ \A l \in 0..1, n \in Idx :
              NamesTable([l0 |-> job.l0, l1 |-> job.l1], l, n) => NamesTable(levels, l, n)
         /\ InputsPresent
<1> DEFINE m == [l0 |-> job.l0, l1 |-> job.l1]
<1>1. /\ job.l0 \in Seq(Idx) /\ job.l1 \in Seq(L1Table) /\ levels \in Levels
      /\ m \in Levels
  BY DEF FaultTablesInv, TypeOK, Levels
<1>2. /\ L0Numbers(job) \subseteq L0Numbers(levels)
      /\ Numbers(job.l1) \subseteq Numbers(levels.l1)
  BY DEF FaultTablesInv, InputsOfLevels
<1>3. \A n \in Idx : NamesTable(m, 0, n) => NamesTable(levels, 0, n)
  BY <1>2 DEF L0Numbers, NamesTable
<1>4. \A n \in Idx : NamesTable(m, 1, n) => NamesTable(levels, 1, n)
  BY <1>2 DEF NamesTable
<1>5. InputsPresent
  <2>1. \A i \in DOMAIN job.l1 : job.l1[i].idx \in Numbers(job.l1)
    BY DEF Numbers
  <2>2. Numbers(job.l1) \in SUBSET Idx
    BY <1>1, NumbersAreIdx
  <2>3. \A n \in Numbers(job.l1) : n \in Idx /\ files[1][n] # NoFile
    BY <1>2, <2>2 DEF FaultTablesInv, LevelsOnDevice, NamesTable
  <2> QED
    BY <2>1, <2>3 DEF InputsPresent
<1> QED
  BY <1>1, <1>3, <1>4, <1>5

LEMMA RewriteTables ==
  ASSUME FaultTablesInv, RewritePruned
  PROVE  FaultTablesInv'
<1> DEFINE m == [l0 |-> job.l0, l1 |-> job.l1]
<1>1. /\ pc = "rewrite" /\ pc' = "rewriteSync" /\ Flushed /\ Flushed'
      /\ manifest' = m
      /\ op' = op /\ memTable' = memTable /\ levels' = levels /\ job' = job
      /\ UNCHANGED walVars /\ manifestSynced' = manifestSynced
      /\ files' = files /\ filesSynced' = filesSynced
  BY DEF RewritePruned, fileVars, Flushed
<1>2. /\ m \in Levels
      /\ \A n \in Idx : NamesTable(m, 0, n) => NamesTable(levels, 0, n)
  BY <1>1, InputsAreNamed
<1>3. NewL0' = NewL0
  BY <1>1 DEF NewL0
<1>4. TypeOK' /\ RecordInHand' /\ FlushHasNumber'
  BY <1>1, <1>2 DEF FaultTablesInv, TypeOK, walVars, PCs, RecordInHand, FlushHasNumber
<1>5. ManifestsFollow'
  <2>1. Follows(manifestSynced) /\ Ascends(levels.l0)
    BY <1>1 DEF FaultTablesInv, ManifestsFollow
  <2>2. Follows(manifestSynced)'
    BY <1>1, <1>3, <2>1 DEF Follows
  <2> QED
    BY <1>1, <2>1, <2>2 DEF ManifestsFollow
<1>6. MemTableCovers'
  <2>1. \A x \in {manifest, manifestSynced} : ~NamesTable(x, 0, NewL0)
    BY <1>1, NextIsUnnamed
  <2>2. NewL0 \in Nat /\ ~NamesTable(levels, 0, NewL0)
    BY FreshNumber DEF FaultTablesInv, TypeOK
  <2>3. NamesTable(m, 0, NewL0) => NewL0 \in Idx
    BY <1>2 DEF NamesTable, Levels
  <2>4. ~NamesTable(m, 0, NewL0)
    BY <1>2, <2>2, <2>3
  <2> HIDE DEF m
  <2> QED
    BY <1>1, <1>3, <2>1, <2>4 DEF MemTableCovers
<1>7. LevelOneSorted'
  BY <1>1 DEF FaultTablesInv, DataInv, LevelOneSorted, InputsOfLevels
<1>8. InputsOfLevels'
  BY <1>1 DEF FaultTablesInv, InputsOfLevels, L0Numbers
<1>9. /\ LevelsOnDevice' /\ OutputsApart' /\ FlushedTable' /\ FlushedIsNewest'
      /\ MergeProgress'
  BY <1>1 DEF FaultTablesInv, LevelsOnDevice, OutputsApart, FlushedTable,
     FlushedIsNewest, MergeProgress
<1> QED
  BY <1>4, <1>5, <1>6, <1>7, <1>8, <1>9 DEF FaultTablesInv, DataInv

\* A level state does not name the next number.
LEMMA OneStateUnnamed ==
  ASSUME levels' \in Levels
  PROVE  ~NamesTable(levels', 0, NewL0')
<1>1. NewL0' = NextIndex({levels'.l0[i] : i \in DOMAIN levels'.l0})
  BY DEF NewL0
<1>2. /\ NewL0' \in Nat
      /\ \A n : NamesTable(levels', 0, n) => n \in Nat /\ n < NewL0'
  BY <1>1, NextIsAbove
<1> HIDE <1>1
<1> QED
  BY <1>2

\* Where the level state and both manifests are one there is nothing to cover.
LEMMA OneStateCovers ==
  ASSUME levels' \in Levels, manifest' = levels', manifestSynced' = levels'
  PROVE  /\ MemTableCovers'
         /\ Ascends(levels'.l0) => Follows(manifest)' /\ Follows(manifestSynced)'
BY OneStateUnnamed DEF MemTableCovers, Follows

LEMMA RewriteSyncTables ==
  ASSUME FaultTablesInv, RewriteSync
  PROVE  FaultTablesInv'
<1> DEFINE m == [l0 |-> job.l0, l1 |-> job.l1]
<1>1. /\ pc = "rewriteSync" /\ pc' = "idle" /\ op' = None
      /\ manifest = m
      /\ manifest' = manifest /\ manifestSynced' = manifest /\ levels' = m
      /\ memTable' = memTable /\ job' = NoJob
      /\ UNCHANGED walVars
      /\ files' = files /\ filesSynced' = filesSynced
  BY DEF RewriteSync, Unlock, fileVars, FaultTablesInv, ManifestsFollow
<1>2. /\ m \in Levels
      /\ \A l \in 0..1, n \in Idx : NamesTable(m, l, n) => NamesTable(levels, l, n)
  BY <1>1, InputsAreNamed
<1>3. TypeOK' /\ RecordInHand' /\ FlushHasNumber'
  BY <1>1, <1>2 DEF FaultTablesInv, TypeOK, walVars, PCs, RecordInHand, FlushHasNumber,
     NoJob
<1>4. Ascends(m.l0) /\ SortedRun(m.l1, files[1])
  BY <1>1 DEF FaultTablesInv, InputsOfLevels
<1>5. MemTableCovers' /\ Follows(manifest)' /\ Follows(manifestSynced)'
  BY <1>1, <1>2, <1>4, OneStateCovers
<1>6. ManifestsFollow'
  BY <1>1, <1>4, <1>5 DEF ManifestsFollow
<1>7. LevelsOnDevice'
  BY <1>1, <1>2 DEF FaultTablesInv, LevelsOnDevice
<1>8. LevelOneSorted'
  BY <1>1, <1>4, EmptyRun DEF LevelOneSorted, NoJob
<1>9. /\ InputsOfLevels' /\ OutputsApart' /\ FlushedTable' /\ FlushedIsNewest'
      /\ MergeProgress'
  BY <1>1 DEF InputsOfLevels, OutputsApart, FlushedTable, FlushedIsNewest, MergeProgress
<1> QED
  BY <1>3, <1>5, <1>6, <1>7, <1>8, <1>9 DEF FaultTablesInv, DataInv

\* A compaction that gives up removes no table the level state names.
LEMMA AbandonTables ==
  ASSUME FaultTablesInv, pc \in {"rewrite", "merge", "chunkSync"}, NEW new, Abandon(new),
         \A n \in Numbers(new) : n \notin Numbers(levels.l1)
  PROVE  FaultTablesInv'
<1>1. /\ pc' = "idle" /\ op' = None /\ Flushed /\ ~Flushed'
      /\ UNCHANGED <<memTable, levels, walVars, manifestVars, filesSynced>>
      /\ job' = NoJob
      /\ files' = [files EXCEPT ![1] = [i \in Idx |->
                     IF i \in Numbers(new) THEN NoFile ELSE files[1][i]]]
  BY DEF Abandon, Unlock, RemoveOutputs, Flushed
<1>2. files \in Files
  BY DEF FaultTablesInv, TypeOK
<1>3. /\ files' \in Files /\ files'[0] = files[0]
      /\ \A i \in Idx : files'[1][i] = IF i \in Numbers(new) THEN NoFile ELSE files[1][i]
  BY <1>1, <1>2 DEF Files
<1>4. ManifestsFollow' /\ NewL0' = NewL0
  BY <1>1, FollowKept
<1>5. TypeOK' /\ RecordInHand' /\ FlushHasNumber'
  BY <1>1, <1>3 DEF FaultTablesInv, TypeOK, walVars, manifestVars, PCs, RecordInHand,
     FlushHasNumber, NoJob
<1>6. MemTableCovers'
  BY <1>1, NothingToCover
<1>7. \A l \in 0..1, n \in Idx : NamesTable(levels, l, n) => files'[l][n] = files[l][n]
  BY <1>3 DEF NamesTable
<1>8. LevelsOnDevice'
  BY <1>1, <1>7, OnDeviceKept
<1>9. LevelOneSorted'
  <2>1. SortedRun(job'.new, files'[1])
    BY <1>1, EmptyRun DEF NoJob
  <2> QED
    BY <1>1, <1>7, <2>1, RunsOfLevelsKept
<1>10. /\ InputsOfLevels' /\ OutputsApart' /\ FlushedTable' /\ FlushedIsNewest'
       /\ MergeProgress'
  BY <1>1 DEF InputsOfLevels, OutputsApart, FlushedTable, FlushedIsNewest, MergeProgress
<1> QED
  BY <1>4, <1>5, <1>6, <1>8, <1>9, <1>10 DEF FaultTablesInv, DataInv

\* What a failed compaction removes is none of the level state.
LEMMA FailureAbandons ==
  ASSUME FaultTablesInv, "installSync" \notin Faults,
         MergeFails \/ ChunkSyncFails \/ InstallFails \/ RewriteFails
  PROVE  /\ pc \in {"rewrite", "merge", "chunkSync"}
         /\ \E new : Abandon(new) /\ \A n \in Numbers(new) : n \notin Numbers(levels.l1)
<1>1. CASE MergeFails \/ InstallFails
  BY <1>1 DEF MergeFails, InstallFails, Fails, FaultTablesInv, OutputsApart
<1>2. CASE ChunkSyncFails
  <2>1. pc = "chunkSync" /\ Abandon(Front(job.new)) /\ job.new \in Seq(L1Table)
    BY <1>2 DEF ChunkSyncFails, Fails, FaultTablesInv, TypeOK
  <2>2. Numbers(Front(job.new)) \subseteq Numbers(job.new)
    BY <2>1 DEF Front, Numbers
  <2> QED
    BY <2>1, <2>2 DEF FaultTablesInv, OutputsApart
<1>3. CASE RewriteFails
  <2>1. pc = "rewrite" /\ Abandon(<<>>) /\ Numbers(<<>>) = {}
    BY <1>3 DEF RewriteFails, Fails, Numbers
  <2> QED
    BY <2>1
<1> QED
  BY <1>1, <1>2, <1>3

LEMMA CompactionFailsTables ==
  ASSUME FaultTablesInv, "installSync" \notin Faults,
         MergeFails \/ ChunkSyncFails \/ InstallFails \/ RewriteFails
  PROVE  FaultTablesInv'
BY FailureAbandons, AbandonTables

LEMMA WriteChunkTables ==
  ASSUME FaultTablesInv, WriteChunk
  PROVE  FaultTablesInv'
<1>1. /\ pc = "merge" /\ pc' = "chunkSync" /\ Flushed /\ Flushed'
      /\ UNCHANGED <<op, memTable, levels, walVars, manifestVars, filesSynced>>
  BY DEF WriteChunk, Flushed
<1>2. TypeOK /\ MergeProgress /\ SortedRun(job.new, files[1]) /\ InputsPresent
  BY <1>1, InputsAreNamed DEF FaultTablesInv, DataInv, LevelOneSorted
<1>3. OutputsPresent
  BY <1>1 DEF FaultTablesInv, OutputsApart, OutputsPresent
<1>4. PICK n \in Idx, lo \in Key, hi \in Key, t \in Table :
        /\ files[1][n] = NoFile /\ n \notin Numbers(job.l1)
        /\ files' = [files EXCEPT ![1] = [@ EXCEPT ![n] = t]]
        /\ job' = [job EXCEPT !.new =
                     Append(job.new, [idx |-> n, min |-> lo, max |-> hi])]
  BY <1>2, ChunkIsNew
<1>5. /\ files \in Files /\ t # NoFile
      /\ job \in [l0 : Seq(Idx), l1 : Seq(L1Table), new : Seq(L1Table)]
  BY <1>2, TablesAreFiles DEF TypeOK
<1>6. /\ files' \in Files
      /\ files'[1][n] = t
      /\ \A l \in 0..1, i \in Idx : l # 1 \/ i # n => files'[l][i] = files[l][i]
  BY <1>4, <1>5 DEF Files
<1>7. /\ job' \in [l0 : Seq(Idx), l1 : Seq(L1Table), new : Seq(L1Table)]
      /\ job'.l0 = job.l0 /\ job'.l1 = job.l1
      /\ Numbers(job'.new) = Numbers(job.new) \cup {n}
  <2> DEFINE x == [idx |-> n, min |-> lo, max |-> hi]
  <2>1. x \in L1Table /\ x.idx = n
    BY DEF L1Table
  <2>2. job'.new = Append(job.new, x) /\ job'.l0 = job.l0 /\ job'.l1 = job.l1
    BY <1>4, <1>5
  <2> HIDE DEF x
  <2>3. /\ DOMAIN job'.new = DOMAIN job.new \cup {Len(job.new) + 1}
        /\ job'.new[Len(job.new) + 1] = x
        /\ \A i \in DOMAIN job.new : job'.new[i] = job.new[i]
    BY <1>5, <2>2
  <2>4. Numbers(job'.new) = Numbers(job.new) \cup {n}
    BY <2>1, <2>3 DEF Numbers
  <2>5. job' \in [l0 : Seq(Idx), l1 : Seq(L1Table), new : Seq(L1Table)]
    <3>1. job' = [job EXCEPT !.new = Append(job.new, x)]
      BY <1>4 DEF x
    <3>2. Append(job.new, x) \in Seq(L1Table)
      BY <1>5, <2>1
    <3> QED
      BY <1>5, <3>1, <3>2
  <2> QED
    BY <2>2, <2>4, <2>5
<1>8. ManifestsFollow' /\ NewL0' = NewL0
  BY <1>1, FollowKept
<1>9. TypeOK' /\ RecordInHand' /\ FlushHasNumber'
  BY <1>1, <1>6, <1>7 DEF FaultTablesInv, TypeOK, walVars, manifestVars, PCs,
     RecordInHand, FlushHasNumber
<1>10. MemTableCovers'
  BY <1>1, NothingToCover
<1>11. \A l \in 0..1, i \in Idx : NamesTable(levels, l, i) =>
         files'[l][i] = files[l][i] /\ (l = 1 => i # n)
  BY <1>4, <1>6 DEF FaultTablesInv, LevelsOnDevice
<1>12. LevelsOnDevice'
  BY <1>1, <1>11, OnDeviceKept
<1>13. LevelOneSorted'
  BY <1>1, <1>2, <1>3, <1>11, ChunkExtendsRun, RunsOfLevelsKept
<1>14. InputsOfLevels'
  <2>1. \A i \in Numbers(job.l1) : files'[1][i] = files[1][i]
    <3>1. Numbers(job.l1) \in SUBSET Idx
      BY <1>5, NumbersAreIdx
    <3> QED
      BY <1>4, <1>6, <3>1
  <2>2. SortedRun(job.l1, files'[1])
    BY <1>1, <2>1, RunKept DEF FaultTablesInv, InputsOfLevels
  <2> QED
    BY <1>1, <1>7, <2>2 DEF FaultTablesInv, InputsOfLevels, L0Numbers, NamesTable
<1>15. OutputsApart'
  <2>1. n \notin Numbers(levels.l1)
    BY <1>11 DEF NamesTable
  <2>2. \A i \in Numbers(job.new) : files'[1][i] = files[1][i]
    BY <1>3, <1>4, <1>6 DEF OutputsPresent
  <2> QED
    BY <1>1, <1>5, <1>6, <1>7, <2>1, <2>2 DEF FaultTablesInv, OutputsApart
<1>16. MergeProgress'
  BY <1>2, <1>3, ChunkProgress
<1>17. FlushedTable' /\ FlushedIsNewest'
  BY <1>1 DEF FlushedTable, FlushedIsNewest
<1> QED
  BY <1>8, <1>9, <1>10, <1>12, <1>13, <1>14, <1>15, <1>16, <1>17 DEF FaultTablesInv, DataInv

LEMMA ChunkSyncTables ==
  ASSUME FaultTablesInv, ChunkSync
  PROVE  FaultTablesInv'
<1>1. /\ pc = "chunkSync" /\ pc' = "merge" /\ Flushed /\ Flushed'
      /\ UNCHANGED <<op, memTable, levels, job, walVars, manifestVars, files>>
      /\ filesSynced' = [filesSynced EXCEPT ![1] = files[1]]
  BY DEF ChunkSync, Flushed
<1>2. files \in Files /\ filesSynced \in Files
  BY DEF FaultTablesInv, TypeOK
<1>3. /\ filesSynced' \in Files
      /\ \A n \in Idx : /\ filesSynced'[0][n] = filesSynced[0][n]
                        /\ filesSynced'[1][n] = files[1][n]
  BY <1>1, <1>2 DEF Files
<1>4. ManifestsFollow' /\ NewL0' = NewL0
  BY <1>1, FollowKept
<1>5. TypeOK' /\ RecordInHand' /\ FlushHasNumber'
  BY <1>1, <1>3 DEF FaultTablesInv, TypeOK, walVars, manifestVars, PCs, RecordInHand,
     FlushHasNumber
<1>6. MemTableCovers'
  BY <1>1, NothingToCover
<1>7. LevelsOnDevice'
  <2>1. \A l \in 0..1, n \in Idx : filesSynced'[l][n] \in {filesSynced[l][n], files[l][n]}
    BY <1>3
  <2> QED
    BY <1>1, <2>1, OnDeviceKept
<1>8. LevelOneSorted'
  BY <1>1, RunsOfLevelsKept DEF FaultTablesInv, DataInv, LevelOneSorted
<1>9. InputsOfLevels' /\ OutputsApart'
  BY <1>1, <1>3 DEF FaultTablesInv, InputsOfLevels, OutputsApart, L0Numbers, NamesTable
<1>10. MergeProgress'
  BY <1>1 DEF FaultTablesInv, DataInv, MergeProgress, Unwritten
<1>11. FlushedTable' /\ FlushedIsNewest'
  BY <1>1 DEF FlushedTable, FlushedIsNewest
<1> QED
  BY <1>4, <1>5, <1>6, <1>7, <1>8, <1>9, <1>10, <1>11 DEF FaultTablesInv, DataInv

LEMMA InstallTables ==
  ASSUME FaultTablesInv, Install
  PROVE  FaultTablesInv'
<1> DEFINE m == [l0 |-> <<>>, l1 |-> job.new]
<1>1. /\ pc = "merge" /\ pc' = "installSync" /\ Flushed /\ Flushed' /\ Unwritten = {}
      /\ manifest' = m
      /\ op' = op /\ memTable' = memTable /\ levels' = levels /\ job' = job
      /\ UNCHANGED walVars /\ manifestSynced' = manifestSynced
      /\ files' = files /\ filesSynced' = filesSynced
  BY DEF Install, fileVars, Flushed
<1>2. NewL0' = NewL0 /\ m \in Levels
  BY <1>1 DEF NewL0, FaultTablesInv, TypeOK, Levels
<1>3. TypeOK' /\ RecordInHand' /\ FlushHasNumber'
  BY <1>1, <1>2 DEF FaultTablesInv, TypeOK, walVars, PCs, RecordInHand, FlushHasNumber
<1>4. ManifestsFollow'
  <2>1. Follows(manifestSynced) /\ Ascends(levels.l0)
    BY <1>1 DEF FaultTablesInv, ManifestsFollow
  <2>2. Follows(manifestSynced)'
    BY <1>1, <1>2, <2>1 DEF Follows
  <2> QED
    BY <1>1, <2>1, <2>2 DEF ManifestsFollow
<1>5. MemTableCovers'
  <2>1. ~NamesTable(manifestSynced, 0, NewL0)
    BY <1>1, NextIsUnnamed
  <2>2. ~NamesTable(m, 0, NewL0)
    BY DEF NamesTable
  <2> HIDE DEF m
  <2> QED
    BY <1>1, <1>2, <2>1, <2>2 DEF MemTableCovers
<1>6. LevelOneSorted'
  BY <1>1 DEF FaultTablesInv, DataInv, LevelOneSorted
<1>7. InputsOfLevels' /\ OutputsApart' /\ LevelsOnDevice'
  BY <1>1 DEF FaultTablesInv, InputsOfLevels, OutputsApart, L0Numbers, NamesTable,
     LevelsOnDevice
<1>8. MergeProgress'
  BY <1>1 DEF FaultTablesInv, DataInv, MergeProgress, Unwritten
<1>9. FlushedTable' /\ FlushedIsNewest'
  BY <1>1 DEF FlushedTable, FlushedIsNewest
<1> QED
  BY <1>3, <1>4, <1>5, <1>6, <1>7, <1>8, <1>9 DEF FaultTablesInv, DataInv

LEMMA InstallSyncTables ==
  ASSUME FaultTablesInv, InstallSync
  PROVE  FaultTablesInv'
<1> DEFINE m == [l0 |-> <<>>, l1 |-> job.new]
<1>1. /\ pc = "installSync" /\ pc' = "remove" /\ Flushed
      /\ manifest = m
      /\ manifest' = m /\ manifestSynced' = m /\ levels' = m
      /\ op' = op /\ memTable' = memTable /\ job' = job
      /\ UNCHANGED walVars
      /\ files' = files /\ filesSynced' = filesSynced
  BY DEF InstallSync, fileVars, Flushed, FaultTablesInv, ManifestsFollow
<1>2. m \in Levels /\ m.l0 = <<>> /\ m.l1 = job.new /\ job.new \in Seq(L1Table)
  BY DEF FaultTablesInv, TypeOK, Levels
<1>3. TypeOK' /\ RecordInHand' /\ FlushHasNumber'
  BY <1>1, <1>2 DEF FaultTablesInv, TypeOK, walVars, PCs, RecordInHand, FlushHasNumber
<1>4. Ascends(m.l0)
  BY <1>2 DEF Ascends
<1>5. MemTableCovers' /\ Follows(manifest)' /\ Follows(manifestSynced)'
  BY <1>1, <1>2, <1>4, OneStateCovers
<1>6. ManifestsFollow'
  BY <1>1, <1>4, <1>5 DEF ManifestsFollow
<1>7. LevelsOnDevice'
  <2>1. \A l \in 0..1, n \in Idx : NamesTable(m, l, n) => l = 1 /\ n \in Numbers(job.new)
    BY <1>2 DEF NamesTable
  <2>2. \A n \in Numbers(job.new) : files[1][n] # NoFile /\ filesSynced[1][n] = files[1][n]
    BY <1>1 DEF FaultTablesInv, OutputsApart
  <2> HIDE DEF m
  <2> QED
    BY <1>1, <2>1, <2>2 DEF LevelsOnDevice
<1>8. LevelOneSorted'
  BY <1>1 DEF FaultTablesInv, DataInv, LevelOneSorted
<1>9. OutputsApart'
  BY <1>1 DEF FaultTablesInv, InputsOfLevels, OutputsApart
<1>10. InputsOfLevels' /\ MergeProgress' /\ FlushedTable' /\ FlushedIsNewest'
  BY <1>1 DEF InputsOfLevels, MergeProgress, FlushedTable, FlushedIsNewest
<1> QED
  BY <1>3, <1>5, <1>6, <1>7, <1>8, <1>9, <1>10 DEF FaultTablesInv, DataInv

\* Removing the inputs, or those that can be removed, leaves the rest of level 1.
LEMMA RemoveKeepsOthers ==
  ASSUME TypeOK, RemoveInputs \/ RemoveFails
  PROVE  /\ files' \in Files
         /\ \A i \in Idx : i \notin Numbers(job.l1) => files'[1][i] = files[1][i]
<1>1. files \in Files
  BY DEF TypeOK
<1>2. ASSUME NEW K0, NEW K1 \in SUBSET Numbers(job.l1),
             files' = [l \in 0..1 |-> [i \in Idx |->
                         IF i \in (IF l = 0 THEN K0 ELSE K1)
                         THEN NoFile ELSE files[l][i]]]
      PROVE  /\ files' \in Files
             /\ \A i \in Idx : i \notin Numbers(job.l1) => files'[1][i] = files[1][i]
  BY <1>1, <1>2 DEF Files
<1>3. CASE RemoveInputs
  <2> DEFINE K0 == {job.l0[j] : j \in DOMAIN job.l0}
  <2>1. files' = [l \in 0..1 |-> [i \in Idx |->
                    IF i \in (IF l = 0 THEN K0 ELSE Numbers(job.l1))
                    THEN NoFile ELSE files[l][i]]]
    BY <1>3 DEF RemoveInputs
  <2> HIDE DEF K0
  <2> QED
    BY <1>2, <2>1
<1>4. CASE RemoveFails
  <2>1. PICK K0 \in SUBSET {job.l0[j] : j \in DOMAIN job.l0},
             K1 \in SUBSET Numbers(job.l1) :
          files' = [l \in 0..1 |-> [i \in Idx |->
                      IF i \in (IF l = 0 THEN K0 ELSE K1)
                      THEN NoFile ELSE files[l][i]]]
    BY <1>4, Zenon DEF RemoveFails
  <2> QED
    BY <1>2, <2>1, SMTT(60)
<1> QED
  BY <1>3, <1>4

\* The inputs, or those that can be removed, are none of the new level state.
LEMMA RemoveTables ==
  ASSUME FaultTablesInv, RemoveInputs \/ RemoveFails
  PROVE  FaultTablesInv'
<1>1. /\ pc = "remove" /\ pc' = "idle" /\ op' = None /\ Flushed /\ ~Flushed'
      /\ UNCHANGED <<memTable, levels, walVars, manifestVars, filesSynced>>
      /\ job' = NoJob
  BY DEF RemoveInputs, RemoveFails, Fails, Unlock, Flushed
<1>2. /\ files \in Files /\ levels = [l0 |-> <<>>, l1 |-> job.new]
      /\ Numbers(job.new) \cap Numbers(job.l1) = {}
  BY <1>1 DEF FaultTablesInv, TypeOK, OutputsApart
<1>4. /\ files' \in Files
      /\ \A i \in Idx : i \notin Numbers(job.l1) => files'[1][i] = files[1][i]
  BY RemoveKeepsOthers DEF FaultTablesInv
<1>5. ManifestsFollow' /\ NewL0' = NewL0
  BY <1>1, FollowKept
<1>6. TypeOK' /\ RecordInHand' /\ FlushHasNumber'
  BY <1>1, <1>4 DEF FaultTablesInv, TypeOK, walVars, manifestVars, PCs, RecordInHand,
     FlushHasNumber, NoJob
<1>7. MemTableCovers'
  BY <1>1, NothingToCover
<1>8. \A l \in 0..1, n \in Idx : NamesTable(levels, l, n) => files'[l][n] = files[l][n]
  BY <1>2, <1>4 DEF NamesTable
<1>9. LevelsOnDevice'
  BY <1>1, <1>8, OnDeviceKept
<1>10. LevelOneSorted'
  <2>1. SortedRun(job'.new, files'[1])
    BY <1>1, EmptyRun DEF NoJob
  <2> QED
    BY <1>1, <1>8, <2>1, RunsOfLevelsKept
<1>11. /\ InputsOfLevels' /\ OutputsApart' /\ FlushedTable' /\ FlushedIsNewest'
       /\ MergeProgress'
  BY <1>1 DEF InputsOfLevels, OutputsApart, FlushedTable, FlushedIsNewest, MergeProgress
<1> QED
  BY <1>5, <1>6, <1>7, <1>9, <1>10, <1>11 DEF FaultTablesInv, DataInv

-----------------------------------------------------------------------------
(***************************************************************************)
(* Crash and restart.                                                      *)
(***************************************************************************)
\* A crash leaves the tables of the level state.
LEMMA CrashLeavesLevels ==
  ASSUME FaultTablesInv, NEW S \in SUBSET Unsynced
  PROVE  /\ FilesAfter(S) \in Files
         /\ \A l \in 0..1, n \in Idx :
              FilesAfter(S)[l][n] \in {files[l][n], filesSynced[l][n]}
         /\ \A l \in 0..1, n \in Idx : NamesTable(levels, l, n) =>
              FilesAfter(S)[l][n] = files[l][n] /\ files[l][n] # NoFile
<1>1. files \in Files /\ filesSynced \in Files
  BY DEF FaultTablesInv, TypeOK
<1>2. \A l \in 0..1, n \in Idx :
        FilesAfter(S)[l][n] = IF <<l, n>> \in S THEN filesSynced[l][n] ELSE files[l][n]
  BY DEF FilesAfter
<1>3. FilesAfter(S) \in Files
  BY <1>1 DEF FilesAfter, Files
<1> QED
  BY <1>2, <1>3, ZenonT(60) DEF FaultTablesInv, LevelsOnDevice

\* What the manifests name while the engine runs: tables a crash leaves, and
\* perhaps the one a failed flush took away.
LEMMA ManifestAtCrash ==
  ASSUME FaultTablesInv, pc # "down", NEW m \in {manifest, manifestSynced},
         NEW S \in SUBSET Unsynced
  PROVE  /\ m \in Levels /\ Ascends(m.l0)
         /\ \A n \in Idx : NamesTable(m, 0, n) => NamesTable(levels, 0, n) \/ n = NewL0
         /\ NamesTable(m, 0, NewL0) => Follows(m)
         /\ pc \notin {"rewriteSync", "installSync"} => Follows(m)
         /\ \A n \in Idx : NamesTable(m, 1, n) =>
              FilesAfter(S)[1][n] = files[1][n] /\ files[1][n] # NoFile
         /\ SortedRun(m.l1, FilesAfter(S)[1])
<1> DEFINE fs == FilesAfter(S)
<1>1. /\ m \in Levels /\ levels \in Levels
      /\ SortedRun(m.l1, files[1])
  BY DEF FaultTablesInv, TypeOK, DataInv, LevelOneSorted
<1>2. /\ \A l \in 0..1, n \in Idx : fs[l][n] \in {files[l][n], filesSynced[l][n]}
      /\ \A l \in 0..1, n \in Idx : NamesTable(levels, l, n) =>
           fs[l][n] = files[l][n] /\ files[l][n] # NoFile
  BY CrashLeavesLevels
<1> HIDE DEF fs
<1>3. ASSUME \A n \in Idx : NamesTable(m, 1, n) =>
               fs[1][n] = files[1][n] /\ files[1][n] # NoFile
      PROVE  SortedRun(m.l1, fs[1])
  <2>1. m.l1 \in Seq(L1Table)
    BY <1>1 DEF Levels
  <2>2. \A i \in DOMAIN m.l1 : m.l1[i].idx \in Numbers(m.l1)
    BY DEF Numbers
  <2>3. \A i \in DOMAIN m.l1 : files[1][m.l1[i].idx] = fs[1][m.l1[i].idx]
    BY <1>3, <2>1, <2>2, NumbersAreIdx DEF NamesTable
  <2> QED
    BY <1>1, <2>3, RunSameFiles
<1>4. CASE Follows(m)
  <2>1. Ascends(m.l0)
    BY <1>4 DEF Follows
  <2>2. \A n \in Idx : NamesTable(m, 0, n) => NamesTable(levels, 0, n) \/ n = NewL0
    BY <1>4 DEF Follows, L0Numbers
  <2>3. \A n \in Idx : NamesTable(m, 1, n) =>
          fs[1][n] = files[1][n] /\ files[1][n] # NoFile
    BY <1>2, <1>4 DEF Follows, NamesTable
  <2>4. SortedRun(m.l1, fs[1])
    BY <1>3, <2>3
  <2> QED
    BY <1>1, <1>4, <2>1, <2>2, <2>3, <2>4 DEF fs
<1>5. CASE ~Follows(m)
  <2>1. pc \in {"rewriteSync", "installSync"} /\ m = manifest
    BY <1>5 DEF FaultTablesInv, ManifestsFollow
  <2>2. ~NamesTable(m, 0, NewL0)
    BY <2>1, NextIsUnnamed DEF Flushed
  <2>3. CASE pc = "rewriteSync"
    <3>1. m = [l0 |-> job.l0, l1 |-> job.l1]
      BY <2>1, <2>3 DEF FaultTablesInv, ManifestsFollow
    <3>2. Ascends(m.l0)
      BY <2>3, <3>1 DEF FaultTablesInv, InputsOfLevels
    <3>3. \A l \in 0..1, n \in Idx : NamesTable(m, l, n) => NamesTable(levels, l, n)
      BY <2>3, <3>1, InputsAreNamed
    <3>4. \A n \in Idx : NamesTable(m, 1, n) =>
            fs[1][n] = files[1][n] /\ files[1][n] # NoFile
      BY <1>2, <3>3
    <3>5. SortedRun(m.l1, fs[1])
      BY <1>3, <3>4
    <3> QED
      BY <1>1, <2>1, <2>2, <3>2, <3>3, <3>4, <3>5 DEF fs
  <2>4. CASE pc = "installSync"
    <3>1. m = [l0 |-> <<>>, l1 |-> job.new]
      BY <2>1, <2>4 DEF FaultTablesInv, ManifestsFollow
    <3>2. Ascends(m.l0) /\ \A n \in Idx : ~NamesTable(m, 0, n)
      BY <3>1 DEF Ascends, NamesTable
    <3>3. \A n \in Idx : NamesTable(m, 1, n) => n \in Numbers(job.new)
      BY <3>1 DEF NamesTable
    <3>4. \A n \in Numbers(job.new) :
            n \in Idx /\ files[1][n] # NoFile /\ filesSynced[1][n] = files[1][n]
      BY <2>4 DEF FaultTablesInv, OutputsApart
    <3>5. \A n \in Idx : NamesTable(m, 1, n) =>
            fs[1][n] = files[1][n] /\ files[1][n] # NoFile
      BY <1>2, <3>3, <3>4
    <3>6. SortedRun(m.l1, fs[1])
      BY <1>3, <3>5
    <3> QED
      BY <1>1, <2>1, <2>2, <3>2, <3>5, <3>6 DEF fs
  <2> QED
    BY <2>1, <2>3, <2>4
<1> QED
  BY <1>4, <1>5

\* So the start-up will miss at most the number the next flush will use.
LEMMA CrashLeavesLoadable ==
  ASSUME FaultTablesInv, pc # "down", NEW m \in {manifest, manifestSynced},
         NEW S \in SUBSET Unsynced, files' = FilesAfter(S)
  PROVE  Loadable(m)'
<1>1. /\ m \in Levels /\ Ascends(m.l0)
      /\ \A n \in Idx : NamesTable(m, 0, n) => NamesTable(levels, 0, n) \/ n = NewL0
      /\ NamesTable(m, 0, NewL0) => Follows(m)
      /\ \A n \in Idx : NamesTable(m, 1, n) => files'[1][n] # NoFile
  BY ManifestAtCrash
<1>2. levels \in Levels
  BY DEF FaultTablesInv, TypeOK
<1>3. \A n \in Idx : NamesTable(levels, 0, n) => files'[0][n] # NoFile
  BY CrashLeavesLevels
<1>4. NewL0 = NextIndex(L0Numbers(levels)) /\ NewL0 \notin L0Numbers(levels)
  BY <1>2, NumbersBelowNext DEF L0Numbers
<1> DEFINE here == {n \in L0Numbers(m) : files'[0][n] # NoFile}
<1>5. L0Numbers(m) \subseteq here \cup {NextIndex(here)}
  <2>1. CASE here = L0Numbers(m)
    BY <2>1
  <2>2. CASE here # L0Numbers(m)
    <3>1. PICK n \in Idx : NamesTable(m, 0, n) /\ files'[0][n] = NoFile
      BY <2>2 DEF L0Numbers
    <3>2. n = NewL0
      BY <1>1, <1>3, <3>1
    <3>3. L0Numbers(levels) \subseteq L0Numbers(m)
      BY <1>1, <3>1, <3>2 DEF Follows
    <3>4. here = L0Numbers(levels)
      BY <1>1, <1>3, <1>4, <3>1, <3>2, <3>3 DEF L0Numbers
    <3>5. L0Numbers(m) \subseteq L0Numbers(levels) \cup {NewL0}
      BY <1>1 DEF L0Numbers
    <3> HIDE DEF here
    <3> QED
      BY <1>4, <3>4, <3>5
  <2> QED
    BY <2>1, <2>2
<1>6. \A n \in Numbers(m.l1) : files'[1][n] # NoFile
  <2>1. Numbers(m.l1) \in SUBSET Idx
    BY <1>1, NumbersAreIdx DEF Levels
  <2> QED
    BY <1>1, <2>1 DEF NamesTable
<1> QED
  BY <1>1, <1>5, <1>6 DEF Loadable

\* A crash, whether it tears the last line of the log or not.
LEMMA CrashTables ==
  ASSUME FaultTablesInv, Crash \/ CrashTears
  PROVE  FaultTablesInv'
<1>1. /\ pc # "down" /\ pc' = "down" /\ op' = None /\ memTable' = EmptyTable
      /\ levels' = NoLevels /\ job' = NoJob
      /\ manifest' \in {manifest, manifestSynced} /\ manifestSynced' = manifest'
      /\ filesSynced' = files'
  BY DEF Crash, CrashTears, LoseMemory, Fails
<1>2. PICK S \in SUBSET Unsynced : files' = FilesAfter(S)
  BY DEF Crash, CrashTears
<1>3. wal' \in Seq(Line) /\ walSynced' = wal'
  <2>1. wal \in Seq(Line) /\ walSynced \in Seq(Line)
    BY DEF FaultTablesInv, TypeOK
  <2>2. Front(wal) \in Seq(Line)
    BY <2>1 DEF Front
  <2>3. TornAppend(Front(wal)) \in Seq(Line)
    BY <2>2 DEF TornAppend, Line
  <2> QED
    BY <2>1, <2>3 DEF Crash, CrashTears
<1>4. /\ manifest' \in Levels /\ SortedRun(manifest'.l1, files'[1])
      /\ Loadable(manifest)'
  <2>1. PICK m \in {manifest, manifestSynced} : manifest' = m
    BY <1>1
  <2>2. m \in Levels /\ SortedRun(m.l1, FilesAfter(S)[1])
    BY <1>1, ManifestAtCrash
  <2>3. Loadable(m)'
    BY <1>1, <1>2, CrashLeavesLoadable
  <2> QED
    BY <1>2, <2>1, <2>2, <2>3 DEF Loadable
<1>5. TypeOK' /\ RecordInHand' /\ FlushHasNumber'
  <2>1. EmptyTable \in Table /\ NoLevels \in Levels
    BY DEF EmptyTable, Table, NoLevels, Levels
  <2>2. NoJob \in [l0 : Seq(Idx), l1 : Seq(L1Table), new : Seq(L1Table)]
    BY DEF NoJob
  <2>3. files' \in Files
    BY <1>2, CrashLeavesLevels
  <2> QED
    BY <1>1, <1>3, <1>4, <2>1, <2>2, <2>3 DEF TypeOK, PCs, RecordInHand, FlushHasNumber
<1>6. LevelsOnDevice'
  BY <1>1 DEF LevelsOnDevice, NamesTable, NoLevels, Numbers
<1>7. ManifestsFollow'
  BY <1>1, <1>4 DEF ManifestsFollow
<1>8. LevelOneSorted'
  <2>1. SortedRun(levels'.l1, files'[1]) /\ SortedRun(job'.new, files'[1])
    BY <1>1, EmptyRun DEF NoLevels, NoJob
  <2> QED
    BY <1>1, <1>4, <2>1 DEF LevelOneSorted
<1>9. /\ MemTableCovers' /\ InputsOfLevels' /\ OutputsApart' /\ FlushedTable'
      /\ FlushedIsNewest' /\ MergeProgress'
  BY <1>1 DEF MemTableCovers, InputsOfLevels, OutputsApart, FlushedTable, FlushedIsNewest,
     MergeProgress
<1> QED
  BY <1>5, <1>6, <1>7, <1>8, <1>9 DEF FaultTablesInv, DataInv

\* A run none of whose tables is missing is not pruned.
LEMMA PruneKeepsRun ==
  ASSUME NEW lv \in Levels, NEW fs, \A n \in Numbers(lv.l1) : fs[1][n] # NoFile
  PROVE  Prune(lv, fs).l1 = lv.l1
<1>1. lv.l1 \in Seq(L1Table)
  BY DEF Levels
<1>2. {i \in DOMAIN lv.l1 : fs[1][lv.l1[i].idx] # NoFile} = DOMAIN lv.l1
  BY DEF Numbers
<1>3. Kept(lv.l1, DOMAIN lv.l1) = lv.l1
  BY <1>1, KeptAll
<1> QED
  BY <1>2, <1>3 DEF Prune

\* A start-up leaves out what is missing; the next flush takes that number.
LEMMA RestartTables ==
  ASSUME FaultTablesInv, Restart
  PROVE  FaultTablesInv'
<1>1. /\ pc = "down" /\ pc' = "idle"
      /\ levels' = Prune(manifest, files) /\ memTable' = Replay(wal)
      /\ op' = op /\ job' = job /\ UNCHANGED walVars
      /\ manifest' = manifest /\ manifestSynced' = manifest
      /\ files' = files /\ filesSynced' = files
  BY DEF Restart, FaultTablesInv, ManifestsFollow, manifestVars, fileVars
<1>2. /\ manifest \in Levels /\ Ascends(manifest.l0) /\ SortedRun(manifest.l1, files[1])
      /\ Loadable(manifest)
  BY <1>1 DEF FaultTablesInv, TypeOK, ManifestsFollow, Loadable, DataInv, LevelOneSorted
<1>3. /\ levels' \in Levels
      /\ \A l \in 0..1, n \in Idx :
           NamesTable(levels', l, n) <=> NamesTable(manifest, l, n) /\ files[l][n] # NoFile
  BY <1>1, <1>2, PruneNames
<1>4. Ascends(levels'.l0) /\ SortedRun(levels'.l1, files[1])
  BY <1>1, <1>2, PruneOrder
<1>5. levels'.l1 = manifest.l1
  BY <1>1, <1>2, PruneKeepsRun DEF Loadable
<1>6. L0Numbers(levels') = {n \in L0Numbers(manifest) : files[0][n] # NoFile}
  BY <1>3 DEF L0Numbers
<1>7. /\ NewL0' = NextIndex(L0Numbers(levels'))
      /\ ~NamesTable(levels', 0, NewL0')
  <2>1. NewL0' = NextIndex({levels'.l0[i] : i \in DOMAIN levels'.l0})
    BY DEF NewL0
  <2>2. /\ NewL0' = NextIndex(L0Numbers(levels'))
        /\ NewL0' \in Nat
        /\ \A n : NamesTable(levels', 0, n) => n \in Nat /\ n < NewL0'
    BY <1>3, <2>1, NextIsAbove
  <2> HIDE <2>1
  <2> QED
    BY <2>2
<1>8. Replay(wal) \in Table
  BY ReplayType DEF FaultTablesInv, TypeOK
<1>9. TypeOK' /\ RecordInHand' /\ FlushHasNumber'
  BY <1>1, <1>3, <1>8 DEF FaultTablesInv, TypeOK, walVars, PCs, RecordInHand,
     FlushHasNumber
<1>10. ManifestsFollow'
  <2>1. L0Numbers(levels') \subseteq L0Numbers(manifest)
    BY <1>6
  <2>2. L0Numbers(manifest) \subseteq L0Numbers(levels') \cup {NewL0'}
    BY <1>2, <1>6, <1>7 DEF Loadable
  <2>3. Follows(manifest)' /\ Follows(manifestSynced)'
    BY <1>1, <1>2, <1>5, <2>1, <2>2 DEF Follows, Flushed, L0Numbers
  <2> QED
    BY <1>1, <1>4, <2>3 DEF ManifestsFollow
<1>11. MemTableCovers'
  <2>1. NamesTable(manifest, 0, NewL0') => NewL0' \in Idx
    BY <1>2 DEF NamesTable, Levels
  <2>2. NamesTable(manifest, 0, NewL0') => LeftBehind' = {}
    BY <1>1, <1>3, <1>7, <2>1 DEF LeftBehind
  <2> QED
    BY <1>1, <2>2 DEF MemTableCovers
<1>12. LevelsOnDevice'
  BY <1>1, <1>3 DEF LevelsOnDevice
<1>13. LevelOneSorted'
  BY <1>1, <1>2, <1>4 DEF FaultTablesInv, DataInv, LevelOneSorted
<1>14. /\ InputsOfLevels' /\ OutputsApart' /\ FlushedTable' /\ FlushedIsNewest'
       /\ MergeProgress'
  BY <1>1 DEF InputsOfLevels, OutputsApart, FlushedTable, FlushedIsNewest, MergeProgress
<1> QED
  BY <1>9, <1>10, <1>11, <1>12, <1>13, <1>14 DEF FaultTablesInv, DataInv

-----------------------------------------------------------------------------
(***************************************************************************)
(* The tables, whatever fails.                                             *)
(***************************************************************************)
LEMMA InitTables == Init => FaultTablesInv
<1> SUFFICES ASSUME Init PROVE FaultTablesInv
  OBVIOUS
<1>1. StoreInv /\ DataInv
  BY InitSafety DEF SafetyInv
<1>2. /\ pc = "idle" /\ levels = NoLevels /\ manifest = NoLevels
      /\ manifestSynced = NoLevels
  BY DEF Init
<1>3. L0Numbers(NoLevels) = {} /\ Ascends(NoLevels.l0)
  BY DEF L0Numbers, NamesTable, NoLevels, Ascends
<1>4. Follows(NoLevels)
  BY <1>2, <1>3 DEF Follows
<1>5. ManifestsFollow
  BY <1>2, <1>3, <1>4 DEF ManifestsFollow
<1>6. LevelsOnDevice /\ MemTableCovers
  BY <1>2 DEF LevelsOnDevice, MemTableCovers, NoLevels, NamesTable, Numbers
<1>7. InputsOfLevels /\ OutputsApart
  BY <1>2 DEF InputsOfLevels, OutputsApart
<1> QED
  BY <1>1, <1>5, <1>6, <1>7 DEF FaultTablesInv, StoreInv

LEMMA StutterTables ==
  ASSUME FaultTablesInv, UNCHANGED vars
  PROVE  FaultTablesInv'
<1>1. /\ pc' = pc /\ op' = op /\ memTable' = memTable /\ levels' = levels /\ job' = job
      /\ wal' = wal /\ walSynced' = walSynced
      /\ manifest' = manifest /\ manifestSynced' = manifestSynced
      /\ files' = files /\ filesSynced' = filesSynced
  BY DEF vars, volatileVars, walVars, manifestVars, fileVars
<1>2. NewL0' = NewL0 /\ LeftBehind' = LeftBehind /\ (Flushed' <=> Flushed)
      /\ Unwritten' = Unwritten
  BY <1>1 DEF NewL0, LeftBehind, Flushed, Unwritten
<1>3. TypeOK' /\ RecordInHand' /\ FlushHasNumber'
  BY <1>1, <1>2 DEF FaultTablesInv, TypeOK, RecordInHand, FlushHasNumber
<1>4. ManifestsFollow'
  <2>1. \A m : /\ Follows(m)' <=> Follows(m)
               /\ Loadable(m)' <=> Loadable(m)
    BY <1>1, <1>2 DEF Follows, Loadable
  <2> QED
    BY <1>1, <1>2, <2>1 DEF FaultTablesInv, ManifestsFollow
<1>5. LevelsOnDevice' /\ MemTableCovers' /\ FlushedTable'
  BY <1>1, <1>2 DEF FaultTablesInv, LevelsOnDevice, MemTableCovers, FlushedTable
<1>6. InputsOfLevels' /\ OutputsApart'
  BY <1>1 DEF FaultTablesInv, InputsOfLevels, OutputsApart, L0Numbers
<1>7. FlushedIsNewest' /\ LevelOneSorted' /\ MergeProgress'
  BY <1>1, <1>2 DEF FaultTablesInv, DataInv, FlushedIsNewest, LevelOneSorted,
     MergeProgress
<1> QED
  BY <1>3, <1>4, <1>5, <1>6, <1>7 DEF FaultTablesInv, DataInv

LEMMA TablesStep ==
  ASSUME "installSync" \notin Faults, FaultTablesInv, [FaultyNext]_vars
  PROVE  FaultTablesInv'
<1>1. CASE Write
  BY <1>1, BeginTables DEF Write
<1>2. CASE Log \/ LogFault
  BY <1>2, LogTables
<1>3. CASE Apply
  BY <1>3, ApplyTables
<1>4. CASE Flush \/ FlushFault
  BY <1>4, WriteTableTables, UnwrittenTables, TableSyncTables, PublishTables,
     PublishSyncTables, UnpublishTables, EmptyingTables
     DEF Flush, FlushFault
<1>5. CASE Compact \/ CompactFault \/ CompactionForgets
  <2>1. ~InstallSyncFails
    BY DEF InstallSyncFails, Fails
  <2> QED
    BY <1>5, <2>1, EmptyingTables, StartTables, RewriteTables, RewriteSyncTables,
       WriteChunkTables, ChunkSyncTables, InstallTables, InstallSyncTables,
       RemoveTables, CompactionFailsTables
       DEF Compact, CompactFault
<1>6. CASE Crash \/ CrashTears
  BY <1>6, CrashTables
<1>7. CASE Restart
  BY <1>7, RestartTables
<1>8. CASE UNCHANGED vars
  BY <1>8, StutterTables
<1> QED
  BY <1>1, <1>2, <1>3, <1>4, <1>5, <1>6, <1>7, <1>8 DEF FaultyNext, FaultyStep, WriterStep

\* The manifests name the tables of the level state, which are on the device,
\* and besides at most the table of a flush that failed: what no failed log
\* append, flush or compaction, no tear, crash or restart changes.
THEOREM FaultyTablesInvariant ==
  ASSUME "installSync" \notin Faults
  PROVE  FaultySpec => []FaultTablesInv
BY InitTables, TablesStep, PTL DEF FaultySpec

\* Every variable stays in its type when file operations fail.
THEOREM FaultyTypeCorrect ==
  ASSUME "installSync" \notin Faults
  PROVE  FaultySpec => []TypeOK
<1>1. FaultTablesInv => TypeOK
  BY DEF FaultTablesInv
<1> QED
  BY <1>1, FaultyTablesInvariant, PTL

\* Level 1 stays sorted, its ranges exact, through failed merges and their
\* clean-up: no table of a run is removed or written over.
THEOREM FaultyLevelOneSorted ==
  ASSUME "installSync" \notin Faults
  PROVE  FaultySpec => []LevelOneSorted
<1>1. FaultTablesInv => LevelOneSorted
  BY DEF FaultTablesInv, DataInv
<1> QED
  BY <1>1, FaultyTablesInvariant, PTL

-----------------------------------------------------------------------------
(***************************************************************************)
(* What readers see when file operations fail.                             *)
(***************************************************************************)
\* While the engine runs no step writes or removes a file of the level state.
LEMMA NamedFilesKept ==
  ASSUME FaultTablesInv, "installSync" \notin Faults, [FaultyNext]_vars,
         ~Crash, ~CrashTears
  PROVE  \A l \in 0..1, n \in Idx : NamesTable(levels, l, n) => files'[l][n] = files[l][n]
<1>1. files \in Files /\ levels \in Levels
  BY DEF FaultTablesInv, TypeOK
<1>2. CASE WriteTable \/ PublishFails \/ PublishSyncFails
  <2>1. PICK t : files' = [files EXCEPT ![0] = [@ EXCEPT ![NewL0] = t]]
    BY <1>2 DEF WriteTable, PublishFails, PublishSyncFails, RemoveNewTable
  <2>2. NewL0 \in Nat /\ ~NamesTable(levels, 0, NewL0)
    BY <1>1, FreshNumber
  <2> QED
    BY <1>1, <2>1, <2>2 DEF Files
<1>3. CASE WriteChunk
  BY <1>3, ChunkKeepsFiles DEF FaultTablesInv, LevelsOnDevice
<1>4. CASE MergeFails \/ ChunkSyncFails \/ InstallFails \/ RewriteFails
  <2>1. PICK new : Abandon(new) /\ \A n \in Numbers(new) : n \notin Numbers(levels.l1)
    BY <1>4, FailureAbandons
  <2>2. files' = [files EXCEPT ![1] = [i \in Idx |->
                    IF i \in Numbers(new) THEN NoFile ELSE files[1][i]]]
    BY <2>1 DEF Abandon, RemoveOutputs
  <2> QED
    BY <1>1, <2>1, <2>2 DEF Files, NamesTable
<1>5. CASE RemoveInputs \/ RemoveFails
  <2>1. pc = "remove"
    BY <1>5 DEF RemoveInputs, RemoveFails, Fails
  <2>2. \A n \in Idx : ~NamesTable(levels, 0, n)
    BY <2>1 DEF FaultTablesInv, OutputsApart, NamesTable
  <2>3. \A n \in Idx : NamesTable(levels, 1, n) => n \notin Numbers(job.l1)
    BY <2>1 DEF FaultTablesInv, OutputsApart, NamesTable
  <2>4. \A n \in Idx : n \notin Numbers(job.l1) => files'[1][n] = files[1][n]
    BY <1>5, RemoveKeepsOthers DEF FaultTablesInv
  <2> QED
    BY <2>2, <2>3, <2>4
<1>6. CASE UNCHANGED files
  BY <1>6
<1> QED
  <2>1. ~InstallSyncFails
    BY DEF InstallSyncFails, Fails
  <2>2. CASE Write \/ Log \/ LogFault \/ Apply \/ Restart \/ CompactionForgets \/ UNCHANGED vars
    BY <1>6, <2>2 DEF Write, Begin, Log, WalAppend, WalSync, LogFault, AppendFails,
       AppendTears, AppendSyncFails, Apply, Restart, CompactionForgets, vars, fileVars
  <2>3. CASE Flush \/ FlushFault
    BY <1>2, <1>6, <2>3 DEF Flush, RefuseTable, TableSync, Publish, PublishSync,
       WalTruncate, TruncateSync, MemClear, FlushFault, SaveFails, SaveSyncFails,
       TruncateFails, TruncateSyncFails, fileVars
  <2>4. CASE Compact \/ CompactFault
    BY <1>3, <1>4, <1>5, <1>6, <2>1, <2>4 DEF Compact, NoCompaction, StartCompaction,
       RewritePruned, RewriteSync, ChunkSync, Install, InstallSync, CompactFault, fileVars
  <2> QED
    BY <2>2, <2>3, <2>4 DEF FaultyNext, FaultyStep, WriterStep

\* A compaction answers as before for the keys of no forgotten table.
LEMMA InputsAnswer ==
  ASSUME FaultTablesInv,
         pc \in {"rewrite", "rewriteSync", "merge", "chunkSync", "installSync"},
         NEW k \in Key, ~Forgotten(k)
  PROVE  StoreFind([l0 |-> job.l0, l1 |-> job.l1], files, k) = StoreFind(levels, files, k)
<1>1. /\ job.l0 \in Seq(Idx) /\ job.l1 \in Seq(L1Table)
      /\ levels.l0 \in Seq(Idx) /\ levels.l1 \in Seq(L1Table)
  BY DEF FaultTablesInv, TypeOK, Levels
<1>2. /\ Ascends(job.l0) /\ SortedRun(job.l1, files[1])
      /\ Ascends(levels.l0) /\ SortedRun(levels.l1, files[1])
  BY DEF FaultTablesInv, InputsOfLevels, ManifestsFollow, DataInv, LevelOneSorted
<1>3. /\ \A n \in Idx : NamesTable(job, 0, n) => NamesTable(levels, 0, n)
      /\ \A n \in Numbers(job.l1) : n \in Numbers(levels.l1)
  BY DEF FaultTablesInv, InputsOfLevels, L0Numbers
<1>4. /\ \A n \in Idx : NamesTable(levels, 0, n) /\ Holds(files[0][n], k) => NamesTable(job, 0, n)
      /\ \A n \in Idx : NamesTable(levels, 1, n) /\ Holds(files[1][n], k) => NamesTable(job, 1, n)
  BY DEF Forgotten
<1>5. L0Find(job.l0, files[0], k) = L0Find(levels.l0, files[0], k)
  <2>1. \A i \in DOMAIN job.l0 : job.l0[i] \in Idx /\ NamesTable(job, 0, job.l0[i])
    BY <1>1 DEF NamesTable
  <2>2. \A j \in DOMAIN levels.l0 :
          levels.l0[j] \in Idx /\ NamesTable(levels, 0, levels.l0[j])
    BY <1>1 DEF NamesTable
  <2>3. \A i \in DOMAIN job.l0 : \E j \in DOMAIN levels.l0 : levels.l0[j] = job.l0[i]
    BY <1>3, <2>1 DEF NamesTable
  <2>4. \A j \in DOMAIN levels.l0 : Holds(files[0][levels.l0[j]], k) =>
          \E i \in DOMAIN job.l0 : job.l0[i] = levels.l0[j]
    BY <1>4, <2>2 DEF NamesTable
  <2>5. Idx \in SUBSET Int
    BY DEF Idx
  <2>6. /\ \A i \in DOMAIN job.l0 : Holds(files[0][job.l0[i]], k) =>
             \E j \in DOMAIN levels.l0 :
               levels.l0[j] = job.l0[i] /\ files[0][levels.l0[j]] = files[0][job.l0[i]]
        /\ \A j \in DOMAIN levels.l0 : Holds(files[0][levels.l0[j]], k) =>
             \E i \in DOMAIN job.l0 :
               job.l0[i] = levels.l0[j] /\ files[0][job.l0[i]] = files[0][levels.l0[j]]
    <3>1. \A i \in DOMAIN job.l0 : \E j \in DOMAIN levels.l0 :
            levels.l0[j] = job.l0[i] /\ files[0][levels.l0[j]] = files[0][job.l0[i]]
      BY <2>3, Zenon
    <3>2. ASSUME NEW j \in DOMAIN levels.l0, Holds(files[0][levels.l0[j]], k)
          PROVE  \E i \in DOMAIN job.l0 :
                   job.l0[i] = levels.l0[j] /\ files[0][job.l0[i]] = files[0][levels.l0[j]]
      <4>1. PICK i \in DOMAIN job.l0 : job.l0[i] = levels.l0[j]
        BY <2>4, <3>2, Zenon
      <4> QED
        BY <4>1, Zenon
    <3> QED
      BY <3>1, <3>2, Zenon
  <2>7. ASSUME NEW I \in SUBSET Int, job.l0 \in Seq(I), levels.l0 \in Seq(I)
        PROVE  L0Find(job.l0, files[0], k) = L0Find(levels.l0, files[0], k)
    BY <1>2, <2>6, <2>7, L0FindByNumber, SMTT(60)
  <2> QED
    BY <1>1, <2>5, <2>7
<1>6. L1Find(job.l1, files[1], k) = L1Find(levels.l1, files[1], k)
  <2>1. \A i \in DOMAIN job.l1 : job.l1[i].idx \in Numbers(job.l1)
    BY DEF Numbers
  <2>2. \A j \in DOMAIN levels.l1 :
          levels.l1[j].idx \in Idx /\ NamesTable(levels, 1, levels.l1[j].idx)
    <3>1. \A j \in DOMAIN levels.l1 : levels.l1[j].idx \in Numbers(levels.l1)
      BY DEF Numbers
    <3> QED
      BY <1>1, <3>1, NumbersAreIdx DEF NamesTable
  <2>3. \A i \in DOMAIN job.l1 : \E j \in DOMAIN levels.l1 : levels.l1[j].idx = job.l1[i].idx
    BY <1>3, <2>1 DEF Numbers
  <2>4. \A j \in DOMAIN levels.l1 : Holds(files[1][levels.l1[j].idx], k) =>
          \E i \in DOMAIN job.l1 : job.l1[i].idx = levels.l1[j].idx
    BY <1>4, <2>2 DEF NamesTable, Numbers
  <2>5. RangesOfKeys(job.l1) /\ RangesOfKeys(levels.l1)
    BY <1>1 DEF RangesOfKeys, L1Table
  <2>6. /\ \A i \in DOMAIN job.l1 : Holds(files[1][job.l1[i].idx], k) =>
             \E j \in DOMAIN levels.l1 : files[1][levels.l1[j].idx] = files[1][job.l1[i].idx]
        /\ \A j \in DOMAIN levels.l1 : Holds(files[1][levels.l1[j].idx], k) =>
             \E i \in DOMAIN job.l1 : files[1][job.l1[i].idx] = files[1][levels.l1[j].idx]
    <3>1. ASSUME NEW i \in DOMAIN job.l1
          PROVE  \E j \in DOMAIN levels.l1 : files[1][levels.l1[j].idx] = files[1][job.l1[i].idx]
      <4>1. PICK j \in DOMAIN levels.l1 : levels.l1[j].idx = job.l1[i].idx
        BY <2>3, Zenon
      <4> QED
        BY <4>1, Zenon
    <3>2. ASSUME NEW j \in DOMAIN levels.l1, Holds(files[1][levels.l1[j].idx], k)
          PROVE  \E i \in DOMAIN job.l1 : files[1][job.l1[i].idx] = files[1][levels.l1[j].idx]
      <4>1. PICK i \in DOMAIN job.l1 : job.l1[i].idx = levels.l1[j].idx
        BY <2>4, <3>2, Zenon
      <4> QED
        BY <4>1, Zenon
    <3> QED
      BY <3>1, <3>2, Zenon
  <2> QED
    BY <1>2, <2>5, <2>6, L1FindByNumber, SMTT(60)
<1> QED
  BY <1>5, <1>6 DEF StoreFind

\* The outputs of a finished merge answer like its inputs.
LEMMA OutputsAnswer ==
  ASSUME FaultTablesInv, pc = "installSync", NEW k \in Key
  PROVE  StoreFind([l0 |-> <<>>, l1 |-> job.new], files, k) =
           StoreFind([l0 |-> job.l0, l1 |-> job.l1], files, k)
<1>1. L1Find(job.new, files[1], k) = Merged(job.l0, job.l1, files)[k]
  BY DEF FaultTablesInv, DataInv, MergeProgress
<1>2. SortedRun(job.l1, files[1]) /\ InputsPresent
  BY InputsAreNamed DEF FaultTablesInv, InputsOfLevels
<1>3. Merged(job.l0, job.l1, files)[k] = StoreFind([l0 |-> job.l0, l1 |-> job.l1], files, k)
  BY <1>2, MergeIsLookup DEF InputsPresent
<1>4. L0Find(<<>>, files[0], k) = None
  BY DEF L0Find
<1> QED
  BY <1>1, <1>3, <1>4 DEF StoreFind

\* With the table a flush adds, the store answers like MemTable and store did.
LEMMA StoreFindAfterFlush ==
  ASSUME FaultTablesInv, PublishSync, NEW k \in Key
  PROVE  StoreFind(levels', files, k) = Find(memTable, levels, files, k)
<1>1. /\ pc = "publishSync" /\ levels \in Levels /\ memTable \in Table /\ NewL0 \in Idx
      /\ levels' = [levels EXCEPT !.l0 = Append(levels.l0, NewL0)]
      /\ files[0][NewL0] = memTable
  BY DEF PublishSync, FaultTablesInv, TypeOK, FlushHasNumber, FlushedTable
<1>2. /\ levels'.l0 = Append(levels.l0, NewL0) /\ levels'.l1 = levels.l1
      /\ levels.l0 \in Seq(Idx)
  BY <1>1 DEF Levels
<1>3. L0Find(levels'.l0, files[0], k) =
        IF Holds(memTable, k) THEN memTable[k] ELSE L0Find(levels.l0, files[0], k)
  BY <1>1, <1>2, L0FindAppend
<1>4. Holds(memTable, k) <=> memTable[k] # None
  BY <1>1, SentinelsAreNoData DEF Holds
<1> QED
  BY <1>2, <1>3, <1>4 DEF Find, StoreFind

LEMMA PublishUnseen ==
  ASSUME FaultTablesInv, PublishSync, NEW k \in Key
  PROVE  Find(memTable, levels', files, k) = Find(memTable, levels, files, k)
BY StoreFindAfterFlush DEF Find

LEMMA ReadersStep ==
  ASSUME "installSync" \notin Faults, FaultTablesInv, [FaultyNext]_vars,
         pc # "down", pc' # "down"
  PROVE  \/ View' = View
         \/ /\ pc \in {"rewriteSync", "installSync"}
            /\ \A k \in Key : View'[k] # View[k] => Forgotten(k)
         \/ /\ pc = "apply"
            /\ View' = [View EXCEPT ![op.key] = Visible(op.entry)]
<1>1. TypeOK /\ ~Crash /\ ~CrashTears
  BY DEF FaultTablesInv, Crash, CrashTears, LoseMemory
<1>2. CASE Apply
  BY <1>2, ApplySeen DEF FaultTablesInv, Apply
<1>3. CASE MemClear
  BY <1>1, <1>3, MemClearUnseen DEF FaultTablesInv, DataInv
<1>4. CASE PublishSync
  <2>1. memTable' = memTable /\ files' = files
    BY <1>4 DEF PublishSync, fileVars
  <2> QED
    BY <1>4, <2>1, PublishUnseen DEF View
<1>5. CASE RewriteSync \/ InstallSync
  <2>1. /\ pc \in {"rewriteSync", "installSync"}
        /\ memTable' = memTable /\ files' = files
    BY <1>5 DEF RewriteSync, InstallSync, fileVars
  <2>2. ASSUME NEW k \in Key, ~Forgotten(k)
        PROVE  StoreFind(levels', files, k) = StoreFind(levels, files, k)
    <3>1. CASE RewriteSync
      BY <2>2, <3>1, InputsAnswer DEF RewriteSync
    <3>2. CASE InstallSync
      BY <2>2, <3>2, InputsAnswer, OutputsAnswer DEF InstallSync
    <3> QED
      BY <1>5, <3>1, <3>2
  <2>3. \A k \in Key : ~Forgotten(k) =>
          Find(memTable', levels', files', k) = Find(memTable, levels, files, k)
    BY <2>1, <2>2 DEF Find
  <2> QED
    BY <2>1, <2>3 DEF View
<1>6. CASE UNCHANGED <<memTable, levels>>
  BY <1>1, <1>6, NamedFilesKept, ViewKept
<1> QED
  <2>1. CASE Write \/ Log \/ LogFault \/ CompactionForgets \/ UNCHANGED vars
    BY <1>6, <2>1 DEF Write, Begin, Log, WalAppend, WalSync, LogFault, AppendFails,
       AppendTears, AppendSyncFails, CompactionForgets, vars, volatileVars
  <2>2. CASE Flush \/ FlushFault
    BY <1>3, <1>4, <1>6, <2>2 DEF Flush, WriteTable, RefuseTable, TableSync, Publish,
       WalTruncate, TruncateSync, FlushFault, SaveFails, SaveSyncFails, PublishFails,
       PublishSyncFails, TruncateFails, TruncateSyncFails
  <2>3. CASE Compact \/ CompactFault
    BY <1>5, <1>6, <2>3 DEF Compact, NoCompaction, StartCompaction, RewritePruned,
       WriteChunk, ChunkSync, Install, RemoveInputs, CompactFault, MergeFails,
       ChunkSyncFails, InstallFails, InstallSyncFails, RewriteFails, RemoveFails, Abandon
  <2>4. ~Restart
    BY DEF Restart
  <2> QED
    BY <1>1, <1>2, <2>1, <2>2, <2>3, <2>4 DEF FaultyNext, FaultyStep, WriterStep

\* Whatever fails, readers see a change only when a write is applied, and then
\* for its key, or when a compaction that could not stat its tables ends.
THEOREM ReadersStayUndisturbed ==
  ASSUME "installSync" \notin Faults
  PROVE  FaultySpec => ReadersUndisturbed
<1>1. FaultTablesInv /\ [FaultyNext]_vars =>
        [pc # "down" /\ pc' # "down" =>
           \/ View' = View
           \/ /\ pc \in {"rewriteSync", "installSync"}
              /\ \A k \in Key : View'[k] # View[k] => Forgotten(k)
           \/ /\ pc = "apply"
              /\ View' = [View EXCEPT ![op.key] = Visible(op.entry)]]_vars
  BY ReadersStep
<1> QED
  BY <1>1, FaultyTablesInvariant, PTL DEF FaultySpec, ReadersUndisturbed

-----------------------------------------------------------------------------
(***************************************************************************)
(* The log, when only harmless failures happen.                            *)
(***************************************************************************)
\* Does neither manifest name the number of the next flush?
NextUnnamed == \A m \in {manifest, manifestSynced} : ~NamesTable(m, 0, NewL0)

LEMMA UnnamedIfFlushed == FaultTablesInv /\ Flushed => NextUnnamed
BY NextIsUnnamed DEF NextUnnamed

LEMMA UnnamedAfter == FaultTablesInv' /\ Flushed' => NextUnnamed'
BY UnnamedIfFlushed, PTL

\* Then no log has a table to cover.
LEMMA UnnamedCovered ==
  ASSUME NextUnnamed'
  PROVE  \A w : LogCovers(w)'
BY DEF NextUnnamed, LogCovers

\* A log answers as before while the MemTable, the level state and its files
\* stay as they are.
LEMMA RebuildsKept ==
  ASSUME TypeOK, UNCHANGED <<memTable, levels>>,
         \A l \in 0..1, n \in Idx : NamesTable(levels, l, n) => files'[l][n] = files[l][n]
  PROVE  \A w : /\ Rebuilds(w) => Rebuilds(w)'
                /\ op' = op /\ RebuildsWithOp(w) => RebuildsWithOp(w)'
<1>1. \A k : StoreFind(levels, files', k) = StoreFind(levels, files, k)
  <2>1. levels \in Levels
    BY DEF TypeOK
  <2> QED
    BY <2>1, StoreFindSameFiles
<1>2. \A t, k : Find(t, levels, files', k) = Find(t, levels, files, k)
  BY <1>1 DEF Find
<1> QED
  BY <1>2 DEF Rebuilds, RebuildsWithOp

\* It covers as before what is left behind.
LEMMA LogCoversKept ==
  ASSUME TypeOK, UNCHANGED <<levels, manifestVars>>, LeftBehind' \subseteq LeftBehind,
         \A l \in 0..1, n \in Idx : NamesTable(levels, l, n) => files'[l][n] = files[l][n]
  PROVE  \A w : LogCovers(w) => LogCovers(w)'
<1>1. /\ levels' = levels /\ manifest' = manifest /\ manifestSynced' = manifestSynced
      /\ NewL0' = NewL0
  BY DEF manifestVars, NewL0
<1>2. \A k : StoreFind(levels, files', k) = StoreFind(levels, files, k)
  <2>1. levels \in Levels
    BY DEF TypeOK
  <2> QED
    BY <2>1, StoreFindSameFiles
<1> QED
  BY <1>1, <1>2 DEF LogCovers

\* A log that answers like the MemTable covers a table with its contents.
LEMMA RebuiltIsCovered ==
  ASSUME TypeOK, NEW w, Rebuilds(w), NEW k \in KeysIn(memTable)
  PROVE  Replay(w)[k] # None \/ memTable[k] = StoreFind(levels, files, k)
<1>1. k \in Key /\ memTable[k] # None
  BY DEF KeysIn
<1>2. Find(Replay(w), levels, files, k) = memTable[k]
  BY <1>1 DEF Rebuilds, Find
<1> QED
  BY <1>2 DEF Find

LEMMA LogLogs ==
  ASSUME Faults \subseteq HarmlessFaults, Unreadable = {}, FaultTablesInv, FaultLogInv,
         Write \/ Log \/ LogFault \/ Apply
  PROVE  FaultLogInv'
<1> USE DEF FaultLogInv
<1>1. TypeOK /\ UNCHANGED <<levels, manifestVars, fileVars>> /\ pc # "down"
  BY DEF FaultTablesInv, Write, Begin, Log, WalAppend, WalSync, LogFault, AppendFails,
     AppendTears, AppendSyncFails, Fails, Apply
<1>2. /\ files' = files /\ filesSynced' = filesSynced /\ NewL0' = NewL0
  BY <1>1 DEF fileVars, NewL0
<1>3. \A w : LogCovers(w) => LogCovers(w)'
  <2>1. LeftBehind' \subseteq LeftBehind
    BY <1>2 DEF LeftBehind
  <2> QED
    BY <1>1, <1>2, <2>1, LogCoversKept
<1>4. CASE Write \/ AppendFails
  <2>1. /\ pc \in {"idle", "append"} /\ pc' \in {"idle", "append"}
        /\ wal' = wal /\ walSynced' = walSynced /\ memTable' = memTable
    BY <1>4 DEF Write, Begin, AppendFails, Fails, Unlock, walVars
  <2>2. \A w : Rebuilds(w) => Rebuilds(w)'
    BY <1>1, <1>2, <2>1, RebuildsKept
  <2> QED
    BY <1>3, <2>1, <2>2
<1>5. CASE WalAppend
  <2>1. /\ pc = "append" /\ pc' = "walSync" /\ wal' = LogAppend(wal, op)
        /\ walSynced' = walSynced /\ memTable' = memTable /\ op' = op
    BY <1>5 DEF WalAppend
  <2>2. op \in Record /\ wal \in Seq(Record) /\ op.key \in Key /\ op.entry # None
    BY <2>1, SentinelsDiffer DEF FaultTablesInv, RecordInHand, Record, Entry
  <2>3. PICK w \in Seq(Record) : w = wal' /\ w = Append(wal, op)
    BY <2>1, <2>2, WholeRecords
  <2>4. \A k \in Key : Replay(w)[k] = IF k = op.key THEN op.entry ELSE Replay(wal)[k]
    <3>1. Replay(w) = [Replay(wal) EXCEPT ![op.key] = op.entry]
      BY <2>2, <2>3, ReplayAppend
    <3>2. Replay(wal) \in Table
      BY <1>1, ReplayType DEF TypeOK
    <3> QED
      BY <2>2, <3>1, <3>2 DEF Table
  <2>5. RebuildsWithOp(w)'
    <3>1. Rebuilds(wal)
      BY <2>1
    <3>2. RebuildsWithOp(w)
      BY <2>2, <2>4, <3>1 DEF Rebuilds, RebuildsWithOp, Find
    <3> QED
      BY <1>1, <1>2, <2>1, <3>2, RebuildsKept
  <2>6. Rebuilds(walSynced)' /\ LogCovers(walSynced)'
    BY <1>1, <1>2, <1>3, <2>1, RebuildsKept
  <2>7. LogCovers(w)'
    <3>1. LogCovers(wal)
      BY <2>1
    <3>2. LogCovers(w)
      BY <2>2, <2>4, <3>1 DEF LogCovers, KeysIn
    <3> QED
      BY <1>3, <3>2
  <2> QED
    BY <2>1, <2>3, <2>5, <2>6, <2>7
<1>6. CASE WalSync
  <2>1. /\ pc = "walSync" /\ pc' = "apply" /\ walSynced' = wal
        /\ wal' = wal /\ memTable' = memTable /\ op' = op
    BY <1>6 DEF WalSync
  <2>2. RebuildsWithOp(wal)' /\ LogCovers(wal)'
    BY <1>1, <1>2, <1>3, <2>1, RebuildsKept
  <2> QED
    BY <2>1, <2>2
<1>7. CASE Apply
  <2>1. /\ pc = "apply" /\ pc' \in {"writeTable", "idle"}
        /\ wal' = wal /\ walSynced' = walSynced
        /\ memTable' = [memTable EXCEPT ![op.key] = op.entry]
    BY <1>7 DEF Apply, Unlock, walVars
  <2>2. op \in Record /\ op.key \in Key /\ op.entry # None /\ memTable \in Table
    BY <1>1, <2>1, SentinelsDiffer DEF FaultTablesInv, TypeOK, RecordInHand, Record, Entry
  <2>3. \A k \in Key : memTable'[k] = IF k = op.key THEN op.entry ELSE memTable[k]
    BY <2>1, <2>2 DEF Table
  <2>4. Rebuilds(wal)'
    BY <1>1, <1>2, <2>1, <2>2, <2>3 DEF Rebuilds, RebuildsWithOp, Find
  <2> QED
    BY <1>3, <2>1, <2>4
<1>8. ~AppendTears /\ ~AppendSyncFails
  BY DEF AppendTears, AppendSyncFails, Fails, HarmlessFaults
<1> QED
  BY <1>4, <1>5, <1>6, <1>7, <1>8 DEF Log, LogFault

LEMMA FlushLogs ==
  ASSUME FaultTablesInv, FaultLogInv, "installSync" \notin Faults,
         \/ WriteTable \/ RefuseTable \/ TableSync \/ Publish
         \/ SaveFails \/ SaveSyncFails \/ PublishFails \/ PublishSyncFails
  PROVE  FaultLogInv'
<1> USE DEF FaultLogInv
<1>1. /\ UNCHANGED <<memTable, levels, walVars, manifestSynced>> /\ pc # "down"
      /\ pc \in {"writeTable", "tableSync", "publish", "publishSync"}
      /\ pc' \in {"idle", "tableSync", "publish", "publishSync"}
  BY DEF WriteTable, RefuseTable, TableSync, Publish, SaveFails, SaveSyncFails,
     PublishFails, PublishSyncFails, Fails, Unlock, manifestVars
<1>2. TypeOK /\ wal' = wal /\ walSynced' = walSynced /\ levels' = levels /\ NewL0' = NewL0
      /\ memTable' = memTable /\ manifestSynced' = manifestSynced
  BY <1>1 DEF FaultTablesInv, walVars, NewL0
<1>3. \A l \in 0..1, n \in Idx : NamesTable(levels, l, n) => files'[l][n] = files[l][n]
  <2>1. [FaultyNext]_vars /\ ~Crash /\ ~CrashTears
    BY <1>1 DEF FaultyNext, FaultyStep, WriterStep, Flush, FlushFault, Crash, CrashTears,
       LoseMemory
  <2> QED
    BY <2>1, NamedFilesKept
<1>4. Rebuilds(wal)' /\ Rebuilds(walSynced)' /\ Rebuilds(wal) /\ Rebuilds(walSynced)
  BY <1>1, <1>2, <1>3, RebuildsKept
<1>5. NewL0 \in Idx /\ files \in Files /\ filesSynced \in Files
  BY <1>1, <1>2 DEF FaultTablesInv, FlushHasNumber, TypeOK
<1>6. \A k : StoreFind(levels, files', k) = StoreFind(levels, files, k)
  BY <1>2, <1>3, StoreFindSameFiles DEF TypeOK
<1>7. CASE WriteTable
  <2>1. /\ files' = [files EXCEPT ![0] = [@ EXCEPT ![NewL0] = memTable]]
        /\ filesSynced' = filesSynced /\ manifest' = manifest
    BY <1>7 DEF WriteTable, manifestVars
  <2>2. LeftBehind' \subseteq LeftBehind \cup {memTable}
    BY <1>2, <1>5, <2>1 DEF LeftBehind, Files
  <2>3. ASSUME NEW w, Rebuilds(w), LogCovers(w)
        PROVE  LogCovers(w)'
    <3>1. \A k \in KeysIn(memTable) :
            Replay(w)[k] # None \/ memTable[k] = StoreFind(levels, files, k)
      BY <1>2, <2>3, RebuiltIsCovered
    <3> QED
      BY <1>2, <1>6, <2>1, <2>2, <2>3, <3>1 DEF LogCovers
  <2> QED
    BY <1>1, <1>2, <1>4, <2>3
<1>8. CASE Publish
  <2>1. LeftBehind' \subseteq {memTable} /\ files' = files
    BY <1>2, <1>8 DEF Publish, FaultTablesInv, FlushedTable, LeftBehind, fileVars
  <2>2. ASSUME NEW w, Rebuilds(w)
        PROVE  LogCovers(w)'
    <3>1. \A k \in KeysIn(memTable) :
            Replay(w)[k] # None \/ memTable[k] = StoreFind(levels, files, k)
      BY <1>2, <2>2, RebuiltIsCovered
    <3> QED
      BY <1>2, <2>1, <3>1 DEF LogCovers
  <2> QED
    BY <1>1, <1>2, <1>4, <2>2
<1>9. CASE \/ RefuseTable \/ SaveFails \/ SaveSyncFails \/ TableSync
           \/ PublishFails \/ PublishSyncFails
  <2>1. UNCHANGED manifestVars
    BY <1>9 DEF RefuseTable, SaveFails, SaveSyncFails, TableSync, PublishFails,
       PublishSyncFails
  <2>2. LeftBehind' \subseteq LeftBehind
    <3>1. CASE RefuseTable \/ SaveFails \/ SaveSyncFails
      BY <1>2, <3>1 DEF RefuseTable, SaveFails, SaveSyncFails, fileVars, LeftBehind
    <3>2. CASE TableSync
      BY <1>2, <1>5, <3>2 DEF TableSync, LeftBehind, Files
    <3>3. CASE PublishFails \/ PublishSyncFails
      <4>1. /\ files' = [files EXCEPT ![0] = [@ EXCEPT ![NewL0] = NoFile]]
            /\ filesSynced' = filesSynced
        BY <3>3 DEF PublishFails, PublishSyncFails, RemoveNewTable
      <4> QED
        BY <1>2, <1>5, <4>1 DEF LeftBehind, Files
    <3> QED
      BY <1>9, <3>1, <3>2, <3>3
  <2>3. \A w : LogCovers(w) => LogCovers(w)'
    BY <1>2, <1>3, <2>1, <2>2, LogCoversKept
  <2> QED
    BY <1>1, <1>2, <1>4, <2>3
<1> QED
  BY <1>7, <1>8, <1>9

\* Log and MemTable answer alike with the new table, as they did without.
LEMMA PublishSyncLogs ==
  ASSUME FaultTablesInv, FaultTablesInv', FaultLogInv, PublishSync
  PROVE  FaultLogInv'
<1> USE DEF FaultLogInv
<1>1. /\ pc = "publishSync" /\ pc' = "truncate"
      /\ wal' = wal /\ walSynced' = walSynced /\ memTable' = memTable /\ files' = files
  BY DEF PublishSync, walVars, fileVars
<1>2. \A k \in Key : Find(memTable, levels', files, k) = Find(memTable, levels, files, k)
  BY PublishUnseen
<1>3. ASSUME NEW w, Rebuilds(w)
      PROVE  Rebuilds(w)'
  <2>1. ASSUME NEW k \in Key
        PROVE  Find(Replay(w), levels', files, k) = Find(memTable, levels', files, k)
    <3>1. Find(Replay(w), levels, files, k) = Find(memTable, levels, files, k)
      BY <1>3 DEF Rebuilds
    <3>2. CASE Replay(w)[k] # None
      BY <1>2, <3>1, <3>2 DEF Find
    <3>3. CASE Replay(w)[k] = None
      <4>1. StoreFind(levels', files, k) = Find(memTable, levels, files, k)
        BY StoreFindAfterFlush
      <4> QED
        BY <1>2, <3>3, <4>1 DEF Find
    <3> QED
      BY <3>2, <3>3
  <2> QED
    BY <1>1, <2>1 DEF Rebuilds
<1>4. NextUnnamed'
  BY <1>1, UnnamedAfter DEF Flushed
<1>5. \A w : LogCovers(w)'
  BY <1>4, UnnamedCovered
<1> QED
  BY <1>1, <1>3, <1>5

\* The new table answers for the MemTable it was written from.
LEMMA EmptyingLogs ==
  ASSUME FaultTablesInv, FaultLogInv,
         \/ WalTruncate \/ TruncateSync \/ MemClear
         \/ TruncateFails \/ TruncateSyncFails
  PROVE  FaultLogInv'
<1> USE DEF FaultLogInv
<1>1. /\ UNCHANGED <<levels, manifestVars, fileVars>>
      /\ pc \in {"truncate", "truncateSync", "clear"}
  BY DEF WalTruncate, TruncateSync, MemClear, TruncateFails, TruncateSyncFails, Fails
<1>2. /\ levels' = levels /\ files' = files /\ NewL0' = NewL0
      /\ TypeOK /\ FlushedIsNewest
  BY <1>1 DEF fileVars, NewL0, FaultTablesInv, DataInv
<1>3. \A w : LogCovers(w)'
  <2>1. NextUnnamed
    BY <1>1, UnnamedIfFlushed DEF Flushed
  <2>2. NextUnnamed'
    BY <1>1, <1>2, <2>1 DEF NextUnnamed, manifestVars
  <2> QED
    BY <2>2, UnnamedCovered
<1>4. Rebuilds(<<>>)
  BY <1>1, <1>2, LevelZeroHasMemTable, ReplayNothing DEF Rebuilds
<1>5. memTable' = memTable => \A w : Rebuilds(w) => Rebuilds(w)'
  BY <1>2, RebuildsKept
<1>6. CASE WalTruncate
  <2>1. /\ pc = "truncate" /\ pc' = "truncateSync" /\ wal' = <<>>
        /\ walSynced' = walSynced /\ memTable' = memTable
    BY <1>6 DEF WalTruncate
  <2>2. Rebuilds(<<>>)' /\ Rebuilds(walSynced)'
    BY <1>4, <1>5, <2>1
  <2> QED
    BY <1>3, <2>1, <2>2
<1>7. CASE TruncateSync
  <2>1. /\ pc = "truncateSync" /\ pc' = "clear" /\ walSynced' = wal /\ wal = <<>>
        /\ wal' = wal /\ memTable' = memTable
    BY <1>7 DEF TruncateSync
  <2> QED
    BY <1>3, <1>4, <1>5, <2>1
<1>8. CASE MemClear
  <2>1. /\ pc = "clear" /\ pc' = "maybeCompact" /\ memTable' = EmptyTable
        /\ wal' = <<>> /\ walSynced' = <<>>
    BY <1>8 DEF MemClear, walVars
  <2>2. Rebuilds(<<>>)'
    BY <2>1, ReplayNothing DEF Rebuilds
  <2> QED
    BY <1>3, <2>1, <2>2
<1>9. CASE TruncateFails \/ TruncateSyncFails
  <2>1. /\ pc' = "idle" /\ wal' = wal /\ walSynced' = walSynced /\ memTable' = memTable
    BY <1>9 DEF TruncateFails, TruncateSyncFails, Unlock, walVars
  <2> QED
    BY <1>1, <1>3, <1>5, <2>1
<1> QED
  BY <1>6, <1>7, <1>8, <1>9

LEMMA CompactionLogs ==
  ASSUME FaultTablesInv, FaultTablesInv', FaultLogInv, "installSync" \notin Faults,
         Compact \/ CompactFault \/ CompactionForgets
  PROVE  FaultLogInv'
<1> USE DEF FaultLogInv
<1>1. pc \in {"maybeCompact", "rewrite", "rewriteSync", "merge", "chunkSync",
              "installSync", "remove"} /\ Flushed
  BY DEF Compact, NoCompaction, StartCompaction, RewritePruned, RewriteSync, WriteChunk,
     ChunkSync, Install, InstallSync, RemoveInputs, CompactFault, MergeFails,
     ChunkSyncFails, InstallFails, InstallSyncFails, RewriteFails, RemoveFails,
     CompactionForgets, Fails, Flushed
<1>2. /\ memTable' = memTable /\ wal' = wal /\ walSynced' = walSynced
      /\ pc' = "idle" \/ pc' \in {"rewrite", "rewriteSync", "merge", "chunkSync",
                                  "installSync", "remove"}
  BY DEF Compact, NoCompaction, StartCompaction, RewritePruned, RewriteSync, WriteChunk,
     ChunkSync, Install, InstallSync, RemoveInputs, CompactFault, MergeFails,
     ChunkSyncFails, InstallFails, InstallSyncFails, RewriteFails, RemoveFails,
     CompactionForgets, Fails, Unlock, Abandon, walVars
<1>3. wal = <<>> /\ walSynced = <<>> /\ memTable = EmptyTable
  BY <1>1
<1>4. Rebuilds(<<>>)'
  BY <1>2, <1>3, ReplayNothing DEF Rebuilds
<1>5. NextUnnamed'
  <2>1. CASE pc' # "idle"
    BY <1>2, <2>1, UnnamedAfter DEF Flushed
  <2>2. CASE pc' = "idle" /\ UNCHANGED <<levels, manifestVars>>
    BY <1>1, <2>2, UnnamedIfFlushed DEF NextUnnamed, manifestVars, NewL0
  <2>3. CASE RewriteSync
    <3>1. /\ manifest' = manifest /\ manifestSynced' = manifest
          /\ levels' = [l0 |-> job.l0, l1 |-> job.l1] /\ levels' = manifest
      BY <2>3 DEF RewriteSync, FaultTablesInv, ManifestsFollow
    <3>2. levels' \in Levels
      BY DEF FaultTablesInv, TypeOK
    <3> QED
      BY <3>1, <3>2, OneStateUnnamed DEF NextUnnamed
  <2> QED
    BY <2>1, <2>2, <2>3
       DEF Compact, NoCompaction, StartCompaction, RewritePruned, WriteChunk, ChunkSync,
           Install, InstallSync, RemoveInputs, CompactFault, MergeFails, ChunkSyncFails,
           InstallFails, InstallSyncFails, RewriteFails, RemoveFails, CompactionForgets,
           Abandon
<1> QED
  BY <1>2, <1>3, <1>4, <1>5, UnnamedCovered

\* After a start-up a table that the manifest names and that is missing is gone.
LEMMA RestartLeavesNothing ==
  ASSUME FaultTablesInv, Restart, NamesTable(manifest, 0, NewL0')
  PROVE  LeftBehind' = {}
<1>1. /\ pc = "down" /\ levels' = Prune(manifest, files)
      /\ files' = files /\ filesSynced' = files /\ manifest \in Levels
  BY DEF Restart, FaultTablesInv, ManifestsFollow, TypeOK, fileVars
<1>2. /\ levels' \in Levels
      /\ \A l \in 0..1, n \in Idx :
           NamesTable(levels', l, n) <=> NamesTable(manifest, l, n) /\ files[l][n] # NoFile
  BY <1>1, PruneNames
<1>3. ~NamesTable(levels', 0, NewL0')
  <2>1. NewL0' = NextIndex({levels'.l0[i] : i \in DOMAIN levels'.l0})
    BY DEF NewL0
  <2>2. NewL0' \in Nat /\ \A n : NamesTable(levels', 0, n) => n \in Nat /\ n < NewL0'
    BY <1>2, <2>1, NextIsAbove
  <2> HIDE <2>1
  <2> QED
    BY <2>2
<1>4. NewL0' \in Idx
  BY <1>1 DEF NamesTable, Levels
<1> QED
  BY <1>1, <1>2, <1>3, <1>4 DEF LeftBehind

\* A crash picks one log, a start-up replays it.
LEMMA RestartLogs ==
  ASSUME FaultTablesInv, FaultLogInv, Crash \/ Restart
  PROVE  FaultLogInv'
<1>1. CASE Crash
  <2>1. /\ pc' = "down" /\ walSynced' = wal' /\ wal' \in {wal, walSynced}
    BY <1>1 DEF Crash, LoseMemory
  <2>2. wal' \in Seq(Record)
    BY <2>1 DEF FaultLogInv
  <2> QED
    BY <2>1, <2>2 DEF FaultLogInv
<1>2. CASE Restart
  <2>1. /\ pc = "down" /\ pc' = "idle" /\ memTable' = Replay(wal)
        /\ wal' = wal /\ walSynced' = walSynced /\ walSynced = wal
        /\ manifest' = manifest /\ manifestSynced' = manifest
    BY <1>2 DEF Restart, walVars, manifestVars, FaultTablesInv, ManifestsFollow, FaultLogInv
  <2>2. Rebuilds(wal)'
    BY <2>1 DEF Rebuilds
  <2>3. LogCovers(wal)'
    <3>1. NamesTable(manifest, 0, NewL0') => LeftBehind' = {}
      BY <1>2, RestartLeavesNothing
    <3> QED
      BY <2>1, <3>1 DEF LogCovers
  <2> QED
    BY <2>1, <2>2, <2>3 DEF FaultLogInv
<1> QED
  BY <1>1, <1>2

LEMMA StutterLogs ==
  ASSUME FaultLogInv, UNCHANGED vars
  PROVE  FaultLogInv'
<1>1. /\ pc' = pc /\ op' = op /\ memTable' = memTable /\ levels' = levels
      /\ wal' = wal /\ walSynced' = walSynced
      /\ manifest' = manifest /\ manifestSynced' = manifestSynced
      /\ files' = files /\ filesSynced' = filesSynced
  BY DEF vars, volatileVars, walVars, manifestVars, fileVars
<1>2. NewL0' = NewL0
  BY <1>1 DEF NewL0
<1>3. LeftBehind' = LeftBehind
  BY <1>1, <1>2 DEF LeftBehind
<1>4. Rebuilds(wal)' = Rebuilds(wal) /\ Rebuilds(walSynced)' = Rebuilds(walSynced)
  BY <1>1 DEF Rebuilds
<1>5. RebuildsWithOp(wal)' = RebuildsWithOp(wal)
  BY <1>1 DEF RebuildsWithOp
<1>6. LogCovers(wal)' = LogCovers(wal) /\ LogCovers(walSynced)' = LogCovers(walSynced)
  BY <1>1, <1>2, <1>3 DEF LogCovers
<1> QED
  BY <1>1, <1>4, <1>5, <1>6 DEF FaultLogInv

LEMMA InitLogs == Init => FaultLogInv
<1> SUFFICES ASSUME Init PROVE FaultLogInv
  OBVIOUS
<1>1. /\ pc = "idle" /\ memTable = EmptyTable /\ wal = <<>> /\ walSynced = <<>>
      /\ manifest = NoLevels /\ manifestSynced = NoLevels
  BY DEF Init
<1>2. Rebuilds(<<>>)
  BY <1>1, ReplayNothing DEF Rebuilds
<1>3. LogCovers(<<>>)
  BY <1>1 DEF LogCovers, NamesTable, NoLevels
<1> QED
  BY <1>1, <1>2, <1>3 DEF FaultLogInv

LEMMA LogsStep ==
  ASSUME Faults \subseteq HarmlessFaults, Unreadable = {},
         FaultTablesInv, FaultTablesInv', FaultLogInv, [FaultyNext]_vars
  PROVE  FaultLogInv'
<1>1. "installSync" \notin Faults /\ ~CrashTears
  BY DEF HarmlessFaults, CrashTears, Fails
<1>2. CASE Write \/ Log \/ LogFault \/ Apply
  BY <1>2, LogLogs
<1>3. CASE \/ WriteTable \/ RefuseTable \/ TableSync \/ Publish
           \/ SaveFails \/ SaveSyncFails \/ PublishFails \/ PublishSyncFails
  BY <1>1, <1>3, FlushLogs
<1>4. CASE PublishSync
  BY <1>4, PublishSyncLogs
<1>5. CASE \/ WalTruncate \/ TruncateSync \/ MemClear
           \/ TruncateFails \/ TruncateSyncFails
  BY <1>5, EmptyingLogs
<1>6. CASE Compact \/ CompactFault \/ CompactionForgets
  BY <1>1, <1>6, CompactionLogs
<1>7. CASE Crash \/ Restart
  BY <1>7, RestartLogs
<1>8. CASE UNCHANGED vars
  BY <1>8, StutterLogs
<1> QED
  BY <1>1, <1>2, <1>3, <1>4, <1>5, <1>6, <1>7, <1>8
     DEF FaultyNext, FaultyStep, WriterStep, Flush, FlushFault

\* What the tables and the log hold to, whatever harmless failure happens.
THEOREM HarmlessFaultsInvariant ==
  ASSUME Faults \subseteq HarmlessFaults, Unreadable = {}
  PROVE  FaultySpec => [](FaultTablesInv /\ FaultLogInv)
<1>1. "installSync" \notin Faults
  BY DEF HarmlessFaults
<1>2. Init => FaultTablesInv /\ FaultLogInv
  BY InitTables, InitLogs
<1>3. FaultTablesInv /\ FaultLogInv /\ [FaultyNext]_vars => (FaultTablesInv /\ FaultLogInv)'
  <2> SUFFICES ASSUME FaultTablesInv, FaultLogInv, [FaultyNext]_vars
               PROVE  (FaultTablesInv /\ FaultLogInv)'
    OBVIOUS
  <2>1. FaultTablesInv'
    BY <1>1, TablesStep
  <2>2. FaultLogInv'
    BY <2>1, LogsStep
  <2> QED
    BY <2>1, <2>2
<1> QED
  BY <1>2, <1>3, PTL DEF FaultySpec

\* What the run faults_refine checks of both invariants, for every set of
\* failures.
THEOREM FaultyInvariant == FaultySpec => []FaultInv
<1>1. CASE Faults \subseteq HarmlessFaults /\ Unreadable = {}
  <2>1. FaultTablesInv /\ FaultLogInv => FaultInv
    BY DEF FaultInv
  <2> QED
    BY <1>1, <2>1, HarmlessFaultsInvariant, PTL
<1>2. CASE "installSync" \notin Faults /\ ~(Faults \subseteq HarmlessFaults /\ Unreadable = {})
  <2>1. FaultTablesInv => FaultInv
    BY <1>2 DEF FaultInv
  <2> QED
    BY <1>2, <2>1, FaultyTablesInvariant, PTL
<1>3. CASE "installSync" \in Faults
  <2>1. FaultInv
    BY <1>3 DEF FaultInv, HarmlessFaults
  <2> QED
    BY <2>1, PTL
<1> QED
  BY <1>1, <1>2, <1>3

-----------------------------------------------------------------------------
(***************************************************************************)
(* What a restart finds.                                                   *)
(***************************************************************************)
\* Manifest m, pruned to p over the files fs of a crash, names the tables of
\* level 0 with their contents and, it may be, the table a failed flush left.
FollowsL0(m, p, fs) ==
  /\ p.l0 \in Seq(Idx) /\ levels.l0 \in Seq(Idx) /\ m.l0 \in Seq(Idx)
  /\ Ascends(p.l0)
  /\ Ascends(levels.l0)
  /\ NewL0 \in Nat
  /\ \A n : NamesTable(levels, 0, n) => n \in Nat /\ n < NewL0
  /\ \A n \in Idx : NamesTable(m, 0, n) => NamesTable(levels, 0, n) \/ n = NewL0
  /\ \A n \in Idx : NamesTable(levels, 0, n) => NamesTable(m, 0, n)
  /\ \A l \in 0..1, n \in Idx : NamesTable(p, l, n) <=> NamesTable(m, l, n) /\ fs[l][n] # NoFile
  /\ \A l \in 0..1, n \in Idx : NamesTable(levels, l, n) =>
       fs[l][n] = files[l][n] /\ files[l][n] # NoFile

\* Such a level 0 answers like the level state's, but for the keys of that table.
LEMMA OneMoreTableAnswers ==
  ASSUME NEW m, NEW p, NEW fs, NEW k, FollowsL0(m, p, fs)
  PROVE  L0Find(p.l0, fs[0], k) =
           IF NamesTable(m, 0, NewL0) /\ Holds(fs[0][NewL0], k) THEN fs[0][NewL0][k]
           ELSE L0Find(levels.l0, files[0], k)
<1>1. \A n \in Idx : NamesTable(m, 0, n) => NamesTable(levels, 0, n) \/ n = NewL0
  BY DEF FollowsL0
<1>2. /\ Ascends(p.l0)
      /\ \A l \in 0..1, n \in Idx : NamesTable(p, l, n) <=> NamesTable(m, l, n) /\ fs[l][n] # NoFile
  BY DEF FollowsL0
<1>3. /\ Ascends(levels.l0)
      /\ \A n \in Idx : NamesTable(levels, 0, n) => NamesTable(m, 0, n)
  BY DEF FollowsL0
<1>4. \A l \in 0..1, n \in Idx : NamesTable(levels, l, n) =>
        fs[l][n] = files[l][n] /\ files[l][n] # NoFile
  BY DEF FollowsL0
<1>5. /\ NewL0 \in Nat
      /\ \A n : NamesTable(levels, 0, n) => n \in Nat /\ n < NewL0
  BY DEF FollowsL0
<1>6. /\ p.l0 \in Seq(Idx) /\ levels.l0 \in Seq(Idx) /\ m.l0 \in Seq(Idx)
  BY DEF FollowsL0
<1>7. /\ \A i \in DOMAIN p.l0 : p.l0[i] \in Idx /\ NamesTable(p, 0, p.l0[i])
      /\ \A j \in DOMAIN levels.l0 :
           levels.l0[j] \in Idx /\ NamesTable(levels, 0, levels.l0[j])
  BY <1>6 DEF NamesTable
<1>8. Idx \in SUBSET Int
  BY DEF Idx
<1>9. CASE NamesTable(m, 0, NewL0) /\ Holds(fs[0][NewL0], k)
  <2>1. NewL0 \in Idx
    BY <1>6, <1>9 DEF NamesTable
  <2>2. NamesTable(p, 0, NewL0)
    BY <1>2, <1>9, <2>1 DEF Holds
  <2>3. PICK i \in DOMAIN p.l0 : p.l0[i] = NewL0
    BY <2>2 DEF NamesTable
  <2>4. \A j \in DOMAIN p.l0 : p.l0[j] <= p.l0[i]
    BY <1>1, <1>2, <1>5, <1>7, <2>3
  <2>5. ASSUME NEW I \in SUBSET Int, p.l0 \in Seq(I)
        PROVE  L0Find(p.l0, fs[0], k) = fs[0][p.l0[i]][k]
    BY <1>2, <1>9, <2>3, <2>4, <2>5, L0FindHighest
  <2> QED
    BY <1>6, <1>8, <1>9, <2>3, <2>5
<1>10. CASE ~(NamesTable(m, 0, NewL0) /\ Holds(fs[0][NewL0], k))
  <2>1. \A i \in DOMAIN p.l0 : Holds(fs[0][p.l0[i]], k) => NamesTable(levels, 0, p.l0[i])
    BY <1>1, <1>2, <1>7, <1>10
  <2>2. \A i \in DOMAIN p.l0 : Holds(fs[0][p.l0[i]], k) =>
          \E j \in DOMAIN levels.l0 :
            levels.l0[j] = p.l0[i] /\ files[0][levels.l0[j]] = fs[0][p.l0[i]]
    <3> SUFFICES ASSUME NEW i \in DOMAIN p.l0, Holds(fs[0][p.l0[i]], k)
                 PROVE  \E j \in DOMAIN levels.l0 :
                          levels.l0[j] = p.l0[i] /\ files[0][levels.l0[j]] = fs[0][p.l0[i]]
      OBVIOUS
    <3>1. p.l0[i] \in Idx /\ NamesTable(levels, 0, p.l0[i])
      BY <1>7, <2>1
    <3>2. PICK j \in DOMAIN levels.l0 : levels.l0[j] = p.l0[i]
      BY <3>1 DEF NamesTable
    <3>3. fs[0][p.l0[i]] = files[0][p.l0[i]]
      BY <1>4, <3>1
    <3> QED
      BY <3>2, <3>3
  <2>3. \A j \in DOMAIN levels.l0 : Holds(files[0][levels.l0[j]], k) =>
          \E i \in DOMAIN p.l0 :
            p.l0[i] = levels.l0[j] /\ fs[0][p.l0[i]] = files[0][levels.l0[j]]
    <3> SUFFICES ASSUME NEW j \in DOMAIN levels.l0
                 PROVE  \E i \in DOMAIN p.l0 :
                          p.l0[i] = levels.l0[j] /\ fs[0][p.l0[i]] = files[0][levels.l0[j]]
      OBVIOUS
    <3>1. levels.l0[j] \in Idx /\ NamesTable(levels, 0, levels.l0[j])
      BY <1>7
    <3>2. fs[0][levels.l0[j]] = files[0][levels.l0[j]] /\ files[0][levels.l0[j]] # NoFile
      BY <1>4, <3>1
    <3>3. NamesTable(p, 0, levels.l0[j])
      BY <1>2, <1>3, <3>1, <3>2
    <3>4. PICK i \in DOMAIN p.l0 : p.l0[i] = levels.l0[j]
      BY <3>3 DEF NamesTable
    <3> QED
      BY <3>2, <3>4
  <2>4. Ascends(p.l0) /\ Ascends(levels.l0)
    BY <1>2, <1>3
  <2>5. ASSUME NEW I \in SUBSET Int, p.l0 \in Seq(I), levels.l0 \in Seq(I)
        PROVE  L0Find(p.l0, fs[0], k) = L0Find(levels.l0, files[0], k)
    <3> DEFINE s1 == p.l0
               s2 == levels.l0
               d1 == fs[0]
               d2 == files[0]
    <3>1. s1 \in Seq(I) /\ s2 \in Seq(I) /\ Ascends(s1) /\ Ascends(s2)
      BY <2>4, <2>5
    <3>2. /\ \A i \in DOMAIN s1 : Holds(d1[s1[i]], k) =>
               \E j \in DOMAIN s2 : s2[j] = s1[i] /\ d2[s2[j]] = d1[s1[i]]
          /\ \A j \in DOMAIN s2 : Holds(d2[s2[j]], k) =>
               \E i \in DOMAIN s1 : s1[i] = s2[j] /\ d1[s1[i]] = d2[s2[j]]
      BY <2>2, <2>3
    <3> HIDE DEF s1, s2, d1, d2
    <3>3. L0Find(s1, d1, k) = L0Find(s2, d2, k)
      BY <2>5, <3>1, <3>2, L0FindByNumber
    <3> QED
      BY <3>3 DEF s1, s2, d1, d2
  <2> QED
    BY <1>6, <1>8, <1>10, <2>5
<1> QED
  BY <1>9, <1>10

\* Level 0 of a manifest that follows the level state answers like that, but
\* for the keys of the table a failed flush left.
LEMMA FollowerAnswersL0 ==
  ASSUME FaultTablesInv, pc # "down", NEW m \in {manifest, manifestSynced}, Follows(m),
         NEW S \in SUBSET Unsynced, NEW fs, fs = FilesAfter(S), NEW k \in Key,
         NEW p, p = Prune(m, fs)
  PROVE  L0Find(p.l0, fs[0], k) =
           IF NamesTable(m, 0, NewL0) /\ Holds(fs[0][NewL0], k) THEN fs[0][NewL0][k]
           ELSE L0Find(levels.l0, files[0], k)
<1>1. /\ m \in Levels /\ Ascends(m.l0) /\ SortedRun(m.l1, fs[1])
      /\ \A n \in Idx : NamesTable(m, 0, n) => NamesTable(levels, 0, n) \/ n = NewL0
  BY ManifestAtCrash
<1>2. /\ p \in Levels /\ Ascends(p.l0)
      /\ \A l \in 0..1, n \in Idx : NamesTable(p, l, n) <=> NamesTable(m, l, n) /\ fs[l][n] # NoFile
  BY <1>1, PruneNames, PruneOrder
<1>3. /\ levels \in Levels /\ Ascends(levels.l0)
      /\ \A n \in Idx : NamesTable(levels, 0, n) => NamesTable(m, 0, n)
  BY DEF FaultTablesInv, TypeOK, ManifestsFollow, Follows, L0Numbers
<1>4. \A l \in 0..1, n \in Idx : NamesTable(levels, l, n) =>
        fs[l][n] = files[l][n] /\ files[l][n] # NoFile
  BY CrashLeavesLevels
<1>5. /\ NewL0 \in Nat
      /\ \A n : NamesTable(levels, 0, n) => n \in Nat /\ n < NewL0
  BY <1>3, NumbersBelowNext
<1>6. /\ p.l0 \in Seq(Idx) /\ levels.l0 \in Seq(Idx) /\ m.l0 \in Seq(Idx)
  BY <1>1, <1>2, <1>3 DEF Levels
<1>7. FollowsL0(m, p, fs)
  BY <1>1, <1>2, <1>3, <1>4, <1>5, <1>6 DEF FollowsL0
<1> QED
  BY <1>7, OneMoreTableAnswers

\* The two manifests answer alike after a crash, unless a compaction forgot a
\* table that has the key.
LEMMA PrunedAnswers ==
  ASSUME FaultTablesInv, pc # "down", NEW m \in {manifest, manifestSynced},
         NEW S \in SUBSET Unsynced, NEW fs, fs = FilesAfter(S), NEW k \in Key,
         pc \in {"rewriteSync", "installSync"} => ~Forgotten(k)
  PROVE  StoreFind(Prune(m, fs), fs, k) =
           IF NamesTable(m, 0, NewL0) /\ Holds(fs[0][NewL0], k) THEN fs[0][NewL0][k]
           ELSE StoreFind(levels, files, k)
<1>1. /\ m \in Levels
      /\ \A n \in Idx : NamesTable(m, 0, n) => NamesTable(levels, 0, n) \/ n = NewL0
      /\ \A n \in Idx : NamesTable(m, 1, n) => fs[1][n] = files[1][n] /\ files[1][n] # NoFile
  BY ManifestAtCrash
<1>2. \A l \in 0..1, n \in Idx : NamesTable(levels, l, n) =>
        fs[l][n] = files[l][n] /\ files[l][n] # NoFile
  BY CrashLeavesLevels
<1>3. levels \in Levels
  BY DEF FaultTablesInv, TypeOK
<1>4. CASE Follows(m)
  <2> DEFINE p == Prune(m, fs)
  <2>1. L0Find(p.l0, fs[0], k) =
          IF NamesTable(m, 0, NewL0) /\ Holds(fs[0][NewL0], k) THEN fs[0][NewL0][k]
          ELSE L0Find(levels.l0, files[0], k)
    BY <1>4, FollowerAnswersL0
  <2>2. m.l1 \in Seq(L1Table) /\ m.l1 = levels.l1
    BY <1>1, <1>4 DEF Levels, Follows
  <2>3. \A n \in Numbers(m.l1) : n \in Idx /\ fs[1][n] = files[1][n] /\ files[1][n] # NoFile
    BY <1>1, <2>2, NumbersAreIdx DEF NamesTable
  <2>4. p.l1 = levels.l1
    BY <1>1, <2>2, <2>3, PruneKeepsRun
  <2>5. \A i \in DOMAIN levels.l1 : fs[1][levels.l1[i].idx] = files[1][levels.l1[i].idx]
    BY <2>2, <2>3 DEF Numbers
  <2>6. L1Find(p.l1, fs[1], k) = L1Find(levels.l1, files[1], k)
    BY <2>2, <2>4, <2>5, L1FindSameFiles
  <2>7. Holds(fs[0][NewL0], k) => fs[0][NewL0][k] # None
    BY DEF Holds
  <2> HIDE DEF p
  <2>8. StoreFind(p, fs, k) =
          IF NamesTable(m, 0, NewL0) /\ Holds(fs[0][NewL0], k) THEN fs[0][NewL0][k]
          ELSE StoreFind(levels, files, k)
    BY <2>1, <2>6, <2>7 DEF StoreFind
  <2> QED
    BY <2>8 DEF p
<1>5. CASE ~Follows(m)
  <2>1. pc \in {"rewriteSync", "installSync"} /\ m = manifest
    BY <1>5 DEF FaultTablesInv, ManifestsFollow
  <2>2. ~NamesTable(m, 0, NewL0)
    BY <2>1, NextIsUnnamed DEF Flushed
  <2>3. \A l \in 0..1, n \in Idx : NamesTable(m, l, n) =>
          fs[l][n] = files[l][n] /\ files[l][n] # NoFile
    BY <1>1, <1>2, <2>2
  <2>4. Prune(m, fs) = m
    BY <2>3, NothingPruned
  <2>5. StoreFind(m, fs, k) = StoreFind(m, files, k)
    BY <1>1, <2>3, StoreFindSameFiles
  <2>6. StoreFind(m, files, k) = StoreFind(levels, files, k)
    <3>1. CASE pc = "rewriteSync"
      BY <2>1, <3>1, InputsAnswer DEF FaultTablesInv, ManifestsFollow
    <3>2. CASE pc = "installSync"
      BY <2>1, <3>2, InputsAnswer, OutputsAnswer DEF FaultTablesInv, ManifestsFollow
    <3> QED
      BY <2>1, <3>1, <3>2
  <2> QED
    BY <2>2, <2>4, <2>5, <2>6
<1> QED
  BY <1>4, <1>5

\* Unless stat fails, a compaction forgets nothing.
LEMMA NothingForgotten ==
  ASSUME FaultTablesInv, "stat" \notin Faults, NEW k,
         pc \in {"rewrite", "rewriteSync", "merge", "chunkSync", "installSync"}
  PROVE  ~Forgotten(k)
BY DEF FaultTablesInv, InputsOfLevels, Forgotten, NamesTable

\* A log that covers what was left behind finds the same after a crash.
LEMMA CrashAnswers ==
  ASSUME FaultTablesInv, "stat" \notin Faults, pc # "down",
         NEW m \in {manifest, manifestSynced}, NEW S \in SUBSET Unsynced,
         NEW w, LogCovers(w), NEW k \in Key
  PROVE  Find(Replay(w), Prune(m, FilesAfter(S)), FilesAfter(S), k) =
           Find(Replay(w), levels, files, k)
<1> DEFINE fs == FilesAfter(S)
           t  == fs[0][NewL0]
<1>1. CASE Replay(w)[k] # None
  BY <1>1 DEF Find
<1>2. CASE Replay(w)[k] = None
  <2>1. StoreFind(Prune(m, fs), fs, k) =
          IF NamesTable(m, 0, NewL0) /\ Holds(t, k) THEN t[k]
          ELSE StoreFind(levels, files, k)
    BY PrunedAnswers, NothingForgotten
  <2>2. ASSUME NamesTable(m, 0, NewL0), Holds(t, k)
        PROVE  t[k] = StoreFind(levels, files, k)
    <3>1. NewL0 \in Idx
      BY <2>2 DEF NamesTable, FaultTablesInv, TypeOK, Levels
    <3>2. t \in {files[0][NewL0], filesSynced[0][NewL0]}
      BY <3>1, CrashLeavesLevels
    <3>3. t \in LeftBehind /\ k \in KeysIn(t)
      BY <2>2, <3>2 DEF LeftBehind, Holds, KeysIn
    <3> HIDE DEF t
    <3> QED
      BY <1>2, <2>2, <3>3 DEF LogCovers
  <2> QED
    BY <1>2, <2>1, <2>2 DEF Find
<1> QED
  BY <1>1, <1>2

LEMMA FaultsAreCrashSafe ==
  ASSUME Faults \subseteq HarmlessFaults, FaultTablesInv, FaultLogInv
  PROVE  CrashSafe
<1> SUFFICES ASSUME pc # "down", NEW w \in {wal, walSynced},
                    NEW m \in {manifest, manifestSynced}, NEW S \in SUBSET Unsynced
             PROVE  \/ Recovered(w, m, FilesAfter(S)) = View
                    \/ /\ op # None
                       /\ Recovered(w, m, FilesAfter(S)) =
                            [View EXCEPT ![op.key] = Visible(op.entry)]
  BY DEF CrashSafe
<1>1. "stat" \notin Faults /\ LogCovers(w)
  BY DEF HarmlessFaults, FaultLogInv
<1>2. Recovered(w, m, FilesAfter(S)) =
        [k \in Key |-> Visible(Find(Replay(w), levels, files, k))]
  BY <1>1, CrashAnswers DEF Recovered
<1>3. View = [k \in Key |-> Visible(Find(memTable, levels, files, k))]
  BY DEF View
<1>4. CASE Rebuilds(w)
  BY <1>2, <1>3, <1>4 DEF Rebuilds
<1>5. CASE ~Rebuilds(w)
  <2>1. pc \in {"walSync", "apply"} /\ RebuildsWithOp(w)
    BY <1>5 DEF FaultLogInv
  <2>2. op \in Record /\ op # None /\ op.key \in Key
    BY <2>1, SentinelsAreNoData DEF FaultTablesInv, RecordInHand, Record
  <2>3. \A k \in Key : Find(Replay(w), levels, files, k) =
          IF k = op.key THEN op.entry ELSE Find(memTable, levels, files, k)
    BY <2>1 DEF RebuildsWithOp
  <2> QED
    BY <1>2, <1>3, <2>2, <2>3
<1> QED
  BY <1>4, <1>5

\* Wherever a crash strikes after whatever harmless failures, a restart finds
\* every write that returned, and the interrupted one entirely or not at all:
\* a flush that fails after the manifest names its table, and leaves the name
\* behind, neither loses the MemTable nor brings back what was overwritten.
THEOREM HarmlessFaultsAreCrashSafe ==
  ASSUME Faults \subseteq HarmlessFaults, Unreadable = {}
  PROVE  FaultySpec => []CrashSafe
<1>1. FaultTablesInv /\ FaultLogInv => CrashSafe
  BY FaultsAreCrashSafe
<1> QED
  BY <1>1, HarmlessFaultsInvariant, PTL

-----------------------------------------------------------------------------
(***************************************************************************)
(* The map whose writes may be rejected.                                   *)
(***************************************************************************)
\* A step that is not of the map leaves what readers see, and keeps the write
\* in hand or gives it up.
LEMMA QuietOrRejected ==
  ASSUME Faults \subseteq HarmlessFaults, FaultTablesInv,
         FaultyStep \/ UNCHANGED vars, ~Apply
  PROVE  RejectingKV!Reject \/ UNCHANGED RejectingKV!kvVars
<1>1. /\ "installSync" \notin Faults /\ "stat" \notin Faults
      /\ [FaultyNext]_vars
  BY DEF HarmlessFaults, FaultyNext
<1>2. CASE UNCHANGED vars
  BY <1>2 DEF vars, volatileVars, walVars, manifestVars, fileVars, View, RejectingKV!kvVars
<1>3. CASE FaultyStep
  <2>1. pc # "down" /\ pc' # "down" /\ pc # "apply" /\ op' \in {op, None}
    <3>1. CASE Log \/ LogFault \/ CompactionForgets
      BY <3>1 DEF Log, WalAppend, WalSync, LogFault, AppendFails, AppendTears,
         AppendSyncFails, CompactionForgets, Fails, Unlock
    <3>2. CASE Flush \/ FlushFault
      BY <3>2 DEF Flush, WriteTable, RefuseTable, TableSync, Publish, PublishSync,
         WalTruncate, TruncateSync, MemClear, FlushFault, SaveFails, SaveSyncFails,
         PublishFails, PublishSyncFails, TruncateFails, TruncateSyncFails, Fails, Unlock
    <3>3. CASE Compact \/ CompactFault
      BY <3>3 DEF Compact, NoCompaction, StartCompaction, RewritePruned, RewriteSync,
         WriteChunk, ChunkSync, Install, InstallSync, RemoveInputs, CompactFault,
         MergeFails, ChunkSyncFails, InstallFails, InstallSyncFails, RewriteFails,
         RemoveFails, Fails, Unlock, Abandon
    <3> QED
      BY <1>3, <3>1, <3>2, <3>3 DEF FaultyStep, WriterStep
  <2>2. \/ View' = View
        \/ /\ pc \in {"rewriteSync", "installSync"}
           /\ \A k \in Key : View'[k] # View[k] => Forgotten(k)
    BY <1>1, <2>1, ReadersStep
  <2>3. View' = View
    <3>1. CASE pc \in {"rewriteSync", "installSync"} /\ \A k \in Key : View'[k] = View[k]
      BY <2>1, <3>1 DEF View
    <3> QED
      BY <1>1, <2>2, <3>1, NothingForgotten
  <2> QED
    BY <2>1, <2>3 DEF RejectingKV!Reject, RejectingKV!kvVars
<1> QED
  BY <1>2, <1>3

LEMMA FaultyStepImplements ==
  ASSUME Faults \subseteq HarmlessFaults, FaultTablesInv, FaultLogInv, [FaultyNext]_vars
  PROVE  [RejectingKV!Next]_(RejectingKV!kvVars)
<1>1. TypeOK /\ RecordInHand /\ ~CrashTears
  BY DEF FaultTablesInv, HarmlessFaults, CrashTears, Fails
<1>2. CASE Write
  <2>1. /\ pc = "idle" /\ pc' = "append" /\ op' \in Record
        /\ UNCHANGED <<memTable, levels, files>>
    BY <1>2 DEF Write, Begin, Record, fileVars
  <2>2. View' = View
    BY <1>1, <2>1, ViewKept
  <2>3. op = None
    BY <1>1, <2>1 DEF RecordInHand
  <2> QED
    BY <2>1, <2>2, <2>3
       DEF RejectingKV!Next, RejectingKV!Start, RejectingKV!Write, Record, Entry
<1>3. CASE Apply
  <2>1. pc = "apply" /\ pc' # "down" /\ op' = None
    BY <1>3 DEF Apply, Unlock
  <2>2. op # None /\ View' = [View EXCEPT ![op.key] = Visible(op.entry)]
    BY <1>1, <1>3, ApplySeen
  <2> QED
    BY <2>1, <2>2
       DEF RejectingKV!Next, RejectingKV!Commit, RejectingKV!Applied, Visible
<1>4. CASE Crash
  <2>1. /\ pc # "down" /\ pc' = "down" /\ op' = None
        /\ wal' \in {wal, walSynced} /\ manifest' \in {manifest, manifestSynced}
    BY <1>4 DEF Crash, LoseMemory
  <2>2. PICK S \in SUBSET Unsynced : files' = FilesAfter(S)
    BY <1>4 DEF Crash
  <2>3. View' = Recovered(wal', manifest', FilesAfter(S))
    <3>1. View' = Recovered(wal', manifest', files')
      BY <2>1 DEF View
    <3> QED
      BY <2>2, <3>1
  <2>4. \/ View' = View
        \/ op # None /\ View' = [View EXCEPT ![op.key] = Visible(op.entry)]
    BY <2>1, <2>3, FaultsAreCrashSafe DEF CrashSafe
  <2> QED
    BY <2>1, <2>4 DEF RejectingKV!Next, RejectingKV!Crash, RejectingKV!Applied, Visible
<1>5. CASE Restart
  <2>1. pc = "down" /\ pc' = "idle" /\ op' = op
    BY <1>5 DEF Restart
  <2> QED
    BY <1>5, <2>1, RestartUnseen DEF RejectingKV!Next, RejectingKV!Recover
<1>6. CASE (FaultyStep \/ UNCHANGED vars) /\ ~Apply
  BY <1>6, QuietOrRejected DEF RejectingKV!Next
<1> QED
  BY <1>1, <1>2, <1>3, <1>4, <1>5, <1>6 DEF FaultyNext

\* With harmless failures the engine is a map whose writes may be rejected:
\* an operation that fails, at whatever step of its log append, its flush or
\* its compaction, has its whole effect or none, now and after a crash.
THEOREM FaultyEngineImplementsKVStore ==
  ASSUME Faults \subseteq HarmlessFaults, Unreadable = {}
  PROVE  FaultySpec => ImplementsRejectingKVStore
<1>1. Init => RejectingKV!Init
  BY InitSeen DEF Init, RejectingKV!Init
<1>2. FaultTablesInv /\ FaultLogInv /\ [FaultyNext]_vars =>
        [RejectingKV!Next]_(RejectingKV!kvVars)
  BY FaultyStepImplements
<1> QED
  BY <1>1, <1>2, HarmlessFaultsInvariant, PTL
     DEF FaultySpec, ImplementsRejectingKVStore, RejectingKV!Spec
=============================================================================
