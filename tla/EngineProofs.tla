---------------------------- MODULE EngineProofs ----------------------------
(***************************************************************************)
(* Theorems about Engine, for every set of keys and values, every pair of  *)
(* thresholds and every bound: type correctness; that the tables the       *)
(* manifest names are on the device, unchanged, wherever a crash strikes;  *)
(* that a restart then finds every write that returned, and that the       *)
(* engine implements a map.  What is said of the log needs Unreadable =    *)
(* {}: a record that does not read back hides later ones.                  *)
(***************************************************************************)
EXTENDS EngineImplements, LSMTablesProofs

(***************************************************************************)
(* Table numbers and table files.                                          *)
(***************************************************************************)
\* The number of the next flush is none of level 0.
LEMMA FreshNumber ==
  ASSUME levels \in Levels
  PROVE  NewL0 \in Nat /\ ~NamesTable(levels, 0, NewL0)
<1> DEFINE nums == {levels.l0[i] : i \in DOMAIN levels.l0}
<1>1. levels.l0 \in Seq(Idx)
  BY DEF Levels
<1>2. nums \in SUBSET Idx
  BY <1>1
<1>3. IsFiniteSet(Idx) /\ Idx \subseteq Nat
  BY BoundsAreNaturals, FS_Interval DEF Idx
<1>4. nums \in SUBSET Nat /\ IsFiniteSet(nums)
  <2> HIDE DEF nums
  <2> QED
    BY <1>2, <1>3, FS_Subset
<1>5. NextIndex(nums) \in Nat /\ NextIndex(nums) \notin nums
  <2> HIDE DEF nums
  <2>1. NextIndex(nums) \in Nat /\ \A x \in nums : x < NextIndex(nums)
    BY <1>4, NextIndexIsFresh
  <2> QED
    BY <1>4, <2>1
<1> QED
  BY <1>5 DEF NewL0, NamesTable

\* A run's tables have table numbers.
LEMMA NumbersAreIdx ==
  ASSUME NEW tables \in Seq(L1Table)
  PROVE  Numbers(tables) \in SUBSET Idx
<1>1. \A x \in L1Table : x.idx \in Idx
  BY DEF L1Table
<1>2. \A i \in DOMAIN tables : tables[i] \in L1Table
  OBVIOUS
<1> QED
  BY <1>1, <1>2 DEF Numbers

\* Writing one file leaves every other as it is.
LEMMA OneFileChanges ==
  ASSUME NEW f \in Files, NEW l \in 0..1, NEW n \in Idx,
         NEW t \in Table \cup {NoFile},
         NEW g, g = [f EXCEPT ![l] = [@ EXCEPT ![n] = t]]
  PROVE  /\ g \in Files
         /\ g[l][n] = t
         /\ \A l2 \in 0..1, n2 \in Idx :
              l2 # l \/ n2 # n => g[l2][n2] = f[l2][n2]
BY DEF Files

\* A table is not the sentinel of a file that does not exist.
LEMMA TablesAreFiles ==
  ASSUME NEW t \in Table
  PROVE  t # NoFile
BY SentinelsAreNoData

\* When no named table is missing nothing is pruned.
LEMMA NothingPruned ==
  ASSUME NEW lv, NEW fs,
         \A l \in 0..1, n \in Idx : NamesTable(lv, l, n) => fs[l][n] # NoFile
  PROVE  Prune(lv, fs) = lv
BY DEF Prune

-----------------------------------------------------------------------------
(***************************************************************************)
(* StoreInv holds initially.                                               *)
(***************************************************************************)
LEMMA InitStoreInv == Init => StoreInv
<1> SUFFICES ASSUME Init PROVE StoreInv
  OBVIOUS
<1> USE DEF Init
<1>1. EmptyTable \in Table
  BY DEF EmptyTable, Table
<1>2. NoLevels \in Levels
  BY DEF NoLevels, Levels
<1>3. TypeOK
  BY <1>1, <1>2 DEF TypeOK, PCs, Files, NoJob, Line
<1>4. \A l \in 0..1, n \in Idx : ~NamesTable(NoLevels, l, n)
  BY DEF NamesTable, NoLevels, Numbers
<1>5. PublishedTablesDurable
  BY <1>4 DEF PublishedTablesDurable
<1> QED
  BY <1>3, <1>5 DEF StoreInv, RecordInHand, FlushHasNumber,
     ManifestMatchesMemory, ManifestInTransit, FlushedTable,
     CompactionInputs, CompactionOutputs

-----------------------------------------------------------------------------
(***************************************************************************)
(* The steps that leave the store alone: the log and the MemTable.         *)
(***************************************************************************)
\* A step that changes neither the levels, the manifests, the files nor the
\* job preserves what StoreInv says of them.
LEMMA StoreUntouched ==
  ASSUME StoreInv, UNCHANGED <<levels, job, manifestVars, fileVars>>
  PROVE  /\ PublishedTablesDurable'
         /\ NewL0' = NewL0
         /\ manifest = levels => (manifest = levels)'
BY DEF StoreInv, PublishedTablesDurable, manifestVars, fileVars, NewL0

LEMMA BeginPreserves ==
  ASSUME StoreInv, NEW k \in Key, NEW e \in Entry, Begin(k, e)
  PROVE  StoreInv'
<1> USE DEF Begin
<1>1. TypeOK'
  BY DEF StoreInv, TypeOK, walVars, manifestVars, fileVars, PCs, Record
<1>2. PublishedTablesDurable' /\ NewL0' = NewL0
  BY StoreUntouched
<1>3. RecordInHand' /\ FlushHasNumber'
  BY <1>2 DEF RecordInHand, FlushHasNumber, Room, Record
<1>4. ManifestMatchesMemory' /\ ManifestInTransit'
  BY DEF StoreInv, ManifestMatchesMemory, ManifestInTransit, manifestVars
<1>5. FlushedTable' /\ CompactionInputs' /\ CompactionOutputs'
  BY DEF FlushedTable, CompactionInputs, CompactionOutputs
<1> QED
  BY <1>1, <1>2, <1>3, <1>4, <1>5 DEF StoreInv

LEMMA LogPreserves ==
  ASSUME StoreInv, Log
  PROVE  StoreInv'
<1>1. UNCHANGED <<op, memTable, levels, job, manifestVars, fileVars>>
  BY DEF Log, WalAppend, WalSync
<1>2. \/ pc = "append" /\ pc' = "walSync"
      \/ pc = "walSync" /\ pc' = "apply"
  BY DEF Log, WalAppend, WalSync
<1>3. wal' \in Seq(Line) /\ walSynced' \in Seq(Line)
  <2>1. wal \in Seq(Line) /\ walSynced \in Seq(Line)
    BY DEF StoreInv, TypeOK
  <2>2. pc = "append" => op \in Record
    BY DEF StoreInv, RecordInHand
  <2>3. WalAppend => wal' = LogAppend(wal, op) /\ walSynced' = walSynced /\ pc = "append"
    BY DEF WalAppend
  <2>4. WalSync => wal' = wal /\ walSynced' = wal
    BY DEF WalSync
  <2> QED
    BY <2>1, <2>2, <2>3, <2>4, LogAppendType DEF Log
<1>4. TypeOK'
  BY <1>1, <1>2, <1>3 DEF StoreInv, TypeOK, manifestVars, fileVars, PCs
<1>5. PublishedTablesDurable' /\ NewL0' = NewL0
  BY <1>1, StoreUntouched
<1>6. RecordInHand' /\ FlushHasNumber'
  BY <1>1, <1>2, <1>5 DEF StoreInv, RecordInHand, FlushHasNumber
<1>7. ManifestMatchesMemory' /\ ManifestInTransit'
  BY <1>1, <1>2 DEF StoreInv, ManifestMatchesMemory, ManifestInTransit, manifestVars
<1>8. FlushedTable' /\ CompactionInputs' /\ CompactionOutputs'
  BY <1>2 DEF FlushedTable, CompactionInputs, CompactionOutputs
<1> QED
  BY <1>4, <1>5, <1>6, <1>7, <1>8 DEF StoreInv

LEMMA ApplyPreserves ==
  ASSUME StoreInv, Apply
  PROVE  StoreInv'
<1>1. UNCHANGED <<levels, job, walVars, manifestVars, fileVars>>
  BY DEF Apply
<1>2. pc = "apply" /\ pc' \in {"writeTable", "idle"} /\ op' = None
  BY DEF Apply, Unlock
<1>3. memTable' \in Table
  BY <1>2 DEF Apply, StoreInv, TypeOK, RecordInHand, Record, Table
<1>4. TypeOK'
  BY <1>1, <1>2, <1>3 DEF StoreInv, TypeOK, walVars, manifestVars, fileVars, PCs
<1>5. PublishedTablesDurable' /\ NewL0' = NewL0
  BY <1>1, StoreUntouched
<1>6. RecordInHand' /\ FlushHasNumber'
  BY <1>1, <1>2, <1>5 DEF StoreInv, RecordInHand, FlushHasNumber
<1>7. ManifestMatchesMemory' /\ ManifestInTransit'
  BY <1>1, <1>2 DEF StoreInv, ManifestMatchesMemory, ManifestInTransit, manifestVars
<1>8. FlushedTable' /\ CompactionInputs' /\ CompactionOutputs'
  BY <1>2 DEF FlushedTable, CompactionInputs, CompactionOutputs
<1> QED
  BY <1>4, <1>5, <1>6, <1>7, <1>8 DEF StoreInv

-----------------------------------------------------------------------------
(***************************************************************************)
(* The flush.                                                              *)
(***************************************************************************)
LEMMA WriteTablePreserves ==
  ASSUME StoreInv, WriteTable
  PROVE  StoreInv'
<1>1. /\ pc = "writeTable" /\ pc' = "tableSync"
      /\ UNCHANGED <<op, memTable, levels, job, walVars, manifestVars, filesSynced>>
      /\ files' = [files EXCEPT ![0] = [@ EXCEPT ![NewL0] = memTable]]
  BY DEF WriteTable
<1>2. /\ NewL0 \in Idx /\ NewL0' = NewL0
      /\ memTable \in Table /\ files \in Files /\ levels \in Levels
  BY <1>1 DEF StoreInv, TypeOK, FlushHasNumber, NewL0
<1>3. /\ files' \in Files
      /\ files'[0][NewL0] = memTable
      /\ \A l \in 0..1, n \in Idx :
           l # 0 \/ n # NewL0 => files'[l][n] = files[l][n]
  BY <1>1, <1>2 DEF Files
<1>4. TypeOK'
  BY <1>1, <1>3 DEF StoreInv, TypeOK, walVars, manifestVars, PCs
<1>5. PublishedTablesDurable'
  <2>1. ~NamesTable(manifest, 0, NewL0) /\ ~NamesTable(manifestSynced, 0, NewL0)
    BY <1>1, <1>2, FreshNumber DEF StoreInv, ManifestMatchesMemory, ManifestInTransit
  <2>2. UNCHANGED <<manifest, manifestSynced, filesSynced>>
    BY <1>1 DEF manifestVars
  <2> QED
    BY <1>3, <2>1, <2>2 DEF StoreInv, PublishedTablesDurable
<1>6. RecordInHand' /\ FlushHasNumber'
  BY <1>1, <1>2 DEF StoreInv, RecordInHand, FlushHasNumber
<1>7. ManifestMatchesMemory' /\ ManifestInTransit'
  BY <1>1 DEF StoreInv, ManifestMatchesMemory, ManifestInTransit, manifestVars
<1>8. FlushedTable'
  BY <1>1, <1>2, <1>3 DEF FlushedTable
<1>9. CompactionInputs' /\ CompactionOutputs'
  BY <1>1 DEF CompactionInputs, CompactionOutputs
<1> QED
  BY <1>4, <1>5, <1>6, <1>7, <1>8, <1>9 DEF StoreInv

LEMMA RefuseTablePreserves ==
  ASSUME StoreInv, RefuseTable
  PROVE  StoreInv'
<1>1. /\ pc' = "idle" /\ op' = None /\ pc = "writeTable"
      /\ UNCHANGED <<memTable, levels, job, walVars, manifestVars, fileVars>>
  BY DEF RefuseTable, Unlock
<1>2. TypeOK'
  BY <1>1 DEF StoreInv, TypeOK, walVars, manifestVars, fileVars, PCs
<1>3. PublishedTablesDurable'
  BY <1>1, StoreUntouched
<1>4. ManifestMatchesMemory' /\ ManifestInTransit'
  BY <1>1 DEF StoreInv, ManifestMatchesMemory, ManifestInTransit, manifestVars
<1>5. /\ RecordInHand' /\ FlushHasNumber' /\ FlushedTable'
      /\ CompactionInputs' /\ CompactionOutputs'
  BY <1>1 DEF RecordInHand, FlushHasNumber, FlushedTable, CompactionInputs,
     CompactionOutputs
<1> QED
  BY <1>2, <1>3, <1>4, <1>5 DEF StoreInv

LEMMA TableSyncPreserves ==
  ASSUME StoreInv, TableSync
  PROVE  StoreInv'
<1>1. /\ pc = "tableSync" /\ pc' = "publish"
      /\ UNCHANGED <<op, memTable, levels, job, walVars, manifestVars, files>>
      /\ filesSynced' = [filesSynced EXCEPT ![0] = files[0]]
  BY DEF TableSync
<1>2. files \in Files /\ filesSynced \in Files /\ NewL0 \in Idx /\ NewL0' = NewL0
  BY <1>1 DEF StoreInv, TypeOK, FlushHasNumber, NewL0
<1>3. /\ filesSynced' \in Files
      /\ \A n \in Idx : /\ filesSynced'[0][n] = files[0][n]
                        /\ filesSynced'[1][n] = filesSynced[1][n]
  BY <1>1, <1>2 DEF Files
<1>4. TypeOK'
  BY <1>1, <1>3 DEF StoreInv, TypeOK, walVars, manifestVars, PCs
<1>5. PublishedTablesDurable'
  BY <1>1, <1>3 DEF StoreInv, PublishedTablesDurable, manifestVars
<1>6. RecordInHand' /\ FlushHasNumber'
  BY <1>1, <1>2 DEF StoreInv, RecordInHand, FlushHasNumber
<1>7. ManifestMatchesMemory' /\ ManifestInTransit'
  BY <1>1 DEF StoreInv, ManifestMatchesMemory, ManifestInTransit, manifestVars
<1>8. FlushedTable'
  BY <1>1, <1>2, <1>3 DEF StoreInv, FlushedTable
<1>9. CompactionInputs' /\ CompactionOutputs'
  BY <1>1 DEF CompactionInputs, CompactionOutputs
<1> QED
  BY <1>4, <1>5, <1>6, <1>7, <1>8, <1>9 DEF StoreInv

\* The manifest with one more level-0 table names that table and the others.
LEMMA OneMoreTable ==
  ASSUME NEW m \in Levels, NEW n \in Idx
  PROVE  /\ [m EXCEPT !.l0 = Append(m.l0, n)] \in Levels
         /\ \A l \in 0..1, i \in Idx :
              NamesTable([m EXCEPT !.l0 = Append(m.l0, n)], l, i)
                <=> NamesTable(m, l, i) \/ (l = 0 /\ i = n)
<1> DEFINE m2 == [m EXCEPT !.l0 = Append(m.l0, n)]
<1>1. m.l0 \in Seq(Idx) /\ m2.l0 = Append(m.l0, n) /\ m2.l1 = m.l1
  BY DEF Levels
<1>2. m2 \in Levels
  <2>1. Append(m.l0, n) \in Seq(Idx)
    BY <1>1
  <2> QED
    BY <2>1, Zenon DEF Levels
<1>3. \A i : i \in {m2.l0[j] : j \in DOMAIN m2.l0}
               <=> i \in {m.l0[j] : j \in DOMAIN m.l0} \cup {n}
  <2> DEFINE len == Len(m.l0)
             s == m.l0
             t == m2.l0
  <2>1. /\ DOMAIN t = 1..(len + 1) /\ DOMAIN s = 1..len /\ len \in Nat
        /\ t[len + 1] = n
        /\ \A j \in 1..len : t[j] = s[j]
    BY <1>1
  <2> HIDE DEF m2, s, t, len
  <2>2. DOMAIN t = DOMAIN s \cup {len + 1}
    BY <2>1
  <2>3. \A i : i \in {t[j] : j \in DOMAIN t} <=> i \in {s[j] : j \in DOMAIN s} \cup {n}
    BY <2>1, <2>2
  <2> QED
    BY <2>3 DEF s, t
<1> HIDE DEF m2
<1>4. \A l \in 0..1, i \in Idx :
        NamesTable(m2, l, i) <=> NamesTable(m, l, i) \/ (l = 0 /\ i = n)
  BY <1>1, <1>3 DEF NamesTable
<1> QED
  BY <1>2, <1>4 DEF m2

LEMMA PublishPreserves ==
  ASSUME StoreInv, Publish
  PROVE  StoreInv'
<1>1. /\ pc = "publish" /\ pc' = "publishSync"
      /\ UNCHANGED <<op, memTable, levels, job, walVars, manifestSynced, fileVars>>
      /\ manifest' = [manifest EXCEPT !.l0 = Append(manifest.l0, NewL0)]
  BY DEF Publish
<1>2. NewL0 \in Idx /\ NewL0' = NewL0 /\ levels \in Levels
  BY <1>1 DEF StoreInv, TypeOK, FlushHasNumber, NewL0
<1>3. manifest = levels /\ manifestSynced = levels
  BY <1>1 DEF StoreInv, ManifestMatchesMemory, ManifestInTransit
<1>4. /\ manifest' \in Levels
      /\ \A l \in 0..1, i \in Idx :
           NamesTable(manifest', l, i) <=> NamesTable(manifest, l, i)
                                           \/ (l = 0 /\ i = NewL0)
  BY <1>1, <1>2, <1>3, OneMoreTable
<1>5. TypeOK'
  BY <1>1, <1>4 DEF StoreInv, TypeOK, walVars, fileVars, PCs
<1>6. PublishedTablesDurable'
  <2>1. files[0][NewL0] # NoFile /\ filesSynced[0][NewL0] = files[0][NewL0]
    <3>1. files[0][NewL0] = memTable /\ filesSynced[0][NewL0] = memTable
      BY <1>1 DEF StoreInv, FlushedTable
    <3>2. memTable \in Table
      BY DEF StoreInv, TypeOK
    <3> QED
      BY <3>1, <3>2, TablesAreFiles
  <2> QED
    BY <1>1, <1>4, <2>1 DEF StoreInv, PublishedTablesDurable, fileVars
<1>7. RecordInHand' /\ FlushHasNumber'
  BY <1>1, <1>2 DEF StoreInv, RecordInHand, FlushHasNumber
<1>8. ManifestMatchesMemory' /\ ManifestInTransit'
  BY <1>1, <1>2, <1>3 DEF ManifestMatchesMemory, ManifestInTransit
<1>9. FlushedTable' /\ CompactionInputs' /\ CompactionOutputs'
  BY <1>1, <1>2 DEF StoreInv, FlushedTable, CompactionInputs, CompactionOutputs, fileVars
<1> QED
  BY <1>5, <1>6, <1>7, <1>8, <1>9 DEF StoreInv

LEMMA PublishSyncPreserves ==
  ASSUME StoreInv, PublishSync
  PROVE  StoreInv'
<1>1. /\ pc = "publishSync" /\ pc' = "truncate"
      /\ UNCHANGED <<op, memTable, job, walVars, manifest, fileVars>>
      /\ manifestSynced' = manifest
      /\ levels' = [levels EXCEPT !.l0 = Append(levels.l0, NewL0)]
  BY DEF PublishSync
<1>2. manifest = levels'
  BY <1>1 DEF StoreInv, ManifestInTransit
<1>3. TypeOK'
  BY <1>1, <1>2 DEF StoreInv, TypeOK, walVars, fileVars, PCs
<1>4. PublishedTablesDurable'
  BY <1>1 DEF StoreInv, PublishedTablesDurable, fileVars
<1>5. ManifestMatchesMemory' /\ ManifestInTransit'
  BY <1>1, <1>2 DEF ManifestMatchesMemory, ManifestInTransit
<1>6. /\ RecordInHand' /\ FlushHasNumber' /\ FlushedTable'
      /\ CompactionInputs' /\ CompactionOutputs'
  BY <1>1 DEF StoreInv, RecordInHand, FlushHasNumber, FlushedTable, CompactionInputs,
     CompactionOutputs
<1> QED
  BY <1>3, <1>4, <1>5, <1>6 DEF StoreInv

\* Once the flush is published, the log and the MemTable are emptied.
LEMMA EmptyingPreserves ==
  ASSUME StoreInv, WalTruncate \/ TruncateSync \/ MemClear \/ NoCompaction
  PROVE  StoreInv'
<1>1. /\ UNCHANGED <<levels, job, manifestVars, fileVars>>
      /\ pc \in {"truncate", "truncateSync", "clear", "maybeCompact"}
      /\ pc' \in {"truncateSync", "clear", "maybeCompact", "idle"}
      /\ op' \in {op, None}
      /\ memTable' \in {memTable, EmptyTable}
      /\ wal' \in {wal, <<>>} /\ walSynced' \in {walSynced, wal}
  BY DEF WalTruncate, TruncateSync, MemClear, NoCompaction, Unlock, walVars
<1>2. EmptyTable \in Table /\ <<>> \in Seq(Line)
  BY DEF EmptyTable, Table
<1>3. TypeOK'
  BY <1>1, <1>2 DEF StoreInv, TypeOK, manifestVars, fileVars, PCs
<1>4. PublishedTablesDurable'
  BY <1>1, StoreUntouched
<1>5. ManifestMatchesMemory' /\ ManifestInTransit'
  BY <1>1 DEF StoreInv, ManifestMatchesMemory, ManifestInTransit, manifestVars
<1>6. /\ RecordInHand' /\ FlushHasNumber' /\ FlushedTable'
      /\ CompactionInputs' /\ CompactionOutputs'
  BY <1>1 DEF StoreInv, RecordInHand, FlushHasNumber, FlushedTable, CompactionInputs,
     CompactionOutputs
<1> QED
  BY <1>3, <1>4, <1>5, <1>6 DEF StoreInv

-----------------------------------------------------------------------------
(***************************************************************************)
(* The compaction.                                                         *)
(***************************************************************************)
LEMMA StartCompactionPreserves ==
  ASSUME StoreInv, StartCompaction
  PROVE  StoreInv'
<1>1. /\ pc = "maybeCompact" /\ pc' \in {"rewrite", "merge"}
      /\ UNCHANGED <<op, memTable, levels, walVars, manifestVars, fileVars>>
      /\ job' = [l0 |-> Prune(levels, files).l0, l1 |-> Prune(levels, files).l1,
                 new |-> <<>>]
  BY DEF StartCompaction
<1>2. manifest = levels /\ levels \in Levels
  BY <1>1 DEF StoreInv, TypeOK, ManifestMatchesMemory
<1>3. Prune(levels, files) = levels
  BY <1>2, NothingPruned DEF StoreInv, PublishedTablesDurable
<1>4. /\ job'.l0 = levels.l0 /\ job'.l1 = levels.l1 /\ job'.new = <<>>
      /\ job' \in [l0 : Seq(Idx), l1 : Seq(L1Table), new : Seq(L1Table)]
  BY <1>1, <1>2, <1>3 DEF Levels
<1>5. TypeOK'
  BY <1>1, <1>4 DEF StoreInv, TypeOK, walVars, manifestVars, fileVars, PCs
<1>6. PublishedTablesDurable'
  BY <1>1 DEF StoreInv, PublishedTablesDurable, manifestVars, fileVars
<1>7. ManifestMatchesMemory' /\ ManifestInTransit'
  BY <1>1 DEF StoreInv, ManifestMatchesMemory, ManifestInTransit, manifestVars
<1>8. CompactionInputs' /\ CompactionOutputs'
  BY <1>1, <1>4 DEF CompactionInputs, CompactionOutputs, Numbers
<1>9. RecordInHand' /\ FlushHasNumber' /\ FlushedTable'
  BY <1>1 DEF StoreInv, RecordInHand, FlushHasNumber, FlushedTable
<1> QED
  BY <1>5, <1>6, <1>7, <1>8, <1>9 DEF StoreInv

LEMMA RewritePreserves ==
  ASSUME StoreInv, RewritePruned \/ RewriteSync
  PROVE  StoreInv'
<1>1. job.l0 = levels.l0 /\ job.l1 = levels.l1 /\ levels \in Levels
  BY DEF RewritePruned, RewriteSync, StoreInv, TypeOK, CompactionInputs
<1>2. [l0 |-> job.l0, l1 |-> job.l1] = levels
  BY <1>1 DEF Levels
<1>3. manifest = levels /\ manifestSynced = levels
  BY <1>2 DEF RewritePruned, RewriteSync, StoreInv, ManifestMatchesMemory,
     ManifestInTransit
<1>4. /\ UNCHANGED <<memTable, levels, walVars, manifestVars, fileVars>>
      /\ pc \in {"rewrite", "rewriteSync"} /\ op' \in {op, None}
      /\ pc' \in {"rewriteSync", "idle"}
      /\ \/ pc' = "rewriteSync" /\ job' = job
         \/ pc' = "idle" /\ job' = NoJob
  BY <1>2, <1>3 DEF RewritePruned, RewriteSync, Unlock, manifestVars
<1>5. NoJob \in [l0 : Seq(Idx), l1 : Seq(L1Table), new : Seq(L1Table)]
  BY DEF NoJob
<1>6. TypeOK'
  BY <1>4, <1>5 DEF StoreInv, TypeOK, walVars, manifestVars, fileVars, PCs
<1>7. PublishedTablesDurable'
  BY <1>4 DEF StoreInv, PublishedTablesDurable, manifestVars, fileVars
<1>8. ManifestMatchesMemory' /\ ManifestInTransit'
  BY <1>2, <1>3, <1>4 DEF ManifestMatchesMemory, ManifestInTransit, manifestVars
<1>9. /\ CompactionInputs' /\ CompactionOutputs'
      /\ RecordInHand' /\ FlushHasNumber' /\ FlushedTable'
  BY <1>1, <1>4 DEF StoreInv, CompactionInputs, CompactionOutputs, RecordInHand,
     FlushHasNumber, FlushedTable
<1> QED
  BY <1>6, <1>7, <1>8, <1>9 DEF StoreInv

\* What is left to merge is a set of keys.
LEMMA UnwrittenAreKeys == Unwritten \in SUBSET Key
BY DEF Unwritten, KeysIn

\* flushChunk finds a number no file and no input has.
LEMMA FreeNumber ==
  ASSUME TypeOK, FreeL1 # {}
  PROVE  Min(FreeL1) \in FreeL1 /\ Min(FreeL1) \notin Numbers(job.l1)
<1> DEFINE n == Min(FreeL1)
<1>1. IsFiniteSet(Idx) /\ Idx \in SUBSET Nat /\ Idx \in SUBSET Int
  BY BoundsAreNaturals, FS_Interval DEF Idx
<1>2. FreeL1 \in SUBSET Int /\ IsFiniteSet(FreeL1)
  <2>1. FreeL1 \subseteq Idx
    BY DEF FreeL1
  <2> QED
    BY <1>1, <2>1, FS_Subset
<1>3. n \in FreeL1
  BY <1>2, MinIsLeast
<1>4. Numbers(job.l1) \in SUBSET Nat /\ IsFiniteSet(Numbers(job.l1))
  <2>1. job.l1 \in Seq(L1Table)
    BY DEF TypeOK
  <2> QED
    BY <1>1, <2>1, NumbersAreIdx, FS_Subset
<1>5. \A x \in Numbers(job.l1) : x \in Int /\ x < n
  <2>1. n \in Int /\ n >= NextIndex(Numbers(job.l1))
    BY <1>2, <1>3 DEF FreeL1
  <2>2. /\ NextIndex(Numbers(job.l1)) \in Nat
        /\ \A x \in Numbers(job.l1) : x < NextIndex(Numbers(job.l1))
    BY <1>4, NextIndexIsFresh
  <2> HIDE DEF n
  <2> QED
    BY <1>4, <2>1, <2>2
<1>6. n \notin Numbers(job.l1)
  <2> HIDE DEF n
  <2> QED
    BY <1>5
<1> QED
  BY <1>3, <1>6

\* The merge of the inputs of a compaction is a table.
LEMMA MergeIsTable ==
  ASSUME TypeOK
  PROVE  Merged(job.l0, job.l1, files) \in Table
<1>1. /\ files \in [0..1 -> [Idx -> Table \cup {NoFile}]]
      /\ job.l0 \in Seq(Idx) /\ job.l1 \in Seq(L1Table)
  BY DEF TypeOK, Files
<1>2. \A x \in L1Table : x.idx \in Idx
  BY DEF L1Table
<1> QED
  BY <1>1, <1>2, MergedType

\* What WriteChunk does: one new level-1 table, with its range, in a file that
\* did not exist, under a number no input has.
LEMMA ChunkIsNew ==
  ASSUME TypeOK, WriteChunk
  PROVE  \E n \in Idx, lo \in Key, hi \in Key, t \in Table :
           /\ files[1][n] = NoFile /\ n \notin Numbers(job.l1)
           /\ files' = [files EXCEPT ![1] = [@ EXCEPT ![n] = t]]
           /\ job' = [job EXCEPT !.new =
                        Append(job.new, [idx |-> n, min |-> lo, max |-> hi])]
<1> DEFINE all == Merged(job.l0, job.l1, files)
           ks == Lowest(Unwritten, FLUSH_THRESHOLD)
           n == Min(FreeL1)
           t == [k \in Key |-> IF k \in ks THEN all[k] ELSE None]
<1>1. /\ Unwritten # {} /\ FreeL1 # {}
      /\ files' = [files EXCEPT ![1] = [@ EXCEPT ![n] = t]]
      /\ job' = [job EXCEPT !.new =
                   Append(job.new, [idx |-> n, min |-> Min(ks), max |-> Max(ks)])]
  BY DEF WriteChunk
<1>2. n \in Idx /\ files[1][n] = NoFile /\ n \notin Numbers(job.l1)
  BY <1>1, FreeNumber DEF FreeL1
<1>3. Min(ks) \in Key /\ Max(ks) \in Key
  BY <1>1, UnwrittenAreKeys, ThresholdsArePositive, LowestIsChunk
<1>4. t \in Table
  <2>1. all \in Table
    BY MergeIsTable
  <2> HIDE DEF all, ks
  <2> QED
    BY <2>1 DEF Table
<1> HIDE DEF ks, n, t, all
<1> QED
  BY <1>1, <1>2, <1>3, <1>4

LEMMA WriteChunkPreserves ==
  ASSUME StoreInv, WriteChunk
  PROVE  StoreInv'
<1>1. /\ pc = "merge" /\ pc' = "chunkSync"
      /\ UNCHANGED <<op, memTable, levels, walVars, manifestVars, filesSynced>>
  BY DEF WriteChunk
<1>2. PICK n \in Idx, lo \in Key, hi \in Key, t \in Table :
        /\ files[1][n] = NoFile /\ n \notin Numbers(job.l1)
        /\ files' = [files EXCEPT ![1] = [@ EXCEPT ![n] = t]]
        /\ job' = [job EXCEPT !.new =
                     Append(job.new, [idx |-> n, min |-> lo, max |-> hi])]
  BY ChunkIsNew DEF StoreInv
<1>3. /\ files \in Files /\ t # NoFile
      /\ job \in [l0 : Seq(Idx), l1 : Seq(L1Table), new : Seq(L1Table)]
  BY TablesAreFiles DEF StoreInv, TypeOK
<1>4. /\ files' \in Files
      /\ files'[1][n] = t
      /\ \A l \in 0..1, i \in Idx : l # 1 \/ i # n => files'[l][i] = files[l][i]
  BY <1>2, <1>3 DEF Files
<1>5. /\ job' \in [l0 : Seq(Idx), l1 : Seq(L1Table), new : Seq(L1Table)]
      /\ job'.l0 = job.l0 /\ job'.l1 = job.l1
      /\ job'.new = Append(job.new, [idx |-> n, min |-> lo, max |-> hi])
  <2>1. [idx |-> n, min |-> lo, max |-> hi] \in L1Table
    BY DEF L1Table
  <2>2. job.new \in Seq(L1Table)
    BY <1>3
  <2>3. Append(job.new, [idx |-> n, min |-> lo, max |-> hi]) \in Seq(L1Table)
    BY <2>1, <2>2
  <2> DEFINE new == Append(job.new, [idx |-> n, min |-> lo, max |-> hi])
  <2>4. job' = [job EXCEPT !.new = new] /\ new \in Seq(L1Table)
    BY <1>2, <2>3
  <2> HIDE DEF new
  <2>5. /\ job' \in [l0 : Seq(Idx), l1 : Seq(L1Table), new : Seq(L1Table)]
        /\ job'.l0 = job.l0 /\ job'.l1 = job.l1 /\ job'.new = new
    BY <1>3, <2>4
  <2> QED
    BY <2>5 DEF new
<1>6. Numbers(job'.new) \subseteq Numbers(job.new) \cup {n}
  <2>1. /\ DOMAIN job'.new = 1..(Len(job.new) + 1)
        /\ DOMAIN job.new = 1..Len(job.new) /\ Len(job.new) \in Nat
        /\ job'.new[Len(job.new) + 1].idx = n
        /\ \A j \in 1..Len(job.new) : job'.new[j] = job.new[j]
    BY <1>3, <1>5
  <2> QED
    BY <2>1 DEF Numbers
<1>7. TypeOK'
  BY <1>1, <1>4, <1>5 DEF StoreInv, TypeOK, walVars, manifestVars, PCs
<1>8. PublishedTablesDurable'
  <2>1. ~NamesTable(manifest, 1, n) /\ ~NamesTable(manifestSynced, 1, n)
    BY <1>2 DEF StoreInv, PublishedTablesDurable
  <2>2. UNCHANGED <<manifest, manifestSynced, filesSynced>>
    BY <1>1 DEF manifestVars
  <2> QED
    BY <1>4, <2>1, <2>2 DEF StoreInv, PublishedTablesDurable
<1>9. ManifestMatchesMemory' /\ ManifestInTransit'
  BY <1>1 DEF StoreInv, ManifestMatchesMemory, ManifestInTransit, manifestVars
<1>10. CompactionInputs' /\ CompactionOutputs'
  <2>1. CompactionInputs'
    BY <1>1, <1>5 DEF StoreInv, CompactionInputs
  <2>2. \A i \in Numbers(job'.new) :
          i \in Idx /\ files'[1][i] # NoFile /\ i \notin Numbers(job'.l1)
    <3> TAKE i \in Numbers(job'.new)
    <3>1. CASE i = n
      BY <1>2, <1>3, <1>4, <1>5, <3>1
    <3>2. CASE i \in Numbers(job.new) /\ i # n
      <4>1. i \in Idx /\ files[1][i] # NoFile /\ i \notin Numbers(job.l1)
        BY <1>1, <3>2 DEF StoreInv, CompactionOutputs
      <4>2. files'[1][i] = files[1][i]
        BY <1>4, <3>2, <4>1
      <4> QED
        BY <1>5, <4>1, <4>2
    <3> QED
      BY <1>6, <3>1, <3>2
  <2> QED
    BY <1>1, <2>1, <2>2 DEF CompactionOutputs
<1>11. RecordInHand' /\ FlushHasNumber' /\ FlushedTable'
  BY <1>1 DEF StoreInv, RecordInHand, FlushHasNumber, FlushedTable
<1> QED
  BY <1>7, <1>8, <1>9, <1>10, <1>11 DEF StoreInv

LEMMA ChunkSyncPreserves ==
  ASSUME StoreInv, ChunkSync
  PROVE  StoreInv'
<1>1. /\ pc = "chunkSync" /\ pc' = "merge"
      /\ UNCHANGED <<op, memTable, levels, job, walVars, manifestVars, files>>
      /\ filesSynced' = [filesSynced EXCEPT ![1] = files[1]]
  BY DEF ChunkSync
<1>2. files \in Files /\ filesSynced \in Files
  BY DEF StoreInv, TypeOK
<1>3. /\ filesSynced' \in Files
      /\ \A n \in Idx : /\ filesSynced'[1][n] = files[1][n]
                        /\ filesSynced'[0][n] = filesSynced[0][n]
  BY <1>1, <1>2 DEF Files
<1>4. TypeOK'
  BY <1>1, <1>3 DEF StoreInv, TypeOK, walVars, manifestVars, PCs
<1>5. PublishedTablesDurable'
  BY <1>1, <1>3 DEF StoreInv, PublishedTablesDurable, manifestVars
<1>6. ManifestMatchesMemory' /\ ManifestInTransit'
  BY <1>1 DEF StoreInv, ManifestMatchesMemory, ManifestInTransit, manifestVars
<1>7. CompactionInputs' /\ CompactionOutputs'
  BY <1>1, <1>3 DEF StoreInv, CompactionInputs, CompactionOutputs
<1>8. RecordInHand' /\ FlushHasNumber' /\ FlushedTable'
  BY <1>1 DEF StoreInv, RecordInHand, FlushHasNumber, FlushedTable
<1> QED
  BY <1>4, <1>5, <1>6, <1>7, <1>8 DEF StoreInv

LEMMA InstallPreserves ==
  ASSUME StoreInv, Install
  PROVE  StoreInv'
<1>1. /\ pc = "merge" /\ pc' = "installSync"
      /\ UNCHANGED <<op, memTable, levels, job, walVars, manifestSynced, fileVars>>
      /\ manifest' = [l0 |-> <<>>, l1 |-> job.new]
  BY DEF Install
<1>2. manifest' \in Levels
  BY <1>1 DEF StoreInv, TypeOK, Levels
<1>3. TypeOK'
  BY <1>1, <1>2 DEF StoreInv, TypeOK, walVars, fileVars, PCs
<1>4. PublishedTablesDurable'
  <2>1. \A l \in 0..1, n \in Idx :
          NamesTable(manifest', l, n) => l = 1 /\ n \in Numbers(job.new)
    BY <1>1 DEF NamesTable
  <2> QED
    BY <1>1, <2>1 DEF StoreInv, PublishedTablesDurable, CompactionOutputs, fileVars
<1>5. ManifestMatchesMemory' /\ ManifestInTransit'
  BY <1>1 DEF StoreInv, ManifestMatchesMemory, ManifestInTransit
<1>6. CompactionInputs' /\ CompactionOutputs'
  BY <1>1 DEF StoreInv, CompactionInputs, CompactionOutputs, fileVars
<1>7. RecordInHand' /\ FlushHasNumber' /\ FlushedTable'
  BY <1>1 DEF StoreInv, RecordInHand, FlushHasNumber, FlushedTable
<1> QED
  BY <1>3, <1>4, <1>5, <1>6, <1>7 DEF StoreInv

LEMMA InstallSyncPreserves ==
  ASSUME StoreInv, InstallSync
  PROVE  StoreInv'
<1>1. /\ pc = "installSync" /\ pc' = "remove"
      /\ UNCHANGED <<op, memTable, job, walVars, manifest, fileVars>>
      /\ manifestSynced' = manifest
      /\ levels' = [l0 |-> <<>>, l1 |-> job.new]
  BY DEF InstallSync
<1>2. manifest = levels'
  BY <1>1 DEF StoreInv, ManifestInTransit
<1>3. TypeOK'
  BY <1>1, <1>2 DEF StoreInv, TypeOK, walVars, fileVars, PCs
<1>4. PublishedTablesDurable'
  BY <1>1 DEF StoreInv, PublishedTablesDurable, fileVars
<1>5. ManifestMatchesMemory' /\ ManifestInTransit'
  BY <1>1, <1>2 DEF ManifestMatchesMemory, ManifestInTransit
<1>6. CompactionInputs' /\ CompactionOutputs'
  BY <1>1 DEF StoreInv, CompactionInputs, CompactionOutputs
<1>7. RecordInHand' /\ FlushHasNumber' /\ FlushedTable'
  BY <1>1 DEF StoreInv, RecordInHand, FlushHasNumber, FlushedTable
<1> QED
  BY <1>3, <1>4, <1>5, <1>6, <1>7 DEF StoreInv

\* Only inputs are removed, and the levels and both manifests name outputs.
LEMMA RemoveInputsPreserves ==
  ASSUME StoreInv, RemoveInputs
  PROVE  StoreInv'
<1> DEFINE gone(l) == IF l = 0 THEN {job.l0[j] : j \in DOMAIN job.l0}
                               ELSE Numbers(job.l1)
<1>1. /\ pc = "remove" /\ pc' = "idle" /\ op' = None /\ job' = NoJob
      /\ UNCHANGED <<memTable, levels, walVars, manifestVars, filesSynced>>
      /\ files' = [l \in 0..1 |-> [i \in Idx |->
                     IF i \in gone(l) THEN NoFile ELSE files[l][i]]]
  BY DEF RemoveInputs, Unlock
<1>2. files \in Files
  BY DEF StoreInv, TypeOK
<1>3. files' \in Files
  <2> HIDE DEF gone
  <2> QED
    BY <1>1, <1>2 DEF Files
<1>4. NoJob \in [l0 : Seq(Idx), l1 : Seq(L1Table), new : Seq(L1Table)]
  BY DEF NoJob
<1>5. TypeOK'
  BY <1>1, <1>3, <1>4 DEF StoreInv, TypeOK, walVars, manifestVars, PCs
<1>6. manifest = levels /\ manifestSynced = levels
  BY <1>1 DEF StoreInv, ManifestMatchesMemory, ManifestInTransit
<1>7. \A l \in 0..1, n \in Idx : NamesTable(levels, l, n) => n \notin gone(l)
  BY <1>1 DEF StoreInv, CompactionOutputs, NamesTable
<1>8. PublishedTablesDurable'
  <2>1. \A l \in 0..1, n \in Idx : NamesTable(levels, l, n) => files'[l][n] = files[l][n]
    <3> HIDE DEF gone
    <3> QED
      BY <1>1, <1>7
  <2>2. UNCHANGED <<manifest, manifestSynced, filesSynced>>
    BY <1>1 DEF manifestVars
  <2> QED
    BY <1>6, <2>1, <2>2 DEF StoreInv, PublishedTablesDurable
<1>9. ManifestMatchesMemory' /\ ManifestInTransit'
  BY <1>1 DEF StoreInv, ManifestMatchesMemory, ManifestInTransit, manifestVars
<1>10. /\ CompactionInputs' /\ CompactionOutputs'
       /\ RecordInHand' /\ FlushHasNumber' /\ FlushedTable'
  BY <1>1 DEF CompactionInputs, CompactionOutputs, RecordInHand,
     FlushHasNumber, FlushedTable
<1> QED
  BY <1>5, <1>8, <1>9, <1>10 DEF StoreInv

-----------------------------------------------------------------------------
(***************************************************************************)
(* Crash and restart.                                                      *)
(***************************************************************************)
\* A crash takes from the directories only what was not synced: not the file
\* of any table a manifest names.
LEMMA CrashKeepsNamedFiles ==
  ASSUME StoreInv, NEW S \in SUBSET Unsynced
  PROVE  /\ FilesAfter(S) \in Files
         /\ \A l \in 0..1, n \in Idx :
              NamesTable(manifest, l, n) \/ NamesTable(manifestSynced, l, n)
                => FilesAfter(S)[l][n] = files[l][n]
<1>1. files \in Files /\ filesSynced \in Files
  BY DEF StoreInv, TypeOK
<1>2. \A l \in 0..1, n \in Idx :
        FilesAfter(S)[l][n] = IF <<l, n>> \in S THEN filesSynced[l][n] ELSE files[l][n]
  BY DEF FilesAfter
<1>3. FilesAfter(S) \in Files
  BY <1>1 DEF FilesAfter, Files
<1> QED
  BY <1>2, <1>3, ZenonT(60) DEF StoreInv, PublishedTablesDurable

LEMMA CrashPreserves ==
  ASSUME StoreInv, Crash
  PROVE  StoreInv'
<1>1. PICK S \in SUBSET Unsynced : files' = FilesAfter(S)
  BY DEF Crash
<1>2. /\ pc' = "down" /\ op' = None /\ memTable' = EmptyTable
      /\ levels' = NoLevels /\ job' = NoJob
      /\ wal' \in {wal, walSynced} /\ walSynced' = wal'
      /\ manifest' \in {manifest, manifestSynced} /\ manifestSynced' = manifest'
      /\ filesSynced' = files'
  BY DEF Crash, LoseMemory
<1>3. /\ files' \in Files
      /\ \A l \in 0..1, n \in Idx :
           NamesTable(manifest, l, n) \/ NamesTable(manifestSynced, l, n)
             => files'[l][n] = files[l][n]
  BY <1>1, CrashKeepsNamedFiles
<1>4. TypeOK'
  <2>1. EmptyTable \in Table /\ NoLevels \in Levels
    BY DEF EmptyTable, Table, NoLevels, Levels
  <2>2. NoJob \in [l0 : Seq(Idx), l1 : Seq(L1Table), new : Seq(L1Table)]
    BY DEF NoJob
  <2> QED
    BY <1>2, <1>3, <2>1, <2>2 DEF StoreInv, TypeOK, PCs
<1>5. PublishedTablesDurable'
  BY <1>2, <1>3 DEF StoreInv, PublishedTablesDurable
<1>6. ManifestMatchesMemory' /\ ManifestInTransit'
  BY <1>2 DEF ManifestMatchesMemory, ManifestInTransit
<1>7. /\ CompactionInputs' /\ CompactionOutputs'
      /\ RecordInHand' /\ FlushHasNumber' /\ FlushedTable'
  BY <1>2 DEF CompactionInputs, CompactionOutputs, RecordInHand,
     FlushHasNumber, FlushedTable
<1> QED
  BY <1>4, <1>5, <1>6, <1>7 DEF StoreInv

\* NewEngine finds every table of the manifest: pruning drops none.
LEMMA RestartPreserves ==
  ASSUME StoreInv, Restart
  PROVE  StoreInv'
<1>1. /\ pc = "down" /\ pc' = "idle"
      /\ levels' = Prune(manifest, files) /\ memTable' = Replay(wal)
      /\ UNCHANGED <<op, job, walVars, manifestVars, fileVars>>
  BY DEF Restart
<1>2. levels' = manifest
  BY <1>1, NothingPruned DEF StoreInv, PublishedTablesDurable
<1>3. Replay(wal) \in Table
  BY ReplayType DEF StoreInv, TypeOK
<1>4. TypeOK'
  BY <1>1, <1>2, <1>3 DEF StoreInv, TypeOK, walVars, manifestVars, fileVars, PCs
<1>5. PublishedTablesDurable'
  BY <1>1 DEF StoreInv, PublishedTablesDurable, manifestVars, fileVars
<1>6. ManifestMatchesMemory' /\ ManifestInTransit'
  BY <1>1, <1>2 DEF StoreInv, ManifestMatchesMemory, ManifestInTransit, manifestVars
<1>7. /\ CompactionInputs' /\ CompactionOutputs'
      /\ RecordInHand' /\ FlushHasNumber' /\ FlushedTable'
  BY <1>1 DEF StoreInv, CompactionInputs, CompactionOutputs, RecordInHand,
     FlushHasNumber, FlushedTable
<1> QED
  BY <1>4, <1>5, <1>6, <1>7 DEF StoreInv

-----------------------------------------------------------------------------
(***************************************************************************)
(* The theorems.                                                           *)
(***************************************************************************)
LEMMA StutterPreserves ==
  ASSUME StoreInv, UNCHANGED vars
  PROVE  StoreInv'
BY DEF vars, volatileVars, walVars, manifestVars, fileVars, StoreInv, TypeOK,
   RecordInHand, FlushHasNumber, NewL0, PublishedTablesDurable,
   ManifestMatchesMemory, ManifestInTransit, FlushedTable, CompactionInputs,
   CompactionOutputs

LEMMA NextPreserves == StoreInv /\ [Next]_vars => StoreInv'
<1> SUFFICES ASSUME StoreInv, [Next]_vars PROVE StoreInv'
  OBVIOUS
<1>1. CASE Write
  BY <1>1, BeginPreserves DEF Write
<1>2. CASE Log
  BY <1>2, LogPreserves
<1>3. CASE Apply
  BY <1>3, ApplyPreserves
<1>4. CASE Flush
  BY <1>4, WriteTablePreserves, RefuseTablePreserves, TableSyncPreserves,
     PublishPreserves, PublishSyncPreserves, EmptyingPreserves DEF Flush
<1>5. CASE Compact
  BY <1>5, EmptyingPreserves, StartCompactionPreserves, RewritePreserves,
     WriteChunkPreserves, ChunkSyncPreserves, InstallPreserves,
     InstallSyncPreserves, RemoveInputsPreserves DEF Compact
<1>6. CASE Crash
  BY <1>6, CrashPreserves
<1>7. CASE Restart
  BY <1>7, RestartPreserves
<1>8. CASE UNCHANGED vars
  BY <1>8, StutterPreserves
<1> QED
  BY <1>1, <1>2, <1>3, <1>4, <1>5, <1>6, <1>7, <1>8 DEF Next, WriterStep

\* What the steps of the write path rely on holds in every reachable state.
THEOREM StoreInvariant == Spec => []StoreInv
BY InitStoreInv, NextPreserves, PTL DEF Spec

\* Every variable stays in its type: in particular no step invents a table
\* number, a key range or a log line.
THEOREM TypeCorrect == Spec => []TypeOK
<1>1. StoreInv => TypeOK
  BY DEF StoreInv
<1> QED
  BY <1>1, StoreInvariant, PTL

\* The tables the manifest names, in the cache or on the device, are on the
\* device: saveLevel0SSTableWithWriter and compactSSTables publish only synced
\* tables and remove only unpublished ones.
THEOREM TablesDurable == Spec => []PublishedTablesDurable
<1>1. StoreInv => PublishedTablesDurable
  BY DEF StoreInv
<1> QED
  BY <1>1, StoreInvariant, PTL

\* The level state and the manifest agree whenever neither is being replaced.
THEOREM ManifestAgrees == Spec => []ManifestMatchesMemory
<1>1. StoreInv => ManifestMatchesMemory
  BY DEF StoreInv
<1> QED
  BY <1>1, StoreInvariant, PTL

\* Only the flush, the merge, the removal of inputs and a crash change files,
\* and none of them that of a live table.
LEMMA StepKeepsLiveTables ==
  ASSUME StoreInv, [Next]_vars,
         NEW l \in 0..1, NEW n \in Idx,
         NamesTable(manifest, l, n), NamesTable(manifest', l, n)
  PROVE  files'[l][n] = files[l][n]
<1>1. files \in Files /\ levels \in Levels
  BY DEF StoreInv, TypeOK
<1>2. CASE WriteTable
  <2>1. manifest = levels /\ NewL0 \in Idx
    BY <1>2 DEF WriteTable, StoreInv, ManifestMatchesMemory, FlushHasNumber
  <2>2. l # 0 \/ n # NewL0
    BY <1>1, <2>1, FreshNumber
  <2> QED
    BY <1>1, <1>2, <2>1, <2>2 DEF WriteTable, Files
<1>3. CASE WriteChunk
  <2>1. PICK i \in Idx, t \in Table :
          /\ files[1][i] = NoFile
          /\ files' = [files EXCEPT ![1] = [@ EXCEPT ![i] = t]]
    BY <1>3, ChunkIsNew DEF StoreInv
  <2>2. l # 1 \/ n # i
    BY <2>1 DEF StoreInv, PublishedTablesDurable
  <2> QED
    BY <1>1, <2>1, <2>2 DEF Files
<1>4. CASE RemoveInputs
  <2>1. manifest = levels /\ levels = [l0 |-> <<>>, l1 |-> job.new]
        /\ Numbers(job.new) \cap Numbers(job.l1) = {}
    BY <1>4 DEF RemoveInputs, StoreInv, ManifestMatchesMemory, CompactionOutputs
  <2>2. l = 1 /\ n \notin Numbers(job.l1)
    BY <2>1 DEF NamesTable
  <2> QED
    BY <1>4, <2>2 DEF RemoveInputs
<1>5. CASE Crash
  BY <1>5, CrashKeepsNamedFiles DEF Crash
<1>6. CASE UNCHANGED files
  BY <1>6
<1> QED
  <2>1. Next => WriteTable \/ WriteChunk \/ RemoveInputs \/ Crash \/ UNCHANGED files
    BY DEF Next, Write, WriterStep, Log, Flush, Compact, Begin, WalAppend, WalSync,
       Apply, RefuseTable, TableSync, Publish, PublishSync, WalTruncate,
       TruncateSync, MemClear, NoCompaction, StartCompaction, RewritePruned,
       RewriteSync, ChunkSync, Install, InstallSync, Restart, fileVars
  <2>2. UNCHANGED vars => UNCHANGED files
    BY DEF vars, fileVars
  <2> QED
    BY <1>2, <1>3, <1>4, <1>5, <1>6, <2>1, <2>2

\* SSTables are immutable: no step changes the file of a table the manifest
\* names before and after it, though numbers are reused and a crash may leave
\* or bring back files nobody names.
THEOREM LiveTablesStay == Spec => LiveTablesKept
<1>1. StoreInv /\ [Next]_vars =>
        [\A l \in 0..1, n \in Idx :
           NamesTable(manifest, l, n) /\ NamesTable(manifest', l, n)
             => files'[l][n] = files[l][n]]_vars
  BY StepKeepsLiveTables
<1> QED
  BY <1>1, StoreInvariant, PTL DEF Spec, LiveTablesKept

(***************************************************************************)
(* The log and the MemTable.                                               *)
(***************************************************************************)
LEMMA InitLogMatches == Init => LogMatches
BY ReplayNothing DEF Init, LogMatches

\* A step from one of these states to another, or to idle once the log and
\* the MemTable are empty, needs no change of the log.
LEMMA LogStep ==
  ASSUME Unreadable = {}, StoreInv, LogMatches, Log \/ Apply \/ WalTruncate \/ TruncateSync \/ MemClear
  PROVE  LogMatches'
<1> USE DEF LogMatches
<1>1. CASE WalAppend
  <2>1. op \in Record /\ wal' = Append(wal, op)
    BY <1>1, WholeRecords DEF WalAppend, StoreInv, RecordInHand
  <2> QED
    BY <1>1, <2>1 DEF WalAppend
<1>2. CASE WalSync
  <2>1. op \in Record
    BY <1>2 DEF WalSync, StoreInv, RecordInHand
  <2>2. Replay(wal) = [memTable EXCEPT ![op.key] = op.entry]
    BY <1>2, <2>1, ReplayAppend DEF WalSync
  <2> QED
    BY <1>2, <2>2 DEF WalSync
<1>3. CASE Apply
  <2>1. /\ memTable' = Replay(wal) /\ pc' \in {"writeTable", "idle"}
        /\ UNCHANGED <<wal, walSynced>> /\ walSynced = wal
    BY <1>3 DEF Apply, Unlock, walVars
  <2> QED
    BY <2>1
<1>4. CASE WalTruncate
  BY <1>4 DEF WalTruncate
<1>5. CASE TruncateSync
  BY <1>5 DEF TruncateSync
<1>6. CASE MemClear
  BY <1>6 DEF MemClear, walVars
<1> QED
  BY <1>1, <1>2, <1>3, <1>4, <1>5, <1>6 DEF Log

LEMMA LogKept ==
  ASSUME LogMatches,
         UNCHANGED <<wal, walSynced, memTable>>,
         \/ pc = "idle" /\ pc' = "append"
         \/ /\ pc \in {"writeTable", "tableSync", "publish", "publishSync"}
            /\ pc' \in {"tableSync", "publish", "publishSync", "truncate", "idle"}
         \/ /\ pc \in {"maybeCompact", "rewrite", "rewriteSync", "merge",
                       "chunkSync", "installSync", "remove"}
            /\ pc' \in {"rewrite", "rewriteSync", "merge", "chunkSync",
                        "installSync", "remove", "idle"}
  PROVE  LogMatches'
BY ReplayNothing DEF LogMatches

LEMMA LogMatchesStep ==
  ASSUME Unreadable = {}, StoreInv, LogMatches, [Next]_vars
  PROVE  LogMatches'
<1>1. CASE Log \/ Apply \/ WalTruncate \/ TruncateSync \/ MemClear
  BY <1>1, LogStep
<1>2. CASE Write
  BY <1>2, LogKept DEF Write, Begin, walVars
<1>3. CASE WriteTable \/ RefuseTable \/ TableSync \/ Publish \/ PublishSync
  BY <1>3, LogKept DEF WriteTable, RefuseTable, TableSync, Publish, PublishSync,
     Unlock, walVars
<1>4. CASE Compact
  BY <1>4, LogKept DEF Compact, NoCompaction, StartCompaction, RewritePruned,
     RewriteSync, WriteChunk, ChunkSync, Install, InstallSync, RemoveInputs,
     Unlock, walVars
<1>5. CASE Crash
  BY <1>5 DEF Crash, LoseMemory, LogMatches
<1>6. CASE Restart
  BY <1>6 DEF Restart, walVars, LogMatches
<1>7. CASE UNCHANGED vars
  BY <1>7 DEF vars, volatileVars, walVars, LogMatches
<1> QED
  BY <1>1, <1>2, <1>3, <1>4, <1>5, <1>6, <1>7 DEF Next, WriterStep, Flush

\* The flushed table stays the newest of level 0 until the MemTable is clear.
LEMMA FlushedIsNewestStep == SafetyInv /\ [Next]_vars => FlushedIsNewest'
<1> SUFFICES ASSUME SafetyInv, [Next]_vars,
                    pc' \in {"truncate", "truncateSync", "clear"}
             PROVE  /\ levels'.l0 # <<>>
                    /\ files'[0][levels'.l0[Len(levels'.l0)]] = memTable'
  BY DEF FlushedIsNewest
<1>1. PublishSync \/ WalTruncate \/ TruncateSync \/ UNCHANGED vars
  BY DEF Next, Write, WriterStep, Log, Flush, Compact, Begin, WalAppend, WalSync,
     Apply, WriteTable, RefuseTable, TableSync, Publish, MemClear, NoCompaction,
     StartCompaction, RewritePruned, RewriteSync, WriteChunk, ChunkSync, Install,
     InstallSync, RemoveInputs, Crash, LoseMemory, Restart, Unlock
<1>2. CASE PublishSync
  <2>1. /\ levels' = [levels EXCEPT !.l0 = Append(levels.l0, NewL0)]
        /\ UNCHANGED <<files, memTable>> /\ pc = "publishSync"
    BY <1>2 DEF PublishSync, fileVars
  <2>2. levels \in Levels /\ files[0][NewL0] = memTable
    BY <2>1 DEF SafetyInv, StoreInv, TypeOK, FlushedTable
  <2>3. levels'.l0 = Append(levels.l0, NewL0) /\ levels.l0 \in Seq(Idx)
    BY <2>1, <2>2 DEF Levels
  <2>4. /\ Len(levels'.l0) = Len(levels.l0) + 1 /\ levels'.l0 # <<>>
        /\ levels'.l0[Len(levels'.l0)] = NewL0
    BY <2>3
  <2> QED
    BY <2>1, <2>2, <2>4
<1>3. CASE WalTruncate \/ TruncateSync \/ UNCHANGED vars
  BY <1>3 DEF WalTruncate, TruncateSync, vars, volatileVars, fileVars, SafetyInv,
     DataInv, FlushedIsNewest
<1> QED
  BY <1>1, <1>2, <1>3

-----------------------------------------------------------------------------
(***************************************************************************)
(* The merge.                                                              *)
(***************************************************************************)
\* What one chunk is: the lowest keys left, with what the merge keeps for
\* them, under a new number, with its exact range.
Chunk(n, ks, t) ==
  /\ n \in Idx /\ files[1][n] = NoFile
  /\ ks = Lowest(Unwritten, FLUSH_THRESHOLD)
  /\ t \in Table
  /\ t = [k \in Key |-> IF k \in ks THEN Merged(job.l0, job.l1, files)[k] ELSE None]
  /\ files' = [files EXCEPT ![1] = [@ EXCEPT ![n] = t]]
  /\ job' = [job EXCEPT !.new =
               Append(job.new, [idx |-> n, min |-> Min(ks), max |-> Max(ks)])]

LEMMA WriteChunkWrites ==
  ASSUME TypeOK, WriteChunk
  PROVE  \E n \in Idx, ks \in SUBSET Key, t \in Table : Chunk(n, ks, t)
<1> DEFINE ks == Lowest(Unwritten, FLUSH_THRESHOLD)
           n == Min(FreeL1)
           t == [k \in Key |->
                   IF k \in ks THEN Merged(job.l0, job.l1, files)[k] ELSE None]
<1>1. /\ FreeL1 # {}
      /\ files' = [files EXCEPT ![1] = [@ EXCEPT ![n] = t]]
      /\ job' = [job EXCEPT !.new =
                   Append(job.new, [idx |-> n, min |-> Min(ks), max |-> Max(ks)])]
  BY DEF WriteChunk
<1>2. n \in Idx /\ files[1][n] = NoFile
  BY <1>1, FreeNumber DEF FreeL1
<1>3. t \in Table
  <2>1. Merged(job.l0, job.l1, files) \in Table
    BY MergeIsTable
  <2> HIDE DEF ks
  <2> QED
    BY <2>1 DEF Table
<1>4. ks \in SUBSET Key
  BY UnwrittenAreKeys DEF Lowest
<1>5. Chunk(n, ks, t)
  <2> HIDE DEF n
  <2> QED
    BY <1>1, <1>2, <1>3 DEF Chunk
<1> HIDE DEF n, ks, t
<1> QED
  BY <1>2, <1>3, <1>4, <1>5

\* The keys of a chunk are the ones it takes over, its range is theirs, and
\* what is left lies above it.
LEMMA ChunkContents ==
  ASSUME Unwritten # {}, NEW n \in Idx, NEW ks \in SUBSET Key,
         NEW t \in Table, Chunk(n, ks, t)
  PROVE  /\ KeysIn(t) = ks /\ ks \subseteq Unwritten
         /\ Min(ks) \in ks /\ Max(ks) \in ks
         /\ \A k \in ks : k >= Min(ks) /\ k <= Max(ks)
         /\ \A k \in Unwritten : k \notin ks => k > Max(ks)
<1>1. /\ ks \subseteq Unwritten
      /\ Min(ks) \in ks /\ Max(ks) \in ks
      /\ \A k \in ks : Min(ks) <= k /\ k <= Max(ks)
      /\ \A k \in Unwritten : k \in ks \/ k > Max(ks)
  BY UnwrittenAreKeys, ThresholdsArePositive, LowestIsChunk, ChunkIsBelowTheRest
     DEF Chunk
<1>2. \A k \in ks : Merged(job.l0, job.l1, files)[k] # None
  BY <1>1 DEF Unwritten, KeysIn
<1>3. KeysIn(t) = ks
  BY <1>2 DEF KeysIn, Chunk
<1>4. \A k \in ks : k \in Int /\ Min(ks) \in Int
  BY <1>1, KeysAreOrdered
<1> QED
  BY <1>1, <1>3, <1>4

\* A run stays sorted while its files stay.
LEMMA RunKept ==
  ASSUME NEW tables, SortedRun(tables, files[1]),
         \A n \in Numbers(tables) : files'[1][n] = files[1][n]
  PROVE  SortedRun(tables, files'[1])
<1>1. \A i \in DOMAIN tables : files[1][tables[i].idx] = files'[1][tables[i].idx]
  BY DEF Numbers
<1> QED
  BY <1>1, RunSameFiles

\* The steps that neither write nor remove a level-1 table only pass on the
\* runs there are.
LEMMA RunsPassedOn ==
  ASSUME SafetyInv, [Next]_vars, ~WriteChunk, ~RemoveInputs, ~Crash
  PROVE  /\ files'[1] = files[1]
         /\ LET Runs == {levels.l1, manifest.l1, job.new, <<>>}
            IN  {levels'.l1, manifest'.l1, manifestSynced'.l1, job'.new}
                  \subseteq Runs \cup {manifestSynced.l1}
<1>1. /\ levels \in Levels /\ manifest \in Levels /\ files \in Files
      /\ job \in [l0 : Seq(Idx), l1 : Seq(L1Table), new : Seq(L1Table)]
  BY DEF SafetyInv, StoreInv, TypeOK
<1>2. /\ NoJob.new = <<>>
      /\ \A n : /\ [levels EXCEPT !.l0 = Append(levels.l0, n)].l1 = levels.l1
                /\ [manifest EXCEPT !.l0 = Append(manifest.l0, n)].l1 = manifest.l1
  BY <1>1 DEF NoJob, Levels
<1>3. CASE WriteTable
  BY <1>1, <1>3 DEF WriteTable, Files, manifestVars
<1>4. CASE \/ Write \/ Log \/ Apply \/ RefuseTable \/ TableSync \/ WalTruncate
           \/ TruncateSync \/ MemClear \/ NoCompaction \/ ChunkSync
           \/ UNCHANGED vars
  BY <1>4 DEF Write, Begin, Log, WalAppend, WalSync, Apply, RefuseTable, TableSync,
     WalTruncate, TruncateSync, MemClear, NoCompaction, ChunkSync, vars,
     volatileVars, manifestVars, fileVars
<1>5. CASE Publish
  BY <1>2, <1>5 DEF Publish, fileVars
<1>6. CASE PublishSync
  BY <1>2, <1>6 DEF PublishSync, fileVars
<1>7. CASE StartCompaction
  <2>1. job'.new = <<>>
    BY <1>7 DEF StartCompaction
  <2> QED
    BY <1>7, <2>1 DEF StartCompaction, manifestVars, fileVars
<1>8. CASE RewritePruned \/ RewriteSync
  <2>1. job.l1 = levels.l1
    BY <1>8 DEF RewritePruned, RewriteSync, SafetyInv, StoreInv, CompactionInputs
  <2> QED
    BY <1>2, <1>8, <2>1 DEF RewritePruned, RewriteSync, manifestVars, fileVars
<1>9. CASE Install \/ InstallSync
  BY <1>9 DEF Install, InstallSync, manifestVars, fileVars
<1>10. CASE Restart
  <2>1. levels' = manifest
    BY <1>10, NothingPruned
       DEF Restart, SafetyInv, StoreInv, PublishedTablesDurable
  <2> QED
    BY <1>10, <2>1 DEF Restart, manifestVars, fileVars
<1> QED
  BY <1>3, <1>4, <1>5, <1>6, <1>7, <1>8, <1>9, <1>10
     DEF Next, WriterStep, Flush, Compact

\* A chunk is a new file: no file there is changes.
LEMMA ChunkKeepsFiles ==
  ASSUME TypeOK, WriteChunk
  PROVE  /\ files'[0] = files[0]
         /\ \A i \in Idx : files[1][i] # NoFile => files'[1][i] = files[1][i]
<1>1. PICK n \in Idx, ks \in SUBSET Key, t \in Table : Chunk(n, ks, t)
  BY WriteChunkWrites
<1>2. files \in Files
  BY DEF TypeOK
<1> QED
  BY <1>1, <1>2 DEF Chunk, Files

\* The tables a merge has written so far are there.
OutputsPresent ==
  \A n \in Numbers(job.new) : n \in Idx /\ files[1][n] # NoFile

\* A new chunk extends its run at the upper end.
LEMMA ChunkExtendsRun ==
  ASSUME TypeOK, OutputsPresent, SortedRun(job.new, files[1]), WriteChunk
  PROVE  SortedRun(job'.new, files'[1])
<1>1. PICK n \in Idx, ks \in SUBSET Key, t \in Table : Chunk(n, ks, t)
  BY WriteChunkWrites
<1>2. /\ KeysIn(t) = ks /\ ks \subseteq Unwritten
      /\ Min(ks) \in ks /\ Max(ks) \in ks
      /\ \A k \in ks : k >= Min(ks) /\ k <= Max(ks)
  BY <1>1, ChunkContents DEF WriteChunk
<1>3. /\ files \in Files /\ job.new \in Seq(L1Table)
      /\ job \in [l0 : Seq(Idx), l1 : Seq(L1Table), new : Seq(L1Table)]
  BY DEF TypeOK
<1>4. files'[1][n] = t
  BY <1>1, <1>3 DEF Chunk, Files
<1>5. \A i \in Numbers(job.new) : files'[1][i] = files[1][i]
  BY ChunkKeepsFiles DEF OutputsPresent
<1>6. SortedRun(job.new, files'[1])
  BY <1>5, RunKept
<1> DEFINE x == [idx |-> n, min |-> Min(ks), max |-> Max(ks)]
<1>7. x \in L1Table /\ x.idx = n /\ x.min = Min(ks) /\ x.max = Max(ks)
  BY <1>2 DEF L1Table
<1>8. job'.new = Append(job.new, x)
  BY <1>1, <1>3 DEF Chunk
<1>9. \A i \in DOMAIN job.new : job.new[i].max < x.min
  <2>1. \A i \in DOMAIN job.new : job.new[i].max \in Int
    <3>1. \A i \in DOMAIN job.new : job.new[i] \in L1Table
      BY <1>3
    <3>2. \A y \in L1Table : y.max \in Int
      BY KeysAreOrdered DEF L1Table
    <3> QED
      BY <3>1, <3>2
  <2>2. \A i \in DOMAIN job.new : Min(ks) > job.new[i].max
    BY <1>2 DEF Unwritten
  <2>3. Min(ks) \in Int
    BY <1>2, KeysAreOrdered
  <2> HIDE DEF x
  <2> QED
    BY <1>7, <2>1, <2>2, <2>3
<1>10. KeysIn(files'[1][x.idx]) = ks
  BY <1>2, <1>4, <1>7
<1> HIDE DEF x
<1>11. {x.min, x.max} \subseteq ks /\ \A k \in ks : InRange(k, x)
  <2>1. \A k \in ks : k >= x.min /\ k <= x.max
    BY <1>2, <1>7
  <2> QED
    BY <1>2, <1>7, <2>1 DEF InRange
<1>12. {x.min, x.max} \subseteq KeysIn(files'[1][x.idx])
  BY <1>10, <1>11
<1>13. \A k \in KeysIn(files'[1][x.idx]) : InRange(k, x)
  BY <1>10, <1>11
<1>14. x \in L1Table /\ SortedRun(job.new, files'[1]) /\ job.new \in Seq(L1Table)
  BY <1>3, <1>6, <1>7
<1>15. SortedRun(Append(job.new, x), files'[1])
  BY <1>9, <1>12, <1>13, <1>14, RunAppend
<1> QED
  BY <1>8, <1>15

\* The runs there are stay as they are.
LEMMA ChunkKeepsRuns ==
  ASSUME SafetyInv, WriteChunk
  PROVE  LevelOneSorted'
<1> USE DEF SafetyInv, StoreInv
<1>1. pc = "merge" /\ manifest = levels /\ manifestSynced = manifest
  BY DEF WriteChunk, ManifestMatchesMemory, ManifestInTransit
<1>2. \A i \in Numbers(manifest.l1) : i \in Idx /\ files[1][i] # NoFile
  <2>1. manifest.l1 \in Seq(L1Table)
    BY DEF TypeOK, Levels
  <2> QED
    BY <2>1, NumbersAreIdx DEF PublishedTablesDurable, NamesTable
<1>3. SortedRun(manifest.l1, files'[1])
  BY <1>2, ChunkKeepsFiles, RunKept DEF DataInv, LevelOneSorted
<1>4. OutputsPresent
  BY <1>1 DEF OutputsPresent, CompactionOutputs
<1>5. SortedRun(job'.new, files'[1])
  BY <1>4, ChunkExtendsRun DEF DataInv, LevelOneSorted
<1> QED
  BY <1>1, <1>3, <1>5 DEF LevelOneSorted, WriteChunk, manifestVars

LEMMA LevelOneSortedStep == SafetyInv /\ [Next]_vars => LevelOneSorted'
<1> SUFFICES ASSUME SafetyInv, [Next]_vars PROVE LevelOneSorted'
  OBVIOUS
<1>1. /\ SortedRun(levels.l1, files[1]) /\ SortedRun(manifest.l1, files[1])
      /\ SortedRun(manifestSynced.l1, files[1]) /\ SortedRun(job.new, files[1])
      /\ SortedRun(<<>>, files[1])
  BY EmptyRun DEF SafetyInv, DataInv, LevelOneSorted
<1>2. CASE ~WriteChunk /\ ~RemoveInputs /\ ~Crash
  BY <1>1, <1>2, RunsPassedOn DEF LevelOneSorted
<1>3. CASE WriteChunk
  BY <1>3, ChunkKeepsRuns
<1>4. CASE RemoveInputs
  <2>1. /\ levels = [l0 |-> <<>>, l1 |-> job.new] /\ manifest = levels
        /\ manifestSynced = manifest
        /\ Numbers(job.new) \cap Numbers(job.l1) = {}
    BY <1>4 DEF RemoveInputs, SafetyInv, StoreInv, CompactionOutputs,
       ManifestMatchesMemory, ManifestInTransit
  <2>2. job.new \in Seq(L1Table)
    BY DEF SafetyInv, StoreInv, TypeOK
  <2>3. Numbers(job.new) \subseteq Idx
    BY <2>2, NumbersAreIdx
  <2>4. \A i \in Numbers(job.new) : files'[1][i] = files[1][i]
    BY <1>4, <2>1, <2>3 DEF RemoveInputs
  <2>5. SortedRun(job.new, files'[1])
    BY <1>1, <2>4, RunKept
  <2>6. job'.new = <<>> /\ levels' = levels /\ manifest' = manifest
        /\ manifestSynced' = manifestSynced
    BY <1>4 DEF RemoveInputs, NoJob, manifestVars
  <2> QED
    BY <2>1, <2>5, <2>6, EmptyRun DEF LevelOneSorted
<1>5. CASE Crash
  <2>1. /\ levels'.l1 = <<>> /\ job'.new = <<>> /\ manifestSynced' = manifest'
        /\ manifest' \in {manifest, manifestSynced}
    BY <1>5 DEF Crash, LoseMemory, NoLevels, NoJob
  <2>2. PICK S \in SUBSET Unsynced : files' = FilesAfter(S)
    BY <1>5 DEF Crash
  <2>3. \A n \in Numbers(manifest'.l1) : n \in Idx
    <3>1. manifest'.l1 \in Seq(L1Table)
      BY <2>1 DEF SafetyInv, StoreInv, TypeOK, Levels
    <3> QED
      BY <3>1, NumbersAreIdx
  <2>4. \A n \in Numbers(manifest'.l1) : files'[1][n] = files[1][n]
    BY <2>1, <2>2, <2>3, CrashKeepsNamedFiles DEF SafetyInv, NamesTable
  <2>5. SortedRun(manifest'.l1, files[1])
    BY <1>1, <2>1
  <2>6. SortedRun(manifest'.l1, files'[1])
    BY <2>4, <2>5, RunKept
  <2> QED
    BY <2>1, <2>6, EmptyRun DEF LevelOneSorted
<1> QED
  BY <1>2, <1>3, <1>4, <1>5

-----------------------------------------------------------------------------
(***************************************************************************)
(* The chunks and the merge they are cut from.                             *)
(***************************************************************************)
\* The inputs of a compaction are the tables of both levels, all of them on
\* disk.
LEMMA InputsExist ==
  ASSUME StoreInv, pc \in {"merge", "chunkSync", "installSync"}
  PROVE  /\ job.l0 = levels.l0 /\ job.l1 = levels.l1
         /\ job.l0 \in Seq(Idx) /\ job.l1 \in Seq(L1Table)
         /\ \A i \in DOMAIN job.l0 : files[0][job.l0[i]] # NoFile
         /\ \A i \in DOMAIN job.l1 : job.l1[i].idx \in Idx
                                     /\ files[1][job.l1[i].idx] # NoFile
<1>1. job.l0 = levels.l0 /\ job.l1 = levels.l1
  BY DEF StoreInv, CompactionInputs
<1>2. job.l0 \in Seq(Idx) /\ job.l1 \in Seq(L1Table)
  BY DEF StoreInv, TypeOK
<1>3. manifestSynced = levels \/ manifest = levels
  BY DEF StoreInv, ManifestMatchesMemory, ManifestInTransit
<1>4. \A l \in 0..1, n \in Idx : NamesTable(levels, l, n) => files[l][n] # NoFile
  BY <1>3 DEF StoreInv, PublishedTablesDurable
<1>5. \A i \in DOMAIN job.l0 : job.l0[i] \in Idx /\ NamesTable(levels, 0, job.l0[i])
  BY <1>1, <1>2 DEF NamesTable
<1>6. \A i \in DOMAIN job.l1 :
        job.l1[i].idx \in Idx /\ NamesTable(levels, 1, job.l1[i].idx)
  <2>1. \A i \in DOMAIN job.l1 : job.l1[i].idx \in Numbers(job.l1)
    BY DEF Numbers
  <2> QED
    BY <1>1, <1>2, <2>1, NumbersAreIdx DEF NamesTable
<1> QED
  BY <1>1, <1>2, <1>4, <1>5, <1>6

\* The tables a merge reads from level 1 are there.
InputsPresent ==
  \A i \in DOMAIN job.l1 : job.l1[i].idx \in Idx /\ files[1][job.l1[i].idx] # NoFile

\* Writing a chunk leaves the merge as it is and takes the chunk's keys off
\* what is left.
LEMMA MergeUnchanged ==
  ASSUME TypeOK, WriteChunk, InputsPresent, NEW n \in Idx, NEW ks \in SUBSET Key,
         NEW t \in Table, Chunk(n, ks, t)
  PROVE  /\ Merged(job'.l0, job'.l1, files') = Merged(job.l0, job.l1, files)
         /\ Unwritten' = Unwritten \ ks
<1> DEFINE all == Merged(job.l0, job.l1, files)
           x == [idx |-> n, min |-> Min(ks), max |-> Max(ks)]
<1>1. /\ files \in Files /\ job.new \in Seq(L1Table)
      /\ job \in [l0 : Seq(Idx), l1 : Seq(L1Table), new : Seq(L1Table)]
  BY DEF TypeOK
<1>2. /\ files'[0] = files[0]
      /\ \A i \in Idx : i # n => files'[1][i] = files[1][i]
  BY <1>1 DEF Chunk, Files
<1>3. job'.l0 = job.l0 /\ job'.l1 = job.l1 /\ job'.new = Append(job.new, x)
  BY <1>1 DEF Chunk
<1>4. Unwritten # {}
  BY DEF WriteChunk
<1>5. \A i \in DOMAIN job.l1 : job.l1[i].idx \in Idx /\ job.l1[i].idx # n
  BY DEF Chunk, InputsPresent
<1>6. \A i \in DOMAIN job.l1 : files[1][job.l1[i].idx] = files'[1][job.l1[i].idx]
  BY <1>2, <1>5
<1>7. job.l0 \in Seq(Idx) /\ job.l1 \in Seq(L1Table)
  BY <1>1
<1>8. Merged(job.l0, job.l1, files') = all
  BY <1>2, <1>6, <1>7, MergedSameFiles, SMTT(60)
<1>9. Unwritten' = {k \in KeysIn(all) : \A i \in DOMAIN job'.new : k > job'.new[i].max}
  <2>1. Merged(job'.l0, job'.l1, files') = all
    BY <1>3, <1>8
  <2> HIDE DEF all
  <2> QED
    BY <2>1, Zenon DEF Unwritten
<1>10. \A k : (\A i \in DOMAIN job'.new : k > job'.new[i].max)
            <=> (\A i \in DOMAIN job.new : k > job.new[i].max) /\ k > Max(ks)
  <2>1. x.max = Max(ks)
    OBVIOUS
  <2> HIDE DEF x
  <2>2. /\ DOMAIN job'.new = DOMAIN job.new \cup {Len(job.new) + 1}
        /\ job'.new[Len(job.new) + 1] = x
        /\ \A i \in DOMAIN job.new : job'.new[i] = job.new[i]
    BY <1>1, <1>3
  <2> QED
    BY <2>1, <2>2
<1>11. /\ \A k \in Unwritten : k \notin ks => k > Max(ks)
       /\ \A k \in ks : ~(k > Max(ks))
  <2>1. /\ \A k \in ks : k >= Min(ks) /\ k <= Max(ks)
        /\ Max(ks) \in ks
        /\ \A k \in Unwritten : k \notin ks => k > Max(ks)
    BY <1>4, ChunkContents
  <2>2. \A k \in ks : k \in Int
    BY KeysAreOrdered
  <2> QED
    BY <2>1, <2>2
<1> HIDE DEF all
<1>12. Unwritten = {k \in KeysIn(all) : \A i \in DOMAIN job.new : k > job.new[i].max}
  BY DEF Unwritten, all
<1> QED
  BY <1>3, <1>8, <1>9, <1>10, <1>11, <1>12 DEF all

LEMMA ChunkProgress ==
  ASSUME TypeOK, InputsPresent, OutputsPresent, MergeProgress, WriteChunk
  PROVE  MergeProgress'
<1>1. PICK n \in Idx, ks \in SUBSET Key, t \in Table : Chunk(n, ks, t)
  BY WriteChunkWrites
<1> DEFINE all == Merged(job.l0, job.l1, files)
           x == [idx |-> n, min |-> Min(ks), max |-> Max(ks)]
<1>2. /\ Merged(job'.l0, job'.l1, files') = all /\ Unwritten' = Unwritten \ ks
  BY <1>1, MergeUnchanged
<1>3. /\ pc = "merge" /\ pc' = "chunkSync" /\ Unwritten # {}
  BY DEF WriteChunk
<1>4. /\ KeysIn(t) = ks /\ ks \subseteq Unwritten
      /\ Min(ks) \in ks /\ Max(ks) \in ks
      /\ \A k \in ks : k >= Min(ks) /\ k <= Max(ks)
  BY <1>1, <1>3, ChunkContents
<1>5. /\ files \in Files /\ job.new \in Seq(L1Table)
      /\ job \in [l0 : Seq(Idx), l1 : Seq(L1Table), new : Seq(L1Table)]
  BY DEF TypeOK
<1>6. /\ files'[1][n] = t
      /\ \A i \in Idx : i # n => files'[1][i] = files[1][i]
  BY <1>1, <1>5 DEF Chunk, Files
<1>7. job'.new = Append(job.new, x)
  BY <1>1, <1>5 DEF Chunk
<1>8. /\ x \in L1Table /\ x.idx = n
      /\ \A k \in ks : InRange(k, x)
  BY <1>4 DEF L1Table, InRange
<1>9. \A k \in Key : /\ k \in ks <=> Holds(t, k)
                     /\ k \in ks => t[k] = all[k]
  <2>1. t # NoFile
    BY SentinelsAreNoData
  <2>2. \A k \in Key : k \in ks <=> t[k] # None
    BY <1>4 DEF KeysIn
  <2>3. \A k \in ks : t[k] = all[k]
    BY <1>1 DEF Chunk
  <2> QED
    BY <2>1, <2>2, <2>3 DEF Holds
<1>10. \A i \in DOMAIN job.new : files'[1][job.new[i].idx] = files[1][job.new[i].idx]
  <2>1. \A i \in DOMAIN job.new : job.new[i].idx \in Numbers(job.new)
    BY DEF Numbers
  <2>2. \A i \in Numbers(job.new) : i \in Idx /\ i # n
    BY <1>1 DEF Chunk, OutputsPresent
  <2> QED
    BY <1>6, <2>1, <2>2
<1>11. \A k \in Key : L1Find(job.new, files[1], k) = IF k \in Unwritten THEN None ELSE all[k]
  BY <1>3 DEF MergeProgress
<1> HIDE DEF x, all
<1>12. ASSUME NEW k \in Key
       PROVE  L1Find(job'.new, files'[1], k) =
                IF k \in Unwritten \ ks THEN None ELSE all[k]
  <2>1. L1Find(job'.new, files'[1], k) =
          IF InRange(k, x) /\ Holds(t, k) THEN t[k] ELSE L1Find(job.new, files'[1], k)
    BY <1>5, <1>6, <1>7, <1>8, L1FindAppend
  <2>2. L1Find(job.new, files'[1], k) = L1Find(job.new, files[1], k)
    BY <1>5, <1>10, L1FindSameFiles
  <2> QED
    BY <1>4, <1>8, <1>9, <1>11, <2>1, <2>2
<1> QED
  BY <1>2, <1>3, <1>12 DEF MergeProgress

LEMMA MergeProgressStep == SafetyInv /\ [Next]_vars => MergeProgress'
<1> SUFFICES ASSUME SafetyInv, [Next]_vars,
                    pc' \in {"merge", "chunkSync", "installSync"}
             PROVE  MergeProgress'
  BY DEF MergeProgress
<1>1. \/ StartCompaction \/ WriteChunk \/ ChunkSync \/ Install \/ UNCHANGED vars
  BY DEF Next, Write, WriterStep, Log, Flush, Compact, Begin, WalAppend, WalSync,
     Apply, WriteTable, RefuseTable, TableSync, Publish, PublishSync, WalTruncate,
     TruncateSync, MemClear, NoCompaction, RewritePruned, RewriteSync, InstallSync,
     RemoveInputs, Crash, LoseMemory, Restart, Unlock
<1>2. CASE StartCompaction
  <2>1. job'.new = <<>> /\ pc' = "merge"
    BY <1>2 DEF StartCompaction
  <2>2. \A k \in Key : L1Find(job'.new, files'[1], k) = None
    BY <2>1 DEF L1Find
  <2>3. Unwritten' = KeysIn(Merged(job'.l0, job'.l1, files'))
    BY <2>1 DEF Unwritten
  <2> QED
    BY <2>1, <2>2, <2>3 DEF MergeProgress, KeysIn
<1>3. CASE ChunkSync \/ Install \/ UNCHANGED vars
  <2>1. UNCHANGED <<job, files>>
    BY <1>3 DEF ChunkSync, Install, vars, volatileVars, fileVars
  <2>2. /\ Unwritten' = Unwritten
        /\ Merged(job.l0, job.l1, files)' = Merged(job.l0, job.l1, files)
    BY <2>1 DEF Unwritten
  <2>3. pc \in {"merge", "chunkSync", "installSync"}
    BY <1>3 DEF ChunkSync, Install, vars, volatileVars
  <2>4. \A k \in Key : L1Find(job'.new, files'[1], k) =
          IF k \in Unwritten' THEN None ELSE Merged(job.l0, job.l1, files)'[k]
    BY <2>1, <2>2, <2>3 DEF SafetyInv, DataInv, MergeProgress
  <2>5. pc' = "installSync" => Unwritten' = {}
    BY <1>3, <2>2 DEF ChunkSync, Install, vars, volatileVars, SafetyInv, DataInv,
       MergeProgress
  <2> QED
    BY <2>4, <2>5 DEF MergeProgress
<1>4. CASE WriteChunk
  <2>1. InputsPresent
    BY <1>4, InputsExist DEF WriteChunk, SafetyInv, InputsPresent
  <2>2. OutputsPresent
    BY <1>4 DEF WriteChunk, SafetyInv, StoreInv, CompactionOutputs, OutputsPresent
  <2> QED
    BY <1>4, <2>1, <2>2, ChunkProgress DEF SafetyInv, StoreInv, DataInv
<1> QED
  BY <1>1, <1>2, <1>3, <1>4

-----------------------------------------------------------------------------
(***************************************************************************)
(* The inductive invariant, and what follows from it alone.                *)
(***************************************************************************)
LEMMA InitSafety == Init => SafetyInv
<1> SUFFICES ASSUME Init PROVE SafetyInv
  OBVIOUS
<1>1. LevelOneSorted
  BY EmptyRun DEF Init, LevelOneSorted, NoLevels, NoJob
<1> QED
  BY <1>1, InitStoreInv
     DEF Init, SafetyInv, DataInv, FlushedIsNewest, MergeProgress

LEMMA SafetyStep == SafetyInv /\ [Next]_vars => SafetyInv'
<1>1. SafetyInv /\ [Next]_vars => StoreInv'
  BY NextPreserves DEF SafetyInv
<1> QED
  BY <1>1, FlushedIsNewestStep, LevelOneSortedStep, MergeProgressStep
     DEF SafetyInv, DataInv

\* Every state satisfies StoreInv and DataInv: what EngineInv says of each
\* step of a flush and of a compaction.
THEOREM SafetyInvariant == Spec => []SafetyInv
BY InitSafety, SafetyStep, PTL DEF Spec

\* While no client stores anything getAll cannot read back, the log and the
\* MemTable match at every step of a write and of a flush as well.
THEOREM RecoveryInvariant == Spec => []RecoveryInv
<1>1. Init => RecoveryInv
  BY InitSafety, InitLogMatches DEF RecoveryInv
<1>2. RecoveryInv /\ [Next]_vars => RecoveryInv'
  <2>1. SafetyInv /\ [Next]_vars => SafetyInv'
    BY SafetyStep
  <2>2. ASSUME Unreadable = {}, SafetyInv, LogMatches, [Next]_vars
        PROVE  LogMatches'
    BY <2>2, LogMatchesStep DEF SafetyInv
  <2> QED
    BY <2>1, <2>2 DEF RecoveryInv
<1> QED
  BY <1>1, <1>2, PTL DEF Spec

\* "L1 tables are sorted and non-overlapping": however a compaction cuts its
\* chunks, whatever numbers they get and wherever a crash interrupts it.
THEOREM LevelOneStaysSorted == Spec => []LevelOneSorted
<1>1. SafetyInv => LevelOneSorted
  BY DEF SafetyInv, DataInv
<1> QED
  BY <1>1, SafetyInvariant, PTL

\* Between two writes the log on the device replays to the MemTable: nothing
\* is missing from it, and nothing a flush took over is still in it.
THEOREM LogRebuilds ==
  ASSUME Unreadable = {}
  PROVE  Spec => []LogRebuildsMemTable
<1>1. RecoveryInv => LogRebuildsMemTable
  BY DEF RecoveryInv, LogMatches, LogRebuildsMemTable
<1> QED
  BY <1>1, RecoveryInvariant, PTL

-----------------------------------------------------------------------------
(***************************************************************************)
(* What a restart finds after a crash in a given state.                    *)
(***************************************************************************)
\* A lookup depends on the files of the tables it names only.
LEMMA StoreFindSameFiles ==
  ASSUME NEW m \in Levels, NEW fs,
         \A l \in 0..1, n \in Idx : NamesTable(m, l, n) => fs[l][n] = files[l][n]
  PROVE  \A k : StoreFind(m, fs, k) = StoreFind(m, files, k)
<1>1. m.l0 \in Seq(Idx) /\ m.l1 \in Seq(L1Table)
  BY DEF Levels
<1>2. \A i \in DOMAIN m.l0 : m.l0[i] \in Idx /\ NamesTable(m, 0, m.l0[i])
  BY <1>1 DEF NamesTable
<1>3. \A i \in DOMAIN m.l1 : m.l1[i].idx \in Idx /\ NamesTable(m, 1, m.l1[i].idx)
  <2>1. \A i \in DOMAIN m.l1 : m.l1[i].idx \in Numbers(m.l1)
    BY DEF Numbers
  <2> QED
    BY <1>1, <2>1, NumbersAreIdx DEF NamesTable
<1>4. ASSUME NEW k PROVE L0Find(m.l0, fs[0], k) = L0Find(m.l0, files[0], k)
  BY <1>1, <1>2, L0FindSameFiles
<1>5. ASSUME NEW k PROVE L1Find(m.l1, fs[1], k) = L1Find(m.l1, files[1], k)
  BY <1>1, <1>3, L1FindSameFiles
<1> QED
  BY <1>4, <1>5 DEF StoreFind

\* The tables a manifest names survive the crash, so nothing is pruned.
LEMMA RecoveredFinds ==
  ASSUME StoreInv, NEW w, NEW m \in {manifest, manifestSynced},
         NEW S \in SUBSET Unsynced
  PROVE  Recovered(w, m, FilesAfter(S)) =
           [k \in Key |-> Visible(Find(Replay(w), m, files, k))]
<1> DEFINE fs == FilesAfter(S)
<1>1. m \in Levels
  BY DEF StoreInv, TypeOK
<1>2. \A l \in 0..1, n \in Idx : NamesTable(m, l, n) =>
        fs[l][n] = files[l][n] /\ files[l][n] # NoFile
  BY CrashKeepsNamedFiles DEF StoreInv, PublishedTablesDurable
<1> HIDE DEF fs
<1>3. Prune(m, fs) = m
  BY <1>2, NothingPruned
<1>4. \A k : StoreFind(m, fs, k) = StoreFind(m, files, k)
  BY <1>1, <1>2, StoreFindSameFiles
<1>5. \A k : Find(Replay(w), m, fs, k) = Find(Replay(w), m, files, k)
  BY <1>4 DEF Find
<1> QED
  BY <1>3, <1>5 DEF Recovered, fs

\* While a manifest is being replaced, the old one and the new one answer
\* alike once the MemTable has been asked: a flush adds the table the MemTable
\* became, and a compaction's outputs answer for its inputs.
LEMMA ManifestsAnswerAlike ==
  ASSUME SafetyInv, pc # "down", NEW m \in {manifest, manifestSynced}, NEW k \in Key
  PROVE  /\ Find(memTable, m, files, k) = Find(memTable, levels, files, k)
         /\ pc # "publishSync" => StoreFind(m, files, k) = StoreFind(levels, files, k)
<1> USE DEF SafetyInv, StoreInv
<1>1. CASE m = levels
  BY <1>1
<1>2. CASE pc = "publishSync" /\ m = manifest
  <2>1. /\ manifest = [levels EXCEPT !.l0 = Append(levels.l0, NewL0)]
        /\ files[0][NewL0] = memTable /\ NewL0 \in Idx /\ levels \in Levels
        /\ memTable \in Table
    BY <1>2 DEF ManifestInTransit, FlushedTable, FlushHasNumber, TypeOK
  <2>2. /\ m.l0 = Append(levels.l0, NewL0) /\ m.l1 = levels.l1
        /\ levels.l0 \in Seq(Idx)
    BY <1>2, <2>1 DEF Levels
  <2>3. L0Find(m.l0, files[0], k) =
          IF Holds(memTable, k) THEN memTable[k] ELSE L0Find(levels.l0, files[0], k)
    BY <2>1, <2>2, L0FindAppend
  <2>4. Holds(memTable, k) <=> memTable[k] # None
    BY <2>1, SentinelsAreNoData DEF Holds
  <2> QED
    BY <1>2, <2>2, <2>3, <2>4 DEF Find, StoreFind
<1>3. CASE pc = "installSync" /\ m = manifest
  <2>1. m = [l0 |-> <<>>, l1 |-> job.new]
    BY <1>3 DEF ManifestInTransit
  <2>2. StoreFind(m, files, k) = L1Find(job.new, files[1], k)
    <3>1. L0Find(<<>>, files[0], k) = None
      BY DEF L0Find
    <3> QED
      BY <2>1, <3>1 DEF StoreFind
  <2>3. L1Find(job.new, files[1], k) = Merged(job.l0, job.l1, files)[k]
    BY <1>3 DEF DataInv, MergeProgress
  <2>4. /\ job.l0 = levels.l0 /\ job.l1 = levels.l1
        /\ \A i \in DOMAIN job.l1 : files[1][job.l1[i].idx] # NoFile
    BY <1>3, InputsExist
  <2>5. SortedRun(job.l1, files[1])
    BY <2>4 DEF DataInv, LevelOneSorted
  <2>6. Merged(job.l0, job.l1, files)[k] =
          StoreFind([l0 |-> job.l0, l1 |-> job.l1], files, k)
    BY <2>4, <2>5, MergeIsLookup
  <2>7. [l0 |-> job.l0, l1 |-> job.l1] = levels
    BY <2>4 DEF TypeOK, Levels
  <2> QED
    BY <1>3, <2>2, <2>3, <2>6, <2>7 DEF Find
<1>4. CASE m # levels /\ ~(pc \in {"publishSync", "installSync"} /\ m = manifest)
  <2>1. pc = "rewriteSync" /\ m = manifest
    BY <1>4 DEF ManifestMatchesMemory, ManifestInTransit
  <2>2. m = [l0 |-> job.l0, l1 |-> job.l1] /\ job.l0 = levels.l0 /\ job.l1 = levels.l1
    BY <2>1 DEF ManifestInTransit, CompactionInputs
  <2>3. m = levels
    BY <2>2 DEF TypeOK, Levels
  <2> QED
    BY <1>4, <2>3
<1> QED
  BY <1>1, <1>2, <1>3, <1>4

\* Until the MemTable is cleared, level 0 answers for it.
LEMMA LevelZeroHasMemTable ==
  ASSUME TypeOK, FlushedIsNewest, pc \in {"truncate", "truncateSync", "clear"},
         NEW k \in Key
  PROVE  Find(EmptyTable, levels, files, k) = Find(memTable, levels, files, k)
<1>1. levels \in Levels /\ memTable \in Table
  BY DEF TypeOK
<1>2. levels.l0 \in Seq(Idx)
  BY <1>1 DEF Levels
<1>3. levels.l0 # <<>> /\ files[0][levels.l0[Len(levels.l0)]] = memTable
  BY DEF FlushedIsNewest
<1>4. CASE memTable[k] # None
  <2>1. Holds(memTable, k)
    BY <1>1, <1>4, SentinelsAreNoData DEF Holds
  <2>2. L0Find(levels.l0, files[0], k) = memTable[k]
    BY <1>2, <1>3, <2>1, L0FindNewest
  <2> QED
    BY <1>4, <2>2 DEF Find, StoreFind, EmptyTable
<1>5. CASE memTable[k] = None
  BY <1>5 DEF Find, EmptyTable
<1> QED
  BY <1>4, <1>5

LEMMA RecoveryIsCrashSafe == SafetyInv /\ LogMatches => CrashSafe
<1> SUFFICES ASSUME SafetyInv, LogMatches, pc # "down", NEW w \in {wal, walSynced},
                    NEW m \in {manifest, manifestSynced}, NEW S \in SUBSET Unsynced
             PROVE  \/ Recovered(w, m, FilesAfter(S)) = View
                    \/ /\ op # None
                       /\ Recovered(w, m, FilesAfter(S)) =
                            [View EXCEPT ![op.key] = Visible(op.entry)]
  BY DEF CrashSafe
<1>1. Recovered(w, m, FilesAfter(S)) =
        [k \in Key |-> Visible(Find(Replay(w), m, files, k))]
  BY RecoveredFinds DEF SafetyInv
<1>2. View = [k \in Key |-> Visible(Find(memTable, levels, files, k))]
  BY DEF View
<1>3. CASE Replay(w) = memTable
  BY <1>1, <1>2, <1>3, ManifestsAnswerAlike
<1>4. CASE pc \in {"walSync", "apply"} /\ Replay(w) # memTable
  <2>1. op \in Record /\ memTable \in Table
    BY <1>4 DEF SafetyInv, StoreInv, RecordInHand, TypeOK
  <2>2. Replay(w) = [memTable EXCEPT ![op.key] = op.entry]
    <3>1. CASE pc = "walSync"
      <4>1. /\ walSynced \in Seq(Record) /\ wal = Append(walSynced, op)
            /\ Replay(walSynced) = memTable
        BY <3>1 DEF LogMatches
      <4> QED
        BY <1>4, <2>1, <4>1, ReplayAppend
    <3>2. CASE pc = "apply"
      BY <3>2 DEF LogMatches
    <3> QED
      BY <1>4, <3>1, <3>2
  <2>3. op.entry # None /\ op.key \in Key
    BY <2>1, SentinelsDiffer DEF Record, Entry
  <2>4. \A k \in Key : Find(Replay(w), m, files, k) =
          IF k = op.key THEN op.entry ELSE Find(memTable, levels, files, k)
    <3>1. \A k \in Key : Replay(w)[k] = IF k = op.key THEN op.entry ELSE memTable[k]
      BY <2>1, <2>2 DEF Table
    <3>2. \A k \in Key : Find(memTable, m, files, k) = Find(memTable, levels, files, k)
      BY ManifestsAnswerAlike
    <3> QED
      BY <2>3, <3>1, <3>2 DEF Find
  <2>5. op # None
    BY <2>1, SentinelsAreNoData
  <2> QED
    BY <1>1, <1>2, <2>3, <2>4, <2>5
<1>5. CASE pc \notin {"walSync", "apply"} /\ Replay(w) # memTable
  <2>1. pc \in {"truncateSync", "clear"} /\ w = <<>>
    BY <1>5, ReplayNothing DEF SafetyInv, LogMatches, StoreInv, TypeOK, PCs
  <2>2. \A k \in Key : Find(EmptyTable, m, files, k) = Find(EmptyTable, levels, files, k)
    BY <2>1, ManifestsAnswerAlike DEF Find, EmptyTable
  <2> QED
    BY <1>1, <1>2, <2>1, <2>2, LevelZeroHasMemTable, ReplayNothing
       DEF SafetyInv, StoreInv, DataInv
<1> QED
  BY <1>3, <1>4, <1>5

-----------------------------------------------------------------------------
(***************************************************************************)
(* What readers see.                                                       *)
(***************************************************************************)
\* A new engine answers nothing.
LEMMA InitSeen ==
  ASSUME Init
  PROVE  View = [k \in Key |-> None]
<1>1. \A k \in Key : Find(memTable, levels, files, k) = None
  BY DEF Init, NoLevels, EmptyTable, Find, StoreFind, L0Find, L1Find
<1>2. Visible(None) = None
  BY DEF Visible
<1> QED
  BY <1>1, <1>2 DEF View, Init

\* Readers see the level state in memory through the files it names.
LEMMA ViewKept ==
  ASSUME TypeOK, pc # "down", pc' # "down", UNCHANGED <<memTable, levels>>,
         \A l \in 0..1, n \in Idx :
           NamesTable(levels, l, n) => files'[l][n] = files[l][n]
  PROVE  View' = View
<1>1. \A k : StoreFind(levels, files', k) = StoreFind(levels, files, k)
  <2>1. levels \in Levels
    BY DEF TypeOK
  <2> QED
    BY <2>1, StoreFindSameFiles
<1>2. \A k : Find(memTable, levels, files', k) = Find(memTable, levels, files, k)
  BY <1>1 DEF Find
<1> QED
  BY <1>2 DEF View

\* The table a flush wrote answers for the MemTable it clears.
LEMMA MemClearUnseen ==
  ASSUME TypeOK, FlushedIsNewest, MemClear
  PROVE  View' = View
<1>1. /\ pc = "clear" /\ pc' = "maybeCompact" /\ memTable' = EmptyTable
      /\ UNCHANGED <<op, levels, files>>
  BY DEF MemClear, fileVars
<1> QED
  BY <1>1, LevelZeroHasMemTable DEF View

\* Readers see a write when it is applied, for its key.
LEMMA ApplySeen ==
  ASSUME TypeOK, RecordInHand, Apply
  PROVE  op # None /\ View' = [View EXCEPT ![op.key] = Visible(op.entry)]
<1>1. /\ pc = "apply" /\ pc' # "down"
      /\ memTable' = [memTable EXCEPT ![op.key] = op.entry]
      /\ UNCHANGED <<levels, files>>
  BY DEF Apply, Unlock, fileVars
<1>2. op \in Record /\ op # None /\ memTable \in Table
  BY <1>1, SentinelsAreNoData DEF RecordInHand, TypeOK
<1>3. op.key \in Key /\ op.entry # None
  BY <1>2, SentinelsDiffer DEF Record, Entry
<1>4. \A k \in Key : Find(memTable', levels', files', k) =
        IF k = op.key THEN op.entry ELSE Find(memTable, levels, files, k)
  <2>1. \A k \in Key : memTable'[k] = IF k = op.key THEN op.entry ELSE memTable[k]
    BY <1>1, <1>2 DEF Table
  <2> QED
    BY <1>1, <1>3, <2>1 DEF Find
<1> QED
  BY <1>1, <1>2, <1>3, <1>4 DEF View

\* A restart makes of the files what View says of them.
LEMMA RestartUnseen ==
  ASSUME Restart
  PROVE  View' = View
<1>1. /\ pc = "down" /\ pc' = "idle"
      /\ levels' = Prune(manifest, files) /\ memTable' = Replay(wal)
      /\ UNCHANGED <<wal, manifest, files>>
  BY DEF Restart, walVars, manifestVars, fileVars
<1> QED
  BY <1>1 DEF View, Recovered

-----------------------------------------------------------------------------
\* Wherever a crash strikes and whatever part of the cache it takes along, a
\* restart finds every write that returned, and the interrupted one entirely
\* or not at all.
THEOREM EngineIsCrashSafe ==
  ASSUME Unreadable = {}
  PROVE  Spec => []CrashSafe
<1>1. RecoveryInv => CrashSafe
  BY RecoveryIsCrashSafe DEF RecoveryInv
<1> QED
  BY <1>1, RecoveryInvariant, PTL

-----------------------------------------------------------------------------
(***************************************************************************)
(* The engine implements the map: every step of Engine is a step of        *)
(* KVStore or changes nothing callers can observe.                         *)
(***************************************************************************)
LEMMA InitImplements == Init => KV!Init
BY InitSeen DEF Init, KV!Init

-----------------------------------------------------------------------------
(***************************************************************************)
(* Steps callers cannot observe.                                           *)
(***************************************************************************)
\* A new or a removed file is none the level state names.
LEMMA FileStepInvisible ==
  ASSUME SafetyInv, WriteTable \/ WriteChunk \/ RemoveInputs
  PROVE  UNCHANGED KV!kvVars
<1>1. /\ pc \in {"writeTable", "merge", "remove"} /\ pc' # "down"
      /\ UNCHANGED <<memTable, levels, manifest>>
  BY DEF WriteTable, WriteChunk, RemoveInputs, Unlock, manifestVars
<1>2. op = None /\ op' = None
  BY <1>1 DEF WriteTable, WriteChunk, RemoveInputs, Unlock, SafetyInv, StoreInv,
     RecordInHand
<1>3. manifest = levels /\ StoreInv
  BY <1>1 DEF SafetyInv, StoreInv, ManifestMatchesMemory
<1>4. [Next]_vars
  BY DEF Next, WriterStep, Flush, Compact
<1>5. \A l \in 0..1, n \in Idx : NamesTable(levels, l, n) => files'[l][n] = files[l][n]
  BY <1>1, <1>3, <1>4, StepKeepsLiveTables
<1> QED
  BY <1>1, <1>2, <1>3, <1>5, ViewKept DEF KV!kvVars, StoreInv

\* The level state follows the manifest, and the two answer alike.
LEMMA LevelStepInvisible ==
  ASSUME SafetyInv, PublishSync \/ RewriteSync \/ InstallSync
  PROVE  UNCHANGED KV!kvVars
<1>1. /\ pc \in {"publishSync", "rewriteSync", "installSync"} /\ pc' # "down"
      /\ UNCHANGED <<memTable, files>>
  BY DEF PublishSync, RewriteSync, InstallSync, Unlock, fileVars
<1>2. op = None /\ op' = None
  BY <1>1 DEF PublishSync, RewriteSync, InstallSync, Unlock, SafetyInv, StoreInv,
     RecordInHand
<1>3. levels' = manifest
  BY DEF PublishSync, RewriteSync, InstallSync, SafetyInv, StoreInv, ManifestInTransit
<1>4. \A k \in Key : Find(memTable, manifest, files, k) = Find(memTable, levels, files, k)
  BY <1>1, ManifestsAnswerAlike
<1>5. View' = View
  BY <1>1, <1>3, <1>4 DEF View
<1> QED
  BY <1>1, <1>2, <1>5 DEF KV!kvVars

\* The MemTable is in level 0 when it is cleared.
LEMMA MemClearInvisible ==
  ASSUME SafetyInv, MemClear
  PROVE  UNCHANGED KV!kvVars
<1>1. pc = "clear" /\ pc' = "maybeCompact" /\ op' = op
  BY DEF MemClear
<1>2. View' = View
  BY MemClearUnseen DEF SafetyInv, StoreInv, DataInv
<1> QED
  BY <1>1, <1>2 DEF KV!kvVars

\* Everything else inside a write touches neither what readers see nor op.
LEMMA QuietStepInvisible ==
  ASSUME SafetyInv,
         \/ Log \/ RefuseTable \/ TableSync \/ Publish \/ WalTruncate
         \/ TruncateSync \/ NoCompaction \/ StartCompaction \/ RewritePruned
         \/ ChunkSync \/ Install
  PROVE  UNCHANGED KV!kvVars
<1>1. /\ pc # "down" /\ pc' # "down"
      /\ UNCHANGED <<memTable, levels, files>>
  BY DEF Log, WalAppend, WalSync, RefuseTable, TableSync, Publish, WalTruncate,
     TruncateSync, NoCompaction, StartCompaction, RewritePruned, ChunkSync, Install,
     Unlock, fileVars
<1>2. op' = op
  BY DEF Log, WalAppend, WalSync, RefuseTable, TableSync, Publish, WalTruncate,
     TruncateSync, NoCompaction, StartCompaction, RewritePruned, ChunkSync, Install,
     Unlock, SafetyInv, StoreInv, RecordInHand
<1>3. View' = View
  BY <1>1, ViewKept DEF SafetyInv, StoreInv
<1> QED
  BY <1>1, <1>2, <1>3 DEF KV!kvVars

-----------------------------------------------------------------------------
(***************************************************************************)
(* Steps of the map.                                                       *)
(***************************************************************************)
LEMMA WriteStarts ==
  ASSUME SafetyInv, Write
  PROVE  KV!Start
<1>1. /\ pc = "idle" /\ pc' = "append" /\ op' \in Record
      /\ UNCHANGED <<memTable, levels, files>>
  BY DEF Write, Begin, Record, fileVars
<1>2. View' = View
  BY <1>1, ViewKept DEF SafetyInv, StoreInv
<1>3. op = None
  BY <1>1 DEF SafetyInv, StoreInv, RecordInHand
<1> QED
  BY <1>1, <1>2, <1>3 DEF KV!Start, KV!Write, Record, Entry

LEMMA ApplyCommits ==
  ASSUME SafetyInv, Apply
  PROVE  KV!Commit
<1>1. pc = "apply" /\ pc' # "down" /\ op' = None
  BY DEF Apply, Unlock
<1>2. op # None /\ View' = [View EXCEPT ![op.key] = Visible(op.entry)]
  BY ApplySeen DEF SafetyInv, StoreInv
<1> QED
  BY <1>1, <1>2 DEF KV!Commit, KV!Applied, Visible

LEMMA CrashCrashes ==
  ASSUME SafetyInv, LogMatches, Crash
  PROVE  KV!Crash
<1>1. /\ pc # "down" /\ pc' = "down" /\ op' = None
      /\ wal' \in {wal, walSynced} /\ manifest' \in {manifest, manifestSynced}
  BY DEF Crash, LoseMemory
<1>2. PICK S \in SUBSET Unsynced : files' = FilesAfter(S)
  BY DEF Crash
<1>3. View' = Recovered(wal', manifest', FilesAfter(S))
  <2>1. View' = Recovered(wal', manifest', files')
    BY <1>1 DEF View
  <2> QED
    BY <1>2, <2>1
<1>4. \/ View' = View
      \/ op # None /\ View' = [View EXCEPT ![op.key] = Visible(op.entry)]
  BY <1>1, <1>3, RecoveryIsCrashSafe DEF CrashSafe
<1> QED
  BY <1>1, <1>4 DEF KV!Crash, KV!Applied, Visible

LEMMA RestartRecovers ==
  ASSUME Restart
  PROVE  KV!Recover
<1>1. pc = "down" /\ pc' = "idle" /\ op' = op
  BY DEF Restart
<1> QED
  BY <1>1, RestartUnseen DEF KV!Recover

LEMMA StepImplements ==
  SafetyInv /\ LogMatches /\ [Next]_vars => [KV!Next]_(KV!kvVars)
<1> SUFFICES ASSUME SafetyInv, LogMatches, [Next]_vars PROVE [KV!Next]_(KV!kvVars)
  OBVIOUS
<1>1. CASE Write
  BY <1>1, WriteStarts DEF KV!Next
<1>2. CASE Apply
  BY <1>2, ApplyCommits DEF KV!Next
<1>3. CASE Crash
  BY <1>3, CrashCrashes DEF KV!Next
<1>4. CASE Restart
  BY <1>4, RestartRecovers DEF KV!Next
<1>5. CASE WriterStep /\ ~Apply
  BY <1>5, FileStepInvisible, LevelStepInvisible, MemClearInvisible,
     QuietStepInvisible DEF WriterStep, Flush, Compact
<1>6. CASE UNCHANGED vars
  BY <1>6 DEF vars, volatileVars, walVars, manifestVars, fileVars, View, KV!kvVars
<1> QED
  BY <1>1, <1>2, <1>3, <1>4, <1>5, <1>6 DEF Next

\* The write path with its log, flushes, compactions, crashes and restarts is
\* a map that one write at a time changes, atomically and durably.
THEOREM EngineImplementsKVStore ==
  ASSUME Unreadable = {}
  PROVE  Spec => ImplementsKVStore
<1>1. Init => KV!Init
  BY InitImplements
<1>2. RecoveryInv /\ [Next]_vars => [KV!Next]_(KV!kvVars)
  BY StepImplements DEF RecoveryInv
<1> QED
  BY <1>1, <1>2, RecoveryInvariant, PTL DEF Spec, ImplementsKVStore, KV!Spec
=============================================================================
