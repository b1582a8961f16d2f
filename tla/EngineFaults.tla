---------------------------- MODULE EngineFaults ----------------------------
(***************************************************************************)
(* The write path of Engine when file operations fail.  Each action here   *)
(* is an early return of the code with the clean-up its callers and its    *)
(* deferred functions do; all end the operation, log the error, give       *)
(* writeMu back and leave the MemTable as it is (Put and Delete return no  *)
(* error to their callers).                                                *)
(*                                                                         *)
(* An fsync that fails leaves the device with the old or the new state:    *)
(* the variables of the device stay behind and a later crash chooses.      *)
(*                                                                         *)
(* Faults selects the operations that may fail.                            *)
(***************************************************************************)
EXTENDS Engine, SequencesExt

CONSTANT Faults

FaultKinds == {"append", "appendSync", "tornAppend", "tornCrash",
               "save", "saveSync", "publish", "publishSync",
               "truncate", "truncateSync", "merge", "chunkSync",
               "install", "installSync", "remove", "stat"}

ASSUME FaultsAreKnown == Faults \subseteq FaultKinds

Fails(kind, at) ==
  /\ kind \in Faults
  /\ pc = at

-----------------------------------------------------------------------------
(***************************************************************************)
(* The log.                                                                *)
(***************************************************************************)
\* Put goes on although the log could not be opened.
AppendFails_ignored ==
  /\ Fails("append", "append")
  /\ pc' = "apply"
  /\ UNCHANGED <<op, memTable, levels, job, walVars, manifestVars, fileVars>>

\* The log cannot be opened.
AppendFails ==
  /\ Fails("append", "append")
  /\ Unlock
  /\ UNCHANGED <<memTable, levels, job, walVars, manifestVars, fileVars>>

\* A part of a record at the end of a log; one that follows another stays on
\* the same line.
TornAppend(w) ==
  IF w # <<>> /\ w[Len(w)] = Torn THEN w ELSE Append(w, Torn)

\* Encode writes a part of the line and fails.
AppendTears ==
  /\ Fails("tornAppend", "append")
  /\ wal' = TornAppend(wal)
  /\ Unlock
  /\ UNCHANGED <<memTable, levels, job, walSynced, manifestVars, fileVars>>

\* The line is in the file, but Sync, Close or syncParentDir fails.
AppendSyncFails ==
  /\ Fails("appendSync", "walSync")
  /\ Unlock
  /\ UNCHANGED <<memTable, levels, job, walVars, manifestVars, fileVars>>

\* A crash before the fsync leaves a part of the record on the device.
CrashTears ==
  /\ Fails("tornCrash", "walSync")
  /\ LoseMemory
  /\ wal' = TornAppend(Front(wal)) /\ walSynced' = wal'
  /\ manifest' \in {manifest, manifestSynced} /\ manifestSynced' = manifest'
  /\ \E S \in SUBSET Unsynced : files' = FilesAfter(S)
  /\ filesSynced' = files'

-----------------------------------------------------------------------------
(***************************************************************************)
(* The flush.                                                              *)
(***************************************************************************)
\* CreateTemp, a write, Sync, Close, the sidecar or Rename fails: the deferred
\* function removes the temporary file.
SaveFails ==
  /\ Fails("save", "writeTable")
  /\ Unlock
  /\ UNCHANGED <<memTable, levels, job, walVars, manifestVars, fileVars>>

\* The error of syncParentDir is ignored.
SaveSyncFails_ignored ==
  /\ Fails("saveSync", "tableSync")
  /\ pc' = "publish"
  /\ UNCHANGED <<op, memTable, levels, job, walVars, manifestVars, fileVars>>

\* The directory of the renamed table cannot be synced: it stays, unnamed.
SaveSyncFails ==
  /\ Fails("saveSync", "tableSync")
  /\ Unlock
  /\ UNCHANGED <<memTable, levels, job, walVars, manifestVars, fileVars>>

\* removeSSTableAndBloom(filePath) of saveLevel0SSTableWithWriter.
RemoveNewTable == files' = [files EXCEPT ![0] = [@ EXCEPT ![NewL0] = NoFile]]

\* The manifest cannot be read back or replaced: the new table is removed.
PublishFails ==
  /\ Fails("publish", "publish")
  /\ RemoveNewTable
  /\ Unlock
  /\ UNCHANGED <<memTable, levels, job, walVars, manifestVars, filesSynced>>

\* The manifest was replaced, but its directory cannot be synced: the new
\* table is removed although the manifest names it.
PublishSyncFails ==
  /\ Fails("publishSync", "publishSync")
  /\ RemoveNewTable
  /\ Unlock
  /\ UNCHANGED <<memTable, levels, job, walVars, manifestVars, filesSynced>>

\* The flush is published; the log and the MemTable keep what it wrote.
TruncateFails ==
  /\ Fails("truncate", "truncate")
  /\ Unlock
  /\ UNCHANGED <<memTable, levels, job, walVars, manifestVars, fileVars>>

\* The truncation is tried again until its fsync succeeds.
TruncateSyncFails_retried ==
  /\ Fails("truncateSync", "truncateSync")
  /\ pc' = "truncate"
  /\ UNCHANGED <<op, memTable, levels, job, walVars, manifestVars, fileVars>>

TruncateSyncFails ==
  /\ Fails("truncateSync", "truncateSync")
  /\ Unlock
  /\ UNCHANGED <<memTable, levels, job, walVars, manifestVars, fileVars>>

-----------------------------------------------------------------------------
(***************************************************************************)
(* The compaction.  While published is false, the deferred function        *)
(* removes every table in newTables.                                       *)
(***************************************************************************)
RemoveOutputs(new) ==
  files' = [files EXCEPT ![1] = [i \in Idx |->
              IF i \in Numbers(new) THEN NoFile ELSE @[i]]]

Abandon(new) ==
  /\ RemoveOutputs(new)
  /\ job' = NoJob
  /\ Unlock
  /\ UNCHANGED <<memTable, levels, walVars, manifestVars, filesSynced>>

\* An input cannot be opened or read, or a chunk cannot be written.
MergeFails == Fails("merge", "merge") /\ Abandon(job.new)

\* flushChunk returns before it adds the renamed chunk to newTables.
ChunkSyncFails == Fails("chunkSync", "chunkSync") /\ Abandon(Front(job.new))

\* The new manifest cannot be written or renamed.
InstallFails ==
  /\ Fails("install", "merge") /\ Unwritten = {}
  /\ Abandon(job.new)

\* The new manifest is in place, but its directory cannot be synced: the
\* tables it names are removed and the old levels stay in memory.
InstallSyncFails == Fails("installSync", "installSync") /\ Abandon(job.new)

\* The same two errors when only the pruned levels are made persistent.
RewriteFails ==
  /\ \/ Fails("install", "rewrite")
     \/ Fails("installSync", "rewriteSync")
  /\ Abandon(<<>>)

\* Some of the inputs cannot be removed; the error is logged.
RemoveFails ==
  /\ Fails("remove", "remove")
  /\ \E K0 \in SUBSET {job.l0[j] : j \in DOMAIN job.l0},
        K1 \in SUBSET Numbers(job.l1) :
       files' = [l \in 0..1 |-> [i \in Idx |->
                   IF i \in (IF l = 0 THEN K0 ELSE K1) THEN NoFile ELSE files[l][i]]]
  /\ job' = NoJob
  /\ Unlock
  /\ UNCHANGED <<memTable, levels, walVars, manifestVars, filesSynced>>

-----------------------------------------------------------------------------
(***************************************************************************)
(* Pruning.  os.Stat fails for a table that is there: the table is dropped *)
(* from the level state like a missing one, but its file stays.            *)
(***************************************************************************)
\* compactSSTables drops some from the levels it is going to install.
CompactionForgets ==
  /\ Fails("stat", "maybeCompact") /\ Len(levels.l0) = COMPACTION_THRESHOLD
  /\ \E D \in SUBSET {s \in (0..1) \X Idx : NamesTable(levels, s[1], s[2])} :
       LET seen == [l \in 0..1 |-> [i \in Idx |->
                      IF <<l, i>> \in D THEN NoFile ELSE files[l][i]]]
           lv == Prune(levels, seen)
       IN  /\ D # {}
           /\ job' = [l0 |-> lv.l0, l1 |-> lv.l1, new |-> <<>>]
           /\ pc' = IF Len(lv.l0) < 2 THEN "rewrite" ELSE "merge"
  /\ UNCHANGED <<op, memTable, levels, walVars, manifestVars, fileVars>>

-----------------------------------------------------------------------------
LogFault == AppendFails \/ AppendTears \/ AppendSyncFails
FlushFault ==
  \/ SaveFails \/ SaveSyncFails \/ PublishFails \/ PublishSyncFails
  \/ TruncateFails \/ TruncateSyncFails
CompactFault ==
  \/ MergeFails \/ ChunkSyncFails \/ InstallFails \/ InstallSyncFails
  \/ RewriteFails \/ RemoveFails

\* A failure is a step of the goroutine that holds writeMu.
FaultyStep ==
  WriterStep \/ LogFault \/ FlushFault \/ CompactFault \/ CompactionForgets

FaultyNext ==
  Write \/ FaultyStep \/ Crash \/ CrashTears \/ Restart

FaultySpec == Init /\ [][FaultyNext]_vars

FairFaultySpec == FaultySpec /\ WF_vars(FaultyStep) /\ WF_vars(Restart)

-----------------------------------------------------------------------------
(***************************************************************************)
(* Correctness.                                                            *)
(***************************************************************************)
\* Is k in a table that the levels name and the compaction forgets?
Forgotten(k) ==
  \E l \in 0..1, n \in Idx :
    NamesTable(levels, l, n) /\ ~NamesTable(job, l, n) /\ Holds(files[l][n], k)

\* While the engine runs, whatever fails, what readers see changes only when a
\* write is applied, and then for its key only, or when a compaction that could
\* not stat all its tables ends, and then for their keys only.  Every clean-up
\* after a failed flush or compaction must leave the tables the levels name, and
\* a flush that fails half way must not let the log or the MemTable go.
ReadersUndisturbed ==
  [][pc # "down" /\ pc' # "down" =>
       \/ View' = View
       \/ /\ pc \in {"rewriteSync", "installSync"}
          /\ \A k \in Key : View'[k] # View[k] => Forgotten(k)
       \/ /\ pc = "apply"
          /\ View' = [View EXCEPT ![op.key] = Visible(op.entry)]]_vars
=============================================================================
