--------------------------- MODULE EngineFaultsInv ---------------------------
(***************************************************************************)
(* The inductive invariants of EngineFaults.  After a failure the manifest *)
(* may name a table that was removed again, the log may repeat what level  *)
(* 0 already has, or have less than the MemTable, and files nobody names   *)
(* stay behind, so that EngineInv does not hold.                           *)
(*                                                                         *)
(* FaultTablesInv is about the tables, for every failure but one: that of  *)
(* the directory sync after a compaction's manifest, which takes away      *)
(* tables the manifest names.  FaultLogInv is about the log, for the       *)
(* harmless failures.                                                      *)
(***************************************************************************)
EXTENDS EngineFaults, EngineInv

\* The failures after which a restart still finds every write that returned.
HarmlessFaults ==
  FaultKinds \ {"appendSync", "tornAppend", "tornCrash", "installSync", "stat"}

RejectingKV == INSTANCE KVStore WITH
        kv <- View, pending <- op, up <- (pc # "down"), MayReject <- TRUE

\* With errors, a write that failed had no effect, and everything else is as
\* without them: what EngineFaults promises of Put, Delete and Get.
ImplementsRejectingKVStore == RejectingKV!Spec

-----------------------------------------------------------------------------
(***************************************************************************)
(* Tables and manifests.                                                   *)
(***************************************************************************)
\* The numbers of level 0.
L0Numbers(lv) == {n \in Idx : NamesTable(lv, 0, n)}

\* From the publication of a flush to the end of its operation.
Flushed ==
  pc \in {"truncate", "truncateSync", "clear", "maybeCompact", "rewrite",
          "rewriteSync", "merge", "chunkSync", "installSync", "remove"}

\* Every table of the level state is in the cache and on the device.
LevelsOnDevice ==
  \A l \in 0..1, n \in Idx :
    NamesTable(levels, l, n) =>
      files[l][n] # NoFile /\ filesSynced[l][n] = files[l][n]

\* A manifest names the tables of the level state, perhaps more than once, and
\* besides only the one of the flush that is going on or that failed.
Follows(m) ==
  /\ m.l1 = levels.l1
  /\ Ascends(m.l0)
  /\ L0Numbers(levels) \subseteq L0Numbers(m)
  /\ L0Numbers(m) \subseteq L0Numbers(levels) \cup {NewL0}
  /\ Flushed => L0Numbers(m) = L0Numbers(levels)

\* What the start-up finds: if a table of the manifest is missing, its number
\* is the one the next flush will use.
Loadable(m) ==
  LET here == {n \in L0Numbers(m) : files[0][n] # NoFile}
  IN  /\ Ascends(m.l0)
      /\ L0Numbers(m) \subseteq here \cup {NextIndex(here)}
      /\ \A n \in Numbers(m.l1) : files[1][n] # NoFile

ManifestsFollow ==
  /\ pc \notin {"rewriteSync", "installSync", "down"} => Follows(manifest)
  /\ pc # "down" => Ascends(levels.l0) /\ Follows(manifestSynced)
  /\ pc = "publishSync" => NamesTable(manifest, 0, NewL0)
  /\ pc = "rewriteSync" => manifest = [l0 |-> job.l0, l1 |-> job.l1]
  /\ pc = "installSync" => manifest = [l0 |-> <<>>, l1 |-> job.new]
  /\ pc = "down" => /\ manifestSynced = manifest /\ filesSynced = files
                    /\ levels = NoLevels /\ Loadable(manifest)

\* The contents table NewL0 has, or may get back by a crash.
LeftBehind == {files[0][NewL0], filesSynced[0][NewL0]} \ {NoFile}

\* If a manifest names it, the MemTable has the keys of the flush that failed.
MemTableCovers ==
  pc # "down" =>
    \A m \in {manifest, manifestSynced} : NamesTable(m, 0, NewL0) =>
      \A t \in LeftBehind : KeysIn(t) \subseteq KeysIn(memTable)

\* A compaction reads tables the level state names, all of them unless stat
\* may fail.
InputsOfLevels ==
  pc \in {"rewrite", "rewriteSync", "merge", "chunkSync", "installSync"} =>
    /\ Ascends(job.l0) /\ L0Numbers(job) \subseteq L0Numbers(levels)
    /\ Numbers(job.l1) \subseteq Numbers(levels.l1)
    /\ SortedRun(job.l1, files[1])
    /\ "stat" \notin Faults => job.l0 = levels.l0 /\ job.l1 = levels.l1

\* Its outputs are files of their own, on the device when the next begins.
OutputsApart ==
  /\ pc \in {"merge", "chunkSync", "installSync"} =>
       \A n \in Numbers(job.new) : n \in Idx /\ files[1][n] # NoFile
                                   /\ n \notin Numbers(levels.l1)
  /\ pc \in {"merge", "installSync"} =>
       \A n \in Numbers(job.new) : filesSynced[1][n] = files[1][n]
  /\ pc = "remove" => /\ levels = [l0 |-> <<>>, l1 |-> job.new]
                      /\ Numbers(job.new) \cap Numbers(job.l1) = {}

FaultTablesInv ==
  /\ TypeOK
  /\ RecordInHand
  /\ FlushHasNumber
  /\ LevelsOnDevice
  /\ ManifestsFollow
  /\ MemTableCovers
  /\ FlushedTable
  /\ InputsOfLevels
  /\ OutputsApart
  /\ DataInv

-----------------------------------------------------------------------------
(***************************************************************************)
(* The log.                                                                *)
(***************************************************************************)
\* With the tables of the level state, log w answers like the MemTable does.
Rebuilds(w) ==
  \A k \in Key : Find(Replay(w), levels, files, k) = Find(memTable, levels, files, k)

\* The same when the record in hand is in the log already.
RebuildsWithOp(w) ==
  \A k \in Key : Find(Replay(w), levels, files, k) =
                   IF k = op.key THEN op.entry ELSE Find(memTable, levels, files, k)

\* Where a failed flush left a table, log w shadows it, or it says nothing new.
LogCovers(w) ==
  \A m \in {manifest, manifestSynced} : NamesTable(m, 0, NewL0) =>
    \A t \in LeftBehind : \A k \in KeysIn(t) :
      Replay(w)[k] # None \/ t[k] = StoreFind(levels, files, k)

FaultLogInv ==
  /\ wal \in Seq(Record) /\ walSynced \in Seq(Record)
  /\ pc \notin {"walSync", "apply", "down"} => Rebuilds(wal)
  /\ pc \notin {"apply", "down"} => Rebuilds(walSynced)
  /\ pc \in {"walSync", "apply"} => RebuildsWithOp(wal)
  /\ pc \in {"apply", "down"} => walSynced = wal
  /\ pc # "down" => LogCovers(wal) /\ LogCovers(walSynced)
  /\ pc = "truncateSync" => wal = <<>>
  /\ pc \in {"clear", "maybeCompact", "rewrite", "rewriteSync", "merge",
             "chunkSync", "installSync", "remove"} => wal = <<>> /\ walSynced = <<>>
  /\ pc \in {"maybeCompact", "rewrite", "rewriteSync", "merge", "chunkSync",
             "installSync", "remove"} => memTable = EmptyTable

\* Both, for the failures each is meant for.
FaultInv ==
  /\ "installSync" \notin Faults => FaultTablesInv
  /\ Faults \subseteq HarmlessFaults /\ Unreadable = {} => FaultLogInv
=============================================================================
