------------------------------ MODULE EngineInv ------------------------------
(***************************************************************************)
(* The inductive invariants of Engine: what each step of a flush and of a  *)
(* compaction may rely on.  StoreInv says which files exist; it strengthens *)
(* TypeOK, PublishedTablesDurable and ManifestMatchesMemory until every    *)
(* step preserves it.  DataInv says what the tables hold, and LogMatches   *)
(* what the log does; the three together imply CrashSafe.                  *)
(***************************************************************************)
EXTENDS Engine

\* A record is in hand from the start of a write until it is in the MemTable.
RecordInHand ==
  IF pc \in {"append", "walSync", "apply"} THEN op \in Record ELSE op = None

\* Room chose a table number for the flush this write may have to do.
FlushHasNumber ==
  pc \in {"append", "walSync", "apply", "writeTable", "tableSync", "publish",
          "publishSync"} => NewL0 \in Idx

\* Between Rename and directory sync the device has the old manifest, which
\* is the level state in memory, and the cache has the new one.
ManifestInTransit ==
  LET Transit(new) == manifestSynced = levels /\ manifest = new
  IN  /\ pc = "publishSync" =>
           Transit([levels EXCEPT !.l0 = Append(levels.l0, NewL0)])
      /\ pc = "rewriteSync" => Transit([l0 |-> job.l0, l1 |-> job.l1])
      /\ pc = "installSync" => Transit([l0 |-> <<>>, l1 |-> job.new])
      /\ pc \notin {"publishSync", "rewriteSync", "installSync"} =>
           manifestSynced = manifest

\* The table being flushed: its file is complete, and on the device before
\* the manifest may name it.
FlushedTable ==
  /\ pc \in {"tableSync", "publish", "publishSync"} => files[0][NewL0] = memTable
  /\ pc \in {"publish", "publishSync"} => filesSynced[0][NewL0] = memTable

\* A compaction reads all tables of both levels: none of them is missing.
CompactionInputs ==
  pc \in {"rewrite", "rewriteSync", "merge", "chunkSync", "installSync"} =>
    job.l0 = levels.l0 /\ job.l1 = levels.l1

\* Its outputs are files of their own, on the device when the next begins.
CompactionOutputs ==
  /\ pc \in {"merge", "chunkSync", "installSync"} =>
       \A n \in Numbers(job.new) : n \in Idx /\ files[1][n] # NoFile
                                   /\ n \notin Numbers(job.l1)
  /\ pc \in {"merge", "installSync"} =>
       \A n \in Numbers(job.new) : filesSynced[1][n] = files[1][n]
  /\ pc = "remove" => /\ levels = [l0 |-> <<>>, l1 |-> job.new]
                      /\ Numbers(job.new) \cap Numbers(job.l1) = {}

StoreInv ==
  /\ TypeOK
  /\ RecordInHand
  /\ FlushHasNumber
  /\ PublishedTablesDurable
  /\ ManifestMatchesMemory
  /\ ManifestInTransit
  /\ FlushedTable
  /\ CompactionInputs
  /\ CompactionOutputs

-----------------------------------------------------------------------------
\* Until it is cleared, the MemTable is the newest table of level 0.
FlushedIsNewest ==
  pc \in {"truncate", "truncateSync", "clear"} =>
    /\ levels.l0 # <<>>
    /\ files[0][levels.l0[Len(levels.l0)]] = memTable

\* The chunks written so far answer for the merged keys they took over and
\* for no other; when the manifest is replaced no key is left.
MergeProgress ==
  /\ pc \in {"merge", "chunkSync", "installSync"} =>
       \A k \in Key : L1Find(job.new, files[1], k) =
         IF k \in Unwritten THEN None ELSE Merged(job.l0, job.l1, files)[k]
  /\ pc = "installSync" => Unwritten = {}

DataInv ==
  /\ FlushedIsNewest
  /\ LevelOneSorted
  /\ MergeProgress

SafetyInv == StoreInv /\ DataInv

-----------------------------------------------------------------------------
\* The log holds whole records only, and replays to the MemTable, with the
\* record in hand once it is in the log; from the truncation on it is empty,
\* and so is the MemTable once it has been cleared.
LogMatches ==
  /\ wal \in Seq(Record) /\ walSynced \in Seq(Record)
  /\ pc \notin {"walSync", "truncateSync"} => walSynced = wal
  /\ pc \in {"idle", "append", "writeTable", "tableSync", "publish",
             "publishSync", "truncate"} => Replay(wal) = memTable
  /\ pc = "walSync" => /\ Replay(walSynced) = memTable
                       /\ wal = Append(walSynced, op)
  /\ pc = "apply" => Replay(wal) = [memTable EXCEPT ![op.key] = op.entry]
  /\ pc = "truncateSync" => wal = <<>> /\ Replay(walSynced) = memTable
  /\ pc = "clear" => wal = <<>>
  /\ pc \in {"maybeCompact", "rewrite", "rewriteSync", "merge", "chunkSync",
             "installSync", "remove"} => wal = <<>> /\ memTable = EmptyTable

\* Everything a recovery relies on, if the log can be read back.
RecoveryInv == SafetyInv /\ (Unreadable = {} => LogMatches)
=============================================================================
