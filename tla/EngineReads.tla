----------------------------- MODULE EngineReads -----------------------------
(***************************************************************************)
(* Concurrent Get calls beside the writer of Engine.                       *)
(*                                                                         *)
(* Get takes no part in writeMu.  It reads the MemTable under the read     *)
(* lock of memTable and, if that has no entry for the key, the tables of   *)
(* both levels under the read lock of the store, which getKey holds from   *)
(* its first table to its last.  Between the two it holds nothing: the     *)
(* writer may change, flush and clear the MemTable and compact the tables. *)
(***************************************************************************)
EXTENDS Engine

CONSTANT Reader     \* the goroutines that call Get

VARIABLE reads      \* the Get of each reader: its state, key and result, and
                    \* (to state correctness) the values seen while it runs
readVars == <<vars, reads>>

NoRead == [pc |-> "idle", key |-> None, res |-> None, seen |-> {}]

\* The states in which the writer holds the write lock of the store:
\* saveLevel0SSTableWithWriter and compactSSTables hold it to their end.
StoreLocked ==
  pc \in {"tableSync", "publish", "publishSync", "rewrite", "rewriteSync",
          "merge", "chunkSync", "installSync", "remove"}

ReadInit == Init /\ reads = [r \in Reader |-> NoRead]

-----------------------------------------------------------------------------
\* Get(k) is called.
StartGet(r, k) ==
  /\ pc # "down" /\ reads[r].pc = "idle"
  /\ reads' = [reads EXCEPT ![r] =
       [pc |-> "memTable", key |-> k, res |-> None, seen |-> {View[k]}]]
  /\ UNCHANGED vars

\* The value of a tombstone is returned like any other.
ReadMemTable_rawEntry(r) ==
  /\ reads[r].pc = "memTable"
  /\ LET e == memTable[reads[r].key]
     IN  reads' = [reads EXCEPT
           ![r].pc  = IF e # None THEN "done" ELSE "store",
           ![r].res = e]
  /\ UNCHANGED vars

\* A tombstone in the MemTable does not end the search.
ReadMemTable_fallThrough(r) ==
  /\ reads[r].pc = "memTable"
  /\ LET e == Visible(memTable[reads[r].key])
     IN  reads' = [reads EXCEPT
           ![r].pc  = IF e # None THEN "done" ELSE "store",
           ![r].res = e]
  /\ UNCHANGED vars

\* memTable.get: an entry, a tombstone too, ends the search.
ReadMemTable(r) ==
  /\ reads[r].pc = "memTable"
  /\ LET e == memTable[reads[r].key]
     IN  reads' = [reads EXCEPT
           ![r].pc  = IF e # None THEN "done" ELSE "store",
           ![r].res = Visible(e)]
  /\ UNCHANGED vars

\* getKey: every table it needs is read under one read lock.
ReadStore(r) ==
  /\ reads[r].pc = "store" /\ ~StoreLocked
  /\ reads' = [reads EXCEPT
       ![r].pc  = "done",
       ![r].res = Visible(StoreFind(levels, files, reads[r].key))]
  /\ UNCHANGED vars

ReturnGet(r) ==
  /\ reads[r].pc = "done"
  /\ reads' = [reads EXCEPT ![r] = NoRead]
  /\ UNCHANGED vars

\* Steps of the writer: running reads see the value their key has after it.
WriteBesideReads ==
  /\ Write \/ WriterStep
  /\ reads' = [r \in Reader |->
       IF reads[r].pc = "idle" THEN reads[r]
       ELSE [reads[r] EXCEPT !.seen = @ \cup {View'[reads[r].key]}]]

\* A crash ends the reads as well.
Reset ==
  /\ Crash \/ Restart
  /\ reads' = [r \in Reader |-> NoRead]

Get(r) == ReadMemTable(r) \/ ReadStore(r) \/ ReturnGet(r)

ReadNext ==
  \/ WriteBesideReads
  \/ Reset
  \/ \E r \in Reader : Get(r) \/ \E k \in Key : StartGet(r, k)

ReadSpec == ReadInit /\ [][ReadNext]_readVars

\* The writer runs on while it holds locks.  A reader blocked on the store is
\* woken when the writer unlocks, before a next writer may lock (RWMutex), so
\* it gets its turn although the lock is not free for good.
FairReadSpec ==
  /\ ReadSpec
  /\ WF_readVars(WriteBesideReads /\ WriterStep)
  /\ \A r \in Reader :
       /\ WF_readVars(ReadMemTable(r))
       /\ SF_readVars(ReadStore(r))

-----------------------------------------------------------------------------
\* The types of the reads.
ReadTypeOK ==
  reads \in [Reader -> [pc : {"idle", "memTable", "store", "done"},
                        key : Key \cup {None}, res : Val \cup {None},
                        seen : SUBSET (Val \cup {None})]]

\* Get is linearizable: the value it returns is one its key had at some moment
\* between call and return, though the entry may move from the MemTable to
\* level 0 and on to level 1 while Get is between its two looks.
GetLinearizable ==
  \A r \in Reader : reads[r].pc = "done" => reads[r].res \in reads[r].seen

\* A Get that reached the store returns: no flush or compaction keeps the
\* store locked for good.
GetReturns ==
  \A r \in Reader : (reads[r].pc = "store") ~> (reads[r].pc # "store")
=============================================================================
