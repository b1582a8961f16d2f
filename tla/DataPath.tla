------------------------------ MODULE DataPath ------------------------------
(***************************************************************************)
(* The path of the data of the engine, one operation at a time: from the   *)
(* skip list into the blocks and the bloom filter of a table, through the  *)
(* readers and the heap of a merge into other tables, by way of the text   *)
(* of the manifest, and back to a Get (sstable.go, compaction.go).         *)
(*                                                                         *)
(* Engine and its extensions say what happens when these operations are    *)
(* interleaved, fail or end in a crash, and take for granted what this     *)
(* module is about: that a table answers for the entries written to it,    *)
(* and that the loop of a merge computes Merged.                           *)
(*                                                                         *)
(* A part of one file may be damaged on the device.                        *)
(***************************************************************************)
EXTENDS SkipList, BlockTable, ManifestText

CONSTANTS
  FLUSH_THRESHOLD, COMPACTION_THRESHOLD,  \* as in Engine
  Workload,   \* bound: the writes there may be before each flush
  DamagedAfter,  \* bound: the flushes after which a file may be damaged
  MaxTables,  \* bound: table numbers of a level
  Garbage     \* a value on a damaged block

ASSUME ThresholdsFitTables ==
  /\ FLUSH_THRESHOLD \in 1..MaxEntries
  /\ COMPACTION_THRESHOLD \in Nat \ {0, 1}
ASSUME WorkloadIsWrites ==
  \A r \in DOMAIN Workload : Workload[r] \subseteq [key : Key, entry : Entry]
ASSUME GarbageIsNoData == Garbage \notin Entry \cup {None, Zeros}

\* A table file with its bloom filter, whatever the device made of it.
Cells == Seq([key : Key, slot : Val \cup {Zeros, Garbage}])
DataFile ==
  [table : [index : Seq(Key), blocks : Seq([slots : Cells, crc : Cells])], filter : SUBSET Nat]

\* No file is told from every file and from the contents of every file; None,
\* the key before the first one (the flag first of compactSSTables), from keys.
ASSUME NothingIsNoData ==
  /\ NoFile \notin DataFile \cup [Key -> Entry \cup {None, Garbage}]
  /\ None \notin Key

VARIABLES
  list,      \* the skip list of the MemTable
  flushes,   \* how many flushes there were
  files,     \* the table files with their bloom filters, by level and number
  levels,    \* the store's level state
  manifest,  \* the lines of the manifest
  merge,     \* the running compaction: readers, heap and outputs
  kv,        \* (for correctness) the entry last written for each key
  lost       \* (for correctness) the keys whose last entry was damaged

vars == <<list, flushes, files, levels, manifest, merge, kv, lost>>

Idx == 1..MaxTables
NoMerge == [pc |-> "idle", readers |-> <<>>, heap |-> {}, current |-> None,
            chunk |-> <<>>, new |-> <<>>]

Init ==
  /\ list = NewSkipList
  /\ flushes = 0
  /\ files = [l \in 0..1 |-> [i \in Idx |-> NoFile]]
  /\ levels = <<>> /\ manifest = <<>>
  /\ merge = NoMerge
  /\ kv = EmptyTable
  /\ lost = {}

Idle == merge.pc = "idle"
Numbers(tables) == {tables[j].idx : j \in DOMAIN tables}

\* writeSortedSSTableFile.
TableFile(entries) == [table |-> BlockFile(entries), filter |-> Filter(entries)]

WriteFile(l, i, entries) == files' = [files EXCEPT ![l][i] = TableFile(entries)]

-----------------------------------------------------------------------------
(***************************************************************************)
(* Put, Delete and the flush.                                              *)
(***************************************************************************)
Put(w, height) ==
  /\ Idle /\ list.size < FLUSH_THRESHOLD
  /\ list' = Add(list, w.key, w.entry, height)
  /\ kv' = [kv EXCEPT ![w.key] = w.entry]
  /\ lost' = lost \ {w.key}
  /\ UNCHANGED <<flushes, files, levels, manifest, merge>>

\* saveLevel0SSTable: the manifest is read back, extended and replaced, and
\* the levels in memory are extended on their own; then the list is cleared.
Flush ==
  /\ Idle /\ list.size = FLUSH_THRESHOLD
  /\ LET entries == Entries(list)
         idx == NextIndex(Numbers(TablesOf(levels, 0)))
         t == [idx |-> idx, range |-> NoRange]
     IN  /\ idx \in Idx
         /\ Writable(entries)
         /\ WriteFile(0, idx, entries)
         /\ manifest' = ManifestLines(WithTable(ParseManifest(manifest), 0, t))
         /\ levels' = WithTable(levels, 0, t)
         /\ merge' = IF Len(TablesOf(levels', 0)) = COMPACTION_THRESHOLD
                     THEN [merge EXCEPT !.pc = "start"] ELSE merge
  /\ list' = NewSkipList
  /\ flushes' = flushes + 1
  /\ UNCHANGED <<kv, lost>>

-----------------------------------------------------------------------------
(***************************************************************************)
(* The merge of compactSSTables.                                           *)
(***************************************************************************)
\* A reader is at an entry of a block; it ends after the last block.
Reader(l, i) == [level |-> l, idx |-> i, block |-> 1, at |-> 0]
FileOf(r) == files[r.level][r.idx].table
AtEnd(r) == r.block > Len(FileOf(r).blocks)
EntryAt(r) == ReadBlock(FileOf(r), r.block)[r.at]

\* The flag hasNext is not reset after the last block.
Advance_staysAtLast(r) ==
  IF r.at < Len(FileOf(r).blocks[r.block].slots) THEN [r EXCEPT !.at = @ + 1]
  ELSE IF r.block < Len(FileOf(r).blocks) THEN [r EXCEPT !.block = @ + 1, !.at = 1]
       ELSE r

\* advance: the next entry of the block, or the first one of the next block.
Advance(r) ==
  IF AtEnd(r) THEN r
  ELSE IF r.at < Len(FileOf(r).blocks[r.block].slots) THEN [r EXCEPT !.at = @ + 1]
       ELSE [r EXCEPT !.block = @ + 1, !.at = 1]

\* Does advance return an error, once it has come to r?
Fails(r) == ~AtEnd(r) /\ ReadBlock(FileOf(r), r.block) = ReadError

Item(readers, j) ==
  LET r == readers[j]
  IN  [key |-> EntryAt(r).key, entry |-> EntryAt(r).entry,
       level |-> r.level, tableIndex |-> j]

\* The levels are compared the wrong way round.
Less_levelsReversed(a, b) ==
  \/ a.key < b.key
  \/ a.key = b.key /\ a.level > b.level
  \/ a.key = b.key /\ a.level = b.level /\ a.tableIndex > b.tableIndex

\* sstableHeap.Less: by key, then level 0 first, then the newest table first.
Less(a, b) ==
  \/ a.key < b.key
  \/ a.key = b.key /\ a.level < b.level
  \/ a.key = b.key /\ a.level = b.level /\ a.tableIndex > b.tableIndex

\* What heap.Pop returns.
Least(heap) == CHOOSE a \in heap : \A b \in heap \ {a} : Less(a, b)

Inputs ==
  LET l0 == TablesOf(levels, 0)  l1 == TablesOf(levels, 1)
  IN  [j \in DOMAIN l0 |-> Reader(0, l0[j].idx)]
        \o [j \in DOMAIN l1 |-> Reader(1, l1[j].idx)]

\* The deferred function removes the outputs; the levels stay.
Abort ==
  /\ merge' = NoMerge
  /\ files' = [files EXCEPT ![1] = [i \in Idx |->
                 IF i \in Numbers(merge.new) THEN NoFile ELSE @[i]]]
  /\ UNCHANGED <<list, flushes, levels, manifest, kv, lost>>

\* addTables: every input is opened and its first entry read.
StartMerge ==
  /\ merge.pc = "start"
  /\ \A j \in DOMAIN Inputs : Opens(FileOf(Inputs[j])) /\ ~Fails(Inputs[j])
  /\ LET readers == [j \in DOMAIN Inputs |-> Advance(Inputs[j])]
     IN  merge' = [merge EXCEPT !.pc = "loop", !.readers = readers,
                     !.heap = {Item(readers, j) : j \in DOMAIN readers}]
  /\ UNCHANGED <<list, flushes, files, levels, manifest, kv, lost>>

StartFails ==
  /\ merge.pc = "start"
  /\ \E j \in DOMAIN Inputs : ~Opens(FileOf(Inputs[j])) \/ Fails(Inputs[j])
  /\ Abort

\* flushChunk: the numbers, past those of the inputs, of no file (bound: Idx).
FreeNumbers ==
  {i \in Idx : /\ i >= NextIndex(Numbers(TablesOf(levels, 1)) \cup Numbers(merge.new))
               /\ files[1][i] = NoFile}

\* The number is the least of them; the range is that of the chunk.
ChunkTable ==
  LET keys == Keys(merge.chunk)
  IN  [idx |-> Min(FreeNumbers), range |-> [min |-> keys[1], max |-> keys[Len(keys)]]]

\* The iteration of the loop for the entry a: is its key a new one?
Fresh(a) == a.key # merge.current
ChunkFull == Len(merge.chunk) = FLUSH_THRESHOLD

WriteChunk ==
  /\ FreeNumbers # {}
  /\ Writable(merge.chunk)
  /\ WriteFile(1, ChunkTable.idx, merge.chunk)

\* Pop the least entry, keep the first one of each key, advance its reader.
MergeEntry ==
  /\ merge.pc = "loop" /\ merge.heap # {}
  /\ LET a == Least(merge.heap)
         full == Fresh(a) /\ ChunkFull
         r == Advance(merge.readers[a.tableIndex])
         readers == [merge.readers EXCEPT ![a.tableIndex] = r]
         kept == IF Fresh(a) THEN <<[key |-> a.key, entry |-> a.entry]>> ELSE <<>>
     IN  /\ ~Fails(r)
         /\ IF full THEN WriteChunk ELSE UNCHANGED files
         /\ merge' = [merge EXCEPT
              !.readers = readers,
              !.heap = (@ \ {a}) \cup (IF AtEnd(r) THEN {} ELSE {Item(readers, a.tableIndex)}),
              !.current = a.key,
              !.chunk = IF full THEN kept ELSE @ \o kept,
              !.new = IF full THEN Append(@, ChunkTable) ELSE @]
  /\ UNCHANGED <<list, flushes, levels, manifest, kv, lost>>

\* A block of an input does not read back.
MergeFails ==
  /\ merge.pc = "loop" /\ merge.heap # {}
  /\ LET a == Least(merge.heap)
     IN  Fails(Advance(merge.readers[a.tableIndex]))
  /\ Abort

\* The last chunk is flushed, the levels are replaced, the inputs removed.
FinishMerge ==
  /\ merge.pc = "loop" /\ merge.heap = {}
  /\ FreeNumbers # {} /\ Writable(merge.chunk)
  /\ LET last == ChunkTable
         new == Append(merge.new, last)
         lv == <<[level |-> 0, tables |-> <<>>], [level |-> 1, tables |-> new]>>
     IN  /\ files' = [l \in 0..1 |-> [i \in Idx |->
                        CASE l = 1 /\ i = last.idx -> TableFile(merge.chunk)
                          [] i \in Numbers(TablesOf(levels, l)) -> NoFile
                          [] OTHER -> files[l][i]]]
         /\ levels' = lv
         /\ manifest' = ManifestLines(lv)
  /\ merge' = NoMerge
  /\ UNCHANGED <<list, flushes, kv, lost>>

Merge == StartMerge \/ StartFails \/ MergeEntry \/ MergeFails \/ FinishMerge

-----------------------------------------------------------------------------
(***************************************************************************)
(* Engine.Get and getKey.                                                  *)
(***************************************************************************)
\* The tables getKey may look at, in its order.
Places(k) ==
  LET l0 == TablesOf(levels, 0)
      all == TablesOf(levels, 1)
      l1 == Kept(all, {j \in DOMAIN all : all[j].range = NoRange \/ InRange(k, all[j].range)})
  IN  [j \in DOMAIN l0 |-> <<0, Reverse(l0)[j].idx>>]
        \o [j \in DOMAIN l1 |-> <<1, Reverse(l1)[j].idx>>]

\* A filter that denies the key, or an error, sends getKey to the next table.
Answer(f, k) ==
  IF ~Found(f.filter, k) \/ ~Opens(f.table) THEN None
  ELSE LET e == TableGet(f.table, k) IN IF e = ReadError THEN None ELSE e

AnswerAt(k, j) == LET p == Places(k)[j] IN Answer(files[p[1]][p[2]], k)

\* The first of its places that has the key, or one more than there are.
Hit(k) == Search(Len(Places(k)), LAMBDA j : AnswerAt(k, j) # None)

Lookup(k) ==
  LET e == ListGet(list, k)
  IN  IF e # None THEN e
      ELSE IF Hit(k) > Len(Places(k)) THEN None ELSE AnswerAt(k, Hit(k))

-----------------------------------------------------------------------------
(***************************************************************************)
(* The device and the next start.                                          *)
(***************************************************************************)
Intact(file) == Opens(file) /\ \A b \in DOMAIN file.blocks : ReadBlock(file, b) # ReadError

\* A value of a block is garbage, or the end of the file is missing.  Bound:
\* one file at a time, between the flushes that the workload names.
Damage ==
  /\ Idle /\ list.size = 0 /\ flushes \in DamagedAfter
  /\ \A l \in 0..1, i \in Idx : files[l][i] # NoFile => Intact(files[l][i].table)
  /\ \E k \in Key :
       /\ ListGet(list, k) = None /\ Hit(k) <= Len(Places(k))
       /\ LET p == Places(k)[Hit(k)]
              file == files[p[1]][p[2]].table
              b == CHOOSE j \in DOMAIN file.blocks :
                     \E i \in DOMAIN file.blocks[j].slots : file.blocks[j].slots[i].key = k
              bad == [file EXCEPT !.blocks[b].slots[1].slot = Garbage]
              short == [file EXCEPT !.blocks = Front(@)]
              here == {j \in Key : Hit(j) <= Len(Places(j)) /\ Places(j)[Hit(j)] = p}
          IN  \/ /\ files' = [files EXCEPT ![p[1]][p[2]].table = bad]
                 /\ lost' = {j \in here : \E i \in DOMAIN file.blocks[b].slots :
                                            file.blocks[b].slots[i].key = j}
              \/ /\ files' = [files EXCEPT ![p[1]][p[2]].table = short]
                 /\ lost' = here
  /\ UNCHANGED <<list, flushes, levels, manifest, merge, kv>>

\* newSSTableStore parses the manifest; one of an older version has no ranges.
Reopen ==
  /\ Idle /\ list.size = 0
  /\ manifest' \in {manifest, [j \in DOMAIN manifest |->
       IF manifest[j].kind = "table" THEN [manifest[j] EXCEPT !.range = NoRange]
                                     ELSE manifest[j]]}
  /\ levels' = ParseManifest(manifest')
  /\ UNCHANGED <<list, flushes, files, merge, kv, lost>>

Next ==
  \/ /\ flushes + 1 \in DOMAIN Workload
     /\ \E w \in Workload[flushes + 1], height \in 1..MaxLevels : Put(w, height)
  \/ Flush
  \/ Merge
  \/ Damage
  \/ Reopen

Spec == Init /\ [][Next]_vars

\* The compaction runs in the goroutine of the Put that filled the MemTable.
FairSpec == Spec /\ WF_vars(Merge)

-----------------------------------------------------------------------------
\* A lookup returns the entry last written, through all that happened to it
\* since: the towers of the list, index and blocks, filters, ranges, merges
\* and the manifest.  Damage to a table costs the keys whose last entry was in
\* the block, or in the file if it no longer opens, until they are written
\* again, and never shows garbage (writeBlockBasedTable, get, getKey).
LookupsAgree ==
  Idle => \A k \in Key :
    IF k \in lost THEN Lookup(k) # Garbage
    ELSE Visible(Lookup(k)) = Visible(kv[k])

\* The towers of the skip list stay sound whatever heights generateLevel draws
\* (add).
SkipListSound == TowersSound(list)

\* All that is written of a merge: the chunks and the one being filled.
Emitted ==
  LET entries(f) == FlattenSeq([b \in DOMAIN f.blocks |->
        [i \in DOMAIN f.blocks[b].slots |-> Decode(f.blocks[b].slots[i])]])
  IN  FlattenSeq([j \in DOMAIN merge.new |-> entries(files[1][merge.new[j].idx].table)])
        \o merge.chunk

Contents(l) ==
  [i \in Idx |->
     LET f == files[l][i]
     IN  IF f = NoFile THEN NoFile
         ELSE TableOf(FlattenSeq([b \in DOMAIN f.table.blocks |->
                [j \in DOMAIN f.table.blocks[b].slots |-> Decode(f.table.blocks[b].slots[j])]]))]

\* At every turn of its loop the merge has written, in order and each once, the
\* keys up to the current one with the entry Merged gives them, however the
\* heap, the blocks of the inputs and the chunks fall; every chunk but the last
\* is full (compactSSTables, advance, Less, flushChunk).
MergeEmitsMerged ==
  merge.pc = "loop" =>
    LET l0 == TablesOf(levels, 0)
        all == Merged([j \in DOMAIN l0 |-> l0[j].idx], TablesOf(levels, 1),
                      [l \in 0..1 |-> Contents(l)])
        done == IF merge.heap = {} THEN Key ELSE {k \in Key : k <= merge.current}
    IN  /\ StrictlySorted(Keys(Emitted))
        /\ (merge.current # None => TableOf(Emitted) =
              [k \in Key |-> IF k \in done THEN all[k] ELSE None])
        /\ \A j \in DOMAIN merge.new : Cardinality(KeysIn(Contents(1)[merge.new[j].idx])) = FLUSH_THRESHOLD

\* The next start would find the levels that are in memory: each table on its
\* level, in its place, with its range (rewriteManifestFromLevels,
\* getAllSSTables, appendTableToManifestLocked).
ManifestRoundTrips == Idle => ParseManifest(manifest) = levels

\* A compaction comes to its end, or is given up.
MergeEnds == ~Idle ~> Idle
=============================================================================
