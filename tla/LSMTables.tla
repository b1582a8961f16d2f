----------------------------- MODULE LSMTables -----------------------------
(***************************************************************************)
(* The data the storage engine moves around, and the pure functions on it: *)
(* MemTables and SSTables, the write-ahead log, and the lookups through    *)
(* both levels of the tree (internal/storage).                             *)
(*                                                                         *)
(* A table (the MemTable, or the contents of one SSTable file) maps every  *)
(* key to the entry it holds for it, or to None.  Keys are strings in the  *)
(* code, compared with < and >=; here they are integers, so that key       *)
(* ranges and the order of a merge mean what they mean there.              *)
(***************************************************************************)
EXTENDS Integers, Sequences, FiniteSets, FiniteSetsExt

CONSTANTS
  Key,        \* the keys clients use, ordered like the strings of the code
  Val,        \* the values clients store
  Tombstone,  \* the entry of a deleted key (entryTypeDelete)
  None,       \* "no entry for this key"
  NoFile,     \* "no such file in this directory"
  Torn,       \* an unterminated, unparsable tail of the log
  Garbled,    \* a log line at which getAll gives up
  Unreadable, \* keys and values whose log line getAll does not read back
  Unstorable  \* keys and values writePaddedString refuses

ASSUME KeysAreOrdered == Key \subseteq Int /\ IsFiniteSet(Key)
ASSUME SentinelsDiffer == /\ Tombstone \notin Val
                          /\ None \notin Val \cup {Tombstone}
ASSUME UnfitDataIsData == Unreadable \cup Unstorable \subseteq Key \cup Val

Entry == Val \cup {Tombstone}
Table == [Key -> Entry \cup {None}]

EmptyTable == [k \in Key |-> None]

(***************************************************************************)
(* KeysIn(t): the keys a table has an entry for; its number is the size    *)
(* the skip list counts.                                                   *)
(***************************************************************************)
KeysIn(t) == {k \in Key : t[k] # None}
Size(t) == Cardinality(KeysIn(t))

-----------------------------------------------------------------------------
(***************************************************************************)
(* The write-ahead log: one JSON line per record.                          *)
(***************************************************************************)
Record == [key : Key, entry : Entry]
Line == Record \cup {Torn, Garbled}

ASSUME SentinelsAreNoData == /\ NoFile \notin Table
                             /\ {None, Torn, Garbled} \cap Record = {}
                             /\ Torn # Garbled

\* json.Marshal writes an invalid UTF-8 byte as the escape \ufffd, the CRC is
\* that of the escaped text, and the recomputed one is that of the character it
\* was read as; and a line of 64 KB is too long for the scanner of getAll.
Encoded(r) == IF {r.key, r.entry} \cap Unreadable = {} THEN r ELSE Garbled

\* An append starts at the end of the file, so after a torn tail it lands on
\* the same line and makes one terminated line that no longer parses.
LogAppend(w, r) ==
  IF w # <<>> /\ w[Len(w)] = Torn
  THEN [w EXCEPT ![Len(w)] = Garbled]
  ELSE Append(w, Encoded(r))

\* getAll stops at the first line it cannot scan or parse, or whose CRC is wrong.
ReadableLines(w) == {i \in DOMAIN w : \A j \in 1..i : w[j] \notin {Torn, Garbled}}

\* NewEngine applies the readable records in order: the last one of a key wins.
Replay(w) ==
  [k \in Key |->
     LET hits == {i \in ReadableLines(w) : w[i].key = k}
     IN  IF hits = {} THEN None ELSE w[Max(hits)].entry]

-----------------------------------------------------------------------------
(***************************************************************************)
(* SSTables.  A directory maps table numbers (the n of sst-<n>.db) to the  *)
(* contents of the file or NoFile.  Level 0 is a sequence of numbers,      *)
(* oldest first; level 1 a sequence of numbers with their key ranges.      *)
(***************************************************************************)
Holds(f, k) == f # NoFile /\ f[k] # None

\* writeBlockBasedTable refuses a table if a key or a value of it is empty,
\* longer than its 64 bytes or contains a NUL.
Storable(t) == \A k \in KeysIn(t) : {k, t[k]} \cap Unstorable = {}

\* sstableKeyRange of a level-1 table, as the manifest stores it.
InRange(k, t) == k >= t.min /\ k <= t.max

\* Level 1 as compactSSTables builds it: the ranges ascend without overlap, and
\* each is the exact range of its table.
SortedRun(tables, dir) ==
  /\ \A i, j \in DOMAIN tables : i < j => tables[i].max < tables[j].min
  /\ \A i \in DOMAIN tables :
       LET ks == KeysIn(dir[tables[i].idx])
       IN  /\ {tables[i].min, tables[i].max} \subseteq ks
           /\ \A k \in ks : InRange(k, tables[i])

\* Level 0 as flushes build it: the numbers of its tables ascend.
Ascends(names) == \A i, j \in DOMAIN names : i < j => names[i] <= names[j]

\* getKey searches a level from its newest table to its oldest; a table that
\* cannot be opened is skipped, and on level 1 so is one out of range.
L0Find(names, dir, k) ==
  LET hits == {i \in DOMAIN names : Holds(dir[names[i]], k)}
  IN  IF hits = {} THEN None ELSE dir[names[Max(hits)]][k]

L1Find(tables, dir, k) ==
  LET hits == {i \in DOMAIN tables :
                 InRange(k, tables[i]) /\ Holds(dir[tables[i].idx], k)}
  IN  IF hits = {} THEN None ELSE dir[tables[Max(hits)].idx][k]

StoreFind(levels, files, k) ==
  LET e == L0Find(levels.l0, files[0], k)
  IN  IF e # None THEN e ELSE L1Find(levels.l1, files[1], k)

\* Engine.Get: the MemTable first, then the store; a tombstone reads as absent.
Find(mem, levels, files, k) ==
  IF mem[k] # None THEN mem[k] ELSE StoreFind(levels, files, k)

Visible(e) == IF e = Tombstone THEN None ELSE e

\* The merge with the tableIndex comparison of Less reversed: oldest first.
Merged_oldestWins(l0, l1, files) ==
  [k \in Key |->
     LET new == {i \in DOMAIN l0 : Holds(files[0][l0[i]], k)}
     IN  IF new # {} THEN files[0][l0[Min(new)]][k]
         ELSE L1Find(l1, files[1], k)]

\* What the merge heap of compactSSTables leaves for a key: level 0 before
\* level 1, within a level the newest table; ranges are not consulted.
Merged(l0, l1, files) ==
  [k \in Key |->
     LET old == {i \in DOMAIN l1 : Holds(files[1][l1[i].idx], k)}
         new == L0Find(l0, files[0], k)
     IN  IF new # None THEN new
         ELSE IF old = {} THEN None ELSE files[1][l1[Max(old)].idx][k]]

\* getNextSSTableIndex: one more than the highest number in use.
NextIndex(nums) == IF nums = {} THEN 1 ELSE Max(nums) + 1

\* The members of a sequence at the positions I, in their order.
Kept(s, I) ==
  LET n == Cardinality(I)
      h == CHOOSE h \in [1..n -> I] :
             /\ \A i, j \in 1..n : i < j => h[i] < h[j]
             /\ \A i \in I : \E j \in 1..n : h[j] = i
  IN  [j \in 1..n |-> s[h[j]]]

\* The lowest n members of a set of keys.
Lowest(S, n) == {k \in S : Cardinality({j \in S : j < k}) < n}
=============================================================================
