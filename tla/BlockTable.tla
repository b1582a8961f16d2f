----------------------------- MODULE BlockTable -----------------------------
(***************************************************************************)
(* The contents of an SSTable file and of its bloom filter                 *)
(* (block_based_table.go, bloom_filter.go).                                *)
(*                                                                         *)
(* A file is an index, the first key of every data block, and the blocks:  *)
(* slots for a key and a value, under a checksum.  A deleted key has a     *)
(* value of zeros only.  A checksum stands for the slots it was taken of:  *)
(* it matches those and no others.                                         *)
(***************************************************************************)
EXTENDS LSMTables, SequencesExt

CONSTANTS
  DataBlockEntries,  \* sstableDataBlockEntries
  IndexCapacity,     \* sstableIndexCapacity
  Zeros,             \* a value slot nothing was written to
  ReadError,         \* the outcome of a read that fails
  FilterLength,      \* bloomFilterLength
  FilterHashes,      \* bloomFilterHashes
  WordSize,          \* 2^32: hashes are uint32 and wrap around
  HashOne, HashTwo   \* the two murmur3 hashes of a key

ASSUME BlocksHaveRoom == {DataBlockEntries, IndexCapacity} \subseteq Nat \ {0}
ASSUME OutcomesDiffer ==
  /\ Zeros \notin Val
  /\ ReadError \notin Entry \cup {None} \cup Seq([key : Key, entry : Entry])
ASSUME FilterIsDefined ==
  /\ {FilterLength, FilterHashes, WordSize} \subseteq Nat \ {0}
  /\ {HashOne, HashTwo} \subseteq [Key -> 0..WordSize - 1]

MaxEntries == IndexCapacity * DataBlockEntries

\* A sequence of entries as a table of LSMTables.
TableOf(entries) ==
  [k \in Key |->
     IF \E i \in DOMAIN entries : entries[i].key = k
     THEN entries[CHOOSE i \in DOMAIN entries : entries[i].key = k].entry
     ELSE None]

StrictlySorted(keys) == \A i \in 2..Len(keys) : keys[i - 1] < keys[i]
Keys(entries) == [i \in DOMAIN entries |-> entries[i].key]

\* The entries writeBlockBasedTable writes.
Writable(entries) ==
  /\ Len(entries) <= MaxEntries
  /\ StrictlySorted(Keys(entries))
  /\ Storable(TableOf(entries))

-----------------------------------------------------------------------------
(***************************************************************************)
(* Writing.                                                                *)
(***************************************************************************)
Encode(r) == [key |-> r.key, slot |-> IF r.entry = Tombstone THEN Zeros ELSE r.entry]

BlockCount(entries) == (Len(entries) + DataBlockEntries - 1) \div DataBlockEntries

\* encodeDataBlock of the b-th block.
DataBlock(entries, b) ==
  LET first == (b - 1) * DataBlockEntries + 1
      last  == Min({b * DataBlockEntries, Len(entries)})
      slots == [i \in 1..last - first + 1 |-> Encode(entries[first + i - 1])]
  IN  [slots |-> slots, crc |-> slots]

\* writeBlockBasedTable.
BlockFile(entries) ==
  LET blocks == [b \in 1..BlockCount(entries) |-> DataBlock(entries, b)]
  IN  [index |-> [b \in DOMAIN blocks |-> blocks[b].slots[1].key], blocks |-> blocks]

-----------------------------------------------------------------------------
(***************************************************************************)
(* Reading.                                                                *)
(***************************************************************************)
\* openBlockBasedTable: the page count fits the index, whose keys ascend.
Opens(file) ==
  /\ Len(file.index) <= IndexCapacity
  /\ Len(file.blocks) = Len(file.index)
  /\ StrictlySorted(file.index)

Decode(s) == [key |-> s.key, entry |-> IF s.slot = Zeros THEN Tombstone ELSE s.slot]

\* The checksum is not compared.
ReadBlock_unchecked(file, b) ==
  LET block == file.blocks[b]
  IN  [i \in DOMAIN block.slots |-> Decode(block.slots[i])]

\* readBlock: the entries, or an error.
ReadBlock(file, b) ==
  LET block == file.blocks[b]
  IN  IF block.crc # block.slots \/ ~StrictlySorted(Keys(block.slots))
      THEN ReadError
      ELSE [i \in DOMAIN block.slots |-> Decode(block.slots[i])]

\* sort.Search over 1..n: the least index that satisfies P, n + 1 if none does.
Search(n, P(_)) == Min({i \in 1..n : P(i)} \cup {n + 1})

\* The index is searched for the first key that is not less than k.
TableGet_indexNotLess(file, k) ==
  LET b == Search(Len(file.index), LAMBDA i : file.index[i] >= k) - 1
      entries == ReadBlock(file, b)
      e == Search(Len(entries), LAMBDA i : entries[i].key >= k)
  IN  IF b = 0 THEN None
      ELSE IF entries = ReadError THEN ReadError
      ELSE IF e > Len(entries) THEN None
      ELSE IF entries[e].key # k THEN None ELSE entries[e].entry

\* get: the last block whose first key is not past k, and k in that block.
TableGet(file, k) ==
  LET b == Search(Len(file.index), LAMBDA i : file.index[i] > k) - 1
      entries == ReadBlock(file, b)
      e == Search(Len(entries), LAMBDA i : entries[i].key >= k)
  IN  IF b = 0 THEN None
      ELSE IF entries = ReadError THEN ReadError
      ELSE IF e > Len(entries) THEN None
      ELSE IF entries[e].key # k THEN None ELSE entries[e].entry

-----------------------------------------------------------------------------
(***************************************************************************)
(* The bloom filter, as the set of its bits that are set.                  *)
(***************************************************************************)
\* (h1 + uint32(i) * h2) % uint32(length), for every i.
Bits(k) ==
  {((HashOne[k] + ((i * HashTwo[k]) % WordSize)) % WordSize) % FilterLength :
     i \in 0..FilterHashes - 1}

\* bloomFilterForEntries.
Filter(entries) == UNION {Bits(entries[i].key) : i \in DOMAIN entries}

\* found computes the sum in a wider type than add.
Found_wider(filter, k) ==
  \A i \in 0..FilterHashes - 1 :
    (HashOne[k] + i * HashTwo[k]) % FilterLength \in filter

Found(filter, k) == Bits(k) \subseteq filter
=============================================================================
