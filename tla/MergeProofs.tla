----------------------------- MODULE MergeProofs -----------------------------
(***************************************************************************)
(* Theorems of DataPath about a merge and about lookups, for every number  *)
(* of tables, blocks and entries.                                          *)
(*                                                                         *)
(* A merge: a reader has passed exactly the keys up to the current one,    *)
(* the heap has the next entry of every reader that is not at its end, so  *)
(* its least item is the next key of them all, from the table that Merged  *)
(* prefers; and what was written and what is being written is the merge    *)
(* of what was passed.                                                     *)
(*                                                                         *)
(* A lookup: of the tables that answer for a key the first one in the      *)
(* order of getKey decides, whatever ranges the levels give; where the     *)
(* MemTable has nothing, that is the entry last written.  A flush puts its *)
(* table first, a merge leaves chunks that answer what its inputs did, and *)
(* damage silences one table for the keys that are lost until written      *)
(* again.                                                                  *)
(***************************************************************************)
EXTENDS DataPathProofs

-----------------------------------------------------------------------------
(***************************************************************************)
(* The heap, the inputs and the output of a merge.                         *)
(***************************************************************************)
\* They are tables.
LEMMA TablesAreTables ==
  ASSUME NEW lv, LevelsShape(lv)
  PROVE  \E Rs : TablesOf(lv, 0) \in Seq(AnyTable(Rs)) /\ TablesOf(lv, 1) \in Seq(AnyTable(Rs))
<1>0. \A S : <<>> \in Seq(S)
  OBVIOUS
<1>1. CASE lv = <<>>
  <2>1. TablesOf(lv, 0) = <<>> /\ TablesOf(lv, 1) = <<>>
    BY <1>1, TablesListed
  <2> QED
    BY <1>0, <2>1
<1>2. CASE \E t0 \in Seq(AnyTable({NoRange})) : lv = <<[level |-> 0, tables |-> t0]>>
  <2>1. PICK t0 \in Seq(AnyTable({NoRange})) : lv = <<[level |-> 0, tables |-> t0]>>
    BY <1>2
  <2>2. TablesOf(lv, 0) = t0 /\ TablesOf(lv, 1) = <<>>
    BY <2>1, TablesListed
  <2>3. TablesOf(lv, 0) \in Seq(AnyTable({NoRange})) /\ TablesOf(lv, 1) \in Seq(AnyTable({NoRange}))
    BY <1>0, <2>2
  <2> QED
    BY <2>3
<1>3. CASE \E Rs : \E t0 \in Seq(AnyTable({NoRange})), t1 \in Seq(AnyTable(Rs)) :
             lv = <<[level |-> 0, tables |-> t0], [level |-> 1, tables |-> t1]>>
  <2>1. PICK Rs : \E t0 \in Seq(AnyTable({NoRange})), t1 \in Seq(AnyTable(Rs)) :
             lv = <<[level |-> 0, tables |-> t0], [level |-> 1, tables |-> t1]>>
    BY <1>3, Zenon
  <2>2. PICK t0 \in Seq(AnyTable({NoRange})), t1 \in Seq(AnyTable(Rs)) :
             lv = <<[level |-> 0, tables |-> t0], [level |-> 1, tables |-> t1]>>
    BY <2>1
  <2> DEFINE S == {NoRange} \cup Rs
  <2>3. TablesOf(lv, 0) = t0 /\ TablesOf(lv, 1) = t1
    BY <2>2, TablesListed
  <2>4. \A A, B : A \subseteq B => Seq(A) \subseteq Seq(B)
    OBVIOUS
  <2>5. AnyTable({NoRange}) \subseteq AnyTable(S) /\ AnyTable(Rs) \subseteq AnyTable(S)
    BY DEF AnyTable
  <2> HIDE DEF S
  <2>6. t0 \in Seq(AnyTable(S)) /\ t1 \in Seq(AnyTable(S))
    BY <2>4, <2>5, Zenon
  <2> QED
    BY <2>3, <2>6
<1> QED
  BY <1>1, <1>2, <1>3 DEF LevelsShape

LEMMA ImageIsFinite ==
  ASSUME NEW S, IsFiniteSet(S), NEW f, DOMAIN f = S, f = [a \in S |-> f[a]]
  PROVE  IsFiniteSet({f[a] : a \in S})
<1>1. f \in Surjection(S, {f[a] : a \in S})
  BY DEF Surjection
<1> QED
  BY <1>1, FS_Surjection

\* What heap.Pop returns comes before the rest.
LEMMA LeastComesFirst ==
  ASSUME NEW H, IsFiniteSet(H), H # {},
         \A a \in H : a.key \in Int /\ a.level \in Int /\ a.tableIndex \in Int,
         \A a, b \in H : a.tableIndex = b.tableIndex => a = b
  PROVE  Least(H) \in H /\ \A b \in H \ {Least(H)} : Less(Least(H), b)
<1> DEFINE K == {a.key : a \in H}
           A == {a \in H : a.key = Min(K)}
           L == {a.level : a \in A}
           B == {a \in A : a.level = Min(L)}
           X == {a.tableIndex : a \in B}
<1>1. K \in SUBSET Int /\ K # {} /\ IsFiniteSet(K)
  <2>1. IsFiniteSet(K)
    <3> DEFINE f == [a \in H |-> a.key]
    <3>1. K = {f[a] : a \in H} /\ DOMAIN f = H /\ f = [a \in H |-> f[a]]
      OBVIOUS
    <3> HIDE DEF f, K
    <3> QED
      BY <3>1, ImageIsFinite
  <2> QED
    BY <2>1
<1>2. Min(K) \in K /\ \A k \in K : Min(K) <= k
  <2> HIDE DEF K
  <2> QED
    BY <1>1, MinIsLeast
<1>3. A # {} /\ A \subseteq H /\ \A a \in H : Min(K) <= a.key
  BY ZenonT(60), <1>2
<1>4. L \in SUBSET Int /\ L # {} /\ IsFiniteSet(L)
  <2>1. IsFiniteSet(A)
    <3> HIDE DEF A
    <3> QED
      BY <1>3, FS_Subset
  <2>2. IsFiniteSet(L)
    <3> DEFINE f == [a \in A |-> a.level]
    <3> HIDE DEF A
    <3>1. L = {f[a] : a \in A} /\ DOMAIN f = A /\ f = [a \in A |-> f[a]]
      OBVIOUS
    <3> HIDE DEF f, L
    <3> QED
      BY <2>1, <3>1, ImageIsFinite
  <2> QED
    BY ZenonT(60), <1>3, <2>2
<1>5. Min(L) \in L /\ \A k \in L : Min(L) <= k
  <2> HIDE DEF L
  <2> QED
    BY <1>4, MinIsLeast
<1>6. B # {} /\ B \subseteq A /\ \A a \in A : Min(L) <= a.level
  <2> HIDE DEF A
  <2> QED
    BY <1>5
<1>7. X \in SUBSET Int /\ X # {} /\ IsFiniteSet(X)
  <2> HIDE DEF A, B
  <2>1. IsFiniteSet(B)
    BY <1>3, <1>6, FS_Subset
  <2>2. IsFiniteSet(X)
    <3> DEFINE f == [a \in B |-> a.tableIndex]
    <3>1. X = {f[a] : a \in B} /\ DOMAIN f = B /\ f = [a \in B |-> f[a]]
      OBVIOUS
    <3> HIDE DEF f, X
    <3> QED
      BY <2>1, <3>1, ImageIsFinite
  <2> QED
    BY <1>3, <1>6, <2>2
<1>8. Max(X) \in X /\ \A k \in X : k <= Max(X)
  <2> HIDE DEF X
  <2> QED
    BY <1>7, MaxIsGreatest
<1>9. PICK a \in B : a.tableIndex = Max(X)
  <2> HIDE DEF B
  <2> QED
    BY <1>8
<1>10. a \in H /\ a.key = Min(K) /\ a.level = Min(L)
  BY <1>3, <1>6, <1>9
<1>11. \A b \in B : b.tableIndex <= a.tableIndex
  <2> HIDE DEF B
  <2> QED
    BY <1>8, <1>9
<1>12. \A b \in H : /\ Min(K) <= b.key
                    /\ b.key = Min(K) => Min(L) <= b.level
                    /\ b.key = Min(K) /\ b.level = Min(L) => b.tableIndex <= a.tableIndex
  <2> TAKE b \in H
  <2>1. b.key = Min(K) => b \in A
    OBVIOUS
  <2>2. b \in A /\ b.level = Min(L) => b \in B
    OBVIOUS
  <2> HIDE DEF A, B
  <2> QED
    BY <1>3, <1>6, <1>11, <2>1, <2>2
<1> HIDE DEF K, A, L, B, X
<1>13. ASSUME NEW b \in H \ {a}
       PROVE  Less(a, b)
  <2>1. a.tableIndex # b.tableIndex
    BY <1>10
  <2>2. /\ a.key \in Int /\ b.key \in Int /\ a.level \in Int /\ b.level \in Int
        /\ a.tableIndex \in Int /\ b.tableIndex \in Int
    BY <1>10
  <2> QED
    BY <1>10, <1>12, <2>1, <2>2 DEF Less
<1>14. \E c \in H : \A b \in H \ {c} : Less(c, b)
  BY <1>10, <1>13
<1> QED
  BY <1>14 DEF Least

\* A sorted sequence of n entries is a table of n keys.
LEMMA SortedIsCounted ==
  ASSUME NEW es \in EntrySeqs, StrictlySorted(Keys(es))
  PROVE  Cardinality(KeysIn(TableOf(es))) = Len(es)
<1> DEFINE A == KeysIn(TableOf(es))
           v == TableOf(es)
<1>1. \A p \in DOMAIN es : es[p].key \in Key /\ es[p].entry \in Entry /\ es[p] = [key |-> es[p].key, entry |-> es[p].entry]
  <2>1. \A p \in DOMAIN es : es[p] \in [key : Key, entry : Entry]
    BY SeqMember DEF EntrySeqs
  <2> QED
    BY <2>1
<1>2. \A p \in DOMAIN es : v[es[p].key] = es[p].entry
  BY <1>1, TableHasWhatIsListed
<1>3. \A k \in Key : (\A p \in DOMAIN es : es[p].key # k) => v[k] = None
  BY TableHasWhatIsListed
<1>4. None \notin Entry
  BY SentinelsDiffer DEF Entry
<1> HIDE DEF v
<1>5. A \in SUBSET Key /\ A = {k \in Key : v[k] # None}
  BY DEF KeysIn, v
<1> HIDE DEF A
<1>6. \A k \in A : \E p \in DOMAIN es : es[p].key = k
  BY <1>3, <1>5
<1>7. \A p \in DOMAIN es : es[p].key \in A
  BY <1>1, <1>2, <1>4, <1>5
<1>8. ListsEntries(v, A, es)
  BY <1>1, <1>2, <1>6, <1>7 DEF ListsEntries
<1>9. Len(es) = Cardinality(A)
  BY <1>5, <1>8, ListingLength
<1> QED
  BY <1>9 DEF A

\* The loop keeps the entry of a key past all the others.
LEMMA KeptAtTheEnd ==
  ASSUME NEW es \in EntrySeqs, StrictlySorted(Keys(es)), NEW r \in [key : Key, entry : Entry],
         \A p \in DOMAIN es : es[p].key < r.key
  PROVE  /\ Append(es, r) \in EntrySeqs /\ StrictlySorted(Keys(Append(es, r)))
         /\ \A p \in DOMAIN Append(es, r) : Append(es, r)[p].key <= r.key
         /\ TableOf(Append(es, r))[r.key] = r.entry
         /\ \A k \in Key \ {r.key} : TableOf(Append(es, r))[k] = TableOf(es)[k]
<1> DEFINE s == Append(es, r)
           n == Len(es)
<1>1. /\ s \in EntrySeqs /\ n \in Nat /\ Len(s) = n + 1 /\ DOMAIN s = 1..n + 1 /\ s[n + 1] = r
      /\ DOMAIN es = 1..n /\ \A i \in 1..n : s[i] = es[i]
  BY AppendAt DEF EntrySeqs
<1>0. r.key \in Key /\ r.key \in Int
  BY KeysAreOrdered
<1>2. \A i \in 1..n + 1 : i \in 1..n \/ i = n + 1
  <2> HIDE DEF n
  <2> QED
    BY <1>1
<1>3. (\A i \in 1..n : i \in 1..n + 1) /\ n + 1 \in 1..n + 1
  <2> HIDE DEF n
  <2> QED
    BY <1>1
<1> HIDE DEF s, n
<1>4. \A p \in DOMAIN es : es[p].key \in Key /\ es[p].key \in Int
  <2>1. \A p \in DOMAIN es : es[p] \in [key : Key, entry : Entry]
    BY SeqMember DEF EntrySeqs
  <2>2. \A u \in [key : Key, entry : Entry] : u.key \in Key /\ u.key \in Int
    BY KeysAreOrdered
  <2> QED
    BY <2>1, <2>2
<1>5. StrictlySorted(Keys(s))
  <2>1. DOMAIN Keys(s) = 1..n + 1 /\ Len(Keys(s)) = n + 1
        /\ \A i \in 1..n + 1 : Keys(s)[i] = s[i].key
    <3>1. Keys(s) = [i \in 1..n + 1 |-> s[i].key] /\ n + 1 \in Nat
      BY <1>1 DEF Keys
    <3> HIDE DEF s
    <3> QED
      BY <3>1
  <2>2. DOMAIN Keys(es) = 1..n /\ Len(Keys(es)) = n /\ \A i \in 1..n : Keys(es)[i] = es[i].key
    <3>1. Keys(es) = [i \in 1..n |-> es[i].key] /\ n \in Nat
      BY <1>1 DEF Keys
    <3> QED
      BY <3>1
  <2>3. ASSUME NEW i \in 2..n + 1
        PROVE  Keys(s)[i - 1] < Keys(s)[i]
    <3>1. i \in Int /\ i - 1 \in 1..n + 1 /\ i \in 1..n + 1 /\ i - 1 \in 1..n
      BY <1>1
    <3>2. CASE i \in 2..n
      <4>1. Keys(es)[i - 1] < Keys(es)[i] /\ i \in 1..n
        BY <1>1, <2>2, <3>2 DEF StrictlySorted
      <4> QED
        BY <1>1, <2>1, <2>2, <3>1, <4>1
    <3>3. CASE i = n + 1
      <4>1. Keys(s)[i] = r.key /\ Keys(s)[i - 1] = es[i - 1].key
        BY <1>1, <2>1, <3>1, <3>3
      <4> QED
        BY <1>1, <3>1, <4>1
    <3>4. i \in 2..n \/ i = n + 1
      BY <1>1
    <3> QED
      BY <3>2, <3>3, <3>4
  <2> QED
    BY <2>1, <2>3 DEF StrictlySorted
<1>6. ASSUME NEW p \in DOMAIN s
      PROVE  s[p].key <= r.key
  <2>1. CASE p \in 1..n
    <3>1. es[p].key < r.key /\ es[p].key \in Int
      BY <1>1, <1>4, <2>1
    <3> QED
      BY <1>0, <1>1, <2>1, <3>1
  <2>2. CASE p = n + 1
    BY <1>0, <1>1, <2>2
  <2> QED
    BY <1>1, <1>2, <2>1, <2>2
<1>7. TableOf(s)[r.key] = r.entry
  BY <1>0, <1>1, <1>3, <1>5, TableHasWhatIsListed
<1>8. ASSUME NEW k \in Key \ {r.key}
      PROVE  TableOf(s)[k] = TableOf(es)[k]
  <2>1. CASE \E p \in DOMAIN es : es[p].key = k
    <3>1. PICK p \in DOMAIN es : es[p].key = k
      BY <2>1
    <3>2. p \in DOMAIN s /\ s[p] = es[p]
      BY <1>1, <1>3
    <3> QED
      BY <1>1, <1>5, <3>1, <3>2, TableHasWhatIsListed
  <2>2. CASE \A p \in DOMAIN es : es[p].key # k
    <3>1. \A p \in DOMAIN s : s[p].key # k
      BY <1>1, <1>2, <2>2
    <3> QED
      BY SMTT(60), <1>1, <1>5, <2>2, <3>1, TableHasWhatIsListed
  <2> QED
    BY <2>1, <2>2
<1> QED
  BY <1>1, <1>5, <1>6, <1>7, <1>8 DEF s

-----------------------------------------------------------------------------
(***************************************************************************)
(* The readers and the heap together: R[j] reads the file X[j] of the      *)
(* input In[j], and H has the items of those that are not at their end.    *)
(***************************************************************************)
Content(x) == TableOf(EntriesOf(x.table))

Live(X, R, j) == R[j].block <= Len(X[j].table.blocks)

ItemOf(X, R, j) ==
  LET c == X[j].table.blocks[R[j].block].slots[R[j].at]
  IN  [key |-> c.key, entry |-> Decode(c).entry, level |-> R[j].level, tableIndex |-> j]

InputSeq(In) == \E N \in Nat : DOMAIN In = 1..N /\ \A j \in 1..N : In[j].level \in 0..1

ReadersGood(In, X, R, H, cur) ==
  /\ DOMAIN R = DOMAIN In
  /\ \A j \in DOMAIN In :
       /\ GoodFile(X[j])
       /\ R[j] = [level |-> In[j].level, idx |-> In[j].idx, block |-> R[j].block, at |-> R[j].at]
       /\ ReaderAt(X[j].table, R[j].block, R[j].at, cur)
  /\ H = {ItemOf(X, R, j) : j \in {i \in DOMAIN In : Live(X, R, i)}}

\* The item of a reader that is not at its end.
LEMMA ItemsOfReaders ==
  ASSUME NEW In, NEW X, NEW R, NEW H, NEW cur, ReadersGood(In, X, R, H, cur),
         NEW j \in DOMAIN In, Live(X, R, j)
  PROVE  LET a == ItemOf(X, R, j) IN
         /\ a \in H /\ a.tableIndex = j /\ a.level = In[j].level
         /\ a.key = CellKey(X[j].table, R[j].block, R[j].at)
         /\ a.key \in Key /\ a.entry \in Entry
         /\ cur = None \/ cur <= a.key
         /\ Content(X[j])[a.key] = a.entry
<1> DEFINE x == X[j]
           b == R[j].block
           at == R[j].at
           a == ItemOf(X, R, j)
<1>1. GoodFile(x) /\ ReaderAt(x.table, b, at, cur) /\ b <= Len(x.table.blocks)
  BY DEF ReadersGood, Live
<1>2. EntryHere(x.table, b, at, cur)
  <2> HIDE DEF x, b, at
  <2> QED
    BY SMTT(60), <1>1, ThisEntry
<1>3. /\ a.key = CellKey(x.table, b, at) /\ a.entry = Decode(x.table.blocks[b].slots[at]).entry
      /\ a.level = R[j].level /\ a.tableIndex = j
  BY DEF ItemOf, CellKey
<1>4. R[j].level = In[j].level
  <2>1. R[j] = [level |-> In[j].level, idx |-> In[j].idx, block |-> b, at |-> at]
    BY DEF ReadersGood
  <2> HIDE DEF b, at
  <2> QED
    BY <2>1
<1>5. a \in H
  BY DEF ReadersGood
<1> HIDE DEF a
<1> QED
  BY ZenonT(60), <1>2, <1>3, <1>4, <1>5 DEF a, Content, EntryHere

LEMMA ReadersOfItems ==
  ASSUME NEW In, NEW X, NEW R, NEW H, NEW cur, ReadersGood(In, X, R, H, cur), NEW a \in H
  PROVE  /\ a.tableIndex \in DOMAIN In /\ Live(X, R, a.tableIndex)
         /\ a = ItemOf(X, R, a.tableIndex)
<1>1. PICK j \in DOMAIN In : Live(X, R, j) /\ a = ItemOf(X, R, j)
  BY SMTT(60) DEF ReadersGood
<1>2. a.tableIndex = j
  BY ZenonT(60), <1>1 DEF ItemOf
<1> QED
  BY <1>1, <1>2

\* The item that is popped.
LEMMA LeastItem ==
  ASSUME NEW In, InputSeq(In), NEW X, NEW R, NEW H, NEW cur, ReadersGood(In, X, R, H, cur),
         H # {}
  PROVE  Least(H) \in H /\ \A b \in H \ {Least(H)} : Less(Least(H), b)
<1>1. PICK N \in Nat : DOMAIN In = 1..N /\ \A j \in 1..N : In[j].level \in 0..1
  BY DEF InputSeq
<1>2. \A a \in H : a.key \in Int /\ a.level \in Int /\ a.tableIndex \in Int
  <2> SUFFICES ASSUME NEW a \in H
               PROVE  a.key \in Int /\ a.level \in Int /\ a.tableIndex \in Int
    OBVIOUS
  <2>1. a.tableIndex \in DOMAIN In /\ Live(X, R, a.tableIndex) /\ a = ItemOf(X, R, a.tableIndex)
    BY ReadersOfItems
  <2> DEFINE j == a.tableIndex
  <2> HIDE DEF j
  <2>2. a.key \in Key /\ a.level = In[j].level
    <3>1. ItemOf(X, R, j).key \in Key /\ ItemOf(X, R, j).level = In[j].level
      BY <2>1, ItemsOfReaders DEF j
    <3> QED
      BY <2>1, <3>1 DEF j
  <2>3. j \in 1..N /\ j \in Int
    BY <1>1, <2>1 DEF j
  <2>4. a.key \in Int
    BY <2>2, KeysAreOrdered
  <2>5. a.level \in Int
    <3>1. In[j].level \in 0..1
      BY <1>1, <2>3
    <3>2. \A n \in 0..1 : n \in Int
      OBVIOUS
    <3> QED
      BY ONLY <2>2, <3>1, <3>2
  <2>6. a.tableIndex \in Int
    BY <2>3 DEF j
  <2> QED
    BY ONLY <2>4, <2>5, <2>6
<1>3. \A a, b \in H : a.tableIndex = b.tableIndex => a = b
  BY ReadersOfItems
<1>4. IsFiniteSet(H)
  <2> DEFINE S == {i \in DOMAIN In : Live(X, R, i)}
             f == [j \in S |-> ItemOf(X, R, j)]
  <2>1. IsFiniteSet(1..N) /\ S \subseteq 1..N
    BY <1>1, FS_Interval
  <2>2. IsFiniteSet(S)
    <3> HIDE DEF S
    <3> QED
      BY <2>1, FS_Subset
  <2>3. H = {f[j] : j \in S} /\ DOMAIN f = S /\ f = [j \in S |-> f[j]]
    BY DEF ReadersGood
  <2> HIDE DEF f, S
  <2> QED
    BY <2>2, <2>3, ImageIsFinite
<1> QED
  BY <1>2, <1>3, <1>4, LeastComesFirst

\* No input has a key between those passed and those in the heap.
LEMMA NoKeyBetween ==
  ASSUME NEW In, NEW X, NEW R, NEW H, NEW cur \in Key \cup {None}, ReadersGood(In, X, R, H, cur),
         NEW k \in Key, cur = None \/ cur < k, NEW j \in DOMAIN In,
         Live(X, R, j) => k < ItemOf(X, R, j).key
  PROVE  Content(X[j])[k] = None
<1> DEFINE x == X[j]
           b == R[j].block
           at == R[j].at
<1>1. GoodFile(x) /\ ReaderAt(x.table, b, at, cur)
  BY DEF ReadersGood
<1>2. b <= Len(x.table.blocks) => k < CellKey(x.table, b, at)
  BY ItemsOfReaders DEF Live
<1> HIDE DEF x, b, at
<1>3. TableOf(EntriesOf(x.table))[k] = None
  BY <1>1, <1>2, NothingBetween
<1> QED
  BY <1>3 DEF Content, x

\* The item that is popped first for its key is that of the newest table.
LEMMA FirstWins ==
  ASSUME NEW In, InputSeq(In), NEW X, NEW R, NEW H, NEW cur \in Key \cup {None},
         ReadersGood(In, X, R, H, cur), H # {}
  PROVE  LET a == Least(H)  j == a.tableIndex IN
         /\ j \in DOMAIN In /\ Live(X, R, j) /\ a = ItemOf(X, R, j)
         /\ a.key \in Key /\ a.entry \in Entry /\ (cur = None \/ cur <= a.key)
         /\ Content(X[j])[a.key] = a.entry
         /\ \A k \in Key : (cur = None \/ cur < k) /\ k < a.key =>
              \A i \in DOMAIN In : Content(X[i])[k] = None
         /\ \A i \in DOMAIN In : Live(X, R, i) => a.key <= ItemOf(X, R, i).key
         /\ \A i \in DOMAIN In \ {j} : a.key # cur /\ Content(X[i])[a.key] # None =>
              In[j].level < In[i].level \/ (In[j].level = In[i].level /\ j > i)
<1> DEFINE a == Least(H)
           j == a.tableIndex
<1>1. a \in H /\ \A b \in H \ {a} : Less(a, b)
  BY LeastItem
<1> HIDE DEF a
<1>2. j \in DOMAIN In /\ Live(X, R, j) /\ a = ItemOf(X, R, j)
  BY <1>1, ReadersOfItems
<1> HIDE DEF j
<1>3. /\ a.key \in Key /\ a.entry \in Entry /\ (cur = None \/ cur <= a.key)
      /\ Content(X[j])[a.key] = a.entry /\ a.level = In[j].level
  <2>1. LET it == ItemOf(X, R, j) IN
        /\ it.key \in Key /\ it.entry \in Entry /\ (cur = None \/ cur <= it.key)
        /\ Content(X[j])[it.key] = it.entry /\ it.level = In[j].level
    BY <1>2, ItemsOfReaders
  <2> QED
    BY <1>2, <2>1
<1>4. /\ a.key \in Int /\ (cur # None => cur \in Int)
  BY <1>3, KeysAreOrdered
<1>5. ASSUME NEW i \in DOMAIN In, Live(X, R, i)
      PROVE  LET b == ItemOf(X, R, i) IN
             /\ a.key <= b.key /\ b.key \in Int
             /\ b.key = a.key /\ i # j =>
                  In[j].level < In[i].level \/ (In[j].level = In[i].level /\ j > i)
  <2> DEFINE b == ItemOf(X, R, i)
  <2>1. b \in H /\ b.tableIndex = i /\ b.level = In[i].level /\ b.key \in Key
    BY <1>5, ItemsOfReaders
  <2> HIDE DEF b
  <2>2. b.key \in Int
    BY <2>1, KeysAreOrdered
  <2>3. CASE b = a
    BY <1>4, <2>1, <2>2, <2>3 DEF b, j
  <2>4. CASE b # a
    <3>1. Less(a, b)
      BY <1>1, <2>1, <2>4
    <3>2. a.key <= b.key
      BY <1>4, <2>2, <3>1 DEF Less
    <3>3. ASSUME b.key = a.key
          PROVE  a.level < b.level \/ (a.level = b.level /\ a.tableIndex > b.tableIndex)
      BY <1>4, <3>1, <3>3 DEF Less
    <3> QED
      BY <1>3, <2>1, <2>2, <3>2, <3>3 DEF b, j
  <2> QED
    BY <2>3, <2>4
<1>6. ASSUME NEW k \in Key, cur = None \/ cur < k, k < a.key, NEW i \in DOMAIN In
      PROVE  Content(X[i])[k] = None
  <2>1. Live(X, R, i) => k < ItemOf(X, R, i).key
    <3> SUFFICES ASSUME Live(X, R, i)
                 PROVE  k < ItemOf(X, R, i).key
      OBVIOUS
    <3> DEFINE q == ItemOf(X, R, i).key
    <3>1. a.key <= q /\ q \in Int /\ k \in Int
      BY <1>5, KeysAreOrdered
    <3> HIDE DEF q
    <3>2. k < q
      BY <1>4, <1>6, <3>1
    <3> QED
      BY <3>2 DEF q
  <2> QED
    BY <1>6, <2>1, NoKeyBetween
<1>7. ASSUME NEW i \in DOMAIN In \ {j}, a.key # cur, Content(X[i])[a.key] # None
      PROVE  In[j].level < In[i].level \/ (In[j].level = In[i].level /\ j > i)
  <2>1. cur = None \/ cur < a.key
    BY <1>3, <1>4, <1>7
  <2>2. ~(Live(X, R, i) => a.key < ItemOf(X, R, i).key)
    BY <1>3, <1>7, <2>1, NoKeyBetween
  <2> DEFINE q == ItemOf(X, R, i).key
  <2>3. Live(X, R, i) /\ ~(a.key < q)
    BY <2>2
  <2>4. a.key <= q /\ q \in Int
    BY <1>5, <2>3
  <2> HIDE DEF q
  <2>5. q = a.key
    BY <1>4, <2>3, <2>4
  <2> QED
    BY <1>5, <1>7, <2>3, <2>5 DEF q
<1> QED
  BY <1>2, <1>3, <1>5, <1>6, <1>7 DEF a, j

\* The inputs are opened.
LEMMA ReadersStart ==
  ASSUME NEW In, NEW X, NEW R, NEW H, DOMAIN R = DOMAIN In,
         \A j \in DOMAIN In :
           /\ GoodFile(X[j]) /\ Len(X[j].table.blocks) = Len(X[j].table.index)
           /\ Whole(X[j].table, 1)
           /\ R[j] = [level |-> In[j].level, idx |-> In[j].idx, block |-> 1, at |-> 1],
         H = {ItemOf(X, R, j) : j \in DOMAIN In}
  PROVE  ReadersGood(In, X, R, H, None)
<1>1. \A j \in DOMAIN In : R[j].block = 1 /\ R[j].at = 1
  OBVIOUS
<1>2. ASSUME NEW j \in DOMAIN In
      PROVE  /\ GoodFile(X[j]) /\ Live(X, R, j)
             /\ R[j] = [level |-> In[j].level, idx |-> In[j].idx, block |-> R[j].block, at |-> R[j].at]
             /\ ReaderAt(X[j].table, R[j].block, R[j].at, None)
  <2>1. 1 <= Len(X[j].table.blocks) /\ ReaderAt(X[j].table, 1, 1, None)
    <3> DEFINE x == X[j]
    <3>1. GoodFile(x) /\ Len(x.table.blocks) = Len(x.table.index) /\ Whole(x.table, 1)
      OBVIOUS
    <3> HIDE DEF x
    <3>2. 1 <= Len(x.table.blocks) /\ ReaderAt(x.table, 1, 1, None)
      BY <3>1, FirstEntry
    <3> QED
      BY <3>2 DEF x
  <2> QED
    BY <1>1, <2>1 DEF Live
<1>3. {i \in DOMAIN In : Live(X, R, i)} = DOMAIN In
  BY <1>2
<1> QED
  BY <1>2, <1>3, Zenon DEF ReadersGood

MovesOn(In, X, R, H, Q, G) ==
  LET a == Least(H)  j == a.tableIndex IN
  \E b, at :
    /\ IF R[j].at < Len(X[j].table.blocks[R[j].block].slots)
       THEN b = R[j].block /\ at = R[j].at + 1 ELSE b = R[j].block + 1 /\ at = 1
    /\ b <= Len(X[j].table.blocks) => Whole(X[j].table, b)
    /\ Q = [R EXCEPT ![j] = [level |-> In[j].level, idx |-> In[j].idx, block |-> b, at |-> at]]
    /\ G = (H \ {a}) \cup (IF b <= Len(X[j].table.blocks) THEN {ItemOf(X, Q, j)} ELSE {})

\* The least item is popped and its reader advanced.
LEMMA ReadersAdvance ==
  ASSUME NEW In, InputSeq(In), NEW X, NEW R, NEW H, NEW cur \in Key \cup {None},
         ReadersGood(In, X, R, H, cur), H # {}, NEW Q, NEW G, MovesOn(In, X, R, H, Q, G)
  PROVE  ReadersGood(In, X, Q, G, Least(H).key)
<1> DEFINE a == Least(H)
           j == a.tableIndex
<1>0. PICK b, at :
         /\ IF R[j].at < Len(X[j].table.blocks[R[j].block].slots)
            THEN b = R[j].block /\ at = R[j].at + 1 ELSE b = R[j].block + 1 /\ at = 1
         /\ b <= Len(X[j].table.blocks) => Whole(X[j].table, b)
         /\ Q = [R EXCEPT ![j] = [level |-> In[j].level, idx |-> In[j].idx, block |-> b, at |-> at]]
         /\ G = (H \ {a}) \cup (IF b <= Len(X[j].table.blocks) THEN {ItemOf(X, Q, j)} ELSE {})
  BY DEF MovesOn
<1>1. /\ j \in DOMAIN In /\ Live(X, R, j) /\ a = ItemOf(X, R, j)
      /\ a.key \in Key /\ (cur = None \/ cur <= a.key)
      /\ \A i \in DOMAIN In : Live(X, R, i) => a.key <= ItemOf(X, R, i).key
  BY FirstWins
<1> HIDE DEF a, j
<1>2. /\ DOMAIN R = DOMAIN In
      /\ \A i \in DOMAIN In :
           /\ GoodFile(X[i])
           /\ R[i] = [level |-> In[i].level, idx |-> In[i].idx, block |-> R[i].block, at |-> R[i].at]
           /\ ReaderAt(X[i].table, R[i].block, R[i].at, cur)
      /\ H = {ItemOf(X, R, i) : i \in {i \in DOMAIN In : Live(X, R, i)}}
  BY DEF ReadersGood
<1>3. DOMAIN Q = DOMAIN In /\ \A i \in DOMAIN In \ {j} : Q[i] = R[i]
  BY <1>0, <1>2
<1>4. Q[j] = [level |-> In[j].level, idx |-> In[j].idx, block |-> b, at |-> at]
      /\ Q[j].block = b /\ Q[j].at = at
  BY <1>0, <1>1, <1>2
<1>5. ReaderAt(X[j].table, b, at, a.key)
  <2> DEFINE x == X[j]
             b0 == R[j].block
             a0 == R[j].at
  <2>1. GoodFile(x) /\ ReaderAt(x.table, b0, a0, cur) /\ b0 <= Len(x.table.blocks)
    BY SMTT(60), <1>1, <1>2 DEF Live
  <2>2. IF a0 < Len(x.table.blocks[b0].slots) THEN b = b0 /\ at = a0 + 1 ELSE b = b0 + 1 /\ at = 1
    BY <1>0
  <2>3. b <= Len(x.table.blocks) => Whole(x.table, b)
    BY <1>0
  <2>4. a.key = CellKey(x.table, b0, a0)
    BY <1>1, ItemsOfReaders
  <2> HIDE DEF x, b0, a0
  <2>5. ReaderAt(x.table, b, at, CellKey(x.table, b0, a0))
    BY <2>1, <2>2, <2>3, NextEntry
  <2> QED
    BY <2>4, <2>5 DEF x
<1>6. ASSUME NEW i \in DOMAIN In \ {j}
      PROVE  ReaderAt(X[i].table, R[i].block, R[i].at, a.key)
  <2> DEFINE x == X[i]
             b0 == R[i].block
             a0 == R[i].at
             k == a.key
  <2>1. GoodFile(x) /\ ReaderAt(x.table, b0, a0, cur)
    BY <1>2
  <2>2. b0 <= Len(x.table.blocks) => k <= CellKey(x.table, b0, a0)
    <3> SUFFICES ASSUME Live(X, R, i)
                 PROVE  k <= CellKey(x.table, b0, a0)
      BY DEF Live
    <3>1. ItemOf(X, R, i).key = CellKey(x.table, b0, a0)
      BY ItemsOfReaders
    <3> QED
      BY <1>1, <3>1
  <2>3. k \in Key /\ (cur = None \/ cur <= k)
    BY <1>1
  <2> HIDE DEF x, b0, a0, k
  <2>4. ReaderAt(x.table, b0, a0, k)
    BY <2>1, <2>2, <2>3, SameEntry
  <2> QED
    BY <2>4 DEF x, b0, a0, k
<1>7. ASSUME NEW i \in DOMAIN In
      PROVE  /\ GoodFile(X[i])
             /\ Q[i] = [level |-> In[i].level, idx |-> In[i].idx, block |-> Q[i].block, at |-> Q[i].at]
             /\ ReaderAt(X[i].table, Q[i].block, Q[i].at, a.key)
  <2>1. CASE i = j
    BY <1>2, <1>4, <1>5, <2>1
  <2>2. CASE i # j
    BY <1>2, <1>3, <1>6, <2>2
  <2> QED
    BY <2>1, <2>2
<1>8. G = {ItemOf(X, Q, i) : i \in {i \in DOMAIN In : Live(X, Q, i)}}
  <2>1. \A i \in DOMAIN In \ {j} : ItemOf(X, Q, i) = ItemOf(X, R, i) /\ (Live(X, Q, i) <=> Live(X, R, i))
    BY ZenonT(60), <1>3 DEF ItemOf, Live
  <2>2. \A i \in DOMAIN In : ItemOf(X, R, i).tableIndex = i
    BY DEF ItemOf
  <2>3. Live(X, Q, j) <=> b <= Len(X[j].table.blocks)
    BY <1>4 DEF Live
  <2>4. \A u : u \in H <=> \E i \in DOMAIN In : Live(X, R, i) /\ u = ItemOf(X, R, i)
    BY <1>2
  <2>5. \A u : u \in G <=> (u \in H /\ u # a) \/ (Live(X, Q, j) /\ u = ItemOf(X, Q, j))
    <3>1. CASE Live(X, Q, j)
      <4>1. G = (H \ {a}) \cup {ItemOf(X, Q, j)}
        BY <1>0, <2>3, <3>1
      <4> QED
        BY SMTT(60), <3>1, <4>1
    <3>2. CASE ~Live(X, Q, j)
      <4>1. G = (H \ {a}) \cup {}
        BY <1>0, <2>3, <3>2
      <4> QED
        BY SMTT(60), <3>2, <4>1
    <3> QED
      BY <3>1, <3>2
  <2>6. ASSUME NEW u \in G
        PROVE  \E i \in DOMAIN In : Live(X, Q, i) /\ u = ItemOf(X, Q, i)
    <3>1. CASE u \in H /\ u # a
      <4>1. PICK i \in DOMAIN In : Live(X, R, i) /\ u = ItemOf(X, R, i)
        BY <2>4, <3>1
      <4>2. i # j
        BY <1>1, <3>1, <4>1
      <4> QED
        BY <2>1, <4>1, <4>2
    <3>2. CASE Live(X, Q, j) /\ u = ItemOf(X, Q, j)
      BY <1>1, <3>2
    <3> QED
      BY <2>5, <2>6, <3>1, <3>2
  <2>7. ASSUME NEW i \in DOMAIN In, Live(X, Q, i)
        PROVE  ItemOf(X, Q, i) \in G
    <3>1. CASE i = j
      BY <2>5, <2>7, <3>1
    <3>2. CASE i # j
      <4>1. ItemOf(X, Q, i) = ItemOf(X, R, i) /\ Live(X, R, i)
        BY <2>1, <2>7, <3>2
      <4>2. ItemOf(X, R, i) # a
        BY <1>1, <2>2, <3>2
      <4> QED
        BY <2>4, <2>5, <4>1, <4>2
    <3> QED
      BY <3>1, <3>2
  <2> DEFINE S == {ItemOf(X, Q, i) : i \in {i \in DOMAIN In : Live(X, Q, i)}}
  <2>8. \A u : u \in S <=> \E i \in DOMAIN In : Live(X, Q, i) /\ u = ItemOf(X, Q, i)
    OBVIOUS
  <2> HIDE DEF S
  <2>9. ASSUME NEW u \in G
        PROVE  u \in S
    BY ONLY <2>6, <2>8, u \in G, Zenon
  <2>0. ASSUME NEW u \in S
        PROVE  u \in G
    <3>1. PICK i \in DOMAIN In : Live(X, Q, i) /\ u = ItemOf(X, Q, i)
      BY <2>8
    <3> QED
      BY <2>7, <3>1
  <2>10. G = S
    BY ONLY <2>0, <2>9
  <2> QED
    BY SMTT(60), <2>10 DEF S
<1>9. ReadersGood(In, X, Q, G, a.key)
  BY <1>3, <1>7, <1>8, Zenon DEF ReadersGood
<1> QED
  BY <1>9 DEF a

-----------------------------------------------------------------------------
(***************************************************************************)
(* The inputs of the merge and what Merged says of them.                   *)
(***************************************************************************)
InputFiles == [j \in DOMAIN Inputs |-> files[Inputs[j].level][Inputs[j].idx]]

MergedLevels ==
  LET l0 == TablesOf(levels, 0)
  IN  Merged([j \in DOMAIN l0 |-> l0[j].idx], TablesOf(levels, 1),
             [l \in 0..1 |-> Contents(l)])

\* Every table of the levels has a good file.
NamedFiles ==
  \A l \in 0..1 : \A i \in Numbers(TablesOf(levels, l)) : GoodFile(files[l][i])

LEMMA TableOnLevel ==
  ASSUME NEW lv, LevelsShape(lv), NEW l \in 0..1
  PROVE  LET t == TablesOf(lv, l) IN
         /\ Len(t) \in Nat /\ DOMAIN t = 1..Len(t)
         /\ \A j \in DOMAIN t : t[j].idx \in Idx /\ t[j].idx \in Numbers(t)
         /\ \E T : t \in Seq(T)
<1> DEFINE t == TablesOf(lv, l)
<1>1. PICK Rs : TablesOf(lv, 0) \in Seq(AnyTable(Rs)) /\ TablesOf(lv, 1) \in Seq(AnyTable(Rs))
  BY TablesAreTables
<1>2. t \in Seq(AnyTable(Rs))
  <2>1. l = 0 \/ l = 1
    OBVIOUS
  <2> QED
    BY <1>1, <2>1
<1> HIDE DEF t
<1>3. Len(t) \in Nat /\ DOMAIN t = 1..Len(t)
  BY <1>2
<1>4. \A j \in DOMAIN t : t[j] \in AnyTable(Rs)
  BY <1>2, SeqMember
<1>5. \A u \in AnyTable(Rs) : u.idx \in Idx
  BY DEF AnyTable
<1>6. \A j \in DOMAIN t : t[j].idx \in Numbers(t)
  BY DEF Numbers
<1>7. \A j \in DOMAIN t : t[j].idx \in Idx
  BY <1>4, <1>5
<1> QED
  BY <1>2, <1>3, <1>6, <1>7 DEF t

LEMMA InputsListed ==
  ASSUME LevelsShape(levels)
  PROVE  LET l0 == TablesOf(levels, 0)  l1 == TablesOf(levels, 1)  m == Len(l0)  n == Len(l1) IN
         /\ m \in Nat /\ n \in Nat /\ DOMAIN l0 = 1..m /\ DOMAIN l1 = 1..n
         /\ DOMAIN Inputs = 1..m + n
         /\ \A j \in 1..m : Inputs[j] = Reader(0, l0[j].idx)
         /\ \A j \in 1..n : Inputs[m + j] = Reader(1, l1[j].idx)
<1> DEFINE l0 == TablesOf(levels, 0)
           l1 == TablesOf(levels, 1)
           m == Len(l0)
           n == Len(l1)
           L == [level : 0..1, idx : Idx, block : {1}, at : {0}]
           a == [j \in DOMAIN l0 |-> Reader(0, l0[j].idx)]
           b == [j \in DOMAIN l1 |-> Reader(1, l1[j].idx)]
<1>0. 0 \in 0..1 /\ 1 \in 0..1
  OBVIOUS
<1>1. /\ m \in Nat /\ DOMAIN l0 = 1..m /\ \A j \in DOMAIN l0 : l0[j].idx \in Idx
      /\ n \in Nat /\ DOMAIN l1 = 1..n /\ \A j \in DOMAIN l1 : l1[j].idx \in Idx
  BY <1>0, TableOnLevel
<1>2. Inputs = a \o b
  BY DEF Inputs
<1>3. \A l \in 0..1, i \in Idx : Reader(l, i) \in L
  BY DEF Reader
<1> HIDE DEF L, l0, l1, m, n
<1>4. a = [j \in 1..m |-> Reader(0, l0[j].idx)] /\ \A j \in 1..m : Reader(0, l0[j].idx) \in L
  BY <1>0, <1>1, <1>3
<1>5. b = [j \in 1..n |-> Reader(1, l1[j].idx)] /\ \A j \in 1..n : Reader(1, l1[j].idx) \in L
  BY <1>0, <1>1, <1>3
<1>6. a \in Seq(L) /\ Len(a) = m /\ \A j \in 1..m : a[j] = Reader(0, l0[j].idx)
  BY <1>1, <1>4
<1>7. b \in Seq(L) /\ Len(b) = n /\ \A j \in 1..n : b[j] = Reader(1, l1[j].idx)
  BY <1>1, <1>5
<1> HIDE DEF a, b
<1>8. /\ DOMAIN (a \o b) = 1..m + n
      /\ \A j \in 1..m : (a \o b)[j] = a[j]
      /\ \A j \in 1..n : (a \o b)[m + j] = b[j]
  <2>1. /\ DOMAIN (a \o b) = 1..Len(a) + Len(b)
        /\ \A j \in 1..Len(a) : (a \o b)[j] = a[j]
        /\ \A j \in 1..Len(b) : (a \o b)[Len(a) + j] = b[j]
    <3>1. \A p, q \in Seq(L) :
            /\ DOMAIN (p \o q) = 1..Len(p) + Len(q)
            /\ \A j \in 1..Len(p) : (p \o q)[j] = p[j]
            /\ \A j \in 1..Len(q) : (p \o q)[Len(p) + j] = q[j]
      BY ConcatAt
    <3> QED
      BY <1>6, <1>7, <3>1
  <2> QED
    BY <1>6, <1>7, <2>1
<1>9. /\ \A j \in 1..m : Inputs[j] = Reader(0, l0[j].idx)
      /\ \A j \in 1..n : Inputs[m + j] = Reader(1, l1[j].idx)
      /\ DOMAIN Inputs = 1..m + n
  BY SMTT(60), <1>2, <1>6, <1>7, <1>8
<1> QED
  BY <1>1, <1>9 DEF l0, l1, m, n

\* Every input is a named table.
LEMMA InputsNamed ==
  ASSUME LevelsShape(levels), NamedFiles
  PROVE  /\ InputSeq(Inputs)
         /\ \A j \in DOMAIN Inputs :
              /\ Inputs[j].level \in 0..1 /\ Inputs[j].idx \in Idx
              /\ Inputs[j].idx \in Numbers(TablesOf(levels, Inputs[j].level))
              /\ Inputs[j] = Reader(Inputs[j].level, Inputs[j].idx)
              /\ GoodFile(InputFiles[j])
<1> DEFINE l0 == TablesOf(levels, 0)
           l1 == TablesOf(levels, 1)
           m == Len(l0)
           n == Len(l1)
<1>0. 0 \in 0..1 /\ 1 \in 0..1
  OBVIOUS
<1>1. /\ m \in Nat /\ n \in Nat /\ DOMAIN l0 = 1..m /\ DOMAIN l1 = 1..n
      /\ DOMAIN Inputs = 1..m + n
      /\ \A j \in 1..m : Inputs[j] = Reader(0, l0[j].idx)
      /\ \A j \in 1..n : Inputs[m + j] = Reader(1, l1[j].idx)
  BY InputsListed
<1>2. /\ \A j \in DOMAIN l0 : l0[j].idx \in Idx /\ l0[j].idx \in Numbers(l0)
      /\ \A j \in DOMAIN l1 : l1[j].idx \in Idx /\ l1[j].idx \in Numbers(l1)
  BY <1>0, TableOnLevel
<1>3. \A l, i : Reader(l, i).level = l /\ Reader(l, i).idx = i
  BY DEF Reader
<1>4. \A j \in 1..m + n : j \in 1..m \/ (j - m \in 1..n /\ m + (j - m) = j)
  <2> HIDE DEF m, n
  <2> QED
    BY <1>1
<1> HIDE DEF l0, l1, m, n
<1>5. ASSUME NEW j \in DOMAIN Inputs
      PROVE  /\ Inputs[j].level \in 0..1 /\ Inputs[j].idx \in Idx
             /\ Inputs[j].idx \in Numbers(TablesOf(levels, Inputs[j].level))
             /\ Inputs[j] = Reader(Inputs[j].level, Inputs[j].idx)
  <2>1. CASE j \in 1..m
    <3>1. Inputs[j] = Reader(0, l0[j].idx) /\ l0[j].idx \in Idx /\ l0[j].idx \in Numbers(l0)
      BY <1>1, <1>2, <2>1
    <3>2. Inputs[j].level = 0 /\ Inputs[j].idx = l0[j].idx
      BY <1>3, <3>1
    <3> QED
      BY <1>0, <3>1, <3>2 DEF l0
  <2>2. CASE j - m \in 1..n /\ m + (j - m) = j
    <3> DEFINE i == j - m
    <3>0. i \in 1..n /\ m + i = j
      BY <2>2
    <3> HIDE DEF i
    <3>1. Inputs[j] = Reader(1, l1[i].idx) /\ l1[i].idx \in Idx /\ l1[i].idx \in Numbers(l1)
      BY <1>1, <1>2, <3>0
    <3>2. Inputs[j].level = 1 /\ Inputs[j].idx = l1[i].idx
      BY <1>3, <3>1
    <3> QED
      BY <1>0, <3>1, <3>2 DEF l1
  <2> QED
    BY <1>1, <1>4, <2>1, <2>2
<1>6. \A j \in DOMAIN Inputs : GoodFile(InputFiles[j])
  BY <1>5 DEF NamedFiles, InputFiles
<1>7. InputSeq(Inputs)
  <2>1. m + n \in Nat /\ \A j \in 1..m + n : Inputs[j].level \in 0..1
    BY <1>1, <1>5
  <2> QED
    BY <1>1, <2>1 DEF InputSeq
<1> QED
  BY <1>5, <1>6, <1>7

\* What Merged reads of a named table.
LEMMA NamedContents ==
  ASSUME LevelsShape(levels), NamedFiles, NEW l \in 0..1, NEW i \in Numbers(TablesOf(levels, l))
  PROVE  /\ i \in Idx /\ Contents(l)[i] = Content(files[l][i])
         /\ \A k \in Key : Holds(Contents(l)[i], k) <=> Content(files[l][i])[k] # None
<1>1. i \in Idx
  BY TableOnLevel DEF Numbers
<1>2. GoodFile(files[l][i])
  BY DEF NamedFiles
<1>3. files[l][i] # NoFile
  BY <1>2, NothingIsNoData DEF GoodFile
<1>4. Contents(l)[i] = Content(files[l][i])
  BY <1>1, <1>3 DEF Contents, Content, EntriesOf, BlocksOf
<1>5. Content(files[l][i]) # NoFile
  <2> DEFINE x == files[l][i]
  <2>1. GoodFile(x)
    BY SMTT(60), <1>2
  <2> HIDE DEF x
  <2>2. TableOf(EntriesOf(x.table)) \in [Key -> Entry \cup {None, Garbage}]
    BY <2>1, ContentOf
  <2>3. Content(x) # NoFile
    BY <2>2, NothingIsNoData DEF Content
  <2> QED
    BY <2>3 DEF x
<1> QED
  BY <1>1, <1>4, <1>5 DEF Holds

\* Among the inputs with a key Merged takes the lowest level and there the last.
LEMMA MergedByInputs ==
  ASSUME LevelsShape(levels), NamedFiles, NEW k \in Key
  PROVE  /\ (\A j \in DOMAIN Inputs : Content(InputFiles[j])[k] = None) => MergedLevels[k] = None
         /\ \A j \in DOMAIN Inputs :
              /\ Content(InputFiles[j])[k] # None
              /\ \A i \in DOMAIN Inputs \ {j} : Content(InputFiles[i])[k] # None =>
                   Inputs[j].level < Inputs[i].level \/ (Inputs[j].level = Inputs[i].level /\ j > i)
              => MergedLevels[k] = Content(InputFiles[j])[k]
<1> DEFINE l0 == TablesOf(levels, 0)
           l1 == TablesOf(levels, 1)
           m == Len(l0)
           n == Len(l1)
           names == [j \in DOMAIN l0 |-> l0[j].idx]
           dir == [l \in 0..1 |-> Contents(l)]
           new == {j \in DOMAIN names : Holds(dir[0][names[j]], k)}
           old == {j \in DOMAIN l1 : Holds(dir[1][l1[j].idx], k)}
           C(j) == Content(InputFiles[j])[k]
<1>0. 0 \in 0..1 /\ 1 \in 0..1
  OBVIOUS
<1>1. /\ m \in Nat /\ n \in Nat /\ DOMAIN l0 = 1..m /\ DOMAIN l1 = 1..n
      /\ DOMAIN Inputs = 1..m + n
      /\ \A j \in 1..m : Inputs[j] = Reader(0, l0[j].idx)
      /\ \A j \in 1..n : Inputs[m + j] = Reader(1, l1[j].idx)
  BY InputsListed
<1>2. /\ \A j \in DOMAIN l0 : l0[j].idx \in Idx /\ l0[j].idx \in Numbers(l0)
      /\ \A j \in DOMAIN l1 : l1[j].idx \in Idx /\ l1[j].idx \in Numbers(l1)
      /\ \E T : l1 \in Seq(T)
  BY <1>0, TableOnLevel
<1>3. \A l, i : Reader(l, i).level = l /\ Reader(l, i).idx = i
  BY DEF Reader
<1>4. dir[0] = Contents(0) /\ dir[1] = Contents(1)
  BY <1>0
<1>5. \A l \in 0..1 : \A i \in Numbers(TablesOf(levels, l)) :
        /\ Contents(l)[i] = Content(files[l][i])
        /\ Holds(Contents(l)[i], k) <=> Content(files[l][i])[k] # None
  BY SMTT(60), NamedContents
<1>6. MergedLevels[k] =
        LET f == L0Find(names, dir[0], k)
        IN  IF f # None THEN f ELSE IF old = {} THEN None ELSE dir[1][l1[Max(old)].idx][k]
  BY DEF MergedLevels, Merged
<1>7. L0Find(names, dir[0], k) = IF new = {} THEN None ELSE dir[0][names[Max(new)]][k]
  BY DEF L0Find
<1> DEFINE f == L0Find(names, dir[0], k)
<1> HIDE DEF dir, l0, l1, m, n
<1>8. /\ \A j \in 1..m : j \in 1..m + n /\ n + m = m + n
      /\ \A j \in 1..n : m + j \in 1..m + n
      /\ \A j \in 1..m + n : j \in 1..m \/ (j - m \in 1..n /\ m + (j - m) = j)
  BY <1>1
<1>9. ASSUME NEW j \in 1..m
      PROVE  /\ j \in DOMAIN names /\ names[j] = l0[j].idx /\ dir[0][names[j]][k] = C(j)
             /\ j \in new <=> C(j) # None
             /\ Inputs[j].level = 0
  <2>1. names[j] = l0[j].idx /\ j \in DOMAIN names /\ j \in DOMAIN l0
    BY <1>1
  <2>2. Inputs[j].level = 0 /\ Inputs[j].idx = l0[j].idx /\ j \in DOMAIN Inputs
    BY <1>1, <1>3, <1>8
  <2>3. InputFiles[j] = files[0][l0[j].idx]
    BY <2>2 DEF InputFiles
  <2>4. l0[j].idx \in Numbers(TablesOf(levels, 0))
    BY <1>2, <2>1 DEF l0
  <2>5. /\ Contents(0)[l0[j].idx] = Content(files[0][l0[j].idx])
        /\ Holds(Contents(0)[l0[j].idx], k) <=> Content(files[0][l0[j].idx])[k] # None
    BY <1>0, <1>5, <2>4
  <2> QED
    BY <1>4, <2>1, <2>2, <2>3, <2>5
<1>10. ASSUME NEW j \in 1..n
       PROVE  /\ dir[1][l1[j].idx][k] = C(m + j)
              /\ j \in old <=> C(m + j) # None
              /\ Inputs[m + j].level = 1
  <2>2. Inputs[m + j].level = 1 /\ Inputs[m + j].idx = l1[j].idx /\ m + j \in DOMAIN Inputs
    BY <1>1, <1>3, <1>8
  <2>3. InputFiles[m + j] = files[1][l1[j].idx]
    BY <2>2 DEF InputFiles
  <2>4. l1[j].idx \in Numbers(TablesOf(levels, 1)) /\ j \in DOMAIN l1
    BY <1>1, <1>2 DEF l1
  <2>5. /\ Contents(1)[l1[j].idx] = Content(files[1][l1[j].idx])
        /\ Holds(Contents(1)[l1[j].idx], k) <=> Content(files[1][l1[j].idx])[k] # None
    BY <1>0, <1>5, <2>4
  <2> QED
    BY <1>4, <2>2, <2>3, <2>4, <2>5
<1>11. names \in Seq(Idx) /\ DOMAIN names = 1..m /\ new \in SUBSET DOMAIN names
       /\ old \in SUBSET DOMAIN l1 /\ new \subseteq 1..m /\ old \subseteq 1..n
  BY <1>1, <1>2
<1> HIDE DEF C, new, old, names, f
<1>12. ASSUME \A j \in DOMAIN Inputs : C(j) = None
       PROVE  MergedLevels[k] = None
  <2>1. \A j \in 1..m : j \notin new
    BY <1>1, <1>8, <1>9, <1>12
  <2>2. \A j \in 1..n : j \notin old
    BY <1>1, <1>8, <1>10, <1>12
  <2>3. new = {} /\ old = {}
    BY <1>11, <2>1, <2>2
  <2> QED
    BY <1>6, <1>7, <2>3
<1>13. ASSUME NEW j \in DOMAIN Inputs, C(j) # None,
              \A i \in DOMAIN Inputs \ {j} : C(i) # None =>
                Inputs[j].level < Inputs[i].level \/ (Inputs[j].level = Inputs[i].level /\ j > i)
       PROVE  MergedLevels[k] = C(j)
  <2>1. CASE j \in 1..m
    <3>1. new # {} /\ j \in new /\ Inputs[j].level = 0
      BY <1>9, <1>13, <2>1
    <3>2. Max(new) \in new /\ \A i \in new : i <= Max(new)
      BY <1>11, <3>1, GreatestHit
    <3>3. Max(new) = j
      <4> DEFINE i == Max(new)
      <4>1. i \in 1..m /\ C(i) # None /\ Inputs[i].level = 0 /\ j <= i
        BY <1>9, <1>11, <3>1, <3>2
      <4> HIDE DEF i
      <4>2. CASE i # j
        <5>1. i \in DOMAIN Inputs \ {j}
          BY <1>1, <1>8, <4>1, <4>2
        <5>2. j > i
          BY <1>13, <3>1, <4>1, <5>1
        <5> QED
          BY <2>1, <4>1, <5>2
      <4> QED
        BY <4>2 DEF i
    <3>4. f = C(j)
      BY <1>7, <1>9, <2>1, <3>1, <3>3 DEF f
    <3> QED
      BY <1>6, <1>13, <3>4 DEF f
  <2>2. CASE j - m \in 1..n /\ m + (j - m) = j
    <3> DEFINE p == j - m
    <3>0. p \in 1..n /\ m + p = j
      BY <2>2
    <3> HIDE DEF p
    <3>1. old # {} /\ p \in old /\ Inputs[j].level = 1
      BY <1>10, <1>13, <3>0
    <3>2. Max(old) \in old /\ \A i \in old : i <= Max(old)
      BY <1>2, <1>11, <3>1, GreatestHit
    <3>3. Max(old) = p
      <4> DEFINE i == Max(old)
      <4>1. i \in 1..n /\ C(m + i) # None /\ Inputs[m + i].level = 1 /\ p <= i
        BY <1>10, <1>11, <3>1, <3>2
      <4> HIDE DEF i
      <4>2. CASE i # p
        <5>1. m + i \in DOMAIN Inputs \ {j}
          BY <1>1, <1>8, <3>0, <4>1, <4>2
        <5>2. j > m + i
          BY <1>13, <3>1, <4>1, <5>1
        <5> QED
          BY <1>1, <3>0, <4>1, <5>2
      <4> QED
        BY <4>2 DEF i
    <3>4. new = {}
      <4> SUFFICES ASSUME NEW i \in new
                   PROVE  FALSE
        OBVIOUS
      <4>1. i \in 1..m /\ C(i) # None /\ Inputs[i].level = 0
        BY <1>9, <1>11
      <4>2. i \in DOMAIN Inputs \ {j}
        BY <1>1, <1>8, <3>1, <4>1
      <4> QED
        BY <1>13, <3>1, <4>1, <4>2
    <3>5. f = None
      BY <1>7, <3>4 DEF f
    <3>6. dir[1][l1[p].idx][k] = C(j)
      BY <1>10, <3>0
    <3> QED
      BY <1>6, <3>1, <3>3, <3>5, <3>6 DEF f
  <2> QED
    BY <1>1, <1>8, <2>1, <2>2
<1> QED
  BY <1>12, <1>13 DEF C

-----------------------------------------------------------------------------
(***************************************************************************)
(* What the merge preserves.                                               *)
(***************************************************************************)
\* A file of a chunk that was full.
FullFile(x) ==
  \E c \in EntrySeqs : Writable(c) /\ Len(c) = FLUSH_THRESHOLD /\ x = TableFile(c)

\* The chunks that were written.
WrittenChunks == [j \in DOMAIN merge.new |-> EntriesOf(files[1][merge.new[j].idx].table)]

OutputsGood ==
  /\ \A j \in DOMAIN merge.new :
       /\ merge.new[j].idx \notin Numbers(TablesOf(levels, 1))
       /\ FullFile(files[1][merge.new[j].idx])
  /\ merge.chunk \in EntrySeqs /\ Len(merge.chunk) <= FLUSH_THRESHOLD

LoopInv ==
  /\ ReadersGood(Inputs, InputFiles, merge.readers, merge.heap, merge.current)
  /\ Emitted \in EntrySeqs /\ StrictlySorted(Keys(Emitted))
  /\ merge.current = None => Emitted = <<>> /\ merge.heap # {}
  /\ merge.current # None =>
       /\ merge.current \in Key /\ merge.chunk # <<>>
       /\ \A p \in DOMAIN Emitted : Emitted[p].key <= merge.current
       /\ \A k \in Key : k <= merge.current => TableOf(Emitted)[k] = MergedLevels[k]

MergeShape ==
  /\ merge = [pc |-> merge.pc, readers |-> merge.readers, heap |-> merge.heap,
              current |-> merge.current, chunk |-> merge.chunk, new |-> merge.new]
  /\ merge.pc \in {"idle", "start", "loop"}
  /\ merge.pc # "loop" => merge.current = None /\ merge.chunk = <<>> /\ merge.new = <<>>
  /\ merge.pc = "start" => TablesOf(levels, 0) # <<>>

MergeInv == NamedFiles /\ MergeShape /\ OutputsGood /\ (merge.pc = "loop" => LoopInv)

\* All that the steps preserve.
DataInv == ManifestInv /\ MemTableInv /\ FilesShape

LEMMA EmittedIs ==
  /\ Emitted = FlattenSeq(WrittenChunks) \o merge.chunk
  /\ Emitted' = FlattenSeq(WrittenChunks') \o merge'.chunk
BY DEF Emitted, WrittenChunks, EntriesOf, BlocksOf

\* No merge has no outputs.
LEMMA NothingEmitted ==
  /\ merge.new = <<>> /\ merge.chunk = <<>> => OutputsGood /\ Emitted = <<>>
  /\ merge'.new = <<>> /\ merge'.chunk = <<>> => OutputsGood' /\ Emitted' = <<>>
<1>1. /\ merge.new = <<>> => WrittenChunks = <<>> /\ DOMAIN merge.new = {}
      /\ merge'.new = <<>> => WrittenChunks' = <<>> /\ DOMAIN merge'.new = {}
  BY DEF WrittenChunks
<1>2. <<>> \o <<>> = <<>> /\ <<>> \in EntrySeqs /\ Len(<<>>) = 0
  BY DEF EntrySeqs
<1>3. 0 <= FLUSH_THRESHOLD
  BY ThresholdsFitTables
<1>4. merge.new = <<>> /\ merge.chunk = <<>> => OutputsGood /\ Emitted = <<>>
  BY <1>1, <1>2, <1>3, EmittedIs, FlattenNone DEF OutputsGood
<1>5. merge'.new = <<>> /\ merge'.chunk = <<>> => OutputsGood' /\ Emitted' = <<>>
  BY <1>1, <1>2, <1>3, EmittedIs, FlattenNone DEF OutputsGood
<1> QED
  BY <1>4, <1>5

\* The named files are what the merge depends on.
LEMMA SameInputs ==
  ASSUME LevelsShape(levels), NamedFiles, levels' = levels,
         \A l \in 0..1 : \A i \in Numbers(TablesOf(levels, l)) : files'[l][i] = files[l][i]
  PROVE  /\ NamedFiles' /\ Inputs' = Inputs /\ InputFiles' = InputFiles
         /\ MergedLevels' = MergedLevels
<1>1. NamedFiles'
  BY DEF NamedFiles
<1>2. Inputs' = Inputs
  BY DEF Inputs, Reader
<1>3. InputFiles' = InputFiles
  <2>1. \A j \in DOMAIN Inputs :
          Inputs[j].level \in 0..1 /\ Inputs[j].idx \in Numbers(TablesOf(levels, Inputs[j].level))
    BY InputsNamed
  <2>2. \A j \in DOMAIN Inputs : files'[Inputs[j].level][Inputs[j].idx] = files[Inputs[j].level][Inputs[j].idx]
    BY <2>1
  <2>3. InputFiles' = [j \in DOMAIN Inputs |-> files'[Inputs[j].level][Inputs[j].idx]]
    BY <1>2 DEF InputFiles
  <2> QED
    BY <2>2, <2>3 DEF InputFiles
<1>4. MergedLevels' = MergedLevels
  <2> DEFINE l0 == TablesOf(levels, 0)
             l1 == TablesOf(levels, 1)
             names == [j \in DOMAIN l0 |-> l0[j].idx]
             d1 == [l \in 0..1 |-> Contents(l)]
             d2 == [l \in 0..1 |-> Contents(l)']
  <2>0. 0 \in 0..1 /\ 1 \in 0..1
    BY SMTT(60)
  <2>1. \A l \in 0..1 : \A i \in Idx : files'[l][i] = files[l][i] => Contents(l)'[i] = Contents(l)[i]
    BY SMTT(60) DEF Contents
  <2>2. \A l \in 0..1 : \A i \in Numbers(TablesOf(levels, l)) : d1[l][i] = d2[l][i]
    <3>1. \A l \in 0..1 : \A i \in Numbers(TablesOf(levels, l)) : i \in Idx
      BY NamedContents
    <3>2. \A l \in 0..1 : \A i \in Numbers(TablesOf(levels, l)) : Contents(l)'[i] = Contents(l)[i]
      BY <2>1, <3>1
    <3> QED
      BY <3>2
  <2>3. \A j \in DOMAIN l0 : l0[j].idx \in Numbers(l0) /\ l0[j].idx \in Idx
    BY <2>0, TableOnLevel
  <2>4. \A j \in DOMAIN l1 : l1[j].idx \in Numbers(l1)
    BY <2>0, TableOnLevel
  <2>5. DOMAIN l0 = 1..Len(l0) /\ Len(l0) \in Nat /\ (\E T : l1 \in Seq(T))
    BY <2>0, TableOnLevel
  <2>6. MergedLevels = Merged(names, l1, d1) /\ MergedLevels' = Merged(names, l1, d2)
    BY DEF MergedLevels
  <2> HIDE DEF d1, d2
  <2>7. /\ \A j \in DOMAIN l0 : d1[0][l0[j].idx] = d2[0][l0[j].idx]
        /\ \A j \in DOMAIN l1 : d1[1][l1[j].idx] = d2[1][l1[j].idx]
    BY <2>0, <2>2, <2>3, <2>4
  <2> HIDE DEF l0, l1
  <2>8. /\ names \in Seq(Idx) /\ DOMAIN names = DOMAIN l0 
        /\ \A j \in DOMAIN names : d1[0][names[j]] = d2[0][names[j]]
    BY <2>3, <2>5, <2>7
  <2> HIDE DEF names
  <2>9. Merged(names, l1, d1) = Merged(names, l1, d2)
    BY <2>5, <2>7, <2>8, MergedSameFiles
  <2> QED
    BY <2>6, <2>9
<1> QED
  BY <1>1, <1>2, <1>3, <1>4

\* Nothing the merge depends on changes.
LEMMA NothingChanges ==
  ASSUME DataInv, MergeInv, UNCHANGED <<files, levels, merge>>
  PROVE  MergeInv'
<1>1. /\ NamedFiles' /\ Inputs' = Inputs /\ InputFiles' = InputFiles
      /\ MergedLevels' = MergedLevels
  BY SameInputs DEF DataInv, ManifestInv, MergeInv
<1>2. MergeShape' /\ OutputsGood'
  <2>1. MergeShape'
    BY DEF MergeInv, MergeShape
  <2>2. OutputsGood'
    BY DEF MergeInv, OutputsGood
  <2> QED
    BY <2>1, <2>2
<1>3. Emitted' = Emitted
  <2>1. WrittenChunks' = WrittenChunks
    BY DEF WrittenChunks
  <2> QED
    BY <2>1, EmittedIs
<1>4. LoopInv => LoopInv'
  BY <1>1, <1>3 DEF LoopInv
<1> QED
  BY <1>1, <1>2, <1>4 DEF MergeInv

\* A flush: the new table of level 0 is a good one.
LEMMA FlushKeepsMerge == DataInv /\ MergeInv /\ Flush => MergeInv'
<1> SUFFICES ASSUME DataInv, MergeInv, Flush
             PROVE  MergeInv'
  OBVIOUS
<1> DEFINE i == NextIndex(Numbers(TablesOf(levels, 0)))
           t == [idx |-> i, range |-> NoRange]
           e == Entries(list)
<1>0. LevelsShape(levels) /\ FilesShape /\ MemTableInv
  BY DEF DataInv, ManifestInv
<1>1. /\ Idle /\ list.size = FLUSH_THRESHOLD /\ i \in Idx /\ Writable(e)
      /\ WriteFile(0, i, e) /\ levels' = WithTable(levels, 0, t)
      /\ merge' = merge \/ merge' = [merge EXCEPT !.pc = "start"]
  BY DEF Flush
<1>2. e \in EntrySeqs /\ Len(e) = FLUSH_THRESHOLD
  BY <1>0, <1>1, EntriesAreTheMap DEF MemTableInv
<1> HIDE DEF e
<1>3. GoodFile(TableFile(e))
  <2>1. Len(e) # 0
    BY <1>2, ThresholdsFitTables
  <2>2. e # <<>>
    BY <2>1
  <2> QED
    BY <1>1, <1>2, <2>2, WrittenGood
<1>4. /\ TablesOf(levels', 0) = Append(TablesOf(levels, 0), t)
      /\ TablesOf(levels', 1) = TablesOf(levels, 1)
      /\ TablesOf(levels, 0) \in Seq(AnyTable({NoRange}))
  BY <1>0, <1>1, FlushKeepsShape
<1>5. t \in AnyTable({NoRange})
  BY <1>1 DEF AnyTable
<1>6. /\ Numbers(TablesOf(levels', 0)) \subseteq Numbers(TablesOf(levels, 0)) \cup {i}
      /\ TablesOf(levels', 0) # <<>>
  <2> DEFINE t0 == TablesOf(levels, 0)
             t2 == TablesOf(levels', 0)
  <2>0. t.idx = i
    OBVIOUS
  <2> HIDE DEF i, t, t0, t2
  <2>1. /\ t2 # <<>> /\ Len(t0) \in Nat
        /\ DOMAIN t2 = 1..Len(t0) + 1 /\ t2[Len(t0) + 1] = t
        /\ DOMAIN t0 = 1..Len(t0) /\ \A j \in 1..Len(t0) : t2[j] = t0[j]
    <3>1. t2 = Append(t0, t) /\ t0 \in Seq(AnyTable({NoRange}))
      BY <1>4 DEF t0, t2
    <3> QED
      BY <1>5, <3>1, AppendAt
  <2>2. \A j \in 1..Len(t0) + 1 : j \in 1..Len(t0) \/ j = Len(t0) + 1
    BY <2>1
  <2>3. \A j \in DOMAIN t2 : t2[j].idx = i \/ \E h \in DOMAIN t0 : t2[j].idx = t0[h].idx
    BY <2>0, <2>1, <2>2
  <2>4. Numbers(t2) \subseteq Numbers(t0) \cup {i}
    BY <2>3 DEF Numbers
  <2> QED
    BY <2>1, <2>4 DEF t0, t2
<1> HIDE DEF i, t
<1>7. /\ files'[0][i] = TableFile(e) /\ files'[1] = files[1]
      /\ \A j \in Idx \ {i} : files'[0][j] = files[0][j]
  BY <1>0, <1>1 DEF WriteFile, FilesShape
<1>8. NamedFiles'
  <2> SUFFICES ASSUME NEW l \in 0..1, NEW j \in Numbers(TablesOf(levels', l))
               PROVE  GoodFile(files'[l][j])
    BY DEF NamedFiles
  <2>1. CASE l = 1
    <3>1. j \in Numbers(TablesOf(levels, 1))
      BY <1>4, <2>1
    <3> QED
      BY <1>7, <2>1, <3>1 DEF MergeInv, NamedFiles
  <2>2. CASE l = 0 /\ j = i
    BY <1>3, <1>7, <2>2
  <2>3. CASE l = 0 /\ j # i
    <3>1. j \in Numbers(TablesOf(levels, 0)) /\ 0 \in 0..1
      BY <1>6, <2>3
    <3>2. GoodFile(files[0][j])
      BY <3>1 DEF MergeInv, NamedFiles
    <3>3. j \in Idx
      BY <1>0, <3>1, TableOnLevel DEF Numbers
    <3> QED
      BY <1>7, <2>3, <3>2, <3>3
  <2> QED
    BY <2>1, <2>2, <2>3
<1>9. /\ merge'.pc \in {"idle", "start"} /\ merge'.current = None
      /\ merge'.chunk = <<>> /\ merge'.new = <<>>
      /\ merge' = [pc |-> merge'.pc, readers |-> merge'.readers, heap |-> merge'.heap,
                   current |-> merge'.current, chunk |-> merge'.chunk, new |-> merge'.new]
  <2>1. /\ merge = [pc |-> merge.pc, readers |-> merge.readers, heap |-> merge.heap,
                    current |-> merge.current, chunk |-> merge.chunk, new |-> merge.new]
        /\ merge.pc = "idle" /\ merge.current = None /\ merge.chunk = <<>> /\ merge.new = <<>>
    BY <1>1 DEF MergeInv, MergeShape, Idle
  <2>2. CASE merge' = merge
    BY <2>1, <2>2
  <2>3. CASE merge' = [merge EXCEPT !.pc = "start"]
    <3>1. merge' = [pc |-> "start", readers |-> merge.readers, heap |-> merge.heap,
                    current |-> merge.current, chunk |-> merge.chunk, new |-> merge.new]
      BY <2>1, <2>3
    <3> QED
      BY <2>1, <3>1
  <2> QED
    BY <1>1, <2>2, <2>3
<1>10. OutputsGood'
  BY <1>9, NothingEmitted
<1>11. MergeShape'
  BY <1>6, <1>9 DEF MergeShape
<1> QED
  BY <1>8, <1>9, <1>10, <1>11 DEF MergeInv

\* What does not fail to read is whole, and is what it says.
LEMMA BlockReads ==
  ASSUME NEW f, NEW b, ReadBlock(f, b) # ReadError
  PROVE  /\ Whole(f, b)
         /\ \A i \in DOMAIN f.blocks[b].slots : ReadBlock(f, b)[i] = Decode(f.blocks[b].slots[i])
BY SMTT(60) DEF ReadBlock, Whole

LEMMA ItemIs ==
  ASSUME NEW X, NEW R, NEW j, files[R[j].level][R[j].idx] = X[j],
         ReadBlock(X[j].table, R[j].block) # ReadError,
         R[j].at \in DOMAIN X[j].table.blocks[R[j].block].slots
  PROVE  Item(R, j) = ItemOf(X, R, j)
<1> DEFINE r == R[j]
           f == X[j].table
           c == f.blocks[r.block].slots[r.at]
<1>1. ReadBlock(f, r.block)[r.at] = Decode(c)
  BY SMTT(60), BlockReads
<1>2. FileOf(r) = f
  BY DEF FileOf
<1> HIDE DEF r, f
<1>3. EntryAt(r) = Decode(c)
  BY <1>1, <1>2 DEF EntryAt
<1>4. Decode(c).key = c.key
  BY DEF Decode
<1> HIDE DEF c
<1>5. Item(R, j) = [key |-> c.key, entry |-> Decode(c).entry, level |-> r.level, tableIndex |-> j]
  BY <1>3, <1>4 DEF Item, r
<1> QED
  BY ZenonT(60), <1>5 DEF ItemOf, c, r, f

LEMMA InputFileOf ==
  ASSUME NEW j \in DOMAIN Inputs
  PROVE  FileOf(Inputs[j]) = InputFiles[j].table
BY DEF FileOf, InputFiles

\* The merge starts with a reader at the first entry of every table.
LEMMA StartKeepsMerge == DataInv /\ MergeInv /\ StartMerge => MergeInv'
<1> SUFFICES ASSUME DataInv, MergeInv, StartMerge
             PROVE  MergeInv'
  OBVIOUS
<1> DEFINE R == [j \in DOMAIN Inputs |-> Advance(Inputs[j])]
           H == {Item(R, j) : j \in DOMAIN R}
<1>0. LevelsShape(levels) /\ NamedFiles
  BY DEF DataInv, ManifestInv, MergeInv
<1>1. /\ merge.pc = "start" /\ levels' = levels /\ files' = files
      /\ \A j \in DOMAIN Inputs : Opens(FileOf(Inputs[j])) /\ ~Fails(Inputs[j])
      /\ merge' = [merge EXCEPT !.pc = "loop", !.readers = R, !.heap = H]
  BY DEF StartMerge
<1>2. /\ merge = [pc |-> merge.pc, readers |-> merge.readers, heap |-> merge.heap,
                  current |-> merge.current, chunk |-> merge.chunk, new |-> merge.new]
      /\ merge.current = None /\ merge.chunk = <<>> /\ merge.new = <<>>
      /\ TablesOf(levels, 0) # <<>>
  BY <1>1 DEF MergeInv, MergeShape
<1> HIDE DEF R, H
<1>3. merge' = [pc |-> "loop", readers |-> R, heap |-> H, current |-> None, chunk |-> <<>>, new |-> <<>>]
  BY <1>1, <1>2
<1>4. /\ merge'.pc = "loop" /\ merge'.readers = R /\ merge'.heap = H /\ merge'.current = None
      /\ merge'.chunk = <<>> /\ merge'.new = <<>>
      /\ merge' = [pc |-> merge'.pc, readers |-> merge'.readers, heap |-> merge'.heap,
                   current |-> merge'.current, chunk |-> merge'.chunk, new |-> merge'.new]
  BY <1>3
<1>5. /\ NamedFiles' /\ Inputs' = Inputs /\ InputFiles' = InputFiles
  BY <1>0, <1>1, SameInputs
<1>6. OutputsGood' /\ Emitted' = <<>>
  BY <1>4, NothingEmitted
<1>7. MergeShape'
  BY <1>4 DEF MergeShape
<1>8. ASSUME NEW j \in DOMAIN Inputs
      PROVE  LET x == InputFiles[j] IN
             /\ GoodFile(x) /\ Len(x.table.blocks) = Len(x.table.index)
             /\ Whole(x.table, 1)
             /\ R[j] = [level |-> Inputs[j].level, idx |-> Inputs[j].idx, block |-> 1, at |-> 1]
             /\ Item(R, j) = ItemOf(InputFiles, R, j)
  <2> DEFINE x == InputFiles[j]
             l == Inputs[j].level
             i == Inputs[j].idx
             r == Inputs[j]
  <2>1. GoodFile(x) /\ r = [level |-> l, idx |-> i, block |-> 1, at |-> 0]
    BY <1>0, InputsNamed DEF Reader
  <2>2. FileOf(r) = x.table /\ x = files[l][i]
    BY InputFileOf DEF InputFiles
  <2>3. Opens(FileOf(r)) /\ ~Fails(r)
    BY <1>1
  <2>4. R[j] = Advance(r)
    BY DEF R
  <2> HIDE DEF x, r, l, i
  <2>5. r.block = 1 /\ r.at = 0 /\ [r EXCEPT !.at = @ + 1] = [level |-> l, idx |-> i, block |-> 1, at |-> 1]
    BY <2>1
  <2>6. Len(x.table.blocks) = Len(x.table.index)
    BY <2>2, <2>3 DEF Opens
  <2>7. /\ Len(x.table.blocks) \in Nat /\ 1 <= Len(x.table.blocks)
        /\ Len(x.table.blocks[1].slots) \in Nat \ {0}
        /\ DOMAIN x.table.blocks[1].slots = 1..Len(x.table.blocks[1].slots)
    <3>1. Len(x.table.index) \in Nat \ {0}
      BY <2>1, GoodCells
    <3>2. 1 \in 1..Len(x.table.blocks) /\ 1 <= Len(x.table.blocks) /\ Len(x.table.blocks) \in Nat
      BY SMTT(60), <2>6, <3>1
    <3> QED
      BY SMTT(60), <2>1, <3>2, FileCells
  <2>8. ~AtEnd(r)
    BY <2>2, <2>5, <2>7 DEF AtEnd
  <2>9. ReadBlock(x.table, 1) # ReadError
    BY <2>2, <2>3, <2>5, <2>8 DEF Fails
  <2>10. Whole(x.table, 1)
    BY <2>9, BlockReads
  <2>11. Advance(r) = [level |-> l, idx |-> i, block |-> 1, at |-> 1]
    <3>1. r.at < Len(FileOf(r).blocks[r.block].slots)
      BY SMTT(60), <2>2, <2>5, <2>7
    <3> QED
      BY SMTT(60), <2>5, <2>8, <3>1 DEF Advance
  <2>12. Item(R, j) = ItemOf(InputFiles, R, j)
    <3>1. R[j].level = l /\ R[j].idx = i /\ R[j].block = 1 /\ R[j].at = 1
      BY <2>4, <2>11
    <3>2. 1 \in DOMAIN x.table.blocks[1].slots
      BY <2>7
    <3>3. files[R[j].level][R[j].idx] = InputFiles[j]
      BY <2>2, <3>1 DEF x
    <3>4. ReadBlock(InputFiles[j].table, R[j].block) # ReadError
      BY <2>9, <3>1 DEF x
    <3>5. R[j].at \in DOMAIN InputFiles[j].table.blocks[R[j].block].slots
      BY <3>1, <3>2 DEF x
    <3> QED
      BY <3>3, <3>4, <3>5, ItemIs
  <2> QED
    BY <2>1, <2>4, <2>6, <2>10, <2>11, <2>12 DEF x, l, i, r
<1>9. DOMAIN R = DOMAIN Inputs
  BY DEF R
<1>10. H = {ItemOf(InputFiles, R, j) : j \in DOMAIN Inputs}
  BY <1>8, <1>9 DEF H
<1>11. ReadersGood(Inputs, InputFiles, R, H, None)
  BY <1>8, <1>9, <1>10, ReadersStart
<1>12. H # {}
  <2>1. 1 \in DOMAIN Inputs
    <3> DEFINE t == TablesOf(levels, 0)
    <3>1. (\E T : t \in Seq(T)) /\ t # <<>> /\ 0 \in 0..1
      BY <1>0, <1>2, TableOnLevel
    <3>2. Len(t) \in Nat \ {0}
      <4> HIDE DEF t
      <4> QED
        BY <3>1
    <3>3. /\ Len(TablesOf(levels, 1)) \in Nat
          /\ DOMAIN Inputs = 1..Len(t) + Len(TablesOf(levels, 1))
      BY <1>0, InputsListed
    <3> HIDE DEF t
    <3> QED
      BY <3>2, <3>3
  <2> QED
    BY <1>10, <2>1
<1>13. <<>> \in EntrySeqs /\ StrictlySorted(Keys(<<>>))
  BY DEF EntrySeqs, StrictlySorted, Keys
<1>14. LoopInv'
  BY <1>4, <1>5, <1>6, <1>11, <1>12, <1>13 DEF LoopInv
<1> QED
  BY <1>4, <1>5, <1>6, <1>7, <1>14 DEF MergeInv

\* A merge that is given up removes outputs only.
LEMMA AbortKeepsMerge == DataInv /\ MergeInv /\ Abort => MergeInv'
<1> SUFFICES ASSUME DataInv, MergeInv, Abort
             PROVE  MergeInv'
  OBVIOUS
<1>0. LevelsShape(levels) /\ NamedFiles /\ FilesShape
  BY DEF DataInv, ManifestInv, MergeInv
<1>1. /\ merge' = NoMerge /\ levels' = levels
      /\ files' = [files EXCEPT ![1] = [i \in Idx |->
                     IF i \in Numbers(merge.new) THEN NoFile ELSE @[i]]]
  BY DEF Abort
<1>2. /\ merge'.pc = "idle" /\ merge'.current = None /\ merge'.chunk = <<>> /\ merge'.new = <<>>
      /\ merge' = [pc |-> merge'.pc, readers |-> merge'.readers, heap |-> merge'.heap,
                   current |-> merge'.current, chunk |-> merge'.chunk, new |-> merge'.new]
  BY <1>1 DEF NoMerge
<1>3. ASSUME NEW l \in 0..1, NEW i \in Numbers(TablesOf(levels, l))
      PROVE  files'[l][i] = files[l][i]
  <2>1. i \in Idx
    BY <1>0, NamedContents
  <2>2. CASE l = 0
    BY <1>0, <1>1, <2>2 DEF FilesShape
  <2>3. CASE l = 1
    <3>1. i \notin Numbers(merge.new)
      BY <2>3 DEF MergeInv, OutputsGood, Numbers
    <3> QED
      BY <1>0, <1>1, <2>1, <2>3, <3>1 DEF FilesShape
  <2> QED
    BY <2>2, <2>3
<1>4. NamedFiles'
  BY <1>0, <1>1, <1>3, SameInputs
<1>5. OutputsGood'
  BY <1>2, NothingEmitted
<1>6. MergeShape'
  BY <1>2 DEF MergeShape
<1> QED
  BY <1>2, <1>4, <1>5, <1>6 DEF MergeInv

\* Damage leaves a good file: what it has is in order, and does not read back
\* where it is garbage.
LEMMA DamageKeepsMerge == DataInv /\ MergeInv /\ Damage => MergeInv'
<1> SUFFICES ASSUME DataInv, MergeInv, Damage
             PROVE  MergeInv'
  OBVIOUS
<1>0. LevelsShape(levels) /\ NamedFiles /\ FilesShape
  BY DEF DataInv, ManifestInv, MergeInv
<1> DEFINE Bad(f, b) == [f EXCEPT !.blocks[b].slots[1].slot = Garbage]
           Short(f) == [f EXCEPT !.blocks = Front(@)]
<1>1. /\ Idle /\ levels' = levels /\ merge' = merge
      /\ \A l \in 0..1, i \in Idx : files[l][i] # NoFile => Intact(files[l][i].table)
  BY ZenonT(60) DEF Damage
<1>2. \E p, b : \/ files' = [files EXCEPT ![p[1]][p[2]].table = Bad(files[p[1]][p[2]].table, b)]
                \/ files' = [files EXCEPT ![p[1]][p[2]].table = Short(files[p[1]][p[2]].table)]
  <2>1. \E k \in Key :
          LET p == Places(k)[Hit(k)]
              file == files[p[1]][p[2]].table
              b == CHOOSE j \in DOMAIN file.blocks :
                     \E i \in DOMAIN file.blocks[j].slots : file.blocks[j].slots[i].key = k
          IN  \/ files' = [files EXCEPT ![p[1]][p[2]].table = Bad(file, b)]
              \/ files' = [files EXCEPT ![p[1]][p[2]].table = Short(file)]
    BY ZenonT(60) DEF Damage
  <2>2. PICK k \in Key :
          LET p == Places(k)[Hit(k)]
              file == files[p[1]][p[2]].table
              b == CHOOSE j \in DOMAIN file.blocks :
                     \E i \in DOMAIN file.blocks[j].slots : file.blocks[j].slots[i].key = k
          IN  \/ files' = [files EXCEPT ![p[1]][p[2]].table = Bad(file, b)]
              \/ files' = [files EXCEPT ![p[1]][p[2]].table = Short(file)]
    BY ZenonT(60), <2>1
  <2> DEFINE p == Places(k)[Hit(k)]
             f == files[p[1]][p[2]].table
             b == CHOOSE j \in DOMAIN f.blocks :
                    \E i \in DOMAIN f.blocks[j].slots : f.blocks[j].slots[i].key = k
  <2> HIDE DEF Bad, Short
  <2>3. \/ files' = [files EXCEPT ![p[1]][p[2]].table = Bad(f, b)]
        \/ files' = [files EXCEPT ![p[1]][p[2]].table = Short(f)]
    BY <2>2, ZenonT(60)
  <2> HIDE DEF b, p
  <2> QED
    BY <2>3
<1>3. PICK p, b : \/ files' = [files EXCEPT ![p[1]][p[2]].table = Bad(files[p[1]][p[2]].table, b)]
                  \/ files' = [files EXCEPT ![p[1]][p[2]].table = Short(files[p[1]][p[2]].table)]
  BY ZenonT(60), <1>2
<1>4. ASSUME NEW l \in 0..1, NEW i \in Idx, NEW t, files' = [files EXCEPT ![p[1]][p[2]].table = t]
      PROVE  files'[l][i] = files[l][i] \/ (l = p[1] /\ i = p[2] /\ files'[l][i] = [files[l][i] EXCEPT !.table = t])
  <2>1. l \in DOMAIN files /\ i \in DOMAIN files[l]
    BY <1>0 DEF FilesShape
  <2>2. CASE l # p[1]
    BY <1>4, <2>1, <2>2
  <2>3. CASE l = p[1] /\ i # p[2]
    BY <1>4, <2>1, <2>3
  <2>4. CASE l = p[1] /\ i = p[2]
    BY SMTT(60), <1>4, <2>1, <2>4
  <2> QED
    BY <2>2, <2>3, <2>4
<1>5. ASSUME NEW x, GoodFile(x), Intact(x.table)
      PROVE  /\ GoodFile([x EXCEPT !.table = Bad(x.table, b)])
             /\ GoodFile([x EXCEPT !.table = Short(x.table)])
  <2>1. \A c \in DOMAIN x.table.blocks : x.table.blocks[c].crc = x.table.blocks[c].slots
    BY SMTT(60), <1>5 DEF Intact, ReadBlock
  <2>2. GoodFile([x EXCEPT !.table = Bad(x.table, b)])
    BY <1>5, <2>1, GarbledStaysGood
  <2>3. GoodFile([x EXCEPT !.table = Short(x.table)])
    BY <1>5, ShortStaysGood
  <2> QED
    BY <2>2, <2>3
<1> HIDE DEF Bad, Short
<1>6. ASSUME NEW l \in 0..1, NEW i \in Numbers(TablesOf(levels, l))
      PROVE  GoodFile(files'[l][i])
  <2>1. i \in Idx /\ GoodFile(files[l][i])
    BY <1>0, NamedContents DEF NamedFiles
  <2>2. Intact(files[l][i].table)
    <3>1. files[l][i] # NoFile
      BY <2>1, NothingIsNoData DEF GoodFile
    <3> QED
      BY <1>1, <2>1, <3>1
  <2>3. CASE files' = [files EXCEPT ![p[1]][p[2]].table = Bad(files[p[1]][p[2]].table, b)]
    <3>1. \/ files'[l][i] = files[l][i]
          \/ l = p[1] /\ i = p[2] /\ files'[l][i] = [files[l][i] EXCEPT !.table = Bad(files[p[1]][p[2]].table, b)]
      BY <1>4, <2>1, <2>3
    <3> DEFINE x == files[l][i]
    <3>2. GoodFile(x) /\ Intact(x.table)
      BY <2>1, <2>2
    <3>3. files'[l][i] = x \/ files'[l][i] = [x EXCEPT !.table = Bad(x.table, b)]
      BY <3>1
    <3> HIDE DEF x
    <3>4. GoodFile([x EXCEPT !.table = Bad(x.table, b)])
      BY <1>5, <3>2
    <3> QED
      BY SMTT(60), <3>2, <3>3, <3>4
  <2>4. CASE files' = [files EXCEPT ![p[1]][p[2]].table = Short(files[p[1]][p[2]].table)]
    <3>1. \/ files'[l][i] = files[l][i]
          \/ l = p[1] /\ i = p[2] /\ files'[l][i] = [files[l][i] EXCEPT !.table = Short(files[p[1]][p[2]].table)]
      BY <1>4, <2>1, <2>4
    <3> DEFINE x == files[l][i]
    <3>2. GoodFile(x) /\ Intact(x.table)
      BY <2>1, <2>2
    <3>3. files'[l][i] = x \/ files'[l][i] = [x EXCEPT !.table = Short(x.table)]
      BY <3>1
    <3> HIDE DEF x
    <3>4. GoodFile([x EXCEPT !.table = Short(x.table)])
      BY <1>5, <3>2
    <3> QED
      BY <3>2, <3>3, <3>4
  <2> QED
    BY <1>3, <2>3, <2>4
<1>7. NamedFiles'
  BY <1>1, <1>6 DEF NamedFiles
<1>8. MergeShape' /\ merge'.pc # "loop"
  BY <1>1 DEF MergeInv, MergeShape, Idle
<1>9. OutputsGood'
  <2>1. merge'.new = <<>> /\ merge'.chunk = <<>>
    BY <1>8 DEF MergeShape
  <2> QED
    BY <2>1, NothingEmitted
<1> QED
  BY <1>7, <1>8, <1>9 DEF MergeInv

-----------------------------------------------------------------------------
(***************************************************************************)
(* A turn of the loop.                                                     *)
(***************************************************************************)
At(l, i, b, p) == [level |-> l, idx |-> i, block |-> b, at |-> p]

\* Where advance comes to.
LEMMA AdvanceIs ==
  ASSUME NEW l, NEW i, NEW b, NEW p, b \in Nat, p \in Nat,
         Len(files[l][i].table.blocks) \in Nat, b <= Len(files[l][i].table.blocks)
  PROVE  Advance(At(l, i, b, p)) =
           IF p < Len(files[l][i].table.blocks[b].slots) THEN At(l, i, b, p + 1)
           ELSE At(l, i, b + 1, 1)
<1> DEFINE q == At(l, i, b, p)
           f == files[l][i].table
<1>1. q.level = l /\ q.idx = i /\ q.block = b /\ q.at = p
  BY DEF At
<1>2. \A u : [q EXCEPT !.at = u] = At(l, i, b, u)
  BY DEF At
<1>3. \A u, v : [q EXCEPT !.block = u, !.at = v] = At(l, i, u, v)
  <2>1. \A u : [q EXCEPT !.block = u] = [level |-> l, idx |-> i, block |-> u, at |-> p]
    BY DEF At
  <2>2. \A u, v : [[level |-> l, idx |-> i, block |-> u, at |-> p] EXCEPT !.at = v]
                    = [level |-> l, idx |-> i, block |-> u, at |-> v]
    OBVIOUS
  <2> QED
    BY ONLY <2>1, <2>2 DEF At
<1>4. FileOf(q) = f
  BY <1>1 DEF FileOf
<1> HIDE DEF q
<1>5. b \in Nat /\ Len(f.blocks) \in Nat /\ b <= Len(f.blocks)
  OBVIOUS
<1> HIDE DEF f
<1>6. ~AtEnd(q)
  BY ONLY <1>1, <1>4, <1>5 DEF AtEnd
<1>7. Advance(q) = IF p < Len(f.blocks[b].slots) THEN At(l, i, b, p + 1) ELSE At(l, i, b + 1, 1)
  BY ONLY ZenonT(60), <1>1, <1>2, <1>3, <1>4, <1>6 DEF Advance
<1> QED
  BY <1>7 DEF q, f

\* The reader of the least entry moves on, and so does the heap.
LEMMA ReaderMoves ==
  ASSUME LevelsShape(levels), NamedFiles, LoopInv, merge.heap # {}, merge.current \in Key \cup {None},
         NEW a, a = Least(merge.heap), NEW j, j = a.tableIndex,
         NEW r, r = Advance(merge.readers[j]), ~Fails(r),
         NEW Q, Q = [merge.readers EXCEPT ![j] = r],
         NEW G, G = (merge.heap \ {a}) \cup (IF AtEnd(r) THEN {} ELSE {Item(Q, j)})
  PROVE  ReadersGood(Inputs, InputFiles, Q, G, a.key)
<1> DEFINE X == InputFiles
           R == merge.readers
           H == merge.heap
           cur == merge.current
           f == X[j].table
           l == Inputs[j].level
           i == Inputs[j].idx
<1>1. InputSeq(Inputs) /\ ReadersGood(Inputs, X, R, H, cur) /\ cur \in Key \cup {None}
  BY InputsNamed DEF LoopInv
<1>2. j \in DOMAIN Inputs /\ Live(X, R, j)
  <2> HIDE DEF X, R, H, cur
  <2>1. H # {} /\ a = Least(H)
    BY DEF H
  <2> QED
    BY <1>1, <2>1, FirstWins
<1>3. /\ GoodFile(X[j]) /\ X[j] = files[l][i] /\ j \in DOMAIN R
      /\ R[j] = [level |-> l, idx |-> i, block |-> R[j].block, at |-> R[j].at]
      /\ ReaderAt(f, R[j].block, R[j].at, cur) /\ R[j].block <= Len(f.blocks)
  BY ZenonT(60), <1>1, <1>2 DEF ReadersGood, Live, InputFiles
<1> HIDE DEF X, cur, l, i
<1>4. PICK c, p : /\ R[j] = [level |-> l, idx |-> i, block |-> c, at |-> p]
                  /\ ReaderAt(f, c, p, cur) /\ c <= Len(f.blocks)
  BY <1>3
<1> HIDE DEF R
<1>5. R[j].block = c /\ R[j].at = p
  BY SMTT(60), <1>4
<1> DEFINE here == p < Len(f.blocks[c].slots)
           b == IF here THEN c ELSE c + 1
           at == IF here THEN p + 1 ELSE 1
<1>6. /\ Len(f.blocks) \in Nat
      /\ \A d \in 1..Len(f.blocks) : /\ Len(f.blocks[d].slots) \in Nat \ {0}
                                     /\ DOMAIN f.blocks[d].slots = 1..Len(f.blocks[d].slots)
  <2>1. GoodFile(X[j])
    BY <1>3
  <2> QED
    BY ZenonT(60), <2>1, FileCells
<1> HIDE DEF f
<1>7. c \in 1..Len(f.blocks) /\ p \in Nat \ {0}
  BY SMTT(60), <1>4, <1>6 DEF ReaderAt
<1>8. /\ b \in Nat /\ b \in 1..Len(f.blocks) + 1
      /\ IF here THEN b = c /\ at = p + 1 ELSE b = c + 1 /\ at = 1
      /\ b <= Len(f.blocks) => at \in DOMAIN f.blocks[b].slots
  <2>1. CASE here
    <3>1. b = c /\ at = p + 1
      BY <2>1
    <3>2. at \in DOMAIN f.blocks[c].slots
      BY <1>6, <1>7, <2>1, <3>1
    <3> HIDE DEF b, at
    <3> QED
      BY <1>6, <1>7, <2>1, <3>1, <3>2
  <2>2. CASE ~here
    <3>1. b = c + 1 /\ at = 1
      BY <2>2
    <3> HIDE DEF b, at, here
    <3>2. b \in Nat /\ b \in 1..Len(f.blocks) + 1
      BY <1>6, <1>7, <3>1
    <3>3. b <= Len(f.blocks) => at \in DOMAIN f.blocks[b].slots
      BY <1>6, <3>1, <3>2
    <3> QED
      BY <2>2, <3>1, <3>2, <3>3
  <2> QED
    BY <2>1, <2>2
<1>9. r = [level |-> l, idx |-> i, block |-> b, at |-> at]
  <2>1. Advance(R[j]) = IF here THEN At(l, i, c, p + 1) ELSE At(l, i, c + 1, 1)
    <3>1. c \in Nat /\ p \in Nat /\ c <= Len(f.blocks)
      BY <1>6, <1>7
    <3>2. files[l][i].table = f
      BY <1>3 DEF f
    <3>3. R[j] = At(l, i, c, p)
      BY <1>4 DEF At
    <3> QED
      BY ONLY <1>6, <3>1, <3>2, <3>3, AdvanceIs DEF here
  <2> QED
    BY <2>1 DEF R, At
<1> HIDE DEF b, at, here
<1>10. r.block = b /\ r.at = at /\ r.level = l /\ r.idx = i
  BY ONLY SMTT(60), <1>9
<1>11. FileOf(r) = f
  BY <1>3, <1>10 DEF FileOf, f
<1>12. AtEnd(r) <=> ~(b <= Len(f.blocks))
  BY SMTT(60), <1>6, <1>8, <1>10, <1>11 DEF AtEnd
<1>13. b <= Len(f.blocks) => ReadBlock(f, b) # ReadError
  BY <1>10, <1>11, <1>12 DEF Fails
<1>14. b <= Len(f.blocks) => Whole(f, b)
  BY SMTT(60), <1>13, BlockReads
<1>15. Q[j] = r
  BY SMTT(60), <1>3 DEF R
<1>16. b <= Len(f.blocks) => Item(Q, j) = ItemOf(X, Q, j)
  <2> SUFFICES ASSUME b <= Len(f.blocks)
               PROVE  Item(Q, j) = ItemOf(X, Q, j)
    BY SMTT(60)
  <2>1. files[Q[j].level][Q[j].idx] = X[j]
    BY SMTT(60), <1>3, <1>10, <1>15
  <2>2. ReadBlock(X[j].table, Q[j].block) # ReadError
    BY SMTT(60), <1>10, <1>13, <1>15 DEF f
  <2>3. Q[j].at \in DOMAIN X[j].table.blocks[Q[j].block].slots
    BY ZenonT(60), <1>8, <1>10, <1>15 DEF f
  <2> QED
    BY ONLY <2>1, <2>2, <2>3, ItemIs
<1>17. G = (H \ {a}) \cup (IF b <= Len(f.blocks) THEN {ItemOf(X, Q, j)} ELSE {})
  BY <1>12, <1>16
<1>18. Q = [R EXCEPT ![j] = [level |-> Inputs[j].level, idx |-> Inputs[j].idx, block |-> b, at |-> at]]
  BY SMTT(60), <1>9 DEF R, l, i
<1>19. /\ IF R[j].at < Len(X[j].table.blocks[R[j].block].slots)
          THEN b = R[j].block /\ at = R[j].at + 1 ELSE b = R[j].block + 1 /\ at = 1
       /\ b <= Len(X[j].table.blocks) => Whole(X[j].table, b)
       /\ G = (H \ {a}) \cup (IF b <= Len(X[j].table.blocks) THEN {ItemOf(X, Q, j)} ELSE {})
       /\ H # {} /\ a = Least(H)
  BY SMTT(60), <1>5, <1>8, <1>14, <1>17 DEF f, here
<1>20. MovesOn(Inputs, X, R, H, Q, G)
  BY ZenonT(60), <1>18, <1>19 DEF MovesOn
<1>21. ReadersGood(Inputs, X, Q, G, Least(H).key)
  <2> HIDE DEF H
  <2> QED
    BY <1>1, <1>19, <1>20, ReadersAdvance
<1> QED
  BY <1>19, <1>21 DEF X

\* The entry that comes next is the one of Merged, and the keys that are passed
\* over have none.
LEMMA NextIsMerged ==
  ASSUME LevelsShape(levels), NamedFiles, LoopInv, merge.heap # {}, merge.current \in Key \cup {None},
         NEW a, a = Least(merge.heap)
  PROVE  /\ a.key \in Key /\ a.entry \in Entry
         /\ merge.current = None \/ merge.current <= a.key
         /\ a.key # merge.current => MergedLevels[a.key] = a.entry
         /\ \A k \in Key : (merge.current = None \/ merge.current < k) /\ k < a.key => MergedLevels[k] = None
<1> DEFINE X == InputFiles
           R == merge.readers
           H == merge.heap
           cur == merge.current
           j == a.tableIndex
<1>1. InputSeq(Inputs) /\ ReadersGood(Inputs, X, R, H, cur) /\ cur \in Key \cup {None} /\ H # {}
  BY InputsNamed DEF LoopInv
<1>2. a = Least(H)
  OBVIOUS
<1> HIDE DEF X, R, H, cur
<1>3. /\ j \in DOMAIN Inputs /\ a.key \in Key /\ a.entry \in Entry /\ (cur = None \/ cur <= a.key)
      /\ Content(X[j])[a.key] = a.entry
      /\ \A k \in Key : (cur = None \/ cur < k) /\ k < a.key =>
           \A i \in DOMAIN Inputs : Content(X[i])[k] = None
      /\ \A i \in DOMAIN Inputs \ {j} : a.key # cur /\ Content(X[i])[a.key] # None =>
           Inputs[j].level < Inputs[i].level \/ (Inputs[j].level = Inputs[i].level /\ j > i)
  BY <1>1, <1>2, FirstWins
<1>4. a.entry # None
  BY <1>3, SentinelsDiffer DEF Entry
<1>5. a.key # cur => MergedLevels[a.key] = a.entry
  BY <1>3, <1>4, MergedByInputs DEF X
<1>6. \A k \in Key : (cur = None \/ cur < k) /\ k < a.key => MergedLevels[k] = None
  BY <1>3, MergedByInputs DEF X
<1> QED
  BY <1>3, <1>5, <1>6 DEF cur

\* With the entry that comes next, if its key is new, the output is that of
\* Merged up to this key.
LEMMA OutputGrows ==
  ASSUME LevelsShape(levels), NamedFiles, LoopInv, merge.heap # {}, merge.current \in Key \cup {None},
         NEW a, a = Least(merge.heap),
         NEW e, IF Fresh(a) THEN e = Append(Emitted, [key |-> a.key, entry |-> a.entry]) ELSE e = Emitted
  PROVE  /\ e \in EntrySeqs /\ StrictlySorted(Keys(e))
         /\ \A p \in DOMAIN e : e[p].key <= a.key
         /\ \A k \in Key : k <= a.key => TableOf(e)[k] = MergedLevels[k]
<1> DEFINE cur == merge.current
           es == Emitted
           r == [key |-> a.key, entry |-> a.entry]
<1>1. /\ a.key \in Key /\ a.entry \in Entry /\ (cur = None \/ cur <= a.key)
      /\ a.key # cur => MergedLevels[a.key] = a.entry
      /\ \A k \in Key : (cur = None \/ cur < k) /\ k < a.key => MergedLevels[k] = None
  BY NextIsMerged
<1>2. /\ es \in EntrySeqs /\ StrictlySorted(Keys(es)) /\ cur \in Key \cup {None}
      /\ cur = None => es = <<>>
      /\ cur # None => /\ cur \in Key /\ \A p \in DOMAIN es : es[p].key <= cur
                       /\ \A k \in Key : k <= cur => TableOf(es)[k] = MergedLevels[k]
  BY DEF LoopInv
<1>3. Fresh(a) <=> a.key # cur
  BY DEF Fresh
<1>4. \A p \in DOMAIN es : es[p].key \in Key /\ es[p] \in [key : Key, entry : Entry]
  <2> HIDE DEF es
  <2>1. \A p \in DOMAIN es : es[p] \in [key : Key, entry : Entry]
    BY <1>2, SeqMember DEF EntrySeqs
  <2> QED
    BY <2>1
<1>5. IF Fresh(a) THEN e = Append(es, r) ELSE e = es
  OBVIOUS
<1>6. \A k \in Key : k \in Int
  BY KeysAreOrdered
<1>7. r \in [key : Key, entry : Entry] /\ r.key = a.key /\ r.entry = a.entry
  BY <1>1
<1> HIDE DEF es, cur, r
<1>8. CASE a.key = cur
  <2>1. e = es /\ cur # None
    BY <1>1, <1>3, <1>5, <1>8, NothingIsNoData
  <2> QED
    BY <1>2, <1>8, <2>1
<1>9. CASE a.key # cur
  <2>1. e = Append(es, r)
    BY <1>3, <1>5, <1>9
  <2>2. cur # None => cur < a.key /\ cur \in Int
    BY <1>1, <1>2, <1>6, <1>9
  <2> DEFINE x == a.key
  <2>9. x \in Int /\ r.key = x /\ \A p \in DOMAIN es : es[p].key \in Int
    BY <1>1, <1>4, <1>6, <1>7
  <2> HIDE DEF x
  <2>3. \A p \in DOMAIN es : es[p].key < r.key
    <3>1. CASE cur = None
      BY <1>2, <3>1
    <3>2. CASE cur # None
      <4>1. /\ cur < x /\ cur \in Int
            /\ \A p \in DOMAIN es : es[p].key <= cur
        BY <1>2, <2>2, <3>2 DEF x
      <4> QED
        BY <2>9, <4>1
    <3> QED
      BY <3>1, <3>2
  <2>4. /\ Append(es, r) \in EntrySeqs /\ StrictlySorted(Keys(Append(es, r)))
        /\ \A p \in DOMAIN Append(es, r) : Append(es, r)[p].key <= r.key
        /\ TableOf(Append(es, r))[r.key] = r.entry
        /\ \A k \in Key \ {r.key} : TableOf(Append(es, r))[k] = TableOf(es)[k]
    BY <1>2, <1>7, <2>3, KeptAtTheEnd
  <2>5. ASSUME NEW k \in Key, k <= a.key
        PROVE  TableOf(e)[k] = MergedLevels[k]
    <3>1. CASE k = a.key
      BY <1>1, <1>7, <1>9, <2>1, <2>4, <3>1
    <3>2. CASE k # a.key /\ (cur # None /\ k <= cur)
      BY <1>2, <1>7, <2>1, <2>4, <3>2
    <3>3. CASE k # a.key /\ ~(cur # None /\ k <= cur)
      <4>0. k \in Int /\ (cur # None => cur \in Int)
        BY <1>6, <2>2
      <4>1. k < x /\ (cur = None \/ cur < k)
        <5>1. k <= x /\ k # x
          BY <2>5, <3>3 DEF x
        <5> QED
          BY <2>9, <3>3, <4>0, <5>1
      <4>2. \A p \in DOMAIN es : es[p].key # k
        <5>1. CASE cur = None
          BY <1>2, <5>1
        <5>2. CASE cur # None
          <6>1. cur < k /\ \A p \in DOMAIN es : es[p].key <= cur
            BY <1>2, <4>1, <5>2
          <6> QED
            BY <2>9, <4>0, <5>2, <6>1
        <5> QED
          BY <5>1, <5>2
      <4>3. TableOf(es)[k] = None
        BY <1>2, <4>2, TableHasWhatIsListed
      <4> QED
        BY SMTT(60), <1>1, <1>7, <2>1, <2>4, <3>3, <4>1, <4>3 DEF x
    <3> QED
      BY <3>1, <3>2, <3>3
  <2> QED
    BY <1>7, <2>1, <2>4, <2>5
<1> QED
  BY <1>8, <1>9

LEMMA GoodIsAFile ==
  ASSUME NEW x, GoodFile(x)
  PROVE  x # NoFile
BY NothingIsNoData DEF GoodFile

\* A full chunk reads back.
LEMMA FullFileReads ==
  ASSUME NEW x, FullFile(x)
  PROVE  /\ GoodFile(x) /\ x # NoFile
         /\ EntriesOf(x.table) \in EntrySeqs /\ Len(EntriesOf(x.table)) = FLUSH_THRESHOLD
         /\ StrictlySorted(Keys(EntriesOf(x.table)))
<1>1. PICK c \in EntrySeqs : Writable(c) /\ Len(c) = FLUSH_THRESHOLD /\ x = TableFile(c)
  BY DEF FullFile
<1>2. c # <<>>
  <2>1. Len(c) # 0
    BY <1>1, ThresholdsFitTables
  <2> QED
    BY <2>1
<1>3. GoodFile(TableFile(c)) /\ EntriesOf(TableFile(c).table) = c
  BY <1>1, <1>2, WrittenGood
<1>4. StrictlySorted(Keys(c))
  BY <1>1 DEF Writable
<1> QED
  BY <1>1, <1>3, <1>4, GoodIsAFile

\* The next chunk is of a number that neither the levels nor the outputs have.
LEMMA ChunkIsApart ==
  ASSUME NamedFiles, OutputsGood, FreeNumbers # {}
  PROVE  /\ ChunkTable.idx \notin Numbers(TablesOf(levels, 1))
         /\ \A j \in DOMAIN merge.new : merge.new[j].idx # ChunkTable.idx
<1>1. files[1][ChunkTable.idx] = NoFile /\ 1 \in 0..1
  BY ChunkNumber
<1>2. \A i \in Numbers(TablesOf(levels, 1)) : files[1][i] # NoFile
  BY <1>1, GoodIsAFile DEF NamedFiles
<1>3. \A j \in DOMAIN merge.new : files[1][merge.new[j].idx] # NoFile
  BY FullFileReads DEF OutputsGood
<1> QED
  BY <1>1, <1>2, <1>3

LEMMA ChunksListed ==
  ASSUME OutputsGood, \E Rs : merge.new \in Seq(AnyTable(Rs))
  PROVE  /\ WrittenChunks \in Seq(EntrySeqs)
         /\ Len(merge.new) \in Nat /\ DOMAIN merge.new = 1..Len(merge.new)
         /\ Len(WrittenChunks) = Len(merge.new)
<1>1. Len(merge.new) \in Nat /\ DOMAIN merge.new = 1..Len(merge.new)
  OBVIOUS
<1>2. \A j \in DOMAIN merge.new : EntriesOf(files[1][merge.new[j].idx].table) \in EntrySeqs
  BY FullFileReads DEF OutputsGood
<1> HIDE DEF EntrySeqs
<1>3. WrittenChunks = [j \in 1..Len(merge.new) |-> EntriesOf(files[1][merge.new[j].idx].table)]
  BY <1>1 DEF WrittenChunks
<1>4. \A j \in 1..Len(merge.new) : EntriesOf(files[1][merge.new[j].idx].table) \in EntrySeqs
  BY <1>1, <1>2
<1>5. WrittenChunks \in [1..Len(merge.new) -> EntrySeqs]
  BY <1>3, <1>4
<1> QED
  BY <1>1, <1>5

\* A chunk that is written joins the ones before it.
LEMMA ChunkJoins ==
  ASSUME OutputsGood, NamedFiles, FilesShape, \E Rs : merge.new \in Seq(AnyTable(Rs)),
         FreeNumbers # {}, Writable(merge.chunk), merge.chunk # <<>>,
         WriteFile(1, ChunkTable.idx, merge.chunk),
         merge'.new = Append(merge.new, ChunkTable)
  PROVE  /\ WrittenChunks' = Append(WrittenChunks, merge.chunk)
         /\ FlattenSeq(WrittenChunks') = Emitted
         /\ \A j \in DOMAIN merge.new :
              merge'.new[j] = merge.new[j] /\ files'[1][merge.new[j].idx] = files[1][merge.new[j].idx]
         /\ DOMAIN merge'.new = DOMAIN merge.new \cup {Len(merge.new) + 1}
         /\ merge'.new[Len(merge.new) + 1] = ChunkTable
         /\ files'[1][ChunkTable.idx] = TableFile(merge.chunk)
<1> DEFINE n == ChunkTable.idx
           m == Len(merge.new)
           es == merge.chunk
           W == WrittenChunks
<1>1. /\ files'[1][n] = TableFile(es)
      /\ \A i \in Idx \ {n} : files'[1][i] = files[1][i]
      /\ n \in Idx
  BY ChunkNumber DEF WriteFile, FilesShape
<1>2. W \in Seq(EntrySeqs) /\ m \in Nat /\ DOMAIN merge.new = 1..m /\ Len(W) = m
  BY ChunksListed
<1>3. /\ DOMAIN merge'.new = 1..m + 1 /\ merge'.new[m + 1] = ChunkTable
      /\ \A j \in 1..m : merge'.new[j] = merge.new[j]
  <2>1. PICK Rs : merge.new \in Seq(AnyTable(Rs))
    OBVIOUS
  <2> DEFINE t == ChunkTable
             q == merge.new
  <2> HIDE DEF t, q
  <2>2. q \in Seq(AnyTable(Rs))
    BY <2>1 DEF q
  <2>3. LET s == Append(q, t) IN DOMAIN s = 1..Len(q) + 1 /\ s[Len(q) + 1] = t /\ \A j \in 1..Len(q) : s[j] = q[j]
    BY <2>2
  <2> QED
    BY <2>3 DEF t, q
<1>4. \A j \in DOMAIN merge.new : merge.new[j].idx \in Idx /\ merge.new[j].idx # n
  <2>1. PICK Rs : merge.new \in Seq(AnyTable(Rs))
    OBVIOUS
  <2>2. \A j \in DOMAIN merge.new : merge.new[j] \in AnyTable(Rs)
    BY <2>1, SeqMember
  <2>3. \A j \in DOMAIN merge.new : merge.new[j].idx \in Idx
    BY <2>2 DEF AnyTable
  <2> QED
    BY <2>3, ChunkIsApart
<1>5. \A j \in DOMAIN merge.new :
        merge'.new[j] = merge.new[j] /\ files'[1][merge.new[j].idx] = files[1][merge.new[j].idx]
  BY <1>1, <1>2, <1>3, <1>4
<1>6. EntriesOf(TableFile(es).table) = es /\ es \in EntrySeqs
  BY WrittenGood DEF OutputsGood
<1>7. WrittenChunks' = [j \in 1..m + 1 |-> EntriesOf(files'[1][merge'.new[j].idx].table)]
  BY <1>3 DEF WrittenChunks
<1>8. \A j \in 1..m : W[j] = EntriesOf(files[1][merge.new[j].idx].table)
  BY <1>2 DEF WrittenChunks
<1> HIDE DEF n, m, es, W
<1>9. \A j \in 1..m + 1 : EntriesOf(files'[1][merge'.new[j].idx].table) = IF j = m + 1 THEN es ELSE W[j]
  <2> TAKE j \in 1..m + 1
  <2>1. CASE j = m + 1
    BY SMTT(60), <1>1, <1>3, <1>6, <2>1 DEF n
  <2>2. CASE j # m + 1
    <3>1. j \in 1..m
      BY <1>2, <2>2
    <3> QED
      BY ZenonT(60), <1>2, <1>5, <1>8, <2>2, <3>1
  <2> QED
    BY <2>1, <2>2
<1>10. WrittenChunks' = Append(W, es)
  <2>1. Append(W, es) = [j \in 1..m + 1 |-> IF j = m + 1 THEN es ELSE W[j]]
    BY <1>2, <1>6, AppendAt
  <2> QED
    BY <1>7, <1>9, <2>1
<1>11. FlattenSeq(Append(W, es)) = FlattenSeq(W) \o es
  BY <1>2, <1>6, FlattenAppend DEF EntrySeqs
<1>12. Emitted = FlattenSeq(W) \o es
  BY EmittedIs DEF W, es
<1>13. DOMAIN merge'.new = DOMAIN merge.new \cup {m + 1}
  BY <1>2, <1>3
<1> QED
  BY <1>1, <1>3, <1>5, <1>10, <1>11, <1>12, <1>13 DEF n, m, es, W

LEMMA EmptyAndOne ==
  ASSUME NEW R, NEW s \in Seq(R), NEW t \in Seq(R), NEW x \in R
  PROVE  /\ s \o <<>> = s /\ s \o <<x>> = Append(s, x)
         /\ s \o (t \o <<x>>) = Append(s \o t, x)
         /\ t \o <<x>> \in Seq(R) /\ Len(t \o <<x>>) = Len(t) + 1 /\ t \o <<x>> # <<>>
         /\ <<x>> \in Seq(R) /\ Len(<<x>>) = 1 /\ <<x>> # <<>>
<1>1. s \o <<>> = s
  OBVIOUS
<1>2. s \o <<x>> = Append(s, x) /\ t \o <<x>> = Append(t, x)
  OBVIOUS
<1>3. s \o Append(t, x) = Append(s \o t, x)
  OBVIOUS
<1>4. /\ Append(t, x) \in Seq(R) /\ Len(Append(t, x)) = Len(t) + 1 /\ Append(t, x) # <<>>
      /\ <<x>> \in Seq(R) /\ Len(<<x>>) = 1 /\ <<x>> # <<>>
  OBVIOUS
<1> QED
  BY <1>1, <1>2, <1>3, <1>4

\* What a turn does, with its parts named.
LEMMA EntryDoes ==
  ASSUME DataInv, MergeInv, MergeEntry, NEW a, a = Least(merge.heap)
  PROVE  LET r == Advance(merge.readers[a.tableIndex])
             Q == [merge.readers EXCEPT ![a.tableIndex] = r]
             x == [key |-> a.key, entry |-> a.entry]
         IN  /\ merge.pc = "loop" /\ merge.heap # {} /\ ~Fails(r) /\ levels' = levels
             /\ merge'.pc = "loop" /\ merge'.readers = Q /\ merge'.current = a.key
             /\ merge'.heap = (merge.heap \ {a}) \cup (IF AtEnd(r) THEN {} ELSE {Item(Q, a.tableIndex)})
             /\ merge' = [pc |-> merge'.pc, readers |-> merge'.readers, heap |-> merge'.heap,
                          current |-> merge'.current, chunk |-> merge'.chunk, new |-> merge'.new]
             /\ \/ /\ Fresh(a) /\ ChunkFull /\ WriteChunk
                   /\ merge'.chunk = <<x>> /\ merge'.new = Append(merge.new, ChunkTable)
                \/ /\ Fresh(a) /\ ~ChunkFull /\ files' = files
                   /\ merge'.chunk = merge.chunk \o <<x>> /\ merge'.new = merge.new
                \/ /\ ~Fresh(a) /\ files' = files
                   /\ merge'.chunk = merge.chunk \o <<>> /\ merge'.new = merge.new
<1> DEFINE full == Fresh(a) /\ ChunkFull
           r == Advance(merge.readers[a.tableIndex])
           Q == [merge.readers EXCEPT ![a.tableIndex] = r]
           x == [key |-> a.key, entry |-> a.entry]
           kept == IF Fresh(a) THEN <<x>> ELSE <<>>
           G == (merge.heap \ {a}) \cup (IF AtEnd(r) THEN {} ELSE {Item(Q, a.tableIndex)})
           ch == IF full THEN kept ELSE merge.chunk \o kept
           nw == IF full THEN Append(merge.new, ChunkTable) ELSE merge.new
<1>1. /\ merge.pc = "loop" /\ merge.heap # {} /\ ~Fails(r) /\ levels' = levels
      /\ IF full THEN WriteChunk ELSE files' = files
      /\ merge' = [merge EXCEPT !.readers = Q, !.heap = G, !.current = a.key, !.chunk = ch, !.new = nw]
  BY DEF MergeEntry
<1>2. merge = [pc |-> merge.pc, readers |-> merge.readers, heap |-> merge.heap,
               current |-> merge.current, chunk |-> merge.chunk, new |-> merge.new]
  BY DEF MergeInv, MergeShape
<1> HIDE DEF full, r, Q, kept, G, ch, nw, x
<1> DEFINE z == a.key
<1>3. merge' = [merge EXCEPT !.readers = Q, !.heap = G, !.current = z, !.chunk = ch, !.new = nw]
  BY <1>1
<1> HIDE DEF z
<1>4. merge' = [pc |-> "loop", readers |-> Q, heap |-> G, current |-> z, chunk |-> ch, new |-> nw]
  BY <1>1, <1>2, <1>3
<1>5. /\ merge'.pc = "loop" /\ merge'.readers = Q /\ merge'.current = z
      /\ merge'.heap = G /\ merge'.chunk = ch /\ merge'.new = nw
      /\ merge' = [pc |-> merge'.pc, readers |-> merge'.readers, heap |-> merge'.heap,
                   current |-> merge'.current, chunk |-> merge'.chunk, new |-> merge'.new]
  BY <1>4
<1>6. \/ full /\ kept = <<x>> /\ ch = kept /\ nw = Append(merge.new, ChunkTable) /\ Fresh(a) /\ ChunkFull
      \/ ~full /\ kept = <<x>> /\ ch = merge.chunk \o kept /\ nw = merge.new /\ Fresh(a) /\ ~ChunkFull
      \/ ~full /\ kept = <<>> /\ ch = merge.chunk \o kept /\ nw = merge.new /\ ~Fresh(a)
  BY DEF full, kept, ch, nw
<1>7. \/ Fresh(a) /\ ChunkFull /\ WriteChunk /\ merge'.chunk = <<x>> /\ merge'.new = Append(merge.new, ChunkTable)
      \/ Fresh(a) /\ ~ChunkFull /\ files' = files /\ merge'.chunk = merge.chunk \o <<x>> /\ merge'.new = merge.new
      \/ ~Fresh(a) /\ files' = files /\ merge'.chunk = merge.chunk \o <<>> /\ merge'.new = merge.new
  BY <1>1, <1>5, <1>6
<1>8. merge'.heap = (merge.heap \ {a}) \cup (IF AtEnd(r) THEN {} ELSE {Item(Q, a.tableIndex)})
  BY <1>5 DEF G
<1> QED
  BY ONLY <1>1, <1>5, <1>7, <1>8 DEF r, Q, x, z

\* Pop, keep, advance.
LEMMA EntryKeepsMerge == DataInv /\ MergeInv /\ MergeEntry => MergeInv'
<1> SUFFICES ASSUME DataInv, MergeInv, MergeEntry
             PROVE  MergeInv'
  OBVIOUS
<1> DEFINE a == Least(merge.heap)
           j == a.tableIndex
           r == Advance(merge.readers[j])
           Q == [merge.readers EXCEPT ![j] = r]
           x == [key |-> a.key, entry |-> a.entry]
           G == (merge.heap \ {a}) \cup (IF AtEnd(r) THEN {} ELSE {Item(Q, j)})
           es == merge.chunk
           F == FlattenSeq(WrittenChunks)
<1>1. /\ merge.pc = "loop" /\ merge.heap # {} /\ ~Fails(r) /\ levels' = levels
      /\ merge'.pc = "loop" /\ merge'.readers = Q /\ merge'.current = a.key /\ merge'.heap = G
      /\ merge' = [pc |-> merge'.pc, readers |-> merge'.readers, heap |-> merge'.heap,
                   current |-> merge'.current, chunk |-> merge'.chunk, new |-> merge'.new]
  BY EntryDoes
<1>2. \/ /\ Fresh(a) /\ ChunkFull /\ WriteChunk
         /\ merge'.chunk = <<x>> /\ merge'.new = Append(merge.new, ChunkTable)
      \/ /\ Fresh(a) /\ ~ChunkFull /\ files' = files
         /\ merge'.chunk = es \o <<x>> /\ merge'.new = merge.new
      \/ /\ ~Fresh(a) /\ files' = files
         /\ merge'.chunk = es \o <<>> /\ merge'.new = merge.new
  BY EntryDoes
<1> HIDE DEF a, r, Q, x, G, F
<1>3. /\ LevelsShape(levels) /\ NamedFiles /\ FilesShape /\ LoopInv /\ OutputsGood
      /\ \E Rs : merge.new \in Seq(AnyTable(Rs))
      /\ merge.current \in Key \cup {None} /\ (merge.current # None => es # <<>>)
      /\ es \in EntrySeqs /\ Len(es) <= FLUSH_THRESHOLD
  BY <1>1 DEF DataInv, ManifestInv, MergeInv, LoopInv, OutputsGood
<1>4. ReadersGood(Inputs, InputFiles, Q, G, a.key)
  BY <1>1, <1>3, ReaderMoves DEF a, r, Q, G
<1>5. /\ a.key \in Key /\ x \in [key : Key, entry : Entry]
  BY <1>1, <1>3, NextIsMerged DEF a, x
<1>6. /\ ChunkFull /\ WriteChunk => es # <<>> /\ FreeNumbers # {} /\ Writable(es) /\ WriteFile(1, ChunkTable.idx, es)
      /\ ~Fresh(a) => merge.current # None
  <2>1. ChunkFull => es # <<>>
    BY ThresholdsFitTables DEF ChunkFull
  <2>2. ~Fresh(a) => merge.current # None
    BY <1>5, NothingIsNoData DEF Fresh
  <2> QED
    BY <2>1, <2>2 DEF WriteChunk
<1>7. Emitted = F \o es /\ Emitted' = FlattenSeq(WrittenChunks') \o merge'.chunk /\ F \in EntrySeqs
  <2>1. WrittenChunks \in Seq(EntrySeqs)
    BY <1>3, ChunksListed
  <2>2. F \in EntrySeqs
    <3>1. CASE WrittenChunks = <<>>
      <4>1. F = <<>>
        BY <3>1, FlattenNone DEF F
      <4> QED
        BY ONLY <4>1 DEF EntrySeqs
    <3>2. CASE WrittenChunks # <<>>
      <4> DEFINE R == [key : Key, entry : Entry]
                 W == WrittenChunks
      <4>1. W \in Seq(Seq(R)) /\ W # <<>>
        BY <2>1, <3>2 DEF EntrySeqs
      <4> HIDE DEF R, W
      <4>2. FlattenSeq(W) \in Seq(R)
        BY <4>1, Flattened
      <4> QED
        BY ONLY <4>2 DEF F, EntrySeqs, R, W
    <3> QED
      BY <3>1, <3>2
  <2> QED
    BY <2>2, EmittedIs DEF F
<1>8. IF Fresh(a) THEN Emitted' = Append(Emitted, x) ELSE Emitted' = Emitted
  <2>1. CASE Fresh(a) /\ ChunkFull
    <3>1. WriteChunk /\ merge'.chunk = <<x>> /\ merge'.new = Append(merge.new, ChunkTable)
      BY <1>2, <2>1
    <3>2. FlattenSeq(WrittenChunks') = Emitted
      BY <1>3, <1>6, <2>1, <3>1, ChunkJoins
    <3>3. Emitted \in EntrySeqs
      BY <1>3 DEF LoopInv
    <3>4. Emitted \o <<x>> = Append(Emitted, x)
      BY <1>5, <3>3, EmptyAndOne DEF EntrySeqs
    <3> QED
      BY <1>7, <2>1, <3>1, <3>2, <3>4
  <2>2. CASE Fresh(a) /\ ~ChunkFull
    <3>1. merge'.chunk = es \o <<x>> /\ WrittenChunks' = WrittenChunks
      BY <1>2, <2>2 DEF WrittenChunks
    <3>2. F \o (es \o <<x>>) = Append(F \o es, x)
      BY SMTT(60), <1>3, <1>5, <1>7, EmptyAndOne DEF EntrySeqs
    <3> QED
      BY <1>7, <2>2, <3>1, <3>2 DEF F
  <2>3. CASE ~Fresh(a)
    <3>1. merge'.chunk = es \o <<>> /\ WrittenChunks' = WrittenChunks
      BY <1>2, <2>3 DEF WrittenChunks
    <3>2. es \o <<>> = es
      BY <1>3, <1>5, EmptyAndOne DEF EntrySeqs
    <3> QED
      BY <1>7, <2>3, <3>1, <3>2 DEF F
  <2> QED
    BY <2>1, <2>2, <2>3
<1>9. /\ Emitted' \in EntrySeqs /\ StrictlySorted(Keys(Emitted'))
      /\ \A p \in DOMAIN Emitted' : Emitted'[p].key <= a.key
      /\ \A k \in Key : k <= a.key => TableOf(Emitted')[k] = MergedLevels[k]
  <2> DEFINE e == Emitted'
  <2>1. IF Fresh(a) THEN e = Append(Emitted, [key |-> a.key, entry |-> a.entry]) ELSE e = Emitted
    BY <1>8 DEF x
  <2> HIDE DEF e
  <2>2. a = Least(merge.heap)
    BY DEF a
  <2>3. /\ e \in EntrySeqs /\ StrictlySorted(Keys(e))
        /\ \A p \in DOMAIN e : e[p].key <= a.key
        /\ \A k \in Key : k <= a.key => TableOf(e)[k] = MergedLevels[k]
    BY <1>1, <1>3, <2>1, <2>2, OutputGrows
  <2> QED
    BY <2>3 DEF e
<1>10. /\ merge'.chunk \in EntrySeqs /\ Len(merge'.chunk) <= FLUSH_THRESHOLD
       /\ merge'.chunk # <<>>
  <2>0. FLUSH_THRESHOLD \in Nat /\ 1 <= FLUSH_THRESHOLD /\ Len(es) \in Nat
    BY <1>3, ThresholdsFitTables, BlocksHaveRoom DEF EntrySeqs, MaxEntries
  <2>1. /\ es \o <<>> = es /\ es \o <<x>> \in EntrySeqs /\ Len(es \o <<x>>) = Len(es) + 1 /\ es \o <<x>> # <<>>
        /\ <<x>> \in EntrySeqs /\ Len(<<x>>) = 1 /\ <<x>> # <<>>
    BY <1>3, <1>5, EmptyAndOne DEF EntrySeqs
  <2>2. CASE merge'.chunk = <<x>>
    BY <2>0, <2>1, <2>2
  <2>3. CASE merge'.chunk = es \o <<x>> /\ ~ChunkFull
    <3>1. Len(es) # FLUSH_THRESHOLD
      BY <2>3 DEF ChunkFull
    <3>2. Len(es) + 1 <= FLUSH_THRESHOLD
      BY <1>3, <2>0, <3>1
    <3> QED
      BY <2>1, <2>3, <3>2
  <2>4. CASE merge'.chunk = es \o <<>> /\ ~Fresh(a)
    BY <1>3, <1>6, <2>1, <2>4
  <2> QED
    BY <1>2, <2>2, <2>3, <2>4
<1>11. /\ NamedFiles' /\ Inputs' = Inputs /\ InputFiles' = InputFiles /\ MergedLevels' = MergedLevels
  <2>1. ASSUME NEW l \in 0..1, NEW i \in Numbers(TablesOf(levels, l))
        PROVE  files'[l][i] = files[l][i]
    <3>1. CASE files' = files
      BY <3>1
    <3>2. CASE WriteChunk
      <4>1. i \in Idx
        BY <1>3, NamedContents
      <4>2. l = 1 => i # ChunkTable.idx
        BY SMTT(60), <1>3, <3>2, ChunkIsApart DEF WriteChunk
      <4> QED
        BY <1>3, <3>2, <4>1, <4>2 DEF WriteChunk, WriteFile, FilesShape
    <3> QED
      BY <1>2, <3>1, <3>2
  <2> QED
    BY <1>1, <1>3, <2>1, SameInputs
<1>12. \A i \in DOMAIN merge'.new :
         /\ merge'.new[i].idx \notin Numbers(TablesOf(levels', 1))
         /\ FullFile(files'[1][merge'.new[i].idx])
  <2>1. \A i \in DOMAIN merge.new :
          /\ merge.new[i].idx \notin Numbers(TablesOf(levels, 1))
          /\ FullFile(files[1][merge.new[i].idx])
    BY <1>3 DEF OutputsGood
  <2>2. CASE files' = files /\ merge'.new = merge.new
    BY <1>1, <2>1, <2>2
  <2>3. CASE WriteChunk /\ ChunkFull /\ merge'.new = Append(merge.new, ChunkTable)
    <3>1. /\ \A i \in DOMAIN merge.new :
               merge'.new[i] = merge.new[i] /\ files'[1][merge.new[i].idx] = files[1][merge.new[i].idx]
          /\ DOMAIN merge'.new = DOMAIN merge.new \cup {Len(merge.new) + 1}
          /\ merge'.new[Len(merge.new) + 1] = ChunkTable
          /\ files'[1][ChunkTable.idx] = TableFile(es)
      BY <1>3, <1>6, <2>3, ChunkJoins
    <3>2. FullFile(TableFile(es))
      BY <1>3, <1>6, <2>3 DEF FullFile, ChunkFull
    <3>3. ChunkTable.idx \notin Numbers(TablesOf(levels, 1))
      BY <1>3, <1>6, <2>3, ChunkIsApart
    <3> QED
      BY <1>1, <2>1, <3>1, <3>2, <3>3
  <2> QED
    BY <1>2, <2>2, <2>3
<1>13. OutputsGood'
  BY <1>10, <1>12 DEF OutputsGood
<1>14. MergeShape'
  BY <1>1 DEF MergeShape
<1>15. LoopInv'
  <2>1. ReadersGood(Inputs', InputFiles', merge'.readers, merge'.heap, merge'.current)
    BY <1>1, <1>4, <1>11
  <2>2. merge'.current # None
    BY <1>1, <1>5, NothingIsNoData
  <2> QED
    BY <1>1, <1>5, <1>9, <1>10, <1>11, <2>1, <2>2 DEF LoopInv
<1> QED
  BY <1>11, <1>13, <1>14, <1>15 DEF MergeInv

\* What stands between two merges: files that are good, and no outputs.
LEMMA NoMergeKept ==
  ASSUME NamedFiles', merge' = NoMerge
  PROVE  MergeInv'
<1>1. /\ merge'.pc = "idle" /\ merge'.current = None /\ merge'.chunk = <<>> /\ merge'.new = <<>>
      /\ merge' = [pc |-> merge'.pc, readers |-> merge'.readers, heap |-> merge'.heap,
                   current |-> merge'.current, chunk |-> merge'.chunk, new |-> merge'.new]
  BY DEF NoMerge
<1>2. OutputsGood'
  BY <1>1, NothingEmitted
<1>3. MergeShape'
  BY <1>1 DEF MergeShape
<1> QED
  BY <1>1, <1>2, <1>3 DEF MergeInv

\* The outputs replace the inputs.
LEMMA FinishKeepsMerge == DataInv /\ MergeInv /\ FinishMerge => MergeInv'
<1> SUFFICES ASSUME DataInv, MergeInv, FinishMerge
             PROVE  MergeInv'
  OBVIOUS
<1> DEFINE last == ChunkTable
           new == Append(merge.new, last)
           lv == <<[level |-> 0, tables |-> <<>>], [level |-> 1, tables |-> new]>>
           es == merge.chunk
<1>1. /\ merge.pc = "loop" /\ merge.heap = {} /\ FreeNumbers # {} /\ Writable(es)
      /\ files' = [l \in 0..1 |-> [i \in Idx |->
                     CASE l = 1 /\ i = last.idx -> TableFile(es)
                       [] i \in Numbers(TablesOf(levels, l)) -> NoFile
                       [] OTHER -> files[l][i]]]
      /\ levels' = lv /\ merge' = NoMerge
  BY DEF FinishMerge
<1>2. /\ NamedFiles /\ LoopInv /\ OutputsGood /\ \E Rs : merge.new \in Seq(AnyTable(Rs))
  BY <1>1 DEF DataInv, ManifestInv, MergeInv
<1>3. GoodFile(TableFile(es))
  <2>1. es \in EntrySeqs /\ es # <<>>
    BY <1>1, <1>2 DEF LoopInv, OutputsGood
  <2> QED
    BY <1>1, <2>1, WrittenGood
<1>4. TablesOf(levels', 0) = <<>> /\ TablesOf(levels', 1) = new
  BY <1>1, TablesListed
<1>5. ASSUME NEW i \in Numbers(new)
      PROVE  i = last.idx \/ (i # last.idx /\ \E j \in DOMAIN merge.new : i = merge.new[j].idx)
  <2>1. PICK Rs : merge.new \in Seq(AnyTable(Rs))
    BY <1>2
  <2> DEFINE q == merge.new
  <2>2. q \in Seq(AnyTable(Rs))
    BY <2>1
  <2>3. PICK j \in DOMAIN new : i = new[j].idx
    BY <1>5 DEF Numbers
  <2> HIDE DEF q, last
  <2>4. DOMAIN new = 1..Len(q) + 1 /\ Len(q) \in Nat /\ new[Len(q) + 1] = last /\ DOMAIN q = 1..Len(q)
        /\ \A h \in 1..Len(q) : new[h] = q[h]
    BY <2>2 DEF q
  <2> HIDE DEF new
  <2>5. j = Len(q) + 1 \/ j \in 1..Len(q)
    BY <2>3, <2>4
  <2> QED
    BY <2>3, <2>4, <2>5 DEF q
<1>6. \A j \in DOMAIN merge.new :
        /\ merge.new[j].idx \in Idx /\ merge.new[j].idx # last.idx
        /\ merge.new[j].idx \notin Numbers(TablesOf(levels, 1))
        /\ GoodFile(files[1][merge.new[j].idx])
  <2>1. PICK Rs : merge.new \in Seq(AnyTable(Rs))
    BY <1>2
  <2>2. \A j \in DOMAIN merge.new : merge.new[j] \in AnyTable(Rs)
    BY <2>1, SeqMember
  <2>3. \A j \in DOMAIN merge.new : merge.new[j].idx \in Idx
    BY <2>2 DEF AnyTable
  <2>4. \A j \in DOMAIN merge.new : merge.new[j].idx # last.idx
    BY <1>1, <1>2, ChunkIsApart
  <2>5. \A j \in DOMAIN merge.new :
          merge.new[j].idx \notin Numbers(TablesOf(levels, 1)) /\ GoodFile(files[1][merge.new[j].idx])
    BY <1>2, FullFileReads DEF OutputsGood
  <2> QED
    BY <2>3, <2>4, <2>5
<1>7. last.idx \in Idx
  BY <1>1, ChunkNumber
<1> HIDE DEF last, new, es
<1>8. NamedFiles'
  <2> SUFFICES ASSUME NEW l \in 0..1, NEW i \in Numbers(TablesOf(levels', l))
               PROVE  GoodFile(files'[l][i])
    BY DEF NamedFiles
  <2>1. l = 1 /\ i \in Numbers(new)
    BY <1>4 DEF Numbers
  <2>2. \A n \in Idx : files'[1][n] = CASE n = last.idx -> TableFile(es)
                         [] n \in Numbers(TablesOf(levels, 1)) -> NoFile
                         [] OTHER -> files[1][n]
    BY <1>1
  <2>0. last.idx \notin Numbers(TablesOf(levels, 1))
    BY <1>1, <1>2, ChunkIsApart DEF last
  <2>3. CASE i = last.idx
    <3>1. files'[1][i] = TableFile(es)
      BY <1>7, <2>0, <2>2, <2>3
    <3> QED
      BY <1>3, <2>1, <3>1
  <2>4. CASE i # last.idx
    <3>1. PICK j \in DOMAIN merge.new : i = merge.new[j].idx
      BY <1>5, <2>1, <2>4
    <3>2. i \in Idx /\ i \notin Numbers(TablesOf(levels, 1)) /\ GoodFile(files[1][i])
      BY <1>6, <3>1
    <3>3. files'[1][i] = files[1][i]
      BY <2>2, <2>4, <3>2
    <3> QED
      BY <2>1, <3>2, <3>3
  <2> QED
    BY <2>3, <2>4
<1> QED
  BY <1>1, <1>8, NoMergeKept

\* The levels that are read back name the same files.
LEMMA ReopenKeepsMerge == DataInv /\ MergeInv /\ Reopen => MergeInv'
<1> SUFFICES ASSUME DataInv, MergeInv, Reopen
             PROVE  MergeInv'
  OBVIOUS
<1>1. /\ merge.pc = "idle" /\ files' = files /\ merge' = merge /\ SameTables(levels, levels')
  BY ReopenKeepsManifest DEF Reopen, Idle, DataInv
<1>2. NamedFiles'
  BY <1>1 DEF MergeInv, NamedFiles, SameTables, Reread, Numbers
<1>3. MergeShape' /\ merge'.pc = "idle"
  BY <1>1 DEF MergeInv, MergeShape
<1>4. OutputsGood'
  BY <1>3, NothingEmitted DEF MergeShape
<1> QED
  BY <1>2, <1>3, <1>4 DEF MergeInv

LEMMA InitMerge == Init => MergeInv
<1> SUFFICES ASSUME Init
             PROVE  MergeInv
  OBVIOUS
<1>1. levels = <<>> /\ merge = NoMerge
  BY DEF Init
<1>2. NamedFiles
  <2>1. TablesOf(levels, 0) = <<>> /\ TablesOf(levels, 1) = <<>>
    BY <1>1, TablesListed
  <2>2. \A l \in 0..1 : TablesOf(levels, l) = <<>>
    BY <2>1
  <2> QED
    BY <2>2 DEF NamedFiles, Numbers
<1>3. MergeShape
  BY <1>1 DEF MergeShape, NoMerge
<1>4. OutputsGood
  BY <1>1, NothingEmitted DEF NoMerge
<1> QED
  BY <1>1, <1>2, <1>3, <1>4 DEF MergeInv, NoMerge

LEMMA StepKeepsMerge == DataInv /\ MergeInv /\ [Next]_vars => MergeInv'
<1> SUFFICES ASSUME DataInv, MergeInv, [Next]_vars
             PROVE  MergeInv'
  OBVIOUS
<1>1. ASSUME NEW w, NEW height, Put(w, height)
      PROVE  MergeInv'
  BY <1>1, NothingChanges DEF Put
<1>2. CASE Flush
  BY <1>2, FlushKeepsMerge
<1>3. CASE Merge
  <2>1. CASE StartFails \/ MergeFails
    <3>1. Abort
      BY <2>1 DEF StartFails, MergeFails
    <3> QED
      BY <3>1, AbortKeepsMerge
  <2> QED
    BY <1>3, <2>1, StartKeepsMerge, EntryKeepsMerge, FinishKeepsMerge DEF Merge
<1>4. CASE Damage
  BY <1>4, DamageKeepsMerge
<1>5. CASE Reopen
  BY <1>5, ReopenKeepsMerge
<1>6. CASE UNCHANGED vars
  BY <1>6, NothingChanges DEF vars
<1> QED
  BY <1>1, <1>2, <1>3, <1>4, <1>5, <1>6 DEF Next

\* What has come out, whether entries are left or not.
LEMMA OutputSoFar ==
  ASSUME LevelsShape(levels), NamedFiles, LoopInv, merge.current # None, NEW k \in Key
  PROVE  TableOf(Emitted)[k] =
           IF merge.heap = {} \/ k <= merge.current THEN MergedLevels[k] ELSE None
<1> DEFINE X == InputFiles
           R == merge.readers
           H == merge.heap
           cur == merge.current
           es == Emitted
<1>1. /\ InputSeq(Inputs) /\ ReadersGood(Inputs, X, R, H, cur) /\ cur \in Key
      /\ es \in EntrySeqs /\ StrictlySorted(Keys(es))
      /\ \A p \in DOMAIN es : es[p].key <= cur
      /\ \A u \in Key : u <= cur => TableOf(es)[u] = MergedLevels[u]
  BY InputsNamed DEF LoopInv
<1> HIDE DEF X, R, H, cur, es
<1>2. CASE k <= cur
  BY <1>1, <1>2 DEF cur, es
<1>3. CASE ~(k <= cur)
  <2>1. k \in Int /\ cur \in Int /\ cur < k
    BY <1>1, <1>3, KeysAreOrdered
  <2>2. \A p \in DOMAIN es : es[p].key \in Int
    <3>1. \A p \in DOMAIN es : es[p] \in [key : Key, entry : Entry]
      BY <1>1, SeqMember DEF EntrySeqs
    <3> QED
      BY <3>1, KeysAreOrdered
  <2>3. \A p \in DOMAIN es : es[p].key # k
    BY <1>1, <2>1, <2>2
  <2>4. TableOf(es)[k] = None
    BY <1>1, <2>3, TableHasWhatIsListed
  <2>5. H = {} => MergedLevels[k] = None
    <3> SUFFICES ASSUME H = {}
                 PROVE  MergedLevels[k] = None
      OBVIOUS
    <3>1. \A j \in DOMAIN Inputs : ~Live(X, R, j)
      BY <1>1, ItemsOfReaders
    <3>2. \A j \in DOMAIN Inputs : Content(X[j])[k] = None
      BY <1>1, <2>1, <3>1, NoKeyBetween
    <3> QED
      BY <3>2, MergedByInputs DEF X
  <2> QED
    BY <1>3, <2>4, <2>5 DEF H, cur, es
<1> QED
  BY <1>2, <1>3

LEMMA MergeInvIsEnough == DataInv /\ MergeInv => MergeEmitsMerged
<1> SUFFICES ASSUME DataInv, MergeInv, merge.pc = "loop"
             PROVE  LET l0 == TablesOf(levels, 0)
                        all == Merged([j \in DOMAIN l0 |-> l0[j].idx], TablesOf(levels, 1),
                                      [l \in 0..1 |-> Contents(l)])
                        done == IF merge.heap = {} THEN Key ELSE {k \in Key : k <= merge.current}
                    IN  /\ StrictlySorted(Keys(Emitted))
                        /\ merge.current # None => TableOf(Emitted) =
                             [k \in Key |-> IF k \in done THEN all[k] ELSE None]
                        /\ \A j \in DOMAIN merge.new :
                             Cardinality(KeysIn(Contents(1)[merge.new[j].idx])) = FLUSH_THRESHOLD
  BY DEF MergeEmitsMerged
<1> DEFINE done == IF merge.heap = {} THEN Key ELSE {k \in Key : k <= merge.current}
<1>1. /\ LevelsShape(levels) /\ NamedFiles /\ LoopInv /\ OutputsGood
      /\ \E Rs : merge.new \in Seq(AnyTable(Rs))
  BY DEF DataInv, ManifestInv, MergeInv
<1>2. StrictlySorted(Keys(Emitted))
  BY <1>1 DEF LoopInv
<1>3. merge.current # None => TableOf(Emitted) =
        [k \in Key |-> IF k \in done THEN MergedLevels[k] ELSE None]
  <2> SUFFICES ASSUME merge.current # None
               PROVE  TableOf(Emitted) = [k \in Key |-> IF k \in done THEN MergedLevels[k] ELSE None]
    OBVIOUS
  <2> DEFINE T == TableOf(Emitted)
  <2>1. T = [k \in Key |-> T[k]]
    BY DEF TableOf
  <2> HIDE DEF T
  <2>2. \A k \in Key : T[k] = IF merge.heap = {} \/ k <= merge.current THEN MergedLevels[k] ELSE None
    BY <1>1, OutputSoFar DEF T
  <2>3. \A k \in Key : k \in done <=> merge.heap = {} \/ k <= merge.current
    OBVIOUS
  <2> HIDE DEF done
  <2>4. \A k \in Key : T[k] = IF k \in done THEN MergedLevels[k] ELSE None
    BY <2>2, <2>3
  <2> QED
    BY <2>1, <2>4 DEF T
<1>4. ASSUME NEW j \in DOMAIN merge.new
      PROVE  Cardinality(KeysIn(Contents(1)[merge.new[j].idx])) = FLUSH_THRESHOLD
  <2> DEFINE i == merge.new[j].idx
             f == files[1][i]
             es == EntriesOf(f.table)
  <2>1. f # NoFile /\ es \in EntrySeqs /\ Len(es) = FLUSH_THRESHOLD /\ StrictlySorted(Keys(es))
    BY <1>1, FullFileReads DEF OutputsGood
  <2>2. i \in Idx
    <3>1. PICK Rs : merge.new \in Seq(AnyTable(Rs))
      BY <1>1
    <3>2. merge.new[j] \in AnyTable(Rs)
      BY SMTT(60), <3>1, SeqMember
    <3> QED
      BY <3>2 DEF AnyTable
  <2>3. Contents(1)[i] = TableOf(es)
    BY ZenonT(60), <2>1, <2>2 DEF Contents, EntriesOf, BlocksOf
  <2> HIDE DEF es
  <2> QED
    BY <2>1, <2>3, SortedIsCounted
<1> QED
  BY <1>2, <1>3, <1>4 DEF MergedLevels

LEMMA InitFilesShape == Init => FilesShape
BY DEF Init, FilesShape

\* At every turn of its loop the merge has written, in order and each once, the
\* keys up to the current one with the entry Merged gives them, whatever the
\* number of tables, blocks and keys, the way the chunks fall and the file that
\* was damaged; every chunk but the last is full (compactSSTables, advance,
\* Less, flushChunk).
THEOREM MergeWritesMerged == Spec => []MergeEmitsMerged
<1>1. Init => DataInv /\ MergeInv
  BY InitManifest, InitMemTable, InitFilesShape, InitMerge DEF DataInv
<1>2. DataInv /\ MergeInv /\ [Next]_vars => (DataInv /\ MergeInv)'
  BY StepKeepsManifest, StepKeepsMemTable, StepKeepsFilesShape, StepKeepsMerge DEF DataInv
<1>3. DataInv /\ MergeInv => MergeEmitsMerged
  BY MergeInvIsEnough
<1> QED
  BY <1>1, <1>2, <1>3, PTL DEF Spec

-----------------------------------------------------------------------------
(***************************************************************************)
(* What the tables answer.                                                 *)
(***************************************************************************)
TableAt(l, j) == files[l][TablesOf(levels, l)[j].idx]
Says(l, j, k) == Answer(TableAt(l, j), k)

\* The part of Lookup after the MemTable.
FromTables(k) == IF Hit(k) > Len(Places(k)) THEN None ELSE AnswerAt(k, Hit(k))

\* A range is wide enough for what its table answers.
Fits(range, x) == range = NoRange \/ \A k \in Key : Answer(x, k) # None => InRange(k, range)
RangesFit ==
  \A j \in DOMAIN TablesOf(levels, 1) : Fits(TablesOf(levels, 1)[j].range, TableAt(1, j))

\* The table that decides: level 0 before level 1, on a level the newest one.
FirstSays(l, j, k) ==
  /\ l \in 0..1 /\ j \in DOMAIN TablesOf(levels, l)
  /\ Says(l, j, k) # None
  /\ \A i \in DOMAIN TablesOf(levels, l) : i > j => Says(l, i, k) = None
  /\ l = 1 => \A i \in DOMAIN TablesOf(levels, 0) : Says(0, i, k) = None

Silent(k) == \A l \in 0..1 : \A j \in DOMAIN TablesOf(levels, l) : Says(l, j, k) = None

InPlaces(k) ==
  {j \in DOMAIN TablesOf(levels, 1) :
     TablesOf(levels, 1)[j].range = NoRange \/ InRange(k, TablesOf(levels, 1)[j].range)}

\* Places goes through level 0 and then level 1, both from their ends.
PlacesFrom(k, m, n, h) ==
  /\ m = Len(TablesOf(levels, 0)) /\ n = Cardinality(InPlaces(k)) /\ Lists(h, InPlaces(k))
  /\ Len(Places(k)) = m + n
  /\ \A j \in 1..m : Places(k)[j] = <<0, TablesOf(levels, 0)[m + 1 - j].idx>>
  /\ \A j \in 1..n : Places(k)[m + j] = <<1, TablesOf(levels, 1)[h[n + 1 - j]].idx>>

LEMMA PlacesListed ==
  ASSUME LevelsShape(levels), NEW k
  PROVE  \E m, n, h : m \in Nat /\ n \in Nat /\ PlacesFrom(k, m, n, h)
<1> DEFINE l0 == TablesOf(levels, 0)
           all == TablesOf(levels, 1)
           S == InPlaces(k)
           l1 == Kept(all, S)
           m == Len(l0)
           n == Cardinality(S)
<1>1. /\ m \in Nat /\ DOMAIN l0 = 1..m
      /\ Len(all) \in Nat /\ DOMAIN all = 1..Len(all)
  BY TableOnLevel
<1>2. S \in SUBSET Nat /\ IsFiniteSet(S)
  <2>1. S \subseteq 1..Len(all)
    BY <1>1 DEF InPlaces
  <2>2. IsFiniteSet(1..Len(all))
    BY <1>1, FS_Interval
  <2> QED
    BY <2>1, <2>2, FS_Subset, <1>1
<1>3. n \in Nat
  BY <1>2, FS_CardinalityType
<1>4. PICK h : Lists(h, S) /\ l1 = [j \in 1..n |-> all[h[j]]]
  BY SMTT(60), <1>2, KeptLists
<1> DEFINE p0 == [j \in DOMAIN l0 |-> <<0, Reverse(l0)[j].idx>>]
           p1 == [j \in DOMAIN l1 |-> <<1, Reverse(l1)[j].idx>>]
<1>5. Places(k) = p0 \o p1
  BY DEF Places, InPlaces
<1>6. \A j \in 1..m : Reverse(l0)[j] = l0[m + 1 - j]
  <2>1. Reverse(l0) = [j \in 1..m |-> l0[(m - j) + 1]]
    BY DEF Reverse
  <2>2. \A j \in 1..m : (m - j) + 1 = m + 1 - j
    BY <1>1
  <2> HIDE DEF m, l0
  <2> QED
    BY <2>1, <2>2
<1>7. DOMAIN l1 = 1..n /\ Len(l1) = n /\ \A j \in 1..n : Reverse(l1)[j] = all[h[n + 1 - j]]
  <2> HIDE DEF n, l1, all
  <2>1. DOMAIN l1 = 1..n /\ Len(l1) = n
    BY <1>3, <1>4
  <2>2. Reverse(l1) = [j \in 1..n |-> l1[(n - j) + 1]]
    BY <2>1 DEF Reverse
  <2>3. \A j \in 1..n : (n - j) + 1 = n + 1 - j /\ n + 1 - j \in 1..n
    BY <1>3
  <2> QED
    BY <2>1, <2>2, <2>3, <1>4
<1>8. p0 = [j \in 1..m |-> <<0, l0[m + 1 - j].idx>>] /\ p1 = [j \in 1..n |-> <<1, all[h[n + 1 - j]].idx>>]
  <2> HIDE DEF m, n, l0, l1, all
  <2> QED
    BY <1>1, <1>6, <1>7
<1> HIDE DEF p0, p1, m, n, l0, l1, all
<1> DEFINE U == {p0[j] : j \in 1..m} \cup {p1[j] : j \in 1..n}
<1>9. p0 \in Seq(U) /\ p1 \in Seq(U) /\ Len(p0) = m /\ Len(p1) = n
  <2>1. p0 \in [1..m -> U] /\ p1 \in [1..n -> U]
    BY <1>8
  <2> HIDE DEF U
  <2> QED
    BY <2>1, <1>1, <1>3
<1> HIDE DEF U
<1>10. /\ Len(p0 \o p1) = m + n
       /\ \A j \in 1..m : (p0 \o p1)[j] = p0[j]
       /\ \A j \in 1..n : (p0 \o p1)[m + j] = p1[j]
  <2>1. \A a, b \in Seq(U) :
          /\ Len(a \o b) = Len(a) + Len(b)
          /\ \A j \in 1..Len(a) : (a \o b)[j] = a[j]
          /\ \A j \in 1..Len(b) : (a \o b)[Len(a) + j] = b[j]
    BY ConcatAt
  <2> QED
    BY <1>9, <2>1
<1>11. PlacesFrom(k, m, n, h)
  BY ZenonT(60), <1>4, <1>5, <1>8, <1>10 DEF PlacesFrom, m, n, l0, all
<1> QED
  BY <1>1, <1>3, <1>11

\* One table decides what is found, if any answers.
LEMMA TablesAnswer ==
  ASSUME LevelsShape(levels), RangesFit, NEW k \in Key
  PROVE  \/ Silent(k) /\ ~(Hit(k) <= Len(Places(k))) /\ FromTables(k) = None
         \/ \E l, j : /\ FirstSays(l, j, k) /\ Hit(k) <= Len(Places(k))
                     /\ Places(k)[Hit(k)] = <<l, TablesOf(levels, l)[j].idx>>
                     /\ FromTables(k) = Says(l, j, k)
<1> DEFINE l0 == TablesOf(levels, 0)
           all == TablesOf(levels, 1)
           S == InPlaces(k)
<1>1. PICK m, n, h : m \in Nat /\ n \in Nat /\ PlacesFrom(k, m, n, h)
  BY PlacesListed
<1>2. /\ m \in Nat /\ DOMAIN l0 = 1..m
      /\ Len(all) \in Nat /\ DOMAIN all = 1..Len(all)
  BY <1>1, TableOnLevel DEF PlacesFrom
<1>3. /\ \A j \in 1..m : AnswerAt(k, j) = Says(0, m + 1 - j, k)
      /\ \A j \in 1..n : AnswerAt(k, m + j) = Says(1, h[n + 1 - j], k)
      /\ Len(Places(k)) = m + n
  BY SMTT(60), <1>1 DEF PlacesFrom, AnswerAt, Says, TableAt
<1>4. /\ \A j \in 1..n : h[j] \in S
      /\ \A i, j \in 1..n : i < j => h[i] < h[j]
      /\ \A i \in S : \E j \in 1..n : h[j] = i
  BY <1>1 DEF PlacesFrom, Lists
<1>5. S \subseteq DOMAIN all /\ \A i \in DOMAIN all \ S : Says(1, i, k) = None
  <2>1. S \subseteq DOMAIN all
    BY DEF InPlaces
  <2>2. ASSUME NEW i \in DOMAIN all, i \notin S
        PROVE  Says(1, i, k) = None
    BY <2>2 DEF InPlaces, RangesFit, Fits, Says
  <2> QED
    BY <2>1, <2>2
<1> DEFINE A == {j \in 1..m + n : AnswerAt(k, j) # None}
<1>6. Hit(k) = Min(A \cup {m + n + 1})
  BY <1>3 DEF Hit, Search
<1>7. /\ Hit(k) \in 1..m + n + 1
      /\ Hit(k) \in A \/ Hit(k) = m + n + 1
      /\ \A j \in 1..m + n : j < Hit(k) => AnswerAt(k, j) = None
  <2>1. m + n \in Nat /\ A \in SUBSET (1..m + n)
    BY <1>1
  <2> DEFINE x == Min(A \cup {m + n + 1})
  <2>2. /\ x \in A \cup {m + n + 1}
        /\ x \in 1..m + n + 1
        /\ \A j \in A : x <= j
    <3> HIDE DEF A
    <3> QED
      BY <2>1, LeastHit
  <2> HIDE DEF x
  <2> QED
    BY <1>1, <1>6, <2>2 DEF x
<1> HIDE DEF l0, all, S
<1>8. CASE Hit(k) = m + n + 1
  <2>1. \A j \in 1..m : Says(0, j, k) = None
    <3> TAKE j \in 1..m
    <3>1. m + 1 - j \in 1..m /\ m + 1 - (m + 1 - j) = j /\ m + 1 - j < m + n + 1 /\ m + 1 - j \in 1..m + n
      BY <1>2, <1>1
    <3> QED
      BY <1>3, <1>7, <1>8, <3>1
  <2>2. \A i \in S : Says(1, i, k) = None
    <3> TAKE i \in S
    <3>1. PICK j \in 1..n : h[j] = i
      BY <1>4
    <3>2. n + 1 - j \in 1..n /\ n + 1 - (n + 1 - j) = j /\ m + (n + 1 - j) < m + n + 1 /\ m + (n + 1 - j) \in 1..m + n
      BY <1>2, <1>1
    <3> QED
      BY <1>3, <1>7, <1>8, <3>1, <3>2
  <2>3. Silent(k)
    BY <2>1, <2>2, <1>2, <1>5 DEF Silent, l0, all
  <2>4. Hit(k) > Len(Places(k)) /\ ~(Hit(k) <= Len(Places(k)))
    BY <1>1, <1>2, <1>3, <1>8
  <2> QED
    BY <2>3, <2>4 DEF FromTables
<1>9. CASE Hit(k) \in 1..m
  <2> DEFINE j == m + 1 - Hit(k)
  <2>1. /\ j \in 1..m /\ Hit(k) <= m + n /\ Hit(k) \in 1..m + n /\ Hit(k) # m + n + 1
        /\ Places(k)[Hit(k)] = <<0, TablesOf(levels, 0)[j].idx>>
        /\ AnswerAt(k, Hit(k)) = Says(0, j, k)
    BY SMTT(60), <1>1, <1>3, <1>9 DEF PlacesFrom
  <2>2. ASSUME NEW i \in 1..m, i > j
        PROVE  Says(0, i, k) = None
    <3>1. m + 1 - i \in 1..m /\ m + 1 - (m + 1 - i) = i /\ m + 1 - i < Hit(k) /\ m + 1 - i \in 1..m + n
      BY <1>2, <1>1, <1>9, <2>2
    <3> QED
      BY <1>3, <1>7, <3>1
  <2>3. Says(0, j, k) # None
    BY <1>7, <2>1
  <2> HIDE DEF j
  <2>4. FirstSays(0, j, k)
    BY <2>1, <2>2, <2>3, <1>2 DEF FirstSays, l0
  <2>5. Hit(k) <= Len(Places(k)) /\ ~(Hit(k) > Len(Places(k)))
    BY <2>1, <1>1, <1>3, <1>9
  <2> QED
    BY <2>1, <2>4, <2>5 DEF FromTables
<1>10. CASE Hit(k) \in m + 1..m + n
  <2> DEFINE q == n + 1 - (Hit(k) - m)
  <2>1. q \in 1..n /\ Hit(k) - m \in 1..n /\ Hit(k) = m + (Hit(k) - m) /\ n + 1 - (Hit(k) - m) = q
        /\ Hit(k) <= m + n /\ Hit(k) # m + n + 1 /\ Hit(k) \in 1..m + n
    BY <1>1, <1>10
  <2>2. /\ Places(k)[Hit(k)] = <<1, TablesOf(levels, 1)[h[q]].idx>>
        /\ AnswerAt(k, Hit(k)) = Says(1, h[q], k)
    <3>1. /\ Places(k)[m + (Hit(k) - m)] = <<1, TablesOf(levels, 1)[h[n + 1 - (Hit(k) - m)]].idx>>
          /\ AnswerAt(k, m + (Hit(k) - m)) = Says(1, h[n + 1 - (Hit(k) - m)], k)
      BY <1>1, <1>3, <2>1 DEF PlacesFrom
    <3> QED
      BY <2>1, <3>1
  <2> HIDE DEF q
  <2>3. h[q] \in S /\ h[q] \in 1..Len(all)
    BY <2>1, <1>4, <1>5, <1>2
  <2>4. ASSUME NEW i \in DOMAIN all, i > h[q]
        PROVE  Says(1, i, k) = None
    <3>1. CASE i \notin S
      BY <1>5, <2>4, <3>1
    <3>2. CASE i \in S
      <4>1. PICK p \in 1..n : h[p] = i
        BY <1>4, <3>2
      <4>2. ~(p < q) /\ p # q
        <5>1. h[q] \in Int /\ h[p] \in Int
          BY <2>3, <4>1, <1>2
        <5> QED
          BY <5>1, <1>4, <2>1, <2>4, <4>1
      <4>3. n + 1 - p \in 1..n /\ n + 1 - (n + 1 - p) = p /\ m + (n + 1 - p) < Hit(k) /\ m + (n + 1 - p) \in 1..m + n
        BY <1>1, <2>1, <4>2 DEF q
      <4> QED
        BY <1>3, <1>7, <4>1, <4>3
    <3> QED
      BY <3>1, <3>2
  <2>5. \A i \in 1..m : Says(0, i, k) = None
    <3> TAKE i \in 1..m
    <3>1. m + 1 - i \in 1..m /\ m + 1 - (m + 1 - i) = i /\ m + 1 - i < Hit(k) /\ m + 1 - i \in 1..m + n
      BY <1>2, <1>1, <1>10
    <3> QED
      BY <1>3, <1>7, <3>1
  <2>6. Says(1, h[q], k) # None
    BY <1>7, <2>1, <2>2
  <2>7. FirstSays(1, h[q], k)
    BY <2>3, <2>4, <2>5, <2>6, <1>2 DEF FirstSays, l0, all
  <2>8. Hit(k) <= Len(Places(k)) /\ ~(Hit(k) > Len(Places(k)))
    BY <2>1, <1>1, <1>3
  <2> QED
    BY <2>2, <2>7, <2>8 DEF FromTables
<1> QED
  BY <1>1, <1>7, <1>8, <1>9, <1>10

\* It is only one.
LEMMA OneIsFirst ==
  ASSUME LevelsShape(levels), NEW k, NEW l, NEW j, FirstSays(l, j, k)
  PROVE  /\ ~Silent(k)
         /\ \A ll, jj : FirstSays(ll, jj, k) => ll = l /\ jj = j
<1>1. \A v \in 0..1 : DOMAIN TablesOf(levels, v) \subseteq Int
  BY TableOnLevel
<1> QED
  BY <1>1 DEF FirstSays, Silent

-----------------------------------------------------------------------------
(***************************************************************************)
(* What a file answers, whole or damaged.                                  *)
(***************************************************************************)
BlockFor(f, k) == Search(Len(f.index), LAMBDA i : f.index[i] > k) - 1

ScanBlock(r, k) ==
  LET e == Search(Len(r), LAMBDA i : r[i].key >= k)
  IN  IF r = ReadError THEN ReadError
      ELSE IF e > Len(r) THEN None
      ELSE IF r[e].key # k THEN None ELSE r[e].entry

LEMMA TableGetIs ==
  ASSUME NEW f, NEW k
  PROVE  TableGet(f, k) =
           IF BlockFor(f, k) = 0 THEN None ELSE ScanBlock(ReadBlock(f, BlockFor(f, k)), k)
<1>1. PICK b : b = BlockFor(f, k)
  OBVIOUS
<1>2. PICK r : r = ReadBlock(f, b)
  OBVIOUS
<1> DEFINE e == Search(Len(r), LAMBDA i : r[i].key >= k)
<1>3. TableGet(f, k) = IF b = 0 THEN None
                       ELSE IF r = ReadError THEN ReadError
                       ELSE IF e > Len(r) THEN None
                       ELSE IF r[e].key # k THEN None ELSE r[e].entry
  BY <1>1, <1>2 DEF TableGet, BlockFor
<1>4. ScanBlock(r, k) = IF r = ReadError THEN ReadError
                        ELSE IF e > Len(r) THEN None
                        ELSE IF r[e].key # k THEN None ELSE r[e].entry
  BY DEF ScanBlock
<1> HIDE DEF e
<1> QED
  BY <1>1, <1>2, <1>3, <1>4

\* A file as writeBlockBasedTable left it, with its filter.
Untouched(x) == \E c \in EntrySeqs : Writable(c) /\ c # <<>> /\ x = TableFile(c)

\* It opens, and every block fits its checksum.
Unharmed(x) == Opens(x.table) /\ \A b \in DOMAIN x.table.blocks : Whole(x.table, b)

LEMMA IntactIsUnharmed ==
  ASSUME NEW x, Intact(x.table)
  PROVE  Unharmed(x)
BY SMTT(60), BlockReads DEF Intact, Unharmed

LEMMA CellOf ==
  ASSUME NEW x, GoodFile(x), NEW b \in DOMAIN x.table.blocks
  PROVE  LET q == x.table.blocks[b].slots IN
         /\ 1 \in DOMAIN q
         /\ x.table.blocks[b] = [slots |-> q, crc |-> x.table.blocks[b].crc]
         /\ \A i \in DOMAIN q : q[i] \in Cell /\ q[i] = [key |-> q[i].key, slot |-> q[i].slot]
<1> DEFINE bs == x.table.blocks
<1>0. GoodFile(x)
  BY SMTT(60)
<1>1. \A c \in DOMAIN bs :
        /\ bs[c] = [slots |-> bs[c].slots, crc |-> bs[c].crc]
        /\ bs[c].slots \in Cells
  BY ONLY SMTT(60), <1>0, GoodCells DEF bs
<1>2. b \in DOMAIN bs
  OBVIOUS
<1>3. bs[b].slots # <<>>
  BY SMTT(60) DEF GoodFile, WellFormed
<1> HIDE DEF bs
<1>4. bs[b].slots \in Seq(Cell)
  BY <1>1, <1>2 DEF Cells, Cell
<1> DEFINE q == bs[b].slots
<1>5. q \in Seq(Cell) /\ q # <<>>
  BY <1>2, <1>3, <1>4
<1> HIDE DEF q
<1>6. (\A i \in DOMAIN q : q[i] \in Cell) /\ 1 \in DOMAIN q
  BY <1>5, SeqMember
<1>7. \A u \in Cell : u = [key |-> u.key, slot |-> u.slot]
  BY DEF Cell
<1>8. bs[b] = [slots |-> q, crc |-> bs[b].crc]
  BY <1>1, <1>2 DEF q
<1> QED
  BY <1>6, <1>7, <1>8 DEF q, bs

LEMMA UntouchedAnswers ==
  ASSUME NEW x, Untouched(x)
  PROVE  /\ GoodFile(x) /\ Opens(x.table)
         /\ \A b \in DOMAIN x.table.blocks : Whole(x.table, b)
         /\ \A k \in Key : Answer(x, k) = Content(x)[k]
<1>1. PICK c \in EntrySeqs : Writable(c) /\ c # <<>> /\ x = TableFile(c)
  BY DEF Untouched
<1>2. GoodFile(x) /\ EntriesOf(x.table) = c
  BY <1>1, WrittenGood
<1>3. x.table = BlockFile(c)
  BY <1>1 DEF TableFile
<1>4. \A b \in DOMAIN x.table.blocks : Whole(x.table, b)
  <2>1. \A b : DataBlock(c, b).crc = DataBlock(c, b).slots
    BY DEF DataBlock
  <2>2. x.table.blocks = [b \in 1..BlockCount(c) |-> DataBlock(c, b)]
    BY <1>3 DEF BlockFile
  <2> QED
    BY <2>1, <2>2 DEF Whole
<1> QED
  BY <1>1, <1>2, <1>3, <1>4, WrittenOpens, TableFileAnswersForWritten DEF Content

LEMMA BlockForIs ==
  ASSUME NEW x, GoodFile(x), Opens(x.table), NEW k \in Key
  PROVE  BlockFor(x.table, k) \in 0..Len(x.table.blocks)
<1> DEFINE n == Len(x.table.index)
           H == {i \in 1..n : x.table.index[i] > k}
<1>1. n \in Nat /\ H \in SUBSET (1..n)
  BY GoodCells
<1>2. Min(H \cup {n + 1}) \in 1..n + 1
  <2> HIDE DEF n, H
  <2> QED
    BY <1>1, LeastHit
<1>3. BlockFor(x.table, k) = Min(H \cup {n + 1}) - 1
  BY DEF BlockFor, Search
<1>4. Len(x.table.blocks) = n
  BY SMTT(60) DEF Opens
<1> HIDE DEF n, H
<1> QED
  BY SMTT(60), <1>1, <1>2, <1>3, <1>4

\* A block that does not read back ends the search; what one that does has to
\* say is one of its entries.
LEMMA GetReads ==
  ASSUME NEW x, GoodFile(x), Opens(x.table), NEW k \in Key,
         NEW b, b = BlockFor(x.table, k)
  PROVE  /\ b = 0 => TableGet(x.table, k) = None
         /\ b # 0 /\ ReadBlock(x.table, b) = ReadError => TableGet(x.table, k) = ReadError
         /\ b # 0 /\ ReadBlock(x.table, b) # ReadError /\ TableGet(x.table, k) # None =>
              /\ b \in DOMAIN x.table.blocks /\ Whole(x.table, b)
              /\ \E i \in DOMAIN x.table.blocks[b].slots :
                   /\ x.table.blocks[b].slots[i].key = k
                   /\ TableGet(x.table, k) = Decode(x.table.blocks[b].slots[i]).entry
<1> DEFINE f == x.table
           r == ReadBlock(f, b)
           H == {i \in 1..Len(r) : r[i].key >= k}
           e == Min(H \cup {Len(r) + 1})
<1>1. b = 0 => TableGet(f, k) = None
  BY ZenonT(60) DEF TableGet, BlockFor
<1>2. b # 0 /\ r = ReadError => TableGet(f, k) = ReadError
  BY ZenonT(60) DEF TableGet, BlockFor
<1>3. ASSUME b # 0, r # ReadError, TableGet(f, k) # None
      PROVE  /\ b \in DOMAIN f.blocks /\ Whole(f, b)
             /\ \E i \in DOMAIN f.blocks[b].slots :
                  /\ f.blocks[b].slots[i].key = k
                  /\ TableGet(f, k) = Decode(f.blocks[b].slots[i]).entry
  <2>1. b \in DOMAIN f.blocks
    <3>1. b \in 0..Len(f.blocks) /\ DOMAIN f.blocks = 1..Len(f.blocks) /\ Len(f.blocks) \in Nat
      BY SMTT(60), BlockForIs, GoodCells
    <3> QED
      BY SMTT(60), <3>1, <1>3
  <2>2. Whole(f, b) /\ r = [i \in DOMAIN f.blocks[b].slots |-> Decode(f.blocks[b].slots[i])]
    BY SMTT(60), <1>3 DEF ReadBlock, Whole
  <2>3. ~(e > Len(r)) /\ r[e].key = k /\ TableGet(f, k) = r[e].entry
    BY ZenonT(60), <1>3 DEF TableGet, BlockFor, Search
  <2>4. Len(f.blocks[b].slots) \in Nat /\ DOMAIN f.blocks[b].slots = 1..Len(f.blocks[b].slots)
    BY SMTT(60), <2>1, GoodCells
  <2>5. Len(r) = Len(f.blocks[b].slots) /\ DOMAIN r = 1..Len(r) /\ Len(r) \in Nat
    <3> HIDE DEF r
    <3> QED
      BY <2>2, <2>4
  <2>6. e \in 1..Len(r) + 1
    <3> HIDE DEF r
    <3>1. H \in SUBSET (1..Len(r))
      OBVIOUS
    <3> HIDE DEF H
    <3> QED
      BY <3>1, <2>5, LeastHit DEF e
  <2> HIDE DEF e, r, H
  <2>7. e \in 1..Len(r)
    BY SMTT(60), <2>3, <2>5, <2>6
  <2>8. e \in DOMAIN f.blocks[b].slots /\ r[e] = Decode(f.blocks[b].slots[e])
    BY <2>2, <2>4, <2>5, <2>7
  <2>9. Decode(f.blocks[b].slots[e]).key = f.blocks[b].slots[e].key
    BY DEF Decode
  <2> QED
    BY ZenonT(60), <2>1, <2>2, <2>3, <2>8, <2>9
<1> QED
  BY SMTT(60), <1>1, <1>2, <1>3

\* Garbage is never an answer: it does not fit its checksum.
LEMMA AnswerIsEntry ==
  ASSUME NEW x, GoodFile(x), NEW k \in Key
  PROVE  Answer(x, k) \in Entry \cup {None}
<1> DEFINE f == x.table
           b == BlockFor(f, k)
<1>1. CASE ~Found(x.filter, k) \/ ~Opens(f) \/ TableGet(f, k) \in {None, ReadError}
  BY <1>1 DEF Answer
<1>2. CASE Opens(f) /\ TableGet(f, k) \notin {None, ReadError}
  <2>1. PICK i \in DOMAIN f.blocks[b].slots :
          /\ b \in DOMAIN f.blocks /\ Whole(f, b)
          /\ TableGet(f, k) = Decode(f.blocks[b].slots[i]).entry
    BY SMTT(60), <1>2, GetReads
  <2>2. f.blocks[b].slots[i].slot # Garbage
    BY SMTT(60), <2>1 DEF GoodFile, WellFormed, Whole
  <2>3. f.blocks[b].slots[i] \in Cell
    BY <2>1, CellOf
  <2>4. TableGet(f, k) \in Entry
    BY <2>1, <2>2, <2>3, DecodedCell
  <2> QED
    BY SMTT(60), <2>4 DEF Answer
<1> QED
  BY <1>1, <1>2

\* A garbled block costs its own keys at most.
LEMMA GarbledAnswers ==
  ASSUME NEW x, Untouched(x), NEW b \in DOMAIN x.table.blocks,
         NEW y, y = [x EXCEPT !.table = [x.table EXCEPT !.blocks[b].slots[1].slot = Garbage]]
  PROVE  /\ ~Unharmed(y)
         /\ \A k \in Key :
              \/ Answer(y, k) = Answer(x, k)
              \/ /\ Answer(y, k) = None
                 /\ Answer(x, k) # None => \E i \in DOMAIN x.table.blocks[b].slots :
                                              x.table.blocks[b].slots[i].key = k
<1> DEFINE f == x.table
           g == y.table
<1>1. GoodFile(x) /\ Opens(f) /\ Whole(f, b)
  BY UntouchedAnswers
<1>2. /\ y.filter = x.filter /\ g.index = f.index
      /\ DOMAIN g.blocks = DOMAIN f.blocks /\ Len(g.blocks) = Len(f.blocks)
      /\ g.blocks[b].crc = f.blocks[b].crc
      /\ g.blocks[b].slots[1].slot = Garbage
      /\ \A c \in DOMAIN f.blocks \ {b} : g.blocks[c] = f.blocks[c]
  <2> DEFINE bs == f.blocks
             cells == bs[b].slots
             bb == [bs EXCEPT ![b].slots[1].slot = Garbage]
  <2>0. GoodFile(x)
    BY <1>1
  <2>1. /\ 1 \in DOMAIN bs[b].slots
        /\ bs[b] = [slots |-> bs[b].slots, crc |-> bs[b].crc]
        /\ bs[b].slots[1] = [key |-> bs[b].slots[1].key, slot |-> bs[b].slots[1].slot]
    <3> HIDE DEF f, g, bs
    <3>1. LET q == x.table.blocks[b].slots IN
          /\ 1 \in DOMAIN q
          /\ x.table.blocks[b] = [slots |-> q, crc |-> x.table.blocks[b].crc]
          /\ \A i \in DOMAIN q : q[i] \in Cell /\ q[i] = [key |-> q[i].key, slot |-> q[i].slot]
      BY <2>0, CellOf
    <3> QED
      BY SMTT(60), <3>1 DEF bs, f
  <2>2. /\ x = [table |-> f, filter |-> x.filter]
        /\ f = [index |-> f.index, blocks |-> bs]
    BY SMTT(60), <2>0 DEF GoodFile, DataFile
  <2>3. DOMAIN bs = 1..Len(bs) /\ Len(bs) \in Nat
    BY ONLY <2>0, GoodCells, SMTT(60) DEF f, bs
  <2>4. g = [index |-> f.index, blocks |-> bb] /\ y.filter = x.filter /\ g.index = f.index /\ g.blocks = bb
    <3> DEFINE gg == [f EXCEPT !.blocks = bb]
    <3>1. y = [x EXCEPT !.table = gg]
      OBVIOUS
    <3> HIDE DEF bb
    <3>2. gg = [index |-> f.index, blocks |-> bb]
      BY SMTT(60), <2>2
    <3> HIDE DEF gg
    <3>3. y.table = gg /\ y.filter = x.filter
      BY <2>2, <3>1
    <3> QED
      BY <3>2, <3>3
  <2> HIDE DEF f, g
  <2>5. b \in DOMAIN bs
    BY DEF f
  <2> HIDE DEF bs
  <2>6. /\ DOMAIN bb = DOMAIN bs
        /\ bb[b] = [slots |-> [cells EXCEPT ![1].slot = Garbage], crc |-> bs[b].crc]
        /\ \A c \in DOMAIN bs \ {b} : bb[c] = bs[c]
    BY ONLY <2>1, <2>5
  <2>7. [cells EXCEPT ![1].slot = Garbage][1].slot = Garbage
    BY ONLY SMTT(60), <2>1
  <2>8. Len(bb) = Len(bs)
    <3> HIDE DEF bb
    <3> QED
      BY SMTT(60), <2>3, <2>6
  <2> HIDE DEF bb, cells
  <2>9. bb[b].crc = bs[b].crc /\ bb[b].slots[1].slot = Garbage
    BY SMTT(60), <2>6, <2>7
  <2> QED
    BY <2>4, <2>6, <2>8, <2>9 DEF bs
<1>3. ReadBlock(g, b) = ReadError
  <2>1. f.blocks[b].slots[1].slot # Garbage
    BY ZenonT(60), <1>1, GoodCells DEF GoodFile, WellFormed, Whole
  <2>2. g.blocks[b].crc # g.blocks[b].slots
    BY ZenonT(60), <2>1, <1>1, <1>2 DEF Whole
  <2> QED
    BY ZenonT(60), <2>2 DEF ReadBlock
<1>4. Opens(g)
  BY ZenonT(60), <1>1, <1>2 DEF Opens
<1>5. ~Unharmed(y)
  <2>1. g.blocks[b].crc # g.blocks[b].slots /\ b \in DOMAIN g.blocks
    <3>1. f.blocks[b].slots[1].slot # Garbage
      BY ZenonT(60), <1>1, GoodCells DEF GoodFile, WellFormed, Whole
    <3> QED
      BY ZenonT(60), <3>1, <1>1, <1>2 DEF Whole
  <2> QED
    BY ZenonT(60), <2>1 DEF Unharmed, Whole
<1>6. GoodFile(y)
  BY SMTT(60), <1>1, GarbledStaysGood, UntouchedAnswers DEF Whole
<1>7. ASSUME NEW k \in Key
      PROVE  \/ Answer(y, k) = Answer(x, k)
             \/ /\ Answer(y, k) = None
                /\ Answer(x, k) # None => \E i \in DOMAIN f.blocks[b].slots :
                                             f.blocks[b].slots[i].key = k
  <2>1. BlockFor(g, k) = BlockFor(f, k)
    <3> HIDE DEF f, g
    <3> QED
      BY SMTT(60), <1>2 DEF BlockFor
  <2> DEFINE c == BlockFor(f, k)
  <2>2. c \in 0..Len(f.blocks) /\ DOMAIN f.blocks = 1..Len(f.blocks) /\ Len(f.blocks) \in Nat
    BY SMTT(60), <1>1, BlockForIs, GoodCells
  <2>3. CASE c = b
    <3>0. b # 0
      BY SMTT(60), <2>2
    <3>1. TableGet(g, k) = ReadError
      BY <1>3, <1>4, <1>6, <2>1, <2>3, <3>0, GetReads
    <3>2. Answer(y, k) = None
      BY <3>1 DEF Answer
    <3>3. ASSUME Answer(x, k) # None
          PROVE  \E i \in DOMAIN f.blocks[b].slots : f.blocks[b].slots[i].key = k
      <4>1. TableGet(f, k) # None /\ TableGet(f, k) # ReadError
        BY SMTT(60), <3>3 DEF Answer
      <4> QED
        BY SMTT(60), <4>1, <1>1, <2>3, <3>0, GetReads
    <3> QED
      BY <3>2, <3>3
  <2>4. CASE c # b
    <3>1. c # 0 => ReadBlock(g, c) = ReadBlock(f, c)
      <4>1. c # 0 => g.blocks[c] = f.blocks[c]
        <5> HIDE DEF c, f, g
        <5> QED
          BY SMTT(60), <1>2, <2>2, <2>4
      <4> HIDE DEF c, f, g
      <4> QED
        BY <4>1, Zenon DEF ReadBlock
    <3>2. TableGet(g, k) = TableGet(f, k)
      BY <2>1, <3>1, TableGetIs
    <3> QED
      BY ZenonT(60), <3>2, <1>1, <1>2, <1>4 DEF Answer
  <2> QED
    BY SMTT(60), <2>3, <2>4
<1> QED
  BY <1>5, <1>7

\* A file that lost its end is not opened.
LEMMA ShortAnswers ==
  ASSUME NEW x, Untouched(x),
         NEW y, y = [x EXCEPT !.table = [x.table EXCEPT !.blocks = Front(@)]]
  PROVE  ~Unharmed(y) /\ \A k \in Key : Answer(y, k) = None
<1>1. GoodFile(x) /\ Opens(x.table)
  BY SMTT(60), UntouchedAnswers
<1>2. /\ Len(x.table.index) \in Nat \ {0}
      /\ Len(x.table.blocks) = Len(x.table.index)
      /\ x.table.blocks \in Seq([slots : Cells, crc : Cells])
      /\ x \in DataFile
  BY <1>1, GoodCells DEF GoodFile, DataFile, Opens
<1>3. Len(Front(x.table.blocks)) = Len(x.table.blocks) - 1
  BY <1>2 DEF Front
<1>4. y.table.index = x.table.index /\ y.table.blocks = Front(x.table.blocks)
  BY <1>2 DEF DataFile
<1>5. ~Opens(y.table)
  BY <1>2, <1>3, <1>4 DEF Opens
<1> QED
  BY <1>5 DEF Unharmed, Answer

-----------------------------------------------------------------------------
(***************************************************************************)
(* The invariant behind LookupsAgree.                                      *)
(***************************************************************************)
Named(l) == Numbers(TablesOf(levels, l))

\* A file that passes every check is one that was written.
NamedUntouched ==
  \A l \in 0..1 : \A i \in Named(l) : Unharmed(files[l][i]) => Untouched(files[l][i])

\* Some input of the next merge will fail.
Harmed == \E l \in 0..1 : \E i \in Named(l) : ~Unharmed(files[l][i])

\* Where the MemTable has nothing, the tables have the entry last written.
TablesAgree ==
  \A k \in Key : k \notin lost /\ ListGet(list, k) = None => FromTables(k) = kv[k]

InputsOpen == \A j \in DOMAIN Inputs : Opens(InputFiles[j].table)

NewRangesFit ==
  \A j \in DOMAIN merge.new : Fits(merge.new[j].range, files[1][merge.new[j].idx])

LookupInv ==
  /\ NamedUntouched /\ RangesFit /\ TablesAgree
  /\ lost # {} => Harmed
  /\ merge.pc = "loop" => InputsOpen
  /\ NewRangesFit

LEMMA FromTablesIs ==
  LevelsShape(levels) /\ RangesFit => \A x \in Key :
    /\ Silent(x) => FromTables(x) = None
    /\ \A l, j : FirstSays(l, j, x) => FromTables(x) = Says(l, j, x)
<1> SUFFICES ASSUME LevelsShape(levels), RangesFit, NEW k \in Key
             PROVE  /\ Silent(k) => FromTables(k) = None
                    /\ \A l, j : FirstSays(l, j, k) => FromTables(k) = Says(l, j, k)
  OBVIOUS
<1>1. \/ Silent(k) /\ FromTables(k) = None
      \/ \E l, j : FirstSays(l, j, k) /\ FromTables(k) = Says(l, j, k)
  BY TablesAnswer
<1>2. ASSUME Silent(k)
      PROVE  FromTables(k) = None
  BY <1>1, <1>2, OneIsFirst
<1>3. ASSUME NEW l, NEW j, FirstSays(l, j, k)
      PROVE  FromTables(k) = Says(l, j, k)
  BY <1>1, <1>3, OneIsFirst
<1> QED
  BY <1>2, <1>3

LEMMA OneAnswers ==
  LevelsShape(levels) /\ RangesFit => \A x \in Key : Silent(x) \/ \E l, j : FirstSays(l, j, x)
BY TablesAnswer

\* The same after a step.
LEMMA FromTablesIsNext ==
  (LevelsShape(levels) /\ RangesFit => \A x \in Key :
     /\ Silent(x) => FromTables(x) = None
     /\ \A l, j : FirstSays(l, j, x) => FromTables(x) = Says(l, j, x))'
BY FromTablesIs, PTL

LEMMA OneAnswersNext ==
  (LevelsShape(levels) /\ RangesFit => \A x \in Key : Silent(x) \/ \E l, j : FirstSays(l, j, x))'
BY OneAnswers, PTL

\* Tables that answer the same in the same order.
LEMMA SameAnswers ==
  ASSUME LevelsShape(levels), RangesFit, LevelsShape(levels'), RangesFit', NEW k \in Key,
         \A l \in 0..1 :
           /\ DOMAIN TablesOf(levels', l) = DOMAIN TablesOf(levels, l)
           /\ \A j \in DOMAIN TablesOf(levels, l) : Says(l, j, k)' = Says(l, j, k)
  PROVE  FromTables(k)' = FromTables(k)
<1>1. /\ Silent(k)' => FromTables(k)' = None
      /\ \A l, j : FirstSays(l, j, k)' => FromTables(k)' = Says(l, j, k)'
  BY FromTablesIsNext
<1>2. CASE Silent(k)
  <2>1. Silent(k)'
    BY <1>2 DEF Silent
  <2> QED
    BY <1>1, <1>2, <2>1, FromTablesIs
<1>3. CASE \E l, j : FirstSays(l, j, k)
  <2>1. PICK l, j : FirstSays(l, j, k)
    BY <1>3
  <2>2. FirstSays(l, j, k)'
    BY <2>1 DEF FirstSays
  <2>3. l \in 0..1 /\ j \in DOMAIN TablesOf(levels, l)
    BY <2>1 DEF FirstSays
  <2>4. Says(l, j, k)' = Says(l, j, k)
    BY <2>3
  <2> QED
    BY <1>1, <2>1, <2>2, <2>4, FromTablesIs
<1> QED
  BY <1>2, <1>3, OneAnswers

\* Levels and the files they name stay.
LEMMA SameNamed ==
  ASSUME LevelsShape(levels), NamedFiles, RangesFit, NamedUntouched, levels' = levels,
         \A l \in 0..1 : \A i \in Named(l) : files'[l][i] = files[l][i]
  PROVE  /\ RangesFit' /\ NamedUntouched' /\ (Harmed => Harmed') /\ (InputsOpen => InputsOpen')
         /\ \A k \in Key : FromTables(k)' = FromTables(k)
<1>1. ASSUME NEW l \in 0..1, NEW j \in DOMAIN TablesOf(levels, l)
      PROVE  TableAt(l, j)' = TableAt(l, j)
  <2>1. TablesOf(levels, l)[j].idx \in Named(l)
    BY <1>1 DEF Named, Numbers
  <2> QED
    BY <1>1, <2>1 DEF TableAt
<1>2. RangesFit'
  BY <1>1 DEF RangesFit
<1>3. NamedUntouched' /\ (Harmed => Harmed')
  BY DEF NamedUntouched, Harmed, Named
<1>4. ASSUME NEW k \in Key
      PROVE  FromTables(k)' = FromTables(k)
  <2>1. \A l \in 0..1 : \A j \in DOMAIN TablesOf(levels, l) : Says(l, j, k)' = Says(l, j, k)
    BY <1>1 DEF Says
  <2> QED
    BY <1>2, <2>1, SameAnswers
<1>5. InputsOpen => InputsOpen'
  <2>1. Inputs' = Inputs /\ InputFiles' = InputFiles
    BY SameInputs DEF Named
  <2> QED
    BY <2>1 DEF InputsOpen
<1> QED
  BY <1>2, <1>3, <1>4, <1>5

LEMMA PutKeepsLookup ==
  ASSUME DataInv, MergeInv, LookupInv, NEW w \in [key : Key, entry : Entry], NEW height \in 1..MaxLevels,
         Put(w, height)
  PROVE  LookupInv'
<1>1. /\ list' = Add(list, w.key, w.entry, height)
      /\ kv' = [kv EXCEPT ![w.key] = w.entry]
      /\ lost' = lost \ {w.key}
      /\ files' = files /\ levels' = levels /\ merge' = merge
  BY DEF Put
<1>2. list \in SkipLists /\ TowersSound(list) /\ kv \in Table /\ w.key \in Key /\ w.entry \in Entry
  BY DEF DataInv, MemTableInv
<1>3. \A j \in Key : ListGet(list', j) = IF j = w.key THEN w.entry ELSE ListGet(list, j)
  BY <1>1, <1>2, SkipListIsMap
<1>4. w.entry # None
  BY <1>2, SentinelsDiffer DEF Entry
<1>5. /\ RangesFit' /\ NamedUntouched' /\ (Harmed => Harmed') /\ (InputsOpen => InputsOpen')
      /\ \A k \in Key : FromTables(k)' = FromTables(k)
  <2>1. LevelsShape(levels) /\ NamedFiles /\ RangesFit /\ NamedUntouched
    BY DEF DataInv, ManifestInv, MergeInv, LookupInv
  <2> QED
    BY <1>1, <2>1, SameNamed
<1>6. TablesAgree'
  <2> SUFFICES ASSUME NEW k \in Key, k \notin lost', ListGet(list', k) = None
               PROVE  FromTables(k)' = kv'[k]
    BY DEF TablesAgree
  <2>1. k # w.key /\ k \notin lost /\ ListGet(list, k) = None
    BY <1>1, <1>3, <1>4
  <2>2. kv'[k] = kv[k]
    BY <1>1, <1>2, <2>1 DEF Table
  <2> QED
    BY <1>5, <2>1, <2>2 DEF LookupInv, TablesAgree
<1>7. lost' # {} => Harmed'
  BY <1>1, <1>5 DEF LookupInv
<1>8. (merge'.pc = "loop" => InputsOpen') /\ NewRangesFit'
  BY <1>1, <1>5 DEF LookupInv, NewRangesFit
<1> QED
  BY <1>5, <1>6, <1>7, <1>8 DEF LookupInv

\* The table of a flush answers first, for exactly the keys the MemTable had.
LEMMA FlushKeepsLookup == DataInv /\ MergeInv /\ LookupInv /\ Flush => LookupInv'
<1> SUFFICES ASSUME DataInv, MergeInv, LookupInv, Flush
             PROVE  LookupInv'
  OBVIOUS
<1> DEFINE i == NextIndex(Numbers(TablesOf(levels, 0)))
           t == [idx |-> i, range |-> NoRange]
           e == Entries(list)
           t0 == TablesOf(levels, 0)
<1>m. PICK m : m = Len(t0)
  OBVIOUS
<1>0. LevelsShape(levels) /\ FilesShape /\ MemTableInv
  BY DEF DataInv, ManifestInv
<1>1. /\ Idle /\ list.size = FLUSH_THRESHOLD /\ i \in Idx /\ Writable(e)
      /\ WriteFile(0, i, e) /\ levels' = WithTable(levels, 0, t)
      /\ merge' = merge \/ merge' = [merge EXCEPT !.pc = "start"]
      /\ list' = NewSkipList /\ kv' = kv /\ lost' = lost
  BY DEF Flush
<1>2. e \in EntrySeqs /\ Len(e) = FLUSH_THRESHOLD /\ \A k \in Key : TableOf(e)[k] = ListGet(list, k)
  BY <1>0, <1>1, EntriesAreTheMap DEF MemTableInv
<1> HIDE DEF e
<1>3. Untouched(TableFile(e)) /\ \A k \in Key : Answer(TableFile(e), k) = ListGet(list, k)
  <2>1. Len(e) # 0
    BY <1>2, ThresholdsFitTables
  <2>2. e # <<>>
    BY <2>1
  <2>3. Untouched(TableFile(e))
    BY <1>1, <1>2, <2>2 DEF Untouched
  <2>4. \A k \in Key : Answer(TableFile(e), k) = TableOf(e)[k]
    BY <1>1, <1>2, TableFileAnswersForWritten
  <2> QED
    BY <1>2, <2>3, <2>4
<1>4. /\ TablesOf(levels', 0) = Append(t0, t) /\ TablesOf(levels', 1) = TablesOf(levels, 1)
      /\ t0 \in Seq(AnyTable({NoRange})) /\ LevelsShape(levels')
  BY <1>0, <1>1, FlushKeepsShape
<1>5. t \in AnyTable({NoRange}) /\ t.idx = i
  BY <1>1 DEF AnyTable
<1>6. /\ m \in Nat /\ DOMAIN t0 = 1..m /\ DOMAIN TablesOf(levels', 0) = 1..m + 1
      /\ TablesOf(levels', 0)[m + 1] = t
      /\ \A j \in 1..m : TablesOf(levels', 0)[j] = t0[j]
  <2> HIDE DEF t, t0
  <2>1. LET s == Append(t0, t) IN
        /\ m \in Nat /\ DOMAIN s = 1..m + 1 /\ s[m + 1] = t /\ DOMAIN t0 = 1..m
        /\ \A j \in 1..m : s[j] = t0[j]
    BY <1>4, <1>5, <1>m, AppendAt
  <2> QED
    BY <1>4, <2>1
<1>7. \A j \in 1..m : t0[j].idx \in Idx /\ t0[j].idx # i
  <2>1. \A j \in 1..m : t0[j].idx \in Idx /\ t0[j].idx \in Numbers(t0)
    BY <1>0, <1>6, TableOnLevel
  <2>2. Numbers(t0) \in SUBSET Nat /\ IsFiniteSet(Numbers(t0))
    <3>1. Numbers(t0) \subseteq Idx
      BY <1>6, <2>1 DEF Numbers
    <3>2. Numbers(t0) = {t0[j].idx : j \in 1..m}
      BY <1>6 DEF Numbers
    <3> DEFINE S == 1..m
               f == [j \in S |-> t0[j].idx]
    <3>3. DOMAIN f = S /\ f = [j \in S |-> f[j]] /\ \A j \in S : f[j] = t0[j].idx
      OBVIOUS
    <3>4. IsFiniteSet(S)
      BY <1>6, FS_Interval
    <3> HIDE DEF f, S
    <3>5. IsFiniteSet({f[j] : j \in S})
      BY <3>3, <3>4, ImageIsFinite
    <3>6. {f[j] : j \in S} = Numbers(t0)
      BY <3>2, <3>3 DEF S
    <3>7. Idx \subseteq Nat
      BY DEF Idx
    <3> QED
      BY <3>1, <3>5, <3>6, <3>7
  <2>3. \A x \in Numbers(t0) : x < i /\ i \in Nat
    BY <2>2, NextIndexIsFresh
  <2>4. \A x \in Numbers(t0) : x # i
    BY <2>2, <2>3
  <2> QED
    BY <2>1, <2>4
<1> HIDE DEF i, t
<1>8. /\ files'[0][i] = TableFile(e) /\ files'[1] = files[1]
      /\ \A j \in Idx \ {i} : files'[0][j] = files[0][j]
  BY <1>0, <1>1 DEF WriteFile, FilesShape
<1> HIDE DEF t0
<1>9. /\ \A j \in 1..m : TableAt(0, j)' = TableAt(0, j)
      /\ TableAt(0, m + 1)' = TableFile(e)
      /\ \A j \in DOMAIN TablesOf(levels, 1) : TableAt(1, j)' = TableAt(1, j)
  BY <1>4, <1>5, <1>6, <1>7, <1>8 DEF TableAt, t0
<1>10. RangesFit'
  BY <1>4, <1>9 DEF RangesFit, LookupInv
<1>11. ASSUME NEW k \in Key
       PROVE  /\ \A j \in 1..m : Says(0, j, k)' = Says(0, j, k)
              /\ Says(0, m + 1, k)' = ListGet(list, k)
              /\ \A j \in DOMAIN TablesOf(levels, 1) : Says(1, j, k)' = Says(1, j, k)
  BY <1>3, <1>9 DEF Says
<1>12. \A j \in 1..m + 1 : j \in 1..m \/ j = m + 1
  BY <1>6
<1>13. ASSUME NEW k \in Key, ListGet(list, k) # None
       PROVE  FromTables(k)' = ListGet(list, k)
  <2>1. m + 1 \in 1..m + 1 /\ \A j \in 1..m + 1 : ~(j > m + 1)
    BY <1>6
  <2>2. FirstSays(0, m + 1, k)'
    BY <1>6, <1>11, <1>13, <2>1 DEF FirstSays
  <2> QED
    BY <1>4, <1>10, <1>11, <1>13, <2>2, FromTablesIsNext
<1>14. ASSUME NEW k \in Key, ListGet(list, k) = None
       PROVE  FromTables(k)' = FromTables(k)
  <2>0. LevelsShape(levels) /\ RangesFit
    BY <1>0 DEF LookupInv
  <2>1. Says(0, m + 1, k)' = None
    BY <1>11, <1>14
  <2>2. ASSUME Silent(k)
        PROVE  FromTables(k)' = FromTables(k)
    <3>1. Silent(k)'
      BY <1>4, <1>6, <1>11, <1>12, <2>1, <2>2 DEF Silent, t0
    <3> QED
      BY <1>4, <1>10, <2>0, <2>2, <3>1, FromTablesIs, FromTablesIsNext
  <2>3. ASSUME NEW l, NEW j, FirstSays(l, j, k)
        PROVE  FromTables(k)' = FromTables(k)
    <3>1. l \in 0..1 /\ j \in DOMAIN TablesOf(levels, l) /\ 1..m \subseteq 1..m + 1
      BY <1>6, <2>3 DEF FirstSays
    <3>2. CASE l = 0
      <4>1. j \in 1..m /\ j \in 1..m + 1
        BY <1>6, <3>1, <3>2 DEF t0
      <4>2. FirstSays(0, j, k)'
        BY <1>6, <1>11, <1>12, <2>1, <2>3, <3>2, <4>1 DEF FirstSays, t0
      <4> QED
        BY <1>4, <1>10, <1>11, <2>0, <2>3, <3>2, <4>1, <4>2, FromTablesIs, FromTablesIsNext
    <3>3. CASE l = 1
      <4>1. FirstSays(1, j, k)'
        BY <1>4, <1>6, <1>11, <1>12, <2>1, <2>3, <3>1, <3>3 DEF FirstSays, t0
      <4> QED
        BY <1>4, <1>10, <1>11, <2>0, <2>3, <3>1, <3>3, <4>1, FromTablesIs, FromTablesIsNext
    <3> QED
      BY <3>1, <3>2, <3>3
  <2> QED
    BY <2>0, <2>2, <2>3, OneAnswers
<1>15. TablesAgree'
  <2> SUFFICES ASSUME NEW k \in Key, k \notin lost'
               PROVE  FromTables(k)' = kv'[k]
    BY DEF TablesAgree
  <2>1. CASE ListGet(list, k) = None
    BY <1>1, <1>14, <2>1 DEF LookupInv, TablesAgree
  <2>2. CASE ListGet(list, k) # None
    <3>1. ListGet(list, k) = kv[k]
      BY <1>0, <2>2, GetIsLookup DEF MemTableInv
    <3> QED
      BY <1>1, <1>13, <2>2, <3>1
  <2> QED
    BY <2>1, <2>2
<1>16. /\ \A l \in 0..1 : \A j \in Named(l) : j \in Named(l)' /\ files'[l][j] = files[l][j]
       /\ \A l \in 0..1 : \A j \in Named(l)' : j \in Named(l) \/ files'[l][j] = TableFile(e)
  <2>1. \A j \in Named(0) : \E h \in 1..m : j = t0[h].idx
    BY <1>6 DEF Named, Numbers, t0
  <2>2. \A j \in Named(0) : j \in Named(0)' /\ files'[0][j] = files[0][j]
    <3> TAKE j \in Named(0)
    <3>1. PICK h \in 1..m : j = t0[h].idx
      BY <2>1
    <3>2. j = TablesOf(levels', 0)[h].idx /\ h \in DOMAIN TablesOf(levels', 0)
      BY <1>6, <1>12, <3>1
    <3> QED
      BY <1>7, <1>8, <3>1, <3>2 DEF Named, Numbers
  <2>3. \A j \in Named(0)' : j \in Named(0) \/ files'[0][j] = TableFile(e)
    <3> TAKE j \in Named(0)'
    <3>1. PICK h \in 1..m + 1 : j = TablesOf(levels', 0)[h].idx
      BY <1>6 DEF Named, Numbers
    <3>2. CASE h \in 1..m
      BY <1>6, <3>1, <3>2 DEF Named, Numbers, t0
    <3>3. CASE h = m + 1
      BY <1>5, <1>6, <1>8, <3>1, <3>3
    <3> QED
      BY <1>12, <3>1, <3>2, <3>3
  <2>4. Named(1)' = Named(1) /\ files'[1] = files[1]
    BY <1>4, <1>8 DEF Named
  <2>5. \A l \in 0..1 : l = 0 \/ l = 1
    OBVIOUS
  <2> QED
    BY <2>2, <2>3, <2>4, <2>5
<1>17. NamedUntouched' /\ (Harmed => Harmed')
  <2>1. NamedUntouched'
    BY <1>3, <1>16 DEF NamedUntouched, LookupInv
  <2>2. Harmed => Harmed'
    BY <1>16 DEF Harmed
  <2> QED
    BY <2>1, <2>2
<1>18. merge'.new = merge.new /\ merge'.pc # "loop"
  <2>1. merge.pc = "idle"
    BY <1>1 DEF Idle
  <2>2. merge = [pc |-> merge.pc, readers |-> merge.readers, heap |-> merge.heap,
              current |-> merge.current, chunk |-> merge.chunk, new |-> merge.new]
    BY DEF MergeInv, MergeShape
  <2> QED
    BY <1>1, <2>1, <2>2
<1>19. NewRangesFit'
  BY <1>8, <1>18 DEF NewRangesFit, LookupInv
<1> QED
  BY <1>1, <1>10, <1>15, <1>17, <1>18, <1>19 DEF LookupInv

-----------------------------------------------------------------------------
(***************************************************************************)
(* The steps of a merge that leave the levels, and a start.                *)
(***************************************************************************)
\* A step that leaves the levels and what they name leaves what they answer.
LEMMA NamedStay ==
  ASSUME DataInv, MergeInv, LookupInv, levels' = levels, list' = list, kv' = kv, lost' = lost,
         \A l \in 0..1 : \A i \in Named(l) : files'[l][i] = files[l][i]
  PROVE  /\ RangesFit' /\ NamedUntouched' /\ TablesAgree'
         /\ lost' # {} => Harmed'
         /\ InputsOpen => InputsOpen'
<1>1. LevelsShape(levels) /\ NamedFiles /\ RangesFit /\ NamedUntouched
  BY DEF DataInv, ManifestInv, MergeInv, LookupInv
<1>2. /\ RangesFit' /\ NamedUntouched' /\ (Harmed => Harmed') /\ (InputsOpen => InputsOpen')
      /\ \A k \in Key : FromTables(k)' = FromTables(k)
  BY <1>1, SameNamed
<1>3. TablesAgree'
  BY <1>2 DEF TablesAgree, LookupInv
<1> QED
  BY <1>2, <1>3 DEF LookupInv

LEMMA StartKeepsLookup == DataInv /\ MergeInv /\ LookupInv /\ StartMerge => LookupInv'
<1> SUFFICES ASSUME DataInv, MergeInv, LookupInv, StartMerge
             PROVE  LookupInv'
  OBVIOUS
<1> DEFINE R == [j \in DOMAIN Inputs |-> Advance(Inputs[j])]
           H == {Item(R, j) : j \in DOMAIN R}
<1>1. /\ levels' = levels /\ files' = files /\ list' = list /\ kv' = kv /\ lost' = lost
      /\ \A j \in DOMAIN Inputs : Opens(FileOf(Inputs[j]))
      /\ merge' = [merge EXCEPT !.pc = "loop", !.readers = R, !.heap = H]
  BY DEF StartMerge
<1> HIDE DEF R, H
<1>2. merge = [pc |-> merge.pc, readers |-> merge.readers, heap |-> merge.heap,
               current |-> merge.current, chunk |-> merge.chunk, new |-> merge.new]
  BY DEF MergeInv, MergeShape
<1>3. merge'.new = merge.new
  BY <1>1, <1>2
<1>4. InputsOpen
  BY <1>1, InputFileOf DEF InputsOpen
<1>5. NewRangesFit'
  BY <1>1, <1>3 DEF NewRangesFit, LookupInv
<1>6. /\ RangesFit' /\ NamedUntouched' /\ TablesAgree'
      /\ lost' # {} => Harmed'
      /\ InputsOpen => InputsOpen'
  BY <1>1, NamedStay
<1> QED
  BY <1>4, <1>5, <1>6 DEF LookupInv

\* The outputs of a merge that fails are in no level.
LEMMA AbortKeepsLookup == DataInv /\ MergeInv /\ LookupInv /\ Abort => LookupInv'
<1> SUFFICES ASSUME DataInv, MergeInv, LookupInv, Abort
             PROVE  LookupInv'
  OBVIOUS
<1>0. LevelsShape(levels) /\ NamedFiles /\ FilesShape
  BY DEF DataInv, ManifestInv, MergeInv
<1>1. /\ merge' = NoMerge /\ levels' = levels /\ list' = list /\ kv' = kv /\ lost' = lost
      /\ files' = [files EXCEPT ![1] = [i \in Idx |->
                     IF i \in Numbers(merge.new) THEN NoFile ELSE @[i]]]
  BY DEF Abort
<1>2. merge'.pc = "idle" /\ merge'.new = <<>>
  BY <1>1 DEF NoMerge
<1>3. ASSUME NEW l \in 0..1, NEW i \in Named(l)
      PROVE  files'[l][i] = files[l][i]
  <2>1. i \in Idx /\ i \in Numbers(TablesOf(levels, l))
    BY <1>0, <1>3, NamedContents DEF Named
  <2>2. CASE l = 0
    BY <1>0, <1>1, <2>2 DEF FilesShape
  <2>3. CASE l = 1
    <3>1. i \notin Numbers(merge.new)
      BY <2>1, <2>3 DEF MergeInv, OutputsGood, Numbers
    <3> QED
      BY <1>0, <1>1, <2>1, <2>3, <3>1 DEF FilesShape
  <2> QED
    BY <2>2, <2>3
<1>4. NewRangesFit'
  BY <1>2 DEF NewRangesFit
<1> QED
  BY <1>1, <1>2, <1>3, <1>4, NamedStay DEF LookupInv

\* The keys of a chunk are between its first and its last one.
LEMMA ChunkFits ==
  ASSUME FreeNumbers # {}, Writable(merge.chunk), merge.chunk \in EntrySeqs, merge.chunk # <<>>
  PROVE  Fits(ChunkTable.range, TableFile(merge.chunk)) /\ Untouched(TableFile(merge.chunk))
<1> DEFINE es == merge.chunk
           n == Len(es)
<1>1. n \in Nat \ {0} /\ DOMAIN es = 1..n /\ StrictlySorted(Keys(es))
  <2>1. es \in Seq([key : Key, entry : Entry]) /\ es # <<>>
    BY DEF EntrySeqs
  <2> HIDE DEF es
  <2>2. n \in Nat \ {0} /\ DOMAIN es = 1..n
    BY <2>1
  <2> QED
    BY <2>2 DEF Writable, es
<1>2. ChunkTable.range = [min |-> es[1].key, max |-> es[n].key]
  <2> DEFINE keys == Keys(es)
  <2>1. keys = [i \in 1..n |-> es[i].key]
    BY <1>1 DEF Keys
  <2>2. Len(keys) = n /\ keys[1] = es[1].key /\ keys[n] = es[n].key
    <3> HIDE DEF keys, es, n
    <3> QED
      BY <1>1, <2>1
  <2>3. ChunkTable.range = [min |-> keys[1], max |-> keys[Len(keys)]]
    BY DEF ChunkTable
  <2> HIDE DEF keys
  <2> QED
    BY <2>2, <2>3
<1>3. ASSUME NEW k \in Key, Answer(TableFile(es), k) # None
      PROVE  InRange(k, ChunkTable.range)
  <2>1. TableOf(es)[k] # None
    BY <1>3, TableFileAnswersForWritten
  <2>2. PICK p \in DOMAIN es : es[p].key = k
    BY <1>1, <2>1, TableHasWhatIsListed
  <2>3. \A i, j \in DOMAIN es : i < j => es[i].key < es[j].key
    BY <1>1, FileKeysAscend
  <2>4. \A i \in DOMAIN es : es[i].key \in Int
    <3>1. \A i \in DOMAIN es : es[i] \in [key : Key, entry : Entry]
      BY SeqMember DEF EntrySeqs
    <3> QED
      BY <3>1, KeysAreOrdered
  <2> HIDE DEF es, n
  <2>5. 1 \in DOMAIN es /\ n \in DOMAIN es /\ 1 <= p /\ p <= n
    BY <1>1, <2>2
  <2>6. es[1].key <= k /\ k <= es[n].key
    BY <1>1, <2>2, <2>3, <2>4, <2>5
  <2>7. es[1].key \in Int /\ es[n].key \in Int /\ k \in Int
    BY <2>2, <2>4, <2>5
  <2> QED
    BY <1>2, <2>6, <2>7 DEF InRange
<1>4. Untouched(TableFile(es))
  BY DEF Untouched
<1> QED
  BY <1>3, <1>4 DEF Fits

LEMMA EntryKeepsLookup == DataInv /\ MergeInv /\ LookupInv /\ MergeEntry => LookupInv'
<1> SUFFICES ASSUME DataInv, MergeInv, LookupInv, MergeEntry
             PROVE  LookupInv'
  OBVIOUS
<1> DEFINE a == Least(merge.heap)
           x == [key |-> a.key, entry |-> a.entry]
           es == merge.chunk
<1>1. merge.pc = "loop" /\ levels' = levels /\ merge'.pc = "loop"
  BY EntryDoes
<1>2. \/ /\ Fresh(a) /\ ChunkFull /\ WriteChunk
         /\ merge'.chunk = <<x>> /\ merge'.new = Append(merge.new, ChunkTable)
      \/ files' = files /\ merge'.new = merge.new
  BY EntryDoes
<1>3. list' = list /\ kv' = kv /\ lost' = lost
  BY DEF MergeEntry
<1> HIDE DEF a, x
<1>4. /\ LevelsShape(levels) /\ NamedFiles /\ FilesShape /\ OutputsGood
      /\ \E Rs : merge.new \in Seq(AnyTable(Rs))
      /\ es \in EntrySeqs
  BY <1>1 DEF DataInv, ManifestInv, MergeInv, OutputsGood
<1>5. ASSUME ChunkFull, WriteChunk, merge'.new = Append(merge.new, ChunkTable)
      PROVE  /\ \A l \in 0..1 : \A i \in Named(l) : files'[l][i] = files[l][i]
             /\ NewRangesFit'
  <2>1. /\ es # <<>> /\ FreeNumbers # {} /\ Writable(es) /\ WriteFile(1, ChunkTable.idx, es)
    <3>1. es # <<>>
      BY <1>5, ThresholdsFitTables DEF ChunkFull
    <3> QED
      BY <1>5, <3>1 DEF WriteChunk
  <2>2. ChunkTable.idx \notin Named(1)
    BY <1>4, <2>1, ChunkIsApart DEF Named
  <2>3. ASSUME NEW l \in 0..1, NEW i \in Named(l)
        PROVE  files'[l][i] = files[l][i]
    <3>1. l \in DOMAIN files
      BY <1>4 DEF FilesShape
    <3> QED
      BY <2>1, <2>2, <2>3, <3>1 DEF WriteFile
  <2>4. /\ \A j \in DOMAIN merge.new :
             merge'.new[j] = merge.new[j] /\ files'[1][merge.new[j].idx] = files[1][merge.new[j].idx]
        /\ DOMAIN merge'.new = DOMAIN merge.new \cup {Len(merge.new) + 1}
        /\ merge'.new[Len(merge.new) + 1] = ChunkTable
        /\ files'[1][ChunkTable.idx] = TableFile(es)
    BY <1>4, <1>5, <2>1, ChunkJoins
  <2>5. Fits(ChunkTable.range, TableFile(es))
    BY <1>4, <2>1, ChunkFits
  <2>6. ASSUME NEW j \in DOMAIN merge'.new
        PROVE  Fits(merge'.new[j].range, files'[1][merge'.new[j].idx])
    <3>1. CASE j \in DOMAIN merge.new
      <4>1. Fits(merge.new[j].range, files[1][merge.new[j].idx])
        BY <3>1 DEF LookupInv, NewRangesFit
      <4> QED
        BY <2>4, <3>1, <4>1
    <3>2. CASE j = Len(merge.new) + 1
      BY <2>4, <2>5, <3>2
    <3> QED
      BY <2>4, <2>6, <3>1, <3>2
  <2>7. NewRangesFit'
    BY <2>6 DEF NewRangesFit
  <2> QED
    BY <2>3, <2>7
<1>6. /\ \A l \in 0..1 : \A i \in Named(l) : files'[l][i] = files[l][i]
      /\ NewRangesFit'
  <2>1. CASE files' = files /\ merge'.new = merge.new
    <3>1. NewRangesFit'
      BY <2>1 DEF NewRangesFit, LookupInv
    <3> QED
      BY <2>1, <3>1
  <2> QED
    BY <1>2, <1>5, <2>1
<1> QED
  BY <1>1, <1>3, <1>6, NamedStay DEF LookupInv

\* A start finds the same tables; one without its range is looked at for more.
LEMMA ReopenKeepsLookup == DataInv /\ MergeInv /\ LookupInv /\ Reopen => LookupInv'
<1> SUFFICES ASSUME DataInv, MergeInv, LookupInv, Reopen
             PROVE  LookupInv'
  OBVIOUS
<1>1. /\ merge.pc = "idle" /\ files' = files /\ merge' = merge
      /\ list' = list /\ kv' = kv /\ lost' = lost
      /\ SameTables(levels, levels') /\ ManifestInv'
  BY ReopenKeepsManifest DEF Reopen, Idle, DataInv
<1>2. LevelsShape(levels) /\ LevelsShape(levels') /\ RangesFit
  BY <1>1 DEF DataInv, ManifestInv, LookupInv
<1>3. \A l \in 0..1 :
        /\ DOMAIN TablesOf(levels', l) = DOMAIN TablesOf(levels, l)
        /\ \A j \in DOMAIN TablesOf(levels, l) :
             /\ TablesOf(levels', l)[j].idx = TablesOf(levels, l)[j].idx
             /\ TablesOf(levels', l)[j].range \in {NoRange, TablesOf(levels, l)[j].range}
  BY <1>1 DEF SameTables, Reread
<1>4. \A l \in 0..1 : \A j \in DOMAIN TablesOf(levels, l) : TableAt(l, j)' = TableAt(l, j)
  BY <1>1, <1>3 DEF TableAt
<1>5. RangesFit'
  <2> SUFFICES ASSUME NEW j \in DOMAIN TablesOf(levels', 1)
               PROVE  Fits(TablesOf(levels', 1)[j].range, TableAt(1, j)')
    BY DEF RangesFit
  <2>1. j \in DOMAIN TablesOf(levels, 1) /\ TableAt(1, j)' = TableAt(1, j)
        /\ TablesOf(levels', 1)[j].range \in {NoRange, TablesOf(levels, 1)[j].range}
    BY <1>3, <1>4
  <2>2. Fits(TablesOf(levels, 1)[j].range, TableAt(1, j))
    BY <1>2, <2>1 DEF RangesFit
  <2>3. CASE TablesOf(levels', 1)[j].range = NoRange
    BY <2>3 DEF Fits
  <2>4. CASE TablesOf(levels', 1)[j].range = TablesOf(levels, 1)[j].range
    BY <2>1, <2>2, <2>4
  <2> QED
    BY <2>1, <2>3, <2>4
<1>6. TablesAgree'
  <2>1. ASSUME NEW k \in Key
        PROVE  FromTables(k)' = FromTables(k)
    <3>1. \A l \in 0..1 : \A j \in DOMAIN TablesOf(levels, l) : Says(l, j, k)' = Says(l, j, k)
      BY <1>4 DEF Says
    <3> QED
      BY <1>2, <1>3, <1>5, <3>1, SameAnswers
  <2> QED
    BY <1>1, <2>1 DEF TablesAgree, LookupInv
<1>7. \A l \in 0..1 : Named(l)' = Named(l)
  BY <1>3 DEF Named, Numbers
<1>8. NamedUntouched' /\ (Harmed => Harmed')
  BY <1>1, <1>7 DEF NamedUntouched, Harmed, LookupInv
<1>9. NewRangesFit'
  BY <1>1 DEF NewRangesFit, LookupInv
<1> QED
  BY <1>1, <1>5, <1>6, <1>8, <1>9 DEF LookupInv

-----------------------------------------------------------------------------
(***************************************************************************)
(* Damage.                                                                 *)
(***************************************************************************)
\* What is damaged is the table that decides for some key.
HitsTable(p) == {c \in Key : Hit(c) <= Len(Places(c)) /\ Places(c)[Hit(c)] = p}
BlockWith(f, k) ==
  CHOOSE j \in DOMAIN f.blocks : \E i \in DOMAIN f.blocks[j].slots : f.blocks[j].slots[i].key = k
WithGarbage(f, b) == [f EXCEPT !.blocks[b].slots[1].slot = Garbage]
Shortened(f) == [f EXCEPT !.blocks = Front(@)]
LosesBlock(p, b) ==
  /\ files' = [files EXCEPT ![p[1]][p[2]].table = WithGarbage(files[p[1]][p[2]].table, b)]
  /\ lost' = {c \in HitsTable(p) :
                \E i \in DOMAIN files[p[1]][p[2]].table.blocks[b].slots :
                  files[p[1]][p[2]].table.blocks[b].slots[i].key = c}
LosesFile(p) ==
  /\ files' = [files EXCEPT ![p[1]][p[2]].table = Shortened(files[p[1]][p[2]].table)]
  /\ lost' = HitsTable(p)

LEMMA DamageDoes ==
  ASSUME Damage
  PROVE  /\ merge.pc = "idle" /\ levels' = levels /\ merge' = merge /\ list' = list /\ kv' = kv
         /\ \A l \in 0..1, i \in Idx : files[l][i] # NoFile => Intact(files[l][i].table)
         /\ \E k, p :
              /\ k \in Key /\ Hit(k) <= Len(Places(k)) /\ p = Places(k)[Hit(k)]
              /\ LosesBlock(p, BlockWith(files[p[1]][p[2]].table, k)) \/ LosesFile(p)
<1>1. /\ merge.pc = "idle" /\ levels' = levels /\ merge' = merge /\ list' = list /\ kv' = kv
      /\ \A l \in 0..1, i \in Idx : files[l][i] # NoFile => Intact(files[l][i].table)
  BY ZenonT(60) DEF Damage, Idle
<1>2. \E k \in Key :
       /\ ListGet(list, k) = None /\ Hit(k) <= Len(Places(k))
       /\ LET p == Places(k)[Hit(k)]
              file == files[p[1]][p[2]].table
              b == CHOOSE j \in DOMAIN file.blocks :
                     \E i \in DOMAIN file.blocks[j].slots : file.blocks[j].slots[i].key = k
              bad == [file EXCEPT !.blocks[b].slots[1].slot = Garbage]
              short == [file EXCEPT !.blocks = Front(@)]
              here == {j \in Key : Hit(j) <= Len(Places(j)) /\ Places(j)[Hit(j)] = p}
          IN  \/ /\ files' = [files EXCEPT ![p[1]][p[2]].table = bad]
                 /\ lost' = {j \in here : \E i \in DOMAIN file.blocks[b].slots :
                                            file.blocks[b].slots[i].key = j}
              \/ /\ files' = [files EXCEPT ![p[1]][p[2]].table = short]
                 /\ lost' = here
  BY ZenonT(60) DEF Damage
<1>3. \E k \in Key :
       /\ Hit(k) <= Len(Places(k))
       /\ \/ LosesBlock(Places(k)[Hit(k)],
                        BlockWith(files[Places(k)[Hit(k)][1]][Places(k)[Hit(k)][2]].table, k))
          \/ LosesFile(Places(k)[Hit(k)])
  BY <1>2, ZenonT(60) DEF LosesBlock, LosesFile, HitsTable, BlockWith, WithGarbage, Shortened
<1> QED
  BY <1>1, <1>3, ZenonT(60)

\* What the damaged file y says no longer is lost, if it decided.
LEMMA DamagedSays ==
  ASSUME FilesShape, NEW l \in 0..1, NEW i \in Idx, Untouched(files[l][i]),
         NEW k \in Key, Answer(files[l][i], k) # None,
         \/ LosesBlock(<<l, i>>, BlockWith(files[l][i].table, k))
         \/ LosesFile(<<l, i>>)
  PROVE  \E y : /\ files'[l][i] = y
                /\ \A ll \in 0..1, ii \in Idx : <<ll, ii>> # <<l, i>> => files'[ll][ii] = files[ll][ii]
                /\ ~Unharmed(y)
                /\ \A c \in Key : \/ Answer(y, c) = Answer(files[l][i], c)
                                  \/ /\ Answer(y, c) = None
                                     /\ Answer(files[l][i], c) # None /\ c \in HitsTable(<<l, i>>)
                                          => c \in lost'
<1> DEFINE p == <<l, i>>
           x == files[l][i]
           b == BlockWith(x.table, k)
<1>1. p[1] = l /\ p[2] = i
  OBVIOUS
<1>2. GoodFile(x) /\ Answer(x, k) = Content(x)[k]
  BY UntouchedAnswers
<1>3. b \in DOMAIN x.table.blocks
  <2>1. \E c \in DOMAIN x.table.blocks : \E n \in DOMAIN x.table.blocks[c].slots :
          x.table.blocks[c].slots[n].key = k
    BY <1>2, ContentOf DEF Content
  <2> QED
    BY ZenonT(60), <2>1 DEF BlockWith
<1>4. ASSUME NEW t, files' = [files EXCEPT ![p[1]][p[2]].table = t]
      PROVE  /\ files'[l][i] = [x EXCEPT !.table = t]
             /\ \A ll \in 0..1, ii \in Idx : <<ll, ii>> # <<l, i>> => files'[ll][ii] = files[ll][ii]
  <2>1. files' = [files EXCEPT ![l] = [files[l] EXCEPT ![i] = [x EXCEPT !.table = t]]]
    BY <1>1, <1>4
  <2>2. l \in DOMAIN files /\ i \in DOMAIN files[l]
    BY DEF FilesShape
  <2>3. files'[l] = [files[l] EXCEPT ![i] = [x EXCEPT !.table = t]]
    BY <2>1, <2>2
  <2>4. files'[l][i] = [x EXCEPT !.table = t]
    BY <2>2, <2>3
  <2>5. ASSUME NEW ll \in 0..1, NEW ii \in Idx, <<ll, ii>> # <<l, i>>
        PROVE  files'[ll][ii] = files[ll][ii]
    <3>1. CASE ll = l
      <4>1. ii # i /\ ii \in DOMAIN files[l]
        BY <2>5, <3>1 DEF FilesShape
      <4> QED
        BY <2>3, <3>1, <4>1
    <3>2. CASE ll # l
      BY SMTT(60), <2>1, <3>2 DEF FilesShape
    <3> QED
      BY <3>1, <3>2
  <2> QED
    BY <2>4, <2>5
<1>5. CASE LosesBlock(p, b)
  <2> DEFINE y == [x EXCEPT !.table = WithGarbage(x.table, b)]
  <2>1. /\ files' = [files EXCEPT ![p[1]][p[2]].table = WithGarbage(x.table, b)]
        /\ lost' = {c \in HitsTable(p) : \E n \in DOMAIN x.table.blocks[b].slots :
                                           x.table.blocks[b].slots[n].key = c}
    BY SMTT(60), <1>1, <1>5 DEF LosesBlock
  <2>2. /\ files'[l][i] = y
        /\ \A ll \in 0..1, ii \in Idx : <<ll, ii>> # <<l, i>> => files'[ll][ii] = files[ll][ii]
    BY <1>4, <2>1
  <2>3. y = [x EXCEPT !.table = [x.table EXCEPT !.blocks[b].slots[1].slot = Garbage]]
    BY DEF WithGarbage
  <2> HIDE DEF y, b
  <2>4. /\ ~Unharmed(y)
        /\ \A c \in Key :
             \/ Answer(y, c) = Answer(x, c)
             \/ /\ Answer(y, c) = None
                /\ Answer(x, c) # None => \E n \in DOMAIN x.table.blocks[b].slots :
                                             x.table.blocks[b].slots[n].key = c
    <3>1. Untouched(x)
      OBVIOUS
    <3> HIDE DEF x
    <3> QED
      BY <1>3, <2>3, <3>1, GarbledAnswers
  <2>5. \A c \in HitsTable(p) : (\E n \in DOMAIN x.table.blocks[b].slots :
                                    x.table.blocks[b].slots[n].key = c) => c \in lost'
    BY <2>1
  <2> HIDE DEF x
  <2> WITNESS y
  <2> QED
    BY SMTT(60), <2>2, <2>4, <2>5 DEF x
<1>6. CASE LosesFile(p)
  <2> DEFINE y == [x EXCEPT !.table = Shortened(x.table)]
  <2>1. /\ files' = [files EXCEPT ![p[1]][p[2]].table = Shortened(x.table)]
        /\ lost' = HitsTable(p)
    BY SMTT(60), <1>1, <1>6 DEF LosesFile
  <2>2. /\ files'[l][i] = y
        /\ \A ll \in 0..1, ii \in Idx : <<ll, ii>> # <<l, i>> => files'[ll][ii] = files[ll][ii]
    BY <1>4, <2>1
  <2>3. y = [x EXCEPT !.table = [x.table EXCEPT !.blocks = Front(@)]]
    BY DEF Shortened
  <2> HIDE DEF y
  <2>4. ~Unharmed(y) /\ \A c \in Key : Answer(y, c) = None
    BY <2>3, ShortAnswers
  <2> WITNESS y
  <2> QED
    BY <2>1, <2>2, <2>4
<1> QED
  BY <1>5, <1>6

\* Without a damaged file nothing is lost.
LEMMA AllIntact ==
  ASSUME DataInv, MergeInv, LookupInv, \A l \in 0..1 : \A i \in Named(l) : Unharmed(files[l][i])
  PROVE  lost = {} /\ \A l \in 0..1 : \A i \in Named(l) : Untouched(files[l][i])
BY DEF LookupInv, NamedUntouched, Harmed

LEMMA DamageKeepsLookup == DataInv /\ MergeInv /\ LookupInv /\ Damage => LookupInv'
<1> SUFFICES ASSUME DataInv, MergeInv, LookupInv, Damage
             PROVE  LookupInv'
  OBVIOUS
<1>0. /\ LevelsShape(levels) /\ NamedFiles /\ FilesShape /\ RangesFit
      /\ \A l \in 0..1 : \A i \in Named(l) : i \in Idx /\ GoodFile(files[l][i])
  <2>1. LevelsShape(levels) /\ NamedFiles /\ FilesShape /\ RangesFit
    BY DEF DataInv, ManifestInv, MergeInv, LookupInv
  <2> QED
    BY <2>1, NamedContents DEF NamedFiles, Named
<1>1. /\ merge.pc = "idle" /\ levels' = levels /\ merge' = merge /\ list' = list /\ kv' = kv
      /\ \A l \in 0..1, i \in Idx : files[l][i] # NoFile => Intact(files[l][i].table)
  BY DamageDoes
<1>2. /\ lost = {}
      /\ \A l \in 0..1 : \A i \in Named(l) : Untouched(files[l][i])
  <2>1. \A l \in 0..1 : \A i \in Named(l) : Unharmed(files[l][i])
    BY <1>0, <1>1, GoodIsAFile, IntactIsUnharmed
  <2> QED
    BY <2>1, AllIntact
<1>3. PICK k, p : /\ k \in Key /\ Hit(k) <= Len(Places(k)) /\ p = Places(k)[Hit(k)]
                  /\ LosesBlock(p, BlockWith(files[p[1]][p[2]].table, k)) \/ LosesFile(p)
  BY DamageDoes
<1>4. \A c \in Key : \A l, j : FirstSays(l, j, c) =>
        /\ FromTables(c) = Says(l, j, c)
        /\ Hit(c) <= Len(Places(c)) /\ Places(c)[Hit(c)] = <<l, TablesOf(levels, l)[j].idx>>
  <2> SUFFICES ASSUME NEW c \in Key, NEW l, NEW j, FirstSays(l, j, c)
               PROVE  /\ FromTables(c) = Says(l, j, c)
                      /\ Hit(c) <= Len(Places(c)) /\ Places(c)[Hit(c)] = <<l, TablesOf(levels, l)[j].idx>>
    OBVIOUS
  <2>1. ~Silent(c) /\ \A ll, jj : FirstSays(ll, jj, c) => ll = l /\ jj = j
    BY <1>0, OneIsFirst
  <2>2. \E ll, jj : /\ FirstSays(ll, jj, c) /\ Hit(c) <= Len(Places(c))
                    /\ Places(c)[Hit(c)] = <<ll, TablesOf(levels, ll)[jj].idx>>
                    /\ FromTables(c) = Says(ll, jj, c)
    BY <1>0, <2>1, TablesAnswer
  <2> QED
    BY <2>1, <2>2
<1>5. PICK l, j : FirstSays(l, j, k)
  BY <1>0, <1>3, TablesAnswer
<1>6. \A ll \in 0..1 : \A jj \in DOMAIN TablesOf(levels, ll) :
        TablesOf(levels, ll)[jj].idx \in Named(ll)
  BY DEF Named, Numbers
<1> DEFINE i == TablesOf(levels, l)[j].idx
<1>7. /\ l \in 0..1 /\ j \in DOMAIN TablesOf(levels, l) /\ i \in Named(l) /\ i \in Idx
      /\ Untouched(files[l][i]) /\ Answer(files[l][i], k) # None /\ p = <<l, i>>
      /\ files[p[1]][p[2]] = files[l][i]
  <2>1. l \in 0..1 /\ j \in DOMAIN TablesOf(levels, l) /\ Says(l, j, k) # None
    BY <1>5 DEF FirstSays
  <2>2. p = <<l, i>>
    BY <1>3, <1>4, <1>5
  <2> QED
    BY <1>0, <1>2, <1>6, <2>1, <2>2 DEF Says, TableAt
<1> HIDE DEF i
<1>8. PICK y : /\ files'[l][i] = y
               /\ \A ll \in 0..1, ii \in Idx : <<ll, ii>> # <<l, i>> => files'[ll][ii] = files[ll][ii]
               /\ ~Unharmed(y)
               /\ \A c \in Key : \/ Answer(y, c) = Answer(files[l][i], c)
                                 \/ /\ Answer(y, c) = None
                                    /\ Answer(files[l][i], c) # None /\ c \in HitsTable(<<l, i>>)
                                         => c \in lost'
  <2>1. LosesBlock(<<l, i>>, BlockWith(files[l][i].table, k)) \/ LosesFile(<<l, i>>)
    BY <1>3, <1>7
  <2> QED
    BY <1>0, <1>3, <1>7, <2>1, DamagedSays
<1>9. ASSUME NEW ll \in 0..1, NEW jj \in DOMAIN TablesOf(levels, ll), NEW c \in Key
      PROVE  \/ Says(ll, jj, c)' = Says(ll, jj, c)
             \/ /\ Says(ll, jj, c)' = None
                /\ FirstSays(ll, jj, c) => c \in lost'
  <2> DEFINE ii == TablesOf(levels, ll)[jj].idx
  <2>1. /\ Says(ll, jj, c) = Answer(files[ll][ii], c) /\ Says(ll, jj, c)' = Answer(files'[ll][ii], c)
        /\ ii \in Idx
    BY <1>0, <1>1, <1>6 DEF Says, TableAt
  <2>2. CASE <<ll, ii>> # <<l, i>>
    BY <1>8, <2>1, <2>2
  <2>3. CASE <<ll, ii>> = <<l, i>>
    <3>1. ll = l /\ ii = i
      BY <2>3
    <3>2. FirstSays(ll, jj, c) => Answer(files[l][i], c) # None /\ c \in HitsTable(<<l, i>>)
      <4> SUFFICES ASSUME FirstSays(ll, jj, c)
                   PROVE  Answer(files[l][i], c) # None /\ c \in HitsTable(<<l, i>>)
        OBVIOUS
      <4>1. Says(ll, jj, c) # None
        BY DEF FirstSays
      <4>2. Hit(c) <= Len(Places(c)) /\ Places(c)[Hit(c)] = <<ll, ii>>
        BY <1>4
      <4> QED
        BY <2>1, <2>3, <3>1, <4>1, <4>2 DEF HitsTable
    <3> QED
      BY <1>8, <2>1, <3>1, <3>2
  <2> QED
    BY <2>2, <2>3
<1>10. RangesFit'
  <2> SUFFICES ASSUME NEW jj \in DOMAIN TablesOf(levels, 1)
               PROVE  Fits(TablesOf(levels, 1)[jj].range, TableAt(1, jj)')
    BY <1>1 DEF RangesFit
  <2>1. Fits(TablesOf(levels, 1)[jj].range, TableAt(1, jj))
    BY <1>0 DEF RangesFit
  <2>2. \A c \in Key : Answer(TableAt(1, jj)', c) # None => Answer(TableAt(1, jj), c) # None
    BY <1>9 DEF Says
  <2> QED
    BY <2>1, <2>2 DEF Fits
<1>11. ASSUME NEW c \in Key, c \notin lost'
       PROVE  FromTables(c)' = FromTables(c)
  <2>0. LevelsShape(levels') /\ RangesFit'
    BY <1>0, <1>1, <1>10
  <2>1. CASE Silent(c)
    <3>1. Silent(c)'
      BY <1>1, <1>9, <2>1 DEF Silent
    <3> QED
      BY <1>0, <2>0, <2>1, <3>1, FromTablesIs, FromTablesIsNext
  <2>2. CASE \E ll, jj : FirstSays(ll, jj, c)
    <3>1. PICK ll, jj : FirstSays(ll, jj, c)
      BY <2>2
    <3>2. ll \in 0..1 /\ jj \in DOMAIN TablesOf(levels, ll) /\ Says(ll, jj, c) # None
      BY <3>1 DEF FirstSays
    <3>3. Says(ll, jj, c)' = Says(ll, jj, c)
      BY <1>9, <1>11, <3>1, <3>2
    <3>4. \A v \in 0..1 : \A n \in DOMAIN TablesOf(levels, v) :
            Says(v, n, c) = None => Says(v, n, c)' = None
      BY <1>9
    <3>5. FirstSays(ll, jj, c)'
      BY <1>1, <3>1, <3>2, <3>3, <3>4 DEF FirstSays
    <3> QED
      BY <1>0, <2>0, <3>1, <3>3, <3>5, FromTablesIs, FromTablesIsNext
  <2> QED
    BY <1>0, <2>1, <2>2, OneAnswers
<1>12. TablesAgree'
  BY <1>1, <1>2, <1>11 DEF TablesAgree, LookupInv
<1>13. NamedUntouched' /\ Harmed'
  <2>1. \A ll \in 0..1 : Named(ll)' = Named(ll)
    BY <1>1 DEF Named
  <2>2. NamedUntouched'
    <3> SUFFICES ASSUME NEW ll \in 0..1, NEW ii \in Named(ll), Unharmed(files'[ll][ii])
                 PROVE  Untouched(files'[ll][ii])
      BY <2>1 DEF NamedUntouched
    <3>1. <<ll, ii>> # <<l, i>>
      BY <1>8
    <3> QED
      BY <1>0, <1>2, <1>8, <3>1
  <2>3. Harmed'
    BY <1>7, <1>8, <2>1 DEF Harmed
  <2> QED
    BY <2>2, <2>3
<1>14. NewRangesFit'
  <2>1. merge'.new = <<>>
    BY <1>1 DEF MergeInv, MergeShape
  <2> QED
    BY <2>1 DEF NewRangesFit
<1> QED
  BY <1>1, <1>10, <1>12, <1>13, <1>14 DEF LookupInv

-----------------------------------------------------------------------------
(***************************************************************************)
(* The end of a merge.                                                     *)
(***************************************************************************)
\* The inputs are the tables the levels name, level 0 first.
LEMMA InputsAreNamed ==
  ASSUME LevelsShape(levels)
  PROVE  LET l0 == TablesOf(levels, 0)  l1 == TablesOf(levels, 1)  m == Len(l0)  n == Len(l1) IN
         /\ m \in Nat /\ n \in Nat /\ DOMAIN l0 = 1..m /\ DOMAIN l1 = 1..n
         /\ DOMAIN Inputs = 1..m + n
         /\ \A j \in 1..m : j \in 1..m + n /\ InputFiles[j] = TableAt(0, j) /\ Inputs[j].level = 0
         /\ \A j \in 1..n : m + j \in 1..m + n /\ InputFiles[m + j] = TableAt(1, j) /\ Inputs[m + j].level = 1
<1> DEFINE l0 == TablesOf(levels, 0)
           l1 == TablesOf(levels, 1)
           m == Len(l0)
           n == Len(l1)
<1>1. /\ m \in Nat /\ n \in Nat /\ DOMAIN l0 = 1..m /\ DOMAIN l1 = 1..n
      /\ DOMAIN Inputs = 1..m + n
      /\ \A j \in 1..m : Inputs[j] = Reader(0, l0[j].idx)
      /\ \A j \in 1..n : Inputs[m + j] = Reader(1, l1[j].idx)
  BY InputsListed
<1>2. \A l, i : Reader(l, i).level = l /\ Reader(l, i).idx = i
  BY DEF Reader
<1> HIDE DEF m, n, l0, l1
<1>3. \A j \in 1..m : j \in 1..m + n
  BY <1>1
<1>4. \A j \in 1..n : m + j \in 1..m + n
  BY <1>1
<1>5. \A j \in 1..m : InputFiles[j] = TableAt(0, j) /\ Inputs[j].level = 0
  BY <1>1, <1>2, <1>3 DEF InputFiles, TableAt, l0
<1>6. \A j \in 1..n : InputFiles[m + j] = TableAt(1, j) /\ Inputs[m + j].level = 1
  BY SMTT(60), <1>1, <1>2, <1>4 DEF InputFiles, TableAt, l1
<1> QED
  BY <1>1, <1>3, <1>4, <1>5, <1>6 DEF m, n, l0, l1

\* A merge that has read its inputs to their ends has found them whole.
LEMMA AllInputsRead ==
  ASSUME LevelsShape(levels), NamedFiles, LoopInv, InputsOpen, merge.heap = {}
  PROVE  \A l \in 0..1 : \A i \in Named(l) : Unharmed(files[l][i])
<1> DEFINE X == InputFiles
           R == merge.readers
<1>1. /\ \A j \in DOMAIN Inputs :
           /\ GoodFile(X[j]) /\ ReaderAt(X[j].table, R[j].block, R[j].at, merge.current)
      /\ {} = {ItemOf(X, R, j) : j \in {i \in DOMAIN Inputs : Live(X, R, i)}}
  BY DEF LoopInv, ReadersGood
<1>2. \A j \in DOMAIN Inputs : ~Live(X, R, j)
  BY <1>1
<1>3. ASSUME NEW j \in DOMAIN Inputs
      PROVE  Unharmed(X[j])
  <2> DEFINE f == X[j].table
             b == R[j].block
  <2>1. Len(f.blocks) \in Nat /\ DOMAIN f.blocks = 1..Len(f.blocks)
    BY SMTT(60), <1>1, GoodCells
  <2>2. b \in 1..Len(f.blocks) + 1 /\ \A c \in DOMAIN f.blocks : c <= b => Whole(f, c)
    BY <1>1 DEF ReaderAt
  <2>3. ~(b <= Len(f.blocks))
    BY <1>2 DEF Live
  <2>4. Opens(f)
    BY DEF InputsOpen
  <2> HIDE DEF f, b
  <2>5. \A c \in DOMAIN f.blocks : Whole(f, c)
    BY <2>1, <2>2, <2>3
  <2> QED
    BY SMTT(60), <2>4, <2>5 DEF Unharmed, f
<1> HIDE DEF X, R
<1>4. ASSUME NEW l \in 0..1, NEW i \in Named(l)
      PROVE  \E j \in DOMAIN Inputs : X[j] = files[l][i]
  <2>1. PICK j \in DOMAIN TablesOf(levels, l) : i = TablesOf(levels, l)[j].idx
    BY <1>4 DEF Named, Numbers
  <2>2. TableAt(l, j) = files[l][i]
    BY <2>1 DEF TableAt
  <2>3. CASE l = 0
    BY <2>1, <2>2, <2>3, InputsAreNamed DEF X
  <2>4. CASE l = 1
    BY <2>1, <2>2, <2>4, InputsAreNamed DEF X
  <2> QED
    BY <2>3, <2>4
<1> QED
  BY <1>3, <1>4

\* The merge of whole tables is what a lookup finds in them.
LEMMA MergedIsFound ==
  ASSUME LevelsShape(levels), NamedFiles, RangesFit,
         \A l \in 0..1 : \A i \in Named(l) : Untouched(files[l][i]), NEW k \in Key
  PROVE  MergedLevels[k] = FromTables(k)
<1> DEFINE l0 == TablesOf(levels, 0)
           l1 == TablesOf(levels, 1)
<1>1. PICK m, n : m = Len(l0) /\ n = Len(l1)
  OBVIOUS
<1>2. /\ m \in Nat /\ n \in Nat /\ DOMAIN l0 = 1..m /\ DOMAIN l1 = 1..n
      /\ DOMAIN Inputs = 1..m + n
      /\ \A j \in 1..m : j \in 1..m + n /\ InputFiles[j] = TableAt(0, j) /\ Inputs[j].level = 0
      /\ \A j \in 1..n : m + j \in 1..m + n /\ InputFiles[m + j] = TableAt(1, j) /\ Inputs[m + j].level = 1
  BY <1>1, InputsAreNamed
<1>3. ASSUME NEW l \in 0..1, NEW j \in DOMAIN TablesOf(levels, l)
      PROVE  Content(TableAt(l, j))[k] = Says(l, j, k)
  <2>1. Untouched(TableAt(l, j))
    BY DEF Named, Numbers, TableAt
  <2> QED
    BY <2>1, UntouchedAnswers DEF Says
<1>4. /\ \A j \in 1..m : Content(InputFiles[j])[k] = Says(0, j, k)
      /\ \A j \in 1..n : Content(InputFiles[m + j])[k] = Says(1, j, k)
  <2>1. 0 \in 0..1 /\ 1 \in 0..1
    OBVIOUS
  <2> QED
    BY <1>2, <1>3, <2>1
<1>5. \A q \in 1..m + n : q \in 1..m \/ (q - m \in 1..n /\ q = m + (q - m))
  BY <1>2
<1> HIDE DEF l0, l1
<1>6. CASE Silent(k)
  <2>1. /\ \A j \in 1..m : Says(0, j, k) = None
        /\ \A j \in 1..n : Says(1, j, k) = None
    BY <1>2, <1>6 DEF Silent, l0, l1
  <2>2. \A q \in DOMAIN Inputs : Content(InputFiles[q])[k] = None
    BY <1>2, <1>4, <1>5, <2>1
  <2>3. MergedLevels[k] = None
    BY <2>2, MergedByInputs
  <2> QED
    BY <1>6, <2>3, FromTablesIs
<1>7. ASSUME NEW q \in DOMAIN Inputs, Content(InputFiles[q])[k] = FromTables(k), FromTables(k) # None,
             \A i \in DOMAIN Inputs \ {q} : Content(InputFiles[i])[k] # None =>
               Inputs[q].level < Inputs[i].level \/ (Inputs[q].level = Inputs[i].level /\ q > i)
      PROVE  MergedLevels[k] = FromTables(k)
  <2>1. Content(InputFiles[q])[k] # None
    BY <1>7
  <2>2. MergedLevels[k] = Content(InputFiles[q])[k]
    BY <1>7, <2>1, MergedByInputs
  <2> QED
    BY <1>7, <2>2
<1>8. CASE \E l, j : FirstSays(l, j, k)
  <2>1. PICK l, j : FirstSays(l, j, k)
    BY <1>8
  <2>2. /\ l \in 0..1 /\ j \in DOMAIN TablesOf(levels, l) /\ Says(l, j, k) # None
        /\ FromTables(k) = Says(l, j, k)
    BY <2>1, FromTablesIs DEF FirstSays
  <2>3. CASE l = 0
    <3>1. /\ j \in 1..m /\ j \in DOMAIN Inputs /\ Content(InputFiles[j])[k] = FromTables(k)
          /\ FromTables(k) # None /\ Inputs[j].level = 0
      BY <1>2, <1>4, <2>2, <2>3 DEF l0
    <3>2. \A i \in 1..m : Says(0, i, k) # None => ~(i > j)
      BY <1>2, <2>1, <2>3 DEF FirstSays, l0
    <3>3. ASSUME NEW i \in DOMAIN Inputs \ {j}, Content(InputFiles[i])[k] # None
          PROVE  Inputs[j].level < Inputs[i].level \/ (Inputs[j].level = Inputs[i].level /\ j > i)
      <4>1. CASE i \in 1..m
        <5>1. Inputs[i].level = 0 /\ ~(i > j) /\ i # j
          BY <1>2, <1>4, <3>2, <3>3, <4>1
        <5> QED
          BY <1>2, <3>1, <4>1, <5>1
      <4>2. CASE i - m \in 1..n /\ i = m + (i - m)
        <5>1. Inputs[i].level = 1
          BY <1>2, <4>2
        <5> QED
          BY <3>1, <5>1
      <4> QED
        BY <1>2, <1>5, <4>1, <4>2
    <3> QED
      BY <1>7, <3>1, <3>3
  <2>4. CASE l = 1
    <3>1. /\ j \in 1..n /\ m + j \in DOMAIN Inputs /\ Content(InputFiles[m + j])[k] = FromTables(k)
          /\ FromTables(k) # None /\ Inputs[m + j].level = 1
      BY <1>2, <1>4, <2>2, <2>4 DEF l1
    <3>2. /\ \A i \in 1..m : Says(0, i, k) = None
          /\ \A i \in 1..n : Says(1, i, k) # None => ~(i > j)
      BY <1>2, <2>1, <2>4 DEF FirstSays, l0, l1
    <3>3. ASSUME NEW i \in DOMAIN Inputs \ {m + j}, Content(InputFiles[i])[k] # None
          PROVE  Inputs[m + j].level < Inputs[i].level \/ (Inputs[m + j].level = Inputs[i].level /\ m + j > i)
      <4>1. i \notin 1..m
        BY <1>4, <3>2, <3>3
      <4>2. i - m \in 1..n /\ i = m + (i - m)
        BY <1>2, <1>5, <3>3, <4>1
      <4>3. Inputs[i].level = 1 /\ Content(InputFiles[i])[k] = Says(1, i - m, k)
        BY <1>2, <1>4, <4>2
      <4>4. ~(i - m > j) /\ i # m + j
        BY <3>2, <3>3, <4>2, <4>3
      <4>5. m + j > i
        <5>1. \A q \in 1..n : ~(q > j) /\ m + q # m + j => m + j > m + q
          BY <1>2, <3>1
        <5> QED
          BY <4>2, <4>4, <5>1
      <4> QED
        BY <3>1, <4>3, <4>5
    <3> QED
      BY <1>7, <3>1, <3>3
  <2> QED
    BY <2>2, <2>3, <2>4
<1> QED
  BY <1>6, <1>8, OneAnswers

\* Entries that are spread over chunks are found in one of them.
LEMMA SpreadOverChunks ==
  ASSUME NEW W \in Seq(EntrySeqs), W # <<>>, \A j \in DOMAIN W : StrictlySorted(Keys(W[j])),
         NEW e, e = FlattenSeq(W), StrictlySorted(Keys(e)), NEW k \in Key
  PROVE  /\ \A j \in DOMAIN W : TableOf(W[j])[k] # None => TableOf(W[j])[k] = TableOf(e)[k]
         /\ (\A j \in DOMAIN W : TableOf(W[j])[k] = None) => TableOf(e)[k] = None
<1>1. e \in EntrySeqs /\ Spans(W, Len(W), e) /\ DOMAIN W = 1..Len(W)
  <2> DEFINE R == [key : Key, entry : Entry]
  <2>1. W \in Seq(Seq(R))
    BY DEF EntrySeqs
  <2> HIDE DEF R
  <2>2. FlattenSeq(W) \in Seq(R) /\ Spans(W, Len(W), FlattenSeq(W))
    BY <2>1, Flattened
  <2>3. DOMAIN W = 1..Len(W)
    BY <2>1
  <2> QED
    BY <2>2, <2>3 DEF EntrySeqs, R
<1>2. \A j \in DOMAIN W : W[j] \in EntrySeqs
  BY SeqMember
<1>3. /\ \A p \in DOMAIN e : \E b \in DOMAIN W : \E i \in DOMAIN W[b] : e[p] = W[b][i]
      /\ \A b \in DOMAIN W : \A i \in DOMAIN W[b] : \E p \in DOMAIN e : e[p] = W[b][i]
  BY <1>1 DEF Spans
<1>4. /\ \A p \in DOMAIN e : e[p].key = k => TableOf(e)[k] = e[p].entry
      /\ (\A p \in DOMAIN e : e[p].key # k) => TableOf(e)[k] = None
  BY <1>1, TableHasWhatIsListed
<1>5. \A j \in DOMAIN W :
        /\ \A i \in DOMAIN W[j] : W[j][i].key = k => TableOf(W[j])[k] = W[j][i].entry
        /\ (\A i \in DOMAIN W[j] : W[j][i].key # k) => TableOf(W[j])[k] = None
  BY <1>2, TableHasWhatIsListed
<1>6. \A j \in DOMAIN W : \A i \in DOMAIN W[j] : W[j][i].entry \in Entry
  <2>1. \A j \in DOMAIN W : \A i \in DOMAIN W[j] : W[j][i] \in [key : Key, entry : Entry]
    BY <1>2, SeqMember DEF EntrySeqs
  <2> QED
    BY <2>1
<1>7. None \notin Entry
  BY SentinelsDiffer DEF Entry
<1>8. ASSUME NEW j \in DOMAIN W, TableOf(W[j])[k] # None
      PROVE  TableOf(W[j])[k] = TableOf(e)[k]
  <2>1. PICK i \in DOMAIN W[j] : W[j][i].key = k
    BY <1>5, <1>8
  <2>2. PICK p \in DOMAIN e : e[p] = W[j][i]
    BY <1>3, <2>1
  <2> QED
    BY <1>4, <1>5, <2>1, <2>2
<1>9. ASSUME \A j \in DOMAIN W : TableOf(W[j])[k] = None
      PROVE  TableOf(e)[k] = None
  <2>1. \A p \in DOMAIN e : e[p].key # k
    <3> SUFFICES ASSUME NEW p \in DOMAIN e, e[p].key = k
                 PROVE  FALSE
      OBVIOUS
    <3>1. PICK b \in DOMAIN W : \E i \in DOMAIN W[b] : e[p] = W[b][i]
      BY <1>3
    <3>2. PICK i \in DOMAIN W[b] : e[p] = W[b][i]
      BY <3>1
    <3>3. TableOf(W[b])[k] = W[b][i].entry
      BY <1>5, <3>2
    <3> QED
      BY <1>6, <1>7, <1>9, <3>2, <3>3
  <2> QED
    BY <1>4, <2>1
<1> QED
  BY <1>8, <1>9

\* The chunk that a table was written of.
ChunkOf(W, j, x) == Writable(W[j]) /\ W[j] \in EntrySeqs /\ W[j] # <<>> /\ x = TableFile(W[j])

LEMMA ChunksWritten ==
  ASSUME OutputsGood, NEW j \in DOMAIN merge.new
  PROVE  ChunkOf(WrittenChunks, j, files[1][merge.new[j].idx])
<1> DEFINE x == files[1][merge.new[j].idx]
<1>1. PICK c \in EntrySeqs : Writable(c) /\ Len(c) = FLUSH_THRESHOLD /\ x = TableFile(c)
  BY DEF OutputsGood, FullFile
<1>2. c # <<>>
  <2>1. Len(c) # 0
    BY <1>1, ThresholdsFitTables
  <2> QED
    BY <2>1
<1>3. EntriesOf(x.table) = c
  BY SMTT(60), <1>1, <1>2, WrittenGood
<1>4. WrittenChunks[j] = c
  BY <1>3 DEF WrittenChunks
<1> QED
  BY <1>1, <1>2, <1>4 DEF ChunkOf

\* What a finished merge leaves: level 1 has the chunks, in their order.
LEMMA FinishDoes ==
  ASSUME DataInv, MergeInv, LookupInv, FinishMerge,
         NEW W, W = Append(WrittenChunks, merge.chunk)
  PROVE  /\ merge.pc = "loop" /\ merge.heap = {} /\ merge' = NoMerge
         /\ list' = list /\ kv' = kv /\ lost' = lost /\ ManifestInv'
         /\ TablesOf(levels', 0) = <<>>
         /\ W \in Seq(EntrySeqs) /\ W # <<>> /\ FlattenSeq(W) = Emitted
         /\ DOMAIN TablesOf(levels', 1) = DOMAIN W
         /\ \A j \in DOMAIN W :
              /\ ChunkOf(W, j, TableAt(1, j)')
              /\ Fits(TablesOf(levels', 1)[j].range, TableAt(1, j)')
<1> DEFINE last == ChunkTable
           new == Append(merge.new, last)
           lv == <<[level |-> 0, tables |-> <<>>], [level |-> 1, tables |-> new]>>
           es == merge.chunk
<1>1. /\ merge.pc = "loop" /\ merge.heap = {} /\ FreeNumbers # {} /\ Writable(es)
      /\ files' = [l \in 0..1 |-> [i \in Idx |->
                     CASE l = 1 /\ i = last.idx -> TableFile(es)
                       [] i \in Numbers(TablesOf(levels, l)) -> NoFile
                       [] OTHER -> files[l][i]]]
      /\ levels' = lv /\ merge' = NoMerge
      /\ list' = list /\ kv' = kv /\ lost' = lost
  BY DEF FinishMerge
<1>2. /\ NamedFiles /\ LoopInv /\ OutputsGood /\ NewRangesFit /\ es \in EntrySeqs /\ es # <<>>
      /\ \E Rs : merge.new \in Seq(AnyTable(Rs))
  BY <1>1 DEF DataInv, ManifestInv, MergeInv, LookupInv, OutputsGood, LoopInv
<1>3. ManifestInv'
  BY MergeKeepsManifest DEF Merge, DataInv
<1>4. TablesOf(levels', 0) = <<>> /\ TablesOf(levels', 1) = new
  BY <1>1, TablesListed
<1>5. PICK n : n = Len(merge.new)
  OBVIOUS
<1>6. /\ n \in Nat /\ DOMAIN merge.new = 1..n /\ DOMAIN new = 1..n + 1 /\ new[n + 1] = last
      /\ \A j \in 1..n : new[j] = merge.new[j]
  <2>1. PICK Rs : merge.new \in Seq(AnyTable(Rs))
    BY <1>2
  <2> DEFINE q == merge.new
  <2>2. q \in Seq(AnyTable(Rs))
    BY <2>1
  <2> HIDE DEF q, last
  <2> QED
    BY <1>5, <2>2 DEF q
<1>7. /\ WrittenChunks \in Seq(EntrySeqs) /\ Len(WrittenChunks) = n
  BY <1>2, <1>5, ChunksListed
<1>8. /\ W \in Seq(EntrySeqs) /\ W # <<>> /\ DOMAIN W = 1..n + 1 /\ W[n + 1] = es
      /\ \A j \in 1..n : W[j] = WrittenChunks[j]
  <2> DEFINE w == WrittenChunks
  <2>1. w \in Seq(EntrySeqs) /\ Len(w) = n /\ W = Append(w, es)
    BY <1>7
  <2> HIDE DEF w, es
  <2>2. W \in Seq(EntrySeqs) /\ W # <<>> /\ DOMAIN W = 1..n + 1 /\ W[n + 1] = es
        /\ \A j \in 1..n : W[j] = w[j]
    BY <1>2, <2>1, <1>6, AppendAt
  <2> QED
    BY <2>2 DEF w
<1>9. FlattenSeq(W) = Emitted
  <2> DEFINE R == [key : Key, entry : Entry]
             w == WrittenChunks
  <2>1. w \in Seq(Seq(R)) /\ es \in Seq(R)
    BY <1>2, <1>7 DEF EntrySeqs
  <2> HIDE DEF R, w
  <2>2. FlattenSeq(Append(w, es)) = FlattenSeq(w) \o es
    BY <2>1, FlattenAppend
  <2> QED
    BY <2>2, EmittedIs DEF w
<1>10. /\ last.idx \in Idx /\ last.idx \notin Numbers(TablesOf(levels, 1))
       /\ Fits(last.range, TableFile(es))
       /\ \A j \in DOMAIN merge.new :
            /\ merge.new[j].idx \in Idx /\ merge.new[j].idx # last.idx
            /\ merge.new[j].idx \notin Numbers(TablesOf(levels, 1))
  <2>1. PICK Rs : merge.new \in Seq(AnyTable(Rs))
    BY <1>2
  <2>2. \A j \in DOMAIN merge.new : merge.new[j] \in AnyTable(Rs)
    BY <2>1, SeqMember
  <2>3. \A j \in DOMAIN merge.new : merge.new[j].idx \in Idx
    BY <2>2 DEF AnyTable
  <2>4. /\ last.idx \notin Numbers(TablesOf(levels, 1))
        /\ \A j \in DOMAIN merge.new : merge.new[j].idx # last.idx
    BY <1>1, <1>2, ChunkIsApart
  <2>5. \A j \in DOMAIN merge.new : merge.new[j].idx \notin Numbers(TablesOf(levels, 1))
    BY <1>2 DEF OutputsGood
  <2>6. last.idx \in Idx
    BY <1>1, ChunkNumber
  <2>7. Fits(last.range, TableFile(es))
    BY <1>1, <1>2, ChunkFits
  <2> QED
    BY <2>3, <2>4, <2>5, <2>6, <2>7
<1> HIDE DEF last, new, es
<1>11. /\ files'[1][last.idx] = TableFile(es)
       /\ \A j \in DOMAIN merge.new : files'[1][merge.new[j].idx] = files[1][merge.new[j].idx]
  <2>1. \A i \in Idx : files'[1][i] = CASE i = last.idx -> TableFile(es)
                         [] i \in Numbers(TablesOf(levels, 1)) -> NoFile
                         [] OTHER -> files[1][i]
    BY <1>1
  <2> QED
    BY <1>10, <2>1
<1>12. ASSUME NEW j \in DOMAIN W
       PROVE  /\ ChunkOf(W, j, TableAt(1, j)')
              /\ Fits(TablesOf(levels', 1)[j].range, TableAt(1, j)')
  <2>0. TableAt(1, j)' = files'[1][new[j].idx] /\ TablesOf(levels', 1)[j].range = new[j].range
    BY SMTT(60), <1>4 DEF TableAt
  <2>1. CASE j \in 1..n
    <3>1. TableAt(1, j)' = files[1][merge.new[j].idx] /\ new[j] = merge.new[j]
      BY <1>6, <1>11, <2>0, <2>1
    <3>2. ChunkOf(WrittenChunks, j, files[1][merge.new[j].idx])
      BY <1>2, <1>6, <2>1, ChunksWritten
    <3>3. ChunkOf(W, j, files[1][merge.new[j].idx])
      BY <1>8, <2>1, <3>2 DEF ChunkOf
    <3>4. Fits(merge.new[j].range, files[1][merge.new[j].idx])
      BY <1>2, <1>6, <2>1 DEF NewRangesFit
    <3> QED
      BY <2>0, <3>1, <3>3, <3>4
  <2>2. CASE j = n + 1
    <3>1. TableAt(1, j)' = TableFile(es) /\ new[j] = last /\ W[j] = es
      BY <1>6, <1>8, <1>11, <2>0, <2>2
    <3>2. Writable(es) /\ es \in EntrySeqs /\ es # <<>>
      BY <1>1, <1>2 DEF es
    <3> QED
      BY <1>10, <2>0, <3>1, <3>2 DEF ChunkOf
  <2>3. j \in 1..n \/ j = n + 1
    BY <1>6, <1>8
  <2> QED
    BY <2>1, <2>2, <2>3
<1> QED
  BY <1>1, <1>3, <1>4, <1>6, <1>8, <1>9, <1>12

\* The chunks answer what the tables that were merged answered.
LEMMA FinishKeepsLookup == DataInv /\ MergeInv /\ LookupInv /\ FinishMerge => LookupInv'
<1> SUFFICES ASSUME DataInv, MergeInv, LookupInv, FinishMerge
             PROVE  LookupInv'
  OBVIOUS
<1>1. PICK W : W = Append(WrittenChunks, merge.chunk)
  OBVIOUS
<1>2. /\ merge.pc = "loop" /\ merge.heap = {} /\ merge' = NoMerge
      /\ list' = list /\ kv' = kv /\ lost' = lost /\ ManifestInv'
      /\ TablesOf(levels', 0) = <<>>
      /\ W \in Seq(EntrySeqs) /\ W # <<>> /\ FlattenSeq(W) = Emitted
      /\ DOMAIN TablesOf(levels', 1) = DOMAIN W
      /\ \A j \in DOMAIN W :
           /\ ChunkOf(W, j, TableAt(1, j)')
           /\ Fits(TablesOf(levels', 1)[j].range, TableAt(1, j)')
  BY <1>1, FinishDoes
<1>3. /\ LevelsShape(levels) /\ NamedFiles /\ RangesFit /\ LoopInv /\ InputsOpen
      /\ LevelsShape(levels')
  BY <1>2 DEF DataInv, ManifestInv, MergeInv, LookupInv
<1>4. lost = {} /\ \A l \in 0..1 : \A i \in Named(l) : Untouched(files[l][i])
  BY <1>2, <1>3, AllInputsRead, AllIntact
<1>5. RangesFit'
  BY <1>2 DEF RangesFit
<1>6. DOMAIN TablesOf(levels', 0) = {}
  BY <1>2
<1>7. NamedUntouched'
  <2> SUFFICES ASSUME NEW l \in 0..1, NEW i \in Named(l)'
               PROVE  Untouched(files'[l][i])
    BY DEF NamedUntouched
  <2>1. PICK j \in DOMAIN TablesOf(levels', l) : i = TablesOf(levels', l)[j].idx
    BY DEF Named, Numbers
  <2>2. l = 1
    BY <1>6, <2>1
  <2>3. ChunkOf(W, j, files'[1][i])
    BY <1>2, <2>1, <2>2 DEF TableAt
  <2> QED
    BY <2>2, <2>3 DEF ChunkOf, Untouched
<1>8. ASSUME NEW k \in Key
      PROVE  FromTables(k)' = FromTables(k)
  <2>1. /\ \A j \in DOMAIN W : TableOf(W[j])[k] # None => TableOf(W[j])[k] = TableOf(Emitted)[k]
        /\ (\A j \in DOMAIN W : TableOf(W[j])[k] = None) => TableOf(Emitted)[k] = None
    <3>1. \A j \in DOMAIN W : StrictlySorted(Keys(W[j]))
      BY <1>2 DEF ChunkOf, Writable
    <3>2. StrictlySorted(Keys(Emitted))
      BY <1>3 DEF LoopInv
    <3> QED
      BY <1>2, <3>1, <3>2, SpreadOverChunks
  <2>2. TableOf(Emitted)[k] = FromTables(k)
    <3>1. TableOf(Emitted)[k] = MergedLevels[k]
      BY <1>2, <1>3, OutputSoFar DEF LoopInv
    <3> QED
      BY <1>3, <1>4, <3>1, MergedIsFound
  <2>3. \A j \in DOMAIN W : Says(1, j, k)' = TableOf(W[j])[k]
    <3> TAKE j \in DOMAIN W
    <3>1. ChunkOf(W, j, TableAt(1, j)')
      BY <1>2
    <3>2. Answer(TableAt(1, j)', k) = TableOf(W[j])[k]
      BY <3>1, TableFileAnswersForWritten DEF ChunkOf
    <3> QED
      BY <3>2 DEF Says
  <2>4. CASE Silent(k)'
    <3>1. \A j \in DOMAIN W : TableOf(W[j])[k] = None
      BY <1>2, <2>3, <2>4 DEF Silent
    <3>2. FromTables(k)' = None
      BY <1>3, <1>5, <2>4, FromTablesIsNext
    <3> QED
      BY <2>1, <2>2, <3>1, <3>2
  <2>5. CASE \E l, j : FirstSays(l, j, k)'
    <3>1. PICK l, j : FirstSays(l, j, k)'
      BY <2>5
    <3>2. l = 1 /\ j \in DOMAIN W /\ Says(l, j, k)' # None
      BY <1>2, <1>6, <3>1 DEF FirstSays
    <3>3. FromTables(k)' = Says(l, j, k)'
      BY <1>3, <1>5, <3>1, FromTablesIsNext
    <3> QED
      BY <2>1, <2>2, <2>3, <3>2, <3>3
  <2> QED
    BY <1>3, <1>5, <2>4, <2>5, OneAnswersNext
<1>9. TablesAgree'
  BY <1>2, <1>8 DEF TablesAgree, LookupInv
<1>10. merge'.pc = "idle" /\ merge'.new = <<>>
  BY <1>2 DEF NoMerge
<1>11. NewRangesFit'
  BY <1>10 DEF NewRangesFit
<1> QED
  BY <1>2, <1>4, <1>5, <1>7, <1>9, <1>10, <1>11 DEF LookupInv

-----------------------------------------------------------------------------
(***************************************************************************)
(* All steps together.                                                     *)
(***************************************************************************)
LEMMA InitLookup == Init => LookupInv
<1> SUFFICES ASSUME Init
             PROVE  LookupInv
  OBVIOUS
<1>1. levels = <<>> /\ merge = NoMerge /\ lost = {} /\ kv = EmptyTable
  BY DEF Init
<1>2. \A l \in 0..1 : TablesOf(levels, l) = <<>>
  BY <1>1, TablesListed
<1>3. LevelsShape(levels)
  BY <1>1 DEF LevelsShape
<1>4. RangesFit /\ NamedUntouched
  BY <1>2 DEF RangesFit, NamedUntouched, Named, Numbers
<1>5. TablesAgree
  <2>1. \A k \in Key : Silent(k)
    BY <1>2 DEF Silent
  <2>2. \A k \in Key : FromTables(k) = None
    BY <1>3, <1>4, <2>1, FromTablesIs
  <2> QED
    BY <1>1, <2>2 DEF TablesAgree, EmptyTable
<1>6. merge.pc # "loop" /\ merge.new = <<>>
  BY <1>1 DEF NoMerge
<1> QED
  BY <1>1, <1>4, <1>5, <1>6 DEF LookupInv, NewRangesFit

LEMMA StepKeepsLookup == DataInv /\ MergeInv /\ LookupInv /\ [Next]_vars => LookupInv'
<1> SUFFICES ASSUME DataInv, MergeInv, LookupInv, [Next]_vars
             PROVE  LookupInv'
  OBVIOUS
<1>1. CASE \E w \in Workload[flushes + 1], height \in 1..MaxLevels :
             flushes + 1 \in DOMAIN Workload /\ Put(w, height)
  <2>1. PICK w \in Workload[flushes + 1], height \in 1..MaxLevels :
          flushes + 1 \in DOMAIN Workload /\ Put(w, height)
    BY <1>1
  <2>2. w \in [key : Key, entry : Entry]
    BY <2>1, WorkloadIsWrites
  <2> QED
    BY <2>1, <2>2, PutKeepsLookup
<1>2. CASE Flush
  BY <1>2, FlushKeepsLookup
<1>3. CASE Merge
  <2>1. CASE StartFails \/ MergeFails
    <3>1. Abort
      BY <2>1 DEF StartFails, MergeFails
    <3> QED
      BY <3>1, AbortKeepsLookup
  <2> QED
    BY <1>3, <2>1, StartKeepsLookup, EntryKeepsLookup, FinishKeepsLookup DEF Merge
<1>4. CASE Damage
  BY <1>4, DamageKeepsLookup
<1>5. CASE Reopen
  BY <1>5, ReopenKeepsLookup
<1>6. CASE UNCHANGED vars
  <2>1. levels' = levels /\ list' = list /\ kv' = kv /\ lost' = lost /\ files' = files /\ merge' = merge
    BY <1>6 DEF vars
  <2>2. NewRangesFit'
    BY <2>1 DEF NewRangesFit, LookupInv
  <2> QED
    BY <2>1, <2>2, NamedStay DEF LookupInv
<1> QED
  BY <1>1, <1>2, <1>3, <1>4, <1>5, <1>6 DEF Next

\* No table shows garbage, and the MemTable has none.
LEMMA LookupInvIsEnough == DataInv /\ MergeInv /\ LookupInv => LookupsAgree
<1> SUFFICES ASSUME DataInv, MergeInv, LookupInv, NEW k \in Key
             PROVE  IF k \in lost THEN Lookup(k) # Garbage
                    ELSE Visible(Lookup(k)) = Visible(kv[k])
  BY DEF LookupsAgree
<1>1. Lookup(k) = IF ListGet(list, k) # None THEN ListGet(list, k) ELSE FromTables(k)
  BY DEF Lookup, FromTables
<1>2. ListGet(list, k) # None => ListGet(list, k) = kv[k] /\ kv[k] \in Entry
  <2>1. list \in SkipLists /\ TowersSound(list) /\ Tidy(list)
        /\ \A c \in Linked(list, 1) : list.value[c] = kv[c]
    BY DEF DataInv, MemTableInv
  <2>2. k \in Linked(list, 1) => list.value[k] \in Entry
    BY <2>1 DEF Tidy
  <2> QED
    BY <2>1, <2>2, GetIsLookup
<1>3. FromTables(k) \in Entry \cup {None}
  <2>1. LevelsShape(levels) /\ RangesFit /\ NamedFiles
    BY DEF DataInv, ManifestInv, MergeInv, LookupInv
  <2>2. \A l, j : FirstSays(l, j, k) => Says(l, j, k) \in Entry \cup {None}
    <3> SUFFICES ASSUME NEW l, NEW j, FirstSays(l, j, k)
                 PROVE  Says(l, j, k) \in Entry \cup {None}
      OBVIOUS
    <3>1. l \in 0..1 /\ j \in DOMAIN TablesOf(levels, l)
      BY DEF FirstSays
    <3>2. GoodFile(TableAt(l, j))
      BY <2>1, <3>1 DEF NamedFiles, Numbers, TableAt
    <3> QED
      BY <3>2, AnswerIsEntry DEF Says
  <2> QED
    BY <2>1, <2>2, FromTablesIs, OneAnswers
<1>4. Garbage \notin Entry \cup {None}
  BY GarbageIsNoData
<1>5. CASE k \in lost
  BY <1>1, <1>2, <1>3, <1>4, <1>5
<1>6. CASE k \notin lost
  <2>1. ListGet(list, k) = None => FromTables(k) = kv[k]
    BY <1>6 DEF LookupInv, TablesAgree
  <2>2. Lookup(k) = kv[k]
    BY <1>1, <1>2, <2>1
  <2> QED
    BY <1>6, <2>2
<1> QED
  BY <1>5, <1>6

\* A lookup returns the entry last written, whatever writes, flushes, merges and
\* starts there were; damage to a table costs the keys whose last entry was in
\* the block, or in the file that no longer opens, and never shows garbage
\* (get, getKey, found, compactSSTables, newSSTableStore).
THEOREM LookupsFindLastWrite == Spec => []LookupsAgree
<1>1. Init => DataInv
  BY InitManifest, InitMemTable, InitFilesShape DEF DataInv
<1>2. DataInv /\ [Next]_vars => DataInv'
  BY StepKeepsManifest, StepKeepsMemTable, StepKeepsFilesShape DEF DataInv
<1> QED
  BY <1>1, <1>2, InitMerge, StepKeepsMerge, InitLookup, StepKeepsLookup, LookupInvIsEnough, PTL DEF Spec
=============================================================================
