-------------------------- MODULE LSMTablesProofs --------------------------
(***************************************************************************)
(* Facts about the operators of LSMTables that the proofs about the engine *)
(* rest on.                                                                *)
(***************************************************************************)
EXTENDS LSMTables, FiniteSetTheorems, TLAPS

(***************************************************************************)
(* Minimum and maximum of sets of integers.                                *)
(***************************************************************************)
\* A set of natural numbers that is not empty has a least element.
LEMMA LeastNatural ==
  ASSUME NEW S \in SUBSET Nat, S # {}
  PROVE  \E n \in S : \A m \in S : n <= m
<1>1. PICK n \in S : \A m \in S : ~ (<<m, n>> \in OpToRel(<, Nat))
  BY NatLessThanWellFounded, WFMin, Zenon
<1>2. \A m \in S : ~ (m < n)
  <2> SUFFICES ASSUME NEW m \in S, m < n PROVE FALSE
    OBVIOUS
  <2>1. <<m, n>> \in OpToRel(<, Nat)
    BY DEF OpToRel
  <2> QED
    BY <1>1, <2>1, Zenon
<1>3. n \in Nat /\ \A m \in S : m \in Nat
  OBVIOUS
<1> QED
  BY <1>2, <1>3

\* Min of a finite set of integers is its least element (chunkMinKey of
\* flushChunk is the first key of its chunk).
LEMMA MinIsLeast ==
  ASSUME NEW S \in SUBSET Int, S # {}, IsFiniteSet(S)
  PROVE  Min(S) \in S /\ \A x \in S : Min(S) <= x
<1> DEFINE Below(x) == {y \in S : y < x}
           N == {Cardinality(Below(x)) : x \in S}
<1>0. \A x \in S : x \in Int
  OBVIOUS
<1>1. \A x \in S : IsFiniteSet(Below(x)) /\ Cardinality(Below(x)) \in Nat
  <2> TAKE x \in S
  <2>1. IsFiniteSet(Below(x))
    BY FS_Subset
  <2> QED
    BY <2>1, FS_CardinalityType
<1>2. PICK n \in N : \A m \in N : n <= m
  <2>1. N \in SUBSET Nat /\ N # {}
    BY <1>1
  <2> HIDE DEF N
  <2> QED
    BY <2>1, LeastNatural
<1>3. PICK x \in S : n = Cardinality(Below(x))
  OBVIOUS
<1>4. \A y \in S : x <= y
  <2> SUFFICES ASSUME NEW y \in S, y < x PROVE FALSE
    BY <1>0
  <2>1. Below(y) \subseteq Below(x) /\ y \in Below(x) /\ y \notin Below(y)
    <3>1. x \in Int /\ y \in Int
      BY <1>0
    <3>2. \A z \in S : z < y => z < x
      BY <1>0, <3>1
    <3>3. Below(y) \subseteq Below(x)
      BY <3>2
    <3>4. y \in Below(x) /\ y \notin Below(y)
      BY <3>1
    <3> QED
      BY <3>3, <3>4
  <2>2. Cardinality(Below(y)) < Cardinality(Below(x))
    <3> HIDE DEF Below
    <3>1. /\ Cardinality(Below(y)) <= Cardinality(Below(x))
          /\ Cardinality(Below(y)) # Cardinality(Below(x))
      BY <1>1, <2>1, FS_Subset
    <3> QED
      BY <1>1, <3>1
  <2>3. n <= Cardinality(Below(y))
    BY <1>2
  <2>4. Cardinality(Below(y)) \in Nat /\ n \in Nat
    BY <1>1, <1>3, Zenon
  <2> HIDE DEF Below, N
  <2> QED
    BY <1>3, <2>2, <2>3, <2>4
<1> QED
  BY <1>4 DEF Min

\* Max of a finite set of integers is its greatest element (the newest table
\* of a lookup, chunkMaxKey of flushChunk, getNextSSTableIndex).
LEMMA MaxIsGreatest ==
  ASSUME NEW S \in SUBSET Int, S # {}, IsFiniteSet(S)
  PROVE  Max(S) \in S /\ \A x \in S : x <= Max(S)
<1> DEFINE Above(x) == {y \in S : y > x}
           N == {Cardinality(Above(x)) : x \in S}
<1>0. \A x \in S : x \in Int
  OBVIOUS
<1>1. \A x \in S : IsFiniteSet(Above(x)) /\ Cardinality(Above(x)) \in Nat
  <2> TAKE x \in S
  <2>1. IsFiniteSet(Above(x))
    BY FS_Subset
  <2> QED
    BY <2>1, FS_CardinalityType
<1>2. PICK n \in N : \A m \in N : n <= m
  <2>1. N \in SUBSET Nat /\ N # {}
    BY <1>1
  <2> HIDE DEF N
  <2> QED
    BY <2>1, LeastNatural
<1>3. PICK x \in S : n = Cardinality(Above(x))
  OBVIOUS
<1>4. \A y \in S : x >= y
  <2> SUFFICES ASSUME NEW y \in S, y > x PROVE FALSE
    BY <1>0
  <2>1. Above(y) \subseteq Above(x) /\ y \in Above(x) /\ y \notin Above(y)
    <3>1. x \in Int /\ y \in Int
      BY <1>0
    <3>2. \A z \in S : z > y => z > x
      BY <1>0, <3>1
    <3>3. Above(y) \subseteq Above(x)
      BY <3>2
    <3>4. y \in Above(x) /\ y \notin Above(y)
      BY <3>1
    <3> QED
      BY <3>3, <3>4
  <2>2. Cardinality(Above(y)) < Cardinality(Above(x))
    <3> HIDE DEF Above
    <3>1. /\ Cardinality(Above(y)) <= Cardinality(Above(x))
          /\ Cardinality(Above(y)) # Cardinality(Above(x))
      BY <1>1, <2>1, FS_Subset
    <3> QED
      BY <1>1, <3>1
  <2>3. n <= Cardinality(Above(y))
    BY <1>2
  <2> QED
    BY <1>1, <1>3, <2>2, <2>3
<1>5. \E z \in S : \A y \in S : z >= y
  BY <1>4
<1>6. Max(S) \in S /\ \A y \in S : Max(S) >= y
  BY <1>5 DEF Max
<1> QED
  BY <1>6

-----------------------------------------------------------------------------
(***************************************************************************)
(* What the lookups, the replay and the merge return.                      *)
(***************************************************************************)
\* The indices of a sequence that satisfy a condition have a greatest one.
LEMMA GreatestHit ==
  ASSUME NEW T, NEW s \in Seq(T), NEW hits \in SUBSET DOMAIN s, hits # {}
  PROVE  /\ Max(hits) \in hits
         /\ \A i \in hits : i <= Max(hits)
<1>1. DOMAIN s = 1..Len(s) /\ Len(s) \in Nat
  OBVIOUS
<1>2. IsFiniteSet(1..Len(s))
  BY <1>1, FS_Interval
<1>3. IsFiniteSet(hits) /\ hits \in SUBSET Int
  BY <1>1, <1>2, FS_Subset
<1> QED
  BY <1>3, MaxIsGreatest

\* getNextSSTableIndex returns a number above those in use.
LEMMA NextIndexIsFresh ==
  ASSUME NEW nums \in SUBSET Nat, IsFiniteSet(nums)
  PROVE  NextIndex(nums) \in Nat /\ \A x \in nums : x < NextIndex(nums)
<1>1. CASE nums = {}
  BY <1>1 DEF NextIndex
<1>2. CASE nums # {}
  <2>1. nums \in SUBSET Int
    OBVIOUS
  <2>2. Max(nums) \in nums /\ \A x \in nums : x <= Max(nums)
    BY <1>2, <2>1, MaxIsGreatest
  <2>3. NextIndex(nums) = Max(nums) + 1 /\ Max(nums) \in Nat
    BY <1>2, <2>2 DEF NextIndex
  <2> QED
    BY <2>2, <2>3
<1> QED
  BY <1>1, <1>2

\* A chunk of at least one entry is cut from what is left to write.
LEMMA LowestIsChunk ==
  ASSUME NEW S \in SUBSET Key, S # {}, NEW n \in Nat, n # 0
  PROVE  /\ Lowest(S, n) \subseteq S
         /\ Lowest(S, n) # {}
         /\ Min(Lowest(S, n)) \in Lowest(S, n)
         /\ Max(Lowest(S, n)) \in Lowest(S, n)
         /\ \A k \in Lowest(S, n) : /\ Min(Lowest(S, n)) <= k
                                    /\ k <= Max(Lowest(S, n))
<1>1. S \in SUBSET Int /\ IsFiniteSet(S)
  BY KeysAreOrdered, FS_Subset
<1>2. Min(S) \in S /\ \A x \in S : Min(S) <= x
  BY <1>1, MinIsLeast
<1>3. Lowest(S, n) \subseteq S
  BY DEF Lowest
<1>4. Min(S) \in Lowest(S, n)
  <2>1. {j \in S : j < Min(S)} = {}
    <3>1. \A j \in S : j \in Int /\ Min(S) \in Int
      BY <1>1, <1>2
    <3> QED
      BY <1>2, <3>1
  <2>2. Cardinality({j \in S : j < Min(S)}) = 0
    BY <2>1, FS_EmptySet
  <2> QED
    BY <1>2, <2>2 DEF Lowest
<1>5. Lowest(S, n) \in SUBSET Int /\ IsFiniteSet(Lowest(S, n))
  BY <1>1, <1>3, FS_Subset
<1> HIDE DEF Lowest
<1> QED
  BY <1>3, <1>4, <1>5, MinIsLeast, MaxIsGreatest

\* Replay makes a MemTable of any log, readable to its end or not.
LEMMA ReplayType ==
  ASSUME NEW w \in Seq(Line)
  PROVE  Replay(w) \in Table
<1> DEFINE hits(k) == {i \in ReadableLines(w) : w[i].key = k}
<1> SUFFICES ASSUME NEW k \in Key, hits(k) # {}
             PROVE  w[Max(hits(k))].entry \in Entry
  BY DEF Replay, Table
<1>1. hits(k) \in SUBSET DOMAIN w
  BY DEF ReadableLines
<1>2. Max(hits(k)) \in hits(k)
  <2> HIDE DEF hits
  <2> QED
    BY <1>1, GreatestHit
<1>3. /\ Max(hits(k)) \in DOMAIN w
      /\ w[Max(hits(k))] \notin {Torn, Garbled}
  <2>1. Max(hits(k)) \in ReadableLines(w)
    BY <1>2
  <2>2. \A i \in ReadableLines(w) : i \in DOMAIN w /\ w[i] \notin {Torn, Garbled}
    BY DEF ReadableLines
  <2> QED
    BY <2>1, <2>2
<1>4. w[Max(hits(k))] \in Line
  BY <1>3
<1> QED
  BY <1>3, <1>4 DEF Line, Record

\* A lookup through a level returns an entry of one of its tables or None.
LEMMA L0FindType ==
  ASSUME NEW I, NEW dir \in [I -> Table \cup {NoFile}],
         NEW names \in Seq(I), NEW k \in Key
  PROVE  L0Find(names, dir, k) \in Entry \cup {None}
<1> DEFINE hits == {i \in DOMAIN names : Holds(dir[names[i]], k)}
<1> SUFFICES ASSUME hits # {}
             PROVE  dir[names[Max(hits)]][k] \in Entry \cup {None}
  BY DEF L0Find
<1>1. Max(hits) \in hits
  <2>1. hits \in SUBSET DOMAIN names
    OBVIOUS
  <2> HIDE DEF hits
  <2> QED
    BY <2>1, GreatestHit
<1>2. names[Max(hits)] \in I /\ Holds(dir[names[Max(hits)]], k)
  BY <1>1
<1> HIDE DEF hits
<1> QED
  BY <1>2 DEF Holds, Table

\* So does the merge for every key: its result is a table.
LEMMA MergedType ==
  ASSUME NEW I, NEW files0 \in [0..1 -> [I -> Table \cup {NoFile}]],
         NEW l0 \in Seq(I), NEW T, NEW l1 \in Seq(T),
         \A t \in T : t.idx \in I
  PROVE  Merged(l0, l1, files0) \in Table
<1> SUFFICES ASSUME NEW k \in Key
             PROVE  Merged(l0, l1, files0)[k] \in Entry \cup {None}
  BY Zenon DEF Merged, Table
<1> DEFINE old == {i \in DOMAIN l1 : Holds(files0[1][l1[i].idx], k)}
           new == L0Find(l0, files0[0], k)
<1>1. new \in Entry \cup {None}
  BY L0FindType
<1>2. ASSUME old # {}
      PROVE  files0[1][l1[Max(old)].idx][k] \in Entry
  <2> DEFINE m == Max(old)
  <2>1. m \in old
    <3>1. old \in SUBSET DOMAIN l1
      BY Zenon
    <3> HIDE DEF old
    <3> QED
      BY <1>2, <3>1, GreatestHit
  <2>2. m \in DOMAIN l1 /\ Holds(files0[1][l1[m].idx], k)
    BY <2>1, Zenon
  <2> HIDE DEF m, old
  <2>3. l1[m].idx \in I
    BY <2>2
  <2>4. files0[1][l1[m].idx] \in Table \cup {NoFile}
    <3>1. files0[1] \in [I -> Table \cup {NoFile}]
      OBVIOUS
    <3> QED
      BY <2>3, <3>1
  <2> QED
    BY <2>2, <2>4 DEF Holds, Table, m
<1>3. Merged(l0, l1, files0)[k] =
        IF new # None THEN new
        ELSE IF old = {} THEN None ELSE files0[1][l1[Max(old)].idx][k]
  BY Zenon DEF Merged
<1> HIDE DEF old, new
<1> QED
  BY <1>1, <1>2, <1>3

\* Appending to a log, whatever its tail, gives a log.
LEMMA LogAppendType ==
  ASSUME NEW w \in Seq(Line), NEW r \in Record
  PROVE  LogAppend(w, r) \in Seq(Line)
BY DEF LogAppend, Encoded, Line

-----------------------------------------------------------------------------
(***************************************************************************)
(* How lookups, replay and merge change when one thing is added.           *)
(***************************************************************************)
\* What is not below any other member is the maximum.
LEMMA MaxIsUnique ==
  ASSUME NEW S \in SUBSET Int, NEW x \in S, \A y \in S : y <= x
  PROVE  Max(S) = x
<1>1. \A y \in S : y \in Int
  OBVIOUS
<1>2. \A z \in S : (\A y \in S : z >= y) => z = x
  BY <1>1
<1>3. \A y \in S : x >= y
  BY <1>1
<1> QED
  BY <1>2, <1>3 DEF Max

\* A log of whole records is readable to its end, and an append adds a line.
LEMMA WholeRecords ==
  ASSUME NEW w \in Seq(Record)
  PROVE  /\ ReadableLines(w) = DOMAIN w
         /\ Unreadable = {} => \A r : LogAppend(w, r) = Append(w, r)
<1>1. \A i \in DOMAIN w : w[i] \notin {Torn, Garbled}
  <2>1. \A i \in DOMAIN w : w[i] \in Record
    OBVIOUS
  <2> QED
    BY <2>1, SentinelsAreNoData
<1>2. ReadableLines(w) = DOMAIN w
  <2>1. \A i \in DOMAIN w : 1..i \subseteq DOMAIN w
    OBVIOUS
  <2> QED
    BY <1>1, <2>1 DEF ReadableLines
<1>3. w # <<>> => w[Len(w)] # Torn
  <2>1. w # <<>> => Len(w) \in DOMAIN w
    OBVIOUS
  <2> QED
    BY <1>1, <2>1
<1> QED
  BY <1>2, <1>3 DEF LogAppend, Encoded

\* Replaying one more record is applying it to the MemTable replayed so far:
\* what Put does while the engine runs, a restart does again.
LEMMA ReplayAppend ==
  ASSUME NEW w \in Seq(Record), NEW r \in Record
  PROVE  Replay(Append(w, r)) = [Replay(w) EXCEPT ![r.key] = r.entry]
<1> DEFINE w2 == Append(w, r)
           hits(v, k) == {i \in DOMAIN v : v[i].key = k}
           at(v, k) == IF hits(v, k) = {} THEN None ELSE v[Max(hits(v, k))].entry
<1>1. w2 \in Seq(Record) /\ Len(w) \in Nat /\ Len(w2) = Len(w) + 1
      /\ DOMAIN w = 1..Len(w) /\ DOMAIN w2 = 1..(Len(w) + 1)
      /\ w2[Len(w) + 1] = r /\ \A i \in 1..Len(w) : w2[i] = w[i]
  OBVIOUS
<1>2. Replay(w) = [k \in Key |-> at(w, k)] /\ Replay(w2) = [k \in Key |-> at(w2, k)]
  <2> HIDE DEF w2
  <2>1. ReadableLines(w) = DOMAIN w /\ ReadableLines(w2) = DOMAIN w2
    BY <1>1, WholeRecords
  <2> QED
    BY <2>1 DEF Replay
<1> HIDE DEF w2
<1>3. \A k \in Key : at(w2, k) = IF k = r.key THEN r.entry ELSE at(w, k)
  <2> TAKE k \in Key
  <2>1. CASE k = r.key
    <3>1. /\ Len(w) + 1 \in hits(w2, k) /\ hits(w2, k) \in SUBSET Int
          /\ \A i \in hits(w2, k) : i <= Len(w) + 1
      BY <1>1, <2>1
    <3>2. Max(hits(w2, k)) = Len(w) + 1
      <4> HIDE DEF hits
      <4> QED
        BY <3>1, MaxIsUnique
    <3>3. at(w2, k) = r.entry
      <4>1. hits(w2, k) # {}
        BY <3>1
      <4> HIDE DEF hits
      <4> QED
        BY <1>1, <3>2, <4>1
    <3> QED
      BY <2>1, <3>3
  <2>2. CASE k # r.key
    <3>1. hits(w2, k) = hits(w, k)
      BY <1>1, <2>2
    <3>2. hits(w, k) # {} => Max(hits(w, k)) \in 1..Len(w)
      <4>1. hits(w, k) \in SUBSET DOMAIN w
        OBVIOUS
      <4> HIDE DEF hits
      <4> QED
        BY <1>1, <4>1, GreatestHit
    <3>3. hits(w, k) # {} => w2[Max(hits(w, k))] = w[Max(hits(w, k))]
      <4> HIDE DEF hits
      <4> QED
        BY <1>1, <3>2
    <3>4. at(w2, k) = at(w, k)
      <4> HIDE DEF hits
      <4> QED
        BY <3>1, <3>3
    <3> QED
      BY <2>2, <3>4
  <2> QED
    BY <2>1, <2>2
<1> HIDE DEF at
<1>4. r.key \in Key
  BY DEF Record
<1> QED
  BY <1>2, <1>3, <1>4 DEF w2

LEMMA ReplayNothing == Replay(<<>>) = EmptyTable
BY DEF Replay, EmptyTable, ReadableLines

\* A lookup depends on the files of the tables it names only.
LEMMA L0FindSameFiles ==
  ASSUME NEW names, NEW d1, NEW d2, NEW k,
         \A i \in DOMAIN names : d1[names[i]] = d2[names[i]],
         NEW T, names \in Seq(T)
  PROVE  L0Find(names, d1, k) = L0Find(names, d2, k)
<1> DEFINE hits(d) == {i \in DOMAIN names : Holds(d[names[i]], k)}
<1>1. hits(d1) = hits(d2) /\ hits(d1) \in SUBSET DOMAIN names
  OBVIOUS
<1>2. hits(d1) # {} => Max(hits(d1)) \in DOMAIN names
  <2> HIDE DEF hits
  <2> QED
    BY <1>1, GreatestHit
<1>3. hits(d1) # {} => d1[names[Max(hits(d1))]] = d2[names[Max(hits(d1))]]
  <2> HIDE DEF hits
  <2> QED
    BY <1>2
<1>4. \A d : L0Find(names, d, k) =
               IF hits(d) = {} THEN None ELSE d[names[Max(hits(d))]][k]
  BY DEF L0Find
<1> HIDE DEF hits
<1> QED
  BY <1>1, <1>3, <1>4

LEMMA L1FindSameFiles ==
  ASSUME NEW tables, NEW d1, NEW d2, NEW k,
         \A i \in DOMAIN tables : d1[tables[i].idx] = d2[tables[i].idx],
         NEW T, tables \in Seq(T)
  PROVE  L1Find(tables, d1, k) = L1Find(tables, d2, k)
<1> DEFINE hits(d) == {i \in DOMAIN tables :
                         InRange(k, tables[i]) /\ Holds(d[tables[i].idx], k)}
<1>1. hits(d1) = hits(d2) /\ hits(d1) \in SUBSET DOMAIN tables
  OBVIOUS
<1>2. hits(d1) # {} => Max(hits(d1)) \in DOMAIN tables
  <2> HIDE DEF hits
  <2> QED
    BY <1>1, GreatestHit
<1>3. hits(d1) # {} => d1[tables[Max(hits(d1))].idx] = d2[tables[Max(hits(d1))].idx]
  <2> HIDE DEF hits
  <2> QED
    BY <1>2
<1>4. \A d : L1Find(tables, d, k) =
               IF hits(d) = {} THEN None ELSE d[tables[Max(hits(d))].idx][k]
  BY DEF L1Find
<1> HIDE DEF hits
<1> QED
  BY <1>1, <1>3, <1>4

\* The newest table of level 0 answers for the keys it holds.
LEMMA L0FindAppend ==
  ASSUME NEW T, NEW names \in Seq(T), NEW n \in T, NEW dir, NEW k
  PROVE  L0Find(Append(names, n), dir, k) =
           IF Holds(dir[n], k) THEN dir[n][k] ELSE L0Find(names, dir, k)
<1> DEFINE names2 == Append(names, n)
           hits(s) == {i \in DOMAIN s : Holds(dir[s[i]], k)}
<1>1. /\ names2 \in Seq(T) /\ Len(names) \in Nat
      /\ DOMAIN names = 1..Len(names) /\ DOMAIN names2 = 1..(Len(names) + 1)
      /\ names2[Len(names) + 1] = n /\ \A i \in 1..Len(names) : names2[i] = names[i]
  OBVIOUS
<1>2. \A s : L0Find(s, dir, k) =
               IF hits(s) = {} THEN None ELSE dir[s[Max(hits(s))]][k]
  BY DEF L0Find
<1> HIDE DEF names2
<1>3. CASE Holds(dir[n], k)
  <2>1. /\ Len(names) + 1 \in hits(names2) /\ hits(names2) \in SUBSET Int
        /\ \A i \in hits(names2) : i <= Len(names) + 1
    BY <1>1, <1>3
  <2>2. Max(hits(names2)) = Len(names) + 1 /\ hits(names2) # {}
    <3> HIDE DEF hits
    <3> QED
      BY <2>1, MaxIsUnique
  <2> HIDE DEF hits
  <2> QED
    BY <1>1, <1>2, <1>3, <2>2, ZenonT(60) DEF names2
<1>4. CASE ~Holds(dir[n], k)
  <2>1. hits(names2) = hits(names) /\ hits(names) \in SUBSET DOMAIN names
    BY <1>1, <1>4
  <2>2. hits(names) # {} => Max(hits(names)) \in 1..Len(names)
    <3> HIDE DEF hits
    <3> QED
      BY <1>1, <2>1, GreatestHit
  <2> HIDE DEF hits
  <2>3. hits(names) # {} => names2[Max(hits(names))] = names[Max(hits(names))]
    BY <1>1, <2>2
  <2>4. L0Find(names2, dir, k) = L0Find(names, dir, k)
    BY <1>2, <2>1, <2>3, Zenon
  <2> QED
    BY <1>4, <2>4, Zenon DEF names2
<1> QED
  BY <1>3, <1>4

\* What the newest table of level 0 holds is what the level answers.
LEMMA L0FindNewest ==
  ASSUME NEW T, NEW names \in Seq(T), names # <<>>, NEW dir, NEW k,
         Holds(dir[names[Len(names)]], k)
  PROVE  L0Find(names, dir, k) = dir[names[Len(names)]][k]
<1> DEFINE hits == {i \in DOMAIN names : Holds(dir[names[i]], k)}
<1>1. /\ Len(names) \in hits /\ hits \in SUBSET Int
      /\ \A i \in hits : i <= Len(names)
  OBVIOUS
<1>2. L0Find(names, dir, k) = IF hits = {} THEN None ELSE dir[names[Max(hits)]][k]
  BY DEF L0Find
<1> HIDE DEF hits
<1>3. Max(hits) = Len(names)
  BY <1>1, MaxIsUnique
<1> QED
  BY <1>1, <1>2, <1>3

\* So does a new table of level 1 for the keys in its range.
LEMMA L1FindAppend ==
  ASSUME NEW T, NEW tables \in Seq(T), NEW t \in T, NEW dir, NEW k
  PROVE  L1Find(Append(tables, t), dir, k) =
           IF InRange(k, t) /\ Holds(dir[t.idx], k) THEN dir[t.idx][k]
           ELSE L1Find(tables, dir, k)
<1> DEFINE tables2 == Append(tables, t)
           hit(x) == InRange(k, x) /\ Holds(dir[x.idx], k)
           hits(s) == {i \in DOMAIN s : hit(s[i])}
<1>1. /\ tables2 \in Seq(T) /\ Len(tables) \in Nat
      /\ DOMAIN tables = 1..Len(tables) /\ DOMAIN tables2 = 1..(Len(tables) + 1)
      /\ tables2[Len(tables) + 1] = t
      /\ \A i \in 1..Len(tables) : tables2[i] = tables[i]
  OBVIOUS
<1>2. \A s : L1Find(s, dir, k) =
               IF hits(s) = {} THEN None ELSE dir[s[Max(hits(s))].idx][k]
  BY DEF L1Find
<1> HIDE DEF tables2
<1>3. CASE hit(t)
  <2>1. /\ Len(tables) + 1 \in hits(tables2) /\ hits(tables2) \in SUBSET Int
        /\ \A i \in hits(tables2) : i <= Len(tables) + 1
    <3> HIDE DEF hit
    <3> QED
      BY <1>1, <1>3
  <2>2. Max(hits(tables2)) = Len(tables) + 1 /\ hits(tables2) # {}
    <3> HIDE DEF hits
    <3> QED
      BY <2>1, MaxIsUnique
  <2>3. L1Find(tables2, dir, k) = dir[t.idx][k]
    <3> HIDE DEF hits
    <3> QED
      BY <1>1, <1>2, <2>2
  <2> HIDE DEF hits
  <2> QED
    BY <1>3, <2>3 DEF tables2
<1>4. CASE ~hit(t)
  <2>1. hits(tables2) = hits(tables) /\ hits(tables) \in SUBSET DOMAIN tables
    <3> HIDE DEF hit
    <3> QED
      BY <1>1, <1>4
  <2>2. hits(tables) # {} => Max(hits(tables)) \in 1..Len(tables)
    <3> HIDE DEF hits
    <3> QED
      BY <1>1, <2>1, GreatestHit
  <2>3. L1Find(tables2, dir, k) = L1Find(tables, dir, k)
    <3> HIDE DEF hits
    <3> QED
      BY <1>1, <1>2, <2>1, <2>2
  <2> HIDE DEF hits
  <2> QED
    BY <1>4, <2>3 DEF tables2
<1> QED
  BY <1>3, <1>4

\* The merge keeps for every key the entry a lookup finds: its order of levels
\* and tables is that of getKey, and skipping tables by range loses nothing.
LEMMA MergeIsLookup ==
  ASSUME NEW l0, NEW l1, NEW files0, SortedRun(l1, files0[1]), NEW k \in Key,
         \A i \in DOMAIN l1 : files0[1][l1[i].idx] # NoFile
  PROVE  Merged(l0, l1, files0)[k] = StoreFind([l0 |-> l0, l1 |-> l1], files0, k)
<1> DEFINE old == {i \in DOMAIN l1 : Holds(files0[1][l1[i].idx], k)}
           hits == {i \in DOMAIN l1 :
                      InRange(k, l1[i]) /\ Holds(files0[1][l1[i].idx], k)}
<1>1. old = hits
  <2>1. \A i \in DOMAIN l1 : Holds(files0[1][l1[i].idx], k) => InRange(k, l1[i])
    BY DEF SortedRun, Holds, KeysIn
  <2> QED
    BY <2>1
<1>2. L1Find(l1, files0[1], k) =
        IF hits = {} THEN None ELSE files0[1][l1[Max(hits)].idx][k]
  BY DEF L1Find
<1>3. Merged(l0, l1, files0)[k] =
        IF L0Find(l0, files0[0], k) # None THEN L0Find(l0, files0[0], k)
        ELSE IF old = {} THEN None ELSE files0[1][l1[Max(old)].idx][k]
  BY Zenon DEF Merged
<1> HIDE DEF old, hits
<1> QED
  BY <1>1, <1>2, <1>3 DEF StoreFind

\* What a chunk leaves for the next ones lies above all of it.
LEMMA ChunkIsBelowTheRest ==
  ASSUME NEW S \in SUBSET Key, S # {}, NEW n \in Nat, n # 0, NEW k \in S
  PROVE  k \in Lowest(S, n) \/ k > Max(Lowest(S, n))
<1> DEFINE Below(x) == {j \in S : j < x}
           m == Max(Lowest(S, n))
<1>1. m \in S /\ Cardinality(Below(m)) < n
  <2>1. m \in Lowest(S, n)
    BY LowestIsChunk
  <2> QED
    BY <2>1 DEF Lowest
<1>2. S \in SUBSET Int /\ IsFiniteSet(S)
  BY KeysAreOrdered, FS_Subset
<1>3. k \in Int /\ m \in Int
  BY <1>1, <1>2
<1>4. CASE k <= m
  <2>1. Below(k) \subseteq Below(m)
    <3>1. \A j \in S : j \in Int
      BY <1>2
    <3>2. \A j \in S : j < k => j < m
      BY <1>3, <1>4, <3>1
    <3> HIDE DEF m
    <3> QED
      BY <3>2
  <2>2. IsFiniteSet(Below(m)) /\ IsFiniteSet(Below(k))
    BY <1>2, FS_Subset
  <2>3. Cardinality(Below(k)) <= Cardinality(Below(m))
        /\ Cardinality(Below(k)) \in Nat /\ Cardinality(Below(m)) \in Nat
    <3> HIDE DEF Below, m
    <3> QED
      BY <2>1, <2>2, FS_Subset, FS_CardinalityType
  <2>4. Cardinality(Below(k)) < n
    <3> HIDE DEF Below, m
    <3> QED
      BY <1>1, <2>3
  <2> QED
    BY <2>4 DEF Lowest
<1>5. CASE k > m
  BY <1>5
<1> QED
  BY <1>3, <1>4, <1>5

\* A run depends on the files of its tables only.
LEMMA RunSameFiles ==
  ASSUME NEW tables, NEW d1, NEW d2, SortedRun(tables, d1),
         \A i \in DOMAIN tables : d1[tables[i].idx] = d2[tables[i].idx]
  PROVE  SortedRun(tables, d2)
BY DEF SortedRun

\* A chunk of higher keys, with its exact range, continues a run.
LEMMA RunAppend ==
  ASSUME NEW T, NEW tables \in Seq(T), NEW dir, SortedRun(tables, dir),
         NEW t \in T,
         \A i \in DOMAIN tables : tables[i].max < t.min,
         {t.min, t.max} \subseteq KeysIn(dir[t.idx]),
         \A k \in KeysIn(dir[t.idx]) : InRange(k, t)
  PROVE  SortedRun(Append(tables, t), dir)
<1> DEFINE tables2 == Append(tables, t)
<1>1. /\ Len(tables) \in Nat
      /\ DOMAIN tables = 1..Len(tables) /\ DOMAIN tables2 = 1..(Len(tables) + 1)
      /\ tables2[Len(tables) + 1] = t
      /\ \A i \in 1..Len(tables) : tables2[i] = tables[i]
  OBVIOUS
<1> HIDE DEF tables2
<1>2. \A i, j \in DOMAIN tables2 : i < j => tables2[i].max < tables2[j].min
  <2> SUFFICES ASSUME NEW i \in DOMAIN tables2, NEW j \in DOMAIN tables2, i < j
               PROVE  tables2[i].max < tables2[j].min
    OBVIOUS
  <2>1. i \in DOMAIN tables /\ tables2[i] = tables[i]
    BY <1>1
  <2>2. CASE j = Len(tables) + 1
    BY <1>1, <2>1, <2>2
  <2>3. CASE j # Len(tables) + 1
    <3>1. j \in DOMAIN tables /\ tables2[j] = tables[j]
      BY <1>1, <2>3
    <3> QED
      BY <2>1, <3>1 DEF SortedRun
  <2> QED
    BY <2>2, <2>3
<1>3. \A i \in DOMAIN tables2 :
        /\ {tables2[i].min, tables2[i].max} \subseteq KeysIn(dir[tables2[i].idx])
        /\ \A k \in KeysIn(dir[tables2[i].idx]) : InRange(k, tables2[i])
  <2> TAKE i \in DOMAIN tables2
  <2>1. CASE i = Len(tables) + 1
    BY <1>1, <2>1
  <2>2. CASE i \in DOMAIN tables
    <3>1. tables2[i] = tables[i]
      BY <1>1, <2>2
    <3> QED
      BY <2>2, <3>1 DEF SortedRun
  <2> QED
    BY <1>1, <2>1, <2>2
<1>4. SortedRun(tables2, dir)
  BY <1>2, <1>3 DEF SortedRun
<1> QED
  BY <1>4 DEF tables2

LEMMA EmptyRun == ASSUME NEW dir PROVE SortedRun(<<>>, dir)
BY DEF SortedRun

\* The merge depends on the files of its inputs only.
LEMMA MergedSameFiles ==
  ASSUME NEW T0, NEW l0 \in Seq(T0), NEW T1, NEW l1 \in Seq(T1), NEW f1, NEW f2,
         \A i \in DOMAIN l0 : f1[0][l0[i]] = f2[0][l0[i]],
         \A i \in DOMAIN l1 : f1[1][l1[i].idx] = f2[1][l1[i].idx]
  PROVE  Merged(l0, l1, f1) = Merged(l0, l1, f2)
<1> DEFINE old(f, k) == {i \in DOMAIN l1 : Holds(f[1][l1[i].idx], k)}
           new(f, k) == L0Find(l0, f[0], k)
           at(f, k) == IF new(f, k) # None THEN new(f, k)
                       ELSE IF old(f, k) = {} THEN None
                            ELSE f[1][l1[Max(old(f, k))].idx][k]
<1>1. \A k \in Key : at(f1, k) = at(f2, k)
  <2> TAKE k \in Key
  <2>1. new(f1, k) = new(f2, k)
    BY L0FindSameFiles
  <2>2. old(f1, k) = old(f2, k) /\ old(f1, k) \in SUBSET DOMAIN l1
    OBVIOUS
  <2>3. old(f1, k) # {} => Max(old(f1, k)) \in DOMAIN l1
    <3> HIDE DEF old
    <3> QED
      BY <2>2, GreatestHit
  <2>4. old(f1, k) # {} =>
          f1[1][l1[Max(old(f1, k))].idx] = f2[1][l1[Max(old(f1, k))].idx]
    BY <2>3, Zenon
  <2> HIDE DEF old, new
  <2>5. CASE new(f1, k) # None
    BY <2>1, <2>5
  <2>6. CASE new(f1, k) = None /\ old(f1, k) = {}
    BY <2>1, <2>2, <2>6
  <2>7. CASE new(f1, k) = None /\ old(f1, k) # {}
    <3>1. /\ at(f1, k) = f1[1][l1[Max(old(f1, k))].idx][k]
          /\ at(f2, k) = f2[1][l1[Max(old(f1, k))].idx][k]
      BY <2>1, <2>2, <2>7
    <3> QED
      BY <2>4, <2>7, <3>1, Zenon
  <2> HIDE DEF at
  <2> QED
    BY <2>5, <2>6, <2>7, SMTT(60)
<1>2. \A f : Merged(l0, l1, f) = [k \in Key |-> at(f, k)]
  BY DEF Merged
<1> HIDE DEF at
<1> QED
  BY <1>1, <1>2

-----------------------------------------------------------------------------
(***************************************************************************)
(* Lookups by table number.                                                *)
(***************************************************************************)
\* On a level 0 of ascending numbers the highest table with the key answers.
LEMMA L0FindHighest ==
  ASSUME NEW I \in SUBSET Int, NEW names \in Seq(I), Ascends(names),
         NEW dir, NEW k, NEW i \in DOMAIN names, Holds(dir[names[i]], k),
         \A j \in DOMAIN names : Holds(dir[names[j]], k) => names[j] <= names[i]
  PROVE  L0Find(names, dir, k) = dir[names[i]][k]
<1> DEFINE hits == {j \in DOMAIN names : Holds(dir[names[j]], k)}
           m == Max(hits)
<1>1. L0Find(names, dir, k) = IF hits = {} THEN None ELSE dir[names[m]][k]
  BY DEF L0Find
<1>2. i \in hits /\ hits \in SUBSET DOMAIN names
  OBVIOUS
<1>3. m \in hits /\ i <= m
  <2> HIDE DEF hits
  <2> QED
    BY <1>2, GreatestHit
<1>4. m \in DOMAIN names /\ names[m] <= names[i]
  <2> HIDE DEF m
  <2> QED
    BY <1>3
<1>5. /\ \A j \in DOMAIN names : j \in Int /\ names[j] \in Int
      /\ i \in Int /\ m \in Int
  <2> HIDE DEF m
  <2>1. \A j \in DOMAIN names : j \in Int /\ names[j] \in I
    OBVIOUS
  <2> QED
    BY <1>4, <2>1
<1>6. names[i] <= names[m]
  <2> HIDE DEF m
  <2> QED
    BY <1>3, <1>4, <1>5 DEF Ascends
<1>7. names[m] = names[i]
  <2> HIDE DEF m
  <2> QED
    BY <1>4, <1>5, <1>6
<1> HIDE DEF hits, m
<1> QED
  BY <1>1, <1>2, <1>7

\* Where no table has the key the level has no entry.
LEMMA L0FindNone ==
  ASSUME NEW names, NEW dir, NEW k,
         \A i \in DOMAIN names : ~Holds(dir[names[i]], k)
  PROVE  L0Find(names, dir, k) = None
BY DEF L0Find

\* What an ascending level 0 answers depends only on the numbers of the tables
\* that have the key, and on their entries: repeated names, and the order in
\* which two manifests came to name the tables, make no difference.
LEMMA L0FindByNumber ==
  ASSUME NEW I \in SUBSET Int, NEW s1 \in Seq(I), NEW s2 \in Seq(I),
         Ascends(s1), Ascends(s2), NEW d1, NEW d2, NEW k,
         \A i \in DOMAIN s1 : Holds(d1[s1[i]], k) =>
           \E j \in DOMAIN s2 : s2[j] = s1[i] /\ d2[s2[j]] = d1[s1[i]],
         \A j \in DOMAIN s2 : Holds(d2[s2[j]], k) =>
           \E i \in DOMAIN s1 : s1[i] = s2[j] /\ d1[s1[i]] = d2[s2[j]]
  PROVE  L0Find(s1, d1, k) = L0Find(s2, d2, k)
<1> DEFINE hits == {i \in DOMAIN s1 : Holds(d1[s1[i]], k)}
<1>1. CASE hits = {}
  <2>1. \A j \in DOMAIN s2 : ~Holds(d2[s2[j]], k)
    BY <1>1
  <2> QED
    BY <1>1, <2>1, L0FindNone
<1>2. CASE hits # {}
  <2> DEFINE m == Max(hits)
  <2>1. m \in hits /\ \A i \in hits : i <= m
    <3>1. hits \in SUBSET DOMAIN s1
      OBVIOUS
    <3> HIDE DEF hits
    <3> QED
      BY <1>2, <3>1, GreatestHit
  <2>2. m \in DOMAIN s1 /\ Holds(d1[s1[m]], k)
    BY <2>1
  <2>3. \A i \in DOMAIN s1 : Holds(d1[s1[i]], k) => s1[i] <= s1[m]
    <3> SUFFICES ASSUME NEW i \in DOMAIN s1, Holds(d1[s1[i]], k) PROVE s1[i] <= s1[m]
      OBVIOUS
    <3>1. i <= m
      BY <2>1
    <3> HIDE DEF m
    <3>0. \A j \in DOMAIN s1 : j \in Int /\ s1[j] \in I
      OBVIOUS
    <3>2. i \in Int /\ m \in Int /\ s1[i] \in Int /\ s1[m] \in Int
      BY <2>2, <3>0
    <3> QED
      BY <2>2, <3>1, <3>2 DEF Ascends
  <2> HIDE DEF m, hits
  <2>4. L0Find(s1, d1, k) = d1[s1[m]][k]
    BY <2>2, <2>3, L0FindHighest
  <2>5. PICK j \in DOMAIN s2 : s2[j] = s1[m] /\ d2[s2[j]] = d1[s1[m]]
    BY <2>2
  <2>6. \A x \in DOMAIN s2 : Holds(d2[s2[x]], k) => s2[x] <= s2[j]
    BY <2>3, <2>5
  <2>7. Holds(d2[s2[j]], k)
    BY <2>2, <2>5
  <2>8. L0Find(s2, d2, k) = d2[s2[j]][k]
    BY <2>6, <2>7, L0FindHighest
  <2> QED
    BY <2>4, <2>5, <2>8
<1> QED
  BY <1>1, <1>2

\* The tables of a level 1 carry key ranges.
RangesOfKeys(tables) ==
  \E I : tables \in Seq([idx : I, min : Key, max : Key])

\* In a run one table at most has the key, and its entry is the answer.
LEMMA L1FindInRun ==
  ASSUME NEW tables, RangesOfKeys(tables), NEW dir, SortedRun(tables, dir),
         NEW k \in Key, NEW i \in DOMAIN tables, Holds(dir[tables[i].idx], k)
  PROVE  L1Find(tables, dir, k) = dir[tables[i].idx][k]
<1> DEFINE hits == {j \in DOMAIN tables :
                      InRange(k, tables[j]) /\ Holds(dir[tables[j].idx], k)}
           m == Max(hits)
<1>0. PICK I : tables \in Seq([idx : I, min : Key, max : Key])
  BY DEF RangesOfKeys
<1> DEFINE T == [idx : I, min : Key, max : Key]
<1> HIDE DEF T
<1>00. tables \in Seq(T)
  BY <1>0 DEF T
<1>1. L1Find(tables, dir, k) = IF hits = {} THEN None ELSE dir[tables[m].idx][k]
  BY DEF L1Find
<1>2. i \in hits /\ hits \in SUBSET DOMAIN tables
  BY DEF SortedRun, Holds, KeysIn
<1>3. m \in hits /\ i <= m
  <2> HIDE DEF hits
  <2> QED
    BY <1>00, <1>2, GreatestHit
<1>4. m \in DOMAIN tables /\ InRange(k, tables[m]) /\ InRange(k, tables[i])
  BY <1>2, <1>3
<1>5. m = i
  <2> HIDE DEF m, hits
  <2>1. tables[i].max \in Int /\ tables[m].min \in Int /\ k \in Int
    <3>1. tables[i] \in T /\ tables[m] \in T
      BY <1>00, <1>4
    <3>2. tables[i].max \in Key /\ tables[m].min \in Key
      BY <3>1 DEF T
    <3> QED
      BY <3>2, KeysAreOrdered
  <2>2. k <= tables[i].max /\ k >= tables[m].min
    BY <1>4 DEF InRange
  <2>3. ~(tables[i].max < tables[m].min)
    BY <2>1, <2>2
  <2>4. i \in Int /\ m \in Int
    BY <1>00, <1>4
  <2> QED
    BY <1>3, <1>4, <2>3, <2>4 DEF SortedRun
<1> HIDE DEF m, hits
<1>6. L1Find(tables, dir, k) = dir[tables[m].idx][k]
  BY <1>1, <1>2, ZenonT(60)
<1> QED
  BY <1>5, <1>6, Zenon

LEMMA L1FindNone ==
  ASSUME NEW tables, NEW dir, NEW k,
         \A i \in DOMAIN tables : ~Holds(dir[tables[i].idx], k)
  PROVE  L1Find(tables, dir, k) = None
BY DEF L1Find

\* What a run answers depends on the table that has the key only.
LEMMA L1FindByNumber ==
  ASSUME NEW s1, NEW s2, RangesOfKeys(s1), RangesOfKeys(s2), NEW d1, NEW d2,
         SortedRun(s1, d1), SortedRun(s2, d2), NEW k \in Key,
         \A i \in DOMAIN s1 : Holds(d1[s1[i].idx], k) =>
           \E j \in DOMAIN s2 : d2[s2[j].idx] = d1[s1[i].idx],
         \A j \in DOMAIN s2 : Holds(d2[s2[j].idx], k) =>
           \E i \in DOMAIN s1 : d1[s1[i].idx] = d2[s2[j].idx]
  PROVE  L1Find(s1, d1, k) = L1Find(s2, d2, k)
<1>1. CASE \A i \in DOMAIN s1 : ~Holds(d1[s1[i].idx], k)
  <2>1. \A j \in DOMAIN s2 : ~Holds(d2[s2[j].idx], k)
    BY <1>1
  <2> QED
    BY <1>1, <2>1, L1FindNone
<1>2. CASE \E i \in DOMAIN s1 : Holds(d1[s1[i].idx], k)
  <2>1. PICK i \in DOMAIN s1 : Holds(d1[s1[i].idx], k)
    BY <1>2
  <2>2. PICK j \in DOMAIN s2 : d2[s2[j].idx] = d1[s1[i].idx]
    BY <2>1
  <2>3. L1Find(s1, d1, k) = d1[s1[i].idx][k]
    BY <2>1, L1FindInRun
  <2>4. Holds(d2[s2[j].idx], k)
    BY <2>1, <2>2
  <2>5. L1Find(s2, d2, k) = d2[s2[j].idx][k]
    BY <2>4, L1FindInRun
  <2> QED
    BY <2>2, <2>3, <2>5
<1> QED
  BY <1>1, <1>2

-----------------------------------------------------------------------------
(***************************************************************************)
(* What is kept of a level when some of its tables are dropped.            *)
(***************************************************************************)
\* h lists the numbers of I in ascending order.
Lists(h, I) ==
  /\ h \in [1..Cardinality(I) -> I]
  /\ \A i, j \in 1..Cardinality(I) : i < j => h[i] < h[j]
  /\ \A i \in I : \E j \in 1..Cardinality(I) : h[j] = i

\* A finite set of natural numbers can be listed in ascending order.
LEMMA ListExists ==
  ASSUME NEW I \in SUBSET Nat, IsFiniteSet(I)
  PROVE  \E h : Lists(h, I)
<1> DEFINE Bad == {J \in SUBSET Nat : IsFiniteSet(J) /\ ~\E h : Lists(h, J)}
           N == {Cardinality(J) : J \in Bad}
<1> SUFFICES ASSUME Bad # {} PROVE FALSE
  OBVIOUS
<1>1. PICK J \in Bad : \A K \in Bad : Cardinality(J) <= Cardinality(K)
  <2>1. N \in SUBSET Nat /\ N # {}
    BY FS_CardinalityType
  <2>2. \E n \in N : \A m \in N : n <= m
    <3> HIDE DEF N
    <3> QED
      BY <2>1, LeastNatural
  <2> QED
    BY <2>2
<1>2. J \in SUBSET Nat /\ IsFiniteSet(J) /\ ~\E h : Lists(h, J)
  OBVIOUS
<1>3. J # {}
  <2> SUFFICES ASSUME J = {} PROVE FALSE
    OBVIOUS
  <2>1. Cardinality(J) = 0
    BY FS_EmptySet
  <2>2. Lists([i \in 1..0 |-> i], J)
    BY <2>1 DEF Lists
  <2> QED
    BY <1>2, <2>2
<1> DEFINE x == Max(J)
           K == J \ {x}
           n == Cardinality(J)
<1>4. x \in J /\ \A y \in J : y <= x
  <2>1. J \in SUBSET Int
    BY <1>2
  <2> QED
    BY <1>2, <1>3, <2>1, MaxIsGreatest
<1>5. IsFiniteSet(K) /\ Cardinality(K) = n - 1 /\ n \in Nat /\ Cardinality(K) \in Nat
  <2> HIDE DEF x
  <2> QED
    BY <1>2, <1>4, FS_RemoveElement, FS_CardinalityType
<1>6. K \notin Bad
  <2> HIDE DEF K, n, Bad
  <2>1. \A L \in Bad : n <= Cardinality(L)
    BY <1>1 DEF n
  <2> QED
    BY <1>5, <2>1
<1>7. PICK g : Lists(g, K)
  <2>1. K \in SUBSET Nat
    BY <1>2
  <2> QED
    BY <1>5, <1>6, <2>1
<1> DEFINE h == [i \in 1..n |-> IF i = n THEN x ELSE g[i]]
<1> HIDE DEF Bad
<1>8. Lists(h, J)
  <2> HIDE DEF x
  <2>1. \A y \in K : y \in J /\ y \in Int /\ y < x /\ x \in Int
    BY <1>2, <1>4
  <2>2. /\ g \in [1..(n-1) -> K]
        /\ \A i, j \in 1..(n-1) : i < j => g[i] < g[j]
        /\ \A i \in K : \E j \in 1..(n-1) : g[j] = i
    BY <1>5, <1>7 DEF Lists
  <2> HIDE DEF K, n
  <2>3. h \in [1..n -> J]
    <3> SUFFICES ASSUME NEW i \in 1..n PROVE (IF i = n THEN x ELSE g[i]) \in J
      OBVIOUS
    <3>1. i # n => i \in 1..(n-1)
      BY <1>5
    <3> QED
      BY <1>4, <2>1, <2>2, <3>1
  <2>4. \A i, j \in 1..n : i < j => h[i] < h[j]
    <3> SUFFICES ASSUME NEW i \in 1..n, NEW j \in 1..n, i < j PROVE h[i] < h[j]
      OBVIOUS
    <3>1. i \in 1..(n-1) /\ h[i] = g[i] /\ g[i] \in K
      BY <1>5, <2>2
    <3>2. CASE j = n
      BY <2>1, <3>1, <3>2
    <3>3. CASE j # n
      <4>1. j \in 1..(n-1) /\ h[j] = g[j]
        BY <1>5, <3>3
      <4> QED
        BY <2>2, <3>1, <4>1
    <3> QED
      BY <3>2, <3>3
  <2>5. \A y \in J : \E j \in 1..n : h[j] = y
    <3> TAKE y \in J
    <3>1. CASE y = x
      <4>1. n \in 1..n
        BY <1>2, <1>3, <1>5, FS_EmptySet DEF n
      <4> QED
        BY <3>1, <4>1
    <3>2. CASE y # x
      <4>1. y \in K
        BY <3>2 DEF K
      <4>2. PICK j \in 1..(n-1) : g[j] = y
        BY <2>2, <4>1
      <4>3. j \in 1..n /\ j # n
        BY <1>5
      <4> QED
        BY <4>2, <4>3
    <3> QED
      BY <3>1, <3>2
  <2> HIDE DEF h
  <2> QED
    BY <2>3, <2>4, <2>5 DEF Lists, n
<1> QED
  BY <1>2, <1>8

\* Kept lists the members of the sequence at the chosen positions, in order.
LEMMA KeptLists ==
  ASSUME NEW s, NEW I \in SUBSET Nat, IsFiniteSet(I)
  PROVE  \E h : Lists(h, I) /\ Kept(s, I) = [j \in 1..Cardinality(I) |-> s[h[j]]]
<1> DEFINE h == CHOOSE f \in [1..Cardinality(I) -> I] :
                  /\ \A i, j \in 1..Cardinality(I) : i < j => f[i] < f[j]
                  /\ \A i \in I : \E j \in 1..Cardinality(I) : f[j] = i
<1>1. \E f \in [1..Cardinality(I) -> I] :
        /\ \A i, j \in 1..Cardinality(I) : i < j => f[i] < f[j]
        /\ \A i \in I : \E j \in 1..Cardinality(I) : f[j] = i
  BY ListExists DEF Lists
<1>2. Lists(h, I)
  BY <1>1 DEF Lists
<1>3. Kept(s, I) = [j \in 1..Cardinality(I) |-> s[h[j]]]
  BY DEF Kept
<1> HIDE DEF h
<1> QED
  BY <1>2, <1>3

\* What is kept are members of the sequence, all that were chosen, in order.
LEMMA KeptMembers ==
  ASSUME NEW T, NEW s \in Seq(T), NEW I \in SUBSET DOMAIN s
  PROVE  /\ Kept(s, I) \in Seq(T)
         /\ \A j \in DOMAIN Kept(s, I) : \E i \in I : Kept(s, I)[j] = s[i]
         /\ \A i \in I : \E j \in DOMAIN Kept(s, I) : Kept(s, I)[j] = s[i]
         /\ \A i, j \in DOMAIN Kept(s, I) : i < j =>
              \E x, y \in I : x < y /\ Kept(s, I)[i] = s[x] /\ Kept(s, I)[j] = s[y]
<1> DEFINE n == Cardinality(I)
<1>1. IsFiniteSet(I) /\ I \in SUBSET Nat
  BY FS_Interval, FS_Subset
<1>2. PICK h : Lists(h, I) /\ Kept(s, I) = [j \in 1..n |-> s[h[j]]]
  BY <1>1, KeptLists
<1>3. n \in Nat
  BY <1>1, FS_CardinalityType
<1>4. /\ h \in [1..n -> I]
      /\ \A i, j \in 1..n : i < j => h[i] < h[j]
      /\ \A i \in I : \E j \in 1..n : h[j] = i
  BY <1>2 DEF Lists
<1> DEFINE r == Kept(s, I)
<1>5. DOMAIN r = 1..n /\ \A j \in 1..n : h[j] \in I /\ r[j] = s[h[j]] /\ r[j] \in T
  <2>1. \A i \in I : s[i] \in T
    OBVIOUS
  <2> HIDE DEF n
  <2> QED
    BY <1>2, <1>4, <2>1
<1>6. r \in Seq(T)
  <2>1. r = [j \in 1..n |-> s[h[j]]]
    BY <1>2
  <2> HIDE DEF r, n
  <2> QED
    BY <1>3, <1>5, <2>1
<1> HIDE DEF r, n
<1>7. \A j \in DOMAIN r : \E i \in I : r[j] = s[i]
  BY <1>5, Zenon
<1>8. \A i \in I : \E j \in DOMAIN r : r[j] = s[i]
  <2> TAKE i \in I
  <2>1. PICK j \in 1..n : h[j] = i
    BY <1>4, Zenon
  <2>2. j \in DOMAIN r /\ r[j] = s[i]
    BY <1>5, <2>1, Zenon
  <2> QED
    BY <2>2, Zenon
<1>9. \A i, j \in DOMAIN r : i < j =>
        \E x, y \in I : x < y /\ r[i] = s[x] /\ r[j] = s[y]
  <2> SUFFICES ASSUME NEW i \in DOMAIN r, NEW j \in DOMAIN r, i < j
               PROVE  \E x, y \in I : x < y /\ r[i] = s[x] /\ r[j] = s[y]
    BY Zenon
  <2>1. h[i] \in I /\ h[j] \in I /\ h[i] < h[j] /\ r[i] = s[h[i]] /\ r[j] = s[h[j]]
    BY <1>4, <1>5, Zenon
  <2> QED
    BY <2>1, Zenon
<1> QED
  BY <1>6, <1>7, <1>8, <1>9, Zenon DEF r

\* Keeping every position changes nothing.
LEMMA KeptAll ==
  ASSUME NEW T, NEW s \in Seq(T)
  PROVE  Kept(s, DOMAIN s) = s
<1> DEFINE n == Len(s)
           Off(h) == {j \in 1..n : h[j] # j}
<1>1. DOMAIN s = 1..n /\ n \in Nat /\ IsFiniteSet(DOMAIN s) /\ Cardinality(DOMAIN s) = n
  <2>1. DOMAIN s = 1..n /\ n \in Nat
    OBVIOUS
  <2> HIDE DEF n
  <2>2. IsFiniteSet(1..n) /\ Cardinality(1..n) = n
    BY <2>1, FS_Interval
  <2> QED
    BY <2>1, <2>2
<1>2. PICK h : /\ Lists(h, DOMAIN s)
               /\ Kept(s, DOMAIN s) = [j \in 1..Cardinality(DOMAIN s) |-> s[h[j]]]
  <2>1. DOMAIN s \in SUBSET Nat
    BY <1>1
  <2> QED
    BY <1>1, <2>1, KeptLists, ZenonT(60)
<1>3. /\ h \in [1..n -> 1..n]
      /\ \A i, j \in 1..n : i < j => h[i] < h[j]
      /\ \A i \in 1..n : \E j \in 1..n : h[j] = i
  BY <1>1, <1>2 DEF Lists
<1> HIDE DEF n
<1>4. Off(h) = {}
  <2> SUFFICES ASSUME Off(h) # {} PROVE FALSE
    OBVIOUS
  <2>1. Off(h) \in SUBSET Nat
    BY <1>1
  <2>2. PICK j \in Off(h) : \A i \in Off(h) : j <= i
    <3> HIDE DEF Off
    <3> QED
      BY <2>1, LeastNatural
  <2>3. j \in 1..n /\ h[j] \in 1..n /\ h[j] # j /\ \A i \in 1..n : i < j => h[i] = i
    BY <1>1, <1>3, <2>2
  <2> HIDE DEF Off
  <2>4. CASE h[j] < j
    BY <1>1, <1>3, <2>3, <2>4
  <2>5. CASE h[j] > j
    <3>1. PICK i \in 1..n : h[i] = j
      BY <1>3, <2>3
    <3>2. i > j
      BY <1>1, <2>3, <3>1
    <3> QED
      BY <1>1, <1>3, <2>3, <2>5, <3>1, <3>2
  <2> QED
    BY <1>1, <2>3, <2>4, <2>5
<1>5. Kept(s, DOMAIN s) = [j \in 1..n |-> s[j]]
  BY <1>1, <1>2, <1>4
<1> QED
  BY <1>1, <1>5

\* What is kept of an ascending sequence ascends.
LEMMA KeptAscends ==
  ASSUME NEW T, NEW s \in Seq(T), NEW I \in SUBSET DOMAIN s, Ascends(s)
  PROVE  Ascends(Kept(s, I))
<1> DEFINE r == Kept(s, I)
<1>1. \A i, j \in DOMAIN r : i < j => \E x, y \in I : x < y /\ r[i] = s[x] /\ r[j] = s[y]
  BY KeptMembers
<1> HIDE DEF r
<1>2. Ascends(r)
  BY <1>1 DEF Ascends
<1> QED
  BY <1>2 DEF r

\* What is kept of a run is a run.
LEMMA KeptRun ==
  ASSUME NEW T, NEW s \in Seq(T), NEW I \in SUBSET DOMAIN s, NEW dir,
         SortedRun(s, dir)
  PROVE  SortedRun(Kept(s, I), dir)
<1> DEFINE r == Kept(s, I)
<1>1. /\ \A i, j \in DOMAIN r : i < j => \E x, y \in I : x < y /\ r[i] = s[x] /\ r[j] = s[y]
      /\ \A j \in DOMAIN r : \E i \in I : r[j] = s[i]
  BY KeptMembers
<1> HIDE DEF r
<1>2. \A i, j \in DOMAIN r : i < j => r[i].max < r[j].min
  BY <1>1 DEF SortedRun
<1>3. \A j \in DOMAIN r : /\ {r[j].min, r[j].max} \subseteq KeysIn(dir[r[j].idx])
                          /\ \A k \in KeysIn(dir[r[j].idx]) : InRange(k, r[j])
  BY <1>1 DEF SortedRun
<1>4. SortedRun(r, dir)
  BY <1>2, <1>3 DEF SortedRun
<1> QED
  BY <1>4 DEF r
=============================================================================
