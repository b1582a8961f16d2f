--------------------------- MODULE DataPathProofs ---------------------------
(***************************************************************************)
(* Theorems about the data structures, for every set of keys and values    *)
(* and all their sizes: the skip list, the files of the tables, and the    *)
(* text of the manifest.                                                   *)
(*                                                                         *)
(* Recursive functions are handled by their equation: a closed form solves *)
(* it, and no other function does, as the greatest argument at which the   *)
(* two differ would show.                                                  *)
(***************************************************************************)
EXTENDS DataPath, LSMTablesProofs

(***************************************************************************)
(* The lists of a skip list.                                               *)
(***************************************************************************)
SkipLists ==
  [next : [1..MaxLevels -> [Node -> Key \cup {Nil}]], value : Table,
   levels : 1..MaxLevels, size : Nat]

\* The node at level i that k comes after.
Pred(s, i, k) ==
  LET below == {j \in Linked(s, i) : j < k}
  IN  IF below = {} THEN HeadNode ELSE Max(below)

\* A pointer leads to the next linked key.
LEMMA NextIsLeastAfter ==
  ASSUME NEW s \in SkipLists, TowersSound(s), NEW i \in 1..MaxLevels,
         NEW n \in Linked(s, i) \cup {HeadNode}
  PROVE  /\ s.next[i][n] = Nil => n # HeadNode \/ Linked(s, i) = {}
         /\ s.next[i][n] = Nil => \A j \in Linked(s, i) : n # HeadNode => j <= n
         /\ s.next[i][n] # Nil =>
              /\ s.next[i][n] \in Linked(s, i)
              /\ n = HeadNode \/ n < s.next[i][n]
              /\ \A j \in Linked(s, i) : n = HeadNode \/ n < j => s.next[i][n] <= j
<1> DEFINE after == {k \in Linked(s, i) : n = HeadNode \/ k > n}
<1>1. s.next[i][n] = IF after = {} THEN Nil ELSE Min(after)
  <2>1. \A l \in 1..MaxLevels : \A x \in Linked(s, l) \cup {HeadNode} :
          s.next[l][x] = IF {j \in Linked(s, l) : x = HeadNode \/ j > x} = {} THEN Nil
                         ELSE Min({j \in Linked(s, l) : x = HeadNode \/ j > x})
    BY DEF TowersSound
  <2> QED
    BY <2>1
<1>2. Linked(s, i) \subseteq Key /\ after \subseteq Key
  BY DEF Linked
<1>3. Key \subseteq Int /\ IsFiniteSet(Key) /\ Nil \notin Key /\ HeadNode \notin Key
  BY KeysAreOrdered, HeadAndNilAreNoKeys
<1>4. after \subseteq Int /\ IsFiniteSet(after)
  BY <1>2, <1>3, FS_Subset
<1>5. after # {} => Min(after) \in after /\ \A x \in after : Min(after) <= x
  BY <1>4, MinIsLeast
<1>6. \A x : x \in after <=> x \in Linked(s, i) /\ (n = HeadNode \/ x > n)
  OBVIOUS
<1>7. n # HeadNode => n \in Int
  BY <1>2, <1>3
<1>8. CASE after = {}
  <2>1. s.next[i][n] = Nil
    BY <1>1, <1>8
  <2>2. \A x \in Linked(s, i) : x \in Int /\ n # HeadNode /\ ~(x > n)
    BY <1>2, <1>3, <1>6, <1>8
  <2> QED
    BY <1>7, <2>1, <2>2
<1>9. CASE after # {}
  <2>1. s.next[i][n] \in after /\ \A x \in after : s.next[i][n] <= x
    BY <1>1, <1>5, <1>9
  <2> HIDE DEF after
  <2>2. s.next[i][n] # Nil
    BY <1>2, <1>3, <2>1
  <2> QED
    BY <1>2, <1>3, <1>6, <1>7, <2>1, <2>2
<1> QED
  BY <1>8, <1>9

\* Pred is the last node before k.
LEMMA PredIsLastBefore ==
  ASSUME NEW s \in SkipLists, NEW i \in 1..MaxLevels, NEW k \in Key
  PROVE  /\ Pred(s, i, k) \in Linked(s, i) \cup {HeadNode}
         /\ Pred(s, i, k) = HeadNode => \A j \in Linked(s, i) : ~(j < k)
         /\ Pred(s, i, k) # HeadNode =>
              Pred(s, i, k) < k /\ \A j \in Linked(s, i) : j < k => j <= Pred(s, i, k)
<1> DEFINE below == {j \in Linked(s, i) : j < k}
<1>1. Linked(s, i) \subseteq Key /\ below \subseteq Key
  BY DEF Linked
<1>2. Key \subseteq Int /\ IsFiniteSet(Key) /\ HeadNode \notin Key
  BY KeysAreOrdered, HeadAndNilAreNoKeys
<1>3. below \subseteq Int /\ IsFiniteSet(below)
  BY <1>1, <1>2, FS_Subset
<1>4. below # {} => Max(below) \in below /\ \A x \in below : x <= Max(below)
  BY <1>3, MaxIsGreatest
<1>5. Pred(s, i, k) = IF below = {} THEN HeadNode ELSE Max(below)
  BY DEF Pred
<1> QED
  BY <1>1, <1>2, <1>4, <1>5

\* It is the only one.
LEMMA LastBeforeIsPred ==
  ASSUME NEW s \in SkipLists, NEW i \in 1..MaxLevels, NEW k \in Key,
         NEW c \in Linked(s, i), c < k, \A j \in Linked(s, i) : j < k => j <= c
  PROVE  Pred(s, i, k) = c
<1>1. Linked(s, i) \subseteq Key /\ Key \subseteq Int /\ HeadNode \notin Key
  BY KeysAreOrdered, HeadAndNilAreNoKeys DEF Linked
<1>2. Pred(s, i, k) # HeadNode
  BY PredIsLastBefore
<1>3. Pred(s, i, k) \in Linked(s, i) /\ Pred(s, i, k) < k /\ c <= Pred(s, i, k)
  BY <1>2, PredIsLastBefore
<1>4. c \in Int /\ Pred(s, i, k) \in Int /\ Pred(s, i, k) <= c
  BY <1>1, <1>3
<1> QED
  BY <1>3, <1>4

\* A search at one level, from any node before k, ends at Pred.
LEMMA WalkEndsAtPred ==
  ASSUME NEW s \in SkipLists, TowersSound(s), NEW i \in 1..MaxLevels, NEW k \in Key,
         NEW n \in Linked(s, i) \cup {HeadNode}, n # HeadNode => n < k
  PROVE  Walk(s, i, k, n) = Pred(s, i, k)
<1> DEFINE m == s.next[i]
           P == Pred(s, i, k)
           on == Linked(s, i)
           Goes(c) == m[c] # Nil /\ m[c] < k
           F(f) == [c \in Node |-> IF m[c] # Nil /\ m[c] < k THEN f[m[c]] ELSE c]
           walk == CHOOSE f : f = F(f)
           g == [c \in Node |-> IF Goes(c) THEN P ELSE c]
<1>1. Walk(s, i, k, n) = walk[n]
  BY DEF Walk
<1>2. on \subseteq Key /\ Key \subseteq Int /\ IsFiniteSet(Key) /\ Key \subseteq Node
      /\ HeadNode \in Node /\ HeadNode \notin Key /\ m \in [Node -> Key \cup {Nil}]
      /\ n \in Node
  BY KeysAreOrdered, HeadAndNilAreNoKeys DEF Linked, Node, SkipLists
<1>3. \A c \in Node : Goes(c) => m[c] \in on
  BY <1>2 DEF Linked
<1>4. \A c \in on : c < k /\ ~Goes(c) => c = P
  <2> SUFFICES ASSUME NEW c \in on, c < k, ~Goes(c)
               PROVE  c = P
    OBVIOUS
  <2>1. m[c] = Nil => \A j \in on : j <= c
    BY <1>2, NextIsLeastAfter
  <2>2. m[c] # Nil => ~(m[c] < k) /\ m[c] \in on /\ \A j \in on : c < j => m[c] <= j
    BY <1>2, NextIsLeastAfter
  <2>3. c \in Int /\ k \in Int /\ \A j \in on : j \in Int
    BY <1>2
  <2> HIDE DEF m, on
  <2>4. \A j \in on : j < k => j <= c
    <3>1. CASE m[c] = Nil
      BY <2>1, <3>1
    <3>2. CASE m[c] # Nil
      <4>1. m[c] \in Int /\ ~(m[c] < k)
        BY <2>2, <2>3, <3>2
      <4> QED
        BY <2>2, <2>3, <3>2, <4>1
    <3> QED
      BY <3>1, <3>2
  <2> QED
    BY <2>4, LastBeforeIsPred DEF on
<1>5. ~Goes(HeadNode) => P = HeadNode
  <2> SUFFICES ASSUME ~Goes(HeadNode)
               PROVE  P = HeadNode
    OBVIOUS
  <2>1. m[HeadNode] = Nil => on = {}
    BY <1>2, NextIsLeastAfter
  <2>2. m[HeadNode] # Nil =>
          ~(m[HeadNode] < k) /\ m[HeadNode] \in on /\ \A j \in on : m[HeadNode] <= j
    BY <1>2, NextIsLeastAfter
  <2>3. k \in Int /\ \A j \in on : j \in Int
    BY <1>2
  <2> HIDE DEF m, on
  <2>4. \A j \in on : ~(j < k)
    BY <2>1, <2>2, <2>3
  <2> QED
    BY <2>4, PredIsLastBefore DEF on
<1>6. g = F(g)
  <2>1. \A c \in Node : Goes(c) => g[m[c]] = P
    BY <1>2, <1>3, <1>4
  <2> QED
    BY <2>1
<1>7. walk = F(walk)
  <2> HIDE DEF F, g
  <2> QED
    BY <1>6
<1>8. \A c \in on : c < k => walk[c] = P
  <2> DEFINE bad == {c \in on : c < k /\ walk[c] # P}
  <2> SUFFICES bad = {}
    OBVIOUS
  <2> SUFFICES ASSUME bad # {}
               PROVE  FALSE
    OBVIOUS
  <2> HIDE DEF walk
  <2>1. bad \subseteq Int /\ IsFiniteSet(bad)
    BY <1>2, FS_Subset
  <2>2. Max(bad) \in bad /\ \A x \in bad : x <= Max(bad)
    BY <2>1, MaxIsGreatest
  <2> DEFINE b == Max(bad)
  <2>3. b \in on /\ b \in Node /\ b < k /\ walk[b] # P
    BY <1>2, <2>2
  <2>4. Goes(b)
    <3> SUFFICES ASSUME ~Goes(b)
                 PROVE  FALSE
      OBVIOUS
    <3>1. b = P
      <4> HIDE DEF b, P, on, Goes
      <4> QED
        BY <1>4, <2>3, Zenon
    <3>2. walk[b] = b
      <4> HIDE DEF b, bad, P, on
      <4> QED
        BY <1>7, <2>3
    <3> HIDE DEF b, P, on, bad
    <3> QED
      BY <2>3, <3>1, <3>2, Zenon
  <2>5. m[b] \in on /\ b < m[b] /\ m[b] < k
    BY <1>2, <2>3, <2>4, NextIsLeastAfter
  <2>6. m[b] \notin bad
    <3>1. b \in Int /\ m[b] \in Int /\ \A x \in bad : x <= b
      BY <1>2, <2>2, <2>3, <2>5
    <3> HIDE DEF b, bad, m
    <3> QED
      BY <2>5, <3>1
  <2>7. walk[b] = walk[m[b]]
    <3> HIDE DEF b, bad, P
    <3> QED
      BY <1>7, <2>3, <2>4
  <2>8. m[b] \in bad
    <3> HIDE DEF b, m, P
    <3> QED
      BY <2>3, <2>5, <2>7
  <2> QED
    BY <2>6, <2>8, Zenon
<1>9. walk[HeadNode] = P
  <2> HIDE DEF walk
  <2>1. CASE Goes(HeadNode)
    <3>1. walk[HeadNode] = walk[m[HeadNode]]
      BY <1>2, <1>7, <2>1
    <3> QED
      BY <1>2, <1>3, <1>8, <2>1, <3>1
  <2>2. CASE ~Goes(HeadNode)
    BY <1>2, <1>5, <1>7, <2>2
  <2> QED
    BY <2>1, <2>2
<1> QED
  BY <1>1, <1>8, <1>9

\* The search leaves every level at Pred.
LEMMA UpdateIsPred ==
  ASSUME NEW s \in SkipLists, TowersSound(s), NEW k \in Key, NEW i \in 1..s.levels
  PROVE  Update(s, k)[i] = Pred(s, i, k)
<1> DEFINE L == s.levels
           F(f) == [j \in 1..L |-> Walk(s, j, k, IF j = L THEN HeadNode ELSE f[j + 1])]
           update == CHOOSE f : f = F(f)
           g == [j \in 1..L |-> Pred(s, j, k)]
<1>1. Update(s, k) = update
  BY DEF Update
<1>2. L \in 1..MaxLevels /\ MaxLevels \in Nat /\ 1..L \subseteq 1..MaxLevels
  BY SomeLevel DEF SkipLists
<1>3. \A j \in 1..L : j # L =>
        /\ j + 1 \in 1..L
        /\ Pred(s, j + 1, k) \in Linked(s, j) \cup {HeadNode}
        /\ Pred(s, j + 1, k) # HeadNode => Pred(s, j + 1, k) < k
  <2> SUFFICES ASSUME NEW j \in 1..L, j # L
               PROVE  /\ j + 1 \in 1..L
                      /\ Pred(s, j + 1, k) \in Linked(s, j) \cup {HeadNode}
                      /\ Pred(s, j + 1, k) # HeadNode => Pred(s, j + 1, k) < k
    OBVIOUS
  <2>1. j + 1 \in 1..L /\ j + 1 \in 1..MaxLevels /\ j + 1 > 1 /\ (j + 1) - 1 = j
    BY <1>2
  <2>2. Linked(s, j + 1) \subseteq Linked(s, (j + 1) - 1)
    BY <2>1 DEF TowersSound
  <2> QED
    BY <2>1, <2>2, PredIsLastBefore
<1>4. \A j \in 1..L : Walk(s, j, k, HeadNode) = Pred(s, j, k)
  BY <1>2, WalkEndsAtPred
<1>5. \A j \in 1..L : j # L => Walk(s, j, k, Pred(s, j + 1, k)) = Pred(s, j, k)
  BY <1>2, <1>3, WalkEndsAtPred
<1>6. g = F(g)
  <2>1. \A j \in 1..L :
          Pred(s, j, k) = Walk(s, j, k, IF j = L THEN HeadNode ELSE g[j + 1])
    <3> SUFFICES ASSUME NEW j \in 1..L
                 PROVE Pred(s, j, k) = Walk(s, j, k, IF j = L THEN HeadNode ELSE g[j + 1])
      OBVIOUS
    <3>1. j # L => g[j + 1] = Pred(s, j + 1, k)
      BY <1>3
    <3> QED
      BY <1>4, <1>5, <3>1
  <2> QED
    BY <2>1
<1>7. update = F(update)
  <2> HIDE DEF F, g
  <2> QED
    BY <1>6
<1>8. \A j \in 1..L : update[j] = Pred(s, j, k)
  <2> DEFINE bad == {j \in 1..L : update[j] # Pred(s, j, k)}
  <2> SUFFICES ASSUME bad # {}
               PROVE  FALSE
    OBVIOUS
  <2> HIDE DEF update
  <2>1. bad \subseteq Int /\ IsFiniteSet(bad)
    <3>1. IsFiniteSet(1..L) /\ bad \subseteq 1..L /\ 1..L \subseteq Int
      BY <1>2, FS_Interval
    <3> QED
      BY <3>1, FS_Subset
  <2> DEFINE b == Max(bad)
  <2>2. b \in bad /\ \A x \in bad : x <= b
    BY <2>1, MaxIsGreatest
  <2> HIDE DEF b
  <2>3. b \in 1..L /\ update[b] # Pred(s, b, k)
    BY <2>2
  <2>4. update[b] = Walk(s, b, k, IF b = L THEN HeadNode ELSE update[b + 1])
    BY <1>7, <2>3
  <2>5. b # L => update[b + 1] = Pred(s, b + 1, k)
    <3> SUFFICES ASSUME b # L
                 PROVE  update[b + 1] = Pred(s, b + 1, k)
      OBVIOUS
    <3>1. b + 1 \in 1..L /\ ~(b + 1 <= b)
      BY <1>3, <2>3
    <3>2. b + 1 \notin bad
      BY <2>2, <3>1
    <3> QED
      BY <3>1, <3>2
  <2> QED
    BY <1>4, <1>5, <2>3, <2>4, <2>5
<1> QED
  BY <1>1, <1>8

\* The search at the bottom finds k if it is there.
LEMMA FoundIfLinked ==
  ASSUME NEW s \in SkipLists, TowersSound(s), NEW k \in Key, NEW i \in 1..MaxLevels
  PROVE  s.next[i][Pred(s, i, k)] = k <=> k \in Linked(s, i)
<1> DEFINE P == Pred(s, i, k)
           d == s.next[i][P]
<1>1. P \in Linked(s, i) \cup {HeadNode}
  BY PredIsLastBefore
<1>2. Linked(s, i) \subseteq Key /\ Key \subseteq Int /\ Nil \notin Key /\ HeadNode \notin Key
  BY KeysAreOrdered, HeadAndNilAreNoKeys DEF Linked
<1>3. d = k => k \in Linked(s, i)
  BY <1>1, <1>2, NextIsLeastAfter
<1>4. ASSUME k \in Linked(s, i)
      PROVE  d = k
  <2>1. P = HeadNode \/ (P \in Int /\ P < k)
    BY <1>1, <1>2, PredIsLastBefore
  <2>2. d # Nil
    <3>1. d = Nil => P # HeadNode /\ k <= P
      BY <1>1, <1>4, NextIsLeastAfter
    <3> QED
      BY <1>2, <2>1, <3>1
  <2>3. d \in Linked(s, i) /\ d <= k /\ (P = HeadNode \/ P < d)
    BY <1>1, <1>4, <2>1, <2>2, NextIsLeastAfter
  <2>4. P = HeadNode => ~(d < k)
    BY <2>3, PredIsLastBefore
  <2>5. P # HeadNode /\ d < k => d <= P
    BY <2>3, PredIsLastBefore
  <2>6. d \in Int /\ k \in Int
    BY <1>2, <2>3
  <2> HIDE DEF d, P
  <2> QED
    BY <2>1, <2>3, <2>4, <2>5, <2>6
<1> QED
  BY <1>3, <1>4

-----------------------------------------------------------------------------
(***************************************************************************)
(* Adding a key.                                                           *)
(***************************************************************************)
\* Pointers m chain the keys of a set in their order.
Chains(m, on) ==
  \A n \in on \cup {HeadNode} :
    LET after == {j \in on : n = HeadNode \/ j > n}
    IN  m[n] = IF after = {} THEN Nil ELSE Min(after)

\* The keys that pointers m lead to.
Targets(m) == {j \in Key : \E n \in Node : m[n] = j}

LEMMA LeastIsMin ==
  ASSUME NEW S \in SUBSET Key, NEW x \in S, \A y \in S : x <= y
  PROVE  Min(S) = x
<1>1. S \subseteq Int /\ IsFiniteSet(S)
  BY KeysAreOrdered, FS_Subset
<1>2. Min(S) \in S /\ Min(S) <= x
  BY <1>1, MinIsLeast
<1>3. Min(S) \in Int /\ x \in Int /\ x <= Min(S)
  BY <1>1, <1>2
<1> QED
  BY <1>2, <1>3

\* A new key between its predecessor and what came after that.
Tower(s, k, i) ==
  [s.next[i] EXCEPT ![k] = s.next[i][Pred(s, i, k)], ![Pred(s, i, k)] = k]

LEMMA InsertChains ==
  ASSUME NEW s \in SkipLists, TowersSound(s), NEW i \in 1..MaxLevels, NEW k \in Key,
         k \notin Linked(s, i)
  PROVE  /\ Tower(s, k, i) \in [Node -> Key \cup {Nil}]
         /\ Chains(Tower(s, k, i), Linked(s, i) \cup {k})
         /\ Targets(Tower(s, k, i)) = Linked(s, i) \cup {k}
<1> SUFFICES ASSUME NEW P, P = Pred(s, i, k),
                    NEW m, m = [s.next[i] EXCEPT ![k] = s.next[i][P], ![P] = k]
             PROVE  /\ m \in [Node -> Key \cup {Nil}]
                    /\ Chains(m, Linked(s, i) \cup {k})
                    /\ Targets(m) = Linked(s, i) \cup {k}
  BY DEF Tower
<1> DEFINE on == Linked(s, i)
           d(n) == s.next[i][n]
<1>1. /\ on \subseteq Key /\ Key \subseteq Int /\ Nil \notin Key /\ HeadNode \notin Key
      /\ Node = Key \cup {HeadNode} /\ s.next[i] \in [Node -> Key \cup {Nil}]
  BY KeysAreOrdered, HeadAndNilAreNoKeys DEF Linked, Node, SkipLists
<1>2. /\ P \in on \cup {HeadNode}
      /\ P = HeadNode => \A j \in on : ~(j < k)
      /\ P # HeadNode => P < k /\ \A j \in on : j < k => j <= P
  BY PredIsLastBefore
<1>3. P # k /\ k \in Node /\ P \in Node
  BY <1>1, <1>2
<1>4. m[k] = d(P) /\ m[P] = k /\ \A n \in Node \ {k, P} : m[n] = d(n)
  BY <1>1, <1>3
<1>5. \A n \in on \cup {HeadNode} :
        /\ d(n) = Nil => n # HeadNode \/ on = {}
        /\ d(n) = Nil => \A j \in on : n # HeadNode => j <= n
        /\ d(n) # Nil =>
             /\ d(n) \in on
             /\ n = HeadNode \/ n < d(n)
             /\ \A j \in on : n = HeadNode \/ n < j => d(n) <= j
  BY NextIsLeastAfter
<1>6. m \in [Node -> Key \cup {Nil}]
  BY <1>1, <1>3
<1>7. \A j \in on : j \in Int /\ j # k
  BY <1>1
<1>8. k \in Int
  BY <1>1
<1> HIDE DEF on, d
<1>9. Chains(m, on \cup {k})
  <2> SUFFICES ASSUME NEW n \in (on \cup {k}) \cup {HeadNode}
               PROVE  LET after == {j \in on \cup {k} : n = HeadNode \/ j > n}
                      IN  m[n] = IF after = {} THEN Nil ELSE Min(after)
    BY DEF Chains
  <2> DEFINE after == {j \in on \cup {k} : n = HeadNode \/ j > n}
  <2>0. after \subseteq Key /\ \A j : j \in after <=> j \in on \cup {k} /\ (n = HeadNode \/ j > n)
    BY <1>1
  <2> HIDE DEF after
  <2>a. (m[n] = Nil /\ after = {}) \/ (m[n] \in after /\ \A x \in after : m[n] <= x)
    <3>1. CASE n = P
      <4>1. m[n] \in after
        BY <1>2, <1>4, <1>7, <1>8, <2>0, <3>1
      <4>2. \A x \in on : P = HeadNode \/ x > P => k <= x
        BY <1>2, <1>7, <1>8
      <4> QED
        BY <1>4, <1>7, <1>8, <2>0, <3>1, <4>1, <4>2
    <3>2. CASE n = k
      <4>1. \A j : j \in after <=> j \in on /\ j > k
        BY <1>1, <1>8, <2>0, <3>2
      <4>2. \A j \in on : j > k <=> (P = HeadNode \/ P < j)
        BY <1>2, <1>7, <1>8
      <4>3. CASE d(P) = Nil
        <5>1. \A j \in on : ~(P = HeadNode \/ P < j)
          BY <1>2, <1>5, <1>7, <4>3
        <5> QED
          BY <1>4, <3>2, <4>1, <4>2, <4>3, <5>1
      <4>4. CASE d(P) # Nil
        <5>1. d(P) \in on /\ (P = HeadNode \/ P < d(P))
              /\ \A j \in on : P = HeadNode \/ P < j => d(P) <= j
          BY <1>2, <1>5, <4>4
        <5>2. m[n] = d(P)
          BY <1>4, <3>2
        <5> QED
          BY <4>1, <4>2, <5>1, <5>2
      <4> QED
        BY <4>3, <4>4
    <3>3. CASE n # P /\ n # k
      <4>1. n \in Node \ {k, P} /\ m[n] = d(n) /\ n \in on \cup {HeadNode}
        BY <1>1, <1>4, <3>3
      <4>2. CASE n # HeadNode /\ n > k
        <5>1. n \in on /\ n \in Int /\ ~(k > n)
          BY <1>7, <1>8, <4>1, <4>2
        <5>2. \A j : j \in after <=> j \in on /\ j > n
          BY <2>0, <5>1, <4>2
        <5>3. CASE d(n) = Nil
          <6>1. \A j \in on : j <= n
            BY <1>5, <4>2, <5>1, <5>3
          <6>2. \A j : j \notin after
            BY <1>7, <5>1, <5>2, <6>1
          <6> QED
            BY <4>1, <5>3, <6>2
        <5>4. CASE d(n) # Nil
          <6>1. d(n) \in on /\ n < d(n) /\ \A j \in on : n < j => d(n) <= j
            BY <1>5, <4>2, <5>1, <5>4
          <6> QED
            BY <1>7, <4>1, <5>1, <5>2, <6>1
        <5> QED
          BY <5>3, <5>4
      <4>3. CASE n = HeadNode \/ ~(n > k)
        <5>1. n # HeadNode => n \in on /\ n \in Int /\ n < k
          BY <1>7, <1>8, <4>1, <4>3, <3>3
        <5>2. P \in on /\ P \in Int /\ P < k /\ (n = HeadNode \/ n < P)
          BY <1>2, <1>7, <3>3, <5>1
        <5>3. d(n) # Nil
          <6>1. d(n) = Nil => on # {} /\ n # HeadNode /\ P <= n
            BY <1>5, <4>1, <5>2
          <6> QED
            BY <5>1, <5>2, <6>1
        <5>4. d(n) \in on /\ (n = HeadNode \/ n < d(n)) /\ d(n) <= P
              /\ \A j \in on : n = HeadNode \/ n < j => d(n) <= j
          BY <1>5, <4>1, <5>2, <5>3
        <5>5. d(n) \in Int /\ d(n) <= k
          <6>1. d(n) \in Int /\ d(n) <= P
            BY <1>7, <5>4
          <6> QED
            BY <1>8, <5>2, <6>1
        <5>6. d(n) \in after
          BY <2>0, <5>1, <5>4, <5>5
        <5>7. \A x \in after : x = k \/ (x \in on /\ (n = HeadNode \/ n < x))
          BY <1>7, <2>0, <5>1
        <5> QED
          BY <4>1, <5>4, <5>5, <5>6, <5>7
      <4> QED
        BY <4>2, <4>3
    <3> QED
      BY <3>1, <3>2, <3>3
  <2>b. CASE m[n] = Nil /\ after = {}
    BY <2>b DEF after
  <2>c. CASE m[n] \in after /\ \A x \in after : m[n] <= x
    <3>1. Min(after) = m[n] /\ after # {}
      BY <2>0, <2>c, LeastIsMin
    <3> QED
      BY <3>1 DEF after
  <2> QED
    BY <2>a, <2>b, <2>c
<1>10. Targets(m) = on \cup {k}
  <2>1. ASSUME NEW n \in Node, m[n] # Nil
        PROVE  m[n] \in on \cup {k}
    <3>1. \A c \in Node : d(c) # Nil => d(c) \in on
      BY <1>1 DEF Linked, on, d
    <3> QED
      BY <1>3, <1>4, <2>1, <3>1
  <2>2. ASSUME NEW y \in on \cup {k}
        PROVE  \E n \in Node : m[n] = y
    <3>1. CASE y = k
      BY <1>3, <1>4, <3>1
    <3>2. CASE y # k
      <4> DEFINE Q == Pred(s, i, y)
      <4>1. y \in on /\ y \in Key
        BY <1>1, <2>2, <3>2
      <4>2. Q \in on \cup {HeadNode} /\ d(Q) = y
        BY <4>1, PredIsLastBefore, FoundIfLinked DEF on, d
      <4>3. Q \in Node /\ Q # k
        BY <1>1, <1>7, <4>2
      <4> HIDE DEF Q
      <4>4. CASE Q = P
        BY <1>3, <1>4, <4>2, <4>4
      <4>5. CASE Q # P
        BY <1>4, <4>2, <4>3, <4>5
      <4> QED
        BY <4>4, <4>5
    <3> QED
      BY <3>1, <3>2
  <2>3. \A y \in Key : (\E n \in Node : m[n] = y) <=> y \in on \cup {k}
    BY <1>1, <2>1, <2>2
  <2>4. on \cup {k} \subseteq Key
    BY <1>1
  <2> QED
    BY <2>3, <2>4 DEF Targets
<1> QED
  BY <1>6, <1>9, <1>10 DEF on

\* What get and add find at the bottom.
LEMMA BottomFinds ==
  ASSUME NEW s \in SkipLists, TowersSound(s), NEW k \in Key
  PROVE  s.next[1][Update(s, k)[1]] = k <=> k \in Linked(s, 1)
<1>1. 1 \in 1..s.levels /\ 1 \in 1..MaxLevels
  BY SomeLevel DEF SkipLists
<1> QED
  BY <1>1, UpdateIsPred, FoundIfLinked

LEMMA AddPresent ==
  ASSUME NEW s \in SkipLists, TowersSound(s), NEW k \in Linked(s, 1), NEW e, NEW height
  PROVE  Add(s, k, e, height) = [s EXCEPT !.value[k] = e]
<1>1. k \in Key
  BY DEF Linked
<1>2. s.next[1][Update(s, k)[1]] = k
  BY <1>1, BottomFinds
<1> QED
  BY <1>2 DEF Add

\* Levels above those in use are empty.
LEMMA BeforeIsPred ==
  ASSUME NEW s \in SkipLists, TowersSound(s), NEW k \in Key, NEW i \in 1..MaxLevels
  PROVE  (IF i > s.levels THEN HeadNode ELSE Update(s, k)[i]) = Pred(s, i, k)
<1>1. s.levels \in 1..MaxLevels /\ MaxLevels \in Nat
  BY SomeLevel DEF SkipLists
<1>2. CASE i > s.levels
  <2>1. Linked(s, i) = {}
    BY <1>2 DEF TowersSound
  <2> QED
    BY <1>2, <2>1 DEF Pred
<1>3. CASE ~(i > s.levels)
  <2>1. i \in 1..s.levels
    BY <1>1, <1>3
  <2> QED
    BY <1>3, <2>1, UpdateIsPred
<1> QED
  BY <1>2, <1>3

LEMMA AddAbsent ==
  ASSUME NEW s \in SkipLists, TowersSound(s), NEW k \in Key, k \notin Linked(s, 1),
         NEW e, NEW height
  PROVE  Add(s, k, e, height) =
           [next |-> [i \in 1..MaxLevels |->
                        IF i > height THEN s.next[i] ELSE Tower(s, k, i)],
            value |-> [s.value EXCEPT ![k] = e],
            levels |-> IF height > s.levels THEN height ELSE s.levels,
            size |-> s.size + 1]
<1> DEFINE before(i) == IF i > s.levels THEN HeadNode ELSE Update(s, k)[i]
           tower(i) == [s.next[i] EXCEPT ![k] = s.next[i][before(i)], ![before(i)] = k]
<1>1. s.next[1][Update(s, k)[1]] # k
  BY BottomFinds
<1>2. Add(s, k, e, height) =
        [next |-> [i \in 1..MaxLevels |-> IF i > height THEN s.next[i] ELSE tower(i)],
         value |-> [s.value EXCEPT ![k] = e],
         levels |-> IF height > s.levels THEN height ELSE s.levels,
         size |-> s.size + 1]
  BY <1>1 DEF Add
<1>3. \A i \in 1..MaxLevels : before(i) = Pred(s, i, k)
  BY BeforeIsPred
<1>4. \A i \in 1..MaxLevels : tower(i) = Tower(s, k, i)
  BY <1>3 DEF Tower
<1> HIDE DEF tower
<1>5. [i \in 1..MaxLevels |-> IF i > height THEN s.next[i] ELSE tower(i)]
        = [i \in 1..MaxLevels |-> IF i > height THEN s.next[i] ELSE Tower(s, k, i)]
  BY <1>4
<1> QED
  BY <1>2, <1>5

\* A new list is empty.
LEMMA NewListSound ==
  /\ NewSkipList \in SkipLists /\ TowersSound(NewSkipList)
  /\ \A i \in 1..MaxLevels : Linked(NewSkipList, i) = {}
<1>1. Nil \notin Key
  BY HeadAndNilAreNoKeys
<1>2. \A i \in 1..MaxLevels : Linked(NewSkipList, i) = {}
  BY <1>1 DEF Linked, NewSkipList
<1>3. NewSkipList \in SkipLists
  BY SomeLevel DEF NewSkipList, SkipLists, EmptyTable, Table
<1>4. \A i \in 1..MaxLevels : NewSkipList.next[i][HeadNode] = Nil
  BY DEF NewSkipList, Node
<1>5. 1 \in 1..MaxLevels /\ \A i \in 1..MaxLevels : i > 1 => i - 1 \in 1..MaxLevels
  BY SomeLevel
<1>6. NewSkipList.size = Cardinality(Linked(NewSkipList, 1))
  BY <1>2, <1>5, FS_EmptySet DEF NewSkipList
<1> QED
  BY <1>2, <1>3, <1>4, <1>5, <1>6 DEF TowersSound

\* A key that is not at the bottom is at no level.
LEMMA NotLinkedAbove ==
  ASSUME NEW s \in SkipLists, TowersSound(s), NEW k \in Key, k \notin Linked(s, 1)
  PROVE  \A i \in 1..MaxLevels : k \notin Linked(s, i)
<1> DEFINE bad == {i \in 1..MaxLevels : k \in Linked(s, i)}
<1> SUFFICES ASSUME bad # {}
             PROVE  FALSE
  OBVIOUS
<1>1. MaxLevels \in Nat /\ bad \in SUBSET Nat
  BY SomeLevel
<1>2. PICK i \in bad : \A j \in bad : i <= j
  BY <1>1, LeastNatural
<1>3. i \in 1..MaxLevels /\ k \in Linked(s, i) /\ i # 1
  OBVIOUS
<1>4. i > 1 /\ i - 1 \in 1..MaxLevels
  BY <1>1, <1>3
<1>5. i - 1 \in bad
  BY <1>3, <1>4 DEF TowersSound
<1> QED
  BY <1>2, <1>4, <1>5

\* Add keeps the towers sound, whatever height it draws, and links the key.
LEMMA AddKeepsTowers ==
  ASSUME NEW s \in SkipLists, TowersSound(s), NEW k \in Key, NEW e \in Entry,
         NEW height \in 1..MaxLevels
  PROVE  LET t == Add(s, k, e, height) IN
         /\ t \in SkipLists /\ TowersSound(t)
         /\ Linked(t, 1) = Linked(s, 1) \cup {k}
         /\ t.value = [s.value EXCEPT ![k] = e]
<1> DEFINE t == Add(s, k, e, height)
<1>0. /\ s.next \in [1..MaxLevels -> [Node -> Key \cup {Nil}]] /\ s.value \in Table
      /\ s.levels \in 1..MaxLevels /\ s.size \in Nat /\ MaxLevels \in Nat \ {0}
      /\ 1 \in 1..MaxLevels
  BY SomeLevel DEF SkipLists
<1>1. CASE k \in Linked(s, 1)
  <2>1. t = [s EXCEPT !.value[k] = e]
    BY <1>1, AddPresent
  <2> HIDE DEF t
  <2>2. t.next = s.next /\ t.levels = s.levels /\ t.size = s.size
        /\ t.value = [s.value EXCEPT ![k] = e]
    BY <2>1 DEF SkipLists
  <2>3. t \in SkipLists
    BY <2>1 DEF SkipLists, Table
  <2>4. \A i : Linked(t, i) = Linked(s, i)
    BY <2>2 DEF Linked
  <2>5. TowersSound(t)
    BY <2>2, <2>4, SMTT(60) DEF TowersSound
  <2> QED
    BY <1>1, <2>2, <2>3, <2>4, <2>5 DEF t
<1>2. CASE k \notin Linked(s, 1)
  <2>1. t = [next |-> [i \in 1..MaxLevels |->
                         IF i > height THEN s.next[i] ELSE Tower(s, k, i)],
             value |-> [s.value EXCEPT ![k] = e],
             levels |-> IF height > s.levels THEN height ELSE s.levels,
             size |-> s.size + 1]
    BY <1>2, AddAbsent
  <2> HIDE DEF t
  <2>2. \A i \in 1..MaxLevels : t.next[i] = IF i > height THEN s.next[i] ELSE Tower(s, k, i)
    BY <2>1
  <2>3. t.levels = (IF height > s.levels THEN height ELSE s.levels) /\ t.size = s.size + 1
        /\ t.value = [s.value EXCEPT ![k] = e]
    BY <2>1
  <2>4. \A i \in 1..MaxLevels : i > 1 => i - 1 \in 1..MaxLevels
    BY <1>0
  <2>5. \A i \in 1..MaxLevels : k \notin Linked(s, i)
    BY <1>2, NotLinkedAbove
  <2>6. \A i \in 1..MaxLevels : height < i => Linked(t, i) = Linked(s, i)
    BY <2>2 DEF Linked
  <2>7. \A i \in 1..MaxLevels : i <= height =>
          /\ t.next[i] \in [Node -> Key \cup {Nil}]
          /\ Linked(t, i) = Linked(s, i) \cup {k}
          /\ Chains(t.next[i], Linked(t, i))
    <3> SUFFICES ASSUME NEW i \in 1..MaxLevels, i <= height
                 PROVE  /\ t.next[i] \in [Node -> Key \cup {Nil}]
                        /\ Linked(t, i) = Linked(s, i) \cup {k}
                        /\ Chains(t.next[i], Linked(t, i))
      OBVIOUS
    <3>1. t.next[i] = Tower(s, k, i)
      BY <2>2
    <3>2. k \notin Linked(s, i)
      BY <2>5
    <3>3. /\ Tower(s, k, i) \in [Node -> Key \cup {Nil}]
          /\ Chains(Tower(s, k, i), Linked(s, i) \cup {k})
          /\ Targets(Tower(s, k, i)) = Linked(s, i) \cup {k}
      BY <3>2, InsertChains, ZenonT(60)
    <3>4. Linked(t, i) = Targets(t.next[i])
      BY DEF Linked, Targets
    <3> QED
      BY <3>1, <3>3, <3>4, Zenon
  <2>8. \A i \in 1..MaxLevels : Chains(t.next[i], Linked(t, i))
    <3>1. \A i \in 1..MaxLevels : Chains(s.next[i], Linked(s, i))
      BY DEF TowersSound, Chains
    <3>2. \A i \in 1..MaxLevels : height < i => t.next[i] = s.next[i]
      BY <2>2
    <3>3. \A i \in 1..MaxLevels : height < i \/ i <= height
      OBVIOUS
    <3> QED
      BY <2>6, <2>7, <3>1, <3>2, <3>3
  <2>9. t \in SkipLists
    <3>1. \A i \in 1..MaxLevels : t.next[i] \in [Node -> Key \cup {Nil}]
      <4>1. \A i \in 1..MaxLevels : i > height => t.next[i] = s.next[i]
        BY <2>2
      <4>2. \A i \in 1..MaxLevels : i > height \/ i <= height
        OBVIOUS
      <4> QED
        BY <1>0, <2>7, <4>1, <4>2
    <3>2. t.next = [i \in 1..MaxLevels |-> t.next[i]]
      BY <2>1
    <3>3. t.next \in [1..MaxLevels -> [Node -> Key \cup {Nil}]]
      BY <3>1, <3>2, Zenon
    <3>4. t.value \in Table /\ t.levels \in 1..MaxLevels /\ t.size \in Nat
      BY <1>0, <2>3 DEF Table
    <3>5. t = [next |-> t.next, value |-> t.value, levels |-> t.levels, size |-> t.size]
      BY <2>1
    <3> QED
      BY <3>3, <3>4, <3>5 DEF SkipLists
  <2>10. Linked(t, 1) = Linked(s, 1) \cup {k}
    BY <1>0, <2>7
  <2>11. t.size = Cardinality(Linked(t, 1))
    <3>1. IsFiniteSet(Linked(s, 1))
      BY KeysAreOrdered, FS_Subset DEF Linked
    <3>2. Cardinality(Linked(s, 1) \cup {k}) = Cardinality(Linked(s, 1)) + 1
      BY <1>2, <3>1, FS_AddElement
    <3> QED
      BY <2>3, <2>10, <3>2 DEF TowersSound
  <2>12. \A i \in 1..MaxLevels : i > t.levels => Linked(t, i) = {}
    BY <1>0, <2>3, <2>6, SMTT(60) DEF TowersSound
  <2>13. \A i \in 1..MaxLevels : i > 1 => Linked(t, i) \subseteq Linked(t, i - 1)
    <3> SUFFICES ASSUME NEW i \in 1..MaxLevels, i > 1
                 PROVE  Linked(t, i) \subseteq Linked(t, i - 1)
      OBVIOUS
    <3>1. i - 1 \in 1..MaxLevels /\ Linked(s, i) \subseteq Linked(s, i - 1)
      BY <2>4 DEF TowersSound
    <3>2. CASE i <= height
      BY <2>7, <3>1, <3>2
    <3>3. CASE height < i
      BY <2>6, <2>7, <3>1, <3>3
    <3> QED
      BY <3>2, <3>3
  <2>14. TowersSound(t)
    BY <2>8, <2>11, <2>12, <2>13 DEF TowersSound, Chains
  <2> QED
    BY <2>3, <2>9, <2>10, <2>14 DEF t
<1> QED
  BY <1>1, <1>2

LEMMA GetIsLookup ==
  ASSUME NEW s \in SkipLists, TowersSound(s), NEW k \in Key
  PROVE  ListGet(s, k) = IF k \in Linked(s, 1) THEN s.value[k] ELSE None
BY BottomFinds DEF ListGet

\* The skip list is a map: add changes what get answers for its key, and for no
\* other, whatever towers there are and whatever height the new one has.
THEOREM SkipListIsMap ==
  ASSUME NEW s \in SkipLists, TowersSound(s), NEW k \in Key, NEW e \in Entry,
         NEW height \in 1..MaxLevels, NEW j \in Key
  PROVE  /\ TowersSound(Add(s, k, e, height))
         /\ ListGet(Add(s, k, e, height), j) = IF j = k THEN e ELSE ListGet(s, j)
<1> DEFINE t == Add(s, k, e, height)
<1>1. /\ t \in SkipLists /\ TowersSound(t)
      /\ Linked(t, 1) = Linked(s, 1) \cup {k}
      /\ t.value = [s.value EXCEPT ![k] = e]
  BY AddKeepsTowers
<1> HIDE DEF t
<1>2. ListGet(t, j) = IF j \in Linked(t, 1) THEN t.value[j] ELSE None
  BY <1>1, GetIsLookup
<1>3. t.value[j] = IF j = k THEN e ELSE s.value[j]
  BY <1>1 DEF SkipLists, Table
<1>4. ListGet(s, j) = IF j \in Linked(s, 1) THEN s.value[j] ELSE None
  BY GetIsLookup
<1> QED
  BY <1>1, <1>2, <1>3, <1>4 DEF t

-----------------------------------------------------------------------------
(***************************************************************************)
(* Table files.                                                            *)
(***************************************************************************)
EntrySeqs == Seq([key : Key, entry : Entry])

LEMMA SeqMember ==
  ASSUME NEW R, NEW s \in Seq(R), NEW x \in DOMAIN s
  PROVE  s[x] \in R
OBVIOUS

\* Adjacent keys ascend, so all do.
LEMMA SortedPairs ==
  ASSUME NEW keys \in Seq(Int), StrictlySorted(keys),
         NEW i \in DOMAIN keys, NEW j \in DOMAIN keys, i < j
  PROVE  keys[i] < keys[j]
<1> DEFINE bad == {x \in DOMAIN keys : i < x /\ ~(keys[i] < keys[x])}
<1> SUFFICES ASSUME bad # {}
             PROVE  FALSE
  OBVIOUS
<1>1. DOMAIN keys = 1..Len(keys) /\ Len(keys) \in Nat /\ bad \in SUBSET Nat
  OBVIOUS
<1>2. PICK x \in bad : \A y \in bad : x <= y
  BY <1>1, LeastNatural
<1>0. x \in DOMAIN keys /\ i < x
  OBVIOUS
<1>3. x \in 2..Len(keys) /\ x - 1 \in DOMAIN keys /\ i <= x - 1 /\ ~(x <= x - 1)
  <2> DEFINE len == Len(keys)
             D == DOMAIN keys
  <2>1. D = 1..len /\ len \in Nat /\ x \in D /\ i \in D /\ i < x
    BY <1>0, <1>1
  <2> HIDE DEF D, len
  <2>2. x \in 2..len /\ x - 1 \in D /\ i <= x - 1 /\ ~(x <= x - 1)
    BY <2>1, SMTT(60)
  <2> QED
    BY <2>2 DEF D, len
<1>4. keys[x - 1] < keys[x]
  BY <1>3 DEF StrictlySorted
<1>5. keys[i] \in Int /\ keys[x] \in Int /\ keys[x - 1] \in Int /\ ~(keys[i] < keys[x])
  BY <1>1, <1>3
<1>6. i # x - 1
  BY <1>4, <1>5
<1>7. x - 1 \notin bad
  BY <1>2, <1>3
<1>8. keys[i] < keys[x - 1]
  BY <1>1, <1>3, <1>6, <1>7
<1> QED
  BY <1>4, <1>5, <1>8, SMTT(60)

\* sort.Search: the least hit, or one past the end.
LEMMA LeastHit ==
  ASSUME NEW n \in Nat, NEW H \in SUBSET (1..n)
  PROVE  /\ Min(H \cup {n + 1}) \in H \cup {n + 1}
         /\ Min(H \cup {n + 1}) \in 1..n + 1
         /\ \A x \in H : Min(H \cup {n + 1}) <= x
<1> DEFINE S == H \cup {n + 1}
<1>1. S \subseteq 1..n + 1 /\ S # {} /\ 1..n + 1 \subseteq Int
  OBVIOUS
<1>2. IsFiniteSet(S) /\ S \in SUBSET Int
  <2>1. IsFiniteSet(1..n + 1)
    BY FS_Interval
  <2> HIDE DEF S
  <2> QED
    BY <1>1, <2>1, FS_Subset
<1>3. Min(S) \in S /\ \A x \in S : Min(S) <= x
  BY <1>1, <1>2, MinIsLeast
<1> QED
  BY <1>1, <1>3

LEMMA MinOfTwo ==
  ASSUME NEW x \in Int, NEW y \in Int
  PROVE  Min({x, y}) = IF x <= y THEN x ELSE y
<1>1. IsFiniteSet({x, y})
  <2>1. IsFiniteSet({x}) /\ {x, y} = {x} \cup {y}
    BY FS_Singleton
  <2> QED
    BY <2>1, FS_AddElement
<1>2. Min({x, y}) \in {x, y} /\ Min({x, y}) <= x /\ Min({x, y}) <= y
  BY <1>1, MinIsLeast
<1> QED
  BY <1>2

\* How the blocks divide the entries.
LEMMA BlockBounds ==
  ASSUME NEW n \in Nat, NEW D \in Nat \ {0}, NEW B, B = (n + D - 1) \div D
  PROVE  /\ B \in Nat
         /\ \A c \in Nat : n <= c * D => B <= c
         /\ \A b \in 1..B : (b - 1) * D \in Nat /\ (b - 1) * D + 1 \in 1..n
         /\ \A b \in 1..B : b # B => b * D + 1 \in 1..n /\ b + 1 \in 1..B
         /\ n <= B * D
<1>1. B \in Nat /\ B * D <= n + D - 1 /\ n + D - 1 < B * D + D
  OBVIOUS
<1>2. n <= B * D
  BY <1>1
<1>3. ASSUME NEW c \in Nat, n <= c * D
      PROVE  B <= c
  BY <1>1, <1>3
<1>4. ASSUME NEW b \in 1..B
      PROVE  (b - 1) * D \in Nat /\ (b - 1) * D + 1 \in 1..n
  <2>1. b * D <= B * D
    BY <1>1
  <2>2. (b - 1) * D = b * D - D /\ b * D \in Nat /\ (b - 1) * D \in Nat
    BY <1>1
  <2> QED
    BY <1>1, <2>1, <2>2
<1>5. ASSUME NEW b \in 1..B, b # B
      PROVE  b * D + 1 \in 1..n /\ b + 1 \in 1..B
  <2>1. b + 1 \in 1..B
    BY <1>1, <1>5
  <2>2. ((b + 1) - 1) * D + 1 \in 1..n /\ (b + 1) - 1 = b
    BY <1>4, <2>1
  <2> QED
    BY <2>1, <2>2
<1> QED
  BY <1>1, <1>2, <1>3, <1>4, <1>5

\* File f has the entries es in B blocks of at most D.
LaidOut(es, f, D, B) ==
  /\ B \in Nat /\ B <= IndexCapacity /\ Len(es) <= B * D
  /\ Len(f.blocks) = B /\ Len(f.index) = B
  /\ \A b \in 1..B :
       /\ (b - 1) * D \in Nat /\ (b - 1) * D + 1 \in DOMAIN es
       /\ f.index[b] = es[(b - 1) * D + 1].key
       /\ f.blocks[b].crc = f.blocks[b].slots
       /\ \E len \in 1..D :
            /\ f.blocks[b].slots = [i \in 1..len |-> Encode(es[(b - 1) * D + i])]
            /\ \A i \in 1..len : (b - 1) * D + i \in DOMAIN es
            /\ \A i \in 1..D : (b - 1) * D + i \in DOMAIN es => i <= len

\* What writeBlockBasedTable lays out.
LEMMA BlocksWritten ==
  ASSUME NEW es \in EntrySeqs, Len(es) <= MaxEntries
  PROVE  LaidOut(es, BlockFile(es), DataBlockEntries, BlockCount(es))
<1> SUFFICES ASSUME NEW f, f = BlockFile(es),
                    NEW D, D = DataBlockEntries, NEW B, B = BlockCount(es)
             PROVE  LaidOut(es, f, D, B)
  OBVIOUS
<1>1. D \in Nat \ {0} /\ IndexCapacity \in Nat \ {0} /\ Len(es) \in Nat
      /\ DOMAIN es = 1..Len(es)
  BY BlocksHaveRoom DEF EntrySeqs
<1>2. B = (Len(es) + D - 1) \div D /\ Len(es) <= IndexCapacity * D
  BY DEF BlockCount, MaxEntries
<1>3. /\ B \in Nat /\ B <= IndexCapacity /\ Len(es) <= B * D
      /\ \A b \in 1..B : (b - 1) * D \in Nat /\ (b - 1) * D + 1 \in 1..Len(es)
  BY <1>1, <1>2, BlockBounds
<1>4. /\ f.blocks = [b \in 1..B |-> DataBlock(es, b)]
      /\ f.index = [b \in 1..B |-> DataBlock(es, b).slots[1].key]
  BY DEF BlockFile
<1>5. Len(f.blocks) = B /\ Len(f.index) = B
  BY <1>3, <1>4
<1>6. ASSUME NEW b \in 1..B
      PROVE  \E len \in 1..D :
               /\ DataBlock(es, b).slots = [i \in 1..len |-> Encode(es[(b - 1) * D + i])]
               /\ \A i \in 1..len : (b - 1) * D + i \in DOMAIN es
               /\ \A i \in 1..D : (b - 1) * D + i \in DOMAIN es => i <= len
  <2> DEFINE q == (b - 1) * D
             first == q + 1
             N == Len(es)
             last == Min({b * D, N})
             len == last - first + 1
  <2>1. b * D = q + D /\ q \in Nat /\ q + 1 \in 1..Len(es)
    BY <1>1, <1>3
  <2>2. DataBlock(es, b).slots = [i \in 1..len |-> Encode(es[first + i - 1])]
    BY DEF DataBlock
  <2>3. last = IF q + D <= N THEN q + D ELSE N
    BY <1>1, <2>1, MinOfTwo
  <2>0. D \in Nat /\ D >= 1 /\ N \in Nat /\ DOMAIN es = 1..N /\ q \in Nat /\ q + 1 <= N
    BY <1>1, <2>1
  <2> HIDE DEF last, q, N
  <2>4. len \in 1..D
    BY <2>0, <2>3
  <2>5. \A i \in 1..len : first + i - 1 = q + i /\ q + i \in DOMAIN es
    BY <2>0, <2>3
  <2>6. \A i \in 1..D : q + i \in DOMAIN es => i <= len
    BY <2>0, <2>3
  <2> HIDE DEF len, first
  <2>7. DataBlock(es, b).slots = [i \in 1..len |-> Encode(es[q + i])]
    BY <2>2, <2>5
  <2> QED
    BY <2>4, <2>5, <2>6, <2>7 DEF q
<1>7. ASSUME NEW b \in 1..B
      PROVE  /\ f.blocks[b].crc = f.blocks[b].slots
             /\ f.blocks[b].slots = DataBlock(es, b).slots
             /\ f.index[b] = es[(b - 1) * D + 1].key
  <2>1. f.blocks[b] = DataBlock(es, b) /\ f.index[b] = DataBlock(es, b).slots[1].key
    BY <1>4
  <2>2. DataBlock(es, b).crc = DataBlock(es, b).slots
    BY DEF DataBlock
  <2>3. DataBlock(es, b).slots[1].key = Encode(es[(b - 1) * D + 1]).key
    <3>1. PICK len \in 1..D :
            DataBlock(es, b).slots = [i \in 1..len |-> Encode(es[(b - 1) * D + i])]
      BY <1>6
    <3>2. 1 \in 1..len
      BY <1>1
    <3> QED
      BY <3>1, <3>2
  <2>4. Encode(es[(b - 1) * D + 1]).key = es[(b - 1) * D + 1].key
    BY DEF Encode
  <2> QED
    BY <2>1, <2>2, <2>3, <2>4
<1> QED
  BY <1>1, <1>3, <1>5, <1>6, <1>7 DEF LaidOut

\* The keys of a sorted file differ.
LEMMA FileKeysAscend ==
  ASSUME NEW es \in EntrySeqs, StrictlySorted(Keys(es)),
         NEW i \in DOMAIN es, NEW j \in DOMAIN es, i < j
  PROVE  es[i].key < es[j].key
<1> DEFINE keys == Keys(es)
<1>1. \A x \in DOMAIN es : es[x].key \in Int
  <2>1. \A x \in DOMAIN es : es[x] \in [key : Key, entry : Entry]
    BY SeqMember DEF EntrySeqs
  <2>2. \A x \in Key : x \in Int
    BY KeysAreOrdered
  <2> QED
    BY <2>1, <2>2
<1>2. keys \in Seq(Int) /\ DOMAIN keys = DOMAIN es /\ \A x \in DOMAIN es : keys[x] = es[x].key
  BY <1>1 DEF Keys, EntrySeqs
<1> HIDE DEF keys
<1>3. keys[i] < keys[j]
  BY <1>2, SortedPairs DEF keys
<1> QED
  BY <1>2, <1>3

LEMMA TableHasWhatIsListed ==
  ASSUME NEW es \in EntrySeqs, StrictlySorted(Keys(es)), NEW k \in Key
  PROVE  /\ \A p \in DOMAIN es : es[p].key = k => TableOf(es)[k] = es[p].entry
         /\ (\A p \in DOMAIN es : es[p].key # k) => TableOf(es)[k] = None
<1>1. TableOf(es)[k] = IF \E i \in DOMAIN es : es[i].key = k
                       THEN es[CHOOSE i \in DOMAIN es : es[i].key = k].entry
                       ELSE None
  BY DEF TableOf
<1>2. ASSUME NEW p \in DOMAIN es, es[p].key = k
      PROVE  (CHOOSE i \in DOMAIN es : es[i].key = k) = p
  <2> DEFINE c == CHOOSE i \in DOMAIN es : es[i].key = k
  <2>1. c \in DOMAIN es /\ es[c].key = k
    BY <1>2
  <2> HIDE DEF c
  <2>2. c \in Nat /\ p \in Nat /\ k \in Int
    BY <2>1, KeysAreOrdered DEF EntrySeqs
  <2>3. ~(c < p) /\ ~(p < c)
    BY <1>2, <2>1, <2>2, FileKeysAscend
  <2> QED
    BY <2>2, <2>3 DEF c
<1> QED
  BY <1>1, <1>2

\* Block b of such a file reads back as its entries.
ReadsBack(es, f, D, b) ==
  \E len \in 1..D :
    /\ ReadBlock(f, b) = [i \in 1..len |-> es[(b - 1) * D + i]]
    /\ \A i \in 1..len : (b - 1) * D + i \in DOMAIN es
    /\ \A i \in 1..D : (b - 1) * D + i \in DOMAIN es => i <= len

LEMMA BlocksReadBack ==
  ASSUME NEW es \in EntrySeqs, StrictlySorted(Keys(es)), NEW f, NEW D \in Nat \ {0}, NEW B,
         LaidOut(es, f, D, B), NEW b \in 1..B
  PROVE  ReadsBack(es, f, D, b) /\ ReadBlock(f, b) # ReadError
<1> DEFINE q == (b - 1) * D
           slots == f.blocks[b].slots
<1>1. q \in Nat /\ f.blocks[b].crc = slots
  BY DEF LaidOut
<1>2. PICK len \in 1..D :
        /\ slots = [i \in 1..len |-> Encode(es[q + i])]
        /\ \A i \in 1..len : q + i \in DOMAIN es
        /\ \A i \in 1..D : q + i \in DOMAIN es => i <= len
  BY DEF LaidOut
<1> HIDE DEF q
<1>3. len \in Nat /\ \A i \in 1..len : es[q + i] \in [key : Key, entry : Entry]
  <2>1. \A x \in DOMAIN es : es[x] \in [key : Key, entry : Entry]
    BY SeqMember DEF EntrySeqs
  <2> QED
    BY <1>2, <2>1
<1>5. \A r \in [key : Key, entry : Entry] : Decode(Encode(r)) = r /\ Encode(r).key = r.key
  BY OutcomesDiffer, SentinelsDiffer DEF Decode, Encode, Entry
<1>6. [i \in DOMAIN slots |-> Decode(slots[i])] = [i \in 1..len |-> es[q + i]]
  <2>1. DOMAIN slots = 1..len /\ \A i \in 1..len : Decode(slots[i]) = es[q + i]
    BY <1>2, <1>3, <1>5
  <2> HIDE DEF slots
  <2> QED
    BY <2>1
<1>7. StrictlySorted(Keys(slots))
  <2>1. Keys(slots) = [i \in 1..len |-> es[q + i].key]
    <3>1. DOMAIN slots = 1..len /\ \A i \in 1..len : slots[i].key = es[q + i].key
      BY <1>2, <1>3, <1>5
    <3> HIDE DEF slots
    <3> QED
      BY <3>1 DEF Keys
  <2>2. \A i \in 2..len : es[q + (i - 1)].key < es[q + i].key
    <3> SUFFICES ASSUME NEW i \in 2..len
                 PROVE  es[q + (i - 1)].key < es[q + i].key
      OBVIOUS
    <3>1. i \in 1..len /\ i - 1 \in 1..len
      BY <1>3
    <3>2. q + (i - 1) \in DOMAIN es /\ q + i \in DOMAIN es
      BY <1>2, <3>1
    <3>3. q + (i - 1) < q + i
      BY <1>1, <3>1
    <3> QED
      BY <3>2, <3>3, FileKeysAscend
  <2>3. Len(Keys(slots)) = len /\ \A i \in 2..len : i - 1 \in 1..len /\ i \in 1..len
    BY <1>3, <2>1
  <2> HIDE DEF slots
  <2> QED
    BY <2>1, <2>2, <2>3 DEF StrictlySorted
<1>8. ReadBlock(f, b) = [i \in 1..len |-> es[q + i]]
  <2> HIDE DEF slots
  <2>1. ReadBlock(f, b) = IF f.blocks[b].crc # slots \/ ~StrictlySorted(Keys(slots))
                          THEN ReadError ELSE [i \in DOMAIN slots |-> Decode(slots[i])]
    BY DEF ReadBlock, slots
  <2> QED
    BY <1>1, <1>6, <1>7, <2>1
<1>9. [i \in 1..len |-> es[q + i]] \in Seq([key : Key, entry : Entry])
  BY <1>3
<1>10. ReadError \notin Seq([key : Key, entry : Entry])
  BY OutcomesDiffer
<1> QED
  BY <1>2, <1>8, <1>9, <1>10 DEF q, ReadsBack

\* Where get looks: no entry of key k is outside of the block the index names.
LEMMA BlockOfKey ==
  ASSUME NEW es \in EntrySeqs, StrictlySorted(Keys(es)), NEW f, NEW D \in Nat \ {0}, NEW B,
         LaidOut(es, f, D, B), NEW k \in Key,
         NEW H, H = {i \in 1..Len(f.index) : f.index[i] > k},
         NEW b, b = Min(H \cup {Len(f.index) + 1}) - 1
  PROVE  /\ b \in 0..B
         /\ \A p \in DOMAIN es : es[p].key = k =>
              b # 0 /\ p - (b - 1) * D \in 1..D
<1>1. B \in Nat /\ Len(f.index) = B /\ Len(es) <= B * D
  BY DEF LaidOut
<1>h. H \in SUBSET (1..B) /\ \A c \in 1..B : c \in H <=> f.index[c] > k
  BY <1>1
<1>2. /\ b + 1 \in H \cup {B + 1} /\ b + 1 \in 1..B + 1
      /\ \A x \in H : b + 1 <= x
  <2> DEFINE r == Min(H \cup {B + 1})
  <2>0. \A S \in SUBSET (1..B) :
          /\ Min(S \cup {B + 1}) \in S \cup {B + 1} /\ Min(S \cup {B + 1}) \in 1..B + 1
          /\ \A x \in S : Min(S \cup {B + 1}) <= x
    <3> SUFFICES ASSUME NEW S \in SUBSET (1..B)
                 PROVE  /\ Min(S \cup {B + 1}) \in S \cup {B + 1}
                        /\ Min(S \cup {B + 1}) \in 1..B + 1
                        /\ \A x \in S : Min(S \cup {B + 1}) <= x
      OBVIOUS
    <3> QED
      BY <1>1, LeastHit
  <2>1. r \in H \cup {B + 1} /\ r \in 1..B + 1 /\ \A x \in H : r <= x
    BY <1>h, <2>0
  <2>2. b = r - 1
    BY <1>1
  <2> HIDE DEF r
  <2>3. b + 1 = r
    BY <1>1, <2>1, <2>2
  <2> QED
    BY <2>1, <2>3
<1>3. b \in 0..B
  BY <1>1, <1>2
<1>4. \A x \in DOMAIN es : x \in Nat /\ x <= Len(es) /\ x >= 1 /\ es[x].key \in Int
  <2>1. \A x \in DOMAIN es : es[x] \in [key : Key, entry : Entry]
    BY SeqMember DEF EntrySeqs
  <2>2. DOMAIN es = 1..Len(es) /\ Len(es) \in Nat
    BY DEF EntrySeqs
  <2>3. \A x \in Key : x \in Int
    BY KeysAreOrdered
  <2> QED
    BY <2>1, <2>2, <2>3
<1>5. \A c \in 1..B : (c - 1) * D \in Nat /\ (c - 1) * D + 1 \in DOMAIN es
                      /\ f.index[c] = es[(c - 1) * D + 1].key
  BY DEF LaidOut
<1>6. k \in Int
  BY KeysAreOrdered
<1> SUFFICES ASSUME NEW p \in DOMAIN es, es[p].key = k
             PROVE  b # 0 /\ p - (b - 1) * D \in 1..D
  BY <1>3
<1>7. b # B => p <= b * D
  <2> SUFFICES ASSUME b # B, p > b * D
               PROVE  FALSE
    BY <1>1, <1>3, <1>4
  <2>1. b + 1 \in 1..B /\ (b + 1) - 1 = b
    BY <1>1, <1>3, SMTT(60)
  <2>2. b + 1 \in H
    BY <1>1, <1>2, <2>1
  <2>3. b * D \in Nat /\ b * D + 1 \in DOMAIN es /\ es[b * D + 1].key > k
    BY <1>5, <2>1, <2>2
  <2>4. b * D + 1 <= p
    BY <1>4, <2>3
  <2>5. b * D + 1 # p => es[b * D + 1].key < es[p].key
    BY <2>3, <2>4, <1>4, FileKeysAscend, SMTT(60)
  <2> QED
    BY <1>4, <1>6, <2>3, <2>5, SMTT(60)
<1>8. p <= b * D
  BY <1>1, <1>4, <1>7, <1>3 DEF EntrySeqs
<1>9. b # 0
  BY <1>4, <1>8
<1>10. p >= (b - 1) * D + 1
  <2>1. b \in 1..B
    <3>1. \A x \in Nat : \A y \in 0..x : y # 0 => y \in 1..x
      OBVIOUS
    <3> QED
      BY <1>1, <1>3, <1>9, <3>1
  <2>0. b \notin H
    <3>1. ~(b + 1 <= b)
      BY <2>1
    <3> QED
      BY <1>2, <3>1
  <2>2. (b - 1) * D \in Nat /\ (b - 1) * D + 1 \in DOMAIN es /\ f.index[b] = es[(b - 1) * D + 1].key
    BY <1>5, <2>1
  <2>3. ~(es[(b - 1) * D + 1].key > k)
    BY <1>h, <2>0, <2>1, <2>2
  <2> SUFFICES ASSUME p < (b - 1) * D + 1
               PROVE  FALSE
    BY <1>4, <2>2
  <2>4. es[p].key < es[(b - 1) * D + 1].key
    BY <2>2, FileKeysAscend
  <2> QED
    BY <1>4, <1>6, <2>2, <2>3, <2>4
<1>11. b * D = (b - 1) * D + D /\ (b - 1) * D \in Nat
  <2>1. \A x \in Nat \ {0} : x * D = (x - 1) * D + D /\ (x - 1) * D \in Nat
    OBVIOUS
  <2>2. b \in Nat \ {0}
    BY <1>1, <1>3, <1>9
  <2> QED
    BY <2>1, <2>2
<1> QED
  BY <1>4, <1>8, <1>9, <1>10, <1>11, SMTT(60)

\* get of a file answers what was written: the binary searches over index and
\* block miss no entry and find no other, where a block ends and where the file does.
THEOREM TableGetFindsWritten ==
  ASSUME NEW es \in EntrySeqs, Writable(es), NEW k \in Key
  PROVE  TableGet(BlockFile(es), k) = TableOf(es)[k]
<1> DEFINE f == BlockFile(es)
           D == DataBlockEntries
           B == BlockCount(es)
<1>0. StrictlySorted(Keys(es)) /\ Len(es) <= MaxEntries
  BY DEF Writable
<1>1. LaidOut(es, f, D, B) /\ D \in Nat \ {0}
  BY <1>0, BlocksWritten, BlocksHaveRoom
<1> HIDE DEF f, D, B
<1> DEFINE H == {i \in 1..Len(f.index) : f.index[i] > k}
           b == Min(H \cup {Len(f.index) + 1}) - 1
           block == ReadBlock(f, b)
           H2 == {i \in 1..Len(block) : block[i].key >= k}
           e == Min(H2 \cup {Len(block) + 1})
<1>2. /\ b \in 0..B
      /\ \A p \in DOMAIN es : es[p].key = k => b # 0 /\ p - (b - 1) * D \in 1..D
  BY <1>0, <1>1, BlockOfKey
<1>3. TableGet(f, k) = IF b = 0 THEN None
                       ELSE IF block = ReadError THEN ReadError
                       ELSE IF e > Len(block) THEN None
                       ELSE IF block[e].key # k THEN None ELSE block[e].entry
  BY DEF TableGet, Search
<1> HIDE DEF b
<1>4. CASE b = 0
  BY <1>0, <1>2, <1>3, <1>4, TableHasWhatIsListed DEF f
<1>5. CASE b # 0
  <2>1. b \in 1..B
    BY <1>1, <1>2, <1>5 DEF LaidOut
  <2>2. ReadsBack(es, f, D, b) /\ block # ReadError
    BY <1>0, <1>1, <2>1, BlocksReadBack
  <2> DEFINE q == (b - 1) * D
  <2>3. q \in Nat
    BY <1>1, <2>1 DEF LaidOut
  <2>4. PICK len \in 1..D :
          /\ block = [i \in 1..len |-> es[q + i]]
          /\ \A i \in 1..len : q + i \in DOMAIN es
          /\ \A i \in 1..D : q + i \in DOMAIN es => i <= len
    BY <2>2 DEF ReadsBack
  <2> HIDE DEF q, block
  <2>5. Len(block) = len /\ len \in Nat /\ H2 \in SUBSET (1..len)
        /\ \A i \in 1..len : block[i] = es[q + i]
    BY <1>1, <2>4
  <2>6. e \in H2 \cup {len + 1} /\ e \in 1..len + 1 /\ \A x \in H2 : e <= x
    BY <2>5, LeastHit, ZenonT(60)
  <2>7. \A i \in 1..len : es[q + i].key \in Int
    <3>1. \A x \in DOMAIN es : es[x] \in [key : Key, entry : Entry]
      BY SeqMember DEF EntrySeqs
    <3>2. \A x \in Key : x \in Int
      BY KeysAreOrdered
    <3> QED
      BY <2>4, <3>1, <3>2
  <2> HIDE DEF e
  <2>8. CASE e <= len /\ block[e].key = k
    <3>1. e \in 1..len /\ q + e \in DOMAIN es /\ es[q + e].key = k
          /\ block[e].entry = es[q + e].entry
      BY <2>4, <2>5, <2>6, <2>8
    <3>2. TableGet(f, k) = block[e].entry
      BY <1>3, <1>5, <2>2, <2>5, <2>8, <3>1
    <3> QED
      BY <1>0, <3>1, <3>2, TableHasWhatIsListed DEF f
  <2>9. CASE ~(e <= len /\ block[e].key = k)
    <3>1. \A p \in DOMAIN es : es[p].key # k
      <4> SUFFICES ASSUME NEW p \in DOMAIN es, es[p].key = k
                   PROVE  FALSE
        OBVIOUS
      <4>1. p - q \in 1..D /\ p \in Nat
        BY <1>2 DEF q, EntrySeqs
      <4> DEFINE i == p - q
      <4>2. q + i = p
        BY <2>3, <4>1
      <4> HIDE DEF i
      <4>3. i \in 1..len /\ block[i].key = k
        BY <2>4, <2>5, <4>1, <4>2 DEF i
      <4>4. i \in H2 /\ e <= i
        BY <2>5, <2>6, <2>7, <4>3
      <4>5. e \in 1..len /\ e \in H2 /\ e # i
        BY <2>5, <2>6, <2>9, <4>3, <4>4
      <4>6. q + e \in DOMAIN es /\ q + i \in DOMAIN es /\ q + e < q + i
        <5>1. e \in Nat /\ i \in Nat /\ e < i
          BY <2>5, <4>3, <4>4, <4>5
        <5>2. q + e < q + i
          BY <2>3, <5>1
        <5>3. q + e \in DOMAIN es /\ q + i \in DOMAIN es
          BY <2>4, <4>3, <4>5
        <5> QED
          BY <5>2, <5>3
      <4>7. es[q + e].key < k
        BY <1>0, <4>2, <4>6, FileKeysAscend
      <4>8. es[q + e].key >= k
        BY <2>5, <4>5
      <4> QED
        BY <2>7, <4>5, <4>7, <4>8, KeysAreOrdered
    <3>2. TableGet(f, k) = None
      BY <1>3, <1>5, <2>2, <2>5, <2>6, <2>9
    <3> QED
      BY <1>0, <3>1, <3>2, TableHasWhatIsListed DEF f
  <2> QED
    BY <2>8, <2>9
<1> QED
  BY <1>4, <1>5

\* openBlockBasedTable accepts what writeBlockBasedTable wrote.
LEMMA WrittenOpens ==
  ASSUME NEW es \in EntrySeqs, Writable(es)
  PROVE  Opens(BlockFile(es))
<1> DEFINE f == BlockFile(es)
           D == DataBlockEntries
           B == BlockCount(es)
<1>0. StrictlySorted(Keys(es)) /\ Len(es) <= MaxEntries
  BY DEF Writable
<1>1. LaidOut(es, f, D, B) /\ D \in Nat \ {0}
  BY <1>0, BlocksWritten, BlocksHaveRoom
<1> HIDE DEF f, D, B
<1>2. B \in Nat /\ B <= IndexCapacity /\ Len(f.blocks) = B /\ Len(f.index) = B
  BY <1>1 DEF LaidOut
<1>3. \A c \in 1..B : (c - 1) * D \in Nat /\ (c - 1) * D + 1 \in DOMAIN es
                      /\ f.index[c] = es[(c - 1) * D + 1].key
  BY <1>1 DEF LaidOut
<1>4. \A c \in 2..B : f.index[c - 1] < f.index[c]
  <2> SUFFICES ASSUME NEW c \in 2..B
               PROVE  f.index[c - 1] < f.index[c]
    OBVIOUS
  <2> DEFINE p == ((c - 1) - 1) * D
             q == (c - 1) * D
  <2>1. c \in 1..B /\ c - 1 \in 1..B
    BY <1>2
  <2>2. /\ p \in Nat /\ p + 1 \in DOMAIN es /\ f.index[c - 1] = es[p + 1].key
        /\ q \in Nat /\ q + 1 \in DOMAIN es /\ f.index[c] = es[q + 1].key
    BY <1>3, <2>1
  <2>3. q = p + D
    <3>1. \A x \in Int : (x - 1) * D = ((x - 1) - 1) * D + D
      BY <1>1
    <3>2. c \in Int
      BY <1>2
    <3> QED
      BY <3>1, <3>2
  <2> HIDE DEF p, q
  <2>4. p + 1 < q + 1
    BY <1>1, <2>2, <2>3
  <2> QED
    BY <1>0, <2>2, <2>4, FileKeysAscend
<1> QED
  BY <1>2, <1>4 DEF Opens, StrictlySorted, f

\* The filter of a file denies no key the file has an entry of.
LEMMA FilterNeverDenies ==
  ASSUME NEW es \in EntrySeqs, NEW p \in DOMAIN es
  PROVE  Found(Filter(es), es[p].key)
BY DEF Found, Filter

\* A table file, through its filter, answers for a key what was written of it.
THEOREM TableFileAnswersForWritten ==
  ASSUME NEW es \in EntrySeqs, Writable(es), NEW k \in Key
  PROVE  Answer(TableFile(es), k) = TableOf(es)[k]
<1>1. TableFile(es).table = BlockFile(es) /\ TableFile(es).filter = Filter(es)
  BY DEF TableFile
<1>2. Opens(BlockFile(es)) /\ TableGet(BlockFile(es), k) = TableOf(es)[k]
  BY WrittenOpens, TableGetFindsWritten
<1>3. StrictlySorted(Keys(es))
  BY DEF Writable
<1>4. TableOf(es)[k] \in Entry \cup {None}
  <2>1. \A p \in DOMAIN es : es[p] \in [key : Key, entry : Entry]
    BY SeqMember DEF EntrySeqs
  <2> QED
    BY <1>3, <2>1, TableHasWhatIsListed
<1>5. TableOf(es)[k] # ReadError
  BY <1>4, OutcomesDiffer
<1>6. CASE Found(Filter(es), k)
  BY <1>1, <1>2, <1>5, <1>6 DEF Answer
<1>7. CASE ~Found(Filter(es), k)
  <2>1. \A p \in DOMAIN es : es[p].key # k
    BY <1>7, FilterNeverDenies
  <2> QED
    BY <1>1, <1>3, <1>7, <2>1, TableHasWhatIsListed DEF Answer
<1> QED
  BY <1>6, <1>7

-----------------------------------------------------------------------------
(***************************************************************************)
(* What the MemTable hands to a flush.                                     *)
(***************************************************************************)
\* e has the entries v of the keys A, in order and each once.
ListsEntries(v, A, e) ==
  /\ e \in EntrySeqs
  /\ StrictlySorted(Keys(e))
  /\ \A p \in DOMAIN e : e[p].key \in A /\ e[p].entry = v[e[p].key]
  /\ \A k \in A : \E p \in DOMAIN e : e[p].key = k

\* Keys ascend when adjacent ones do.
LEMMA SortedByNeighbours ==
  ASSUME NEW e \in EntrySeqs
  PROVE  StrictlySorted(Keys(e)) <=> \A i \in 2..Len(e) : e[i - 1].key < e[i].key
<1>1. Len(e) \in Nat /\ DOMAIN e = 1..Len(e)
  BY DEF EntrySeqs
<1>2. Keys(e) = [i \in 1..Len(e) |-> e[i].key] /\ Len(Keys(e)) = Len(e)
  BY <1>1 DEF Keys
<1>3. \A i \in 2..Len(e) : i - 1 \in 1..Len(e) /\ i \in 1..Len(e)
  BY <1>1
<1>4. \A i \in 2..Len(e) : Keys(e)[i - 1] = e[i - 1].key /\ Keys(e)[i] = e[i].key
  BY <1>2, <1>3
<1> QED
  BY <1>2, <1>4 DEF StrictlySorted

LEMMA OneMoreInFront ==
  ASSUME NEW r, NEW R, r \in R, NEW e \in Seq(R)
  PROVE  LET t == <<r>> \o e IN
         /\ t \in Seq(R) /\ Len(t) = Len(e) + 1 /\ Len(e) \in Nat
         /\ t[1] = r /\ \A p \in 1..Len(e) : p + 1 \in 2..Len(t) /\ t[p + 1] = e[p]
         /\ \A p \in 2..Len(t) : p - 1 \in 1..Len(e) /\ t[p] = e[p - 1]
OBVIOUS

\* Putting the least key in front lists it too.
LEMMA ListingGrows ==
  ASSUME NEW v, NEW A \in SUBSET Key, NEW m \in A, \A x \in A : m <= x, v[m] \in Entry,
         NEW e, ListsEntries(v, A \ {m}, e)
  PROVE  ListsEntries(v, A, <<[key |-> m, entry |-> v[m]]>> \o e)
<1> DEFINE r == [key |-> m, entry |-> v[m]]
           t == <<r>> \o e
<1>1. e \in EntrySeqs /\ r \in [key : Key, entry : Entry]
  BY DEF ListsEntries
<1>2. /\ t \in EntrySeqs /\ Len(t) = Len(e) + 1 /\ Len(e) \in Nat
      /\ t[1] = r /\ \A p \in 1..Len(e) : p + 1 \in 2..Len(t) /\ t[p + 1] = e[p]
      /\ \A p \in 2..Len(t) : p - 1 \in 1..Len(e) /\ t[p] = e[p - 1]
  BY <1>1, OneMoreInFront DEF EntrySeqs
<1>3. DOMAIN e = 1..Len(e) /\ DOMAIN t = 1..Len(t)
  BY <1>1, <1>2 DEF EntrySeqs
<1>4. r.key = m /\ r.entry = v[m]
  OBVIOUS
<1> HIDE DEF r, t
<1>5. \A p \in DOMAIN t : t[p].key \in A /\ t[p].entry = v[t[p].key]
  <2> SUFFICES ASSUME NEW p \in DOMAIN t
               PROVE  t[p].key \in A /\ t[p].entry = v[t[p].key]
    OBVIOUS
  <2>1. CASE p = 1
    BY <1>2, <1>4, <2>1
  <2>2. CASE p # 1
    <3>1. p \in 2..Len(t)
      BY <1>2, <1>3, <2>2
    <3>2. p - 1 \in DOMAIN e /\ t[p] = e[p - 1]
      BY <1>2, <1>3, <3>1
    <3> QED
      BY <3>2 DEF ListsEntries
  <2> QED
    BY <2>1, <2>2
<1>6. \A k \in A : \E p \in DOMAIN t : t[p].key = k
  <2> SUFFICES ASSUME NEW k \in A
               PROVE  \E p \in DOMAIN t : t[p].key = k
    OBVIOUS
  <2>1. CASE k = m
    <3>1. 1 \in DOMAIN t
      BY <1>2, <1>3
    <3> QED
      BY <1>2, <1>4, <2>1, <3>1
  <2>2. CASE k # m
    <3>1. PICK p \in DOMAIN e : e[p].key = k
      BY <2>2 DEF ListsEntries
    <3>2. p + 1 \in DOMAIN t /\ t[p + 1] = e[p]
      BY <1>2, <1>3
    <3> QED
      BY <3>1, <3>2
  <2> QED
    BY <2>1, <2>2
<1>7. \A i \in 2..Len(t) : t[i - 1].key < t[i].key
  <2> SUFFICES ASSUME NEW i \in 2..Len(t)
               PROVE  t[i - 1].key < t[i].key
    OBVIOUS
  <2>1. i - 1 \in DOMAIN e /\ t[i] = e[i - 1]
    BY <1>2, <1>3
  <2>2. CASE i = 2
    <3>1. t[i - 1].key = m /\ t[i].key \in A \ {m}
      BY <1>2, <1>4, <2>1, <2>2 DEF ListsEntries
    <3>2. m \in Int /\ t[i].key \in Int /\ m <= t[i].key
      BY <3>1, KeysAreOrdered
    <3> QED
      BY <3>1, <3>2
  <2>3. CASE i # 2
    <3>1. i - 1 \in 2..Len(t) /\ i - 1 \in 2..Len(e)
      BY <1>2, <2>3
    <3>2. t[i - 1] = e[(i - 1) - 1]
      BY <1>2, <3>1
    <3>3. \A j \in 2..Len(e) : e[j - 1].key < e[j].key
      BY <1>1, SortedByNeighbours DEF ListsEntries
    <3> QED
      BY <2>1, <3>1, <3>2, <3>3
  <2> QED
    BY <2>2, <2>3
<1>8. StrictlySorted(Keys(t))
  BY <1>2, <1>7, SortedByNeighbours
<1> QED
  BY <1>2, <1>5, <1>6, <1>8 DEF ListsEntries, r, t

LEMMA OneLessInFront ==
  ASSUME NEW R, NEW e \in Seq(R), e # <<>>
  PROVE  /\ Len(e) \in Nat \ {0} /\ 1 \in DOMAIN e
         /\ Tail(e) \in Seq(R) /\ Len(Tail(e)) = Len(e) - 1
         /\ \A p \in 1..Len(Tail(e)) : p + 1 \in 2..Len(e) /\ Tail(e)[p] = e[p + 1]
         /\ \A p \in 2..Len(e) : p - 1 \in 1..Len(Tail(e)) /\ Tail(e)[p - 1] = e[p]
         /\ e = <<e[1]>> \o Tail(e)
OBVIOUS

\* What lists A begins with its least key and goes on with the others.
LEMMA ListingShrinks ==
  ASSUME NEW v, NEW A \in SUBSET Key, NEW m \in A, \A x \in A : m <= x,
         NEW e, ListsEntries(v, A, e)
  PROVE  /\ e = <<[key |-> m, entry |-> v[m]]>> \o Tail(e)
         /\ ListsEntries(v, A \ {m}, Tail(e))
<1> DEFINE t == Tail(e)
<1>1. e \in EntrySeqs /\ StrictlySorted(Keys(e)) /\ DOMAIN e = 1..Len(e)
  BY DEF ListsEntries, EntrySeqs
<1>2. PICK q \in DOMAIN e : e[q].key = m
  BY DEF ListsEntries
<1>3. e # <<>>
  BY <1>2
<1>4. /\ Len(e) \in Nat \ {0} /\ 1 \in DOMAIN e
      /\ t \in EntrySeqs /\ Len(t) = Len(e) - 1
      /\ \A p \in 1..Len(t) : p + 1 \in 2..Len(e) /\ t[p] = e[p + 1]
      /\ \A p \in 2..Len(e) : p - 1 \in 1..Len(t) /\ t[p - 1] = e[p]
      /\ e = <<e[1]>> \o t
  BY <1>1, <1>3, OneLessInFront DEF EntrySeqs
<1>5. DOMAIN t = 1..Len(t) /\ \A p \in 1..Len(e) : p \in Int
  BY <1>4 DEF EntrySeqs
<1>6. A \subseteq Int
  BY KeysAreOrdered
<1> HIDE DEF t
<1>7. e[1].key = m
  <2> SUFFICES ASSUME e[1].key # m
               PROVE  FALSE
    OBVIOUS
  <2>1. 1 < q
    BY <1>1, <1>2, <1>4
  <2>2. e[1].key < m
    BY <1>1, <1>2, <1>4, <2>1, FileKeysAscend
  <2>3. e[1].key \in A
    BY <1>4 DEF ListsEntries
  <2>4. m <= e[1].key /\ m \in Int /\ e[1].key \in Int
    BY <1>6, <2>3
  <2>5. \A x \in Int, y \in Int : x < y => ~(y <= x)
    OBVIOUS
  <2> QED
    BY <2>2, <2>4, <2>5
<1>8. e[1] = [key |-> m, entry |-> v[m]]
  <2>1. e[1] \in [key : Key, entry : Entry]
    BY <1>1, <1>4, SeqMember DEF EntrySeqs
  <2>2. e[1].entry = v[m]
    BY <1>4, <1>7 DEF ListsEntries
  <2> QED
    BY <1>7, <2>1, <2>2
<1>9. \A p \in DOMAIN t : t[p].key \in A \ {m} /\ t[p].entry = v[t[p].key]
  <2> SUFFICES ASSUME NEW p \in DOMAIN t
               PROVE  t[p].key \in A \ {m} /\ t[p].entry = v[t[p].key]
    OBVIOUS
  <2>1. p + 1 \in DOMAIN e /\ t[p] = e[p + 1] /\ 1 < p + 1
    BY <1>1, <1>4, <1>5
  <2>2. e[1].key < e[p + 1].key
    BY <1>1, <1>4, <2>1, FileKeysAscend
  <2>3. e[p + 1].key \in A /\ e[p + 1].entry = v[e[p + 1].key]
    BY <2>1 DEF ListsEntries
  <2> QED
    BY <1>6, <1>7, <2>1, <2>2, <2>3
<1>10. \A k \in A \ {m} : \E p \in DOMAIN t : t[p].key = k
  <2> SUFFICES ASSUME NEW k \in A \ {m}
               PROVE  \E p \in DOMAIN t : t[p].key = k
    OBVIOUS
  <2>1. PICK p \in DOMAIN e : e[p].key = k
    BY DEF ListsEntries
  <2>2. p \in 2..Len(e)
    BY <1>1, <1>4, <1>7, <2>1
  <2> QED
    BY <1>4, <1>5, <2>1, <2>2
<1>11. \A i \in 2..Len(t) : t[i - 1].key < t[i].key
  <2> SUFFICES ASSUME NEW i \in 2..Len(t)
               PROVE  t[i - 1].key < t[i].key
    OBVIOUS
  <2>1. i \in 1..Len(t) /\ i - 1 \in 1..Len(t) /\ (i - 1) + 1 = i /\ i < i + 1
    BY <1>4
  <2>2. t[i] = e[i + 1] /\ t[i - 1] = e[(i - 1) + 1] /\ i + 1 \in 2..Len(e)
        /\ (i - 1) + 1 \in 2..Len(e)
    BY <1>4, <2>1
  <2>3. t[i - 1] = e[i] /\ i \in DOMAIN e /\ i + 1 \in DOMAIN e
    BY <1>1, <2>1, <2>2
  <2> QED
    BY <1>1, <2>1, <2>2, <2>3, FileKeysAscend
<1> QED
  BY <1>4, <1>8, <1>9, <1>10, <1>11, SortedByNeighbours DEF ListsEntries, t

LEMMA ListingOfNothing ==
  ASSUME NEW v, NEW e
  PROVE  ListsEntries(v, {}, e) <=> e = <<>>
<1>1. ListsEntries(v, {}, e) => e = <<>>
  <2> SUFFICES ASSUME ListsEntries(v, {}, e)
               PROVE  e = <<>>
    OBVIOUS
  <2>1. e \in EntrySeqs /\ \A p \in DOMAIN e : FALSE
    BY DEF ListsEntries
  <2>2. DOMAIN e = 1..Len(e) /\ Len(e) \in Nat
    BY <2>1 DEF EntrySeqs
  <2>3. Len(e) = 0
    BY <2>1, <2>2
  <2> QED
    BY <2>1, <2>3 DEF EntrySeqs
<1>2. <<>> \in EntrySeqs /\ DOMAIN <<>> = {} /\ Len(<<>>) = 0
  BY DEF EntrySeqs
<1>3. StrictlySorted(Keys(<<>>))
  BY <1>2, SortedByNeighbours
<1> QED
  BY <1>1, <1>2, <1>3 DEF ListsEntries

\* The entries of any keys are listed in one way.
LEMMA OneListing ==
  ASSUME NEW v, NEW A \in SUBSET Key, \A k \in A : v[k] \in Entry
  PROVE  \E e : ListsEntries(v, A, e) /\ \A f : ListsEntries(v, A, f) => f = e
<1> DEFINE Once(S) == \E e : ListsEntries(v, S, e) /\ \A f : ListsEntries(v, S, f) => f = e
           bad == {n \in Nat : \E S \in SUBSET A : Cardinality(S) = n /\ ~Once(S)}
<1>1. \A S \in SUBSET A : IsFiniteSet(S) /\ S \in SUBSET Key /\ S \subseteq Int
  BY KeysAreOrdered, FS_Subset
<1>2. \A S \in SUBSET A : Cardinality(S) \in Nat
  BY <1>1, FS_CardinalityType
<1>3. bad = {}
  <2> SUFFICES ASSUME bad # {}
               PROVE  FALSE
    OBVIOUS
  <2>1. PICK n \in bad : \A i \in bad : n <= i
    BY LeastNatural
  <2>2. PICK S \in SUBSET A : Cardinality(S) = n /\ ~Once(S)
    OBVIOUS
  <2>3. S # {}
    <3>1. Once({})
      BY ListingOfNothing
    <3> QED
      BY <2>2, <3>1
  <2> DEFINE m == Min(S)
             T == S \ {m}
  <2>4. m \in S /\ \A x \in S : m <= x
    BY <1>1, <2>3, MinIsLeast
  <2>5. T \in SUBSET A /\ v[m] \in Entry /\ S \in SUBSET Key
    BY <1>1, <2>4
  <2>6. Cardinality(T) = n - 1 /\ n \in Nat
    BY <1>1, <2>2, <2>4, FS_RemoveElement, ZenonT(60)
  <2> HIDE DEF m
  <2>7. Once(T)
    <3>1. Cardinality(T) \in Nat
      BY <1>2, <2>5
    <3>2. Cardinality(T) \notin bad
      <4> HIDE DEF bad
      <4>1. ~(n <= n - 1)
        BY <2>6
      <4> QED
        BY <2>1, <2>6, <4>1
    <3> QED
      BY <2>5, <3>1, <3>2
  <2>8. PICK e : ListsEntries(v, T, e) /\ \A f : ListsEntries(v, T, f) => f = e
    BY <2>7
  <2>9. ListsEntries(v, S, <<[key |-> m, entry |-> v[m]]>> \o e)
    BY <2>4, <2>5, <2>8, ListingGrows
  <2>10. ASSUME NEW f, ListsEntries(v, S, f)
         PROVE  f = <<[key |-> m, entry |-> v[m]]>> \o e
    <3>1. f = <<[key |-> m, entry |-> v[m]]>> \o Tail(f) /\ ListsEntries(v, T, Tail(f))
      BY <2>4, <2>5, <2>10, ListingShrinks
    <3> QED
      BY <2>8, <3>1
  <2> QED
    BY <2>2, <2>9, <2>10
<1>4. Once(A)
  BY <1>2, <1>3
<1> QED
  BY <1>4

LEMMA ListingLength ==
  ASSUME NEW v, NEW A \in SUBSET Key, NEW e, ListsEntries(v, A, e)
  PROVE  Len(e) = Cardinality(A)
<1> DEFINE f == [p \in DOMAIN e |-> e[p].key]
<1>1. e \in EntrySeqs /\ StrictlySorted(Keys(e)) /\ DOMAIN e = 1..Len(e) /\ Len(e) \in Nat
  BY DEF ListsEntries, EntrySeqs
<1>2. \A p \in DOMAIN e : f[p] \in A
  BY DEF ListsEntries
<1>3. \A p, q \in DOMAIN e : p # q => f[p] # f[q]
  <2> SUFFICES ASSUME NEW p \in DOMAIN e, NEW q \in DOMAIN e, p < q, e[p].key = e[q].key
               PROVE  FALSE
    BY <1>1
  <2>1. e[p].key < e[q].key
    BY <1>1, FileKeysAscend
  <2>2. e[p].key \in Int
    BY <1>2, KeysAreOrdered
  <2> QED
    BY <2>1, <2>2
<1>4. \A k \in A : \E p \in DOMAIN e : f[p] = k
  BY DEF ListsEntries
<1>5. f \in [1..Len(e) -> A]
  BY <1>1, <1>2
<1> HIDE DEF f
<1>6. f \in Bijection(1..Len(e), A)
  BY <1>1, <1>3, <1>4, <1>5 DEF Bijection, Injection, Surjection, IsInjective
<1>7. ExistsBijection(1..Len(e), A)
  BY <1>6 DEF ExistsBijection
<1>8. IsFiniteSet(1..Len(e)) /\ Cardinality(1..Len(e)) = Len(e)
  <2> SUFFICES ASSUME NEW n \in Nat
               PROVE  IsFiniteSet(1..n) /\ Cardinality(1..n) = n
    BY <1>1
  <2>1. /\ IsFiniteSet(1..n)
        /\ Cardinality(1..n) = IF 1 > n THEN 0 ELSE n - 1 + 1
    BY FS_Interval
  <2>2. (IF 1 > n THEN 0 ELSE n - 1 + 1) = n
    OBVIOUS
  <2> QED
    BY <2>1, <2>2
<1> QED
  BY <1>7, <1>8, FS_Bijection

\* The keys after node n of the bottom list.
After(s, n) == {k \in Linked(s, 1) : n = HeadNode \/ k > n}

\* What was never added has no node, and a node an entry.
Tidy(s) ==
  \A k \in Key :
    IF k \in Linked(s, 1) THEN s.value[k] \in Entry
    ELSE s.value[k] = None /\ s.next[1][k] = Nil

\* The node after n, and what is after that.
LEMMA AfterTheNext ==
  ASSUME NEW s \in SkipLists, TowersSound(s), NEW n \in Linked(s, 1) \cup {HeadNode}
  PROVE  LET d == s.next[1][n] IN
         /\ d = Nil => After(s, n) = {}
         /\ d # Nil => /\ d \in After(s, n) /\ \A x \in After(s, n) : d <= x
                       /\ After(s, d) = After(s, n) \ {d}
<1> DEFINE d == s.next[1][n]
           on == Linked(s, 1)
<1>1. on \subseteq Int /\ HeadNode \notin on /\ 1 \in 1..MaxLevels
  <2>1. on \subseteq Key
    BY DEF Linked
  <2>2. HeadNode \notin Key
    BY HeadAndNilAreNoKeys
  <2>3. 1 \in 1..MaxLevels
    BY SomeLevel
  <2> HIDE DEF on
  <2>4. on \subseteq Int /\ HeadNode \notin on
    BY <2>1, <2>2, KeysAreOrdered
  <2> QED
    BY <2>3, <2>4
<1>2. /\ d = Nil => n # HeadNode \/ on = {}
      /\ d = Nil => \A j \in on : n # HeadNode => j <= n
      /\ d # Nil => /\ d \in on
                    /\ n = HeadNode \/ n < d
                    /\ \A j \in on : n = HeadNode \/ n < j => d <= j
  BY <1>1, NextIsLeastAfter
<1> HIDE DEF d, on
<1>3. After(s, n) = {k \in on : n = HeadNode \/ k > n} /\ (n # HeadNode => n \in Int)
  BY <1>1 DEF After, on
<1>4. CASE d = Nil
  <2>1. \A j \in on : ~(n = HeadNode \/ j > n)
    BY <1>1, <1>2, <1>3, <1>4
  <2>2. After(s, n) = {}
    BY <1>3, <2>1
  <2> QED
    BY <1>4, <2>2 DEF d
<1>5. CASE d # Nil
  <2>1. d \in Int /\ d # HeadNode /\ d \in on
    BY <1>1, <1>2, <1>5
  <2>2. After(s, d) = {k \in on : k > d}
    BY <2>1 DEF After, on
  <2>3. d \in After(s, n) /\ \A x \in After(s, n) : d <= x
    BY <1>1, <1>2, <1>3, <1>5, <2>1
  <2>4. ASSUME NEW x \in on
        PROVE  x > d <=> x \in After(s, n) /\ x # d
    <3>1. x \in Int
      BY <1>1
    <3>2. x > d => x # d /\ x \in After(s, n)
      BY <1>2, <1>3, <1>5, <2>1, <3>1
    <3>3. x # d /\ x \in After(s, n) => x > d
      BY <2>1, <2>3, <3>1
    <3> QED
      BY <3>2, <3>3
  <2>5. After(s, n) \subseteq on
    BY <1>3
  <2> QED
    BY <2>2, <2>3, <2>4, <2>5, <1>5 DEF d
<1> QED
  BY <1>4, <1>5

\* entries lists what the list has.
LEMMA EntriesListed ==
  ASSUME NEW s \in SkipLists, TowersSound(s), Tidy(s)
  PROVE  ListsEntries(s.value, Linked(s, 1), Entries(s))
<1> DEFINE v == s.value
           m == s.next[1]
           on == Linked(s, 1)
           r(k) == [key |-> k, entry |-> s.value[k]]
           F(f) == [n \in Node |-> LET d == s.next[1][n] IN
                      IF d = Nil THEN <<>> ELSE <<[key |-> d, entry |-> s.value[d]]>> \o f[d]]
           from == CHOOSE f : f = F(f)
           g == [n \in Node |-> IF n \in on \cup {HeadNode}
                                THEN CHOOSE e : ListsEntries(v, After(s, n), e) ELSE <<>>]
<1>1. Entries(s) = from[HeadNode]
  BY DEF Entries
<1>2. /\ on \subseteq Key /\ on \subseteq Int /\ IsFiniteSet(on) /\ HeadNode \in Node
      /\ Key \subseteq Node /\ HeadNode \notin Key /\ \A n \in Node : n # HeadNode => n \in Key
  BY KeysAreOrdered, HeadAndNilAreNoKeys, FS_Subset DEF Linked, Node
<1>3. \A n : After(s, n) \subseteq on
  BY DEF After
<1>4. \A k \in on : v[k] \in Entry
  BY <1>2 DEF Tidy
<1>5. \A n \in Node : n \notin on \cup {HeadNode} => m[n] = Nil
  BY <1>2 DEF Tidy
<1>6. ASSUME NEW n \in on \cup {HeadNode}
      PROVE  /\ m[n] = Nil => After(s, n) = {}
             /\ m[n] # Nil => /\ m[n] \in After(s, n) /\ \A x \in After(s, n) : m[n] <= x
                              /\ After(s, m[n]) = After(s, n) \ {m[n]}
                              /\ m[n] \in on
  BY <1>3, AfterTheNext
<1>7. ASSUME NEW n \in on \cup {HeadNode}
      PROVE  /\ ListsEntries(v, After(s, n), g[n])
             /\ \A f : ListsEntries(v, After(s, n), f) => f = g[n]
  <2>1. After(s, n) \in SUBSET Key /\ \A k \in After(s, n) : v[k] \in Entry
    BY <1>2, <1>3, <1>4
  <2> HIDE DEF v
  <2>2. PICK e : /\ ListsEntries(v, After(s, n), e)
                 /\ \A f : ListsEntries(v, After(s, n), f) => f = e
    BY <2>1, OneListing
  <2>3. g[n] = CHOOSE f : ListsEntries(v, After(s, n), f)
    BY <1>2
  <2> HIDE DEF g
  <2> QED
    BY <2>2, <2>3
<1> HIDE DEF g, v, m, on
<1>8. ASSUME NEW n \in Node
      PROVE  g[n] = IF m[n] = Nil THEN <<>> ELSE <<[key |-> m[n], entry |-> v[m[n]]]>> \o g[m[n]]
  <2>1. CASE n \in on \cup {HeadNode} /\ m[n] = Nil
    <3>1. ListsEntries(v, {}, g[n])
      BY <1>6, <1>7, <2>1
    <3>2. g[n] = <<>>
      BY <3>1, ListingOfNothing
    <3> QED
      BY <2>1, <3>2
  <2>2. CASE n \in on \cup {HeadNode} /\ m[n] # Nil
    <3> DEFINE d == m[n]
    <3>1. /\ d \in After(s, n) /\ \A x \in After(s, n) : d <= x
          /\ After(s, d) = After(s, n) \ {d} /\ d \in on
      BY <1>6, <2>2
    <3>2. ListsEntries(v, After(s, n) \ {d}, g[d]) /\ v[d] \in Entry
      BY <1>4, <1>7, <3>1
    <3>3. After(s, n) \in SUBSET Key
      BY <1>2, <1>3
    <3> HIDE DEF d
    <3>4. ListsEntries(v, After(s, n), <<[key |-> d, entry |-> v[d]]>> \o g[d])
      BY <3>1, <3>2, <3>3, ListingGrows
    <3> QED
      BY <1>7, <2>2, <3>4 DEF d
  <2>3. CASE n \notin on \cup {HeadNode}
    <3>1. g[n] = <<>>
      BY <2>3 DEF g
    <3> QED
      BY <1>5, <2>3, <3>1
  <2> QED
    BY <2>1, <2>2, <2>3
<1>9. g = F(g)
  <2>1. g = [n \in Node |-> g[n]]
    BY DEF g
  <2>2. F(g) = [n \in Node |-> IF m[n] = Nil THEN <<>>
                               ELSE <<[key |-> m[n], entry |-> v[m[n]]]>> \o g[m[n]]]
    BY DEF m, v
  <2> HIDE DEF F
  <2> QED
    BY <1>8, <2>1, <2>2
<1>10. from = F(from)
  <2> HIDE DEF F
  <2> QED
    BY <1>9
<1>11. \A n \in Node : from[n] = IF m[n] = Nil THEN <<>>
                                 ELSE <<[key |-> m[n], entry |-> v[m[n]]]>> \o from[m[n]]
  <2> HIDE DEF from
  <2> QED
    BY <1>10 DEF m, v
<1> HIDE DEF from, F
<1>12. ASSUME NEW n \in on \cup {HeadNode},
              m[n] # Nil => ListsEntries(v, After(s, m[n]), from[m[n]])
       PROVE  ListsEntries(v, After(s, n), from[n])
  <2>0. n \in Node
    BY <1>2
  <2>1. CASE m[n] = Nil
    BY <1>6, <1>11, <2>0, <2>1, ListingOfNothing
  <2>2. CASE m[n] # Nil
    <3> DEFINE d == m[n]
    <3>1. /\ d \in After(s, n) /\ \A x \in After(s, n) : d <= x
          /\ After(s, d) = After(s, n) \ {d} /\ d \in on
      BY <1>6, <2>2
    <3>2. ListsEntries(v, After(s, n) \ {d}, from[d]) /\ v[d] \in Entry
      BY <1>4, <1>12, <2>2, <3>1
    <3>3. After(s, n) \in SUBSET Key
      BY <1>2, <1>3
    <3>5. from[n] = <<[key |-> d, entry |-> v[d]]>> \o from[d]
      BY <1>11, <2>0, <2>2
    <3> HIDE DEF d
    <3>4. ListsEntries(v, After(s, n), <<[key |-> d, entry |-> v[d]]>> \o from[d])
      BY <3>1, <3>2, <3>3, ListingGrows
    <3> QED
      BY <3>4, <3>5
  <2> QED
    BY <2>1, <2>2
<1>13. \A n \in on : ListsEntries(v, After(s, n), from[n])
  <2> DEFINE bad == {n \in on : ~ListsEntries(v, After(s, n), from[n])}
  <2> SUFFICES ASSUME bad # {}
               PROVE  FALSE
    OBVIOUS
  <2>1. bad \in SUBSET Int /\ IsFiniteSet(bad)
    BY <1>2, FS_Subset
  <2> DEFINE b == Max(bad)
  <2>2. b \in bad /\ \A x \in bad : x <= b
    BY <2>1, MaxIsGreatest
  <2> HIDE DEF b
  <2>3. b \in on /\ ~ListsEntries(v, After(s, b), from[b]) /\ b # HeadNode /\ b \in Int
    BY <1>2, <2>2
  <2>4. m[b] # Nil /\ m[b] \notin bad /\ ~ListsEntries(v, After(s, m[b]), from[m[b]])
    <3>1. m[b] # Nil /\ ~ListsEntries(v, After(s, m[b]), from[m[b]])
      BY <1>12, <2>3
    <3>2. m[b] \in After(s, b)
      BY <1>6, <2>3, <3>1
    <3>3. m[b] > b /\ m[b] \in on
      BY <2>3, <3>2 DEF After, on
    <3>4. m[b] \in Int /\ ~(m[b] <= b)
      <4>1. m[b] \in Int /\ b \in Int
        BY <1>2, <2>3, <3>3
      <4>2. \A x \in Int, y \in Int : x > y => ~(x <= y)
        OBVIOUS
      <4> QED
        BY <3>3, <4>1, <4>2
    <3>5. m[b] \notin bad
      BY <2>2, <3>4
    <3> QED
      BY <3>1, <3>5
  <2>5. m[b] \in on
    BY <1>6, <2>3, <2>4
  <2> QED
    BY <2>4, <2>5
<1>14. ListsEntries(v, After(s, HeadNode), from[HeadNode])
  BY <1>6, <1>12, <1>13
<1>15. After(s, HeadNode) = on
  BY DEF After, on
<1> QED
  BY <1>1, <1>14, <1>15 DEF v, on

\* entries gives the flush the map of the MemTable, in the order of its keys.
THEOREM EntriesAreTheMap ==
  ASSUME NEW s \in SkipLists, TowersSound(s), Tidy(s)
  PROVE  /\ Entries(s) \in EntrySeqs
         /\ StrictlySorted(Keys(Entries(s)))
         /\ Len(Entries(s)) = s.size
         /\ \A k \in Key : TableOf(Entries(s))[k] = ListGet(s, k)
<1> DEFINE e == Entries(s)
           on == Linked(s, 1)
<1>1. ListsEntries(s.value, on, e)
  BY EntriesListed
<1>2. on \in SUBSET Key
  BY DEF Linked
<1> HIDE DEF e
<1>3. e \in EntrySeqs /\ StrictlySorted(Keys(e))
  BY <1>1 DEF ListsEntries
<1>4. Len(e) = s.size
  BY <1>1, <1>2, ListingLength DEF TowersSound
<1>5. ASSUME NEW k \in Key
      PROVE  TableOf(e)[k] = ListGet(s, k)
  <2>1. ListGet(s, k) = IF k \in on THEN s.value[k] ELSE None
    BY GetIsLookup
  <2> HIDE DEF on
  <2>2. CASE k \in on
    <3>1. PICK p \in DOMAIN e : e[p].key = k
      BY <1>1, <2>2 DEF ListsEntries
    <3>2. e[p].entry = s.value[k]
      BY <1>1, <3>1 DEF ListsEntries
    <3> QED
      BY <1>3, <2>1, <2>2, <3>1, <3>2, TableHasWhatIsListed
  <2>3. CASE k \notin on
    <3>1. \A p \in DOMAIN e : e[p].key # k
      BY <1>1, <2>3 DEF ListsEntries
    <3> QED
      BY <1>3, <2>1, <2>3, <3>1, TableHasWhatIsListed
  <2> QED
    BY <2>2, <2>3
<1> QED
  BY <1>3, <1>4, <1>5 DEF e

\* A new key keeps the rest tidy.
LEMMA AddKeepsTidy ==
  ASSUME NEW s \in SkipLists, TowersSound(s), Tidy(s), NEW k \in Key, NEW e \in Entry,
         NEW height \in 1..MaxLevels
  PROVE  Tidy(Add(s, k, e, height))
<1> DEFINE t == Add(s, k, e, height)
<1>1. /\ Linked(t, 1) = Linked(s, 1) \cup {k}
      /\ t.value = [s.value EXCEPT ![k] = e]
  BY AddKeepsTowers
<1>2. s.value \in Table /\ s.next \in [1..MaxLevels -> [Node -> Key \cup {Nil}]]
      /\ 1 \in 1..MaxLevels /\ Key \subseteq Node
  <2>1. 1 \in 1..MaxLevels
    BY SomeLevel
  <2> QED
    BY <2>1 DEF SkipLists, Node
<1>3. \A j \in Key : t.value[j] = IF j = k THEN e ELSE s.value[j]
  BY <1>1, <1>2 DEF Table
<1>4. ASSUME NEW j \in Key, j \notin Linked(t, 1)
      PROVE  t.next[1][j] = s.next[1][j]
  <2>1. CASE k \in Linked(s, 1)
    <3>1. t = [s EXCEPT !.value[k] = e]
      BY <2>1, AddPresent
    <3> QED
      BY <3>1 DEF SkipLists
  <2>2. CASE k \notin Linked(s, 1)
    <3>1. t = [next |-> [i \in 1..MaxLevels |->
                           IF i > height THEN s.next[i] ELSE Tower(s, k, i)],
               value |-> [s.value EXCEPT ![k] = e],
               levels |-> IF height > s.levels THEN height ELSE s.levels,
               size |-> s.size + 1]
      BY <2>2, AddAbsent
    <3>2. t.next[1] = Tower(s, k, 1)
      BY <1>2, <3>1
    <3>3. Pred(s, 1, k) \in Linked(s, 1) \cup {HeadNode} /\ HeadNode \notin Key
      BY <1>2, PredIsLastBefore, HeadAndNilAreNoKeys
    <3>4. j # k /\ j # Pred(s, 1, k) /\ j \in Node
      BY <1>1, <1>2, <1>4, <3>3
    <3>5. Tower(s, k, 1)[j] = s.next[1][j]
      BY <1>2, <3>4 DEF Tower
    <3> QED
      BY <3>2, <3>5
  <2> QED
    BY <2>1, <2>2
<1> HIDE DEF t
<1> QED
  BY <1>1, <1>3, <1>4 DEF Tidy, t

-----------------------------------------------------------------------------
(***************************************************************************)
(* The MemTable of the engine, and its flush.                              *)
(***************************************************************************)
\* Its towers are sound, and it has the entries last written.
MemTableInv ==
  /\ list \in SkipLists
  /\ TowersSound(list)
  /\ Tidy(list)
  /\ \A k \in Linked(list, 1) : list.value[k] = kv[k]
  /\ kv \in Table

LEMMA NewListTidy == Tidy(NewSkipList)
<1>1. 1 \in 1..MaxLevels
  BY SomeLevel
<1>2. Key \subseteq Node
  BY DEF Node
<1>3. Linked(NewSkipList, 1) = {}
  BY <1>1, NewListSound
<1> QED
  BY <1>1, <1>2, <1>3 DEF Tidy, NewSkipList, EmptyTable

LEMMA InitMemTable == Init => MemTableInv
<1>1. 1 \in 1..MaxLevels
  BY SomeLevel
<1> QED
  BY <1>1, NewListSound, NewListTidy DEF Init, MemTableInv, Table, EmptyTable

LEMMA PutKeepsMemTable ==
  ASSUME MemTableInv, NEW w \in [key : Key, entry : Entry], NEW height \in 1..MaxLevels,
         Put(w, height)
  PROVE  MemTableInv'
<1>1. w.key \in Key /\ w.entry \in Entry
  OBVIOUS
<1>2. list' = Add(list, w.key, w.entry, height) /\ kv' = [kv EXCEPT ![w.key] = w.entry]
  BY DEF Put
<1>3. /\ list' \in SkipLists /\ TowersSound(list')
      /\ Linked(list', 1) = Linked(list, 1) \cup {w.key}
      /\ list'.value = [list.value EXCEPT ![w.key] = w.entry]
  BY <1>1, <1>2, AddKeepsTowers DEF MemTableInv
<1>4. kv' \in Table /\ Tidy(list')
  BY <1>1, <1>2, AddKeepsTidy DEF MemTableInv, Table
<1>5. \A k \in Linked(list', 1) : list'.value[k] = kv'[k]
  <2> SUFFICES ASSUME NEW k \in Linked(list', 1)
               PROVE  list'.value[k] = kv'[k]
    OBVIOUS
  <2>1. k \in Key /\ (k = w.key \/ k \in Linked(list, 1))
    BY <1>3 DEF Linked
  <2> QED
    BY <1>2, <1>3, <2>1 DEF MemTableInv, SkipLists, Table
<1> QED
  BY <1>3, <1>4, <1>5 DEF MemTableInv

LEMMA StepKeepsMemTable == MemTableInv /\ [Next]_vars => MemTableInv'
<1> SUFFICES ASSUME MemTableInv, [Next]_vars
             PROVE  MemTableInv'
  OBVIOUS
<1>1. CASE \E w \in Workload[flushes + 1], height \in 1..MaxLevels :
             flushes + 1 \in DOMAIN Workload /\ Put(w, height)
  BY <1>1, PutKeepsMemTable, WorkloadIsWrites
<1>2. CASE Flush
  <2>1. list' = NewSkipList /\ kv' = kv
    BY <1>2 DEF Flush
  <2>2. 1 \in 1..MaxLevels
    BY SomeLevel
  <2> QED
    BY <2>1, <2>2, NewListSound, NewListTidy DEF MemTableInv
<1>3. CASE Merge
  <2>1. StartMerge => UNCHANGED <<list, kv>>
    BY Zenon DEF StartMerge
  <2>2. StartFails \/ MergeFails => UNCHANGED <<list, kv>>
    BY Zenon DEF StartFails, MergeFails, Abort
  <2>3. MergeEntry => UNCHANGED <<list, kv>>
    BY Zenon DEF MergeEntry
  <2>4. FinishMerge => UNCHANGED <<list, kv>>
    BY Zenon DEF FinishMerge
  <2>9. UNCHANGED <<list, kv>>
    BY <1>3, <2>1, <2>2, <2>3, <2>4, Zenon DEF Merge
  <2> QED
    BY <2>9 DEF MemTableInv
<1>4. CASE Damage \/ Reopen
  <2>1. UNCHANGED <<list, kv>>
    BY <1>4, Zenon DEF Damage, Reopen
  <2> QED
    BY <2>1 DEF MemTableInv
<1>5. CASE UNCHANGED vars
  BY <1>5 DEF vars, MemTableInv
<1> QED
  BY <1>1, <1>2, <1>3, <1>4, <1>5 DEF Next

\* Through every Put, Delete and flush, whatever heights generateLevel draws, the
\* towers of the MemTable stay sound.
THEOREM MemTableTowersSound == Spec => []SkipListSound
<1>1. MemTableInv => SkipListSound
  BY DEF MemTableInv, SkipListSound
<1> QED
  BY <1>1, InitMemTable, StepKeepsMemTable, PTL DEF Spec

\* What Get finds in the MemTable is the entry last written.
THEOREM MemTableIsCurrent ==
  Spec => [](\A k \in Key : ListGet(list, k) # None => ListGet(list, k) = kv[k])
<1>1. MemTableInv => \A k \in Key : ListGet(list, k) # None => ListGet(list, k) = kv[k]
  BY GetIsLookup DEF MemTableInv
<1> QED
  BY <1>1, InitMemTable, StepKeepsMemTable, PTL DEF Spec

\* The tables of both levels are filed by their numbers.
FilesShape == DOMAIN files = 0..1 /\ \A l \in 0..1 : DOMAIN files[l] = Idx

LEMMA StepKeepsFilesShape == FilesShape /\ [Next]_vars => FilesShape'
<1> SUFFICES ASSUME FilesShape, [Next]_vars
             PROVE  FilesShape'
  OBVIOUS
<1> USE DEF FilesShape
<1>1. ASSUME NEW l, NEW i, NEW entries, WriteFile(l, i, entries)
      PROVE  FilesShape'
  BY <1>1 DEF WriteFile
<1>2. ASSUME Abort
      PROVE  FilesShape'
  BY <1>2 DEF Abort
<1>3. CASE Flush
  BY <1>1, <1>3 DEF Flush
<1>4. CASE MergeEntry
  BY <1>1, <1>4 DEF MergeEntry, WriteChunk
<1>5. CASE StartFails \/ MergeFails
  BY <1>2, <1>5 DEF StartFails, MergeFails
<1>6. CASE FinishMerge
  BY <1>6 DEF FinishMerge
<1>7. CASE Damage
  <2> DEFINE Hurt(p, t) == [files EXCEPT ![p[1]][p[2]].table = t]
  <2>1. \A p, t : DOMAIN Hurt(p, t) = 0..1 /\ \A l \in 0..1 : DOMAIN Hurt(p, t)[l] = Idx
    OBVIOUS
  <2>2. \E k \in Key :
          LET p == Places(k)[Hit(k)]
              file == files[p[1]][p[2]].table
              b == CHOOSE j \in DOMAIN file.blocks :
                     \E i \in DOMAIN file.blocks[j].slots : file.blocks[j].slots[i].key = k
              bad == [file EXCEPT !.blocks[b].slots[1].slot = Garbage]
              short == [file EXCEPT !.blocks = Front(@)]
          IN  files' = Hurt(p, bad) \/ files' = Hurt(p, short)
    BY <1>7, ZenonT(60) DEF Damage
  <2>3. \E p, t : files' = Hurt(p, t)
    BY <2>2, ZenonT(60)
  <2> HIDE DEF Hurt
  <2> QED
    BY <2>1, <2>3
<1>8. CASE StartMerge \/ Reopen \/ UNCHANGED vars
  BY <1>8 DEF StartMerge, Reopen, vars
<1>9. CASE \E w \in Workload[flushes + 1], height \in 1..MaxLevels : Put(w, height)
  BY <1>9 DEF Put
<1> QED
  BY <1>3, <1>4, <1>5, <1>6, <1>7, <1>8, <1>9 DEF Next, Merge

\* A full MemTable fits a table file: writeBlockBasedTable refuses it for nothing
\* but a key or a value it cannot store.
THEOREM FullMemTableFits ==
  Spec => [](list.size = FLUSH_THRESHOLD /\ Storable(TableOf(Entries(list)))
               => Writable(Entries(list)))
<1>1. MemTableInv /\ list.size = FLUSH_THRESHOLD /\ Storable(TableOf(Entries(list)))
        => Writable(Entries(list))
  <2> SUFFICES ASSUME MemTableInv, list.size = FLUSH_THRESHOLD,
                      Storable(TableOf(Entries(list)))
               PROVE  Writable(Entries(list))
    OBVIOUS
  <2>1. StrictlySorted(Keys(Entries(list))) /\ Len(Entries(list)) = FLUSH_THRESHOLD
    BY EntriesAreTheMap DEF MemTableInv
  <2>2. FLUSH_THRESHOLD \in 1..MaxEntries
    BY ThresholdsFitTables
  <2>3. Len(Entries(list)) <= MaxEntries
    BY <2>1, <2>2
  <2> QED
    BY <2>1, <2>3 DEF Writable
<1> QED
  BY <1>1, InitMemTable, StepKeepsMemTable, PTL DEF Spec

\* The file a flush writes answers for every key as the MemTable did, through
\* its filter, its index and its blocks: the flush loses, adds and changes nothing.
THEOREM FlushLosesNothing ==
  Spec => [][Flush => LET idx == NextIndex(Numbers(TablesOf(levels, 0)))
                      IN  \A k \in Key : Answer(files'[0][idx], k) = ListGet(list, k)]_vars
<1> DEFINE Keeps == Flush => LET idx == NextIndex(Numbers(TablesOf(levels, 0)))
                             IN  \A k \in Key : Answer(files'[0][idx], k) = ListGet(list, k)
<1>1. MemTableInv /\ FilesShape => Keeps
  <2> SUFFICES ASSUME MemTableInv, FilesShape, Flush,
                      NEW idx, idx = NextIndex(Numbers(TablesOf(levels, 0))),
                      NEW k \in Key
               PROVE  Answer(files'[0][idx], k) = ListGet(list, k)
    OBVIOUS
  <2> DEFINE e == Entries(list)
  <2>1. idx \in Idx /\ Writable(e) /\ WriteFile(0, idx, e)
    BY DEF Flush
  <2>2. e \in EntrySeqs /\ TableOf(e)[k] = ListGet(list, k)
    BY EntriesAreTheMap DEF MemTableInv
  <2> HIDE DEF e
  <2>3. files'[0][idx] = TableFile(e)
    <3>1. files' = [files EXCEPT ![0][idx] = TableFile(e)]
      BY <2>1 DEF WriteFile
    <3>2. 0 \in DOMAIN files /\ idx \in DOMAIN files[0]
      BY <2>1 DEF FilesShape
    <3> QED
      BY <3>1, <3>2
  <2> QED
    BY <2>1, <2>2, <2>3, TableFileAnswersForWritten
<1>2. Init => FilesShape
  BY DEF Init, FilesShape
<1> QED
  BY <1>1, <1>2, InitMemTable, StepKeepsMemTable, StepKeepsFilesShape, PTL DEF Spec

-----------------------------------------------------------------------------
(***************************************************************************)
(* The manifest.                                                           *)
(***************************************************************************)
\* Tables whose ranges are in Rs.
AnyTable(Rs) == [idx : Idx, range : Rs]
AnyLevel(Rs) == [level : 0..1, tables : Seq(AnyTable(Rs))]

\* Level 0 has no ranges; no level is there before its first table.
LevelsShape(lv) ==
  \/ lv = <<>>
  \/ \E t0 \in Seq(AnyTable({NoRange})) : lv = <<[level |-> 0, tables |-> t0]>>
  \/ \E Rs : \E t0 \in Seq(AnyTable({NoRange})), t1 \in Seq(AnyTable(Rs)) :
       lv = <<[level |-> 0, tables |-> t0], [level |-> 1, tables |-> t1]>>

\* The lines of one level.
LinesOf(lv) ==
  <<Header(lv.level)>>
    \o [j \in DOMAIN lv.tables |-> TableLine(lv.level, lv.tables[j])]
    \o <<Blank>>

LEMMA LineOfLevel ==
  ASSUME NEW Rs, NEW x \in AnyLevel(Rs)
  PROVE  LET n == Len(x.tables)  p == LinesOf(x) IN
         /\ n \in Nat /\ Len(p) = n + 2 /\ DOMAIN p = 1..n + 2
         /\ p[1] = Header(x.level) /\ p[n + 2] = Blank
         /\ \A j \in 1..n : p[j + 1] = TableLine(x.level, x.tables[j])
         /\ \E L : p \in Seq(L)
<1> DEFINE n == Len(x.tables)
           ts == [j \in DOMAIN x.tables |-> TableLine(x.level, x.tables[j])]
           L == {Header(x.level), Blank} \cup {ts[j] : j \in DOMAIN ts}
<1>1. x.tables \in Seq(AnyTable(Rs)) /\ n \in Nat /\ DOMAIN x.tables = 1..n
  BY DEF AnyLevel
<1>2. ts \in Seq(L) /\ Len(ts) = n
  <2>1. ts = [j \in 1..n |-> ts[j]] /\ \A j \in 1..n : ts[j] \in L
    BY <1>1
  <2> HIDE DEF ts, L, n
  <2> QED
    BY <1>1, <2>1
<1>3. \A j \in 1..n : ts[j] = TableLine(x.level, x.tables[j])
  BY <1>1
<1>4. <<Header(x.level)>> \in Seq(L) /\ <<Blank>> \in Seq(L)
  OBVIOUS
<1>5. LinesOf(x) = <<Header(x.level)>> \o ts \o <<Blank>>
  BY DEF LinesOf
<1> HIDE DEF ts, L, n
<1> DEFINE h == Header(x.level)
           b == Blank
           p == LinesOf(x)
<1>6. p = <<h>> \o ts \o <<b>> /\ <<h>> \in Seq(L) /\ <<b>> \in Seq(L)
  BY <1>4, <1>5
<1> HIDE DEF h, b, p
<1>7. /\ Len(p) = n + 2 /\ DOMAIN p = 1..n + 2 /\ p[1] = h /\ p[n + 2] = b
      /\ p \in Seq(L) /\ \A j \in 1..n : p[j + 1] = ts[j]
  BY <1>1, <1>2, <1>6
<1> QED
  BY <1>1, <1>3, <1>7 DEF n, h, b, p

\* After the first m lines the parser has read the levels r.
Reads(lines, m, r) ==
  \E g : /\ g[0] = <<>> /\ g[m] = r
         /\ \A i \in 1..m : g[i] = Parsed(lines[i], g[i - 1])

LEMMA NothingRead ==
  ASSUME NEW lines
  PROVE  Reads(lines, 0, <<>>)
<1> DEFINE g == [i \in {0} |-> <<>>]
<1>1. g[0] = <<>> /\ \A i \in 1..0 : g[i] = Parsed(lines[i], g[i - 1])
  OBVIOUS
<1> HIDE DEF g
<1> QED
  BY <1>1, Zenon DEF Reads

LEMMA OneMoreRead ==
  ASSUME NEW lines, NEW m \in Nat, NEW r, Reads(lines, m, r)
  PROVE  Reads(lines, m + 1, Parsed(lines[m + 1], r))
<1>1. PICK g : /\ g[0] = <<>> /\ g[m] = r
               /\ \A i \in 1..m : g[i] = Parsed(lines[i], g[i - 1])
  BY DEF Reads
<1> DEFINE R == Parsed(lines[m + 1], r)
           h == [i \in 0..m + 1 |-> IF i = m + 1 THEN R ELSE g[i]]
<1>2. /\ 0 # m + 1 /\ 0 \in 0..m + 1 /\ m \in 0..m + 1 /\ m # m + 1 /\ (m + 1) - 1 = m
      /\ m + 1 \in 0..m + 1
      /\ \A i \in 1..m : i \in 0..m + 1 /\ i # m + 1 /\ i - 1 \in 0..m + 1 /\ i - 1 # m + 1
      /\ \A i \in 1..m + 1 : i = m + 1 \/ i \in 1..m
  OBVIOUS
<1>3. /\ h[0] = g[0] /\ h[m + 1] = R /\ h[m] = g[m]
      /\ \A i \in 1..m : h[i] = g[i] /\ h[i - 1] = g[i - 1]
  BY <1>2
<1>4. \A i \in 1..m + 1 : h[i] = Parsed(lines[i], h[i - 1])
  <2> HIDE DEF h
  <2> QED
    BY <1>1, <1>2, <1>3
<1> HIDE DEF h
<1>5. h[0] = <<>> /\ h[m + 1] = R
  BY <1>1, <1>3
<1> QED
  BY <1>4, <1>5, Zenon DEF Reads

\* What has been read when the lines are at their end is what ParseManifest returns.
LEMMA AllRead ==
  ASSUME NEW lines, Len(lines) \in Nat, NEW r, Reads(lines, Len(lines), r)
  PROVE  ParseManifest(lines) = r
<1> DEFINE N == Len(lines)
           F(f) == [n \in 0..N |-> IF n = 0 THEN <<>> ELSE Parsed(lines[n], f[n - 1])]
           read == CHOOSE f : f = F(f)
<1>1. PICK g : /\ g[0] = <<>> /\ g[N] = r
               /\ \A i \in 1..N : g[i] = Parsed(lines[i], g[i - 1])
  BY DEF Reads
<1> DEFINE h == [n \in 0..N |-> g[n]]
<1>2. N \in Nat /\ 0 \in 0..N /\ N \in 0..N
      /\ \A n \in 0..N : n # 0 => n \in 1..N /\ n - 1 \in 0..N
  <2> HIDE DEF N
  <2>1. N \in Nat
    BY DEF N
  <2> QED
    BY <2>1
<1> HIDE DEF N
<1>3. h = F(h)
  <2>1. \A n \in 0..N : h[n] = IF n = 0 THEN <<>> ELSE Parsed(lines[n], h[n - 1])
    BY <1>1, <1>2
  <2> QED
    BY <2>1
<1>4. read = F(read)
  <2> HIDE DEF F, h
  <2> QED
    BY <1>3
<1>5. read[0] = <<>> /\ \A n \in 1..N : read[n] = Parsed(lines[n], read[n - 1])
  <2> HIDE DEF read
  <2>1. \A n \in 1..N : n \in 0..N /\ n # 0
    BY <1>2
  <2> QED
    BY <1>2, <1>4, <2>1
<1> DEFINE bad == {n \in 0..N : read[n] # g[n]}
<1>6. bad = {}
  <2> SUFFICES ASSUME bad # {}
               PROVE  FALSE
    OBVIOUS
  <2> HIDE DEF read
  <2>0. bad \in SUBSET Nat
    BY <1>2
  <2>1. PICK n \in bad : \A i \in bad : n <= i
    <3> HIDE DEF bad
    <3> QED
      BY <2>0, LeastNatural
  <2>2. n \in 1..N /\ n - 1 \in 0..N /\ ~(n <= n - 1)
    <3>1. n # 0
      BY <1>1, <1>5
    <3> QED
      BY <1>2, <3>1
  <2>3. read[n - 1] = g[n - 1]
    BY <2>1, <2>2
  <2> QED
    BY <1>1, <1>5, <2>2, <2>3
<1>7. read[N] = r
  <2> HIDE DEF read
  <2> QED
    BY <1>1, <1>2, <1>6
<1>8. ParseManifest(lines) = read[N]
  BY DEF ParseManifest, N
<1> QED
  BY <1>7, <1>8

\* Append, by positions.
LEMMA AppendAt ==
  ASSUME NEW R, NEW r \in Seq(R), NEW e \in R
  PROVE  LET s == Append(r, e)  n == Len(r) IN
         /\ s \in Seq(R) /\ s # <<>> /\ n \in Nat /\ Len(s) = n + 1
         /\ DOMAIN s = 1..n + 1 /\ s[n + 1] = e
         /\ DOMAIN r = 1..n /\ \A i \in 1..n : s[i] = r[i]
         /\ s = [i \in 1..n + 1 |-> IF i = n + 1 THEN e ELSE r[i]]
<1> DEFINE s == Append(r, e)
           n == Len(r)
<1>1. /\ s \in Seq(R) /\ n \in Nat /\ Len(s) = n + 1 /\ DOMAIN s = 1..Len(s)
      /\ s[n + 1] = e /\ DOMAIN r = 1..n /\ \A i \in 1..n : s[i] = r[i]
  OBVIOUS
<1> HIDE DEF s, n
<1>2. s # <<>>
  BY <1>1
<1>3. s = [i \in 1..n + 1 |-> s[i]]
  BY <1>1
<1>4. \A i \in 1..n + 1 : s[i] = IF i = n + 1 THEN e ELSE r[i]
  BY <1>1
<1>5. s = [i \in 1..n + 1 |-> IF i = n + 1 THEN e ELSE r[i]]
  BY <1>3, <1>4
<1> QED
  BY <1>1, <1>2, <1>5 DEF s, n

\* A table line extends the level last read.
LEMMA TableRead ==
  ASSUME NEW Rs, NEW r \in Seq(AnyLevel(Rs)), NEW l \in 0..1,
         NEW ts \in Seq(AnyTable(Rs)), NEW n \in Idx, NEW g \in Rs
  PROVE  Parsed([kind |-> "table", idx |-> n, range |-> g],
                Append(r, [level |-> l, tables |-> ts]))
           = Append(r, [level |-> l, tables |-> Append(ts, [idx |-> n, range |-> g])])
<1> DEFINE e == [level |-> l, tables |-> ts]
           t == [idx |-> n, range |-> g]
<1>t. t \in AnyTable(Rs) /\ e \in AnyLevel(Rs) /\ e.tables = ts /\ e.level = l
      /\ t.idx = n /\ t.range = g
  BY DEF AnyTable, AnyLevel
<1>e. [e EXCEPT !.tables = Append(ts, t)] = [level |-> l, tables |-> Append(ts, t)]
  <2>1. \A u : [[level |-> l, tables |-> ts] EXCEPT !.tables = u] = [level |-> l, tables |-> u]
    OBVIOUS
  <2> HIDE DEF t
  <2> QED
    BY <2>1
<1> HIDE DEF t, e
<1> DEFINE line == [kind |-> "table", idx |-> t.idx, range |-> t.range]
<1>0. line.kind = "table" /\ line.idx = t.idx /\ line.range = t.range
  OBVIOUS
<1> HIDE DEF line
<1> DEFINE s == Append(r, e)
           u == Append(e.tables, t)
           e2 == [e EXCEPT !.tables = u]
<1>1. t = [idx |-> line.idx, range |-> line.range]
  BY <1>0, <1>t DEF AnyTable
<1>2. /\ s \in Seq(AnyLevel(Rs)) /\ s # <<>> /\ Len(s) = Len(r) + 1 /\ Len(r) \in Nat
      /\ DOMAIN s = 1..Len(r) + 1 /\ s[Len(r) + 1] = e
      /\ \A i \in 1..Len(r) : s[i] = r[i]
  BY <1>t, AppendAt
<1>3. Parsed(line, s) = [s EXCEPT ![Len(s)].tables = Append(@, [idx |-> line.idx, range |-> line.range])]
  <2>1. line.kind # "header" /\ line.kind = "table"
    BY <1>0
  <2> HIDE DEF s
  <2> QED
    BY <1>2, <2>1 DEF Parsed
<1>4. Parsed(line, s) = [s EXCEPT ![Len(r) + 1] = e2]
  <2> HIDE DEF s
  <2>1. [s EXCEPT ![Len(r) + 1].tables = Append(@, t)] = [s EXCEPT ![Len(r) + 1] = e2]
    BY <1>2
  <2> QED
    BY <1>1, <1>2, <1>3, <2>1
<1>5. e2 \in AnyLevel(Rs)
  <2>1. u \in Seq(AnyTable(Rs))
    BY <1>t DEF AnyLevel
  <2> HIDE DEF u
  <2> QED
    BY <1>t, <2>1 DEF AnyLevel
<1> HIDE DEF e2
<1> DEFINE s2 == Append(r, e2)
           s3 == [s EXCEPT ![Len(r) + 1] = e2]
<1>6. s2 = [i \in 1..Len(r) + 1 |-> IF i = Len(r) + 1 THEN e2 ELSE r[i]]
  BY <1>5, AppendAt
<1>7. s3 = [i \in 1..Len(r) + 1 |-> IF i = Len(r) + 1 THEN e2 ELSE s[i]]
  <2> HIDE DEF s
  <2> QED
    BY <1>2
<1>8. s2 = s3
  <2>1. \A i \in 1..Len(r) + 1 : i # Len(r) + 1 => i \in 1..Len(r)
    BY <1>2
  <2> HIDE DEF s, s2, s3
  <2> QED
    BY <1>2, <1>6, <1>7, <2>1
<1> QED
  BY <1>e, <1>t, <1>4, <1>8 DEF e2, line, t, e

\* A header starts a level without tables.
LEMMA HeaderRead ==
  ASSUME NEW r, NEW l
  PROVE  Parsed(Header(l), r) = Append(r, [level |-> l, tables |-> <<>>])
<1>1. Header(l).kind = "header" /\ Header(l).level = l
  BY DEF Header
<1> QED
  BY <1>1 DEF Parsed

\* A blank line says nothing.
LEMMA BlankRead ==
  ASSUME NEW r
  PROVE  Parsed(Blank, r) = r
<1>1. Blank.kind # "header" /\ Blank.kind # "table"
  BY DEF Blank
<1> QED
  BY <1>1 DEF Parsed

\* The lines of a level are read as that level.
LEMMA LevelRead ==
  ASSUME NEW Rs, NEW lines, NEW m \in Nat, NEW r \in Seq(AnyLevel(Rs)), Reads(lines, m, r),
         NEW x \in AnyLevel(Rs), x.level = 0 => \A j \in DOMAIN x.tables : x.tables[j].range = NoRange,
         \A i \in 1..Len(x.tables) + 2 : lines[m + i] = LinesOf(x)[i]
  PROVE  Reads(lines, m + (Len(x.tables) + 2), Append(r, x))
<1> DEFINE ts == x.tables
           n == Len(ts)
           upTo(j) == [x EXCEPT !.tables = SubSeq(ts, 1, j)]
           bad == {j \in 0..n : ~Reads(lines, (m + 1) + j, Append(r, upTo(j)))}
<1>1. /\ n \in Nat /\ ts \in Seq(AnyTable(Rs)) /\ DOMAIN ts = 1..n /\ x.level \in 0..1
      /\ \A j \in 1..n : ts[j] \in AnyTable(Rs)
  BY DEF AnyLevel
<1>2. /\ lines[m + 1] = Header(x.level) /\ lines[m + (n + 2)] = Blank
      /\ \A j \in 1..n : lines[(m + 1) + j] = TableLine(x.level, ts[j])
  <2>0. /\ LinesOf(x)[1] = Header(x.level) /\ LinesOf(x)[n + 2] = Blank
        /\ \A j \in 1..n : LinesOf(x)[j + 1] = TableLine(x.level, ts[j])
    BY LineOfLevel
  <2>1. 1 \in 1..n + 2 /\ n + 2 \in 1..n + 2
        /\ \A j \in 1..n : j + 1 \in 1..n + 2 /\ m + (j + 1) = (m + 1) + j
    BY <1>1
  <2> QED
    BY <2>0, <2>1
<1>3. 0 \notin bad
  <2>1. Reads(lines, m + 1, Append(r, [level |-> x.level, tables |-> <<>>]))
    <3>1. Reads(lines, m + 1, Parsed(lines[m + 1], r))
      BY OneMoreRead, Zenon
    <3>2. Parsed(lines[m + 1], r) = Append(r, [level |-> x.level, tables |-> <<>>])
      BY <1>2, HeaderRead, Zenon
    <3> QED
      BY <3>1, <3>2
  <2>2. SubSeq(ts, 1, 0) = <<>>
    BY <1>1
  <2>3. upTo(0) = [level |-> x.level, tables |-> <<>>]
    BY <2>2 DEF AnyLevel
  <2>4. (m + 1) + 0 = m + 1
    OBVIOUS
  <2> QED
    BY <2>1, <2>3, <2>4
<1>4. ASSUME NEW j \in 1..n, Reads(lines, (m + 1) + (j - 1), Append(r, upTo(j - 1)))
      PROVE  Reads(lines, (m + 1) + j, Append(r, upTo(j)))
  <2> DEFINE e == upTo(j - 1)
  <2>1. /\ SubSeq(ts, 1, j - 1) \in Seq(AnyTable(Rs))
        /\ SubSeq(ts, 1, j) = Append(SubSeq(ts, 1, j - 1), ts[j])
    BY <1>1
  <2>2. e \in AnyLevel(Rs) /\ upTo(j) = [e EXCEPT !.tables = Append(@, ts[j])]
    <3> DEFINE s0 == SubSeq(ts, 1, j - 1)
               s1 == SubSeq(ts, 1, j)
    <3> HIDE DEF s0, s1
    <3> QED
      BY <2>1 DEF AnyLevel, s0, s1
  <2>3. (m + 1) + (j - 1) \in Nat /\ ((m + 1) + (j - 1)) + 1 = (m + 1) + j
    BY <1>1
  <2> HIDE DEF e
  <2> DEFINE t == ts[j]
             line == [kind |-> "table", idx |-> t.idx, range |-> t.range]
  <2>4. TableLine(x.level, t) = line
    <3>1. x.level # 1 => t.range = NoRange
      BY <1>1
    <3> HIDE DEF t
    <3> QED
      BY <3>1 DEF TableLine
  <2> HIDE DEF upTo
  <2>5. Parsed(line, Append(r, e)) = Append(r, [e EXCEPT !.tables = Append(@, ts[j])])
    <3> DEFINE l == e.level
               es == e.tables
               i == t.idx
               g == t.range
    <3>1. l \in 0..1 /\ es \in Seq(AnyTable(Rs)) /\ i \in Idx /\ g \in Rs
      BY <1>1, <2>2 DEF AnyTable, AnyLevel
    <3>2. t = [idx |-> i, range |-> g] /\ e = [level |-> l, tables |-> es]
          /\ [e EXCEPT !.tables = Append(es, t)] = [level |-> l, tables |-> Append(es, t)]
      BY <1>1, <2>2 DEF AnyTable, AnyLevel
    <3> HIDE DEF t, l, es, i, g
    <3>3. Parsed([kind |-> "table", idx |-> i, range |-> g], Append(r, [level |-> l, tables |-> es]))
            = Append(r, [level |-> l, tables |-> Append(es, [idx |-> i, range |-> g])])
      <4> DEFINE TR(u, v, w, z, y) == Parsed([kind |-> "table", idx |-> z, range |-> y],
                Append(u, [level |-> v, tables |-> w]))
                   = Append(u, [level |-> v, tables |-> Append(w, [idx |-> z, range |-> y])])
      <4>1. \A S : \A u \in Seq(AnyLevel(S)), v \in 0..1, w \in Seq(AnyTable(S)), z \in Idx, y \in S : TR(u, v, w, z, y)
        BY Zenon, TableRead
      <4>2. TR(r, l, es, i, g)
        <5> HIDE DEF TR
        <5> QED
          BY <3>1, <4>1
      <4> QED
        BY <4>2
    <3>4. line = [kind |-> "table", idx |-> i, range |-> g]
      BY DEF i, g
    <3>5. Parsed(line, Append(r, e)) = Append(r, [e EXCEPT !.tables = Append(es, t)])
      <4> HIDE DEF line
      <4> QED
        BY <3>2, <3>3, <3>4
    <3> QED
      BY <3>5 DEF t, es
  <2>6. lines[(m + 1) + j] = line
    BY <1>2, <2>4
  <2> HIDE DEF line
  <2>7. Reads(lines, (m + 1) + (j - 1), Append(r, e))
    BY <1>4 DEF e
  <2>8. Reads(lines, (m + 1) + j, Parsed(lines[(m + 1) + j], Append(r, e)))
    BY <2>3, <2>7, OneMoreRead
  <2> QED
    BY <2>2, <2>5, <2>6, <2>8
<1>5. bad = {}
  <2> SUFFICES ASSUME bad # {}
               PROVE  FALSE
    OBVIOUS
  <2> HIDE DEF upTo
  <2>1. bad \in SUBSET Nat
    BY <1>1
  <2>2. PICK j \in bad : \A i \in bad : j <= i
    <3> HIDE DEF bad
    <3> QED
      BY <2>1, LeastNatural
  <2>3. j \in 1..n /\ j - 1 \in 0..n /\ ~(j <= j - 1)
    BY <1>1, <1>3, <2>2
  <2>4. j - 1 \notin bad
    BY <2>2, <2>3
  <2> QED
    BY <1>4, <2>3, <2>4
<1>6. Reads(lines, (m + 1) + n, Append(r, x))
  <2>1. Reads(lines, (m + 1) + n, Append(r, upTo(n)))
    <3> HIDE DEF upTo, n
    <3> QED
      BY <1>1, <1>5
  <2>2. SubSeq(ts, 1, n) = ts
    BY <1>1
  <2>3. upTo(n) = x
    BY <2>2 DEF AnyLevel
  <2> QED
    BY <2>1, <2>3
<1>7. (m + 1) + n \in Nat /\ ((m + 1) + n) + 1 = m + (n + 2)
  <2>1. n \in Nat
    BY <1>1
  <2> HIDE DEF n
  <2> QED
    BY <2>1
<1>8. Reads(lines, m + (n + 2), Parsed(Blank, Append(r, x)))
  <2> HIDE DEF n
  <2> QED
    BY <1>2, <1>6, <1>7, OneMoreRead
<1> QED
  BY <1>8, BlankRead

-----------------------------------------------------------------------------
(***************************************************************************)
(* FlattenSeq, by its partial results.                                     *)
(***************************************************************************)
\* The first m sequences of s make r together.
Joins(s, m, r) ==
  \E g : /\ g[1] = s[1] /\ g[m] = r
         /\ \A i \in 2..m : g[i] = g[i - 1] \o s[i]

LEMMA FirstJoined ==
  ASSUME NEW s
  PROVE  Joins(s, 1, s[1])
<1> DEFINE g == [i \in {1} |-> s[1]]
<1>1. g[1] = s[1] /\ \A i \in 2..1 : g[i] = g[i - 1] \o s[i]
  OBVIOUS
<1> HIDE DEF g
<1> QED
  BY <1>1, Zenon DEF Joins

\* One more sequence, which may have been added since.
LEMMA OneMoreJoined ==
  ASSUME NEW s, NEW s2, NEW m \in Nat \ {0}, \A i \in 1..m : s2[i] = s[i],
         NEW r, Joins(s, m, r)
  PROVE  Joins(s2, m, r) /\ Joins(s2, m + 1, r \o s2[m + 1])
<1>1. PICK g : g[1] = s[1] /\ g[m] = r /\ \A i \in 2..m : g[i] = g[i - 1] \o s[i]
  BY DEF Joins
<1> DEFINE R == r \o s2[m + 1]
           h == [i \in 1..m + 1 |-> IF i = m + 1 THEN R ELSE g[i]]
<1>2. /\ 1 # m + 1 /\ 1 \in 1..m + 1 /\ m \in 1..m + 1 /\ m # m + 1 /\ (m + 1) - 1 = m
      /\ m + 1 \in 1..m + 1 /\ 1 \in 1..m
      /\ \A i \in 2..m : i \in 1..m /\ i \in 1..m + 1 /\ i # m + 1 /\ i - 1 \in 1..m + 1 /\ i - 1 # m + 1
      /\ \A i \in 2..m + 1 : i = m + 1 \/ i \in 2..m
  OBVIOUS
<1>3. \A i \in 2..m : g[i] = g[i - 1] \o s2[i]
  BY <1>1, <1>2
<1>4. /\ h[1] = g[1] /\ h[m + 1] = R /\ h[m] = g[m]
      /\ \A i \in 2..m : h[i] = g[i] /\ h[i - 1] = g[i - 1]
  BY <1>2
<1>5. g[1] = s2[1]
  BY <1>1, <1>2
<1> HIDE DEF h
<1>6. \A i \in 2..m + 1 : h[i] = h[i - 1] \o s2[i]
  BY ZenonT(60), <1>1, <1>2, <1>3, <1>4
<1>7. h[1] = s2[1] /\ h[m + 1] = R
  BY <1>4, <1>5
<1>8. Joins(s2, m + 1, R)
  BY <1>6, <1>7, Zenon DEF Joins
<1>9. Joins(s2, m, r)
  BY <1>1, <1>3, <1>5, Zenon DEF Joins
<1> QED
  BY <1>8, <1>9

LEMMA AllJoined ==
  ASSUME NEW s, Len(s) \in Nat \ {0}, NEW r, Joins(s, Len(s), r)
  PROVE  FlattenSeq(s) = r
<1> DEFINE N == Len(s)
           F(f) == [i \in 1..N |-> IF i = 1 THEN s[i] ELSE f[i - 1] \o s[i]]
           flatten == CHOOSE f : f = F(f)
<1>1. PICK g : g[1] = s[1] /\ g[N] = r /\ \A i \in 2..N : g[i] = g[i - 1] \o s[i]
  BY DEF Joins
<1> DEFINE h == [n \in 1..N |-> g[n]]
<1>2. /\ N \in Nat /\ 1 \in 1..N /\ N \in 1..N /\ N # 0
      /\ \A n \in 1..N : n # 1 => n \in 2..N /\ n - 1 \in 1..N
      /\ \A n \in 2..N : n \in 1..N /\ n # 1
  <2> HIDE DEF N
  <2>1. N \in Nat \ {0}
    BY DEF N
  <2> QED
    BY <2>1
<1> HIDE DEF N
<1>3. h = F(h)
  <2>1. \A n \in 1..N : h[n] = IF n = 1 THEN s[n] ELSE h[n - 1] \o s[n]
    BY <1>1, <1>2
  <2> QED
    BY <2>1
<1>4. flatten = F(flatten)
  <2> HIDE DEF F, h
  <2> QED
    BY <1>3
<1>5. flatten[1] = s[1] /\ \A n \in 2..N : flatten[n] = flatten[n - 1] \o s[n]
  <2> HIDE DEF flatten
  <2> QED
    BY <1>2, <1>4
<1> DEFINE bad == {n \in 1..N : flatten[n] # g[n]}
<1>6. bad = {}
  <2> SUFFICES ASSUME bad # {}
               PROVE  FALSE
    OBVIOUS
  <2> HIDE DEF flatten
  <2>0. bad \in SUBSET Nat
    BY <1>2
  <2>1. PICK n \in bad : \A i \in bad : n <= i
    <3> HIDE DEF bad
    <3> QED
      BY <2>0, LeastNatural
  <2>2. n \in 2..N /\ n - 1 \in 1..N /\ ~(n <= n - 1)
    <3>1. n # 1
      BY <1>1, <1>5
    <3> QED
      BY <1>2, <3>1
  <2>3. flatten[n - 1] = g[n - 1]
    BY <2>1, <2>2
  <2> QED
    BY <1>1, <1>5, <2>2, <2>3
<1>7. flatten[N] = r
  <2> HIDE DEF flatten
  <2> QED
    BY <1>1, <1>2, <1>6
<1>8. FlattenSeq(s) = flatten[N]
  BY <1>2 DEF FlattenSeq, N
<1> QED
  BY <1>7, <1>8

LEMMA FlattenNone == FlattenSeq(<<>>) = <<>>
BY DEF FlattenSeq

LEMMA FlattenOne ==
  ASSUME NEW x
  PROVE  FlattenSeq(<<x>>) = x
<1> DEFINE s == <<x>>
<1>1. Len(s) = 1 /\ s[1] = x /\ Len(s) \in Nat \ {0}
  OBVIOUS
<1> HIDE DEF s
<1>2. Joins(s, Len(s), x)
  BY <1>1, FirstJoined
<1>3. FlattenSeq(s) = x
  BY <1>1, <1>2, AllJoined
<1> QED
  BY <1>3 DEF s

LEMMA FlattenTwo ==
  ASSUME NEW x, NEW y
  PROVE  FlattenSeq(<<x, y>>) = x \o y
<1> DEFINE s == <<x, y>>
<1>1. Len(s) = 2 /\ s[1] = x /\ s[1 + 1] = y /\ Len(s) \in Nat \ {0} /\ 1 + 1 = 2
  OBVIOUS
<1> HIDE DEF s
<1>2. Joins(s, 1 + 1, s[1] \o s[1 + 1])
  BY FirstJoined, OneMoreJoined
<1>3. FlattenSeq(s) = x \o y
  BY <1>1, <1>2, AllJoined
<1> QED
  BY <1>3 DEF s

-----------------------------------------------------------------------------
(***************************************************************************)
(* The manifest says what the levels are.                                  *)
(***************************************************************************)
LEMMA SortedOne ==
  ASSUME NEW x
  PROVE  Sorted(<<x>>) = <<x>>
<1> DEFINE lv == <<x>>
           R == {lv[i] : i \in DOMAIN lv}
           Good(s) == /\ \A i \in DOMAIN lv : \E j \in DOMAIN s : s[j] = lv[i]
                      /\ \A i, j \in DOMAIN s : i < j => s[i].level < s[j].level
<1>1. lv \in [{1} -> {x}] /\ DOMAIN lv = {1} /\ lv[1] = x /\ R = {x}
  OBVIOUS
<1>2. \A s \in [{1} -> {x}] : s = lv
  OBVIOUS
<1>3. Sorted(lv) = CHOOSE s \in [DOMAIN lv -> R] : Good(s)
  BY DEF Sorted
<1>4. Good(lv)
  <2>1. ~(1 < 1)
    OBVIOUS
  <2> HIDE DEF lv
  <2> QED
    BY <1>1, <2>1
<1> HIDE DEF lv, R, Good
<1>5. Sorted(lv) = lv
  BY <1>1, <1>2, <1>3, <1>4
<1> QED
  BY <1>5 DEF lv

LEMMA SortedTwo ==
  ASSUME NEW x, NEW y, x.level \in Nat, y.level \in Nat, x.level < y.level
  PROVE  Sorted(<<x, y>>) = <<x, y>>
<1> DEFINE lv == <<x, y>>
           R == {lv[i] : i \in DOMAIN lv}
           Good(s) == /\ \A i \in DOMAIN lv : \E j \in DOMAIN s : s[j] = lv[i]
                      /\ \A i, j \in DOMAIN s : i < j => s[i].level < s[j].level
<1>1. /\ lv \in [1..2 -> {x, y}] /\ DOMAIN lv = 1..2 /\ lv[1] = x /\ lv[2] = y
      /\ 1 \in 1..2 /\ 2 \in 1..2 /\ \A i \in 1..2 : i = 1 \/ i = 2
  OBVIOUS
<1>2. R = {x, y}
  <2> HIDE DEF lv
  <2> QED
    BY <1>1
<1>3. Sorted(lv) = CHOOSE s \in [DOMAIN lv -> R] : Good(s)
  BY DEF Sorted
<1>4. x.level < y.level /\ ~(x.level < x.level) /\ ~(y.level < x.level) /\ x # y
      /\ ~(1 < 1) /\ ~(2 < 2) /\ ~(2 < 1) /\ 1 < 2
  OBVIOUS
<1>5. Good(lv)
  <2> HIDE DEF lv
  <2> QED
    BY <1>1, <1>4
<1>6. ASSUME NEW s \in [1..2 -> {x, y}], Good(s)
      PROVE  s = lv
  <2>1. s[1] \in {x, y} /\ s[2] \in {x, y} /\ s = [i \in 1..2 |-> s[i]]
        /\ lv = [i \in 1..2 |-> lv[i]] /\ DOMAIN s = 1..2
    BY <1>1
  <2> HIDE DEF lv
  <2>2. s[1].level < s[2].level
    BY <1>1, <1>4, <1>6, <2>1
  <2>3. s[1] = x /\ s[2] = y
    BY <1>4, <2>1, <2>2
  <2> QED
    BY <1>1, <2>1, <2>3
<1> HIDE DEF lv, R, Good
<1>7. \E s \in [DOMAIN lv -> R] : Good(s)
  BY <1>1, <1>2, <1>5
<1>8. Sorted(lv) = lv
  BY <1>1, <1>2, <1>3, <1>6, <1>7
<1> QED
  BY <1>8 DEF lv

\* The manifest of no level, of level 0, and of both.
LEMMA ManifestOf ==
  ASSUME NEW Rs, NEW x \in AnyLevel(Rs), NEW y \in AnyLevel(Rs), x.level = 0, y.level = 1
  PROVE  /\ ManifestLines(<<>>) = <<>>
         /\ ManifestLines(<<x>>) = LinesOf(x)
         /\ ManifestLines(<<x, y>>) = LinesOf(x) \o LinesOf(y)
<1>1. \A lv : ManifestLines(lv) = FlattenSeq([i \in DOMAIN lv |-> LinesOf(Sorted(lv)[i])])
  BY DEF ManifestLines, LinesOf
<1>2. ManifestLines(<<>>) = <<>>
  <2>1. [i \in DOMAIN <<>> |-> LinesOf(Sorted(<<>>)[i])] = <<>>
    OBVIOUS
  <2> QED
    BY <1>1, <2>1, FlattenNone
<1>3. ManifestLines(<<x>>) = LinesOf(x)
  <2> DEFINE s == <<x>>
  <2>1. DOMAIN s = 1..1 /\ s[1] = x
    OBVIOUS
  <2>2. Sorted(s) = s
    BY SortedOne
  <2> HIDE DEF s
  <2>3. [i \in DOMAIN s |-> LinesOf(Sorted(s)[i])] = <<LinesOf(x)>>
    BY <2>1, <2>2
  <2>4. ManifestLines(s) = LinesOf(x)
    BY <1>1, <2>3, FlattenOne
  <2> QED
    BY <2>4 DEF s
<1>4. ManifestLines(<<x, y>>) = LinesOf(x) \o LinesOf(y)
  <2> DEFINE s == <<x, y>>
  <2>1. DOMAIN s = 1..2 /\ s[1] = x /\ s[2] = y
    OBVIOUS
  <2>2. Sorted(s) = s
    BY SortedTwo
  <2> HIDE DEF s
  <2>3. [i \in DOMAIN s |-> LinesOf(Sorted(s)[i])] = <<LinesOf(x), LinesOf(y)>>
    BY <2>1, <2>2
  <2>4. ManifestLines(s) = LinesOf(x) \o LinesOf(y)
    BY <1>1, <2>3, FlattenTwo
  <2> QED
    BY <2>4 DEF s
<1> QED
  BY <1>2, <1>3, <1>4

\* The parser returns the levels the manifest was written from.
LEMMA WrittenLevelsRead ==
  ASSUME NEW lv, LevelsShape(lv)
  PROVE  ParseManifest(ManifestLines(lv)) = lv
<1>1. ASSUME NEW Rs, NEW x \in AnyLevel(Rs), NEW y \in AnyLevel(Rs), x.level = 0, y.level = 1,
             \A j \in DOMAIN x.tables : x.tables[j].range = NoRange
      PROVE  /\ ParseManifest(ManifestLines(<<>>)) = <<>>
             /\ ParseManifest(ManifestLines(<<x>>)) = <<x>>
             /\ ParseManifest(ManifestLines(<<x, y>>)) = <<x, y>>
  <2> DEFINE p == LinesOf(x)
             q == LinesOf(y)
             m == Len(x.tables) + 2
             n == Len(y.tables) + 2
             lines == p \o q
  <2>1. /\ m \in Nat /\ n \in Nat /\ Len(p) = m /\ Len(q) = n
        /\ DOMAIN p = 1..m /\ DOMAIN q = 1..n
    BY LineOfLevel
  <2>2. /\ Len(lines) = m + n /\ \A i \in 1..m : lines[i] = p[i]
        /\ \A i \in 1..n : lines[m + i] = q[i]
    <3>1. PICK L1 : p \in Seq(L1)
      BY LineOfLevel, Zenon
    <3>2. PICK L2 : q \in Seq(L2)
      BY LineOfLevel, Zenon
    <3> HIDE DEF p, q, m, n
    <3> DEFINE L == L1 \cup L2
    <3>3. p \in Seq(L)
      BY <2>1, <3>1
    <3>4. q \in Seq(L)
      BY <2>1, <3>2
    <3> HIDE DEF L
    <3> QED
      BY <2>1, <3>3, <3>4
  <2>3. <<>> \in Seq(AnyLevel(Rs)) /\ <<x>> \in Seq(AnyLevel(Rs))
        /\ Append(<<>>, x) = <<x>> /\ Append(<<x>>, y) = <<x, y>>
    <3> DEFINE A == AnyLevel(Rs)
    <3>1. x \in A /\ y \in A
      OBVIOUS
    <3> HIDE DEF A
    <3>2. <<>> \in Seq(A) /\ <<x>> \in Seq(A)
      BY <3>1
    <3>3. Append(<<>>, x) = <<x>>
      BY <3>1
    <3>4. Append(<<x>>, y) = <<x, y>>
      <4> DEFINE one == <<x>>
      <4>1. one \in Seq(A) /\ Len(one) = 1 /\ one[1] = x
        BY <3>1
      <4> HIDE DEF one
      <4>2. Append(one, y) = [i \in 1..2 |-> IF i = 2 THEN y ELSE one[i]]
        BY <3>1, <4>1, AppendAt
      <4>3. <<x, y>> = [i \in 1..2 |-> IF i = 2 THEN y ELSE x]
        OBVIOUS
      <4>4. \A i \in 1..2 : i = 1 \/ i = 2
        OBVIOUS
      <4>5. [i \in 1..2 |-> IF i = 2 THEN y ELSE one[i]] = [i \in 1..2 |-> IF i = 2 THEN y ELSE x]
        BY <4>1, <4>4
      <4> QED
        BY <4>2, <4>3, <4>5 DEF one
    <3> QED
      BY <3>2, <3>3, <3>4 DEF A
  <2> HIDE DEF p, q, lines
  <2>4. ASSUME NEW s, \A i \in 1..m : s[i] = p[i]
        PROVE  Reads(s, m, <<x>>)
    <3>1. \A i \in 1..m : s[0 + i] = LinesOf(x)[i]
      BY <2>4 DEF p
    <3>2. Reads(s, 0, <<>>)
      BY NothingRead
    <3>3. Reads(s, 0 + m, Append(<<>>, x))
      <4>1. 0 \in Nat
        OBVIOUS
      <4> QED
        BY <1>1, <2>3, <3>1, <3>2, <4>1, LevelRead, Zenon
    <3>4. 0 + m = m
      BY <2>1
    <3> QED
      BY <2>3, <3>3, <3>4
  <2>5. Reads(lines, m + n, <<x, y>>)
    <3>1. Reads(lines, m, <<x>>)
      BY <2>2, <2>4
    <3>2. \A i \in 1..n : lines[m + i] = LinesOf(y)[i]
      BY <2>2 DEF q
    <3>3. y.level # 0
      BY <1>1
    <3>4. Reads(lines, m + n, Append(<<x>>, y))
      BY <2>1, <2>3, <3>1, <3>2, <3>3, LevelRead
    <3> QED
      BY <2>3, <3>4
  <2>6. Reads(p, m, <<x>>)
    BY <2>4
  <2>7. /\ ManifestLines(<<>>) = <<>> /\ ManifestLines(<<x>>) = p
        /\ ManifestLines(<<x, y>>) = lines
    BY <1>1, ManifestOf DEF p, q, lines
  <2>8. ParseManifest(<<>>) = <<>>
    <3>1. Len(<<>>) = 0 /\ Reads(<<>>, 0, <<>>)
      BY NothingRead
    <3> QED
      BY <3>1, AllRead
  <2>9. ParseManifest(p) = <<x>>
    BY <2>1, <2>6, AllRead
  <2>10. ParseManifest(lines) = <<x, y>>
    <3> HIDE DEF m, n
    <3>1. m + n \in Nat
      BY <2>1
    <3> QED
      BY <2>2, <2>5, <3>1, AllRead
  <2> QED
    BY <2>7, <2>8, <2>9, <2>10
<1> DEFINE none == [level |-> 1, tables |-> <<>>]
<1>2. \A Rs : none \in AnyLevel(Rs) /\ none.level = 1
  <2>1. 1 \in 0..1 /\ \A S : <<>> \in Seq(S)
    OBVIOUS
  <2> QED
    BY <2>1 DEF AnyLevel
<1>3. ASSUME NEW Rs, NEW t0 \in Seq(AnyTable({NoRange})), NEW t1 \in Seq(AnyTable(Rs))
      PROVE  LET x == [level |-> 0, tables |-> t0]  y == [level |-> 1, tables |-> t1]
                 S == Rs \cup {NoRange}
             IN  /\ x \in AnyLevel(S) /\ y \in AnyLevel(S)
                 /\ x.level = 0 /\ y.level = 1
                 /\ \A j \in DOMAIN x.tables : x.tables[j].range = NoRange
  <2> DEFINE S == Rs \cup {NoRange}
  <2>1. /\ AnyTable({NoRange}) \subseteq AnyTable(S) /\ AnyTable(Rs) \subseteq AnyTable(S)
        /\ \A t \in AnyTable({NoRange}) : t.range = NoRange
    BY DEF AnyTable
  <2> HIDE DEF S
  <2>2. t0 \in Seq(AnyTable(S)) /\ t1 \in Seq(AnyTable(S)) /\ 0 \in 0..1 /\ 1 \in 0..1
    <3>1. \A A, B : A \subseteq B => Seq(A) \subseteq Seq(B)
      OBVIOUS
    <3>2. t0 \in Seq(AnyTable(S)) /\ t1 \in Seq(AnyTable(S))
      BY <2>1, <3>1, Zenon
    <3> QED
      BY <3>2
  <2>3. \A j \in DOMAIN t0 : t0[j].range = NoRange
    <3>1. \A A : \A s \in Seq(A) : \A j \in DOMAIN s : s[j] \in A
      OBVIOUS
    <3> QED
      BY <2>1, <3>1
  <2> QED
    BY <2>2, <2>3 DEF AnyLevel, S
<1> HIDE DEF none
<1>4. CASE lv = <<>>
  <2>1. <<>> \in Seq(AnyTable({NoRange}))
    OBVIOUS
  <2>2. PICK x : x = [level |-> 0, tables |-> <<>>]
    OBVIOUS
  <2>3. /\ x \in AnyLevel({NoRange} \cup {NoRange}) /\ x.level = 0
        /\ \A j \in DOMAIN x.tables : x.tables[j].range = NoRange
    BY <1>3, <2>1, <2>2
  <2> QED
    BY <1>1, <1>2, <1>4, <2>3
<1>5. CASE \E t0 \in Seq(AnyTable({NoRange})) : lv = <<[level |-> 0, tables |-> t0]>>
  <2>1. PICK t0 \in Seq(AnyTable({NoRange})) : lv = <<[level |-> 0, tables |-> t0]>>
    BY <1>5
  <2>2. PICK x : x = [level |-> 0, tables |-> t0]
    OBVIOUS
  <2>3. /\ x \in AnyLevel({NoRange} \cup {NoRange}) /\ x.level = 0
        /\ \A j \in DOMAIN x.tables : x.tables[j].range = NoRange
    BY <1>3, <2>1, <2>2
  <2> QED
    BY <1>1, <1>2, <2>1, <2>2, <2>3
<1>6. CASE \E Rs : \E t0 \in Seq(AnyTable({NoRange})), t1 \in Seq(AnyTable(Rs)) :
             lv = <<[level |-> 0, tables |-> t0], [level |-> 1, tables |-> t1]>>
  <2>1. PICK Rs : \E t0 \in Seq(AnyTable({NoRange})), t1 \in Seq(AnyTable(Rs)) :
             lv = <<[level |-> 0, tables |-> t0], [level |-> 1, tables |-> t1]>>
    BY <1>6, Zenon
  <2>2. PICK t0 \in Seq(AnyTable({NoRange})), t1 \in Seq(AnyTable(Rs)) :
             lv = <<[level |-> 0, tables |-> t0], [level |-> 1, tables |-> t1]>>
    BY <2>1
  <2>3. PICK x, y : x = [level |-> 0, tables |-> t0] /\ y = [level |-> 1, tables |-> t1]
    OBVIOUS
  <2>4. /\ x \in AnyLevel(Rs \cup {NoRange}) /\ y \in AnyLevel(Rs \cup {NoRange})
        /\ x.level = 0 /\ y.level = 1
        /\ \A j \in DOMAIN x.tables : x.tables[j].range = NoRange
    BY <1>3, <2>2, <2>3
  <2> QED
    BY <1>1, <2>2, <2>3, <2>4
<1> QED
  BY <1>4, <1>5, <1>6 DEF LevelsShape

\* A flush adds its table to level 0, after those that are there.
LEMMA FlushKeepsShape ==
  ASSUME NEW lv, LevelsShape(lv), NEW i \in Idx
  PROVE  LET t == [idx |-> i, range |-> NoRange]
             t0 == TablesOf(lv, 0)
         IN  /\ LevelsShape(WithTable(lv, 0, t))
             /\ t0 \in Seq(AnyTable({NoRange}))
             /\ TablesOf(WithTable(lv, 0, t), 0) = Append(t0, t)
             /\ TablesOf(WithTable(lv, 0, t), 1) = TablesOf(lv, 1)
<1> DEFINE t == [idx |-> i, range |-> NoRange]
<1>1. t \in AnyTable({NoRange})
  BY DEF AnyTable
<1> HIDE DEF t
<1>2. CASE lv = <<>>
  <2> DEFINE x == [level |-> 0, tables |-> <<t>>]
  <2>1. WithTable(lv, 0, t) = Sorted(<<x>>)
    <3>1. Append(lv, x) = <<x>> /\ DOMAIN lv = {}
      BY <1>2
    <3> QED
      BY <3>1, Zenon DEF WithTable
  <2>2. Sorted(<<x>>) = <<x>>
    BY SortedOne
  <2>3. <<t>> \in Seq(AnyTable({NoRange})) /\ Append(<<>>, t) = <<t>>
    BY <1>1
  <2>4. TablesOf(lv, 0) = <<>> /\ TablesOf(lv, 1) = <<>>
    BY <1>2 DEF TablesOf
  <2>5. TablesOf(<<x>>, 0) = <<t>> /\ TablesOf(<<x>>, 1) = <<>>
    <3>1. DOMAIN <<x>> = {1} /\ <<x>>[1].level = 0 /\ <<x>>[1].tables = <<t>> /\ 0 # 1
      OBVIOUS
    <3> QED
      BY <3>1 DEF TablesOf
  <2>6. LevelsShape(<<x>>)
    BY <2>3 DEF LevelsShape
  <2>7. WithTable(lv, 0, t) = <<x>> /\ <<>> \in Seq(AnyTable({NoRange}))
    BY <2>1, <2>2
  <2> HIDE DEF x
  <2> QED
    BY <2>3, <2>4, <2>5, <2>6, <2>7 DEF t
<1>3. CASE \E t0 \in Seq(AnyTable({NoRange})) : lv = <<[level |-> 0, tables |-> t0]>>
  <2>1. PICK t0 \in Seq(AnyTable({NoRange})) : lv = <<[level |-> 0, tables |-> t0]>>
    BY <1>3
  <2> DEFINE t2 == Append(t0, t)
  <2>2. t2 \in Seq(AnyTable({NoRange}))
    BY <1>1
  <2>3. DOMAIN lv = {1} /\ lv[1].level = 0 /\ lv[1].tables = t0
    BY <2>1
  <2>4. WithTable(lv, 0, t) = <<[level |-> 0, tables |-> t2]>>
    <3>1. [lv[1] EXCEPT !.tables = Append(@, t)] = [level |-> 0, tables |-> t2]
      <4>1. lv[1] = [level |-> 0, tables |-> t0]
        BY <2>1
      <4>2. \A u : [[level |-> 0, tables |-> t0] EXCEPT !.tables = u] = [level |-> 0, tables |-> u]
        OBVIOUS
      <4>3. lv[1].tables = t0
        BY <2>3
      <4> HIDE DEF t2
      <4>4. [lv[1] EXCEPT !.tables = t2] = [level |-> 0, tables |-> t2]
        BY <4>1, <4>2
      <4> QED
        BY <4>3, <4>4 DEF t2
    <3> HIDE DEF t2
    <3>2. WithTable(lv, 0, t) = [j \in {1} |-> [level |-> 0, tables |-> t2]]
      BY <2>3, <3>1 DEF WithTable
    <3> QED
      BY <3>2
  <2> HIDE DEF t2
  <2> DEFINE w == <<[level |-> 0, tables |-> t2]>>
  <2>5. DOMAIN w = {1} /\ w[1].level = 0 /\ w[1].tables = t2 /\ 0 # 1
    OBVIOUS
  <2> HIDE DEF w
  <2>6. TablesOf(lv, 0) = t0 /\ TablesOf(lv, 1) = <<>>
        /\ TablesOf(w, 0) = t2 /\ TablesOf(w, 1) = <<>>
    BY <2>3, <2>5 DEF TablesOf
  <2>7. LevelsShape(w)
    BY <2>2 DEF LevelsShape, w
  <2> QED
    BY <2>1, <2>4, <2>6, <2>7 DEF t2, w, t
<1>4. CASE \E Rs : \E t0 \in Seq(AnyTable({NoRange})), t1 \in Seq(AnyTable(Rs)) :
             lv = <<[level |-> 0, tables |-> t0], [level |-> 1, tables |-> t1]>>
  <2>1. PICK Rs : \E t0 \in Seq(AnyTable({NoRange})), t1 \in Seq(AnyTable(Rs)) :
             lv = <<[level |-> 0, tables |-> t0], [level |-> 1, tables |-> t1]>>
    BY <1>4, Zenon
  <2>2. PICK t0 \in Seq(AnyTable({NoRange})), t1 \in Seq(AnyTable(Rs)) :
             lv = <<[level |-> 0, tables |-> t0], [level |-> 1, tables |-> t1]>>
    BY <2>1
  <2> DEFINE t2 == Append(t0, t)
  <2>3. t2 \in Seq(AnyTable({NoRange}))
    BY <1>1
  <2>4. /\ DOMAIN lv = {1, 2} /\ lv[1].level = 0 /\ lv[1].tables = t0
        /\ lv[2].level = 1 /\ lv[2].tables = t1 /\ lv[2] = [level |-> 1, tables |-> t1]
    BY <2>2
  <2> DEFINE w == <<[level |-> 0, tables |-> t2], [level |-> 1, tables |-> t1]>>
  <2>5. WithTable(lv, 0, t) = w
    <3>1. [lv[1] EXCEPT !.tables = Append(@, t)] = [level |-> 0, tables |-> t2]
      <4>1. lv[1] = [level |-> 0, tables |-> t0]
        BY <2>2
      <4>2. \A u : [[level |-> 0, tables |-> t0] EXCEPT !.tables = u] = [level |-> 0, tables |-> u]
        OBVIOUS
      <4>3. lv[1].tables = t0
        BY <2>4
      <4> HIDE DEF t2
      <4>4. [lv[1] EXCEPT !.tables = t2] = [level |-> 0, tables |-> t2]
        BY <4>1, <4>2
      <4> QED
        BY <4>3, <4>4 DEF t2
    <3> HIDE DEF t2
    <3>2. WithTable(lv, 0, t) = [j \in {1, 2} |-> IF j = 1 THEN [level |-> 0, tables |-> t2]
                                                 ELSE [level |-> 1, tables |-> t1]]
      <4>1. WithTable(lv, 0, t) = [j \in DOMAIN lv |->
              IF lv[j].level = 0 THEN [lv[j] EXCEPT !.tables = Append(@, t)] ELSE lv[j]]
        BY <2>4, Zenon DEF WithTable
      <4>2. \A j \in {1, 2} : IF j = 1 THEN lv[j].level = 0 /\ lv[j] = lv[1]
                                      ELSE lv[j].level # 0 /\ lv[j] = [level |-> 1, tables |-> t1]
        BY <2>4
      <4> QED
        BY ZenonT(60), <2>4, <3>1, <4>1, <4>2
    <3> QED
      BY <3>2
  <2> HIDE DEF t2
  <2>6. DOMAIN w = {1, 2} /\ w[1].level = 0 /\ w[1].tables = t2
        /\ w[2].level = 1 /\ w[2].tables = t1 /\ 0 # 1
    OBVIOUS
  <2> HIDE DEF w
  <2>7. TablesOf(lv, 0) = t0 /\ TablesOf(lv, 1) = t1
        /\ TablesOf(w, 0) = t2 /\ TablesOf(w, 1) = t1
    BY <2>4, <2>6 DEF TablesOf
  <2>8. LevelsShape(w)
    <3>1. \E S : \E s0 \in Seq(AnyTable({NoRange})), s1 \in Seq(AnyTable(S)) :
             w = <<[level |-> 0, tables |-> s0], [level |-> 1, tables |-> s1]>>
      BY <2>3, Zenon DEF w
    <3> QED
      BY <3>1, Zenon DEF LevelsShape
  <2> QED
    BY <2>2, <2>5, <2>7, <2>8 DEF t2, t
<1> QED
  BY <1>2, <1>3, <1>4 DEF LevelsShape

\* A line, a level and a manifest of an older version.
OldLine(line) == IF line.kind = "table" THEN [line EXCEPT !.range = NoRange] ELSE line
OldLevel(x) ==
  [level |-> x.level,
   tables |-> [j \in DOMAIN x.tables |-> [idx |-> x.tables[j].idx, range |-> NoRange]]]
OldManifest(lines) == [j \in DOMAIN lines |-> OldLine(lines[j])]

LEMMA OldLevelLines ==
  ASSUME NEW Rs, NEW x \in AnyLevel(Rs)
  PROVE  LET y == OldLevel(x)  p == LinesOf(x)  q == LinesOf(y) IN
         /\ y \in AnyLevel({NoRange}) /\ y.level = x.level
         /\ Len(q) = Len(p) /\ \A i \in 1..Len(p) : q[i] = OldLine(p[i])
<1> DEFINE ts == x.tables
           n == Len(ts)
           y == OldLevel(x)
           us == [j \in 1..n |-> [idx |-> ts[j].idx, range |-> NoRange]]
           p == LinesOf(x)
           q == LinesOf(y)
<1>1. /\ n \in Nat /\ DOMAIN ts = 1..n /\ x.level \in 0..1
      /\ \A j \in 1..n : ts[j] \in AnyTable(Rs)
  BY DEF AnyLevel
<1>2. us \in Seq(AnyTable({NoRange})) /\ Len(us) = n /\ DOMAIN us = 1..n
  <2>1. \A j \in 1..n : us[j] \in AnyTable({NoRange})
    BY <1>1 DEF AnyTable
  <2>2. us = [j \in 1..n |-> us[j]]
    OBVIOUS
  <2>3. n \in Nat
    BY <1>1
  <2> DEFINE S == AnyTable({NoRange})
  <2>4. \A j \in 1..n : us[j] \in S
    BY <2>1
  <2> HIDE DEF us, n, S
  <2>5. us \in Seq(S) /\ Len(us) = n /\ DOMAIN us = 1..n
    BY <2>2, <2>3, <2>4
  <2> QED
    BY <2>5 DEF S
<1>3. y = [level |-> x.level, tables |-> us]
  BY <1>1 DEF OldLevel
<1>4. y \in AnyLevel({NoRange}) /\ y.level = x.level /\ y.tables = us
  <2> HIDE DEF us, y
  <2> QED
    BY <1>1, <1>2, <1>3 DEF AnyLevel
<1>5. /\ Len(p) = n + 2 /\ p[1] = Header(x.level) /\ p[n + 2] = Blank
      /\ \A j \in 1..n : p[j + 1] = TableLine(x.level, ts[j])
  BY LineOfLevel
<1>6. /\ Len(q) = n + 2 /\ q[1] = Header(x.level) /\ q[n + 2] = Blank
      /\ \A j \in 1..n : q[j + 1] = TableLine(x.level, us[j])
  <2> HIDE DEF us, y, n
  <2>1. LET m == Len(y.tables) IN
        /\ Len(q) = m + 2 /\ q[1] = Header(y.level) /\ q[m + 2] = Blank
        /\ \A j \in 1..m : q[j + 1] = TableLine(y.level, y.tables[j])
    BY <1>4, LineOfLevel
  <2> QED
    BY <1>2, <1>4, <2>1
<1>7. OldLine(Header(x.level)) = Header(x.level) /\ OldLine(Blank) = Blank
  BY DEF OldLine, Header, Blank
<1>8. ASSUME NEW j \in 1..n
      PROVE  OldLine(TableLine(x.level, ts[j])) = TableLine(x.level, us[j])
  <2>1. us[j] = [idx |-> ts[j].idx, range |-> NoRange]
    OBVIOUS
  <2>2. \A i, g : OldLine([kind |-> "table", idx |-> i, range |-> g])
                    = [kind |-> "table", idx |-> i, range |-> NoRange]
    BY DEF OldLine
  <2> QED
    BY <2>1, <2>2 DEF TableLine
<1>9. \A i \in 1..n + 2 : i = 1 \/ i = n + 2 \/ (i - 1 \in 1..n /\ (i - 1) + 1 = i)
  <2>1. n \in Nat
    BY <1>1
  <2> HIDE DEF n
  <2> QED
    BY <2>1
<1> HIDE DEF n, us, p, q, ts
<1>10. \A i \in 1..n + 2 : q[i] = OldLine(p[i])
  BY <1>5, <1>6, <1>7, <1>8, <1>9
<1>11. Len(q) = Len(p) /\ \A i \in 1..Len(p) : q[i] = OldLine(p[i])
  BY <1>5, <1>6, <1>10
<1> QED
  BY <1>4, <1>11 DEF p, q

\* Concatenation, by positions.
LEMMA ConcatAt ==
  ASSUME NEW L, NEW a \in Seq(L), NEW b \in Seq(L)
  PROVE  LET s == a \o b  m == Len(a)  n == Len(b) IN
         /\ s \in Seq(L) /\ m \in Nat /\ n \in Nat /\ Len(s) = m + n
         /\ DOMAIN s = 1..m + n /\ s = [i \in 1..m + n |-> s[i]]
         /\ DOMAIN a = 1..m /\ DOMAIN b = 1..n
         /\ \A i \in 1..m : s[i] = a[i]
         /\ \A i \in 1..n : s[m + i] = b[i]
<1> DEFINE s == a \o b
<1>1. s \in Seq(L) /\ Len(s) = Len(a) + Len(b) /\ DOMAIN s = 1..Len(s) /\ Len(a) \in Nat /\ Len(b) \in Nat
      /\ DOMAIN a = 1..Len(a) /\ DOMAIN b = 1..Len(b)
  OBVIOUS
<1>2. (\A i \in 1..Len(a) : s[i] = a[i]) /\ \A i \in 1..Len(b) : s[Len(a) + i] = b[i]
  OBVIOUS
<1> HIDE DEF s
<1>3. s = [i \in 1..Len(s) |-> s[i]]
  BY <1>1
<1> QED
  BY <1>1, <1>2, <1>3 DEF s

\* The tables of the levels.
LEMMA TablesListed ==
  /\ \A l : TablesOf(<<>>, l) = <<>>
  /\ \A t0 : LET lv == <<[level |-> 0, tables |-> t0]>>
             IN  TablesOf(lv, 0) = t0 /\ TablesOf(lv, 1) = <<>>
  /\ \A t0, t1 : LET lv == <<[level |-> 0, tables |-> t0], [level |-> 1, tables |-> t1]>>
                 IN  TablesOf(lv, 0) = t0 /\ TablesOf(lv, 1) = t1
<1>1. ASSUME NEW l PROVE TablesOf(<<>>, l) = <<>>
  <2>1. {i \in DOMAIN <<>> : <<>>[i].level = l} = {}
    OBVIOUS
  <2> QED
    BY <2>1 DEF TablesOf
<1>2. ASSUME NEW lv, NEW l, NEW i \in DOMAIN lv, lv[i].level = l,
             \A j \in DOMAIN lv : lv[j].level = l => j = i
      PROVE  TablesOf(lv, l) = lv[i].tables
  <2> DEFINE found == {j \in DOMAIN lv : lv[j].level = l}
  <2>1. found = {i} /\ found # {}
    BY <1>2
  <2>2. (CHOOSE j \in found : TRUE) = i
    BY <2>1
  <2> QED
    BY <2>1, <2>2 DEF TablesOf
<1>3. ASSUME NEW lv, NEW l, \A j \in DOMAIN lv : lv[j].level # l
      PROVE  TablesOf(lv, l) = <<>>
  <2>1. {j \in DOMAIN lv : lv[j].level = l} = {}
    BY <1>3
  <2> QED
    BY <2>1 DEF TablesOf
<1>4. ASSUME NEW t0
      PROVE  LET lv == <<[level |-> 0, tables |-> t0]>>
             IN  TablesOf(lv, 0) = t0 /\ TablesOf(lv, 1) = <<>>
  <2> DEFINE lv == <<[level |-> 0, tables |-> t0]>>
  <2>1. DOMAIN lv = {1} /\ lv[1].level = 0 /\ lv[1].tables = t0
    OBVIOUS
  <2> HIDE DEF lv
  <2>2. TablesOf(lv, 0) = t0
    BY <1>2, <2>1
  <2>3. TablesOf(lv, 1) = <<>>
    BY <1>3, <2>1
  <2> QED
    BY <2>2, <2>3 DEF lv
<1>5. ASSUME NEW t0, NEW t1
      PROVE  LET lv == <<[level |-> 0, tables |-> t0], [level |-> 1, tables |-> t1]>>
             IN  TablesOf(lv, 0) = t0 /\ TablesOf(lv, 1) = t1
  <2> DEFINE lv == <<[level |-> 0, tables |-> t0], [level |-> 1, tables |-> t1]>>
  <2>1. DOMAIN lv = {1, 2} /\ lv[1].level = 0 /\ lv[1].tables = t0 /\ lv[2].level = 1 /\ lv[2].tables = t1
    OBVIOUS
  <2> HIDE DEF lv
  <2>2. TablesOf(lv, 0) = t0
    BY <1>2, <2>1
  <2>3. TablesOf(lv, 1) = t1
    BY <1>2, <2>1
  <2> QED
    BY <2>2, <2>3 DEF lv
<1> QED
  BY <1>1, <1>4, <1>5

\* The tables of a level as the next start finds them: a range may be gone.
Reread(s, t) ==
  /\ DOMAIN t = DOMAIN s
  /\ \A j \in DOMAIN s : t[j].idx = s[j].idx /\ t[j].range \in {NoRange, s[j].range}

SameTables(v, w) == \A l \in 0..1 : Reread(TablesOf(v, l), TablesOf(w, l))

LEMMA RereadAsIs ==
  ASSUME NEW s
  PROVE  Reread(s, s)
BY DEF Reread

LEMMA OldTables ==
  ASSUME NEW l, NEW t
  PROVE  Reread(t, OldLevel([level |-> l, tables |-> t]).tables)
BY DEF Reread, OldLevel

\* A manifest without ranges is that of the levels without ranges.
LEMMA OldManifestOf ==
  ASSUME NEW lv, LevelsShape(lv)
  PROVE  \E w : LevelsShape(w) /\ SameTables(lv, w) /\ OldManifest(ManifestLines(lv)) = ManifestLines(w)
<1>1. ASSUME NEW Rs, NEW x \in AnyLevel(Rs)
      PROVE  OldManifest(LinesOf(x)) = LinesOf(OldLevel(x))
  <2> DEFINE p == LinesOf(x)
             q == LinesOf(OldLevel(x))
  <2>1. Len(q) = Len(p) /\ \A i \in 1..Len(p) : q[i] = OldLine(p[i])
    BY <1>1, OldLevelLines
  <2>2. (\E L : p \in Seq(L)) /\ (\E L : q \in Seq(L))
    BY <1>1, OldLevelLines, LineOfLevel
  <2>3. \A s : (\E L : s \in Seq(L)) => s = [i \in 1..Len(s) |-> s[i]] /\ DOMAIN s = 1..Len(s)
    OBVIOUS
  <2> HIDE DEF p, q
  <2> QED
    BY <2>1, <2>2, <2>3 DEF OldManifest, p, q
<1>2. ASSUME NEW Rs, NEW x \in AnyLevel(Rs), NEW y \in AnyLevel(Rs)
      PROVE  OldManifest(LinesOf(x) \o LinesOf(y)) = LinesOf(OldLevel(x)) \o LinesOf(OldLevel(y))
  <2> DEFINE p1 == LinesOf(x)
             q1 == LinesOf(y)
             p2 == LinesOf(OldLevel(x))
             q2 == LinesOf(OldLevel(y))
  <2>1. /\ Len(p2) = Len(p1) /\ \A i \in 1..Len(p1) : p2[i] = OldLine(p1[i])
        /\ Len(q2) = Len(q1) /\ \A i \in 1..Len(q1) : q2[i] = OldLine(q1[i])
    BY <1>2, OldLevelLines
  <2>2. /\ \E L : p1 \in Seq(L)
        /\ \E L : q1 \in Seq(L)
        /\ \E L : p2 \in Seq(L)
        /\ \E L : q2 \in Seq(L)
    BY <1>2, OldLevelLines, LineOfLevel
  <2> HIDE DEF p1, p2, q1, q2
  <2>3. PICK L1, L2, M1, M2 : p1 \in Seq(L1) /\ q1 \in Seq(L2) /\ p2 \in Seq(M1) /\ q2 \in Seq(M2)
    BY <2>2
  <2> DEFINE L == (L1 \cup L2) \cup (M1 \cup M2)
  <2>4. /\ L1 \subseteq L /\ L2 \subseteq L /\ M1 \subseteq L /\ M2 \subseteq L
        /\ \A A, B : A \subseteq B => Seq(A) \subseteq Seq(B)
    OBVIOUS
  <2> HIDE DEF L
  <2>5. p1 \in Seq(L) /\ q1 \in Seq(L) /\ p2 \in Seq(L) /\ q2 \in Seq(L)
    BY <2>3, <2>4, Zenon
  <2> DEFINE m == Len(p1)
             n == Len(q1)
             s1 == p1 \o q1
             s2 == p2 \o q2
  <2>6. /\ DOMAIN s1 = 1..m + n /\ DOMAIN s2 = 1..m + n /\ m \in Nat /\ n \in Nat
        /\ s2 = [i \in 1..m + n |-> s2[i]]
        /\ \A i \in 1..m : s1[i] = p1[i] /\ s2[i] = p2[i]
        /\ \A i \in 1..n : s1[m + i] = q1[i] /\ s2[m + i] = q2[i]
    <3>1. \A a, b \in Seq(L) :
            /\ DOMAIN (a \o b) = 1..Len(a) + Len(b) /\ Len(a) \in Nat /\ Len(b) \in Nat
            /\ a \o b = [i \in 1..Len(a) + Len(b) |-> (a \o b)[i]]
            /\ \A i \in 1..Len(a) : (a \o b)[i] = a[i]
            /\ \A i \in 1..Len(b) : (a \o b)[Len(a) + i] = b[i]
      BY ConcatAt
    <3>2. /\ DOMAIN s1 = 1..m + n /\ m \in Nat /\ n \in Nat
          /\ \A i \in 1..m : s1[i] = p1[i]
          /\ \A i \in 1..n : s1[m + i] = q1[i]
      BY <2>5, <3>1
    <3>3. /\ DOMAIN s2 = 1..Len(p2) + Len(q2) /\ s2 = [i \in 1..Len(p2) + Len(q2) |-> s2[i]]
          /\ \A i \in 1..Len(p2) : s2[i] = p2[i]
          /\ \A i \in 1..Len(q2) : s2[Len(p2) + i] = q2[i]
      BY <2>5, <3>1
    <3>4. Len(p2) = m /\ Len(q2) = n
      BY <2>1
    <3> HIDE DEF s1, s2, m, n
    <3> QED
      BY <3>2, <3>3, <3>4
  <2>0. /\ \A i \in 1..m : p2[i] = OldLine(p1[i])
        /\ \A i \in 1..n : q2[i] = OldLine(q1[i])
    BY <2>1
  <2> HIDE DEF m, n
  <2>7. \A i \in 1..m + n : i \in 1..m \/ (i - m \in 1..n /\ m + (i - m) = i)
    BY <2>6
  <2> HIDE DEF s1, s2
  <2>8. \A i \in 1..m + n : s2[i] = OldLine(s1[i])
    <3> TAKE i \in 1..m + n
    <3>1. CASE i \in 1..m
      BY <2>0, <2>6, <3>1
    <3>2. CASE i - m \in 1..n /\ m + (i - m) = i
      <4>1. s1[m + (i - m)] = q1[i - m] /\ s2[m + (i - m)] = q2[i - m]
        BY <2>6, <3>2
      <4> QED
        BY <2>0, <3>2, <4>1
    <3> QED
      BY <2>7, <3>1, <3>2
  <2>9. OldManifest(s1) = s2
    BY <2>6, <2>8 DEF OldManifest
  <2> QED
    BY <2>9 DEF s1, s2, p1, p2, q1, q2
<1>3. OldManifest(<<>>) = <<>>
  BY DEF OldManifest
<1> DEFINE Old(Rs, x, l) ==
             /\ x \in AnyLevel(Rs) /\ x.level = l
             /\ OldLevel(x).tables \in Seq(AnyTable({NoRange}))
             /\ OldLevel(x) \in AnyLevel({NoRange}) /\ OldLevel(x).level = l
             /\ OldLevel(x) = [level |-> l, tables |-> OldLevel(x).tables]
<1>4. \A Rs : \A t \in Seq(AnyTable(Rs)), l \in 0..1 : Old(Rs, [level |-> l, tables |-> t], l)
  <2> TAKE Rs
  <2> TAKE t \in Seq(AnyTable(Rs)), l \in 0..1
  <2> DEFINE x == [level |-> l, tables |-> t]
  <2>1. x \in AnyLevel(Rs) /\ x.level = l
    BY DEF AnyLevel
  <2> HIDE DEF x
  <2>2. OldLevel(x) \in AnyLevel({NoRange}) /\ OldLevel(x).level = l
    BY <2>1, OldLevelLines
  <2>3. OldLevel(x).tables \in Seq(AnyTable({NoRange}))
        /\ OldLevel(x) = [level |-> l, tables |-> OldLevel(x).tables]
    BY <2>2 DEF AnyLevel
  <2> QED
    BY <2>1, <2>2, <2>3 DEF x
<1> DEFINE none == [level |-> 1, tables |-> <<>>]
           new == [level |-> 0, tables |-> <<>>]
<1>5. \A Rs : none \in AnyLevel(Rs) /\ none.level = 1 /\ new \in AnyLevel(Rs) /\ new.level = 0
  <2>1. 1 \in 0..1 /\ 0 \in 0..1 /\ \A S : <<>> \in Seq(S)
    OBVIOUS
  <2> QED
    BY <2>1 DEF AnyLevel
<1> HIDE DEF none, new
<1>6. CASE lv = <<>>
  <2>1. LevelsShape(<<>>)
    BY DEF LevelsShape
  <2>2. ManifestLines(<<>>) = <<>>
    BY <1>5, ManifestOf
  <2>3. SameTables(<<>>, <<>>)
    BY RereadAsIs DEF SameTables
  <2> QED
    BY <1>3, <1>6, <2>1, <2>2, <2>3
<1>7. CASE \E t0 \in Seq(AnyTable({NoRange})) : lv = <<[level |-> 0, tables |-> t0]>>
  <2>1. PICK t0 \in Seq(AnyTable({NoRange})) : lv = <<[level |-> 0, tables |-> t0]>>
    BY <1>7
  <2> DEFINE x == [level |-> 0, tables |-> t0]
             u == OldLevel(x).tables
             w == <<[level |-> 0, tables |-> u]>>
  <2>2. /\ x \in AnyLevel({NoRange}) /\ x.level = 0
        /\ u \in Seq(AnyTable({NoRange}))
        /\ OldLevel(x) \in AnyLevel({NoRange}) /\ OldLevel(x).level = 0
        /\ OldLevel(x) = [level |-> 0, tables |-> u]
    <3>1. 0 \in 0..1
      OBVIOUS
    <3>2. Old({NoRange}, x, 0)
      <4> HIDE DEF Old
      <4> QED
        BY <1>4, <2>1, <3>1
    <3> QED
      BY <3>2
  <2>7. Reread(t0, u)
    BY OldTables
  <2> HIDE DEF x, u
  <2>8. SameTables(lv, w)
    <3>1. \A l \in 0..1 : l = 0 \/ l = 1
      OBVIOUS
    <3> QED
      BY <2>1, <2>7, <3>1, RereadAsIs, TablesListed DEF SameTables
  <2>3. LevelsShape(w)
    BY <2>2 DEF LevelsShape
  <2>4. ManifestLines(lv) = LinesOf(x)
    BY <1>5, <2>1, <2>2, ManifestOf DEF x
  <2>5. ManifestLines(w) = LinesOf(OldLevel(x))
    BY <1>5, <2>2, ManifestOf
  <2>6. OldManifest(LinesOf(x)) = LinesOf(OldLevel(x))
    BY <1>1, <2>2
  <2> QED
    BY <2>3, <2>4, <2>5, <2>6, <2>8
<1>8. CASE \E Rs : \E t0 \in Seq(AnyTable({NoRange})), t1 \in Seq(AnyTable(Rs)) :
             lv = <<[level |-> 0, tables |-> t0], [level |-> 1, tables |-> t1]>>
  <2>1. PICK Rs : \E t0 \in Seq(AnyTable({NoRange})), t1 \in Seq(AnyTable(Rs)) :
             lv = <<[level |-> 0, tables |-> t0], [level |-> 1, tables |-> t1]>>
    BY <1>8, Zenon
  <2>2. PICK t0 \in Seq(AnyTable({NoRange})), t1 \in Seq(AnyTable(Rs)) :
             lv = <<[level |-> 0, tables |-> t0], [level |-> 1, tables |-> t1]>>
    BY <2>1
  <2> DEFINE S == {NoRange} \cup Rs
             x == [level |-> 0, tables |-> t0]
             y == [level |-> 1, tables |-> t1]
             u == OldLevel(x).tables
             v == OldLevel(y).tables
             w == <<[level |-> 0, tables |-> u], [level |-> 1, tables |-> v]>>
  <2>3. t0 \in Seq(AnyTable(S)) /\ t1 \in Seq(AnyTable(S)) /\ 0 \in 0..1 /\ 1 \in 0..1
    <3>1. \A A, B : A \subseteq B => Seq(A) \subseteq Seq(B)
      OBVIOUS
    <3>2. AnyTable({NoRange}) \subseteq AnyTable(S) /\ AnyTable(Rs) \subseteq AnyTable(S)
      BY DEF AnyTable
    <3> HIDE DEF S
    <3>3. t0 \in Seq(AnyTable(S)) /\ t1 \in Seq(AnyTable(S))
      BY <3>1, <3>2, Zenon
    <3> QED
      BY <3>3
  <2> HIDE DEF S
  <2>4. /\ x \in AnyLevel(S) /\ x.level = 0
        /\ u \in Seq(AnyTable({NoRange}))
        /\ OldLevel(x) \in AnyLevel({NoRange}) /\ OldLevel(x).level = 0
        /\ OldLevel(x) = [level |-> 0, tables |-> u]
    <3>1. Old(S, x, 0)
      <4> HIDE DEF Old
      <4> QED
        BY <1>4, <2>3
    <3> QED
      BY <3>1
  <2>5. /\ y \in AnyLevel(S) /\ y.level = 1
        /\ v \in Seq(AnyTable({NoRange}))
        /\ OldLevel(y) \in AnyLevel({NoRange}) /\ OldLevel(y).level = 1
        /\ OldLevel(y) = [level |-> 1, tables |-> v]
    <3>1. Old(S, y, 1)
      <4> HIDE DEF Old
      <4> QED
        BY <1>4, <2>3
    <3> QED
      BY <3>1
  <2>10. Reread(t0, u) /\ Reread(t1, v)
    BY OldTables
  <2> HIDE DEF x, y, u, v
  <2>11. SameTables(lv, w)
    <3>1. \A l \in 0..1 : l = 0 \/ l = 1
      OBVIOUS
    <3> QED
      BY <2>2, <2>10, <3>1, RereadAsIs, TablesListed DEF SameTables
  <2>6. LevelsShape(w)
    BY <2>4, <2>5 DEF LevelsShape
  <2>7. ManifestLines(lv) = LinesOf(x) \o LinesOf(y)
    BY <2>2, <2>4, <2>5, ManifestOf DEF x, y
  <2>8. ManifestLines(w) = LinesOf(OldLevel(x)) \o LinesOf(OldLevel(y))
    BY <2>4, <2>5, ManifestOf
  <2>9. OldManifest(LinesOf(x) \o LinesOf(y)) = LinesOf(OldLevel(x)) \o LinesOf(OldLevel(y))
    BY <1>2, <2>4, <2>5
  <2> QED
    BY <2>6, <2>7, <2>8, <2>9, <2>11
<1> QED
  BY <1>6, <1>7, <1>8 DEF LevelsShape

\* The manifest in the file is that of the levels in memory; the outputs of a
\* merge, which become level 1, are tables.
ManifestInv ==
  /\ LevelsShape(levels)
  /\ manifest = ManifestLines(levels)
  /\ \E Rs : merge.new \in Seq(AnyTable(Rs))

LEMMA NothingNew == \E Rs : <<>> \in Seq(AnyTable(Rs))
<1>1. \A S : <<>> \in Seq(S)
  OBVIOUS
<1> QED
  BY <1>1

\* The number of the next chunk is one of no file.
LEMMA ChunkNumber ==
  ASSUME FreeNumbers # {}
  PROVE  ChunkTable.idx \in Idx /\ files[1][ChunkTable.idx] = NoFile
<1>1. FreeNumbers \in SUBSET Nat /\ ChunkTable.idx = Min(FreeNumbers)
  BY DEF FreeNumbers, Idx, ChunkTable
<1>2. \E x \in FreeNumbers : \A y \in FreeNumbers : x <= y
  BY <1>1, LeastNatural
<1>3. Min(FreeNumbers) \in FreeNumbers
  BY <1>2 DEF Min
<1> QED
  BY <1>1, <1>3 DEF FreeNumbers

\* One more output.
LEMMA OneMoreTable ==
  ASSUME \E Rs : merge.new \in Seq(AnyTable(Rs)), FreeNumbers # {}
  PROVE  \E Rs : Append(merge.new, ChunkTable) \in Seq(AnyTable(Rs))
<1>1. PICK Rs : merge.new \in Seq(AnyTable(Rs))
  OBVIOUS
<1> DEFINE t == ChunkTable
           S == Rs \cup {t.range}
<1>2. t.idx \in Idx
  BY ChunkNumber
<1>3. t \in AnyTable(S)
  <2>1. t = [idx |-> t.idx, range |-> t.range]
    BY DEF ChunkTable
  <2> HIDE DEF t
  <2> QED
    BY <1>2, <2>1 DEF AnyTable
<1>4. AnyTable(Rs) \subseteq AnyTable(S)
  BY DEF AnyTable
<1>5. merge.new \in Seq(AnyTable(S))
  <2>1. \A A, B : A \subseteq B => Seq(A) \subseteq Seq(B)
    OBVIOUS
  <2> QED
    BY <1>1, <1>4, <2>1, ZenonT(60)
<1> HIDE DEF t, S
<1>6. Append(merge.new, t) \in Seq(AnyTable(S))
  BY <1>3, <1>5
<1> QED
  BY <1>6 DEF t

LEMMA InitManifest == Init => ManifestInv
<1> SUFFICES ASSUME Init
             PROVE  ManifestInv
  OBVIOUS
<1>1. levels = <<>> /\ manifest = <<>> /\ merge.new = <<>>
  BY DEF Init, NoMerge
<1>2. ManifestLines(<<>>) = <<>>
  <2>1. [i \in DOMAIN <<>> |-> LinesOf(Sorted(<<>>)[i])] = <<>>
    OBVIOUS
  <2> QED
    BY <2>1, FlattenNone DEF ManifestLines, LinesOf
<1> QED
  BY <1>1, <1>2, NothingNew DEF ManifestInv, LevelsShape

LEMMA FlushKeepsManifest == ManifestInv /\ Flush => ManifestInv'
<1> SUFFICES ASSUME ManifestInv, Flush
             PROVE  ManifestInv'
  OBVIOUS
<1> DEFINE i == NextIndex(Numbers(TablesOf(levels, 0)))
           t == [idx |-> i, range |-> NoRange]
<1>1. /\ i \in Idx
      /\ manifest' = ManifestLines(WithTable(ParseManifest(manifest), 0, t))
      /\ levels' = WithTable(levels, 0, t)
  BY DEF Flush
<1>2. merge' = merge \/ merge' = [merge EXCEPT !.pc = "start"]
  BY DEF Flush
<1> HIDE DEF i, t
<1>3. merge'.new = merge.new
  <2>1. \A m : [m EXCEPT !.pc = "start"].new = m.new
    OBVIOUS
  <2> QED
    BY <1>2, <2>1
<1>4. ParseManifest(manifest) = levels
  BY WrittenLevelsRead DEF ManifestInv
<1>5. LevelsShape(WithTable(levels, 0, t))
  <2>1. LevelsShape(WithTable(levels, 0, [idx |-> i, range |-> NoRange]))
    BY <1>1, FlushKeepsShape, Zenon DEF ManifestInv
  <2> QED
    BY <2>1 DEF t
<1> HIDE DEF t
<1>6. LevelsShape(levels') /\ manifest' = ManifestLines(levels')
  BY <1>1, <1>4, <1>5
<1>7. \E Rs : merge'.new \in Seq(AnyTable(Rs))
  BY <1>3 DEF ManifestInv
<1> QED
  BY <1>6, <1>7 DEF ManifestInv

LEMMA MergeKeepsManifest == ManifestInv /\ Merge => ManifestInv'
<1> SUFFICES ASSUME ManifestInv, Merge
             PROVE  ManifestInv'
  OBVIOUS
<1>1. ASSUME NEW S, levels' = levels, manifest' = manifest, merge'.new \in Seq(AnyTable(S))
      PROVE  ManifestInv'
  <2>1. \E Rs : merge'.new \in Seq(AnyTable(Rs))
    BY <1>1
  <2> QED
    BY <1>1, <2>1 DEF ManifestInv
<1>2. CASE StartMerge
  <2>1. levels' = levels /\ manifest' = manifest /\ merge'.new = merge.new
    BY <1>2 DEF StartMerge
  <2> QED
    BY <1>1, <2>1 DEF ManifestInv
<1>3. CASE StartFails \/ MergeFails
  <2>1. Abort
    BY <1>3 DEF StartFails, MergeFails
  <2>2. levels' = levels /\ manifest' = manifest /\ merge'.new = <<>>
    BY <2>1 DEF Abort, NoMerge
  <2> QED
    BY <1>1, <2>2, NothingNew
<1>4. CASE MergeEntry
  <2>1. levels' = levels /\ manifest' = manifest
    BY <1>4 DEF MergeEntry
  <2>2. \/ merge'.new = merge.new
        \/ merge'.new = Append(merge.new, ChunkTable) /\ FreeNumbers # {}
    <3> DEFINE full == Fresh(Least(merge.heap)) /\ ChunkFull
    <3>1. full => FreeNumbers # {}
      BY <1>4, Zenon DEF MergeEntry, WriteChunk
    <3>2. merge'.new = IF full THEN Append(merge.new, ChunkTable) ELSE merge.new
      BY <1>4 DEF MergeEntry
    <3> HIDE DEF full
    <3> QED
      BY <3>1, <3>2
  <2>3. \E Rs : merge'.new \in Seq(AnyTable(Rs))
    BY <2>2, OneMoreTable DEF ManifestInv
  <2> QED
    BY <1>1, <2>1, <2>3
<1>5. CASE FinishMerge
  <2> DEFINE new == Append(merge.new, ChunkTable)
             lv == <<[level |-> 0, tables |-> <<>>], [level |-> 1, tables |-> new]>>
  <2>1. /\ FreeNumbers # {} /\ levels' = lv /\ manifest' = ManifestLines(lv)
        /\ merge'.new = <<>>
    BY <1>5 DEF FinishMerge, NoMerge
  <2>2. \E Rs : new \in Seq(AnyTable(Rs))
    BY <2>1, OneMoreTable DEF ManifestInv
  <2>3. <<>> \in Seq(AnyTable({NoRange}))
    OBVIOUS
  <2> HIDE DEF new
  <2>4. \E Rs : \E t0 \in Seq(AnyTable({NoRange})), t1 \in Seq(AnyTable(Rs)) :
          lv = <<[level |-> 0, tables |-> t0], [level |-> 1, tables |-> t1]>>
    BY <2>2, <2>3, Zenon
  <2> HIDE DEF lv
  <2>5. LevelsShape(lv)
    BY <2>4, Zenon DEF LevelsShape
  <2> QED
    BY <2>1, <2>5, NothingNew DEF ManifestInv
<1> QED
  BY <1>2, <1>3, <1>4, <1>5 DEF Merge

LEMMA ReopenKeepsManifest == ManifestInv /\ Reopen => ManifestInv' /\ SameTables(levels, levels')
<1> SUFFICES ASSUME ManifestInv, Reopen
             PROVE  ManifestInv' /\ SameTables(levels, levels')
  OBVIOUS
<1>1. /\ manifest' = manifest \/ manifest' = OldManifest(manifest)
      /\ levels' = ParseManifest(manifest') /\ merge' = merge
  BY DEF Reopen, OldManifest, OldLine
<1>2. PICK w : LevelsShape(w) /\ SameTables(levels, w) /\ manifest' = ManifestLines(w)
  <2>1. SameTables(levels, levels)
    BY RereadAsIs DEF SameTables
  <2> QED
    BY <1>1, <2>1, OldManifestOf DEF ManifestInv
<1>3. levels' = w
  BY <1>1, <1>2, WrittenLevelsRead
<1> QED
  BY <1>1, <1>2, <1>3 DEF ManifestInv

LEMMA StepKeepsManifest == ManifestInv /\ [Next]_vars => ManifestInv'
<1> SUFFICES ASSUME ManifestInv, [Next]_vars
             PROVE  ManifestInv'
  OBVIOUS
<1>1. ASSUME UNCHANGED <<levels, manifest, merge>>
      PROVE  ManifestInv'
  BY <1>1 DEF ManifestInv
<1>2. CASE \E x \in Workload[flushes + 1], height \in 1..MaxLevels : Put(x, height)
  BY SMTT(60), <1>1, <1>2 DEF Put
<1>3. CASE Damage
  BY ZenonT(60), <1>1, <1>3 DEF Damage
<1>4. CASE UNCHANGED vars
  BY <1>1, <1>4 DEF vars
<1> QED
  BY <1>2, <1>3, <1>4, FlushKeepsManifest, MergeKeepsManifest, ReopenKeepsManifest DEF Next

\* The next start finds the levels that are in memory: every flush, merge and
\* start leaves in the manifest each table on its level, in its place, with its
\* range (rewriteManifestFromLevels, getAllSSTables, appendTableToManifestLocked).
THEOREM ManifestKeepsLevels == Spec => []ManifestRoundTrips
<1>1. ManifestInv => ManifestRoundTrips
  BY WrittenLevelsRead DEF ManifestInv, ManifestRoundTrips
<1> QED
  BY <1>1, InitManifest, StepKeepsManifest, PTL DEF Spec

-----------------------------------------------------------------------------
(***************************************************************************)
(* What is in a file, whole or damaged.                                    *)
(***************************************************************************)
\* r has the members of the first m sequences of s, and no others.
Spans(s, m, r) ==
  /\ \A p \in DOMAIN r : \E b \in 1..m : \E i \in DOMAIN s[b] : r[p] = s[b][i]
  /\ \A b \in 1..m : \A i \in DOMAIN s[b] : \E p \in DOMAIN r : r[p] = s[b][i]

LEMMA OneMoreSpanned ==
  ASSUME NEW R, NEW s, NEW m \in Nat, NEW r \in Seq(R), Spans(s, m, r), s[m + 1] \in Seq(R)
  PROVE  Spans(s, m + 1, r \o s[m + 1])
<1> DEFINE x == s[m + 1]
           u == r \o x
           n == Len(r)
<1>1. /\ n \in Nat /\ Len(x) \in Nat /\ DOMAIN u = 1..n + Len(x) /\ DOMAIN r = 1..n /\ DOMAIN x = 1..Len(x)
      /\ \A i \in 1..n : u[i] = r[i]
      /\ \A i \in 1..Len(x) : u[n + i] = x[i]
  BY ConcatAt
<1> DEFINE l == Len(x)
<1>2. /\ \A p \in 1..n + l : p \in 1..n \/ (p - n \in 1..l /\ n + (p - n) = p)
      /\ \A p \in 1..n : p \in 1..n + l
      /\ \A i \in 1..l : n + i \in 1..n + l
      /\ \A b \in 1..m + 1 : b \in 1..m \/ b = m + 1
      /\ m + 1 \in 1..m + 1 /\ \A b \in 1..m : b \in 1..m + 1
  <2> HIDE DEF l, n, u
  <2>1. n \in Nat /\ l \in Nat
    BY <1>1 DEF l
  <2> QED
    BY <2>1
<1> HIDE DEF l, n, u
<1>3. ASSUME NEW p \in DOMAIN u
      PROVE  \E b \in 1..m + 1 : \E i \in DOMAIN s[b] : u[p] = s[b][i]
  <2>1. CASE p \in 1..n
    BY <1>1, <1>2, <2>1 DEF Spans
  <2>2. CASE p - n \in 1..l /\ n + (p - n) = p
    BY <1>1, <1>2, <2>2 DEF l
  <2> QED
    BY <1>1, <1>2, <2>1, <2>2 DEF l
<1>4. ASSUME NEW b \in 1..m + 1, NEW i \in DOMAIN s[b]
      PROVE  \E p \in DOMAIN u : u[p] = s[b][i]
  <2>1. CASE b \in 1..m
    <3>1. PICK p \in DOMAIN r : r[p] = s[b][i]
      BY <2>1 DEF Spans
    <3> QED
      BY <1>1, <1>2, <3>1 DEF l
  <2>2. CASE b = m + 1
    <3>1. i \in 1..l /\ s[b][i] = u[n + i]
      BY <1>1, <2>2 DEF l
    <3> QED
      BY <1>1, <1>2, <3>1 DEF l
  <2> QED
    BY <1>2, <2>1, <2>2
<1> QED
  BY <1>3, <1>4 DEF Spans, u

\* FlattenSeq, by its partial results, of sequences over R.
LEMMA Flattened ==
  ASSUME NEW R, NEW s \in Seq(Seq(R)), s # <<>>
  PROVE  /\ FlattenSeq(s) \in Seq(R)
         /\ Joins(s, Len(s), FlattenSeq(s))
         /\ Spans(s, Len(s), FlattenSeq(s))
<1> DEFINE N == Len(s)
           P(m) == \E r \in Seq(R) : Joins(s, m, r) /\ Spans(s, m, r)
           bad == {m \in 1..N : ~P(m)}
<1>1. N \in Nat \ {0} /\ DOMAIN s = 1..N /\ \A b \in 1..N : s[b] \in Seq(R)
  OBVIOUS
<1>2. P(1)
  <2>1. s[1] \in Seq(R)
    BY <1>1
  <2>2. Spans(s, 1, s[1])
    <3>1. \A b \in 1..1 : b = 1
      OBVIOUS
    <3>2. 1 \in 1..1
      OBVIOUS
    <3> QED
      BY <3>1, <3>2 DEF Spans
  <2> QED
    BY <2>1, <2>2, FirstJoined
<1>3. bad = {}
  <2> SUFFICES ASSUME bad # {}
               PROVE  FALSE
    OBVIOUS
  <2> HIDE DEF P, N
  <2>1. bad \in SUBSET Nat
    BY <1>1
  <2>2. PICK m \in bad : \A j \in bad : m <= j
    <3> HIDE DEF bad
    <3> QED
      BY <2>1, LeastNatural
  <2>3. m \in 1..N /\ ~P(m)
    OBVIOUS
  <2>4. m # 1
    BY <1>2, <2>3
  <2>5. m - 1 \in Nat \ {0} /\ m - 1 \in Nat /\ m - 1 \in 1..N /\ (m - 1) + 1 = m /\ ~(m <= m - 1)
    BY <1>1, <2>3, <2>4
  <2>6. P(m - 1)
    BY <2>2, <2>5
  <2>7. PICK r \in Seq(R) : Joins(s, m - 1, r) /\ Spans(s, m - 1, r)
    BY <2>6 DEF P
  <2>8. s[m] \in Seq(R)
    BY <1>1, <2>3
  <2>9. Joins(s, m, r \o s[m])
    <3>1. Joins(s, (m - 1) + 1, r \o s[(m - 1) + 1])
      BY <2>5, <2>7, OneMoreJoined
    <3> QED
      BY <2>5, <3>1
  <2>10. Spans(s, m, r \o s[m])
    <3>1. Spans(s, (m - 1) + 1, r \o s[(m - 1) + 1])
      BY <2>5, <2>7, <2>8, OneMoreSpanned
    <3> QED
      BY <2>5, <3>1
  <2>11. r \o s[m] \in Seq(R)
    BY <2>8
  <2>12. P(m)
    BY <2>9, <2>10, <2>11 DEF P
  <2> QED
    BY <2>3, <2>12
<1>4. PICK r \in Seq(R) : Joins(s, N, r) /\ Spans(s, N, r)
  <2> HIDE DEF P, N
  <2>1. N \in 1..N
    BY <1>1
  <2>2. P(N)
    BY <1>3, <2>1
  <2> QED
    BY <2>2 DEF P
<1>5. FlattenSeq(s) = r
  BY <1>1, <1>4, AllJoined
<1> QED
  BY <1>4, <1>5

\* One more sequence at the end.
LEMMA FlattenAppend ==
  ASSUME NEW R, NEW s \in Seq(Seq(R)), NEW x \in Seq(R)
  PROVE  FlattenSeq(Append(s, x)) = FlattenSeq(s) \o x
<1>1. CASE s = <<>>
  <2>1. Append(s, x) = <<x>>
    BY <1>1
  <2>2. <<>> \o x = x
    OBVIOUS
  <2> QED
    BY <1>1, <2>1, <2>2, FlattenNone, FlattenOne
<1>2. CASE s # <<>>
  <2> DEFINE u == Append(s, x)
             m == Len(s)
             r == FlattenSeq(s)
  <2>1. /\ m \in Nat /\ Len(u) = m + 1 /\ u[m + 1] = x /\ \A i \in 1..m : u[i] = s[i]
    BY AppendAt
  <2>2. m # 0
    BY <1>2
  <2>3. Joins(s, m, r)
    BY <1>2, Flattened
  <2> HIDE DEF u, m, r
  <2>4. Joins(u, m + 1, r \o u[m + 1])
    BY <2>1, <2>2, <2>3, OneMoreJoined
  <2>5. Len(u) \in Nat \ {0} /\ Joins(u, Len(u), r \o x)
    BY <2>1, <2>2, <2>4
  <2>6. FlattenSeq(u) = r \o x
    BY <2>5, AllJoined
  <2> QED
    BY <2>6 DEF u, r
<1> QED
  BY <1>1, <1>2

-----------------------------------------------------------------------------
(***************************************************************************)
(* Table files and their entries.                                          *)
(***************************************************************************)
\* The entries of a file in their order, readable or not.
BlocksOf(f) ==
  [b \in DOMAIN f.blocks |->
     [i \in DOMAIN f.blocks[b].slots |-> Decode(f.blocks[b].slots[i])]]
EntriesOf(f) == FlattenSeq(BlocksOf(f))

LEMMA TakeMore ==
  ASSUME NEW R, NEW es \in Seq(R), NEW q \in Nat, NEW n \in Nat, q + n <= Len(es)
  PROVE  SubSeq(es, 1, q) \o [i \in 1..n |-> es[q + i]] = SubSeq(es, 1, q + n)
<1> DEFINE x == [i \in 1..n |-> es[q + i]]
           a == SubSeq(es, 1, q)
           u == a \o x
           v == SubSeq(es, 1, q + n)
<1>0. Len(es) \in Nat /\ \A i \in 1..Len(es) : es[i] \in R
  OBVIOUS
<1>1. a \in Seq(R) /\ Len(a) = q /\ \A i \in 1..q : a[i] = es[i]
  BY <1>0
<1>2. x \in Seq(R) /\ Len(x) = n /\ \A i \in 1..n : x[i] = es[q + i]
  <2>1. \A i \in 1..n : x[i] \in R
    BY <1>0
  <2>2. x = [i \in 1..n |-> x[i]]
    OBVIOUS
  <2>3. \A i \in 1..n : x[i] = es[q + i]
    OBVIOUS
  <2> HIDE DEF x
  <2> QED
    BY SMTT(60), <2>1, <2>2, <2>3
<1>3. v = [i \in 1..q + n |-> es[i]]
  BY <1>0
<1> HIDE DEF a, x
<1>4. /\ u = [i \in 1..q + n |-> u[i]]
      /\ \A i \in 1..q : u[i] = es[i]
      /\ \A i \in 1..n : u[q + i] = es[q + i]
  <2>1. /\ u = [i \in 1..Len(a) + Len(x) |-> u[i]]
        /\ \A i \in 1..Len(a) : u[i] = a[i]
        /\ \A i \in 1..Len(x) : u[Len(a) + i] = x[i]
    <3>1. a \in Seq(R) /\ x \in Seq(R)
      BY <1>1, <1>2
    <3> QED
      BY ONLY <3>1, ConcatAt
  <2> HIDE DEF u
  <2> QED
    BY ZenonT(60), <1>1, <1>2, <2>1
<1>5. \A i \in 1..q + n : i \in 1..q \/ (i - q \in 1..n /\ q + (i - q) = i)
  OBVIOUS
<1> HIDE DEF u, v
<1>6. \A i \in 1..q + n : u[i] = es[i]
  BY <1>4, <1>5
<1>7. u = v
  BY <1>3, <1>4, <1>6
<1> QED
  BY <1>7 DEF u, v, x, a

\* The entries of a file are those it was written from, in their order.
LEMMA LaidOutEntries ==
  ASSUME NEW es \in EntrySeqs, es # <<>>, NEW f, NEW D \in Nat \ {0}, NEW B,
         LaidOut(es, f, D, B), DOMAIN f.blocks = 1..B
  PROVE  EntriesOf(f) = es
<1> DEFINE s == BlocksOf(f)
           N == Len(es)
           Upto(m) == IF m * D <= N THEN m * D ELSE N
           R == [key : Key, entry : Entry]
<1>1. /\ N \in Nat \ {0} /\ DOMAIN es = 1..N /\ es \in Seq(R) /\ \A i \in 1..N : es[i] \in R
      /\ SubSeq(es, 1, N) = es
  <2>1. es \in Seq(R)
    BY DEF EntrySeqs
  <2> HIDE DEF R
  <2> QED
    BY <2>1, SeqMember
<1>2. \A r \in R : Decode(Encode(r)) = r
  BY OutcomesDiffer DEF Decode, Encode, Entry
<1> HIDE DEF R
<1>3. /\ B \in Nat /\ N <= B * D
      /\ \A b \in 1..B :
           /\ (b - 1) * D \in Nat /\ (b - 1) * D + 1 \in 1..N
           /\ \E len \in 1..D :
                /\ f.blocks[b].slots = [i \in 1..len |-> Encode(es[(b - 1) * D + i])]
                /\ \A i \in 1..len : (b - 1) * D + i \in 1..N
                /\ \A i \in 1..D : (b - 1) * D + i \in 1..N => i <= len
  BY <1>1 DEF LaidOut
<1>4. ASSUME NEW b \in 1..B
      PROVE  \E len \in 1..D :
               /\ s[b] = [i \in 1..len |-> es[(b - 1) * D + i]]
               /\ (b - 1) * D + len = Upto(b) /\ s[b] \in Seq(R)
               /\ (b - 1) * D + len <= N
  <2>1. PICK len \in 1..D :
          /\ f.blocks[b].slots = [i \in 1..len |-> Encode(es[(b - 1) * D + i])]
          /\ \A i \in 1..len : (b - 1) * D + i \in 1..N
          /\ \A i \in 1..D : (b - 1) * D + i \in 1..N => i <= len
    BY <1>3
  <2> DEFINE q == (b - 1) * D
             x == [i \in 1..len |-> es[q + i]]
  <2>2. b * D = q + D /\ q \in Nat /\ len \in Nat
    BY <1>3
  <2>3. s[b] = x
    <3>1. s[b] = [i \in 1..len |-> Decode(Encode(es[q + i]))]
      BY <2>1 DEF BlocksOf
    <3>2. \A i \in 1..len : Decode(Encode(es[q + i])) = es[q + i]
      BY <1>1, <1>2, <2>1
    <3> HIDE DEF s, q
    <3> QED
      BY <3>1, <3>2
  <2>4. x \in Seq(R)
    <3>1. \A i \in 1..len : x[i] \in R
      BY <1>1, <2>1
    <3>2. x = [i \in 1..len |-> x[i]]
      OBVIOUS
    <3> HIDE DEF x
    <3> QED
      BY <2>2, <3>1, <3>2
  <2>5. q + len = (IF q + D <= N THEN q + D ELSE N) /\ q + len <= N
    <3>1. /\ q + len \in 1..N
          /\ \A i \in 1..D : q + i \in 1..N => i <= len
      BY <2>1
    <3>2. q + 1 \in 1..N
      BY <1>3
    <3> HIDE DEF q, N
    <3>3. CASE q + D <= N
      BY <1>1, <2>2, <3>1, <3>2, <3>3
    <3>4. CASE ~(q + D <= N)
      <4>1. N - q \in 1..D /\ q + (N - q) = N /\ N \in 1..N
        BY <1>1, <2>2, <3>2, <3>4
      <4>2. N - q <= len
        BY <3>1, <4>1
      <4> QED
        BY <1>1, <2>2, <3>1, <3>4, <4>1, <4>2
    <3> QED
      BY <3>3, <3>4
  <2> HIDE DEF s
  <2> QED
    BY <2>2, <2>3, <2>4, <2>5
<1>5. s \in Seq(Seq(R)) /\ Len(s) = B /\ DOMAIN s = 1..B
  <2>1. s = [b \in 1..B |-> s[b]]
    BY DEF BlocksOf
  <2>2. \A b \in 1..B : s[b] \in Seq(R)
    BY <1>4
  <2> HIDE DEF s
  <2> QED
    BY SMTT(60), <1>3, <2>1, <2>2
<1>6. B # 0
  <2>1. 0 * D = 0
    OBVIOUS
  <2> QED
    BY <1>1, <1>3, <2>1
<1> DEFINE P(m) == Joins(s, m, SubSeq(es, 1, Upto(m)))
           bad == {m \in 1..B : ~P(m)}
<1>7. bad = {}
  <2> SUFFICES ASSUME bad # {}
               PROVE  FALSE
    OBVIOUS
  <2>0. bad \in SUBSET Nat
    OBVIOUS
  <2>1. PICK m \in bad : \A j \in bad : m <= j
    <3> HIDE DEF bad
    <3> QED
      BY <2>0, LeastNatural
  <2> HIDE DEF s
  <2>2. m \in 1..B /\ ~P(m)
    OBVIOUS
  <2>3. PICK len \in 1..D :
          /\ s[m] = [i \in 1..len |-> es[(m - 1) * D + i]]
          /\ (m - 1) * D + len = Upto(m) /\ (m - 1) * D + len <= N
    BY <1>4, <2>2
  <2> DEFINE q == (m - 1) * D
  <2>4. q \in Nat /\ len \in Nat /\ q + 1 \in 1..N
    BY <1>3, <2>2
  <2>5. SubSeq(es, 1, q) \o s[m] = SubSeq(es, 1, Upto(m))
    <3>1. SubSeq(es, 1, q) \o [i \in 1..len |-> es[q + i]] = SubSeq(es, 1, q + len)
      BY SMTT(60), <1>1, <2>3, <2>4, TakeMore
    <3> QED
      BY <2>3, <3>1
  <2>6. CASE m = 1
    <3>1. q = 0
      BY <2>6
    <3>2. SubSeq(es, 1, 0) = <<>> /\ <<>> \o s[m] = s[m]
      BY <1>4, <2>2
    <3>3. Joins(s, 1, s[1])
      BY FirstJoined
    <3> HIDE DEF q, Upto
    <3> QED
      BY <2>2, <2>5, <2>6, <3>1, <3>2, <3>3
  <2>7. CASE m # 1
    <3>1. m - 1 \in Nat \ {0} /\ m - 1 \in 1..B /\ (m - 1) + 1 = m /\ ~(m <= m - 1)
      BY <1>3, <2>2, <2>7
    <3>2. P(m - 1)
      BY <2>1, <3>1
    <3>3. Upto(m - 1) = q
      <4>1. q <= N
        BY <1>1, <2>4
      <4> QED
        BY <4>1
    <3> HIDE DEF q, Upto
    <3>4. Joins(s, (m - 1) + 1, SubSeq(es, 1, q) \o s[(m - 1) + 1])
      BY <3>1, <3>2, <3>3, OneMoreJoined
    <3> QED
      BY <2>2, <2>5, <3>1, <3>4
  <2> QED
    BY <2>6, <2>7
<1>8. P(B) /\ Upto(B) = N
  <2>1. B \in 1..B
    BY <1>3, <1>6
  <2>2. Upto(B) = N
    <3> DEFINE x == B * D
    <3>1. x \in Nat
      BY <1>3
    <3>2. N <= x
      BY <1>3
    <3> HIDE DEF x
    <3> QED
      BY <1>1, <3>1, <3>2 DEF x
  <2> QED
    BY <1>7, <2>1, <2>2
<1> HIDE DEF s, Upto, N
<1>9. Joins(s, Len(s), es)
  BY <1>1, <1>5, <1>8
<1>10. FlattenSeq(s) = es
  BY <1>3, <1>5, <1>6, <1>9, AllJoined
<1> QED
  BY <1>10 DEF EntriesOf, s

\* The keys of a file ascend through its blocks, none of which is empty; what
\* matches its checksum is what was written.
WellFormed(f) ==
  /\ \A b \in DOMAIN f.blocks :
       /\ f.blocks[b].slots # <<>>
       /\ f.blocks[b].crc = f.blocks[b].slots =>
            \A i \in DOMAIN f.blocks[b].slots : f.blocks[b].slots[i].slot # Garbage
  /\ \A b, c \in DOMAIN f.blocks :
       \A i \in DOMAIN f.blocks[b].slots, j \in DOMAIN f.blocks[c].slots :
         b < c \/ (b = c /\ i < j) => f.blocks[b].slots[i].key < f.blocks[c].slots[j].key

GoodFile(x) == x \in DataFile /\ x.table.index # <<>> /\ WellFormed(x.table)

Cell == [key : Key, slot : Val \cup {Zeros, Garbage}]

LEMMA BitsAreNumbers == \A k \in Key : Bits(k) \subseteq Nat
<1> TAKE k \in Key
<1>1. FilterLength \in Nat \ {0}
  BY FilterIsDefined
<1>2. HashOne[k] \in Int /\ HashTwo[k] \in Int /\ WordSize \in Nat \ {0}
  BY FilterIsDefined
<1>3. ASSUME NEW i \in 0..FilterHashes - 1
      PROVE  ((HashOne[k] + ((i * HashTwo[k]) % WordSize)) % WordSize) % FilterLength \in Nat
  <2> DEFINE x == i * HashTwo[k]
  <2>1. x \in Int
    BY <1>2
  <2> HIDE DEF x
  <2>2. x % WordSize \in Int
    BY <1>2, <2>1
  <2> DEFINE y == HashOne[k] + (x % WordSize)
  <2>3. y \in Int
    BY <1>2, <2>2
  <2> HIDE DEF y
  <2>4. y % WordSize \in Int
    BY <1>2, <2>3
  <2> DEFINE z == y % WordSize
  <2> HIDE DEF z
  <2>5. z % FilterLength \in Nat
    <3>1. z \in Int
      BY <2>4 DEF z
    <3> QED
      BY <1>1, <3>1
  <2> QED
    BY <2>5 DEF x, y, z
<1> QED
  BY <1>3 DEF Bits

LEMMA BlocksInOrder ==
  ASSUME NEW D \in Nat, NEW b \in Nat \ {0}, NEW c \in Nat, b < c
  PROVE  (b - 1) * D + D <= (c - 1) * D
<1>1. \A x, y \in Nat : (x + 1) * D = x * D + D /\ ((x + 1) + y) * D = (x + 1) * D + y * D
                        /\ y * D \in Nat /\ x * D \in Nat
  OBVIOUS
<1>2. PICK x, y \in Nat : x = b - 1 /\ y = c - 1 - b
  OBVIOUS
<1>3. (x + 1) + y = c - 1 /\ x = b - 1
  BY <1>2
<1>4. (c - 1) * D = (b - 1) * D + D + y * D /\ y * D \in Nat /\ (b - 1) * D \in Nat
  BY <1>1, <1>3
<1> QED
  BY <1>4

\* What a flush or a merge writes is a good file.
LEMMA WrittenGood ==
  ASSUME NEW es \in EntrySeqs, Writable(es), es # <<>>
  PROVE  GoodFile(TableFile(es)) /\ EntriesOf(TableFile(es).table) = es
<1> DEFINE f == BlockFile(es)
           D == DataBlockEntries
           B == BlockCount(es)
           N == Len(es)
           x == TableFile(es)
           R == [key : Key, entry : Entry]
<1>0. StrictlySorted(Keys(es)) /\ Len(es) <= MaxEntries
  BY DEF Writable
<1>1. LaidOut(es, f, D, B) /\ D \in Nat \ {0}
  BY <1>0, BlocksWritten, BlocksHaveRoom
<1>2. /\ f.blocks = [b \in 1..B |-> DataBlock(es, b)]
      /\ f.index = [b \in 1..B |-> DataBlock(es, b).slots[1].key]
      /\ f = [index |-> f.index, blocks |-> f.blocks]
      /\ DOMAIN f.blocks = 1..B /\ DOMAIN f.index = 1..B
      /\ \A b \in 1..B : f.blocks[b] = [slots |-> f.blocks[b].slots, crc |-> f.blocks[b].crc]
  <2> DEFINE bs == [b \in 1..B |-> DataBlock(es, b)]
             ix == [b \in 1..B |-> DataBlock(es, b).slots[1].key]
  <2>1. f = [index |-> ix, blocks |-> bs]
    <3>1. [b \in DOMAIN bs |-> bs[b].slots[1].key] = ix
      OBVIOUS
    <3>2. f = [index |-> [b \in DOMAIN bs |-> bs[b].slots[1].key], blocks |-> bs]
      BY DEF BlockFile
    <3> QED
      BY <3>1, <3>2
  <2>2. \A b \in 1..B : bs[b] = [slots |-> bs[b].slots, crc |-> bs[b].crc]
    BY DEF DataBlock
  <2>3. DOMAIN bs = 1..B /\ DOMAIN ix = 1..B
    OBVIOUS
  <2> HIDE DEF f, bs, ix
  <2>4. f.blocks = bs /\ f.index = ix
    BY <2>1
  <2> QED
    BY <2>1, <2>2, <2>3, <2>4 DEF bs, ix
<1>3. x = [table |-> f, filter |-> Filter(es)] /\ x.table = f
  BY DEF TableFile
<1> HIDE DEF f, D, B, x
<1>4. EntriesOf(f) = es
  BY <1>1, <1>2, LaidOutEntries
<1>5. /\ N \in Nat \ {0} /\ DOMAIN es = 1..N /\ \A i \in 1..N : es[i] \in R
  <2>1. es \in Seq(R)
    BY DEF EntrySeqs
  <2> HIDE DEF R
  <2> QED
    BY <2>1, SeqMember
<1>6. \A r \in R : Encode(r).key = r.key /\ Encode(r).slot # Garbage /\ Encode(r) \in Cell
  <2>1. \A r \in R : Encode(r) = [key |-> r.key, slot |-> IF r.entry = Tombstone THEN Zeros ELSE r.entry]
    BY DEF Encode
  <2>2. \A r \in R : r.key \in Key /\ r.entry \in Val \cup {Tombstone}
    BY DEF Entry
  <2> HIDE DEF R
  <2> QED
    BY <2>1, <2>2, GarbageIsNoData DEF Entry, Cell
<1> HIDE DEF R
<1>7. /\ B \in Nat /\ N <= B * D
      /\ \A b \in 1..B :
           /\ (b - 1) * D \in Nat /\ (b - 1) * D + 1 \in 1..N
           /\ f.index[b] = es[(b - 1) * D + 1].key
           /\ f.blocks[b].crc = f.blocks[b].slots
           /\ \E len \in 1..D :
                /\ f.blocks[b].slots = [i \in 1..len |-> Encode(es[(b - 1) * D + i])]
                /\ \A i \in 1..len : (b - 1) * D + i \in 1..N
  BY <1>1, <1>5 DEF LaidOut
<1>8. B # 0
  <2>1. 0 * D = 0
    BY <1>1
  <2> QED
    BY <1>5, <1>7, <2>1
<1>9. ASSUME NEW b \in 1..B
      PROVE  /\ f.blocks[b].crc = f.blocks[b].slots /\ f.blocks[b].slots \in Cells
             /\ f.blocks[b].slots # <<>> /\ f.index[b] \in Key
             /\ \A i \in DOMAIN f.blocks[b].slots :
                  /\ i \in 1..D /\ (b - 1) * D + i \in 1..N
                  /\ f.blocks[b].slots[i].key = es[(b - 1) * D + i].key
                  /\ f.blocks[b].slots[i].slot # Garbage
  <2>1. PICK len \in 1..D :
          /\ f.blocks[b].slots = [i \in 1..len |-> Encode(es[(b - 1) * D + i])]
          /\ \A i \in 1..len : (b - 1) * D + i \in 1..N
    BY <1>7
  <2> DEFINE q == (b - 1) * D
             sl == f.blocks[b].slots
  <2>2. sl = [i \in 1..len |-> sl[i]] /\ DOMAIN sl = 1..len /\ 1 \in 1..len /\ len \in Nat
    BY <1>1, <2>1
  <2>3. \A i \in 1..len : /\ i \in 1..D /\ q + i \in 1..N /\ sl[i].key = es[q + i].key
                          /\ sl[i].slot # Garbage /\ sl[i] \in Cell
    BY <1>1, <1>5, <1>6, <2>1
  <2>4. f.blocks[b].crc = sl /\ f.index[b] = es[q + 1].key /\ q + 1 \in 1..N
    BY <1>7
  <2>5. es[q + 1].key \in Key
    BY <1>5, <2>4 DEF R
  <2> HIDE DEF sl, q
  <2>6. sl \in Seq(Cell) /\ sl # <<>>
    BY SMTT(60), <2>2, <2>3
  <2> QED
    BY <2>2, <2>3, <2>4, <2>5, <2>6 DEF sl, q, Cells, Cell
<1>10. f.index \in Seq(Key) /\ f.index # <<>>
  <2>1. f.index = [b \in 1..B |-> f.index[b]]
    BY <1>2
  <2> QED
    <3>1. \A g : g = [b \in 1..B |-> g[b]] /\ (\A b \in 1..B : g[b] \in Key) => g \in Seq(Key) /\ Len(g) = B
      BY SMTT(60), <1>7
    <3>2. f.index \in Seq(Key) /\ Len(f.index) = B
      BY <1>9, <2>1, <3>1
    <3> QED
      BY <1>8, <3>2
<1>11. f.blocks \in Seq([slots : Cells, crc : Cells])
  <2> DEFINE S == [slots : Cells, crc : Cells]
  <2>1. \A b \in 1..B : f.blocks[b] \in S
    BY <1>2, <1>9
  <2>2. f.blocks = [b \in 1..B |-> f.blocks[b]]
    BY <1>2
  <2> HIDE DEF S
  <2>3. f.blocks \in Seq(S)
    BY <1>7, <2>1, <2>2
  <2> QED
    BY <2>3 DEF S
<1>12. Filter(es) \in SUBSET Nat
  <2>1. \A i \in DOMAIN es : es[i].key \in Key
    BY <1>5 DEF R
  <2> QED
    BY <2>1, BitsAreNumbers DEF Filter
<1>13. x \in DataFile
  BY <1>2, <1>3, <1>10, <1>11, <1>12 DEF DataFile
<1>14. WellFormed(f)
  <2>1. ASSUME NEW b \in 1..B, NEW c \in 1..B, NEW i \in DOMAIN f.blocks[b].slots,
               NEW j \in DOMAIN f.blocks[c].slots, b < c \/ (b = c /\ i < j)
        PROVE  f.blocks[b].slots[i].key < f.blocks[c].slots[j].key
    <3> DEFINE p == (b - 1) * D
               q == (c - 1) * D
    <3>1. /\ i \in 1..D /\ p + i \in 1..N /\ f.blocks[b].slots[i].key = es[p + i].key
          /\ j \in 1..D /\ q + j \in 1..N /\ f.blocks[c].slots[j].key = es[q + j].key
      BY <1>9
    <3>2. p \in Nat /\ q \in Nat
      BY <1>7
    <3>3. p + i < q + j
      <4>1. CASE b < c
        <5>1. p + D <= q
          BY <1>1, <1>7, <4>1, BlocksInOrder
        <5> HIDE DEF p, q
        <5> QED
          BY <1>1, <3>1, <3>2, <5>1
      <4>2. CASE b = c /\ i < j
        <5>1. p = q
          BY <4>2
        <5> HIDE DEF p, q
        <5> QED
          BY <3>1, <3>2, <4>2, <5>1
      <4> QED
        BY <2>1, <4>1, <4>2
    <3> HIDE DEF p, q
    <3>4. es[p + i].key < es[q + j].key
      BY SMTT(60), <1>0, <1>5, <3>1, <3>3, FileKeysAscend
    <3> QED
      BY <3>1, <3>4
  <2> QED
    BY <1>2, <1>9, <2>1 DEF WellFormed
<1> QED
  BY <1>3, <1>4, <1>10, <1>13, <1>14 DEF GoodFile, x

\* The cells of a good file.
LEMMA GoodCells ==
  ASSUME NEW x, GoodFile(x)
  PROVE  LET bs == x.table.blocks IN
         /\ Len(bs) \in Nat /\ DOMAIN bs = 1..Len(bs)
         /\ Len(x.table.index) \in Nat \ {0}
         /\ \A b \in DOMAIN bs :
              /\ bs[b] = [slots |-> bs[b].slots, crc |-> bs[b].crc]
              /\ bs[b].crc \in Cells /\ bs[b].slots \in Cells
              /\ Len(bs[b].slots) \in Nat \ {0} /\ DOMAIN bs[b].slots = 1..Len(bs[b].slots)
              /\ 1 \in DOMAIN bs[b].slots
              /\ \A i \in DOMAIN bs[b].slots :
                   /\ bs[b].slots[i].key \in Key /\ bs[b].slots[i].key \in Int
                   /\ bs[b].slots[i].slot \in Val \cup {Zeros, Garbage}
                   /\ bs[b].slots[i] = [key |-> bs[b].slots[i].key, slot |-> bs[b].slots[i].slot]
<1> DEFINE bs == x.table.blocks
           ix == x.table.index
           S == [slots : Cells, crc : Cells]
<1>1. bs \in Seq(S) /\ ix \in Seq(Key) /\ ix # <<>>
  BY DEF GoodFile, DataFile
<1>2. \A b \in DOMAIN bs : bs[b].slots # <<>>
  BY DEF GoodFile, WellFormed
<1> HIDE DEF bs, ix
<1>3. Len(bs) \in Nat /\ DOMAIN bs = 1..Len(bs) /\ Len(ix) \in Nat \ {0}
  <2>1. Len(bs) \in Nat /\ DOMAIN bs = 1..Len(bs)
    <3> HIDE DEF S
    <3> QED
      BY <1>1
  <2> QED
    BY <1>1, <2>1
<1>4. ASSUME NEW b \in DOMAIN bs
      PROVE  /\ bs[b] = [slots |-> bs[b].slots, crc |-> bs[b].crc]
             /\ bs[b].crc \in Cells /\ bs[b].slots \in Cells
             /\ Len(bs[b].slots) \in Nat \ {0} /\ DOMAIN bs[b].slots = 1..Len(bs[b].slots)
             /\ 1 \in DOMAIN bs[b].slots
             /\ \A i \in DOMAIN bs[b].slots :
                  /\ bs[b].slots[i].key \in Key /\ bs[b].slots[i].key \in Int
                  /\ bs[b].slots[i].slot \in Val \cup {Zeros, Garbage}
                  /\ bs[b].slots[i] = [key |-> bs[b].slots[i].key, slot |-> bs[b].slots[i].slot]
  <2>1. bs[b] \in S
    <3> HIDE DEF S
    <3> QED
      BY <1>1, SeqMember
  <2>2. /\ bs[b] = [slots |-> bs[b].slots, crc |-> bs[b].crc]
        /\ bs[b].crc \in Cells /\ bs[b].slots \in Cells
    BY <2>1
  <2> DEFINE sl == bs[b].slots
  <2>3. sl \in Seq(Cell) /\ sl # <<>>
    BY <1>2, <2>2 DEF Cells, Cell
  <2> HIDE DEF sl
  <2>4. \A i \in DOMAIN sl : sl[i] \in Cell
    BY <2>3, SeqMember
  <2>5. Len(sl) \in Nat \ {0} /\ DOMAIN sl = 1..Len(sl) /\ 1 \in DOMAIN sl
    BY <2>3
  <2>6. \A r \in Cell : /\ r.key \in Key /\ r.slot \in Val \cup {Zeros, Garbage}
                        /\ r = [key |-> r.key, slot |-> r.slot]
    BY DEF Cell
  <2>7. \A k \in Key : k \in Int
    BY KeysAreOrdered
  <2> QED
    BY <2>2, <2>4, <2>5, <2>6, <2>7 DEF sl
<1> QED
  BY <1>3, <1>4 DEF bs, ix

LEMMA DecodedCell ==
  ASSUME NEW c \in Cell
  PROVE  /\ Decode(c) = [key |-> c.key, entry |-> Decode(c).entry] /\ Decode(c).key = c.key
         /\ c.key \in Key /\ Decode(c).entry \in Entry \cup {Garbage}
         /\ c.slot # Garbage => Decode(c).entry \in Entry
<1>1. c.key \in Key /\ c.slot \in Val \cup {Zeros, Garbage}
  BY DEF Cell
<1>2. Decode(c) = [key |-> c.key, entry |-> IF c.slot = Zeros THEN Tombstone ELSE c.slot]
  BY SMTT(60) DEF Decode
<1> QED
  BY <1>1, <1>2 DEF Entry

\* The contents of a good file are its cells.
LEMMA ContentOf ==
  ASSUME NEW x, GoodFile(x)
  PROVE  LET bs == x.table.blocks  t == TableOf(EntriesOf(x.table)) IN
         /\ t \in [Key -> Entry \cup {None, Garbage}]
         /\ \A b \in DOMAIN bs : \A i \in DOMAIN bs[b].slots :
              t[bs[b].slots[i].key] = Decode(bs[b].slots[i]).entry
         /\ \A k \in Key :
              (\A b \in DOMAIN bs : \A i \in DOMAIN bs[b].slots : bs[b].slots[i].key # k)
                => t[k] = None
<1> DEFINE f == x.table
           bs == f.blocks
           s == BlocksOf(f)
           e == EntriesOf(f)
           R == [key : Key, entry : Entry \cup {Garbage}]
<1>1. /\ Len(bs) \in Nat /\ DOMAIN bs = 1..Len(bs)
      /\ \A b \in DOMAIN bs :
           /\ bs[b].slots \in Seq(Cell) /\ Len(bs[b].slots) \in Nat
           /\ DOMAIN bs[b].slots = 1..Len(bs[b].slots)
           /\ \A i \in DOMAIN bs[b].slots : bs[b].slots[i] \in Cell
  <2>1. /\ Len(bs) \in Nat /\ DOMAIN bs = 1..Len(bs)
        /\ \A b \in DOMAIN bs :
             /\ bs[b].slots \in Cells /\ Len(bs[b].slots) \in Nat
             /\ DOMAIN bs[b].slots = 1..Len(bs[b].slots)
    BY ZenonT(60), GoodCells
  <2>2. \A b \in DOMAIN bs : bs[b].slots \in Seq(Cell)
    BY <2>1 DEF Cells, Cell
  <2>3. \A b \in DOMAIN bs : \A i \in DOMAIN bs[b].slots : bs[b].slots[i] \in Cell
    <3> TAKE b \in DOMAIN bs
    <3>1. bs[b].slots \in Seq(Cell)
      BY <2>2
    <3> QED
      BY <3>1, SeqMember
  <2> QED
    BY SMTT(60), <2>1, <2>2, <2>3
<1>2. \A b, c \in DOMAIN bs :
        \A i \in DOMAIN bs[b].slots, j \in DOMAIN bs[c].slots :
          b < c \/ (b = c /\ i < j) => bs[b].slots[i].key < bs[c].slots[j].key
  BY SMTT(60) DEF GoodFile, WellFormed
<1>3. /\ DOMAIN s = DOMAIN bs
      /\ \A b \in DOMAIN bs : /\ DOMAIN s[b] = DOMAIN bs[b].slots
                              /\ s[b] = [i \in DOMAIN bs[b].slots |-> s[b][i]]
                              /\ \A i \in DOMAIN bs[b].slots : s[b][i] = Decode(bs[b].slots[i])
      /\ s = [b \in DOMAIN bs |-> s[b]]
  BY DEF BlocksOf
<1> HIDE DEF s, bs
<1>4. ASSUME NEW b \in DOMAIN bs, NEW i \in DOMAIN bs[b].slots
      PROVE  s[b][i] \in R /\ s[b][i].key = bs[b].slots[i].key
  <2>1. bs[b].slots[i] \in Cell /\ s[b][i] = Decode(bs[b].slots[i])
    BY <1>1, <1>3
  <2> QED
    BY <2>1, DecodedCell
<1>5. s \in Seq(Seq(R))
  <2> HIDE DEF R
  <2>1. \A b \in DOMAIN bs : s[b] \in Seq(R)
    <3> TAKE b \in DOMAIN bs
    <3> DEFINE n == Len(bs[b].slots)
               g == s[b]
    <3>1. n \in Nat /\ g = [i \in 1..n |-> g[i]] /\ \A i \in 1..n : g[i] \in R
      BY <1>1, <1>3, <1>4
    <3> HIDE DEF n, g
    <3>2. g \in Seq(R)
      BY <3>1
    <3> QED
      BY <3>2 DEF g
  <2>2. DOMAIN bs = 1..Len(bs) /\ Len(bs) \in Nat
    BY <1>1
  <2> DEFINE n == Len(bs)
  <2>3. n \in Nat /\ s = [b \in 1..n |-> s[b]] /\ \A b \in 1..n : s[b] \in Seq(R)
    BY <1>3, <2>1, <2>2
  <2> HIDE DEF n
  <2> QED
    BY <2>3
<1>6. /\ e \in Seq(R)
      /\ \A p \in DOMAIN e : \E b \in DOMAIN bs : \E i \in DOMAIN bs[b].slots : e[p] = s[b][i]
      /\ \A b \in DOMAIN bs : \A i \in DOMAIN bs[b].slots : \E p \in DOMAIN e : e[p] = s[b][i]
  <2> HIDE DEF R
  <2>0. e = FlattenSeq(s)
    BY DEF EntriesOf, s
  <2>1. CASE s = <<>>
    <3>1. e = <<>> /\ DOMAIN bs = {}
      BY <1>3, <2>0, <2>1, FlattenNone
    <3>2. <<>> \in Seq(R)
      OBVIOUS
    <3>3. DOMAIN <<>> = {}
      OBVIOUS
    <3> HIDE DEF e
    <3>4. DOMAIN e = {} /\ e \in Seq(R)
      BY <3>1, <3>2, <3>3
    <3> QED
      BY <3>1, <3>4
  <2>2. CASE s # <<>>
    <3>1. FlattenSeq(s) \in Seq(R) /\ Spans(s, Len(s), FlattenSeq(s))
      BY <1>5, <2>2, Flattened
    <3>2. DOMAIN bs = 1..Len(s) /\ DOMAIN s = 1..Len(s)
      BY <1>3, <1>5
    <3>3. \A b \in DOMAIN bs : DOMAIN s[b] = DOMAIN bs[b].slots
      BY <1>3
    <3> HIDE DEF e
    <3>4. /\ \A p \in DOMAIN e : \E b \in 1..Len(s) : \E i \in DOMAIN s[b] : e[p] = s[b][i]
          /\ \A b \in 1..Len(s) : \A i \in DOMAIN s[b] : \E p \in DOMAIN e : e[p] = s[b][i]
      BY <2>0, <3>1 DEF Spans
    <3>5. e \in Seq(R)
      BY <2>0, <3>1
    <3> QED
      <4>1. ASSUME NEW p \in DOMAIN e
            PROVE  \E b \in DOMAIN bs : \E i \in DOMAIN bs[b].slots : e[p] = s[b][i]
        <5>1. PICK b \in 1..Len(s) : \E i \in DOMAIN s[b] : e[p] = s[b][i]
          BY <3>4
        <5>2. b \in DOMAIN bs /\ DOMAIN s[b] = DOMAIN bs[b].slots
          BY <3>2, <3>3
        <5> QED
          BY <5>1, <5>2
      <4>2. ASSUME NEW b \in DOMAIN bs, NEW i \in DOMAIN bs[b].slots
            PROVE  \E p \in DOMAIN e : e[p] = s[b][i]
        <5>1. b \in 1..Len(s) /\ i \in DOMAIN s[b]
          BY <3>2, <3>3
        <5> QED
          BY <3>4, <5>1
      <4> QED
        BY <3>5, <4>1, <4>2
  <2> QED
    BY <2>1, <2>2
<1> HIDE DEF e
<1>7. ASSUME NEW b \in DOMAIN bs, NEW i \in DOMAIN bs[b].slots,
             NEW c \in DOMAIN bs, NEW j \in DOMAIN bs[c].slots,
             bs[b].slots[i].key = bs[c].slots[j].key
      PROVE  b = c /\ i = j
  <2> DEFINE k == bs[b].slots[i].key
             h == bs[c].slots[j].key
  <2>1. k \in Int /\ h \in Int /\ k = h
    BY <1>1, <1>7, KeysAreOrdered DEF Cell
  <2>2. /\ b < c \/ (b = c /\ i < j) => k < h
        /\ c < b \/ (c = b /\ j < i) => h < k
    BY <1>2
  <2>3. b \in Nat /\ c \in Nat /\ i \in Nat /\ j \in Nat
    BY SMTT(60), <1>1
  <2> HIDE DEF k, h
  <2> QED
    BY <2>1, <2>2, <2>3
<1> DEFINE t == TableOf(e)
<1>8. \A k \in Key :
        t[k] = IF \E p \in DOMAIN e : e[p].key = k
               THEN e[CHOOSE p \in DOMAIN e : e[p].key = k].entry ELSE None
  BY DEF TableOf
<1>9. ASSUME NEW b \in DOMAIN bs, NEW i \in DOMAIN bs[b].slots
      PROVE  t[bs[b].slots[i].key] = Decode(bs[b].slots[i]).entry
  <2> DEFINE k == bs[b].slots[i].key
  <2>1. PICK p \in DOMAIN e : e[p] = s[b][i]
    BY <1>6
  <2>2. k \in Key /\ e[p].key = k
    BY <1>1, <1>4, <2>1 DEF Cell
  <2> DEFINE q == CHOOSE q \in DOMAIN e : e[q].key = k
  <2>3. q \in DOMAIN e /\ e[q].key = k
    BY <2>2
  <2> HIDE DEF q
  <2>0. PICK c \in DOMAIN bs : \E j \in DOMAIN bs[c].slots : e[q] = s[c][j]
    BY <1>6, <2>3
  <2>4. PICK j \in DOMAIN bs[c].slots : e[q] = s[c][j]
    BY <2>0
  <2>5. c = b /\ j = i
    BY <1>4, <1>7, <2>3, <2>4
  <2>6. t[k] = e[q].entry
    BY <1>8, <2>2, <2>3 DEF q
  <2> HIDE DEF t
  <2> QED
    BY <1>3, <2>4, <2>5, <2>6
<1>10. ASSUME NEW k \in Key,
              \A b \in DOMAIN bs : \A i \in DOMAIN bs[b].slots : bs[b].slots[i].key # k
       PROVE  t[k] = None
  <2>1. ASSUME NEW p \in DOMAIN e, e[p].key = k
        PROVE  FALSE
    <3>0. PICK b \in DOMAIN bs : \E i \in DOMAIN bs[b].slots : e[p] = s[b][i]
      BY <1>6
    <3>1. PICK i \in DOMAIN bs[b].slots : e[p] = s[b][i]
      BY <3>0
    <3> QED
      BY <1>4, <1>10, <2>1, <3>1
  <2> HIDE DEF t
  <2> QED
    BY <1>8, <2>1
<1>11. t \in [Key -> Entry \cup {None, Garbage}]
  <2>1. t = [k \in Key |-> t[k]]
    BY DEF TableOf
  <2>2. ASSUME NEW k \in Key
        PROVE  t[k] \in Entry \cup {None, Garbage}
    <3>1. CASE \E p \in DOMAIN e : e[p].key = k
      <4> DEFINE q == CHOOSE q \in DOMAIN e : e[q].key = k
      <4>1. q \in DOMAIN e
        BY <3>1
      <4>2. t[k] = e[q].entry
        BY <1>8, <3>1
      <4> HIDE DEF q, t
      <4>3. e[q] \in R
        <5> HIDE DEF R
        <5> QED
          BY <1>6, <4>1, SeqMember
      <4> QED
        BY <4>2, <4>3
    <3>2. CASE ~\E p \in DOMAIN e : e[p].key = k
      BY <1>8, <3>2
    <3> QED
      BY <3>1, <3>2
  <2> HIDE DEF t
  <2> QED
    BY <2>1, <2>2
<1> HIDE DEF t
<1> QED
  BY <1>9, <1>10, <1>11 DEF t, e, bs

\* A value of a block becomes garbage: the checksum tells.
LEMMA GarbledStaysGood ==
  ASSUME NEW x, GoodFile(x), NEW b,
         \A c \in DOMAIN x.table.blocks : x.table.blocks[c].crc = x.table.blocks[c].slots
  PROVE  GoodFile([x EXCEPT !.table = [x.table EXCEPT !.blocks[b].slots[1].slot = Garbage]])
<1> DEFINE f == x.table
           bs == f.blocks
           cs == [bs EXCEPT ![b].slots[1].slot = Garbage]
           g == [f EXCEPT !.blocks = cs]
           y == [x EXCEPT !.table = g]
           S == [slots : Cells, crc : Cells]
<1>1. /\ x = [table |-> f, filter |-> x.filter] /\ x.filter \in SUBSET Nat
      /\ f = [index |-> f.index, blocks |-> bs] /\ f.index \in Seq(Key) /\ f.index # <<>>
      /\ bs \in Seq(S)
  BY DEF GoodFile, DataFile
<1>2. y = [table |-> g, filter |-> x.filter] /\ g = [index |-> f.index, blocks |-> cs]
      /\ y.table = g /\ g.blocks = cs /\ g.index = f.index
  <2> HIDE DEF cs
  <2> QED
    BY <1>1
<1>3. /\ Len(bs) \in Nat /\ DOMAIN bs = 1..Len(bs)
      /\ \A c \in DOMAIN bs :
           /\ bs[c] = [slots |-> bs[c].slots, crc |-> bs[c].crc]
           /\ bs[c].crc \in Cells /\ bs[c].slots \in Cells /\ bs[c].slots # <<>>
           /\ Len(bs[c].slots) \in Nat \ {0} /\ DOMAIN bs[c].slots = 1..Len(bs[c].slots)
           /\ 1 \in DOMAIN bs[c].slots
           /\ \A i \in DOMAIN bs[c].slots :
                /\ bs[c].slots[i].key \in Key
                /\ bs[c].slots[i] = [key |-> bs[c].slots[i].key, slot |-> bs[c].slots[i].slot]
  <2>0. ASSUME NEW S2, NEW q \in Seq(S2)
        PROVE  Len(q) \in Nat /\ DOMAIN q = 1..Len(q) /\ (q # <<>> => Len(q) \in Nat \ {0} /\ 1 \in DOMAIN q)
    OBVIOUS
  <2>1. GoodFile(x)
    OBVIOUS
  <2>2. \A c \in DOMAIN bs : bs[c].slots # <<>>
    BY SMTT(60) DEF GoodFile, WellFormed
  <2>3. \A c \in DOMAIN bs :
           /\ bs[c] = [slots |-> bs[c].slots, crc |-> bs[c].crc]
           /\ bs[c].crc \in Cells /\ bs[c].slots \in Cells
    BY ONLY SMTT(60), <2>1, GoodCells DEF f, bs
  <2>4. \A c \in DOMAIN bs :
           \A i \in DOMAIN bs[c].slots :
                /\ bs[c].slots[i].key \in Key
                /\ bs[c].slots[i] = [key |-> bs[c].slots[i].key, slot |-> bs[c].slots[i].slot]
    <3>1. ASSUME NEW c \in DOMAIN bs
          PROVE  \A i \in DOMAIN bs[c].slots : bs[c].slots[i] \in Cell
      <4> DEFINE q == bs[c].slots
      <4>1. q \in Seq(Cell) /\ DOMAIN q = 1..Len(q)
        BY <2>3, <2>0 DEF Cells, Cell
      <4> HIDE DEF q
      <4>2. \A i \in DOMAIN q : q[i] \in Cell
        BY <4>1, SeqMember
      <4> QED
        BY <4>2 DEF q
    <3>2. \A u \in Cell : u.key \in Key /\ u = [key |-> u.key, slot |-> u.slot]
      BY DEF Cell
    <3> HIDE DEF bs
    <3> QED
      BY ONLY <3>1, <3>2
  <2>6. \A c \in DOMAIN bs : 
           /\ Len(bs[c].slots) \in Nat \ {0} /\ DOMAIN bs[c].slots = 1..Len(bs[c].slots)
           /\ 1 \in DOMAIN bs[c].slots
    BY ONLY <2>2, <2>3, <2>0 DEF Cells
  <2>7. Len(bs) \in Nat /\ DOMAIN bs = 1..Len(bs)
    BY <1>1, <2>0
  <2> HIDE DEF bs
  <2> QED
    BY ONLY <2>2, <2>3, <2>4, <2>6, <2>7
<1>4. WellFormed(f)
  BY DEF GoodFile
<1>5. CASE b \notin DOMAIN bs
  <2>1. cs = bs
    BY <1>1, <1>5
  <2> QED
    BY ZenonT(60), <1>1, <1>2, <2>1
<1>6. CASE b \in DOMAIN bs
  <2> DEFINE sl == bs[b].slots
             ts == [sl EXCEPT ![1].slot = Garbage]
             d == [bs[b] EXCEPT !.slots = ts]
             u == [key |-> sl[1].key, slot |-> Garbage]
  <2>1. u \in Cell /\ [sl[1] EXCEPT !.slot = Garbage] = u
    <3>1. \A k, c : [[key |-> k, slot |-> c] EXCEPT !.slot = Garbage] = [key |-> k, slot |-> Garbage]
      BY SMTT(60)
    <3>2. sl[1].key \in Key /\ sl[1] = [key |-> sl[1].key, slot |-> sl[1].slot]
      BY ZenonT(60), <1>3, <1>6
    <3>3. u \in Cell
      BY <3>2 DEF Cell
    <3>4. [sl[1] EXCEPT !.slot = Garbage] = u
      <4> DEFINE k0 == sl[1].key
                 c0 == sl[1].slot
                 s1 == sl[1]
      <4>1. s1 = [key |-> k0, slot |-> c0] /\ u = [key |-> k0, slot |-> Garbage]
        BY <3>2
      <4> HIDE DEF k0, c0, s1, u
      <4>2. [s1 EXCEPT !.slot = Garbage] = u
        BY SMTT(60), <3>1, <4>1
      <4> QED
        BY <4>2 DEF s1
    <3> QED
      BY <3>3, <3>4
  <2>2. ts = [i \in 1..Len(sl) |-> IF i = 1 THEN u ELSE sl[i]]
    <3>1. ts = [i \in DOMAIN sl |-> IF i = 1 THEN [sl[1] EXCEPT !.slot = Garbage] ELSE sl[i]]
      OBVIOUS
    <3> QED
      BY ZenonT(60), <1>3, <1>6, <2>1, <3>1
  <2>3. d = [slots |-> ts, crc |-> bs[b].crc]
    <3> DEFINE a0 == bs[b].slots
               c0 == bs[b].crc
               b0 == bs[b]
    <3>1. \A a, c, v : [[slots |-> a, crc |-> c] EXCEPT !.slots = v] = [slots |-> v, crc |-> c]
      BY SMTT(60)
    <3>2. b0 = [slots |-> a0, crc |-> c0]
      BY <1>3, <1>6
    <3> HIDE DEF ts, a0, c0, b0
    <3>3. [b0 EXCEPT !.slots = ts] = [slots |-> ts, crc |-> c0]
      BY SMTT(60), <3>1, <3>2
    <3> QED
      BY <3>3 DEF b0, c0
  <2>4. cs = [c \in 1..Len(bs) |-> IF c = b THEN d ELSE bs[c]]
    BY <1>3, <1>6
  <2>5. ts \in Cells /\ DOMAIN ts = DOMAIN sl /\ ts # <<>> /\ ts[1].slot = Garbage
        /\ \A i \in DOMAIN sl : ts[i].key = sl[i].key
    <3>1. \A i \in 1..Len(sl) : sl[i] \in Cell
      <4>1. sl \in Seq(Cell) /\ DOMAIN sl = 1..Len(sl)
        BY <1>3, <1>6 DEF Cells, Cell
      <4> HIDE DEF sl
      <4> QED
        BY <4>1, SeqMember
    <3>2. Len(sl) \in Nat \ {0} /\ DOMAIN sl = 1..Len(sl)
      BY <1>3, <1>6
    <3>3. u.key = sl[1].key /\ u.slot = Garbage
      OBVIOUS
    <3> HIDE DEF sl, u, ts
    <3>4. DOMAIN ts = 1..Len(sl) /\ \A i \in 1..Len(sl) : ts[i] = IF i = 1 THEN u ELSE sl[i]
      BY <2>2
    <3>5. \A i \in 1..Len(sl) : ts[i] \in Cell
      BY <2>1, <3>1, <3>4
    <3>6. ts \in Seq(Cell) /\ ts # <<>> /\ 1 \in 1..Len(sl)
      BY <2>2, <3>2, <3>5
    <3> QED
      BY <3>2, <3>3, <3>4, <3>6 DEF Cells, Cell
  <2> HIDE DEF sl, ts
  <2>6. ts # bs[b].crc
    <3>1. bs[b].crc = sl
      BY SMTT(60), <1>6 DEF sl
    <3>2. sl[1].slot # Garbage /\ 1 \in DOMAIN sl
      BY <1>3, <1>4, <1>6, <3>1 DEF sl, WellFormed
    <3> QED
      BY <2>5, <3>1, <3>2
  <2>7. d.slots = ts /\ d.crc = bs[b].crc /\ d \in S
    BY ZenonT(60), <1>3, <1>6, <2>3, <2>5
  <2> HIDE DEF d
  <2>8. DOMAIN cs = DOMAIN bs /\ \A c \in DOMAIN bs : cs[c] = IF c = b THEN d ELSE bs[c]
    BY <1>3, <2>4
  <2>9. cs \in Seq(S)
    <3>1. \A c \in 1..Len(bs) : cs[c] \in S
      <4> HIDE DEF cs, S
      <4> QED
        BY <1>1, <1>3, <2>7, <2>8, SeqMember
    <3>2. cs = [c \in 1..Len(bs) |-> cs[c]] /\ Len(bs) \in Nat
      BY <1>3, <2>4
    <3> HIDE DEF cs, S, bs
    <3> QED
      BY <3>1, <3>2
  <2> HIDE DEF cs, bs
  <2>10. WellFormed(g)
    <3>1. ASSUME NEW c \in DOMAIN cs
          PROVE  /\ cs[c].slots # <<>> /\ DOMAIN cs[c].slots = DOMAIN bs[c].slots
                 /\ \A i \in DOMAIN cs[c].slots : cs[c].slots[i].key = bs[c].slots[i].key
                 /\ cs[c].crc = cs[c].slots =>
                      \A i \in DOMAIN cs[c].slots : cs[c].slots[i].slot # Garbage
      <4>1. CASE c = b
        BY SMTT(60), <1>6, <2>5, <2>6, <2>7, <2>8, <4>1 DEF sl
      <4>2. CASE c # b
        BY SMTT(60), <1>3, <1>4, <2>8, <4>2 DEF WellFormed, bs
      <4> QED
        BY <4>1, <4>2
    <3>2. \A c, e \in DOMAIN bs :
            \A i \in DOMAIN bs[c].slots, j \in DOMAIN bs[e].slots :
              c < e \/ (c = e /\ i < j) => bs[c].slots[i].key < bs[e].slots[j].key
      BY <1>4 DEF WellFormed, bs
    <3>3. \A c, e \in DOMAIN cs :
            \A i \in DOMAIN cs[c].slots, j \in DOMAIN cs[e].slots :
              c < e \/ (c = e /\ i < j) => cs[c].slots[i].key < cs[e].slots[j].key
      BY <2>8, <3>1, <3>2
    <3> HIDE DEF g
    <3> QED
      BY <1>2, <3>1, <3>3 DEF WellFormed
  <2>11. y \in DataFile
    <3> HIDE DEF g, y
    <3> QED
      BY <1>1, <1>2, <2>9 DEF DataFile
  <2> HIDE DEF g, y
  <2>12. GoodFile(y)
    BY <1>1, <1>2, <2>10, <2>11 DEF GoodFile
  <2> QED
    BY <2>12 DEF y, g, cs, bs, f
<1> QED
  BY <1>5, <1>6

\* The last block is lost: so is what the index says of it.
LEMMA ShortStaysGood ==
  ASSUME NEW x, GoodFile(x)
  PROVE  GoodFile([x EXCEPT !.table = [x.table EXCEPT !.blocks = Front(@)]])
<1> DEFINE f == x.table
           bs == f.blocks
           cs == Front(bs)
           g == [f EXCEPT !.blocks = cs]
           y == [x EXCEPT !.table = g]
           S == [slots : Cells, crc : Cells]
<1>1. /\ x = [table |-> f, filter |-> x.filter] /\ x.filter \in SUBSET Nat
      /\ f = [index |-> f.index, blocks |-> bs] /\ f.index \in Seq(Key) /\ f.index # <<>>
      /\ bs \in Seq(S)
  BY DEF GoodFile, DataFile
<1>2. y = [table |-> g, filter |-> x.filter] /\ g = [index |-> f.index, blocks |-> cs]
      /\ y.table = g /\ g.blocks = cs /\ g.index = f.index
  <2> HIDE DEF cs
  <2> QED
    BY <1>1
<1>3. cs \in Seq(S) /\ DOMAIN cs \subseteq DOMAIN bs /\ \A c \in DOMAIN cs : cs[c] = bs[c]
  <2> HIDE DEF S, bs
  <2>1. Len(bs) \in Nat /\ DOMAIN bs = 1..Len(bs) /\ \A i \in 1..Len(bs) : bs[i] \in S
    BY <1>1
  <2>2. cs = SubSeq(bs, 1, Len(bs) - 1)
    BY DEF Front
  <2>3. cs = [i \in 1..Len(bs) - 1 |-> bs[i]]
    BY <2>1, <2>2
  <2>4. \A i \in 1..Len(bs) - 1 : i \in 1..Len(bs)
    BY <2>1
  <2>5. CASE Len(bs) = 0
    <3>1. cs = <<>> /\ DOMAIN cs = {}
      BY <2>3, <2>5
    <3> QED
      BY <3>1
  <2>6. CASE Len(bs) # 0
    <3>1. Len(bs) - 1 \in Nat
      BY SMTT(60), <2>1, <2>6
    <3> QED
      BY <2>1, <2>3, <2>4, <3>1
  <2> QED
    BY <2>5, <2>6
<1> HIDE DEF cs
<1>4. WellFormed(g)
  <2>1. WellFormed(f)
    BY DEF GoodFile
  <2> HIDE DEF g
  <2> QED
    BY SMTT(60), <1>2, <1>3, <2>1 DEF WellFormed
<1>5. y \in DataFile
  <2> HIDE DEF g, y
  <2> QED
    BY <1>1, <1>2, <1>3 DEF DataFile
<1> HIDE DEF g, y
<1>6. GoodFile(y)
  BY <1>1, <1>2, <1>4, <1>5 DEF GoodFile
<1> QED
  BY <1>6 DEF y, g, cs, bs, f

-----------------------------------------------------------------------------
(***************************************************************************)
(* The readers of a merge.                                                 *)
(***************************************************************************)
Whole(f, b) == f.blocks[b].crc = f.blocks[b].slots
CellKey(f, b, i) == f.blocks[b].slots[i].key

\* A reader of f at entry a of block b, or past the last block, that has passed
\* the keys up to cur.
ReaderAt(f, b, a, cur) ==
  /\ b \in 1..Len(f.blocks) + 1 /\ a \in Nat \ {0}
  /\ b <= Len(f.blocks) => a <= Len(f.blocks[b].slots)
  /\ \A c \in DOMAIN f.blocks :
       /\ c <= b => Whole(f, c)
       /\ \A i \in DOMAIN f.blocks[c].slots :
            IF c < b \/ (c = b /\ i < a)
            THEN cur # None /\ CellKey(f, c, i) <= cur
            ELSE cur = None \/ cur <= CellKey(f, c, i)

\* The positions of the entries of a file, and their order.
LEMMA FileCells ==
  ASSUME NEW x, GoodFile(x)
  PROVE  LET f == x.table IN
         /\ Len(f.blocks) \in Nat /\ DOMAIN f.blocks = 1..Len(f.blocks)
         /\ \A b \in 1..Len(f.blocks) :
              /\ Len(f.blocks[b].slots) \in Nat \ {0}
              /\ DOMAIN f.blocks[b].slots = 1..Len(f.blocks[b].slots)
              /\ \A i \in 1..Len(f.blocks[b].slots) : CellKey(f, b, i) \in Key
         /\ \A b, c \in 1..Len(f.blocks) :
              \A i \in 1..Len(f.blocks[b].slots), j \in 1..Len(f.blocks[c].slots) :
                b < c \/ (b = c /\ i < j) => CellKey(f, b, i) < CellKey(f, c, j)
<1> DEFINE f == x.table
           bs == f.blocks
<1>1. /\ Len(bs) \in Nat /\ DOMAIN bs = 1..Len(bs)
      /\ \A b \in DOMAIN bs : bs[b].slots \in Cells
      /\ \A b \in DOMAIN bs : Len(bs[b].slots) \in Nat \ {0} /\ DOMAIN bs[b].slots = 1..Len(bs[b].slots)
  BY ZenonT(60), GoodCells
<1>2. ASSUME NEW b \in DOMAIN bs, NEW i \in DOMAIN bs[b].slots
      PROVE  bs[b].slots[i].key \in Key
  <2> DEFINE q == bs[b].slots
  <2>1. q \in Seq(Cell)
    BY <1>1 DEF Cells, Cell
  <2> HIDE DEF q
  <2>2. \A j \in DOMAIN q : q[j] \in Cell
    BY <2>1, SeqMember
  <2>3. \A u \in Cell : u.key \in Key
    BY DEF Cell
  <2>4. i \in DOMAIN q
    BY DEF q
  <2>5. q[i].key \in Key
    BY <2>2, <2>3, <2>4
  <2> QED
    BY <2>5 DEF q
<1>3. WellFormed(f)
  BY DEF GoodFile
<1>4. \A b, c \in DOMAIN bs :
        \A i \in DOMAIN bs[b].slots, j \in DOMAIN bs[c].slots :
          b < c \/ (b = c /\ i < j) => bs[b].slots[i].key < bs[c].slots[j].key
  BY <1>3 DEF WellFormed
<1> HIDE DEF f
<1>5. \A b \in 1..Len(bs) : \A i \in 1..Len(bs[b].slots) : CellKey(f, b, i) \in Key
  BY <1>1, <1>2, Zenon DEF CellKey
<1>6. \A b, c \in 1..Len(bs) :
        \A i \in 1..Len(bs[b].slots), j \in 1..Len(bs[c].slots) :
          b < c \/ (b = c /\ i < j) => CellKey(f, b, i) < CellKey(f, c, j)
  <2> SUFFICES ASSUME NEW b \in 1..Len(bs), NEW c \in 1..Len(bs),
                      NEW i \in 1..Len(bs[b].slots), NEW j \in 1..Len(bs[c].slots),
                      b < c \/ (b = c /\ i < j)
               PROVE  CellKey(f, b, i) < CellKey(f, c, j)
    OBVIOUS
  <2>1. b \in DOMAIN bs /\ c \in DOMAIN bs
    BY <1>1, Zenon
  <2>2. i \in DOMAIN bs[b].slots /\ j \in DOMAIN bs[c].slots
    BY <1>1, <2>1, Zenon
  <2>3. bs[b].slots[i].key < bs[c].slots[j].key
    BY <1>4, <2>1, <2>2, Zenon
  <2> QED
    BY <2>3, Zenon DEF CellKey
<1>7. \A b \in 1..Len(bs) : 
        /\ Len(bs[b].slots) \in Nat \ {0}
        /\ DOMAIN bs[b].slots = 1..Len(bs[b].slots)
  BY <1>1, Zenon
<1> QED
  BY <1>1, <1>5, <1>6, <1>7, ZenonT(60) DEF f

\* A file just opened.
LEMMA FirstEntry ==
  ASSUME NEW x, GoodFile(x), Len(x.table.blocks) = Len(x.table.index),
         Whole(x.table, 1)
  PROVE  /\ 1 <= Len(x.table.blocks) /\ 1 <= Len(x.table.blocks[1].slots)
         /\ ReaderAt(x.table, 1, 1, None)
<1> DEFINE f == x.table
           L == Len(f.blocks)
           N == Len(f.blocks[1].slots)
<1>1. /\ L \in Nat /\ DOMAIN f.blocks = 1..L
      /\ \A b \in 1..L : /\ Len(f.blocks[b].slots) \in Nat \ {0}
                         /\ DOMAIN f.blocks[b].slots = 1..Len(f.blocks[b].slots)
  BY FileCells
<1>2. L # 0
  <2>1. Len(f.index) # 0
    BY GoodCells
  <2> QED
    BY <2>1
<1>3. 1 \in 1..L /\ 1 \in 1..L + 1
  BY <1>1, <1>2
<1>4. N \in Nat \ {0}
  BY <1>1, <1>3
<1>5. 1 <= L /\ 1 <= N
  BY <1>3, <1>4
<1>6. \A c \in 1..L : (c <= 1 => c = 1) /\ ~(c < 1)
  OBVIOUS
<1>7. ASSUME NEW c \in 1..L, NEW i \in DOMAIN f.blocks[c].slots
      PROVE  ~(i < 1)
  BY <1>1
<1> HIDE DEF f, L, N
<1>8. ReaderAt(f, 1, 1, None)
  BY <1>1, <1>3, <1>5, <1>6, <1>7 DEF ReaderAt, L, N, f
<1> QED
  BY <1>5, <1>8 DEF L, N, f

\* The reader is advanced.
LEMMA NextEntry ==
  ASSUME NEW x, GoodFile(x), NEW b, NEW a, NEW cur, ReaderAt(x.table, b, a, cur),
         b <= Len(x.table.blocks), NEW bb, NEW aa,
         IF a < Len(x.table.blocks[b].slots) THEN bb = b /\ aa = a + 1 ELSE bb = b + 1 /\ aa = 1,
         bb <= Len(x.table.blocks) => Whole(x.table, bb)
  PROVE  ReaderAt(x.table, bb, aa, CellKey(x.table, b, a))
<1> DEFINE f == x.table
           L == Len(f.blocks)
           N(c) == Len(f.blocks[c].slots)
           K(c, i) == CellKey(f, c, i)
<1>1. /\ L \in Nat /\ DOMAIN f.blocks = 1..L
      /\ \A c \in 1..L : N(c) \in Nat \ {0} /\ DOMAIN f.blocks[c].slots = 1..N(c)
      /\ \A c \in 1..L : \A i \in 1..N(c) : K(c, i) \in Key
      /\ \A c, e \in 1..L : \A i \in 1..N(c), j \in 1..N(e) :
           c < e \/ (c = e /\ i < j) => K(c, i) < K(e, j)
  BY FileCells
<1>2. /\ b \in 1..L + 1 /\ b <= L /\ a \in Nat \ {0} /\ a <= N(b)
      /\ \A c \in 1..L : c <= b => Whole(f, c)
  BY <1>1 DEF ReaderAt
<1>3. (a < N(b) /\ bb = b /\ aa = a + 1) \/ (~(a < N(b)) /\ bb = b + 1 /\ aa = 1)
  OBVIOUS
<1>4. bb <= L => Whole(f, bb)
  OBVIOUS
<1> HIDE DEF f, L, N, K
<1>5. b \in 1..L /\ a \in 1..N(b) /\ N(b) \in Nat /\ K(b, a) \in Key
  <2>1. b \in 1..L
    BY <1>1, <1>2
  <2>2. a \in 1..N(b) /\ N(b) \in Nat
    BY <1>1, <1>2, <2>1
  <2> QED
    BY <1>1, <2>1, <2>2
<1>6. bb \in 1..L + 1 /\ aa \in Nat \ {0} /\ (bb <= L => aa <= N(bb))
  <2>1. CASE a < N(b) /\ bb = b /\ aa = a + 1
    BY <1>1, <1>5, <2>1
  <2>2. CASE bb = b + 1 /\ aa = 1
    <3>1. bb \in 1..L + 1 /\ (bb <= L => bb \in 1..L)
      BY <1>1, <1>5, <2>2
    <3> QED
      BY <1>1, <2>2, <3>1
  <2> QED
    BY <1>3, <2>1, <2>2
<1>7. ASSUME NEW c \in 1..L
      PROVE  c <= bb => Whole(f, c)
  <2>1. c <= bb => c <= b \/ c = bb
    BY <1>1, <1>3, <1>5
  <2>2. c <= L
    BY <1>1
  <2> QED
    BY <1>2, <1>4, <2>1, <2>2
<1>8. ASSUME NEW c \in 1..L, NEW i \in 1..N(c)
      PROVE  IF c < bb \/ (c = bb /\ i < aa) THEN K(c, i) <= K(b, a) ELSE K(b, a) <= K(c, i)
  <2>0. N(c) \in Nat /\ K(c, i) \in Int /\ K(b, a) \in Int
    BY <1>1, <1>5, KeysAreOrdered
  <2>1. CASE c < b \/ (c = b /\ i < a)
    <3>1. K(c, i) < K(b, a)
      BY <1>1, <1>5, <2>1
    <3>2. c < bb \/ (c = bb /\ i < aa)
      BY <1>3, <1>5, <2>0, <2>1
    <3> QED
      BY <2>0, <3>1, <3>2
  <2>2. CASE c = b /\ i = a
    <3>1. c < bb \/ (c = bb /\ i < aa)
      BY <1>3, <1>5, <2>0, <2>2
    <3> QED
      BY <2>0, <2>2, <3>1
  <2>3. CASE b < c \/ (b = c /\ a < i)
    <3>1. K(b, a) < K(c, i)
      BY <1>1, <1>5, <2>3
    <3>2. ~(c < bb \/ (c = bb /\ i < aa))
      BY SMTT(60), <1>3, <1>5, <2>0, <2>3
    <3> QED
      BY <2>0, <3>1, <3>2
  <2> QED
    BY <1>1, <1>5, <2>0, <2>1, <2>2, <2>3
<1>9. K(b, a) # None
  BY <1>5, NothingIsNoData
<1>10. ReaderAt(f, bb, aa, K(b, a))
  <2>1. ASSUME NEW c \in DOMAIN f.blocks, NEW i \in DOMAIN f.blocks[c].slots
        PROVE  IF c < bb \/ (c = bb /\ i < aa) THEN K(b, a) # None /\ K(c, i) <= K(b, a)
                                               ELSE K(b, a) = None \/ K(b, a) <= K(c, i)
    <3>1. c \in 1..L /\ i \in 1..N(c)
      BY <1>1
    <3> QED
      BY <1>8, <1>9, <3>1
  <2>2. \A c \in DOMAIN f.blocks : c <= bb => Whole(f, c)
    BY <1>1, <1>7
  <2>3. bb \in 1..Len(f.blocks) + 1 /\ aa \in Nat \ {0} /\ (bb <= Len(f.blocks) => aa <= Len(f.blocks[bb].slots))
    BY <1>6, Zenon DEF L, N
  <2> QED
    BY <2>1, <2>2, <2>3, Zenon DEF ReaderAt, K
<1> QED
  BY <1>10 DEF f, K

\* The other readers are past no key the merge is not past.
LEMMA SameEntry ==
  ASSUME NEW x, GoodFile(x), NEW b, NEW a, NEW cur \in Key \cup {None},
         ReaderAt(x.table, b, a, cur), NEW key \in Key, cur = None \/ cur <= key,
         b <= Len(x.table.blocks) => key <= CellKey(x.table, b, a)
  PROVE  ReaderAt(x.table, b, a, key)
<1> DEFINE f == x.table
           L == Len(f.blocks)
           N(c) == Len(f.blocks[c].slots)
           K(c, i) == CellKey(f, c, i)
<1>1. /\ L \in Nat /\ DOMAIN f.blocks = 1..L
      /\ \A c \in 1..L : N(c) \in Nat \ {0} /\ DOMAIN f.blocks[c].slots = 1..N(c)
      /\ \A c \in 1..L : \A i \in 1..N(c) : K(c, i) \in Key
      /\ \A c, e \in 1..L : \A i \in 1..N(c), j \in 1..N(e) :
           c < e \/ (c = e /\ i < j) => K(c, i) < K(e, j)
  BY FileCells
<1>2. /\ b \in 1..L + 1 /\ a \in Nat \ {0} /\ (b <= L => a <= N(b))
      /\ b <= L => key <= K(b, a)
  BY DEF ReaderAt
<1>3. /\ \A c \in DOMAIN f.blocks : c <= b => Whole(f, c)
      /\ \A c \in DOMAIN f.blocks : \A i \in DOMAIN f.blocks[c].slots :
            IF c < b \/ (c = b /\ i < a)
            THEN cur # None /\ K(c, i) <= cur
            ELSE cur = None \/ cur <= K(c, i)
  BY DEF ReaderAt
<1> HIDE DEF f, L, N, K
<1>4. ASSUME NEW c \in 1..L, NEW i \in 1..N(c)
      PROVE  IF c < b \/ (c = b /\ i < a) THEN K(c, i) <= key ELSE key <= K(c, i)
  <2>0. N(c) \in Nat /\ K(c, i) \in Int /\ key \in Int /\ (cur # None => cur \in Int)
    BY <1>1, KeysAreOrdered
  <2>1. CASE c < b \/ (c = b /\ i < a)
    <3>1. cur # None /\ K(c, i) <= cur
      BY <1>1, <1>3, <2>1
    <3>2. cur \in Int /\ cur <= key
      BY <2>0, <3>1
    <3>3. K(c, i) <= key
      BY <2>0, <3>1, <3>2
    <3> QED
      BY <2>1, <3>3
  <2>2. CASE ~(c < b \/ (c = b /\ i < a))
    <3>1. b \in 1..L
      BY <1>1, <1>2, <2>2
    <3>2. a \in 1..N(b)
      BY <1>1, <1>2, <3>1
    <3>3. K(b, a) \in Int /\ key <= K(b, a)
      <4>1. K(b, a) \in Key
        BY <1>1, <3>1, <3>2
      <4>2. b <= L
        BY <1>1, <3>1
      <4> QED
        BY <1>2, <4>1, <4>2, KeysAreOrdered
    <3>4. b < c \/ (b = c /\ a < i) \/ (b = c /\ a = i)
      BY <1>1, <2>0, <2>2, <3>1, <3>2
    <3>5. K(b, a) <= K(c, i)
      <4>1. CASE b = c /\ a = i
        BY <2>0, <4>1
      <4>2. CASE b < c \/ (b = c /\ a < i)
        <5>1. K(b, a) < K(c, i)
          BY <1>1, <3>1, <3>2, <4>2
        <5> QED
          BY <2>0, <3>3, <5>1
      <4> QED
        BY <3>4, <4>1, <4>2
    <3> QED
      BY <2>0, <2>2, <3>3, <3>5
  <2> QED
    BY <2>1, <2>2
<1>5. key # None
  BY NothingIsNoData
<1>6. ASSUME NEW c \in DOMAIN f.blocks, NEW i \in DOMAIN f.blocks[c].slots
      PROVE  IF c < b \/ (c = b /\ i < a) THEN key # None /\ K(c, i) <= key
                                          ELSE key = None \/ key <= K(c, i)
  <2>1. c \in 1..L /\ i \in 1..N(c)
    BY SMTT(60), <1>1
  <2> QED
    BY <1>4, <1>5, <2>1
<1>7. b \in 1..Len(f.blocks) + 1 /\ a \in Nat \ {0} /\ (b <= Len(f.blocks) => a <= Len(f.blocks[b].slots))
  BY <1>2, Zenon DEF L, N
<1>8. ReaderAt(f, b, a, key)
  BY <1>3, <1>6, <1>7, Zenon DEF ReaderAt, K
<1> QED
  BY <1>8 DEF f

\* What a reader is at is what the file has next.
LEMMA NothingBetween ==
  ASSUME NEW x, GoodFile(x), NEW b, NEW a, NEW cur \in Key \cup {None},
         ReaderAt(x.table, b, a, cur), NEW k \in Key, cur = None \/ cur < k,
         b <= Len(x.table.blocks) => k < CellKey(x.table, b, a)
  PROVE  TableOf(EntriesOf(x.table))[k] = None
<1> DEFINE f == x.table
           L == Len(f.blocks)
           N(c) == Len(f.blocks[c].slots)
           K(c, i) == CellKey(f, c, i)
<1>1. /\ L \in Nat /\ DOMAIN f.blocks = 1..L
      /\ \A c \in 1..L : N(c) \in Nat \ {0} /\ DOMAIN f.blocks[c].slots = 1..N(c)
      /\ \A c \in 1..L : \A i \in 1..N(c) : K(c, i) \in Key
      /\ \A c, e \in 1..L : \A i \in 1..N(c), j \in 1..N(e) :
           c < e \/ (c = e /\ i < j) => K(c, i) < K(e, j)
  BY FileCells
<1>2. /\ b \in 1..L + 1 /\ a \in Nat \ {0} /\ (b <= L => a <= N(b))
      /\ b <= L => k < K(b, a)
  BY DEF ReaderAt
<1>3. \A c \in DOMAIN f.blocks : \A i \in DOMAIN f.blocks[c].slots :
            IF c < b \/ (c = b /\ i < a)
            THEN cur # None /\ K(c, i) <= cur
            ELSE cur = None \/ cur <= K(c, i)
  BY DEF ReaderAt
<1> HIDE DEF f, L, N, K
<1>4. ASSUME NEW c \in 1..L, NEW i \in 1..N(c)
      PROVE  K(c, i) # k
  <2>0. N(c) \in Nat /\ K(c, i) \in Int /\ k \in Int /\ (cur # None => cur \in Int)
    BY <1>1, KeysAreOrdered
  <2>1. CASE c < b \/ (c = b /\ i < a)
    <3>1. cur # None /\ K(c, i) <= cur
      BY <1>1, <1>3, <2>1
    <3>2. cur \in Int /\ cur < k
      BY <2>0, <3>1
    <3> QED
      BY <2>0, <3>1, <3>2
  <2>2. CASE ~(c < b \/ (c = b /\ i < a))
    <3>1. b \in 1..L
      BY <1>1, <1>2, <2>2
    <3>2. a \in 1..N(b)
      BY <1>1, <1>2, <3>1
    <3>3. K(b, a) \in Int /\ k < K(b, a)
      <4>1. K(b, a) \in Key
        BY <1>1, <3>1, <3>2
      <4>2. b <= L
        BY <1>1, <3>1
      <4> QED
        BY <1>2, <4>1, <4>2, KeysAreOrdered
    <3>4. b < c \/ (b = c /\ a < i) \/ (b = c /\ a = i)
      BY <1>1, <2>0, <2>2, <3>1, <3>2
    <3>5. CASE b = c /\ a = i
      BY <2>0, <3>3, <3>5
    <3>6. CASE b < c \/ (b = c /\ a < i)
      <4>1. K(b, a) < K(c, i)
        BY <1>1, <3>1, <3>2, <3>6
      <4> QED
        BY <2>0, <3>3, <4>1
    <3> QED
      BY <3>4, <3>5, <3>6
  <2> QED
    BY <2>1, <2>2
<1>5. \A c \in DOMAIN f.blocks : \A i \in DOMAIN f.blocks[c].slots : f.blocks[c].slots[i].key # k
  BY SMTT(60), <1>1, <1>4 DEF K, CellKey
<1> QED
  BY <1>5, ContentOf DEF f

EntryHere(f, b, a, cur) ==
  LET e == Decode(f.blocks[b].slots[a]).entry  k == CellKey(f, b, a) IN
  /\ k \in Key /\ (cur = None \/ cur <= k)
  /\ e \in Entry
  /\ TableOf(EntriesOf(f))[k] = e

LEMMA ThisEntry ==
  ASSUME NEW x, GoodFile(x), NEW b, NEW a, NEW cur,
         ReaderAt(x.table, b, a, cur), b <= Len(x.table.blocks)
  PROVE  EntryHere(x.table, b, a, cur)
<1> DEFINE f == x.table
           L == Len(f.blocks)
           q == f.blocks[b].slots
<1>1. /\ L \in Nat /\ DOMAIN f.blocks = 1..L
      /\ \A c \in 1..L : /\ Len(f.blocks[c].slots) \in Nat \ {0}
                         /\ DOMAIN f.blocks[c].slots = 1..Len(f.blocks[c].slots)
  BY FileCells
<1>2. b \in 1..L + 1 /\ a \in Nat \ {0} /\ b <= L /\ a <= Len(q)
  BY DEF ReaderAt
<1>3. b \in DOMAIN f.blocks /\ a \in DOMAIN q
  <2>1. b \in 1..L
    BY <1>1, <1>2
  <2>2. Len(q) \in Nat /\ DOMAIN q = 1..Len(q)
    BY <1>1, <2>1
  <2> HIDE DEF q, L
  <2>3. a \in 1..Len(q)
    BY <1>2, <2>2
  <2> QED
    BY <1>1, <2>1, <2>2, <2>3
<1>4. q \in Seq(Cell)
  <2>1. f.blocks[b].slots \in Cells
    BY <1>3, GoodCells
  <2> QED
    BY SMTT(60), <2>1 DEF Cells, Cell
<1>5. q[a] \in Cell
  <2> HIDE DEF q
  <2> QED
    BY <1>3, <1>4, SeqMember
<1>6. q[a].slot # Garbage
  <2>1. Whole(f, b)
    <3>1. b <= b
      BY <1>2
    <3> QED
      BY <1>3, <3>1 DEF ReaderAt
  <2>2. WellFormed(f)
    BY DEF GoodFile
  <2> QED
    BY <1>3, <2>1, <2>2 DEF WellFormed, Whole
<1>7. Decode(q[a]).entry \in Entry /\ q[a].key \in Key
  <2> HIDE DEF q
  <2> QED
    BY <1>5, <1>6, DecodedCell
<1>8. cur = None \/ cur <= q[a].key
  <2>1. ~(b < b \/ (b = b /\ a < a))
    BY SMTT(60), <1>2
  <2> QED
    BY <1>3, <2>1 DEF ReaderAt, CellKey
<1>9. TableOf(EntriesOf(f))[q[a].key] = Decode(q[a]).entry
  BY <1>3, ContentOf
<1> QED
  BY <1>7, <1>8, <1>9 DEF CellKey, EntryHere
=============================================================================
