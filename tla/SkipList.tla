------------------------------ MODULE SkipList ------------------------------
(***************************************************************************)
(* The skip list of the MemTable (memtable_skiplist.go): a linked list of  *)
(* the keys in order and, above it, lists of fewer and fewer of them.      *)
(*                                                                         *)
(* A list is a record: next[i][n] is what the next pointer of node n at    *)
(* level i leads to, value[k] the entry of the node of key k.  Levels      *)
(* count from 1 here, from 0 in the code.                                  *)
(***************************************************************************)
EXTENDS LSMTables

CONSTANTS
  MaxLevels,  \* skipListMaxLevels
  HeadNode,   \* the sentinel before the first node
  Nil         \* the end of a list

ASSUME SomeLevel == MaxLevels \in Nat \ {0}
ASSUME HeadAndNilAreNoKeys == {HeadNode, Nil} \cap Key = {} /\ HeadNode # Nil

Node == Key \cup {HeadNode}

NewSkipList ==
  [next |-> [i \in 1..MaxLevels |-> [n \in Node |-> Nil]],
   value |-> EmptyTable, levels |-> 1, size |-> 0]

\* The last node at level i, from node n on, before key k.
Walk(list, i, k, n) ==
  LET walk[c \in Node] ==
        LET d == list.next[i][c] IN IF d # Nil /\ d < k THEN walk[d] ELSE c
  IN  walk[n]

\* update[i]: where the search for k leaves level i, coming from above.
Update(list, k) ==
  LET update[i \in 1..list.levels] ==
        Walk(list, i, k, IF i = list.levels THEN HeadNode ELSE update[i + 1])
  IN  update

\* Above the bottom, what comes after the new node is cut off.
Add_cutsOff(list, k, e, height) ==
  LET update == Update(list, k)
      before(i) == IF i > list.levels THEN HeadNode ELSE update[i]
  IN  IF list.next[1][update[1]] = k
      THEN [list EXCEPT !.value[k] = e]
      ELSE [next |-> [i \in 1..MaxLevels |->
                        IF i > height THEN list.next[i]
                        ELSE [list.next[i] EXCEPT
                                ![k] = IF i = 1 THEN list.next[1][before(1)] ELSE Nil,
                                ![before(i)] = k]],
            value |-> [list.value EXCEPT ![k] = e],
            levels |-> IF height > list.levels THEN height ELSE list.levels,
            size |-> list.size + 1]

\* add: a key that is there gets the new entry, another one a new tower, whose
\* height generateLevel draws.
Add(list, k, e, height) ==
  LET update == Update(list, k)
      before(i) == IF i > list.levels THEN HeadNode ELSE update[i]
  IN  IF list.next[1][update[1]] = k
      THEN [list EXCEPT !.value[k] = e]
      ELSE [next |-> [i \in 1..MaxLevels |->
                        IF i > height THEN list.next[i]
                        ELSE [list.next[i] EXCEPT ![k] = list.next[i][before(i)],
                                                  ![before(i)] = k]],
            value |-> [list.value EXCEPT ![k] = e],
            levels |-> IF height > list.levels THEN height ELSE list.levels,
            size |-> list.size + 1]

\* get.
ListGet(list, k) ==
  IF list.next[1][Update(list, k)[1]] = k THEN list.value[k] ELSE None

\* entries: the bottom list from its head on.
Entries(list) ==
  LET from[n \in Node] ==
        LET d == list.next[1][n]
        IN  IF d = Nil THEN <<>> ELSE <<[key |-> d, entry |-> list.value[d]]>> \o from[d]
  IN  from[HeadNode]

-----------------------------------------------------------------------------
\* The keys linked at level i.
Linked(list, i) == {k \in Key : \E n \in Node : list.next[i][n] = k}

\* The towers are sound: at every level the keys ascend, from the head to the
\* end none is left out, and a level has no key the one below it has not.  A
\* search that comes down from any level then misses no key.
TowersSound(list) ==
  /\ \A i \in 1..MaxLevels :
       LET on == Linked(list, i) IN
       /\ i > list.levels => on = {}
       /\ i > 1 => on \subseteq Linked(list, i - 1)
       /\ \A n \in on \cup {HeadNode} :
            LET after == {k \in on : n = HeadNode \/ k > n}
            IN  list.next[i][n] = IF after = {} THEN Nil ELSE Min(after)
  /\ list.size = Cardinality(Linked(list, 1))
=============================================================================
