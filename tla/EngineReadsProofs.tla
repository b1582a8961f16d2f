------------------------- MODULE EngineReadsProofs -------------------------
(***************************************************************************)
(* Theorems about concurrent reads, for every number of readers and every  *)
(* instance of Engine: Get is linearizable although it looks at the        *)
(* MemTable and at the tables at two different moments.                    *)
(*                                                                         *)
(* The argument: while a Get that found nothing in the MemTable is on its  *)
(* way to the tables, what they alone would answer is a value it has seen. *)
(* It was the answer when the Get left the MemTable, and the only step     *)
(* that changes it, the publication of a flush, makes it the view of that  *)
(* moment.                                                                 *)
(***************************************************************************)
EXTENDS EngineReads, EngineProofs

\* A read in progress has seen the present view of its key, and what the
\* tables alone would answer once it does not look at the MemTable any more.
ReadsExplained ==
  \A r \in Reader :
    LET rd == reads[r] IN
    /\ rd.pc # "idle" => pc # "down" /\ rd.key \in Key
    /\ rd.pc \in {"memTable", "store"} => View[rd.key] \in rd.seen
    /\ rd.pc = "store" => Visible(StoreFind(levels, files, rd.key)) \in rd.seen

ReadInv == ReadTypeOK /\ ReadsExplained /\ GetLinearizable

-----------------------------------------------------------------------------
(***************************************************************************)
(* What lookups return.                                                    *)
(***************************************************************************)
LEMMA L1FindType ==
  ASSUME NEW I, NEW dir \in [I -> Table \cup {NoFile}],
         NEW T, NEW tables \in Seq(T), \A t \in T : t.idx \in I, NEW k \in Key
  PROVE  L1Find(tables, dir, k) \in Entry \cup {None}
<1> DEFINE hits == {i \in DOMAIN tables :
                      InRange(k, tables[i]) /\ Holds(dir[tables[i].idx], k)}
<1> SUFFICES ASSUME hits # {}
             PROVE  dir[tables[Max(hits)].idx][k] \in Entry \cup {None}
  BY Zenon DEF L1Find
<1> DEFINE m == Max(hits)
<1>1. m \in hits
  <2>1. hits \in SUBSET DOMAIN tables
    BY Zenon
  <2> HIDE DEF hits
  <2> QED
    BY <2>1, GreatestHit
<1>2. m \in DOMAIN tables /\ Holds(dir[tables[m].idx], k)
  BY <1>1, Zenon
<1> HIDE DEF m, hits
<1>3. tables[m].idx \in I
  BY <1>2
<1> QED
  BY <1>2, <1>3 DEF Holds, Table, m

LEMMA FindType ==
  ASSUME NEW mem \in Table, NEW lv \in Levels, NEW fs \in Files, NEW k \in Key
  PROVE  /\ Visible(StoreFind(lv, fs, k)) \in Val \cup {None}
         /\ Visible(Find(mem, lv, fs, k)) \in Val \cup {None}
         /\ Visible(mem[k]) \in Val \cup {None}
<1>1. /\ lv.l0 \in Seq(Idx) /\ lv.l1 \in Seq(L1Table)
      /\ \A t \in L1Table : t.idx \in Idx
  BY DEF Levels, L1Table
<1>2. /\ fs[0] \in [Idx -> Table \cup {NoFile}]
      /\ fs[1] \in [Idx -> Table \cup {NoFile}]
  BY DEF Files
<1>3. L0Find(lv.l0, fs[0], k) \in Entry \cup {None}
  BY <1>1, <1>2, L0FindType
<1>4. L1Find(lv.l1, fs[1], k) \in Entry \cup {None}
  BY <1>1, <1>2, L1FindType
<1>5. StoreFind(lv, fs, k) \in Entry \cup {None}
  BY <1>3, <1>4 DEF StoreFind
<1>6. mem[k] \in Entry \cup {None} /\ Find(mem, lv, fs, k) \in Entry \cup {None}
  BY <1>5 DEF Find, Table
<1>7. \A e \in Entry \cup {None} : Visible(e) \in Val \cup {None}
  BY DEF Visible, Entry
<1> QED
  BY <1>5, <1>6, <1>7

\* The view of a running engine has a value or None for every key.
LEMMA ViewType ==
  ASSUME TypeOK, pc # "down"
  PROVE  \A k \in Key : View[k] \in Val \cup {None}
BY FindType DEF TypeOK, View

LEMMA ViewTypePrimed ==
  ASSUME TypeOK', pc' # "down"
  PROVE  \A k \in Key : View'[k] \in Val \cup {None}
BY FindType DEF TypeOK, View

-----------------------------------------------------------------------------
(***************************************************************************)
(* What the tables alone answer.                                           *)
(***************************************************************************)
\* Only the publication of a flush changes it, to the view of that moment.
LEMMA StoreAnswers ==
  ASSUME SafetyInv, Write \/ WriterStep, NEW k \in Key
  PROVE  \/ StoreFind(levels', files', k) = StoreFind(levels, files, k)
         \/ Visible(StoreFind(levels', files', k)) = View'[k]
<1>1. CASE UNCHANGED <<levels, files>>
  BY <1>1
<1>2. CASE WriteTable \/ WriteChunk \/ RemoveInputs
  <2>1. /\ pc \in {"writeTable", "merge", "remove"}
        /\ UNCHANGED <<levels, manifest>>
    BY <1>2 DEF WriteTable, WriteChunk, RemoveInputs, manifestVars
  <2>2. manifest = levels /\ StoreInv /\ levels \in Levels
    BY <2>1 DEF SafetyInv, StoreInv, ManifestMatchesMemory, TypeOK
  <2>3. [Next]_vars
    BY DEF Next
  <2>4. \A l \in 0..1, n \in Idx : NamesTable(levels, l, n) => files'[l][n] = files[l][n]
    BY <2>1, <2>2, <2>3, StepKeepsLiveTables
  <2>5. StoreFind(levels, files', k) = StoreFind(levels, files, k)
    BY <2>2, <2>4, StoreFindSameFiles
  <2> QED
    BY <2>1, <2>5
<1>3. CASE RewriteSync \/ InstallSync
  <2>1. /\ pc \in {"rewriteSync", "installSync"} /\ UNCHANGED files
    BY <1>3 DEF RewriteSync, InstallSync, fileVars
  <2>2. levels' = manifest
    BY <1>3 DEF RewriteSync, InstallSync, SafetyInv, StoreInv, ManifestInTransit
  <2>3. StoreFind(manifest, files, k) = StoreFind(levels, files, k)
    BY <2>1, ManifestsAnswerAlike
  <2> QED
    BY <2>1, <2>2, <2>3
<1>4. CASE PublishSync
  <2>1. /\ pc = "publishSync" /\ pc' = "truncate" /\ UNCHANGED <<memTable, files>>
        /\ levels' = [levels EXCEPT !.l0 = Append(@, NewL0)]
    BY <1>4 DEF PublishSync, fileVars
  <2>2. /\ levels \in Levels /\ memTable \in Table /\ NewL0 \in Idx
        /\ files[0][NewL0] = memTable
    BY <2>1 DEF SafetyInv, StoreInv, TypeOK, FlushedTable, FlushHasNumber
  <2>3. levels'.l0 = Append(levels.l0, NewL0) /\ levels.l0 \in Seq(Idx)
    BY <2>1, <2>2 DEF Levels
  <2>4. L0Find(levels'.l0, files[0], k) =
          IF Holds(memTable, k) THEN memTable[k] ELSE L0Find(levels.l0, files[0], k)
    BY <2>2, <2>3, L0FindAppend
  <2>5. Holds(memTable, k) <=> memTable[k] # None
    BY <2>2, SentinelsAreNoData DEF Holds
  <2>6. StoreFind(levels', files', k) = Find(memTable', levels', files', k)
    BY <2>1, <2>4, <2>5 DEF Find, StoreFind
  <2> QED
    BY <2>1, <2>6 DEF View
<1> QED
  <2>1. \/ UNCHANGED <<levels, files>>
        \/ WriteTable \/ WriteChunk \/ RemoveInputs
        \/ RewriteSync \/ InstallSync \/ PublishSync
    BY DEF Write, WriterStep, Log, Flush, Compact, Begin, WalAppend, WalSync, Apply,
       RefuseTable, TableSync, Publish, WalTruncate, TruncateSync, MemClear,
       NoCompaction, StartCompaction, RewritePruned, ChunkSync, Install, fileVars
  <2> QED
    BY <1>1, <1>2, <1>3, <1>4, <2>1

-----------------------------------------------------------------------------
(***************************************************************************)
(* The steps.                                                              *)
(***************************************************************************)
\* A step of reads is a step or a stutter of Engine.
LEMMA ReadNextIsNext == [ReadNext]_readVars => [Next]_vars
<1> SUFFICES ASSUME ReadNext PROVE [Next]_vars
  BY DEF readVars
<1>1. CASE WriteBesideReads \/ Reset
  BY <1>1 DEF WriteBesideReads, Reset, Next
<1>2. CASE \E r \in Reader : Get(r) \/ \E k \in Key : StartGet(r, k)
  BY <1>2 DEF Get, StartGet, ReadMemTable, ReadStore, ReturnGet
<1> QED
  BY <1>1, <1>2 DEF ReadNext

\* A writer's step shows its new view to every read in progress.
LEMMA WriterKeepsReadInv ==
  ASSUME SafetyInv, TypeOK', ReadInv, WriteBesideReads
  PROVE  ReadInv'
<1>1. Write \/ WriterStep
  BY DEF WriteBesideReads
<1>2. pc # "down" /\ pc' # "down"
  BY <1>1 DEF Write, WriterStep, Log, Flush, Compact, Begin, WalAppend, WalSync,
     Apply, WriteTable, RefuseTable, TableSync, Publish, PublishSync, WalTruncate,
     TruncateSync, MemClear, NoCompaction, StartCompaction, RewritePruned,
     RewriteSync, WriteChunk, ChunkSync, Install, InstallSync, RemoveInputs, Unlock
<1>3. ASSUME NEW r \in Reader
      PROVE  reads'[r] = IF reads[r].pc = "idle" THEN reads[r]
                         ELSE [reads[r] EXCEPT !.seen = @ \cup {View'[reads[r].key]}]
  BY DEF WriteBesideReads
<1>4. \A k \in Key : View'[k] \in Val \cup {None}
  BY <1>2, ViewTypePrimed
<1>5. ASSUME NEW r \in Reader
      PROVE  /\ reads[r] \in [pc : {"idle", "memTable", "store", "done"},
                              key : Key \cup {None}, res : Val \cup {None},
                              seen : SUBSET (Val \cup {None})]
             /\ reads[r].pc # "idle" => reads[r].key \in Key
  BY DEF ReadInv, ReadTypeOK, ReadsExplained
<1>6. ReadTypeOK'
  <2>1. reads' = [r \in Reader |-> reads'[r]]
    BY DEF WriteBesideReads
  <2> QED
    BY <1>3, <1>4, <1>5, <2>1 DEF ReadTypeOK
<1>7. ASSUME NEW r \in Reader, reads[r].pc # "idle"
      PROVE  /\ reads'[r].pc = reads[r].pc /\ reads'[r].key = reads[r].key
             /\ reads'[r].res = reads[r].res
             /\ reads'[r].seen = reads[r].seen \cup {View'[reads[r].key]}
  BY <1>3, <1>5, <1>7
<1>8. ASSUME NEW r \in Reader, reads[r].pc = "store"
      PROVE  Visible(StoreFind(levels', files', reads[r].key)) \in reads'[r].seen
  <2>1. /\ reads[r].key \in Key
        /\ Visible(StoreFind(levels, files, reads[r].key)) \in reads[r].seen
    BY <1>8 DEF ReadInv, ReadsExplained
  <2>2. \/ StoreFind(levels', files', reads[r].key) = StoreFind(levels, files, reads[r].key)
        \/ Visible(StoreFind(levels', files', reads[r].key)) = View'[reads[r].key]
    BY <1>1, <2>1, StoreAnswers
  <2> QED
    BY <1>7, <1>8, <2>1, <2>2
<1>9. ReadsExplained'
  <2> SUFFICES ASSUME NEW r \in Reader, reads'[r].pc # "idle"
               PROVE  /\ pc' # "down" /\ reads'[r].key \in Key
                      /\ reads'[r].pc \in {"memTable", "store"} =>
                           View'[reads'[r].key] \in reads'[r].seen
                      /\ reads'[r].pc = "store" =>
                           Visible(StoreFind(levels', files', reads'[r].key)) \in reads'[r].seen
    BY DEF ReadsExplained
  <2>1. reads[r].pc # "idle"
    BY <1>3
  <2> QED
    BY <1>2, <1>5, <1>7, <1>8, <2>1
<1>10. GetLinearizable'
  BY <1>3, <1>7 DEF ReadInv, GetLinearizable
<1> QED
  BY <1>6, <1>9, <1>10 DEF ReadInv

\* A reader's step concerns its own read only.
LEMMA ReaderKeepsReadInv ==
  ASSUME SafetyInv, ReadInv, NEW r \in Reader,
         Get(r) \/ \E k \in Key : StartGet(r, k)
  PROVE  ReadInv'
<1> DEFINE rd == reads[r]  new == reads'[r]
           ReadType == [pc : {"idle", "memTable", "store", "done"},
                        key : Key \cup {None}, res : Val \cup {None},
                        seen : SUBSET (Val \cup {None})]
<1>1. reads \in [Reader -> ReadType] /\ rd \in ReadType
  BY DEF ReadInv, ReadTypeOK
<1>2. UNCHANGED vars
  BY DEF Get, StartGet, ReadMemTable, ReadStore, ReturnGet
<1>3. /\ View' = View
      /\ \A k : StoreFind(levels', files', k) = StoreFind(levels, files, k)
      /\ pc' = pc
  BY <1>2 DEF View, vars, volatileVars, walVars, manifestVars, fileVars
<1>4. /\ levels \in Levels /\ files \in Files /\ memTable \in Table /\ TypeOK
  BY DEF SafetyInv, StoreInv, TypeOK
<1>5. SUFFICES /\ reads' \in [Reader -> ReadType]
               /\ \A q \in Reader \ {r} : reads'[q] = reads[q]
               /\ new.pc # "idle" => pc # "down" /\ new.key \in Key
               /\ new.pc \in {"memTable", "store"} => View[new.key] \in new.seen
               /\ new.pc = "store" =>
                    Visible(StoreFind(levels, files, new.key)) \in new.seen
               /\ new.pc = "done" => new.res \in new.seen
  BY <1>3 DEF ReadInv, ReadTypeOK, ReadsExplained, GetLinearizable
<1>6. /\ rd.pc # "idle" => pc # "down" /\ rd.key \in Key
      /\ rd.pc \in {"memTable", "store"} => View[rd.key] \in rd.seen
      /\ rd.pc = "store" => Visible(StoreFind(levels, files, rd.key)) \in rd.seen
  BY DEF ReadInv, ReadsExplained
<1>7. CASE \E k \in Key : StartGet(r, k)
  <2>1. PICK k \in Key : StartGet(r, k)
    BY <1>7
  <2>2. /\ pc # "down"
        /\ reads' = [reads EXCEPT ![r] =
             [pc |-> "memTable", key |-> k, res |-> None, seen |-> {View[k]}]]
    BY <2>1 DEF StartGet
  <2>3. View[k] \in Val \cup {None}
    BY <1>4, <2>2, ViewType
  <2> QED
    BY <1>1, <2>2, <2>3
<1>8. CASE ReadMemTable(r)
  <2> DEFINE e == memTable[rd.key]
  <2>1. /\ rd.pc = "memTable"
        /\ reads' = [reads EXCEPT ![r].pc  = IF e # None THEN "done" ELSE "store",
                                  ![r].res = Visible(e)]
    BY <1>8 DEF ReadMemTable
  <2>2. pc # "down" /\ rd.key \in Key /\ View[rd.key] \in rd.seen
    BY <1>6, <2>1
  <2>3. View[rd.key] = IF e # None THEN Visible(e)
                       ELSE Visible(StoreFind(levels, files, rd.key))
    BY <2>2 DEF View, Find
  <2>4. Visible(e) \in Val \cup {None}
    BY <1>4, <2>2, FindType
  <2>5. new = [rd EXCEPT !.pc = IF e # None THEN "done" ELSE "store",
                         !.res = Visible(e)]
    BY <1>1, <2>1
  <2> HIDE DEF e
  <2>6. /\ new.pc = (IF e # None THEN "done" ELSE "store")
        /\ new.key = rd.key /\ new.seen = rd.seen /\ new.res = Visible(e)
        /\ new \in ReadType
    BY <1>1, <2>4, <2>5
  <2>7. reads' \in [Reader -> ReadType] /\ \A q \in Reader \ {r} : reads'[q] = reads[q]
    BY <1>1, <2>1, <2>6
  <2> QED
    BY <2>2, <2>3, <2>6, <2>7
<1>9. CASE ReadStore(r)
  <2>1. /\ rd.pc = "store"
        /\ reads' = [reads EXCEPT ![r].pc  = "done",
                       ![r].res = Visible(StoreFind(levels, files, rd.key))]
    BY <1>9 DEF ReadStore
  <2>2. /\ pc # "down" /\ rd.key \in Key
        /\ Visible(StoreFind(levels, files, rd.key)) \in rd.seen
    BY <1>6, <2>1
  <2>3. Visible(StoreFind(levels, files, rd.key)) \in Val \cup {None}
    BY <1>4, <2>2, FindType
  <2> QED
    BY <1>1, <2>1, <2>2, <2>3
<1>10. CASE ReturnGet(r)
  BY <1>1, <1>10 DEF ReturnGet, NoRead
<1> QED
  BY <1>7, <1>8, <1>9, <1>10 DEF Get

LEMMA InitReadInv == ReadInit => ReadInv
BY DEF ReadInit, NoRead, ReadInv, ReadTypeOK, ReadsExplained, GetLinearizable

LEMMA ReadStep ==
  SafetyInv /\ SafetyInv' /\ ReadInv /\ [ReadNext]_readVars => ReadInv'
<1> SUFFICES ASSUME SafetyInv, SafetyInv', ReadInv, [ReadNext]_readVars PROVE ReadInv'
  OBVIOUS
<1>1. CASE WriteBesideReads
  BY <1>1, WriterKeepsReadInv DEF SafetyInv, StoreInv
<1>2. CASE Reset
  <2>1. reads' = [r \in Reader |-> NoRead]
    BY <1>2 DEF Reset
  <2> QED
    BY <2>1 DEF NoRead, ReadInv, ReadTypeOK, ReadsExplained, GetLinearizable
<1>3. CASE \E r \in Reader : Get(r) \/ \E k \in Key : StartGet(r, k)
  BY <1>3, ReaderKeepsReadInv
<1>4. CASE UNCHANGED readVars
  <2>1. View' = View /\ UNCHANGED <<reads, pc, levels, files>>
    BY <1>4 DEF readVars, View, vars, volatileVars, walVars, manifestVars, fileVars
  <2> QED
    BY <2>1 DEF ReadInv, ReadTypeOK, ReadsExplained, GetLinearizable
<1> QED
  BY <1>1, <1>2, <1>3, <1>4 DEF ReadNext

\* The strengthening of both invariants holds beside every flush, compaction,
\* crash and restart.
THEOREM ReadInvariant == ReadSpec => []ReadInv
<1>1. ReadSpec => Spec
  <2>1. ReadInit => Init
    BY DEF ReadInit
  <2> QED
    BY <2>1, ReadNextIsNext, PTL DEF ReadSpec, Spec
<1>2. ReadSpec => []SafetyInv
  BY <1>1, SafetyInvariant, PTL
<1> QED
  BY <1>2, InitReadInv, ReadStep, PTL DEF ReadSpec

\* The state of every read keeps its type: Get returns a value or nothing.
THEOREM ReadsTypeCorrect == ReadSpec => []ReadTypeOK
<1>1. ReadInv => ReadTypeOK
  BY DEF ReadInv
<1> QED
  BY <1>1, ReadInvariant, PTL

\* Get returns a value its key had between call and return, for every number
\* of readers and however the writer moves the entry between the two looks.
THEOREM ReadsLinearizable == ReadSpec => []GetLinearizable
<1>1. ReadInv => GetLinearizable
  BY DEF ReadInv
<1> QED
  BY <1>1, ReadInvariant, PTL
=============================================================================
