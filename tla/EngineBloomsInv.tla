--------------------------- MODULE EngineBloomsInv ---------------------------
(***************************************************************************)
(* The inductive invariant of EngineBlooms: which sidecars, in the cache   *)
(* or on the device, fit which tables.  A sidecar may stand beside a table *)
(* it was not made of only while no manifest names that table's number.    *)
(***************************************************************************)
EXTENDS EngineBlooms, EngineFaultsInv

Sidecars == [0..1 -> [Idx -> (SUBSET Key) \cup {NoFile}]]

\* The sidecars that a table with this number has, or may get back by a crash.
SidecarsOf(l, n) == {sidecars[l][n], sidecarsSynced[l][n]} \ {NoFile}

\* No sidecar of table n hides a key of contents t.
Fits(l, n, t) == \A f \in SidecarsOf(l, n) : KeysIn(t) \subseteq f

\* From its rename to that of its table, the sidecar in the cache is that of
\* the table; once it is synced, so is the one on the device.
SidecarInHand ==
  side # "none" =>
    /\ side \in {"written", "synced"} /\ WritesTable
    /\ sidecars[NextTable.level][NextTable.idx] = NextTable.keys
    /\ side = "synced" =>
         sidecarsSynced[NextTable.level][NextTable.idx] = NextTable.keys

SidecarsFit ==
  /\ \A l \in 0..1, n \in Idx : NamesTable(levels, l, n) => Fits(l, n, files[l][n])
  /\ pc \in {"tableSync", "publish", "publishSync"} => Fits(0, NewL0, files[0][NewL0])
  /\ pc \in {"merge", "chunkSync", "installSync"} =>
       \A n \in Numbers(job.new) : Fits(1, n, files[1][n])
  /\ pc # "down" =>
       \A m \in {manifest, manifestSynced} : NamesTable(m, 0, NewL0) =>
         \A t \in LeftBehind : Fits(0, NewL0, t)
  /\ pc = "down" =>
       \A l \in 0..1, n \in Idx :
         NamesTable(manifest, l, n) /\ files[l][n] # NoFile => Fits(l, n, files[l][n])

\* Filters are kept for the tables of the level state only.
FiltersFit ==
  \A l \in 0..1, n \in Idx : filters[l][n] # NoFile =>
    NamesTable(levels, l, n) /\ KeysIn(files[l][n]) \subseteq filters[l][n]

BloomInv ==
  /\ sidecars \in Sidecars /\ sidecarsSynced \in Sidecars /\ filters \in Sidecars
  /\ SidecarInHand
  /\ SidecarsFit
  /\ FiltersFit
=============================================================================
