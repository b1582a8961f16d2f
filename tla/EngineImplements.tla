-------------------------- MODULE EngineImplements --------------------------
(***************************************************************************)
(* The refinement: the engine, with its log, tables, manifest and crashes, *)
(* is the key-value map KVStore.  The map is what Get answers; a write is  *)
(* pending from its start until it reaches the MemTable.                   *)
(***************************************************************************)
EXTENDS EngineInv

KV == INSTANCE KVStore WITH
        kv <- View, pending <- op, up <- (pc # "down"), MayReject <- FALSE

\* Put and Delete change the key they name and no other, take effect at one
\* step, and survive crashes; flushes and compactions are invisible to Get;
\* of a crash only the interrupted write is in doubt.
ImplementsKVStore == KV!Spec
=============================================================================
