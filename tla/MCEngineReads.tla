---------------------------- MODULE MCEngineReads ----------------------------
(***************************************************************************)
(* Instances of EngineReads for TLC.                                       *)
(***************************************************************************)
EXTENDS EngineReads

KeysUpTo2 == 1..2
=============================================================================
