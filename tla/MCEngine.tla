---------------------------- MODULE MCEngine ----------------------------
(***************************************************************************)
(* Instances of Engine for TLC.                                            *)
(***************************************************************************)
EXTENDS EngineImplements

KeysUpTo2 == 1..2
=============================================================================
