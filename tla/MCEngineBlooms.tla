--------------------------- MODULE MCEngineBlooms ---------------------------
(***************************************************************************)
(* Instances of EngineBlooms for TLC.                                      *)
(***************************************************************************)
EXTENDS EngineBloomsInv, EngineImplements

KeysUpTo2 == 1..2
KeysUpTo3 == 1..3
=============================================================================
