--------------------------- MODULE MCEngineFaults ---------------------------
(***************************************************************************)
(* Instances of EngineFaults for TLC.                                      *)
(***************************************************************************)
EXTENDS EngineFaults

KeysUpTo2 == 1..2

AllFaults == FaultKinds

TornCrashOnly == {"tornCrash"}

InstallSyncOnly == {"installSync"}
=============================================================================
