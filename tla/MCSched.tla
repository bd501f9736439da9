------------------------------ MODULE MCSched ------------------------------
(***************************************************************************)
(* Instances of Sched for TLC.  The sets below are given to its constants  *)
(* by the .cfg files.                                                      *)
(***************************************************************************)
EXTENDS Sched

AllTraps == TrapKinds
WaitOnly == {"wfx", "mmio"}
Vcpu2 == {2}
Fatal == {"load", "page"}
=============================================================================
