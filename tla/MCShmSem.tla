------------------------------ MODULE MCShmSem ------------------------------
(***************************************************************************)
(* Instances of ShmSem for TLC.  The state space is finite as it stands:   *)
(* the bounds are the module's own constants.                              *)
(***************************************************************************)
EXTENDS ShmSem

NotShmat  == SetupCalls \ {"shmat"}
AnyFault  == SetupCalls
TwoSizes  == {1, 2}
=============================================================================
