---------------------------- MODULE MCStreamPair ----------------------------
(***************************************************************************)
(* Instances of StreamPair for TLC.  atomicMax and Capacity stand for the  *)
(* kernel's 4096 and 65536: what matters is on which side of atomicMax     *)
(* Size lies, and that Capacity is not a multiple of Size.                 *)
(***************************************************************************)
EXTENDS StreamPair
=============================================================================
