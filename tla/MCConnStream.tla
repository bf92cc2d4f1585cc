---------------------------- MODULE MCConnStream ----------------------------
(***************************************************************************)
(* Model checking of ConnStream.  The values in the .cfg file: messages of *)
(* two bytes, so that a read may return half of one, and a buffer that     *)
(* holds one message and a half; two runs, so that a reader, a listener    *)
(* and a path of an earlier run can be met.                                *)
(***************************************************************************)
EXTENDS ConnStream
=============================================================================
