----------------------------- MODULE MCMsgQueue -----------------------------
(***************************************************************************)
(* Instances of MsgQueue for TLC.  Sizes stand for message sizes below,    *)
(* at and beyond the SizeLimit of 2.                                       *)
(***************************************************************************)
EXTENDS MsgQueue

OneSize    == {1}
TwoSizes   == {1, 2}
ThreeSizes == {1, 2, 3}
=============================================================================
