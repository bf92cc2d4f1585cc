------------------------------- MODULE MCIpcBm -------------------------------
(***************************************************************************)
(* The instance of IpcBm for TLC: its state space is finite as it stands.  *)
(***************************************************************************)
EXTENDS IpcBm
=============================================================================
