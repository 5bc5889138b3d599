----------------------------- MODULE MCProcess -----------------------------
(***************************************************************************)
(* A small instance of the process: all its values are in Process.cfg.     *)
(***************************************************************************)
EXTENDS ProcessProperties
=============================================================================
