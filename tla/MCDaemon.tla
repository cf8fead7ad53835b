------------------------------ MODULE MCDaemon ------------------------------
(***************************************************************************)
(* Daemon on small instances.                                              *)
(***************************************************************************)
EXTENDS Daemon
=============================================================================
