----------------------------- MODULE MCStartup -----------------------------
(***************************************************************************)
(* Startup with a few clients.  They are interchangeable; the symmetry is  *)
(* used by the run that checks safety only.                                *)
(***************************************************************************)
EXTENDS Startup, TLC

Symmetry == Permutations(Clients)
=============================================================================
