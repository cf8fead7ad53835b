----------------------------- MODULE MCTunnels -----------------------------
(***************************************************************************)
(* Tunnels on small instances.  Processes are interchangeable, and so are  *)
(* hosts; the symmetry is used by the runs that check safety only.         *)
(***************************************************************************)
EXTENDS Tunnels, TLC

Symmetry == Permutations(Hosts) \cup Permutations(Procs)
=============================================================================
