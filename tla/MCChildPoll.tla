---------------------------- MODULE MCChildPoll ----------------------------
(***************************************************************************)
(* ChildPoll on a small instance.  No symmetry: the run checks liveness.   *)
(***************************************************************************)
EXTENDS ChildPoll
=============================================================================
