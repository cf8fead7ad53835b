------------------------------- MODULE Texts -------------------------------
(***************************************************************************)
(* Text that is passed on from program to program, as modules Conversation *)
(* and BorrowStdio treat it: a sequence of pieces, which are numbered in   *)
(* the order in which they were written, so that loss, repetition and      *)
(* reordering can be told apart.                                           *)
(***************************************************************************)
EXTENDS Naturals, Sequences, SequencesExt

\* All of the first n pieces.
UpTo(n) == [i \in 1..n |-> i]

\* The pieces are in order and none is repeated; some may be missing.
InOrder(text) == \A i, j \in DOMAIN text : i < j => text[i] < text[j]
=============================================================================
