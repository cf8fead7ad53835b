--------------------------- MODULE MCBorrowStdio ---------------------------
(***************************************************************************)
(* BorrowStdio on a small instance: all constants are numbers.             *)
(***************************************************************************)
EXTENDS BorrowStdio
=============================================================================
