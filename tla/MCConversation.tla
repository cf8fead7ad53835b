--------------------------- MODULE MCConversation ---------------------------
(***************************************************************************)
(* Conversation on a small instance: all constants are numbers.            *)
(***************************************************************************)
EXTENDS Conversation
=============================================================================
