---------------------------- MODULE MCKeySearch ----------------------------
(***************************************************************************)
(* KeySearch for a key of three bytes.  The first byte occurs in it only   *)
(* once, as it does in "STUND:" followed by base64 text up to chance.      *)
(***************************************************************************)
EXTENDS KeySearch

CONSTANTS S, T, U

MCKey == <<S, T, U>>
=============================================================================
