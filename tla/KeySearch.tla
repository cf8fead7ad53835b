----------------------------- MODULE KeySearch -----------------------------
(***************************************************************************)
(* How a session recognises that a login is complete: the search for the   *)
(* "key", a marker that the remote shell prints, in the output of SSH      *)
(* (poll_communicating_for_open).                                          *)
(*                                                                         *)
(* The output arrives in chunks, but the search keeps nothing from one     *)
(* byte to the next except the number of bytes of the key it has matched,  *)
(* so that an action is the treatment of one byte.                         *)
(***************************************************************************)
EXTENDS Naturals, Sequences

CONSTANTS Bytes,    \* the bytes SSH may print
          Key,      \* ssh_key
          Newline,  \* a byte that does not occur in the key
          OutCap    \* bound on the length of SSH's output

ASSUME KeyAssumption ==
  /\ Key \in Seq(Bytes)
  /\ Len(Key) > 0
  /\ Newline \in Bytes
  /\ \A i \in 1..Len(Key) : Key[i] # Newline
ASSUME OutCapAssumption == OutCap \in Nat

VARIABLES
  ssh_key_status,  \* Searching(n) as n, FoundIt as Len(Key)
  out              \* history: all that SSH has printed

searchVars == <<ssh_key_status, out>>

SearchTypeOK ==
  /\ ssh_key_status \in 0..Len(Key)
  /\ out \in Seq(Bytes)

SearchInit ==
  /\ ssh_key_status = 0
  /\ out = <<>>

FoundIt == ssh_key_status = Len(Key)

\* Mutants: a mismatch is ignored; the last byte is never accepted.
AdvanceIgnoresMismatch(n, b) == IF b = Key[n + 1] THEN n + 1 ELSE n
AdvanceStopsShort(n, b) == IF b = Key[n + 1] /\ n + 1 < Len(Key) THEN n + 1 ELSE 0

\* One turn of the loop over the bytes of a chunk: compare with ssh_key[n].
Advance(n, b) == IF b = Key[n + 1] THEN n + 1 ELSE 0

\* The search ends for good when the key is found.
ReadByte(b) ==
  /\ Len(out) < OutCap
  /\ out' = Append(out, b)
  /\ ssh_key_status' = IF FoundIt THEN ssh_key_status ELSE Advance(ssh_key_status, b)

SearchNext == \E b \in Bytes : ReadByte(b)

SearchSpec == SearchInit /\ [][SearchNext]_searchVars
-----------------------------------------------------------------------------
\* The n bytes of s that end at position i are the first n bytes of the key.
MatchAt(s, i, n) == n <= i /\ \A j \in 1..n : s[i - n + j] = Key[j]

\* The key occurs in what was printed.
KeyPrinted == \E i \in 1..Len(out) : MatchAt(out, i, Len(Key))

\* No false success: a login is taken to be complete only if SSH did print
\* the key, whatever chunks it arrived in and whatever was printed before.
FoundWasPrinted == FoundIt => KeyPrinted

\* The key is recognised whenever it is printed at the start of a line.
FoundAfterNewline ==
  \A i \in 1..Len(out) :
    (MatchAt(out, i, Len(Key)) /\ i > Len(Key) /\ out[i - Len(Key)] = Newline) => FoundIt

\* "We search SSH's output to find this key" (daemon.rs:487): the key is found
\* wherever it is printed.
PrintedIsFound == KeyPrinted => FoundIt
=============================================================================
