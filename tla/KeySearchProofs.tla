-------------------------- MODULE KeySearchProofs --------------------------
(***************************************************************************)
(* Proofs about module KeySearch, for every key and every output: success  *)
(* is never imagined, and a key at the start of a line is never missed.    *)
(***************************************************************************)
EXTENDS KeySearch, TLAPS

\* The bytes counted as matched are the last ones that were printed.
MatchedInv == ~FoundIt => MatchAt(out, Len(out), ssh_key_status)

\* If the output ends with a newline and the first k bytes of the key, these k
\* bytes and no more or less have been counted.
LineInv ==
  ~FoundIt =>
    \A k \in 0..(Len(Key) - 1) :
      (k < Len(out) /\ MatchAt(out, Len(out), k) /\ out[Len(out) - k] = Newline)
        => ssh_key_status = k

SearchInv ==
  /\ SearchTypeOK
  /\ MatchedInv
  /\ LineInv
  /\ FoundWasPrinted
  /\ FoundAfterNewline

\* What was printed stays printed.
LEMMA AppendKeeps ==
  ASSUME NEW s \in Seq(Bytes), NEW b \in Bytes
  PROVE  /\ Append(s, b) \in Seq(Bytes)
         /\ Len(Append(s, b)) = Len(s) + 1
         /\ Append(s, b)[Len(s) + 1] = b
         /\ \A i \in 1..Len(s) : Append(s, b)[i] = s[i]
OBVIOUS

\* Matches that end before the last byte.
LEMMA OldMatch ==
  ASSUME NEW s \in Seq(Bytes), NEW b \in Bytes, NEW i \in 0..Len(s), NEW n \in Nat
  PROVE  MatchAt(Append(s, b), i, n) <=> MatchAt(s, i, n)
<1>1. ASSUME n <= i, NEW j \in 1..n PROVE Append(s, b)[i - n + j] = s[i - n + j]
  <2>1. i - n + j \in 1..Len(s)
    BY <1>1
  <2> QED
    BY <2>1, AppendKeeps
<1> QED
  BY <1>1 DEF MatchAt

\* A match that ends with the last byte is a shorter one and that byte.
LEMMA NewMatch ==
  ASSUME NEW s \in Seq(Bytes), NEW b \in Bytes, NEW n \in Nat
  PROVE  MatchAt(Append(s, b), Len(s) + 1, n + 1) <=> MatchAt(s, Len(s), n) /\ b = Key[n + 1]
<1> DEFINE t == Append(s, b)
           L == Len(s)
<1>1. L \in Nat
  OBVIOUS
<1>2. ASSUME n <= L, NEW j \in 1..n PROVE t[(L + 1) - (n + 1) + j] = s[L - n + j]
  <2>1. (L + 1) - (n + 1) + j = L - n + j /\ L - n + j \in 1..L
    BY <1>1, <1>2
  <2> QED
    BY <2>1, AppendKeeps
<1>3. ASSUME n <= L PROVE t[(L + 1) - (n + 1) + (n + 1)] = b
  <2>1. (L + 1) - (n + 1) + (n + 1) = L + 1
    BY <1>1
  <2> QED
    BY <2>1, AppendKeeps
<1>4. 1..(n + 1) = 1..n \cup {n + 1}
  OBVIOUS
<1>5. n + 1 <= L + 1 <=> n <= L
  BY <1>1
<1> HIDE DEF t, L
<1>6. MatchAt(t, L + 1, n + 1)
        <=> n <= L /\ \A j \in 1..(n + 1) : t[(L + 1) - (n + 1) + j] = Key[j]
  BY <1>5 DEF MatchAt
<1>7. MatchAt(t, L + 1, n + 1) <=> MatchAt(s, L, n) /\ b = Key[n + 1]
  BY <1>2, <1>3, <1>4, <1>6 DEF MatchAt
<1> QED
  BY <1>7 DEF t, L
-----------------------------------------------------------------------------
\* A byte that arrives after the key was found changes nothing.
LEMMA FoundStep ==
  ASSUME SearchInv, NEW b \in Bytes, ReadByte(b), FoundIt
  PROVE  SearchInv'
<1> USE KeyAssumption DEF SearchInv, SearchTypeOK
<1>1. ssh_key_status' = ssh_key_status /\ out' = Append(out, b) /\ FoundIt'
  BY DEF ReadByte, FoundIt
<1>2. PICK i \in 1..Len(out) : MatchAt(out, i, Len(Key))
  BY DEF FoundWasPrinted, KeyPrinted
<1>3. i \in 1..Len(out') /\ MatchAt(out', i, Len(Key))
  BY <1>1, <1>2, OldMatch, AppendKeeps
<1>4. SearchTypeOK'
  BY <1>1, AppendKeeps
<1>5. FoundWasPrinted'
  BY <1>3 DEF FoundWasPrinted, KeyPrinted
<1> QED
  BY <1>1, <1>4, <1>5 DEF MatchedInv, LineInv, FoundAfterNewline

\* A byte that arrives while the search goes on.
LEMMA SearchingStep ==
  ASSUME SearchInv, NEW b \in Bytes, ReadByte(b), ~FoundIt
  PROVE  SearchInv'
<1> USE KeyAssumption DEF SearchInv, SearchTypeOK
<1> DEFINE n == ssh_key_status
           L == Len(out)
<1>1. /\ out' = Append(out, b)
      /\ ssh_key_status' = IF b = Key[n + 1] THEN n + 1 ELSE 0
  BY DEF ReadByte, Advance
<1>2. n \in Nat /\ n < Len(Key) /\ L \in Nat /\ Len(Key) \in Nat
  BY DEF FoundIt
<1>3. out' \in Seq(Bytes) /\ Len(out') = L + 1 /\ out'[L + 1] = b
  BY <1>1, AppendKeeps
<1>4. SearchTypeOK'
  BY <1>1, <1>2, <1>3
<1>5. MatchAt(out', L + 1, ssh_key_status')
  <2>1. CASE b = Key[n + 1]
    <3>1. MatchAt(out, L, n)
      BY DEF MatchedInv
    <3>2. MatchAt(Append(out, b), L + 1, n + 1)
      BY <1>2, <2>1, <3>1, NewMatch
    <3> QED
      BY <1>1, <2>1, <3>2
  <2>2. CASE b # Key[n + 1]
    BY <1>1, <1>2, <2>2 DEF MatchAt
  <2> QED
    BY <2>1, <2>2
<1>6. MatchedInv'
  BY <1>3, <1>5 DEF MatchedInv
<1>7. FoundWasPrinted'
  BY <1>2, <1>3, <1>5 DEF FoundWasPrinted, FoundIt, KeyPrinted
\* The heart of the matter: what LineInv says of k holds of k + 1 one byte later.
<1>8. ASSUME NEW k \in 0..Len(Key), k < L + 1, MatchAt(out', L + 1, k),
             out'[L + 1 - k] = Newline
      PROVE  ssh_key_status' = k
  <2>1. CASE k = 0
    <3>1. b = Newline
      BY <1>2, <1>3, <1>8, <2>1
    <3>2. b # Key[n + 1]
      BY <1>2, <3>1
    <3> QED
      BY <1>1, <2>1, <3>2
  <2>2. CASE k > 0
    <3> DEFINE m == k - 1
    <3>1. m \in 0..(Len(Key) - 1) /\ k = m + 1 /\ m < L
      BY <1>2, <1>8, <2>2
    <3>2. MatchAt(Append(out, b), L + 1, m + 1)
      BY <1>1, <1>8, <3>1
    <3>3. MatchAt(out, L, m) /\ b = Key[m + 1]
      BY <3>1, <3>2, NewMatch
    <3>4. out'[L + 1 - k] = out[L - m]
      <4>1. L + 1 - k = L - m /\ L - m \in 1..L
        BY <1>2, <3>1
      <4> QED
        BY <1>1, <4>1, AppendKeeps
    <3>5. n = m
      BY <1>8, <3>1, <3>3, <3>4 DEF LineInv
    <3> QED
      BY <1>1, <3>1, <3>3, <3>5
  <2> QED
    BY <1>2, <1>8, <2>1, <2>2
<1>9. LineInv'
  <2>1. ASSUME NEW k \in 0..(Len(Key) - 1), k < Len(out'), MatchAt(out', Len(out'), k),
               out'[Len(out') - k] = Newline
        PROVE  ssh_key_status' = k
    <3>1. k \in 0..Len(Key)
      BY <1>2
    <3> QED
      BY <1>3, <1>8, <2>1, <3>1
  <2> QED
    BY <2>1 DEF LineInv
<1>10. FoundAfterNewline'
  <2> SUFFICES ASSUME NEW i \in 1..(L + 1), MatchAt(out', i, Len(Key)), i > Len(Key),
                      out'[i - Len(Key)] = Newline
               PROVE  ssh_key_status' = Len(Key)
    BY <1>3 DEF FoundAfterNewline, FoundIt
  <2>1. CASE i = L + 1
    BY <1>2, <1>8, <2>1
  <2>2. CASE i \in 1..L
    <3>1. MatchAt(out, i, Len(Key))
      BY <1>1, <1>2, <2>2, OldMatch
    <3>2. i - Len(Key) \in 1..L
      BY <1>2, <2>2
    <3>3. out[i - Len(Key)] = Newline
      BY <1>1, <3>2, AppendKeeps
    <3> QED
      BY <2>2, <3>1, <3>3 DEF FoundAfterNewline
  <2> QED
    BY <1>2, <2>1, <2>2
<1> QED
  BY <1>4, <1>6, <1>7, <1>9, <1>10

\* SearchInv is an invariant of the search.
THEOREM SearchInvHolds == SearchSpec => []SearchInv
<1>1. SearchInit => SearchInv
  BY KeyAssumption
     DEF SearchInit, SearchInv, SearchTypeOK, MatchedInv, LineInv, FoundWasPrinted, FoundIt,
         FoundAfterNewline, MatchAt
<1>2. SearchInv /\ [SearchNext]_searchVars => SearchInv'
  <2> SUFFICES ASSUME SearchInv, [SearchNext]_searchVars PROVE SearchInv'
    OBVIOUS
  <2>1. ASSUME NEW b \in Bytes, ReadByte(b) PROVE SearchInv'
    BY <2>1, FoundStep, SearchingStep
  <2>2. CASE UNCHANGED searchVars
    BY <2>2 DEF searchVars, SearchInv, SearchTypeOK, MatchedInv, LineInv, FoundWasPrinted,
                FoundIt, KeyPrinted, FoundAfterNewline, MatchAt
  <2> QED
    BY <2>1, <2>2 DEF SearchNext
<1> QED
  BY <1>1, <1>2, PTL DEF SearchSpec

\* The index into ssh_key stays within it, whatever SSH prints: the comparison
\* in poll_communicating_for_open does not panic.
THEOREM SearchTypeCorrect == SearchSpec => []SearchTypeOK
<1>1. SearchInv => SearchTypeOK
  BY DEF SearchInv
<1> QED
  BY <1>1, SearchInvHolds, PTL

\* A login is declared complete only if SSH printed the key.
THEOREM SearchIsSound == SearchSpec => []FoundWasPrinted
<1>1. SearchInv => FoundWasPrinted
  BY DEF SearchInv
<1> QED
  BY <1>1, SearchInvHolds, PTL

\* A key that is printed at the start of a line is recognised.
THEOREM SearchFindsLine == SearchSpec => []FoundAfterNewline
<1>1. SearchInv => FoundAfterNewline
  BY DEF SearchInv
<1> QED
  BY <1>1, SearchInvHolds, PTL
=============================================================================
