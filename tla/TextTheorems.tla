---------------------------- MODULE TextTheorems ----------------------------
(***************************************************************************)
(* Facts about the texts of module Texts and about FlattenSeq, for         *)
(* sequences of any length.                                                *)
(*                                                                         *)
(* FlattenSeq is defined by recursion.  What it computes is proved by      *)
(* induction, and induction rests on the fact that every non-empty set of  *)
(* natural numbers has a least element: the induction hypothesis is a set  *)
(* here, not a predicate.                                                  *)
(***************************************************************************)
EXTENDS Texts, SequenceTheorems, WellFoundedInduction, TLAPS

\* A set of natural numbers that is not empty has a least element.
LEMMA LeastElement ==
  ASSUME NEW T \in SUBSET Nat, T # {}
  PROVE  \E x \in T : \A y \in T : x <= y
<1>1. PICK x \in T : \A y \in T : ~(<<y, x>> \in OpToRel(<, Nat))
  BY NatLessThanWellFounded, WFMin, Zenon
<1>2. ASSUME NEW y \in T PROVE x <= y
  <2>1. x \in Nat /\ y \in Nat
    OBVIOUS
  <2>2. ~(<<y, x>> \in OpToRel(<, Nat))
    BY <1>1
  <2>3. ~(y < x)
    BY <2>1, <2>2 DEF OpToRel
  <2> QED
    BY <2>1, <2>3
<1> QED
  BY <1>2

\* Induction upwards to n.  The hypothesis is a set, so that the provers can
\* use the lemma.
LEMMA UpwardInduction ==
  ASSUME NEW S, NEW n \in Nat,
         1 \in S,
         \A i \in 1..(n-1) : i \in S => i+1 \in S
  PROVE  \A i \in 1..n : i \in S
<1> DEFINE T == {i \in 1..n : i \notin S}
<1>1. SUFFICES ASSUME T # {} PROVE FALSE
  OBVIOUS
<1>2. T \in SUBSET Nat
  OBVIOUS
<1>3. PICK x \in T : \A y \in T : x <= y
  BY <1>1, <1>2, LeastElement, Zenon
<1>4. x # 1 /\ x-1 \in 1..n /\ x - 1 \notin T
  BY <1>3
<1> QED
  BY <1>4

\* f holds the concatenations of the first 1, 2, ..., n members of ss
Sums(ss, n, f) == f = [i \in 1..n |-> IF i = 1 THEN ss[i] ELSE f[i-1] \o ss[i]]

\* FlattenSeq is the last of the sums.
LEMMA FlattenIsSum ==
  ASSUME NEW ss, Len(ss) # 0
  PROVE FlattenSeq(ss) = (CHOOSE f : Sums(ss, Len(ss), f))[Len(ss)]
BY Zenon DEF FlattenSeq, Sums

\* There are sums: the recursion of FlattenSeq defines a function.
LEMMA SumsExist ==
  ASSUME NEW ss, NEW n \in Nat
  PROVE  \A m \in 1..n : \E f : Sums(ss, m, f)
<1> DEFINE S == {m \in 1..n : \E f : Sums(ss, m, f)}
<1>1. CASE n = 0
  BY <1>1
<1>2. CASE n # 0
  <2>1. 1 \in S
    <3> DEFINE f == [i \in 1..1 |-> ss[i]]
    <3>1. Sums(ss, 1, f)
      BY DEF Sums
    <3> QED
      BY <3>1, <1>2
  <2>2. ASSUME NEW m \in 1..(n-1), m \in S
        PROVE  m + 1 \in S
    <3>1. PICK f : Sums(ss, m, f)
      BY <2>2
    <3> DEFINE g == [i \in 1..(m+1) |-> IF i <= m THEN f[i] ELSE f[m] \o ss[i]]
    <3>2. Sums(ss, m+1, g)
      <4>1. \A i \in 1..m : f[i] = IF i = 1 THEN ss[i] ELSE f[i-1] \o ss[i]
        BY <3>1 DEF Sums
      <4>2. \A i \in 1..(m+1) : g[i] = IF i = 1 THEN ss[i] ELSE g[i-1] \o ss[i]
        BY <4>1
      <4> QED
        BY <4>2 DEF Sums
    <3> QED
      BY <3>2
  <2> HIDE DEF S
  <2>3. \A m \in 1..n : m \in S
    BY <2>1, <2>2, UpwardInduction
  <2> QED
    BY <2>3 DEF S
<1> QED
  BY <1>1, <1>2

\* Sums do not depend on what follows.
LEMMA SumsAgree ==
  ASSUME NEW n \in Nat, NEW k, k = n + 1,
         NEW ss, NEW tt, NEW f, NEW g, Sums(ss, n, f), Sums(tt, k, g),
         \A i \in 1..n : ss[i] = tt[i]
  PROVE  \A i \in 1..n : f[i] = g[i]
<1> DEFINE S == {i \in 1..n : f[i] = g[i]}
<1>1. \A i \in 1..n : f[i] = IF i = 1 THEN ss[i] ELSE f[i-1] \o ss[i]
  BY DEF Sums
<1>2. \A i \in 1..n : g[i] = IF i = 1 THEN ss[i] ELSE g[i-1] \o ss[i]
  <2>1. \A i \in 1..(n+1) : g[i] = IF i = 1 THEN tt[i] ELSE g[i-1] \o tt[i]
    BY DEF Sums
  <2> QED
    BY <2>1
<1>3. CASE n = 0
  BY <1>3
<1>4. CASE n # 0
  <2>1. 1 \in S
    BY <1>1, <1>2, <1>4
  <2>2. \A i \in 1..(n-1) : i \in S => i+1 \in S
    BY <1>1, <1>2
  <2> HIDE DEF S
  <2>3. \A i \in 1..n : i \in S
    BY <2>1, <2>2, UpwardInduction
  <2> QED
    BY <2>3 DEF S
<1> QED
  BY <1>3, <1>4

\* Nothing flattens to nothing.
LEMMA FlattenEmpty == FlattenSeq(<<>>) = <<>>
  BY DEF FlattenSeq

\* What FlattenSeq yields, without the choice in its definition.
LEMMA FlattenSum ==
  ASSUME NEW ss, Len(ss) \in Nat \ {0}
  PROVE  \E f : Sums(ss, Len(ss), f) /\ FlattenSeq(ss) = f[Len(ss)]
<1> DEFINE f == CHOOSE f : Sums(ss, Len(ss), f)
<1>1. \E g : Sums(ss, Len(ss), g)
  <2>1. Len(ss) \in Nat /\ Len(ss) \in 1..Len(ss)
    OBVIOUS
  <2>2. \A m \in 1..Len(ss) : \E g : Sums(ss, m, g)
    BY <2>1, SumsExist, Zenon
  <2> QED
    BY <2>1, <2>2, Zenon
<1>2. Sums(ss, Len(ss), f)
  BY <1>1, Zenon
<1>3. FlattenSeq(ss) = f[Len(ss)]
  BY FlattenIsSum
<1> HIDE DEF f
<1> QED
  BY <1>2, <1>3

\* One text more, at the end.
LEMMA FlattenAppend ==
  ASSUME NEW S, NEW ss \in Seq(Seq(S)), NEW t \in Seq(S)
  PROVE  FlattenSeq(Append(ss, t)) = FlattenSeq(ss) \o t
<1> DEFINE tt == Append(ss, t)
           n  == Len(ss)
<1>1. /\ n \in Nat /\ Len(tt) = n + 1 /\ tt[n + 1] = t
      /\ \A i \in 1..n : tt[i] = ss[i]
  BY AppendProperties, LenProperties
<1> HIDE DEF tt, n
<1>2. PICK g : Sums(tt, n + 1, g) /\ FlattenSeq(tt) = g[n + 1]
  <2>1. Len(tt) \in Nat \ {0}
    BY <1>1
  <2> QED
    BY <1>1, <2>1, FlattenSum
<1>3. \A i \in 1..(n + 1) : g[i] = IF i = 1 THEN tt[i] ELSE g[i - 1] \o tt[i]
  BY <1>2 DEF Sums
<1>4. CASE n = 0
  <2>1. ss = <<>>
    BY <1>4, EmptySeq DEF n
  <2>2. g[1] = t
    BY <1>1, <1>3, <1>4
  <2>3. <<>> \o t = t
    BY ConcatEmptySeq
  <2> QED
    BY <2>1, <2>2, <2>3, <1>2, <1>4, FlattenEmpty DEF tt
<1>5. CASE n # 0
  <2>1. PICK f : Sums(ss, n, f) /\ FlattenSeq(ss) = f[n]
    BY <1>1, <1>5, FlattenSum DEF n
  <2>2. f[n] = g[n]
    <3>1. n \in 1..n
      BY <1>1, <1>5
    <3>2. \A i \in 1..n : ss[i] = tt[i]
      BY <1>1
    <3>3. \A i \in 1..n : f[i] = g[i]
      BY <2>1, <1>1, <1>2, <3>2, SumsAgree
    <3> QED
      BY <3>1, <3>3
  <2>3. g[n + 1] = g[n] \o t
    <3>1. n + 1 \in 1..(n + 1) /\ n + 1 # 1 /\ (n + 1) - 1 = n
      BY <1>1, <1>5
    <3> QED
      BY <1>1, <1>3, <3>1
  <2> QED
    BY <1>2, <2>1, <2>2, <2>3 DEF tt
<1> QED
  BY <1>4, <1>5

\* Induction
LEMMA FrontInduction ==
  ASSUME NEW S, NEW ss \in Seq(S), NEW P,
         <<>> \in P,
         \A tt \in Seq(S), t \in S : tt \in P => Append(tt, t) \in P
  PROVE  ss \in P
<1> DEFINE n == Len(ss)
           T == {i \in 1..n : SubSeq(ss, 1, i) \in P}
<1>1. n \in Nat /\ \A i \in 1..n : ss[i] \in S
  BY LenProperties
<1>2. SubSeq(ss, 1, n) = ss
  BY SubSeqFull
<1>3. \A i \in 1..n : SubSeq(ss, 1, i) \in Seq(S)
  BY <1>1, SubSeqProperties
<1>4. \A i \in 1..n : i + 1 \in 1..n =>
        SubSeq(ss, 1, i + 1) = Append(SubSeq(ss, 1, i), ss[i + 1])
  BY <1>1
<1>5. n # 0 => SubSeq(ss, 1, 1) = Append(<<>>, ss[1])
  <2> SUFFICES ASSUME n # 0 PROVE SubSeq(ss, 1, 1) = Append(<<>>, ss[1])
    OBVIOUS
  <2>1. ss[1] \in S /\ <<>> \in Seq(S) /\ \A i \in 1..1 : ss[i] \in S
    BY <1>1, EmptySeq
  <2>2. /\ Append(<<>>, ss[1]) \in Seq(S)
        /\ Len(Append(<<>>, ss[1])) = 1
        /\ Append(<<>>, ss[1])[1] = ss[1]
    BY <2>1
  <2>3. /\ SubSeq(ss, 1, 1) \in Seq(S)
        /\ Len(SubSeq(ss, 1, 1)) = 1
        /\ SubSeq(ss, 1, 1)[1] = ss[1]
    BY <2>1, SubSeqProperties
  <2> QED
    <3>1. \A i \in 1..1 : SubSeq(ss, 1, 1)[i] = Append(<<>>, ss[1])[i]
      BY <2>2, <2>3
    <3>2. \A i \in 1..Len(SubSeq(ss, 1, 1)) : SubSeq(ss, 1, 1)[i] = Append(<<>>, ss[1])[i]
      BY <2>3, <3>1
    <3> QED
      BY <2>2, <2>3, <3>2, SeqEqual, Zenon
<1>6. n = 0 => ss = <<>>
  BY EmptySeq
<1> HIDE DEF n
<1>7. CASE n = 0
  BY <1>6, <1>7
<1>8. CASE n # 0
  <2>1. 1 \in T
    <3>1. 1 \in 1..n /\ ss[1] \in S /\ <<>> \in Seq(S)
      BY <1>1, <1>8, EmptySeq
    <3>2. Append(<<>>, ss[1]) \in P
      BY <3>1
    <3> QED
      BY <3>1, <3>2, <1>5, <1>8
  <2>2. ASSUME NEW i \in 1..(n - 1), i \in T PROVE i + 1 \in T
    <3>1. i \in 1..n /\ i + 1 \in 1..n
      BY <1>1
    <3>2. SubSeq(ss, 1, i + 1) = Append(SubSeq(ss, 1, i), ss[i + 1])
      BY <1>4, <3>1
    <3> QED
      BY <1>1, <1>3, <2>2, <3>1, <3>2
  <2> HIDE DEF T
  <2>3. \A i \in 1..n : i \in T
    BY <1>1, <2>1, <2>2, UpwardInduction
  <2>4. n \in T
    BY <2>3, <1>1, <1>8
  <2> QED
    BY <2>4, <1>2 DEF T
<1> QED
  BY <1>7, <1>8

\* FlattenSeq yields a text.
LEMMA FlattenType ==
  ASSUME NEW S, NEW ss \in Seq(Seq(S))
  PROVE  FlattenSeq(ss) \in Seq(S)
<1> DEFINE P == {tt \in Seq(Seq(S)) : FlattenSeq(tt) \in Seq(S)}
<1>1. <<>> \in P
  BY FlattenEmpty, EmptySeq
<1>2. ASSUME NEW tt \in Seq(Seq(S)), NEW t \in Seq(S), tt \in P
      PROVE  Append(tt, t) \in P
  BY <1>2, FlattenAppend, ConcatProperties, AppendProperties
<1> HIDE DEF P
<1>3. ss \in P
  BY <1>1, <1>2, FrontInduction
<1> QED
  BY <1>3 DEF P

\* It does not matter whether queues are joined before they are flattened or
\* after.
LEMMA FlattenConcat ==
  ASSUME NEW S, NEW ss \in Seq(Seq(S)), NEW tt \in Seq(Seq(S))
  PROVE  FlattenSeq(ss \o tt) = FlattenSeq(ss) \o FlattenSeq(tt)
<1> DEFINE P == {uu \in Seq(Seq(S)) : FlattenSeq(ss \o uu) = FlattenSeq(ss) \o FlattenSeq(uu)}
<1>1. <<>> \in P
  BY FlattenEmpty, EmptySeq, ConcatEmptySeq, FlattenType
<1>2. ASSUME NEW uu \in Seq(Seq(S)), NEW t \in Seq(S), uu \in P
      PROVE  Append(uu, t) \in P
  <2>1. /\ ss \o Append(uu, t) = Append(ss \o uu, t)
        /\ ss \o uu \in Seq(Seq(S)) /\ Append(uu, t) \in Seq(Seq(S))
    OBVIOUS
  <2>2. FlattenSeq(Append(ss \o uu, t)) = FlattenSeq(ss \o uu) \o t
    BY <2>1, FlattenAppend
  <2>3. FlattenSeq(Append(uu, t)) = FlattenSeq(uu) \o t
    BY FlattenAppend
  <2>4. (FlattenSeq(ss) \o FlattenSeq(uu)) \o t = FlattenSeq(ss) \o (FlattenSeq(uu) \o t)
    <3>1. FlattenSeq(ss) \in Seq(S) /\ FlattenSeq(uu) \in Seq(S)
      BY FlattenType
    <3> QED
      BY <3>1, ConcatAssociative
  <2> QED
    BY <1>2, <2>1, <2>2, <2>3, <2>4
<1> HIDE DEF P
<1>3. tt \in P
  BY <1>1, <1>2, FrontInduction
<1> QED
  BY <1>3 DEF P

\* The text that comes first, and the rest.
LEMMA FlattenHead ==
  ASSUME NEW S, NEW ss \in Seq(Seq(S)), ss # <<>>
  PROVE  /\ Head(ss) \in Seq(S)
         /\ Tail(ss) \in Seq(Seq(S))
         /\ FlattenSeq(ss) = Head(ss) \o FlattenSeq(Tail(ss))
<1>1. /\ ss = Append(<<>>, Head(ss)) \o Tail(ss)
      /\ Head(ss) \in Seq(S) /\ Tail(ss) \in Seq(Seq(S))
      /\ Append(<<>>, Head(ss)) \in Seq(Seq(S)) /\ <<>> \in Seq(Seq(S))
  OBVIOUS
<1>2. FlattenSeq(Append(<<>>, Head(ss))) = <<>> \o Head(ss)
  BY <1>1, FlattenAppend, FlattenEmpty
<1>3. <<>> \o Head(ss) = Head(ss)
  BY <1>1, ConcatEmptySeq
<1> QED
  BY <1>1, <1>2, <1>3, FlattenConcat

\* Empty texts do not count.
LEMMA FlattenBlank ==
  ASSUME NEW S, NEW ss \in Seq(Seq(S)), \A i \in 1..Len(ss) : ss[i] = <<>>
  PROVE  FlattenSeq(ss) = <<>>
<1> DEFINE P == {tt \in Seq(Seq(S)) : (\A i \in 1..Len(tt) : tt[i] = <<>>) => FlattenSeq(tt) = <<>>}
<1>1. <<>> \in P
  BY FlattenEmpty, EmptySeq
<1>2. ASSUME NEW tt \in Seq(Seq(S)), NEW t \in Seq(S), tt \in P
      PROVE  Append(tt, t) \in P
  <2>1. SUFFICES ASSUME \A i \in 1..Len(Append(tt, t)) : Append(tt, t)[i] = <<>>
                 PROVE  FlattenSeq(Append(tt, t)) = <<>>
    BY AppendProperties
  <2>2. t = <<>> /\ \A i \in 1..Len(tt) : tt[i] = <<>>
    <3>1. /\ Len(tt) \in Nat /\ Len(Append(tt, t)) = Len(tt) + 1
          /\ Append(tt, t)[Len(tt) + 1] = t
          /\ \A i \in 1..Len(tt) : Append(tt, t)[i] = tt[i]
      BY AppendProperties, LenProperties
    <3>2. \A i \in 1..(Len(tt) + 1) : Append(tt, t)[i] = <<>>
      BY <2>1, <3>1
    <3> HIDE <2>1
    <3> QED
      BY <3>1, <3>2
  <2>3. FlattenSeq(tt) = <<>>
    BY <1>2, <2>2
  <2>4. <<>> \o <<>> = <<>>
    BY EmptySeq, ConcatEmptySeq
  <2> QED
    BY <2>2, <2>3, <2>4, FlattenAppend
<1> HIDE DEF P
<1>3. ss \in P
  BY <1>1, <1>2, FrontInduction
<1> QED
  BY <1>3 DEF P

-----------------------------------------------------------------------------
(***************************************************************************)
(* Numbered pieces.                                                        *)
(***************************************************************************)
LEMMA UpToType ==
  ASSUME NEW n \in Nat
  PROVE  UpTo(n) \in Seq(Nat) /\ Len(UpTo(n)) = n /\ \A i \in 1..n : UpTo(n)[i] = i
BY DEF UpTo

\* The first n pieces and the k pieces behind them.
LEMMA UpToMore ==
  ASSUME NEW n \in Nat, NEW k \in Nat
  PROVE  UpTo(n) \o [i \in 1..k |-> n + i] = UpTo(n + k)
<1> DEFINE start == UpTo(n)
           more  == [i \in 1..k |-> n + i]
           all   == start \o more
<1>1. more \in Seq(Nat) /\ Len(more) = k /\ \A i \in 1..k : more[i] = n + i
  OBVIOUS
<1>2. start \in Seq(Nat) /\ Len(start) = n /\ \A i \in 1..n : start[i] = i
  BY UpToType
<1> HIDE DEF more, start
<1>3. /\ all \in Seq(Nat) /\ Len(all) = n + k
      /\ \A i \in 1..n : all[i] = start[i]
      /\ \A i \in 1..k : all[n + i] = more[i]
  BY <1>1, <1>2
<1> HIDE DEF all
<1>4. ASSUME NEW i \in 1..(n + k) PROVE all[i] = i
  <2>1. CASE i \in 1..n
    BY <1>2, <1>3, <2>1
  <2>2. CASE i \notin 1..n
    <3>1. i - n \in 1..k /\ n + (i - n) = i
      BY <2>2
    <3> QED
      BY <1>1, <1>3, <3>1
  <2> QED
    BY <2>1, <2>2
<1>5. /\ UpTo(n + k) \in Seq(Nat) /\ Len(UpTo(n + k)) = n + k
      /\ \A i \in 1..(n + k) : UpTo(n + k)[i] = i
  <2>1. n + k \in Nat
    OBVIOUS
  <2> QED
    BY <2>1, UpToType
<1>6. \A i \in 1..Len(all) : all[i] = UpTo(n + k)[i]
  BY <1>3, <1>4, <1>5
<1>7. all = UpTo(n + k)
  BY <1>3, <1>5, <1>6, SeqEqual, Zenon
<1> QED
  BY <1>7 DEF all, start, more

\* The same for one piece.
LEMMA UpToNext ==
  ASSUME NEW n \in Nat
  PROVE  UpTo(n) \o <<n + 1>> = UpTo(n + 1)
<1>1. [i \in 1..1 |-> n + i] = <<n + 1>>
  OBVIOUS
<1> QED
  BY <1>1, UpToMore

\* It does not matter where a text begins.
LEMMA TextAssociative ==
  ASSUME NEW a \in Seq(Nat), NEW b \in Seq(Nat), NEW c \in Seq(Nat)
  PROVE  a \o (b \o c) = (a \o b) \o c
BY SMTT(60)

\* In order, and nothing that comes after piece n.
InOrderUpTo(text, n) == InOrder(text) /\ \A i \in DOMAIN text : text[i] <= n

\* Two texts make one in order if each is and the first precedes the second.
LEMMA InOrderElements ==
  ASSUME NEW n \in Nat, NEW a \in Seq(Nat), NEW b \in Seq(Nat)
  PROVE  InOrderUpTo(a \o b, n) <=>
           /\ InOrderUpTo(a, n) /\ InOrderUpTo(b, n)
           /\ \A i \in 1..Len(a), j \in 1..Len(b) : a[i] < b[j]
<1> DEFINE c == a \o b
           k == Len(a)
           l == Len(b)
<1>1. /\ DOMAIN a = 1..k /\ DOMAIN b = 1..l /\ k \in Nat /\ l \in Nat
      /\ DOMAIN c = 1..(k + l)
      /\ \A i \in 1..k : c[i] = a[i] /\ a[i] \in Nat
      /\ \A j \in 1..l : c[k + j] = b[j] /\ b[j] \in Nat
  OBVIOUS
<1> HIDE DEF c, k, l
<1>2. ASSUME InOrderUpTo(c, n)
      PROVE  /\ InOrderUpTo(a, n) /\ InOrderUpTo(b, n)
             /\ \A i \in 1..k, j \in 1..l : a[i] < b[j]
  <2>1. \A i, j \in 1..(k + l) : i < j => c[i] < c[j]
    BY <1>1, <1>2 DEF InOrderUpTo, InOrder
  <2>2. \A i \in 1..(k + l) : c[i] <= n
    BY <1>1, <1>2 DEF InOrderUpTo
  <2>3. (\A j \in 1..l : k + j \in 1..(k + l)) /\ 1..k \subseteq 1..(k + l)
    BY <1>1
  <2>4. InOrderUpTo(a, n)
    BY <1>1, <2>1, <2>2, <2>3 DEF InOrderUpTo, InOrder
  <2>5. InOrderUpTo(b, n)
    <3>1. \A j \in 1..l : b[j] <= n
      BY <1>1, <2>2, <2>3
    <3>2. ASSUME NEW i \in 1..l, NEW j \in 1..l, i < j PROVE b[i] < b[j]
      <4>1. k + i < k + j
        BY <1>1, <3>2
      <4> QED
        BY <1>1, <2>1, <2>3, <4>1
    <3> QED
      BY <1>1, <3>1, <3>2 DEF InOrderUpTo, InOrder
  <2>6. ASSUME NEW i \in 1..k, NEW j \in 1..l PROVE a[i] < b[j]
    <3>1. i < k + j
      BY <1>1
    <3> QED
      BY <1>1, <2>1, <2>3, <3>1
  <2> QED
    BY <2>4, <2>5, <2>6
<1>3. ASSUME InOrderUpTo(a, n), InOrderUpTo(b, n),
             \A i \in 1..k, j \in 1..l : a[i] < b[j]
      PROVE  InOrderUpTo(c, n)
  <2>1. \A i \in 1..(k + l) : i \in 1..k \/ (i - k \in 1..l /\ k + (i - k) = i)
    BY <1>1
  <2>2. \A i \in 1..(k + l) :
          (i \in 1..k /\ c[i] = a[i]) \/ (i - k \in 1..l /\ c[i] = b[i - k])
    BY <1>1, <2>1
  <2>3. \A i \in 1..(k + l) : c[i] <= n
    BY <1>1, <1>3, <2>2 DEF InOrderUpTo
  <2>4. ASSUME NEW i \in 1..(k + l), NEW j \in 1..(k + l), i < j PROVE c[i] < c[j]
    <3>1. CASE i \in 1..k /\ c[i] = a[i] /\ j \in 1..k /\ c[j] = a[j]
      BY <1>1, <1>3, <2>4, <3>1 DEF InOrderUpTo, InOrder
    <3>2. CASE i \in 1..k /\ c[i] = a[i] /\ j - k \in 1..l /\ c[j] = b[j - k]
      BY <1>3, <3>2
    <3>3. CASE i - k \in 1..l /\ c[i] = b[i - k] /\ j - k \in 1..l /\ c[j] = b[j - k]
      <4>1. i - k < j - k
        BY <1>1, <2>4
      <4> QED
        BY <1>1, <1>3, <3>3, <4>1 DEF InOrderUpTo, InOrder
    <3>4. CASE i - k \in 1..l /\ j \in 1..k
      BY <1>1, <2>4, <3>4
    <3> QED
      BY <2>2, <3>1, <3>2, <3>3, <3>4
  <2> QED
    BY <1>1, <2>3, <2>4 DEF InOrderUpTo, InOrder
<1> QED
  BY <1>2, <1>3 DEF c, k, l

\* Whatever is taken out of a text, the rest is in order.
LEMMA InOrderDrop ==
  ASSUME NEW n \in Nat, NEW a \in Seq(Nat), NEW b \in Seq(Nat), NEW c \in Seq(Nat),
         InOrderUpTo(a \o (b \o c), n)
  PROVE  InOrderUpTo(a, n) /\ InOrderUpTo(a \o b, n) /\ InOrderUpTo(a \o c, n)
<1>1. /\ b \o c \in Seq(Nat) /\ Len(b \o c) = Len(b) + Len(c)
      /\ Len(b) \in Nat /\ Len(c) \in Nat
      /\ \A i \in 1..Len(b) : (b \o c)[i] = b[i]
      /\ \A i \in 1..Len(c) : (b \o c)[Len(b) + i] = c[i]
  OBVIOUS
<1>2. /\ InOrderUpTo(a, n) /\ InOrderUpTo(b \o c, n)
      /\ \A i \in 1..Len(a), j \in 1..Len(b \o c) : a[i] < (b \o c)[j]
  BY <1>1, InOrderElements
<1>3. InOrderUpTo(b, n) /\ InOrderUpTo(c, n)
  BY <1>2, InOrderElements
<1>4. \A i \in 1..Len(a), j \in 1..Len(b) : a[i] < b[j]
  BY <1>1, <1>2
<1>5. \A i \in 1..Len(a), j \in 1..Len(c) : a[i] < c[j]
  <2>1. \A j \in 1..Len(c) : Len(b) + j \in 1..Len(b \o c)
    BY <1>1
  <2> QED
    BY <1>1, <1>2, <2>1
<1> QED
  BY <1>2, <1>3, <1>4, <1>5, InOrderElements

\* The next pieces may follow.
LEMMA InOrderMore ==
  ASSUME NEW n \in Nat, NEW k \in Nat, NEW a \in Seq(Nat), InOrderUpTo(a, n)
  PROVE  InOrderUpTo(a \o [i \in 1..k |-> n + i], n + k)
<1> DEFINE more == [i \in 1..k |-> n + i]
<1>1. /\ more \in Seq(Nat) /\ Len(more) = k /\ \A i \in 1..k : more[i] = n + i
      /\ DOMAIN more = 1..k
  OBVIOUS
<1> HIDE DEF more
<1>2. InOrderUpTo(more, n + k)
  BY <1>1 DEF InOrderUpTo, InOrder
<1>3. /\ DOMAIN a = 1..Len(a) /\ \A i \in 1..Len(a) : a[i] \in Nat /\ a[i] <= n
      /\ n + k \in Nat
  BY DEF InOrderUpTo
<1>4. InOrderUpTo(a, n + k)
  BY <1>3 DEF InOrderUpTo
<1>5. \A i \in 1..Len(a), j \in 1..Len(more) : a[i] < more[j]
  BY <1>1, <1>3
<1> QED
  BY <1>1, <1>2, <1>3, <1>4, <1>5, InOrderElements DEF more
-----------------------------------------------------------------------------
(***************************************************************************)
(* The same for the larger proofs, which are about texts as a whole and    *)
(* never look at one of their pieces.                                      *)
(***************************************************************************)
Join(a, b) == a \o b

\* k pieces that follow upon piece n.
After(n, k) == [i \in 1..k |-> n + i]

\* Joining texts yields a text, and it does not matter where one begins.
LEMMA JoinFacts ==
  /\ \A a, b \in Seq(Nat) : Join(a, b) \in Seq(Nat)
  /\ \A a \in Seq(Nat) : Join(a, <<>>) = a /\ Join(<<>>, a) = a
  /\ \A a, b, c \in Seq(Nat) : Join(Join(a, b), c) = Join(a, Join(b, c))
  /\ <<>> \in Seq(Nat)
<1>1. ASSUME NEW a \in Seq(Nat), NEW b \in Seq(Nat) PROVE Join(a, b) \in Seq(Nat)
  BY ConcatProperties DEF Join
<1>2. ASSUME NEW a \in Seq(Nat) PROVE Join(a, <<>>) = a /\ Join(<<>>, a) = a
  BY ConcatEmptySeq DEF Join
<1>3. ASSUME NEW a \in Seq(Nat), NEW b \in Seq(Nat), NEW c \in Seq(Nat)
      PROVE  Join(Join(a, b), c) = Join(a, Join(b, c))
  <2>1. a \o (b \o c) = (a \o b) \o c
    BY TextAssociative
  <2> QED
    BY <2>1 DEF Join
<1> QED
  BY <1>1, <1>2, <1>3, EmptySeq

\* What is taken out of a text, in the middle or at the end, leaves the rest
\* in order.
LEMMA JoinDrop ==
  ASSUME NEW n \in Nat, NEW a \in Seq(Nat), NEW b \in Seq(Nat), NEW c \in Seq(Nat),
         InOrderUpTo(Join(a, Join(b, c)), n)
  PROVE  InOrderUpTo(a, n) /\ InOrderUpTo(Join(a, b), n) /\ InOrderUpTo(Join(a, c), n)
BY InOrderDrop DEF Join

\* New text may follow upon what there is.
LEMMA JoinAfter ==
  ASSUME NEW n \in Nat, NEW k \in Nat, NEW m, m = n + k
  PROVE  /\ After(n, k) \in Seq(Nat)
         /\ Join(UpTo(n), After(n, k)) = UpTo(m)
         /\ \A a \in Seq(Nat) : InOrderUpTo(a, n) => InOrderUpTo(Join(a, After(n, k)), m)
<1>1. After(n, k) \in Seq(Nat)
  BY DEF After
<1>2. Join(UpTo(n), After(n, k)) = UpTo(m)
  BY UpToMore DEF Join, After
<1>3. ASSUME NEW a \in Seq(Nat), InOrderUpTo(a, n)
      PROVE  InOrderUpTo(Join(a, After(n, k)), m)
  BY <1>3, InOrderMore DEF Join, After
<1> QED
  BY <1>1, <1>2, <1>3

\* The pieces of joined texts.
LEMMA RangeJoin ==
  ASSUME NEW a \in Seq(Nat), NEW b \in Seq(Nat)
  PROVE  Range(Join(a, b)) = Range(a) \cup Range(b)
<1> DEFINE c == a \o b
<1>1. /\ c \in Seq(Nat) /\ Len(c) = Len(a) + Len(b) /\ Len(a) \in Nat /\ Len(b) \in Nat
      /\ DOMAIN a = 1..Len(a) /\ DOMAIN b = 1..Len(b) /\ DOMAIN c = 1..Len(c)
      /\ \A i \in 1..Len(a) : c[i] = a[i]
      /\ \A i \in 1..Len(b) : c[Len(a) + i] = b[i]
  OBVIOUS
<1> HIDE DEF c
<1>2. ASSUME NEW i \in DOMAIN c PROVE c[i] \in Range(a) \cup Range(b)
  <2>1. CASE i \in 1..Len(a)
    BY <1>1, <2>1 DEF Range
  <2>2. CASE i - Len(a) \in 1..Len(b)
    <3>1. Len(a) + (i - Len(a)) = i
      BY <1>1
    <3> QED
      BY <1>1, <2>2, <3>1 DEF Range
  <2> QED
    BY <1>1, <2>1, <2>2
<1>3. ASSUME NEW i \in DOMAIN a PROVE a[i] \in Range(c)
  BY <1>1 DEF Range
<1>4. ASSUME NEW i \in DOMAIN b PROVE b[i] \in Range(c)
  <2>1. Len(a) + i \in DOMAIN c
    BY <1>1
  <2> QED
    BY <1>1, <2>1 DEF Range
<1>5. Range(c) = Range(a) \cup Range(b)
  BY <1>2, <1>3, <1>4 DEF Range
<1> QED
  BY <1>5 DEF c, Join

\* A piece that is yet to come is not in the text.
LEMMA NotYet ==
  ASSUME NEW n \in Nat, NEW m \in Nat, n < m, NEW a \in Seq(Nat), InOrderUpTo(a, n)
  PROVE  m \notin Range(a)
BY DEF Range, InOrderUpTo
=============================================================================
