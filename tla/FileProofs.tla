------------------------------ MODULE FileProofs ------------------------------
(***************************************************************************)
(* Proofs about the scanners of files (modules FileWalk, Source, Config    *)
(* and Manifest), for any files and tables.  The modules have no           *)
(* specification of their own; CollectProofs makes theorems of CollectSpec *)
(* of the lemmas here.                                                     *)
(***************************************************************************)
EXTENDS Source, Config, Manifest, SequenceTheorems, WellFoundedInduction, TLAPS

-----------------------------------------------------------------------------
(* Sequences.                                                              *)

(* Every non-empty set of numbers has a first one.                         *)
LEMMA FirstNumber ==
  ASSUME NEW S \in SUBSET Nat, S # {}
  PROVE  \E i \in S : \A j \in S : i <= j
  <1> DEFINE Lower == {p \in Nat \X Nat : p[1] < p[2]}
  <1>1. IsWellFoundedOn(Lower, Nat)
    BY NatLessThanWellFounded DEF OpToRel
  <1> HIDE DEF Lower
  <1>2. PICK i \in S : \A j \in S : ~(<<j, i>> \in Lower)
    BY <1>1, WFMin
  <1>3. \A j \in S : ~(j < i)
    BY <1>2 DEF Lower
  <1> QED
    BY <1>3

IsSeq(s) == s \in Seq(Range(s))

LEMMA SeqFacts ==
  ASSUME NEW s, IsSeq(s)
  PROVE  Len(s) \in Nat /\ DOMAIN s = 1..Len(s) /\ \A i \in 1..Len(s) : s[i] \in Range(s)
  BY LenProperties DEF IsSeq, Range

LEMMA SeqIsSeq ==
  ASSUME NEW S, NEW s \in Seq(S)
  PROVE  /\ IsSeq(s) /\ Len(s) \in Nat /\ DOMAIN s = 1..Len(s)
         /\ Range(s) \subseteq S
  <1>1. Len(s) \in Nat /\ DOMAIN s = 1..Len(s) /\ s = [i \in 1..Len(s) |-> s[i]]
    BY LenProperties
  <1>2. \A i \in 1..Len(s) : s[i] \in Range(s) /\ s[i] \in S
    BY <1>1, ElementOfSeq DEF Range
  <1>3. s \in Seq(Range(s))
    BY <1>1, <1>2, IsASeq
  <1> QED
    BY <1>1, <1>2, <1>3 DEF IsSeq, Range

(* A function of the first numbers is a sequence.                          *)
LEMMA MapIsSeq ==
  ASSUME NEW g, NEW n \in Nat, g = [i \in 1..n |-> g[i]]
  PROVE  IsSeq(g) /\ Len(g) = n /\ DOMAIN g = 1..n
  <1>1. DOMAIN g = 1..n
    OBVIOUS
  <1>2. \A i \in 1..n : g[i] \in Range(g)
    BY <1>1 DEF Range
  <1>3. g \in Seq(Range(g))
    BY <1>2, IsASeq
  <1> QED
    BY <1>1, <1>3, LenProperties DEF IsSeq

(* So is a function over a sequence's positions.                           *)
LEMMA OverIsSeq ==
  ASSUME NEW s, IsSeq(s), NEW g, g = [i \in DOMAIN s |-> g[i]]
  PROVE  IsSeq(g) /\ Len(g) = Len(s) /\ DOMAIN g = DOMAIN s
  <1>1. Len(s) \in Nat /\ DOMAIN s = 1..Len(s)
    BY SeqFacts
  <1> QED
    BY <1>1, MapIsSeq

LEMMA SeqWithin ==
  ASSUME NEW s, IsSeq(s), NEW S, Range(s) \subseteq S
  PROVE  s \in Seq(S)
  <1>1. Len(s) \in Nat /\ DOMAIN s = 1..Len(s) /\ s = [i \in 1..Len(s) |-> s[i]]
    BY LenProperties DEF IsSeq
  <1>2. \A i \in 1..Len(s) : s[i] \in S
    BY <1>1 DEF Range
  <1> QED
    BY <1>1, <1>2, IsASeq

LEMMA JoinFacts ==
  ASSUME NEW s, NEW t, IsSeq(s), IsSeq(t)
  PROVE  /\ IsSeq(s \o t) /\ Len(s \o t) = Len(s) + Len(t)
         /\ DOMAIN (s \o t) = 1..(Len(s) + Len(t))
         /\ \A i \in 1..Len(s) : (s \o t)[i] = s[i]
         /\ \A i \in 1..Len(t) : (s \o t)[Len(s) + i] = t[i]
         /\ Range(s \o t) = Range(s) \cup Range(t)
  <1> DEFINE both == Range(s) \cup Range(t)
  <1>1. s \in Seq(both) /\ t \in Seq(both)
    BY SeqWithin
  <1>2. Len(s) \in Nat /\ Len(t) \in Nat /\ DOMAIN s = 1..Len(s) /\ DOMAIN t = 1..Len(t)
    BY SeqFacts
  <1>3. s \o t \in Seq(both) /\ Len(s \o t) = Len(s) + Len(t)
        /\ \A i \in 1..(Len(s) + Len(t)) : (s \o t)[i] = IF i <= Len(s) THEN s[i] ELSE t[i - Len(s)]
    BY <1>1, <1>2, ConcatProperties
  <1> HIDE DEF both
  <1>4. IsSeq(s \o t) /\ DOMAIN (s \o t) = 1..(Len(s) + Len(t))
    BY <1>3, SeqIsSeq
  <1>5. \A i \in 1..Len(s) : (s \o t)[i] = s[i]
    BY <1>2, <1>3
  <1>6. \A i \in 1..Len(t) : Len(s) + i \in 1..(Len(s) + Len(t)) /\ (s \o t)[Len(s) + i] = t[i]
    BY <1>2, <1>3
  <1>7. ASSUME NEW i \in 1..(Len(s) + Len(t))
        PROVE  (s \o t)[i] \in Range(s) \cup Range(t)
    <2>1. CASE i <= Len(s)
      BY <1>2, <1>5, <2>1 DEF Range
    <2>2. CASE ~(i <= Len(s))
      <3>1. i - Len(s) \in DOMAIN t /\ (s \o t)[i] = t[i - Len(s)]
        BY <1>2, <1>3, <2>2
      <3> QED
        BY <3>1 DEF Range
    <2> QED
      BY <2>1, <2>2
  <1>8. Range(s \o t) \subseteq Range(s) \cup Range(t)
    BY <1>4, <1>7 DEF Range
  <1>9. Range(s) \subseteq Range(s \o t)
    <2>1. \A i \in 1..Len(s) : i \in DOMAIN (s \o t)
      BY <1>2, <1>4
    <2> QED
      BY <1>2, <1>5, <2>1 DEF Range
  <1>10. Range(t) \subseteq Range(s \o t)
    BY <1>2, <1>4, <1>6 DEF Range
  <1> QED
    BY <1>3, <1>4, <1>5, <1>6, <1>8, <1>9, <1>10

-----------------------------------------------------------------------------
(* FlattenSeq(): what is flattened so far, of a sequence of sequences.     *)
Flattens(f, ss, n) == f = [i \in 1..n |-> IF i = 1 THEN ss[i] ELSE f[i-1] \o ss[i]]

LEMMA FlattenUnfolds ==
  ASSUME NEW ss, Len(ss) # 0
  PROVE  FlattenSeq(ss) = (CHOOSE f : Flattens(f, ss, Len(ss)))[Len(ss)]
  BY DEF FlattenSeq, Flattens

LEMMA FlattensExists ==
  ASSUME NEW ss
  PROVE  \A n \in Nat : \E f : Flattens(f, ss, n)
  <1> DEFINE Bad == {n \in Nat : ~\E f : Flattens(f, ss, n)}
  <1> SUFFICES ASSUME Bad # {} PROVE FALSE
    OBVIOUS
  <1>1. PICK n \in Bad : \A j \in Bad : n <= j
    BY FirstNumber
  <1>2. n # 0
    <2>1. Flattens([i \in 1..0 |-> 0], ss, 0)
      BY DEF Flattens
    <2> QED
      BY <1>1, <2>1
  <1>3. n - 1 \in Nat /\ n - 1 \notin Bad
    BY <1>1, <1>2
  <1>4. PICK f : Flattens(f, ss, n - 1)
    BY <1>3
  <1> DEFINE g == [i \in 1..n |-> IF i < n THEN f[i] ELSE IF i = 1 THEN ss[i] ELSE f[i-1] \o ss[i]]
  <1>5. ASSUME NEW i \in 1..n
        PROVE  g[i] = IF i = 1 THEN ss[i] ELSE g[i-1] \o ss[i]
    <2>1. CASE i = n
      BY <2>1, <1>1, <1>2
    <2>2. CASE i < n
      <3>1. i \in 1..(n - 1) /\ (i # 1 => i - 1 \in 1..(n - 1))
        BY <2>2, <1>1
      <3>2. f[i] = IF i = 1 THEN ss[i] ELSE f[i-1] \o ss[i]
        BY <3>1, <1>4 DEF Flattens
      <3>3. g[i] = f[i] /\ (i # 1 => g[i - 1] = f[i - 1])
        BY <3>1, <2>2, <1>1
      <3> QED
        BY <3>2, <3>3
    <2> QED
      BY <2>1, <2>2, <1>1
  <1>6. g = [i \in 1..n |-> g[i]]
    OBVIOUS
  <1> HIDE DEF g
  <1>7. g = [i \in 1..n |-> IF i = 1 THEN ss[i] ELSE g[i-1] \o ss[i]]
    BY <1>5, <1>6, Zenon
  <1>8. Flattens(g, ss, n)
    BY <1>7 DEF Flattens
  <1> QED
    BY <1>1, <1>8

(* Where each element of s, the first n sequences of ss flattened, is from.*)
From(h, s, ss, n) ==
  /\ IsSeq(s)
  /\ \A p \in DOMAIN s : h[p] \in 1..n /\ s[p] \in Range(ss[h[p]])
  /\ \A p, q \in DOMAIN s : p <= q => h[p] <= h[q]
  /\ \A p, q \in DOMAIN s : p < q /\ h[p] = h[q] =>
       \E a, b \in DOMAIN ss[h[p]] : a < b /\ s[p] = ss[h[p]][a] /\ s[q] = ss[h[p]][b]
  /\ \A i \in 1..n : \A x \in Range(ss[i]) : \E p \in DOMAIN s : h[p] = i /\ s[p] = x

LEMMA FromNext ==
  ASSUME NEW ss, NEW n \in Nat, NEW h, NEW s, From(h, s, ss, n), IsSeq(ss[n + 1])
  PROVE  \E g : From(g, s \o ss[n + 1], ss, n + 1)
  <1>1. PICK t : t = ss[n + 1]
    OBVIOUS
  <1>2. PICK both : both = s \o t
    OBVIOUS
  <1>3. PICK m, k : m = Len(s) /\ k = Len(t)
    OBVIOUS
  <1>4. m \in Nat /\ k \in Nat /\ DOMAIN s = 1..m /\ DOMAIN t = 1..k
    BY <1>1, <1>3, SeqFacts DEF From
  <1>5. /\ IsSeq(both) /\ DOMAIN both = 1..(m + k)
        /\ \A i \in 1..m : both[i] = s[i]
        /\ \A i \in 1..k : both[m + i] = t[i]
    BY <1>1, <1>2, <1>3, JoinFacts DEF From
  <1>6. PICK g : g = [p \in 1..(m + k) |-> IF p <= m THEN h[p] ELSE n + 1]
    OBVIOUS
  <1>7. ASSUME NEW p \in DOMAIN both
        PROVE  \/ p \in DOMAIN s /\ p <= m /\ both[p] = s[p] /\ g[p] = h[p] /\ g[p] \in 1..n
               \/ p > m /\ p - m \in DOMAIN t /\ both[p] = t[p - m] /\ g[p] = n + 1
    <2>1. CASE p <= m
      <3>1. p \in DOMAIN s /\ p \in 1..m /\ p \in 1..(m + k)
        BY <1>4, <1>5, <2>1
      <3>2. g[p] = h[p]
        BY <1>6, <2>1, <3>1
      <3> QED
        BY <1>5, <2>1, <3>1, <3>2 DEF From
    <2>2. CASE ~(p <= m)
      <3>1. p \in 1..(m + k) /\ p - m \in 1..k /\ p = m + (p - m) /\ p > m
        BY <1>4, <1>5, <2>2
      <3>2. g[p] = n + 1
        BY <1>6, <2>2, <3>1
      <3> QED
        BY <1>4, <1>5, <3>1, <3>2
    <2> QED
      BY <2>1, <2>2
  <1>8. ASSUME NEW p \in DOMAIN both
        PROVE  g[p] \in 1..(n + 1) /\ both[p] \in Range(ss[g[p]])
    <2>1. CASE p \in DOMAIN s /\ both[p] = s[p] /\ g[p] = h[p] /\ g[p] \in 1..n
      <3>1. s[p] \in Range(ss[h[p]])
        BY <2>1 DEF From
      <3> QED
        BY <2>1, <3>1
    <2>2. CASE p - m \in DOMAIN t /\ both[p] = t[p - m] /\ g[p] = n + 1
      <3>1. t[p - m] \in Range(t)
        BY <2>2 DEF Range
      <3> QED
        BY <1>1, <2>2, <3>1
    <2> QED
      BY <1>7, <2>1, <2>2
  <1>9. ASSUME NEW p \in DOMAIN both, NEW q \in DOMAIN both, p <= q
        PROVE  g[p] <= g[q]
    <2>1. CASE p \in DOMAIN s /\ q \in DOMAIN s /\ g[p] = h[p] /\ g[q] = h[q]
      BY <1>9, <2>1 DEF From
    <2>2. CASE g[q] = n + 1
      BY <1>8, <2>2
    <2>3. ~(p > m /\ q <= m)
      BY <1>4, <1>5, <1>9
    <2> QED
      BY <1>7, <2>1, <2>2, <2>3
  <1>w. ASSUME NEW p \in DOMAIN both, NEW q \in DOMAIN both, p < q, g[p] = g[q]
        PROVE  \E a, b \in DOMAIN ss[g[p]] : a < b /\ both[p] = ss[g[p]][a] /\ both[q] = ss[g[p]][b]
    <2>1. p \in Nat /\ q \in Nat
      BY <1>4, <1>5
    <2>2. CASE p <= m /\ q <= m
      <3>1. /\ p \in DOMAIN s /\ q \in DOMAIN s /\ g[p] = h[p] /\ g[q] = h[q]
            /\ both[p] = s[p] /\ both[q] = s[q]
        BY <1>4, <1>7, <2>1, <2>2
      <3>2. \A x, y \in DOMAIN s : x < y /\ h[x] = h[y] =>
              \E a, b \in DOMAIN ss[h[x]] : a < b /\ s[x] = ss[h[x]][a] /\ s[y] = ss[h[x]][b]
        BY DEF From
      <3>3. h[p] = h[q]
        BY <1>w, <3>1
      <3>4. \E a, b \in DOMAIN ss[h[p]] : a < b /\ s[p] = ss[h[p]][a] /\ s[q] = ss[h[p]][b]
        BY <1>w, <3>1, <3>2, <3>3
      <3> QED
        BY <3>1, <3>4
    <2>3. CASE p > m /\ q > m
      <3>1. /\ g[p] = n + 1 /\ p - m \in DOMAIN t /\ q - m \in DOMAIN t
            /\ both[p] = t[p - m] /\ both[q] = t[q - m]
        BY <1>4, <1>7, <2>1, <2>3
      <3>2. p - m < q - m
        BY <1>4, <1>w, <2>1
      <3> QED
        BY <1>1, <3>1, <3>2
    <2>4. ~(p <= m /\ q > m) /\ ~(p > m /\ q <= m)
      BY <1>4, <1>7, <1>w, <2>1
    <2> QED
      BY <1>4, <2>1, <2>2, <2>3, <2>4
  <1>10. ASSUME NEW i \in 1..(n + 1), NEW x \in Range(ss[i])
         PROVE  \E p \in DOMAIN both : g[p] = i /\ both[p] = x
    <2>1. CASE i \in 1..n
      <3>1. PICK p \in DOMAIN s : h[p] = i /\ s[p] = x
        BY <2>1 DEF From
      <3>2. p \in 1..m /\ p \in 1..(m + k) /\ p <= m
        BY <1>4
      <3>3. p \in DOMAIN both /\ both[p] = s[p] /\ g[p] = h[p]
        BY <1>5, <1>6, <3>2
      <3> QED
        BY <3>1, <3>3
    <2>2. CASE i = n + 1
      <3>1. PICK j \in DOMAIN t : t[j] = x
        BY <1>1, <2>2 DEF Range
      <3>2. m + j \in 1..(m + k) /\ ~(m + j <= m)
        BY <1>4
      <3>3. m + j \in DOMAIN both /\ both[m + j] = t[j]
        BY <1>4, <1>5, <3>2
      <3>4. g[m + j] = n + 1
        BY <1>6, <3>2
      <3> QED
        BY <2>2, <3>1, <3>3, <3>4
    <2> QED
      BY <2>1, <2>2
  <1> QED
    <2>1. IsSeq(both)
      BY <1>5
    <2>2. From(g, both, ss, n + 1)
      BY <1>8, <1>9, <1>w, <1>10, <2>1 DEF From
    <2> QED
      BY <1>1, <1>2, <2>2

(* A flattened sequence has what the sequences have, in their order.       *)
LEMMA FlattenOrder ==
  ASSUME NEW ss, IsSeq(ss), \A i \in DOMAIN ss : IsSeq(ss[i])
  PROVE  \E h : From(h, FlattenSeq(ss), ss, Len(ss))
  <1>1. Len(ss) \in Nat /\ DOMAIN ss = 1..Len(ss)
    BY SeqFacts
  <1>e. From(<<>>, <<>>, ss, 0)
    BY DEF From, IsSeq, Range
  <1>2. CASE Len(ss) = 0
    <2>1. ss = <<>>
      <3>1. ss \in Seq(Range(ss))
        BY DEF IsSeq
      <3> QED
        BY <1>2, <3>1, EmptySeq
    <2>2. FlattenSeq(ss) = <<>>
      BY <1>2, <2>1 DEF FlattenSeq
    <2> QED
      BY <1>2, <1>e, <2>2
  <1>3. CASE Len(ss) # 0
    <2>1. PICK f : Flattens(f, ss, Len(ss)) /\ FlattenSeq(ss) = f[Len(ss)]
      <3>1. \E f : Flattens(f, ss, Len(ss))
        BY <1>1, FlattensExists
      <3>2. Flattens(CHOOSE f : Flattens(f, ss, Len(ss)), ss, Len(ss))
        BY <3>1
      <3> QED
        BY <1>3, <3>2, FlattenUnfolds
    <2> DEFINE n == Len(ss)
               Right(k) == \E h : From(h, f[k], ss, k)
               Bad == {k \in 1..n : ~Right(k)}
    <2>2. \A k \in 1..n : f[k] = IF k = 1 THEN ss[k] ELSE f[k-1] \o ss[k]
      BY <2>1 DEF Flattens
    <2>3. \A k \in 1..n : IsSeq(ss[k])
      BY <1>1
    <2>4. n \in Nat /\ n # 0
      BY <1>1, <1>3
    <2> HIDE DEF n, Right
    <2>5. ASSUME Bad # {} PROVE FALSE
      <3>1. PICK k \in Bad : \A j \in Bad : k <= j
        <4>1. Bad \in SUBSET Nat
          BY <2>4
        <4> HIDE DEF Bad
        <4> QED
          BY <2>5, <4>1, FirstNumber
      <3>2. k \in 1..n /\ ~Right(k)
        BY <3>1
      <3>3. CASE k = 1
        <4>1. \E g : From(g, <<>> \o ss[0 + 1], ss, 0 + 1)
          <5>1. 0 \in Nat /\ IsSeq(ss[0 + 1])
            BY <2>3, <2>4
          <5>2. From(<<>>, <<>>, ss, 0)
            BY <1>e
          <5> QED
            BY <5>1, <5>2, FromNext, Zenon
        <4>2. <<>> \o ss[1] = ss[1]
          BY <2>3, <2>4, ConcatEmptySeq DEF IsSeq
        <4>3. f[1] = ss[1]
          BY <2>2, <2>4
        <4> QED
          BY <3>2, <3>3, <4>1, <4>2, <4>3 DEF Right
      <3>4. CASE k # 1
        <4>1. PICK j : j = k - 1
          OBVIOUS
        <4>2. j \in 1..n /\ j \in Nat /\ j \notin Bad /\ k = j + 1
          BY <2>4, <3>1, <3>2, <3>4, <4>1
        <4>3. PICK h : From(h, f[j], ss, j)
          BY <4>2 DEF Right
        <4>4. f[k] = f[j] \o ss[k]
          BY <2>2, <3>2, <3>4, <4>1
        <4>5. \E g : From(g, f[j] \o ss[j + 1], ss, j + 1)
          BY <2>3, <3>2, <4>2, <4>3, FromNext
        <4> QED
          BY <3>2, <4>2, <4>4, <4>5 DEF Right
      <3> QED
        BY <3>3, <3>4
    <2>6. n \in 1..n
      BY <2>4
    <2>7. Right(n)
      BY <2>5, <2>6
    <2> QED
      BY <2>1, <2>7 DEF n, Right
  <1> QED
    BY <1>2, <1>3

LEMMA FlattenFacts ==
  ASSUME NEW ss, IsSeq(ss), \A i \in DOMAIN ss : IsSeq(ss[i])
  PROVE  /\ IsSeq(FlattenSeq(ss))
         /\ \A x : x \in Range(FlattenSeq(ss)) <=> \E i \in DOMAIN ss : x \in Range(ss[i])
  <1>1. PICK h : From(h, FlattenSeq(ss), ss, Len(ss))
    BY FlattenOrder
  <1>2. DOMAIN ss = 1..Len(ss)
    BY SeqFacts
  <1>3. PICK s : s = FlattenSeq(ss)
    OBVIOUS
  <1>4. \A x : x \in Range(s) => \E i \in DOMAIN ss : x \in Range(ss[i])
    BY <1>1, <1>2, <1>3 DEF From, Range
  <1>5. \A i \in DOMAIN ss : \A x \in Range(ss[i]) : x \in Range(s)
    <2>1. \A i \in DOMAIN ss : \A x \in Range(ss[i]) : \E p \in DOMAIN s : s[p] = x
      BY <1>1, <1>2, <1>3 DEF From
    <2> QED
      BY <2>1 DEF Range
  <1> QED
    BY <1>1, <1>3, <1>4, <1>5 DEF From

(* What is chosen of a sequence.                                           *)
LEMMA ChosenFacts ==
  ASSUME NEW s, IsSeq(s), NEW S
  PROVE  /\ IsSeq(Chosen(s, S))
         /\ \A x : x \in Range(Chosen(s, S)) <=> \E i \in DOMAIN s \cap S : x = s[i]
  <1> DEFINE ss == [i \in DOMAIN s |-> IF i \in S THEN <<s[i]>> ELSE <<>>]
  <1>1. Len(s) \in Nat /\ DOMAIN s = 1..Len(s)
    BY SeqFacts
  <1>2. IsSeq(ss) /\ DOMAIN ss = DOMAIN s
    <2>1. ss = [i \in 1..Len(s) |-> ss[i]]
      BY <1>1
    <2> HIDE DEF ss
    <2> QED
      BY <1>1, <2>1, MapIsSeq
  <1>3. ASSUME NEW i \in DOMAIN ss
        PROVE  IsSeq(ss[i]) /\ Range(ss[i]) = IF i \in S THEN {s[i]} ELSE {}
    <2>1. CASE i \in S
      BY <2>1 DEF IsSeq, Range
    <2>2. CASE i \notin S
      BY <2>2 DEF IsSeq, Range
    <2> QED
      BY <2>1, <2>2
  <1> HIDE DEF ss
  <1>4. IsSeq(FlattenSeq(ss)) /\ \A x : x \in Range(FlattenSeq(ss)) <=> \E i \in DOMAIN ss : x \in Range(ss[i])
    BY <1>2, <1>3, FlattenFacts
  <1>5. Chosen(s, S) = FlattenSeq(ss)
    BY DEF Chosen, ss
  <1>6. \A x : (\E i \in DOMAIN ss : x \in Range(ss[i])) <=> \E i \in DOMAIN s \cap S : x = s[i]
    BY <1>2, <1>3
  <1> QED
    BY <1>4, <1>5, <1>6

(* Each of its elements is chosen once.                                    *)
LEMMA ChosenOnce ==
  ASSUME NEW s, IsSeq(s), NEW S
  PROVE  \E h : /\ \A p \in DOMAIN Chosen(s, S) : h[p] \in DOMAIN s /\ Chosen(s, S)[p] = s[h[p]]
                /\ \A p, q \in DOMAIN Chosen(s, S) : h[p] = h[q] => p = q
  <1> DEFINE ss == [i \in DOMAIN s |-> IF i \in S THEN <<s[i]>> ELSE <<>>]
             all == Chosen(s, S)
  <1>1. Len(s) \in Nat /\ DOMAIN s = 1..Len(s)
    BY SeqFacts
  <1>2. IsSeq(ss) /\ DOMAIN ss = DOMAIN s /\ Len(ss) = Len(s)
    BY OverIsSeq
  <1>3. ASSUME NEW i \in DOMAIN ss
        PROVE  IsSeq(ss[i]) /\ Range(ss[i]) \subseteq {s[i]} /\ \A a, b \in DOMAIN ss[i] : ~(a < b)
    <2>1. CASE i \in S
      BY <2>1 DEF IsSeq, Range
    <2>2. CASE i \notin S
      BY <2>2 DEF IsSeq, Range
    <2> QED
      BY <2>1, <2>2
  <1>4. all = FlattenSeq(ss)
    BY DEF Chosen
  <1> HIDE DEF ss, all
  <1>5. PICK h : From(h, all, ss, Len(ss))
    BY <1>2, <1>3, <1>4, FlattenOrder
  <1>6. \A p \in DOMAIN all : h[p] \in DOMAIN s /\ all[p] = s[h[p]]
    BY <1>1, <1>2, <1>3, <1>5 DEF From
  <1>7. ASSUME NEW p \in DOMAIN all, NEW q \in DOMAIN all, h[p] = h[q]
        PROVE  p = q
    <2>1. p \in Nat /\ q \in Nat
      BY <1>5, SeqFacts DEF From
    <2>2. ~(p < q) /\ ~(q < p)
      BY <1>2, <1>3, <1>5, <1>6, <1>7 DEF From
    <2> QED
      BY <2>1, <2>2
  <1> QED
    BY <1>6, <1>7 DEF all
-----------------------------------------------------------------------------
(* Pieces.                                                                 *)

(* Findings of a file, and relationships between them.                     *)
PieceOf(id, p) ==
  /\ IsSeq(p.assets)
  /\ \A i \in DOMAIN p.assets : p.assets[i].place[2] = id /\ Coherent(p.assets[i])
  /\ \A l \in p.links : {l[1], l[2]} \subseteq DOMAIN p.assets

LEMMA NoPieceIsPiece == ASSUME NEW id PROVE PieceOf(id, NoPiece)
  BY DEF PieceOf, NoPiece, Piece, IsSeq, Range

(* A piece behind another.                                                 *)
LEMMA JoinedFacts ==
  ASSUME NEW p, NEW q, IsSeq(p.assets), IsSeq(q.assets)
  PROVE  /\ IsSeq(Joined(p, q).assets)
         /\ Len(p.assets) \in Nat
         /\ DOMAIN Joined(p, q).assets = DOMAIN p.assets \cup {Len(p.assets) + i : i \in DOMAIN q.assets}
         /\ \A i \in DOMAIN p.assets : Joined(p, q).assets[i] = p.assets[i]
         /\ \A i \in DOMAIN q.assets : Joined(p, q).assets[Len(p.assets) + i] = q.assets[i]
         /\ p.links \subseteq Joined(p, q).links
         /\ \A l \in q.links :
              <<Len(p.assets) + l[1], Len(p.assets) + l[2], l[3]>> \in Joined(p, q).links
  <1> DEFINE a == p.assets
             b == q.assets
             n == Len(a)
             j == Joined(p, q)
  <1>1. j.assets = a \o b /\ j.links = p.links \cup {<<n + l[1], n + l[2], l[3]>> : l \in q.links}
    BY DEF Joined, Piece
  <1>2. IsSeq(a) /\ IsSeq(b)
    OBVIOUS
  <1>3. n \in Nat /\ Len(b) \in Nat /\ DOMAIN a = 1..n /\ DOMAIN b = 1..Len(b)
    BY <1>2, SeqFacts
  <1>n. n = Len(a)
    OBVIOUS
  <1> HIDE DEF a, b, n, j
  <1>4. /\ IsSeq(j.assets) /\ DOMAIN j.assets = 1..(n + Len(b))
        /\ \A i \in 1..n : j.assets[i] = a[i]
        /\ \A i \in 1..Len(b) : j.assets[n + i] = b[i]
    BY <1>1, <1>2, <1>n, JoinFacts
  <1>5. DOMAIN j.assets = DOMAIN a \cup {n + i : i \in DOMAIN b}
    <2>1. \A i \in 1..(n + Len(b)) : i \in 1..n \/ (i - n \in 1..Len(b) /\ i = n + (i - n))
      BY <1>3
    <2>2. \A i \in 1..n : i \in 1..(n + Len(b))
      BY <1>3
    <2>3. \A i \in 1..Len(b) : n + i \in 1..(n + Len(b))
      BY <1>3
    <2> QED
      BY <1>3, <1>4, <2>1, <2>2, <2>3
  <1> QED
    BY <1>1, <1>3, <1>4, <1>5 DEF a, b, n, j

LEMMA JoinedIsOf ==
  ASSUME NEW id, NEW p, NEW q, PieceOf(id, p), PieceOf(id, q)
  PROVE  PieceOf(id, Joined(p, q))
  <1>1. IsSeq(p.assets) /\ IsSeq(q.assets)
    BY DEF PieceOf
  <1>2. /\ IsSeq(Joined(p, q).assets)
        /\ DOMAIN Joined(p, q).assets = DOMAIN p.assets \cup {Len(p.assets) + i : i \in DOMAIN q.assets}
        /\ \A i \in DOMAIN p.assets : Joined(p, q).assets[i] = p.assets[i]
        /\ \A i \in DOMAIN q.assets : Joined(p, q).assets[Len(p.assets) + i] = q.assets[i]
    BY <1>1, JoinedFacts
  <1>3. PICK j : j = Joined(p, q)
    OBVIOUS
  <1> DEFINE a == p.assets
             b == q.assets
             n == Len(a)
  <1>4. j.links = p.links \cup {<<n + l[1], n + l[2], l[3]>> : l \in q.links}
    BY <1>3 DEF Joined, Piece
  <1>5. /\ IsSeq(j.assets) /\ DOMAIN j.assets = DOMAIN a \cup {n + i : i \in DOMAIN b}
        /\ \A i \in DOMAIN a : j.assets[i] = a[i]
        /\ \A i \in DOMAIN b : j.assets[n + i] = b[i]
    BY <1>2, <1>3
  <1> HIDE DEF a, b, n
  <1>6. ASSUME NEW i \in DOMAIN j.assets
        PROVE  j.assets[i].place[2] = id /\ Coherent(j.assets[i])
    <2>1. CASE i \in DOMAIN a
      BY <1>5, <2>1 DEF PieceOf, a
    <2>2. CASE i \notin DOMAIN a
      <3>1. PICK k \in DOMAIN b : i = n + k
        BY <1>5, <2>2
      <3> QED
        BY <1>5, <3>1 DEF PieceOf, b
    <2> QED
      BY <2>1, <2>2
  <1>7. ASSUME NEW l \in j.links
        PROVE  {l[1], l[2]} \subseteq DOMAIN j.assets
    <2>1. CASE l \in p.links
      BY <1>5, <2>1 DEF PieceOf, a
    <2>2. CASE l \notin p.links
      <3>1. PICK m \in q.links : l = <<n + m[1], n + m[2], m[3]>>
        BY <1>4, <2>2
      <3>2. m[1] \in DOMAIN b /\ m[2] \in DOMAIN b
        BY DEF PieceOf, b
      <3> QED
        BY <1>5, <3>1, <3>2
    <2> QED
      BY <2>1, <2>2
  <1> QED
    BY <1>3, <1>5, <1>6, <1>7 DEF PieceOf

(* What a piece shows: its algorithms, and its protocols, of which each    *)
(* algorithm is negotiated by one.                                         *)
Row(a) == <<a.place[3], a.name, a.params>>
Rows(p) == {Row(p.assets[i]) : i \in {j \in DOMAIN p.assets : p.assets[j].kind = "algorithm"}}
Heads(p) == {p.assets[i].name : i \in {j \in DOMAIN p.assets : p.assets[j].kind = "protocol"}}
Anchored(p) ==
  \A i \in DOMAIN p.assets :
    p.assets[i].kind = "protocol"
      \/ \E h \in DOMAIN p.assets : p.assets[h].kind = "protocol" /\ <<i, h, "negotiated-by">> \in p.links

LEMMA NothingShown == Rows(NoPiece) = {} /\ Heads(NoPiece) = {} /\ Anchored(NoPiece)
  BY DEF Rows, Heads, Anchored, NoPiece, Piece

LEMMA JoinedShown ==
  ASSUME NEW id, NEW p, NEW q, PieceOf(id, p), PieceOf(id, q)
  PROVE  /\ Rows(Joined(p, q)) = Rows(p) \cup Rows(q)
         /\ Heads(Joined(p, q)) = Heads(p) \cup Heads(q)
         /\ Anchored(p) /\ Anchored(q) => Anchored(Joined(p, q))
  <1>0. /\ DOMAIN Joined(p, q).assets = DOMAIN p.assets \cup {Len(p.assets) + i : i \in DOMAIN q.assets}
        /\ \A i \in DOMAIN p.assets : Joined(p, q).assets[i] = p.assets[i]
        /\ \A i \in DOMAIN q.assets : Joined(p, q).assets[Len(p.assets) + i] = q.assets[i]
        /\ p.links \subseteq Joined(p, q).links
        /\ \A l \in q.links :
             <<Len(p.assets) + l[1], Len(p.assets) + l[2], l[3]>> \in Joined(p, q).links
    BY JoinedFacts DEF PieceOf
  <1>j. PICK j : j = Joined(p, q)
    OBVIOUS
  <1> DEFINE a == p.assets
             b == q.assets
             c == j.assets
             n == Len(a)
  <1>1. /\ DOMAIN c = DOMAIN a \cup {n + i : i \in DOMAIN b}
        /\ \A i \in DOMAIN a : c[i] = a[i]
        /\ \A i \in DOMAIN b : c[n + i] = b[i]
        /\ p.links \subseteq j.links
        /\ \A l \in q.links : <<n + l[1], n + l[2], l[3]>> \in j.links
    BY <1>0, <1>j
  <1>2. /\ Rows(p) = {Row(a[i]) : i \in {k \in DOMAIN a : a[k].kind = "algorithm"}}
        /\ Rows(q) = {Row(b[i]) : i \in {k \in DOMAIN b : b[k].kind = "algorithm"}}
        /\ Rows(j) = {Row(c[i]) : i \in {k \in DOMAIN c : c[k].kind = "algorithm"}}
    BY DEF Rows
  <1>3. /\ Heads(p) = {a[i].name : i \in {k \in DOMAIN a : a[k].kind = "protocol"}}
        /\ Heads(q) = {b[i].name : i \in {k \in DOMAIN b : b[k].kind = "protocol"}}
        /\ Heads(j) = {c[i].name : i \in {k \in DOMAIN c : c[k].kind = "protocol"}}
    BY DEF Heads
  <1>4. ASSUME Anchored(p), Anchored(q), NEW i \in DOMAIN c, c[i].kind # "protocol"
        PROVE  \E h \in DOMAIN c : c[h].kind = "protocol" /\ <<i, h, "negotiated-by">> \in j.links
    <2> HIDE DEF a, b, c, n
    <2>1. CASE i \in DOMAIN a
      <3>1. PICK h \in DOMAIN a : a[h].kind = "protocol" /\ <<i, h, "negotiated-by">> \in p.links
        BY <1>1, <1>4, <2>1 DEF Anchored, a
      <3> QED
        BY <1>1, <3>1
    <2>2. CASE i \notin DOMAIN a
      <3>1. PICK k \in DOMAIN b : i = n + k
        BY <1>1, <2>2
      <3>2. PICK h \in DOMAIN b : b[h].kind = "protocol" /\ <<k, h, "negotiated-by">> \in q.links
        BY <1>1, <1>4, <3>1 DEF Anchored, b
      <3>3. <<n + k, n + h, "negotiated-by">> \in j.links
        <4>1. PICK l \in q.links : l = <<k, h, "negotiated-by">>
          BY <3>2
        <4> QED
          BY <1>1, <4>1
      <3> QED
        BY <1>1, <3>1, <3>2, <3>3
    <2> QED
      BY <2>1, <2>2
  <1> HIDE DEF a, b, c, n
  <1>5. Rows(j) = Rows(p) \cup Rows(q)
    <2> DEFINE A == {k \in DOMAIN a : a[k].kind = "algorithm"}
               B == {k \in DOMAIN b : b[k].kind = "algorithm"}
               C == {k \in DOMAIN c : c[k].kind = "algorithm"}
    <2>1. C = A \cup {n + k : k \in B}
      BY <1>1
    <2>2. (\A k \in A : c[k] = a[k]) /\ (\A k \in B : c[n + k] = b[k])
      BY <1>1
    <2>3. Rows(p) = {Row(a[k]) : k \in A} /\ Rows(q) = {Row(b[k]) : k \in B} /\ Rows(j) = {Row(c[k]) : k \in C}
      BY <1>2
    <2> HIDE DEF A, B, C
    <2> QED
      BY <2>1, <2>2, <2>3
  <1>6. Heads(j) = Heads(p) \cup Heads(q)
    <2> DEFINE A == {k \in DOMAIN a : a[k].kind = "protocol"}
               B == {k \in DOMAIN b : b[k].kind = "protocol"}
               C == {k \in DOMAIN c : c[k].kind = "protocol"}
    <2>1. C = A \cup {n + k : k \in B}
      BY <1>1
    <2>2. (\A k \in A : c[k] = a[k]) /\ (\A k \in B : c[n + k] = b[k])
      BY <1>1
    <2>3. Heads(p) = {a[k].name : k \in A} /\ Heads(q) = {b[k].name : k \in B} /\ Heads(j) = {c[k].name : k \in C}
      BY <1>3
    <2> HIDE DEF A, B, C
    <2> QED
      BY <2>1, <2>2, <2>3
  <1> QED
    BY <1>j, <1>4, <1>5, <1>6 DEF Anchored, c

-----------------------------------------------------------------------------
(* Config: what the lines of a file are emitted as.                        *)

AreProtocols(f, protocols) ==
  \A i \in DOMAIN protocols : \E line, name : protocols[i] = Configured(f, line, "protocol", name, None)

LEMMA ConfiguredFacts ==
  ASSUME NEW f, NEW line, NEW kind, NEW name, NEW partner
  PROVE  LET c == Configured(f, line, kind, name, partner) IN
         /\ c.place[2] = f.id /\ c.kind = kind /\ c.name = name /\ Row(c) = <<line, name, partner>>
         /\ Coherent(c)
  BY DEF Configured, Row, Coherent

LEMMA EmittedFacts ==
  ASSUME NEW f, NEW protocols, NEW entries, IsSeq(protocols), IsSeq(entries), AreProtocols(f, protocols)
  PROVE  LET e == Emitted(f, protocols, entries) IN
         /\ PieceOf(f.id, e)
         /\ Rows(e) = {<<entries[i].line, entries[i].algorithm, entries[i].partner>> : i \in DOMAIN entries}
         /\ Heads(e) = {protocols[i].name : i \in DOMAIN protocols}
         /\ Len(protocols) # 0 \/ DOMAIN entries = {} => Anchored(e)
  <1> DEFINE e == Emitted(f, protocols, entries)
             n == Len(protocols)
             below == [i \in DOMAIN entries |->
               Configured(f, entries[i].line, "algorithm", entries[i].algorithm, entries[i].partner)]
             all == e.assets
             neg == "negotiated-by"
  <1>1. all = protocols \o below /\ e.links = IF n = 0 THEN {} ELSE {<<n + i, 1, neg>> : i \in DOMAIN entries}
    BY DEF Emitted, Piece
  <1>2. n \in Nat /\ Len(entries) \in Nat /\ DOMAIN protocols = 1..n /\ DOMAIN entries = 1..Len(entries)
    BY SeqFacts
  <1>3. IsSeq(below) /\ Len(below) = Len(entries) /\ DOMAIN below = DOMAIN entries
    <2>1. below = [i \in 1..Len(entries) |-> below[i]]
      BY <1>2
    <2> HIDE DEF below
    <2> QED
      BY <1>2, <2>1, MapIsSeq
  <1>4. ASSUME NEW i \in DOMAIN below
        PROVE  /\ below[i].place[2] = f.id /\ below[i].kind = "algorithm" /\ Coherent(below[i])
               /\ Row(below[i]) = <<entries[i].line, entries[i].algorithm, entries[i].partner>>
    BY DEF Configured, Row, Coherent
  <1>5. ASSUME NEW i \in DOMAIN protocols
        PROVE  protocols[i].place[2] = f.id /\ protocols[i].kind = "protocol" /\ Coherent(protocols[i])
    BY ConfiguredFacts DEF AreProtocols
  <1>n. n = Len(protocols)
    OBVIOUS
  <1> HIDE DEF e, n, below, all, neg
  <1>6. /\ IsSeq(all) /\ DOMAIN all = 1..(n + Len(below))
        /\ \A i \in 1..n : all[i] = protocols[i]
        /\ \A i \in 1..Len(below) : all[n + i] = below[i]
    <2>1. all = protocols \o below
      BY <1>1
    <2>2. /\ IsSeq(protocols \o below) /\ DOMAIN (protocols \o below) = 1..(Len(protocols) + Len(below))
          /\ \A i \in 1..Len(protocols) : (protocols \o below)[i] = protocols[i]
          /\ \A i \in 1..Len(below) : (protocols \o below)[Len(protocols) + i] = below[i]
      BY <1>3, JoinFacts
    <2> QED
      BY <1>n, <2>1, <2>2
  <1>7. DOMAIN all = DOMAIN protocols \cup {n + i : i \in DOMAIN entries}
    <2>1. \A i \in 1..(n + Len(below)) : i \in 1..n \/ (i - n \in 1..Len(below) /\ i = n + (i - n))
      BY <1>2, <1>3
    <2>2. \A i \in 1..n : i \in 1..(n + Len(below))
      BY <1>2, <1>3
    <2>3. \A i \in 1..Len(below) : n + i \in 1..(n + Len(below))
      BY <1>2, <1>3
    <2> QED
      BY <1>2, <1>3, <1>6, <2>1, <2>2, <2>3
  <1>8. /\ \A i \in DOMAIN protocols : all[i] = protocols[i]
        /\ \A i \in DOMAIN entries : all[n + i] = below[i]
    BY <1>2, <1>3, <1>6
  <1>9. PieceOf(f.id, e)
    <2>1. \A i \in DOMAIN all : all[i].place[2] = f.id /\ Coherent(all[i])
      BY <1>3, <1>4, <1>5, <1>7, <1>8
    <2>2. ASSUME NEW l \in e.links PROVE {l[1], l[2]} \subseteq DOMAIN all
      <3>1. n # 0 /\ \E i \in DOMAIN entries : l = <<n + i, 1, neg>>
        BY <1>1
      <3>2. 1 \in DOMAIN protocols
        BY <1>2, <3>1
      <3> QED
        BY <1>7, <3>1, <3>2
    <2> QED
      BY <1>6, <2>1, <2>2 DEF PieceOf, all
  <1>k. /\ \A i \in DOMAIN protocols : i \in DOMAIN all /\ all[i].kind = "protocol"
        /\ \A i \in DOMAIN entries : n + i \in DOMAIN all /\ all[n + i].kind = "algorithm"
    BY <1>3, <1>4, <1>5, <1>7, <1>8
  <1>10. {j \in DOMAIN all : all[j].kind = "algorithm"} = {n + i : i \in DOMAIN entries}
    BY <1>7, <1>k
  <1>11. {j \in DOMAIN all : all[j].kind = "protocol"} = DOMAIN protocols
    BY <1>7, <1>k
  <1>12. Rows(e) = {<<entries[i].line, entries[i].algorithm, entries[i].partner>> : i \in DOMAIN entries}
    <2>1. Rows(e) = {Row(all[k]) : k \in {n + i : i \in DOMAIN entries}}
      BY <1>10 DEF Rows, all
    <2>2. \A i \in DOMAIN entries : Row(all[n + i]) = <<entries[i].line, entries[i].algorithm, entries[i].partner>>
      BY <1>3, <1>4, <1>8
    <2> QED
      BY <2>1, <2>2
  <1>13. Heads(e) = {protocols[i].name : i \in DOMAIN protocols}
    <2>1. Heads(e) = {all[k].name : k \in DOMAIN protocols}
      BY <1>11 DEF Heads, all
    <2> QED
      BY <1>8, <2>1
  <1>14. ASSUME n # 0 \/ DOMAIN entries = {}
         PROVE  Anchored(e)
    <2> SUFFICES ASSUME NEW i \in DOMAIN all, all[i].kind # "protocol"
                 PROVE  \E h \in DOMAIN all : all[h].kind = "protocol" /\ <<i, h, neg>> \in e.links
      BY DEF Anchored, all, neg
    <2>1. PICK k \in DOMAIN entries : i = n + k
      BY <1>5, <1>7, <1>8
    <2>2. n # 0 /\ 1 \in DOMAIN protocols
      BY <1>2, <1>14, <2>1
    <2>3. <<i, 1, neg>> \in e.links
      BY <1>1, <2>1, <2>2
    <2> QED
      BY <1>5, <1>7, <1>8, <2>2, <2>3
  <1> QED
    BY <1>9, <1>12, <1>13, <1>14, <1>n DEF e

LEMMA EachLineFacts ==
  ASSUME NEW says, IsSeq(says), \A i \in DOMAIN says : IsSeq(says[i])
  PROVE  /\ IsSeq(EachLine(says))
         /\ \A x : x \in Range(EachLine(says)) <=>
              \E i \in DOMAIN says : \E h \in Range(says[i]) :
                x = [line |-> i, algorithm |-> h.algorithm, partner |-> h.partner]
  <1> DEFINE ss == [i \in DOMAIN says |-> At(i, says[i])]
  <1>1. Len(says) \in Nat /\ DOMAIN says = 1..Len(says)
    BY SeqFacts
  <1>2. IsSeq(ss) /\ DOMAIN ss = DOMAIN says
    <2>1. ss = [i \in 1..Len(says) |-> ss[i]]
      BY <1>1
    <2> HIDE DEF ss
    <2> QED
      BY <1>1, <2>1, MapIsSeq
  <1>3. ASSUME NEW i \in DOMAIN ss
        PROVE  /\ IsSeq(ss[i])
               /\ \A x : x \in Range(ss[i]) <=>
                    \E h \in Range(says[i]) : x = [line |-> i, algorithm |-> h.algorithm, partner |-> h.partner]
    <2>1. Len(says[i]) \in Nat /\ DOMAIN says[i] = 1..Len(says[i])
      BY SeqFacts
    <2>2. PICK s : s = says[i]
      OBVIOUS
    <2>3. PICK g : g = [k \in DOMAIN s |-> [line |-> i, algorithm |-> s[k].algorithm, partner |-> s[k].partner]]
      OBVIOUS
    <2>4. ss[i] = g
      BY <2>2, <2>3 DEF At
    <2>5. g = [k \in 1..Len(s) |-> g[k]]
      BY <2>1, <2>2, <2>3
    <2>6. IsSeq(g) /\ DOMAIN g = DOMAIN s
      BY <2>1, <2>2, <2>5, MapIsSeq
    <2>7. \A x : x \in Range(g) <=>
            \E h \in Range(s) : x = [line |-> i, algorithm |-> h.algorithm, partner |-> h.partner]
      BY <2>3, <2>6 DEF Range
    <2> QED
      BY <2>2, <2>4, <2>6, <2>7
  <1>4. EachLine(says) = FlattenSeq(ss)
    BY DEF EachLine
  <1> HIDE DEF ss
  <1>5. IsSeq(FlattenSeq(ss)) /\ \A x : x \in Range(FlattenSeq(ss)) <=> \E i \in DOMAIN ss : x \in Range(ss[i])
    BY <1>2, <1>3, FlattenFacts
  <1> QED
    BY <1>2, <1>3, <1>4, <1>5

(* Everything a file shows is said by one of its lines.                    *)
LEMMA LinesShown ==
  ASSUME NEW f, NEW protocols, IsSeq(protocols), AreProtocols(f, protocols),
         NEW says, IsSeq(says), \A i \in DOMAIN says : IsSeq(says[i])
  PROVE  LET e == Emitted(f, protocols, EachLine(says)) IN
         /\ PieceOf(f.id, e)
         /\ \A r : r \in Rows(e) <=>
              \E i \in DOMAIN says : \E h \in Range(says[i]) : r = <<i, h.algorithm, h.partner>>
         /\ Heads(e) = {protocols[i].name : i \in DOMAIN protocols}
         /\ Len(protocols) # 0 \/ (\A i \in DOMAIN says : Range(says[i]) = {}) => Anchored(e)
  <1>1. PICK entries : entries = EachLine(says)
    OBVIOUS
  <1>2. /\ IsSeq(entries)
        /\ \A x : x \in Range(entries) <=>
              \E i \in DOMAIN says : \E h \in Range(says[i]) :
                x = [line |-> i, algorithm |-> h.algorithm, partner |-> h.partner]
    BY <1>1, EachLineFacts
  <1>3. PICK e : e = Emitted(f, protocols, entries)
    OBVIOUS
  <1>4. /\ PieceOf(f.id, e)
        /\ Rows(e) = {<<entries[i].line, entries[i].algorithm, entries[i].partner>> : i \in DOMAIN entries}
        /\ Heads(e) = {protocols[i].name : i \in DOMAIN protocols}
        /\ Len(protocols) # 0 \/ DOMAIN entries = {} => Anchored(e)
    BY <1>2, <1>3, EmittedFacts
  <1>5. \A r : r \in Rows(e) <=> \E x \in Range(entries) : r = <<x.line, x.algorithm, x.partner>>
    BY <1>4 DEF Range
  <1>6. ASSUME NEW r
        PROVE  r \in Rows(e) <=>
                 \E i \in DOMAIN says : \E h \in Range(says[i]) : r = <<i, h.algorithm, h.partner>>
    <2>1. ASSUME r \in Rows(e)
          PROVE  \E i \in DOMAIN says : \E h \in Range(says[i]) : r = <<i, h.algorithm, h.partner>>
      <3>1. PICK x \in Range(entries) : r = <<x.line, x.algorithm, x.partner>>
        BY <1>5, <2>1
      <3>2. PICK i \in DOMAIN says : \E h \in Range(says[i]) :
              x = [line |-> i, algorithm |-> h.algorithm, partner |-> h.partner]
        BY <1>2, <3>1
      <3>3. PICK h \in Range(says[i]) : x = [line |-> i, algorithm |-> h.algorithm, partner |-> h.partner]
        BY <3>2
      <3> QED
        BY <3>1, <3>3
    <2>2. ASSUME NEW i \in DOMAIN says, NEW h \in Range(says[i]), r = <<i, h.algorithm, h.partner>>
          PROVE  r \in Rows(e)
      <3>1. PICK x : x = [line |-> i, algorithm |-> h.algorithm, partner |-> h.partner]
        OBVIOUS
      <3>2. x \in Range(entries)
        BY <1>2, <3>1
      <3>3. r = <<x.line, x.algorithm, x.partner>>
        BY <2>2, <3>1
      <3> QED
        BY <1>5, <3>2, <3>3
    <2> QED
      BY <2>1, <2>2
  <1>7. ASSUME \A i \in DOMAIN says : Range(says[i]) = {}
        PROVE  DOMAIN entries = {}
    <2>1. Range(entries) = {}
      BY <1>2, <1>7
    <2> QED
      BY <2>1 DEF Range
  <1> QED
    BY <1>1, <1>3, <1>4, <1>6, <1>7

(* What names of the other tables stand for, in their order.               *)
Bare(a) == [algorithm |-> a, partner |-> None]

StandFor(all, h, names) ==
  /\ IsSeq(all)
  /\ \A p \in DOMAIN all : h[p] \in DOMAIN names /\ all[p] \in Stands(names[h[p]])
  /\ \A p, q \in DOMAIN all : p <= q => h[p] <= h[q]
  /\ \A i \in DOMAIN names : \A a \in Stands(names[i]) : \E p \in DOMAIN all : h[p] = i /\ all[p] = a

LEMMA PlainIs ==
  ASSUME NEW names, IsSeq(names)
  PROVE  \E all, h : Plain(names) = [i \in DOMAIN all |-> Bare(all[i])] /\ StandFor(all, h, names)
  <1> DEFINE ss == [i \in DOMAIN names |-> IF names[i] \in DOMAIN Means THEN Means[names[i]] ELSE <<>>]
  <1>1. Len(names) \in Nat /\ DOMAIN names = 1..Len(names)
    BY SeqFacts
  <1>2. IsSeq(ss) /\ DOMAIN ss = DOMAIN names
    BY OverIsSeq
  <1>3. ASSUME NEW i \in DOMAIN ss
        PROVE  IsSeq(ss[i]) /\ Range(ss[i]) = Stands(names[i])
    <2>1. CASE names[i] \in DOMAIN Means
      <3>1. ss[i] = Means[names[i]]
        BY <2>1
      <3>2. IsSeq(Means[names[i]])
        BY <2>1, MeansAssumption DEF IsSeq
      <3> QED
        BY <2>1, <3>1, <3>2 DEF Stands
    <2>2. CASE names[i] \notin DOMAIN Means
      <3>1. ss[i] = <<>>
        BY <2>2
      <3>2. IsSeq(<<>>) /\ Range(<<>>) = {}
        BY DEF IsSeq, Range
      <3> QED
        BY <2>2, <3>1, <3>2 DEF Stands
    <2> QED
      BY <2>1, <2>2
  <1>4. PICK all : all = FlattenSeq(ss)
    OBVIOUS
  <1>5. Plain(names) = [i \in DOMAIN all |-> Bare(all[i])]
    BY <1>4 DEF Plain, Bare
  <1> HIDE DEF ss
  <1>6. PICK h : From(h, all, ss, Len(ss))
    BY <1>2, <1>3, <1>4, FlattenOrder
  <1>7. 1..Len(ss) = DOMAIN names
    BY <1>2, SeqFacts
  <1>8. StandFor(all, h, names)
    <2>1. IsSeq(all) /\ \A p, q \in DOMAIN all : p <= q => h[p] <= h[q]
      BY <1>6 DEF From
    <2>2. \A p \in DOMAIN all : h[p] \in DOMAIN names /\ all[p] \in Range(ss[h[p]])
      BY <1>6, <1>7 DEF From
    <2>3. \A i \in DOMAIN names : \A a \in Range(ss[i]) : \E p \in DOMAIN all : h[p] = i /\ all[p] = a
      BY <1>6, <1>7 DEF From
    <2>4. \A i \in DOMAIN names : Range(ss[i]) = Stands(names[i])
      BY <1>2, <1>3
    <2>5. \A p \in DOMAIN all : h[p] \in DOMAIN names /\ all[p] \in Stands(names[h[p]])
      BY <2>2, <2>4
    <2>6. \A i \in DOMAIN names : \A a \in Stands(names[i]) : \E p \in DOMAIN all : h[p] = i /\ all[p] = a
      BY <2>3, <2>4
    <2> QED
      BY <2>1, <2>5, <2>6 DEF StandFor
  <1> QED
    BY <1>5, <1>8

LEMMA PlainFacts ==
  ASSUME NEW names, IsSeq(names)
  PROVE  /\ IsSeq(Plain(names))
         /\ \A x : x \in Range(Plain(names)) <=> \E n \in Range(names) : \E a \in Stands(n) : x = Bare(a)
  <1>1. PICK all, h : Plain(names) = [i \in DOMAIN all |-> Bare(all[i])] /\ StandFor(all, h, names)
    BY PlainIs
  <1>2. PICK g : g = [i \in DOMAIN all |-> Bare(all[i])]
    OBVIOUS
  <1>3. IsSeq(g) /\ DOMAIN g = DOMAIN all
    BY <1>1, <1>2, OverIsSeq DEF StandFor
  <1>4. ASSUME NEW x
        PROVE  x \in Range(g) <=> \E n \in Range(names) : \E a \in Stands(n) : x = Bare(a)
    <2>1. ASSUME x \in Range(g)
          PROVE  \E n \in Range(names) : \E a \in Stands(n) : x = Bare(a)
      <3>1. PICK p \in DOMAIN all : x = Bare(all[p])
        BY <1>2, <2>1 DEF Range
      <3>2. h[p] \in DOMAIN names /\ all[p] \in Stands(names[h[p]])
        BY <1>1 DEF StandFor
      <3> QED
        BY <3>1, <3>2 DEF Range
    <2>2. ASSUME NEW n \in Range(names), NEW a \in Stands(n), x = Bare(a)
          PROVE  x \in Range(g)
      <3>1. PICK i \in DOMAIN names : names[i] = n
        BY DEF Range
      <3>2. PICK p \in DOMAIN all : all[p] = a
        BY <1>1, <3>1 DEF StandFor
      <3> QED
        BY <1>2, <1>3, <2>2, <3>2 DEF Range
    <2> QED
      BY <2>1, <2>2
  <1> QED
    BY <1>1, <1>2, <1>3, <1>4

(* The first key encapsulation of a proposal is that of the first name     *)
(* that stands for one.                                                    *)
LEMMA PartnerIs ==
  ASSUME NEW proposals, NEW i, IsSeq(proposals[i])
  PROVE  Partner(proposals, i) = KemAmong(proposals[i])
  <1>1. PICK names : names = proposals[i]
    OBVIOUS
  <1>2. PICK all, h : Plain(names) = [k \in DOMAIN all |-> Bare(all[k])] /\ StandFor(all, h, names)
    BY <1>1, PlainIs
  <1>3. PICK kems : kems = {j \in DOMAIN all : all[j] \in PqcKems}
    OBVIOUS
  <1>4. PICK some : some = {k \in DOMAIN names : Stands(names[k]) \cap PqcKems # {}}
    OBVIOUS
  <1>5. kems \in SUBSET Nat /\ some \in SUBSET Nat
    <2>1. DOMAIN all = 1..Len(all) /\ DOMAIN names = 1..Len(names) /\ Len(all) \in Nat /\ Len(names) \in Nat
      BY <1>1, <1>2, SeqFacts DEF StandFor
    <2> QED
      BY <1>3, <1>4, <2>1
  <1>6. Partner(proposals, i) = IF kems = {} THEN None ELSE all[CHOOSE j \in kems : \A k \in kems : j <= k]
    <2>1. PICK parts : parts = [k \in DOMAIN all |-> Bare(all[k])]
      OBVIOUS
    <2>2. \A k \in DOMAIN all : parts[k].algorithm = all[k]
      BY <2>1 DEF Bare
    <2>3. kems = {j \in DOMAIN parts : parts[j].algorithm \in PqcKems}
      BY <1>3, <2>1, <2>2
    <2>4. Partner(proposals, i) =
            IF kems = {} THEN None ELSE parts[CHOOSE j \in kems : \A k \in kems : j <= k].algorithm
      BY <1>1, <1>2, <2>1, <2>3 DEF Partner
    <2>5. kems # {} => (CHOOSE j \in kems : \A k \in kems : j <= k) \in DOMAIN all
      <3>1. ASSUME kems # {} PROVE \E j \in kems : \A k \in kems : j <= k
        BY <1>5, <3>1, FirstNumber
      <3> QED
        BY <1>3, <3>1
    <2> QED
      BY <2>2, <2>4, <2>5
  <1>7. KemAmong(names) =
          IF some = {} THEN None
          ELSE CHOOSE kem \in Stands(names[CHOOSE n \in some : \A m \in some : n <= m]) \cap PqcKems : TRUE
    BY <1>4 DEF KemAmong
  <1>8. \A p \in kems : h[p] \in some
    BY <1>2, <1>3, <1>4 DEF StandFor
  <1>9. \A n \in some : \E q \in kems : h[q] = n
    <2> TAKE n \in some
    <2>1. PICK x : x \in Stands(names[n]) \cap PqcKems
      BY <1>4
    <2>2. PICK q \in DOMAIN all : h[q] = n /\ all[q] = x
      BY <1>2, <1>4, <2>1 DEF StandFor
    <2> QED
      BY <1>3, <2>1, <2>2
  <1>10. CASE some = {}
    BY <1>1, <1>6, <1>7, <1>8, <1>10
  <1>11. CASE some # {}
    <2>1. kems # {}
      BY <1>9, <1>11
    <2>2. PICK p : p = (CHOOSE j \in kems : \A k \in kems : j <= k)
      OBVIOUS
    <2>3. p \in kems /\ \A k \in kems : p <= k
      <3>1. \E j \in kems : \A k \in kems : j <= k
        BY <1>5, <2>1, FirstNumber
      <3> QED
        BY <2>2, <3>1
    <2>4. PICK n : n = (CHOOSE j \in some : \A k \in some : j <= k)
      OBVIOUS
    <2>5. n \in some /\ \A m \in some : n <= m
      <3>1. \E j \in some : \A k \in some : j <= k
        BY <1>5, <1>11, FirstNumber
      <3> QED
        BY <2>4, <3>1
    <2>6. PICK q \in kems : h[q] = n
      BY <1>9, <2>5
    <2>7. h[p] <= h[q] /\ n <= h[p]
      BY <1>2, <1>3, <1>8, <2>3, <2>5 DEF StandFor
    <2>8. h[p] \in Nat /\ n \in Nat
      BY <1>5, <1>8, <2>3, <2>5
    <2>9. h[p] = n
      BY <2>6, <2>7, <2>8
    <2>10. all[p] \in Stands(names[n]) \cap PqcKems
      BY <1>2, <1>3, <2>3, <2>9 DEF StandFor
    <2>11. \A x, y \in Stands(names[n]) \cap PqcKems : x = y
      BY MeansAssumption DEF Stands
    <2>12. (CHOOSE kem \in Stands(names[n]) \cap PqcKems : TRUE) = all[p]
      BY <2>10, <2>11
    <2> QED
      BY <1>1, <1>6, <1>7, <1>11, <2>1, <2>2, <2>4, <2>12
  <1> QED
    BY <1>10, <1>11

LEMMA FlatMap ==
  ASSUME NEW s, IsSeq(s), NEW g, g = [i \in DOMAIN s |-> g[i]], \A i \in DOMAIN s : IsSeq(g[i])
  PROVE  /\ IsSeq(FlattenSeq(g))
         /\ \A x : x \in Range(FlattenSeq(g)) <=> \E i \in DOMAIN s : x \in Range(g[i])
  <1>1. IsSeq(g) /\ DOMAIN g = DOMAIN s
    BY OverIsSeq
  <1> QED
    BY <1>1, FlattenFacts

LEMMA AnchorIs ==
  ASSUME NEW f, NEW directives, NEW protocol
  PROVE  LET a == Anchor(f, directives, protocol) IN
         IsSeq(a) /\ AreProtocols(f, a) /\ (directives # {} => Len(a) # 0)
  <1>1. CASE directives = {}
    <2>1. Anchor(f, directives, protocol) = <<>>
      BY <1>1 DEF Anchor
    <2>2. IsSeq(<<>>) /\ AreProtocols(f, <<>>)
      BY DEF IsSeq, Range, AreProtocols
    <2> QED
      BY <1>1, <2>1, <2>2
  <1>2. CASE directives # {}
    <2>1. PICK c : c = Configured(f, 0, "protocol", protocol, None)
      OBVIOUS
    <2>2. Anchor(f, directives, protocol) = <<c>>
      BY <1>2, <2>1 DEF Anchor
    <2>3. IsSeq(<<c>>) /\ Len(<<c>>) = 1 /\ DOMAIN <<c>> = {1} /\ <<c>>[1] = c
      BY DEF IsSeq, Range
    <2>4. AreProtocols(f, <<c>>)
      BY <2>1, <2>3 DEF AreProtocols
    <2> QED
      BY <2>2, <2>3, <2>4
  <1> QED
    BY <1>1, <1>2

LEMMA LineFacts ==
  ASSUME NEW f, IsConfiguration(f)
  PROVE  /\ IsSeq(f.lines)
         /\ \A i \in DOMAIN f.lines : LET l == f.lines[i] IN
              /\ IsSeq(l.names) /\ IsSeq(l.remark)
              /\ l.is # "ssh" => l.mod # "-"
              /\ l.is = "ipsec" => \A p \in Range(l.names) \cup Range(l.remark) : IsSeq(p)
              /\ l.is = "suites" => \A x \in Range(l.names) : x.mark \in {"", "!", "-"}
  <1>1. \A i \in DOMAIN f.lines : f.lines[i] \in Range(f.lines)
    BY DEF Range
  <1> QED
    BY <1>1 DEF IsConfiguration, IsSeq

(* What the lines of a file say is what it is reported as, with protocols. *)
ShownAs(f, e, protocols, says) ==
  /\ PieceOf(f.id, e)
  /\ \A r : r \in Rows(e) <=>
       \E i \in DOMAIN f.lines : \E h \in Range(says[i]) : r = <<i, h.algorithm, h.partner>>
  /\ Heads(e) = {protocols[i].name : i \in DOMAIN protocols}
  /\ Len(protocols) # 0 \/ (\A i \in DOMAIN f.lines : Range(says[i]) = {}) => Anchored(e)

LEMMA SaysShown ==
  ASSUME NEW f, NEW protocols, IsSeq(protocols), AreProtocols(f, protocols),
         NEW says, IsSeq(says), DOMAIN says = DOMAIN f.lines, \A i \in DOMAIN says : IsSeq(says[i]),
         NEW e, e = Emitted(f, protocols, EachLine(says))
  PROVE  ShownAs(f, e, protocols, says)
  <1>1. LET em == Emitted(f, protocols, EachLine(says)) IN
        /\ PieceOf(f.id, em)
        /\ \A r : r \in Rows(em) <=>
             \E i \in DOMAIN says : \E h \in Range(says[i]) : r = <<i, h.algorithm, h.partner>>
        /\ Heads(em) = {protocols[i].name : i \in DOMAIN protocols}
        /\ Len(protocols) # 0 \/ (\A i \in DOMAIN says : Range(says[i]) = {}) => Anchored(em)
    BY LinesShown, Zenon
  <1> QED
    BY <1>1 DEF ShownAs

(* What a kind of file must be reported as.                                *)
Faithful(f, e) == PieceOf(f.id, e) /\ (ReadAsMeant(f) => Rows(e) = Permits(f))

-----------------------------------------------------------------------------
(* SSH.                                                                    *)
OtherHalf(n, a) == IF Len(Table[n]) < 2 THEN None ELSE CHOOSE b \in Range(Table[n]) : b # a

LEMMA HalvesFacts ==
  ASSUME NEW n
  PROVE  /\ IsSeq(Halves(n))
         /\ \A x : x \in Range(Halves(n)) <=>
              n \in DOMAIN Table /\ \E a \in Range(Table[n]) : x = [algorithm |-> a, partner |-> OtherHalf(n, a)]
  <1>1. CASE n \notin DOMAIN Table
    <2>1. Halves(n) = <<>>
      BY <1>1 DEF Halves
    <2> QED
      BY <1>1, <2>1 DEF IsSeq, Range
  <1>2. CASE n \in DOMAIN Table
    <2>1. PICK t : t = Table[n]
      OBVIOUS
    <2>2. IsSeq(t)
      BY <1>2, <2>1, TableAssumption DEF IsSeq
    <2>3. PICK g : g = [i \in DOMAIN t |-> [algorithm |-> t[i], partner |-> OtherHalf(n, t[i])]]
      OBVIOUS
    <2>4. Halves(n) = g
      BY <1>2, <2>1, <2>3 DEF Halves, OtherHalf
    <2>5. IsSeq(g) /\ DOMAIN g = DOMAIN t
      BY <2>2, <2>3, OverIsSeq
    <2>6. \A x : x \in Range(g) <=> \E a \in Range(t) : x = [algorithm |-> a, partner |-> OtherHalf(n, a)]
      BY <2>3, <2>5 DEF Range
    <2> QED
      BY <1>2, <2>1, <2>4, <2>5, <2>6
  <1> QED
    BY <1>1, <1>2

LEMMA SSHListedFacts ==
  ASSUME NEW l, IsSeq(l.names)
  PROVE  /\ IsSeq(SSHListed(l))
         /\ \A x : x \in Range(SSHListed(l)) <=>
              l.is = "ssh" /\ l.mod # "-" /\ \E n \in Range(l.names) : x \in Range(Halves(n))
  <1>1. CASE l.is # "ssh" \/ l.mod = "-"
    <2>1. SSHListed(l) = <<>>
      BY <1>1 DEF SSHListed
    <2>2. IsSeq(<<>>) /\ Range(<<>>) = {}
      BY DEF IsSeq, Range
    <2> QED
      BY <1>1, <2>1, <2>2
  <1>2. CASE ~(l.is # "ssh" \/ l.mod = "-")
    <2>1. PICK s : s = l.names
      OBVIOUS
    <2>2. PICK g : g = [i \in DOMAIN s |-> Halves(s[i])]
      OBVIOUS
    <2>3. SSHListed(l) = FlattenSeq(g)
      BY <1>2, <2>1, <2>2 DEF SSHListed
    <2>4. IsSeq(s) /\ g = [i \in DOMAIN s |-> g[i]] /\ \A i \in DOMAIN s : IsSeq(g[i])
      BY <2>1, <2>2, HalvesFacts
    <2>5. IsSeq(FlattenSeq(g)) /\ \A x : x \in Range(FlattenSeq(g)) <=> \E i \in DOMAIN s : x \in Range(g[i])
      BY <2>4, FlatMap
    <2>6. \A x : (\E i \in DOMAIN s : x \in Range(g[i])) <=> \E n \in Range(s) : x \in Range(Halves(n))
      BY <2>2 DEF Range
    <2> QED
      BY <1>2, <2>1, <2>3, <2>5, <2>6
  <1> QED
    BY <1>1, <1>2

LEMMA SSHPermits ==
  ASSUME NEW f, f.kind = "ssh", NEW r
  PROVE  r \in Permits(f) <=>
           \E i \in DOMAIN f.lines :
             /\ f.lines[i].is = "ssh" /\ f.lines[i].mod # "-"
             /\ \E n \in Range(f.lines[i].names) \cap DOMAIN Table : \E a \in Range(Table[n]) :
                  r = <<i, a, OtherHalf(n, a)>>
  <1> DEFINE pairs == {p \in Directives(f, "ssh") \X DOMAIN Table : f.lines[p[1]].mod # "-"}
             listed == {q \in pairs : q[2] \in Range(f.lines[q[1]].names)}
  <1>1. Permits(f) = UNION {{<<p[1], a, OtherHalf(p[2], a)>> : a \in Range(Table[p[2]])} : p \in listed}
    BY DEF Permits, OtherHalf
  <1>2. \A p : p \in listed <=>
          \E i \in DOMAIN f.lines : \E n \in DOMAIN Table :
            /\ p = <<i, n>> /\ f.lines[i].is = "ssh" /\ f.lines[i].mod # "-" /\ n \in Range(f.lines[i].names)
    BY DEF Directives
  <1> HIDE DEF listed
  <1>3. r \in Permits(f) <=> \E p \in listed : \E a \in Range(Table[p[2]]) : r = <<p[1], a, OtherHalf(p[2], a)>>
    BY <1>1
  <1>4. ASSUME NEW p \in listed, NEW a \in Range(Table[p[2]]), r = <<p[1], a, OtherHalf(p[2], a)>>
        PROVE  \E i \in DOMAIN f.lines :
                 /\ f.lines[i].is = "ssh" /\ f.lines[i].mod # "-"
                 /\ \E n \in Range(f.lines[i].names) \cap DOMAIN Table : \E b \in Range(Table[n]) :
                      r = <<i, b, OtherHalf(n, b)>>
    BY <1>2, <1>4
  <1>5. ASSUME NEW i \in DOMAIN f.lines, f.lines[i].is = "ssh", f.lines[i].mod # "-",
               NEW n \in Range(f.lines[i].names) \cap DOMAIN Table, NEW a \in Range(Table[n]),
               r = <<i, a, OtherHalf(n, a)>>
        PROVE  \E p \in listed : \E b \in Range(Table[p[2]]) : r = <<p[1], b, OtherHalf(p[2], b)>>
    <2>1. <<i, n>> \in listed
      BY <1>2, <1>5
    <2> QED
      BY <1>5, <2>1
  <1> QED
    BY <1>3, <1>4, <1>5

LEMMA SSHFaithful ==
  ASSUME NEW f, IsConfiguration(f), f.kind = "ssh"
  PROVE  Faithful(f, SSHConfig(f)) /\ Anchored(SSHConfig(f))
  <1>1. PICK says : says = [i \in DOMAIN f.lines |-> SSHListed(f.lines[i])]
    OBVIOUS
  <1>2. /\ IsSeq(says) /\ DOMAIN says = DOMAIN f.lines
        /\ \A i \in DOMAIN says : IsSeq(says[i])
    BY <1>1, LineFacts, OverIsSeq, SSHListedFacts
  <1>3. \A i \in DOMAIN f.lines : \A x : x \in Range(says[i]) <=>
          /\ f.lines[i].is = "ssh" /\ f.lines[i].mod # "-"
          /\ \E n \in Range(f.lines[i].names) : x \in Range(Halves(n))
    BY <1>1, LineFacts, SSHListedFacts
  <1>4. PICK some : some = {i \in Directives(f, "ssh") : f.lines[i].mod # "-"}
    OBVIOUS
  <1>5. PICK a : a = Anchor(f, some, "SSH-2.0")
    OBVIOUS
  <1>6. IsSeq(a) /\ AreProtocols(f, a) /\ (some # {} => Len(a) # 0)
    BY <1>5, AnchorIs
  <1>7. PICK e : e = Emitted(f, a, EachLine(says))
    OBVIOUS
  <1>8. SSHConfig(f) = e
    BY <1>1, <1>4, <1>5, <1>7 DEF SSHConfig
  <1>9. /\ PieceOf(f.id, e)
        /\ \A r : r \in Rows(e) <=>
             \E i \in DOMAIN f.lines : \E h \in Range(says[i]) : r = <<i, h.algorithm, h.partner>>
        /\ Len(a) # 0 \/ (\A i \in DOMAIN f.lines : Range(says[i]) = {}) => Anchored(e)
    <2>1. ShownAs(f, e, a, says)
      BY <1>2, <1>6, <1>7, SaysShown
    <2> QED
      BY <2>1 DEF ShownAs
  <1>10. Anchored(e)
    <2>1. ASSUME some = {}
          PROVE  \A i \in DOMAIN f.lines : Range(says[i]) = {}
      BY <1>3, <1>4, <2>1 DEF Directives
    <2> QED
      BY <1>6, <1>9, <2>1
  <1>11. ASSUME NEW r, NEW i \in DOMAIN f.lines, NEW h \in Range(says[i]), r = <<i, h.algorithm, h.partner>>
         PROVE  r \in Permits(f)
    <2>1. PICK n \in Range(f.lines[i].names) : h \in Range(Halves(n))
      BY <1>3
    <2>2. n \in DOMAIN Table /\ \E b \in Range(Table[n]) : h = [algorithm |-> b, partner |-> OtherHalf(n, b)]
      BY <2>1, HalvesFacts
    <2>3. n \in DOMAIN Table /\ \E b \in Range(Table[n]) : r = <<i, b, OtherHalf(n, b)>>
      BY <1>11, <2>2
    <2>4. f.lines[i].is = "ssh" /\ f.lines[i].mod # "-"
      BY <1>3
    <2> QED
      BY <2>1, <2>3, <2>4, SSHPermits
  <1>12. ASSUME NEW r \in Permits(f)
         PROVE  \E i \in DOMAIN f.lines : \E h \in Range(says[i]) : r = <<i, h.algorithm, h.partner>>
    <2>1. PICK i \in DOMAIN f.lines :
            /\ f.lines[i].is = "ssh" /\ f.lines[i].mod # "-"
            /\ \E n \in Range(f.lines[i].names) \cap DOMAIN Table : \E b \in Range(Table[n]) :
                 r = <<i, b, OtherHalf(n, b)>>
      BY SSHPermits
    <2>2. PICK n \in Range(f.lines[i].names) \cap DOMAIN Table : \E b \in Range(Table[n]) :
            r = <<i, b, OtherHalf(n, b)>>
      BY <2>1
    <2>3. PICK b \in Range(Table[n]) : r = <<i, b, OtherHalf(n, b)>>
      BY <2>2
    <2>4. PICK h : h = [algorithm |-> b, partner |-> OtherHalf(n, b)]
      OBVIOUS
    <2>5. h \in Range(Halves(n))
      BY <2>2, <2>3, <2>4, HalvesFacts
    <2>6. h \in Range(says[i])
      BY <1>3, <2>1, <2>2, <2>5
    <2> QED
      BY <2>3, <2>4, <2>6
  <1>13. Rows(e) = Permits(f)
    BY <1>9, <1>11, <1>12
  <1> QED
    BY <1>8, <1>9, <1>10, <1>13 DEF Faithful

-----------------------------------------------------------------------------
(* IPsec.                                                                  *)
With(p, a) == IF a \in Agreements THEN KemAmong(p) ELSE None

Decomposed(proposals, i) ==
  LET parts == Plain(proposals[i]) IN
  [j \in DOMAIN parts |->
     IF parts[j].algorithm \in Agreements
     THEN [parts[j] EXCEPT !.partner = Partner(proposals, i)] ELSE parts[j]]

LEMMA ProposalFacts ==
  ASSUME NEW proposals, NEW i, IsSeq(proposals[i]), NEW g, g = Decomposed(proposals, i)
  PROVE  /\ IsSeq(g)
         /\ \A x : x \in Range(g) <=>
              \E n \in Range(proposals[i]) : \E a \in Stands(n) :
                x = [algorithm |-> a, partner |-> With(proposals[i], a)]
  <1>1. PICK p, parts : p = proposals[i] /\ parts = Plain(p)
    OBVIOUS
  <1>2. IsSeq(parts) /\ \A x : x \in Range(parts) <=> \E n \in Range(p) : \E a \in Stands(n) : x = Bare(a)
    BY <1>1, PlainFacts
  <1>3. Partner(proposals, i) = KemAmong(p)
    BY <1>1, PartnerIs
  <1>4. g = [j \in DOMAIN parts |->
               IF parts[j].algorithm \in Agreements
               THEN [parts[j] EXCEPT !.partner = KemAmong(p)] ELSE parts[j]]
    BY <1>1, <1>3 DEF Decomposed
  <1>5. IsSeq(g) /\ DOMAIN g = DOMAIN parts
    BY <1>2, <1>4, OverIsSeq
  <1>6. ASSUME NEW j \in DOMAIN parts, NEW a, parts[j] = Bare(a)
        PROVE  g[j] = [algorithm |-> a, partner |-> With(p, a)]
    BY <1>4, <1>6 DEF Bare, With
  <1>7. ASSUME NEW x
        PROVE  x \in Range(g) <=>
                 \E n \in Range(p) : \E a \in Stands(n) : x = [algorithm |-> a, partner |-> With(p, a)]
    <2>1. ASSUME x \in Range(g)
          PROVE  \E n \in Range(p) : \E a \in Stands(n) : x = [algorithm |-> a, partner |-> With(p, a)]
      <3>1. PICK j \in DOMAIN parts : x = g[j]
        BY <1>5, <2>1 DEF Range
      <3>2. parts[j] \in Range(parts)
        BY DEF Range
      <3>3. PICK n \in Range(p) : \E a \in Stands(n) : parts[j] = Bare(a)
        BY <1>2, <3>2
      <3> QED
        BY <1>6, <3>1, <3>3
    <2>2. ASSUME NEW n \in Range(p), NEW a \in Stands(n), x = [algorithm |-> a, partner |-> With(p, a)]
          PROVE  x \in Range(g)
      <3>1. Bare(a) \in Range(parts)
        BY <1>2
      <3>2. PICK j \in DOMAIN parts : parts[j] = Bare(a)
        BY <3>1 DEF Range
      <3>3. x = g[j] /\ j \in DOMAIN g
        BY <1>5, <1>6, <2>2, <3>2
      <3> QED
        BY <3>3 DEF Range
    <2> QED
      BY <2>1, <2>2
  <1> QED
    BY <1>1, <1>5, <1>7

LEMMA IPsecListedFacts ==
  ASSUME NEW l, IsSeq(l.names), IsSeq(l.remark),
         l.is = "ipsec" => \A p \in Range(l.names) \cup Range(l.remark) : IsSeq(p)
  PROVE  /\ IsSeq(IPsecListed(l))
         /\ \A x : x \in Range(IPsecListed(l)) <=>
              /\ l.is = "ipsec"
              /\ \E p \in Range(l.names) \cup Range(l.remark) : \E n \in Range(p) : \E a \in Stands(n) :
                   x = [algorithm |-> a, partner |-> With(p, a)]
  <1>1. CASE l.is # "ipsec"
    <2>1. IPsecListed(l) = <<>>
      BY <1>1 DEF IPsecListed
    <2>2. IsSeq(<<>>) /\ Range(<<>>) = {}
      BY DEF IsSeq, Range
    <2> QED
      BY <1>1, <2>1, <2>2
  <1>2. CASE l.is = "ipsec"
    <2>1. PICK s : s = l.names \o l.remark
      OBVIOUS
    <2>2. IsSeq(s) /\ Range(s) = Range(l.names) \cup Range(l.remark)
      BY <2>1, JoinFacts
    <2>3. PICK g : g = [i \in DOMAIN s |-> Decomposed(s, i)]
      OBVIOUS
    <2>4. IPsecListed(l) = FlattenSeq(g)
      BY <1>2, <2>1, <2>3, Zenon DEF IPsecListed, Decomposed
    <2>5. \A i \in DOMAIN s : IsSeq(s[i])
      BY <1>2, <2>2 DEF Range
    <2>6. ASSUME NEW i \in DOMAIN s
          PROVE  /\ IsSeq(g[i])
                 /\ \A x : x \in Range(g[i]) <=>
                      \E n \in Range(s[i]) : \E a \in Stands(n) : x = [algorithm |-> a, partner |-> With(s[i], a)]
      <3>1. g[i] = Decomposed(s, i)
        BY <2>3
      <3>2. IsSeq(s[i])
        BY <2>5
      <3> QED
        BY <3>1, <3>2, ProposalFacts
    <2>7. g = [i \in DOMAIN s |-> g[i]]
      BY <2>3
    <2>8. IsSeq(FlattenSeq(g)) /\ \A x : x \in Range(FlattenSeq(g)) <=> \E i \in DOMAIN s : x \in Range(g[i])
      BY <2>2, <2>6, <2>7, FlatMap
    <2>9. \A x : x \in Range(FlattenSeq(g)) <=>
            \E p \in Range(s) : \E n \in Range(p) : \E a \in Stands(n) : x = [algorithm |-> a, partner |-> With(p, a)]
      <3> DEFINE Of(p, x) == \E n \in Range(p) : \E a \in Stands(n) : x = [algorithm |-> a, partner |-> With(p, a)]
      <3>1. \A i \in DOMAIN s : \A x : x \in Range(g[i]) <=> Of(s[i], x)
        BY <2>6
      <3> HIDE DEF Of
      <3>2. \A x : (\E i \in DOMAIN s : Of(s[i], x)) <=> \E p \in Range(s) : Of(p, x)
        BY DEF Range
      <3>3. \A x : x \in Range(FlattenSeq(g)) <=> \E p \in Range(s) : Of(p, x)
        BY <2>8, <3>1, <3>2
      <3> QED
        BY <3>3 DEF Of
    <2> QED
      BY <1>2, <2>2, <2>4, <2>8, <2>9
  <1> QED
    BY <1>1, <1>2

LEMMA IPsecPermits ==
  ASSUME NEW f, f.kind = "ipsec", NEW r
  PROVE  r \in Permits(f) <=>
           \E i \in DOMAIN f.lines :
             /\ f.lines[i].is = "ipsec"
             /\ \E p \in Range(f.lines[i].names) : \E n \in Range(p) : \E a \in Stands(n) : r = <<i, a, With(p, a)>>
  <1> DEFINE l(i) == f.lines[i]
             parts(i, j) == UNION {Stands(x) : x \in Range(l(i).names[j])}
             of(i, j) == {<<i, a, With(l(i).names[j], a)>> : a \in parts(i, j)}
  <1>1. Permits(f) = UNION {UNION {of(i, j) : j \in DOMAIN l(i).names} : i \in Directives(f, "ipsec")}
    BY DEF Permits, With
  <1>2. r \in Permits(f) <=> \E i \in Directives(f, "ipsec") : \E j \in DOMAIN l(i).names : r \in of(i, j)
    BY <1>1
  <1>3. \A i, j : r \in of(i, j) <=>
          \E n \in Range(l(i).names[j]) : \E a \in Stands(n) : r = <<i, a, With(l(i).names[j], a)>>
    OBVIOUS
  <1> HIDE DEF of
  <1>4. \A i : (\E j \in DOMAIN l(i).names : r \in of(i, j)) <=>
          \E p \in Range(l(i).names) : \E n \in Range(p) : \E a \in Stands(n) : r = <<i, a, With(p, a)>>
    BY <1>3 DEF Range
  <1> QED
    BY <1>2, <1>4 DEF Directives

LEMMA IPsecFaithful ==
  ASSUME NEW f, IsConfiguration(f), f.kind = "ipsec"
  PROVE  Faithful(f, IPsecConfig(f)) /\ Anchored(IPsecConfig(f))
  <1>1. PICK says : says = [i \in DOMAIN f.lines |-> IPsecListed(f.lines[i])]
    OBVIOUS
  <1>2. /\ IsSeq(says) /\ DOMAIN says = DOMAIN f.lines
        /\ \A i \in DOMAIN says : IsSeq(says[i])
    BY <1>1, LineFacts, OverIsSeq, IPsecListedFacts
  <1>3. \A i \in DOMAIN f.lines : \A x : x \in Range(says[i]) <=>
          LET l == f.lines[i] IN
          /\ l.is = "ipsec"
          /\ \E p \in Range(l.names) \cup Range(l.remark) : \E n \in Range(p) : \E a \in Stands(n) :
               x = [algorithm |-> a, partner |-> With(p, a)]
    <2> TAKE i \in DOMAIN f.lines
    <2>1. PICK l : l = f.lines[i]
      OBVIOUS
    <2>2. /\ IsSeq(l.names) /\ IsSeq(l.remark)
          /\ l.is = "ipsec" => \A p \in Range(l.names) \cup Range(l.remark) : IsSeq(p)
      BY <2>1, LineFacts
    <2>3. says[i] = IPsecListed(l)
      BY <1>1, <2>1
    <2> QED
      BY <2>1, <2>2, <2>3, IPsecListedFacts
  <1>4. PICK some : some = Directives(f, "ipsec")
    OBVIOUS
  <1>5. PICK a : a = Anchor(f, some, "IPsec")
    OBVIOUS
  <1>6. IsSeq(a) /\ AreProtocols(f, a) /\ (some # {} => Len(a) # 0)
    BY <1>5, AnchorIs
  <1>7. PICK e : e = Emitted(f, a, EachLine(says))
    OBVIOUS
  <1>8. IPsecConfig(f) = e
    BY <1>1, <1>4, <1>5, <1>7 DEF IPsecConfig
  <1>9. /\ PieceOf(f.id, e)
        /\ \A r : r \in Rows(e) <=>
             \E i \in DOMAIN f.lines : \E h \in Range(says[i]) : r = <<i, h.algorithm, h.partner>>
        /\ Len(a) # 0 \/ (\A i \in DOMAIN f.lines : Range(says[i]) = {}) => Anchored(e)
    <2>1. ShownAs(f, e, a, says)
      BY <1>2, <1>6, <1>7, SaysShown
    <2> QED
      BY <2>1 DEF ShownAs
  <1>10. Anchored(e)
    <2>1. ASSUME some = {}
          PROVE  \A i \in DOMAIN f.lines : Range(says[i]) = {}
      BY <1>3, <1>4, <2>1 DEF Directives
    <2> QED
      BY <1>6, <1>9, <2>1
  <1>11. ASSUME ReadAsMeant(f), NEW i \in DOMAIN f.lines, f.lines[i].is = "ipsec"
         PROVE  Range(f.lines[i].remark) = {}
    <2>1. f.lines[i] \in Range(f.lines)
      BY DEF Range
    <2>2. f.lines[i].remark = <<>>
      BY <1>11, <2>1 DEF ReadAsMeant
    <2> QED
      BY <2>2 DEF Range
  <1>12. ASSUME ReadAsMeant(f), NEW r, NEW i \in DOMAIN f.lines, NEW h \in Range(says[i]),
                r = <<i, h.algorithm, h.partner>>
         PROVE  r \in Permits(f)
    <2>1. f.lines[i].is = "ipsec"
      BY <1>3
    <2>2. PICK p \in Range(f.lines[i].names) : \E n \in Range(p) : \E b \in Stands(n) :
            h = [algorithm |-> b, partner |-> With(p, b)]
      BY <1>3, <1>11, <1>12, <2>1
    <2>3. \E n \in Range(p) : \E b \in Stands(n) : r = <<i, b, With(p, b)>>
      BY <1>12, <2>2
    <2> QED
      BY <2>1, <2>3, IPsecPermits
  <1>13. ASSUME NEW r \in Permits(f)
         PROVE  \E i \in DOMAIN f.lines : \E h \in Range(says[i]) : r = <<i, h.algorithm, h.partner>>
    <2>1. PICK i \in DOMAIN f.lines :
            /\ f.lines[i].is = "ipsec"
            /\ \E p \in Range(f.lines[i].names) : \E n \in Range(p) : \E b \in Stands(n) : r = <<i, b, With(p, b)>>
      BY IPsecPermits
    <2>2. PICK p \in Range(f.lines[i].names) : \E n \in Range(p) : \E b \in Stands(n) : r = <<i, b, With(p, b)>>
      BY <2>1
    <2>3. PICK n \in Range(p) : \E b \in Stands(n) : r = <<i, b, With(p, b)>>
      BY <2>2
    <2>4. PICK b \in Stands(n) : r = <<i, b, With(p, b)>>
      BY <2>3
    <2>5. PICK h : h = [algorithm |-> b, partner |-> With(p, b)]
      OBVIOUS
    <2>6. h \in Range(says[i])
      BY <1>3, <2>1, <2>5
    <2> QED
      BY <2>4, <2>5, <2>6
  <1>14. ReadAsMeant(f) => Rows(e) = Permits(f)
    BY <1>9, <1>12, <1>13
  <1> QED
    BY <1>8, <1>9, <1>10, <1>14 DEF Faithful

-----------------------------------------------------------------------------
(* OpenVPN.                                                                *)

(* What a line says by its directive and names.                            *)
VPNSaid(l) == {a \in Names : l.is = "openvpn" /\ \E n \in Range(l.names) : a \in Stands(n)}

LEMMA StandsNamed ==
  ASSUME NEW n, NEW a \in Stands(n)
  PROVE  a \in Names /\ a # "S/MIME"
  BY MeansAssumption DEF Stands

LEMMA VPNPermits ==
  ASSUME NEW f, IsConfiguration(f), f.kind = "openvpn", NEW r
  PROVE  r \in Permits(f) <=> \E i \in DOMAIN f.lines : \E a \in VPNSaid(f.lines[i]) : r = <<i, a, None>>
  <1> DEFINE pairs == {p \in Directives(f, "openvpn") \X Names : f.lines[p[1]].mod # "-"}
             listed == {q \in pairs : \E x \in Range(f.lines[q[1]].names) : q[2] \in Stands(x)}
  <1>1. Permits(f) = {<<p[1], p[2], None>> : p \in listed}
    BY DEF Permits
  <1>2. \A i \in DOMAIN f.lines : f.lines[i].is = "openvpn" => f.lines[i].mod # "-"
    BY LineFacts
  <1>3. \A p : p \in listed <=> \E i \in DOMAIN f.lines : \E a \in VPNSaid(f.lines[i]) : p = <<i, a>>
    BY <1>2 DEF Directives, VPNSaid
  <1> HIDE DEF listed
  <1>4. ASSUME NEW p \in listed, r = <<p[1], p[2], None>>
        PROVE  \E i \in DOMAIN f.lines : \E a \in VPNSaid(f.lines[i]) : r = <<i, a, None>>
    BY <1>3, <1>4
  <1>5. ASSUME NEW i \in DOMAIN f.lines, NEW a \in VPNSaid(f.lines[i]), r = <<i, a, None>>
        PROVE  r \in Permits(f)
    <2>1. <<i, a>> \in listed
      BY <1>3
    <2> QED
      BY <1>1, <1>5, <2>1
  <1>6. r \in Permits(f) => \E p \in listed : r = <<p[1], p[2], None>>
    BY <1>1
  <1> QED
    BY <1>4, <1>5, <1>6

LEMMA VPNListedFacts ==
  ASSUME NEW l, IsSeq(l.names)
  PROVE  /\ IsSeq(VPNListed(l))
         /\ \A x : x \in Range(VPNListed(l)) <=> \E a \in VPNSaid(l) : x = Bare(a)
  <1>1. CASE l.is # "openvpn"
    <2>1. VPNListed(l) = <<>> /\ VPNSaid(l) = {}
      BY <1>1 DEF VPNListed, VPNSaid
    <2>2. IsSeq(<<>>) /\ Range(<<>>) = {}
      BY DEF IsSeq, Range
    <2> QED
      BY <2>1, <2>2
  <1>2. CASE l.is = "openvpn"
    <2>1. VPNListed(l) = Plain(l.names)
      BY <1>2 DEF VPNListed
    <2>2. \A a : a \in VPNSaid(l) <=> \E n \in Range(l.names) : a \in Stands(n)
      BY <1>2, StandsNamed DEF VPNSaid
    <2> QED
      BY <2>1, <2>2, PlainFacts
  <1> QED
    BY <1>1, <1>2

(* Lines that say some of what names stand for.                            *)
LEMMA BareRows ==
  ASSUME NEW f, NEW e, NEW a, NEW says, ShownAs(f, e, a, says), NEW said,
         \A i \in DOMAIN f.lines : \A x : x \in Range(says[i]) <=> \E b \in said[i] : x = Bare(b)
  PROVE  \A r : r \in Rows(e) <=> \E i \in DOMAIN f.lines : \E b \in said[i] : r = <<i, b, None>>
  <1>1. \A b : Bare(b).algorithm = b /\ Bare(b).partner = None
    BY DEF Bare
  <1>2. \A r : r \in Rows(e) <=>
          \E i \in DOMAIN f.lines : \E h \in Range(says[i]) : r = <<i, h.algorithm, h.partner>>
    BY DEF ShownAs
  <1>3. ASSUME NEW i \in DOMAIN f.lines, NEW r
        PROVE  (\E h \in Range(says[i]) : r = <<i, h.algorithm, h.partner>>)
                 <=> \E b \in said[i] : r = <<i, b, None>>
    <2>1. ASSUME NEW h \in Range(says[i]), r = <<i, h.algorithm, h.partner>>
          PROVE  \E b \in said[i] : r = <<i, b, None>>
      BY <1>1, <2>1
    <2>2. ASSUME NEW b \in said[i], r = <<i, b, None>>
          PROVE  \E h \in Range(says[i]) : r = <<i, h.algorithm, h.partner>>
      <3>1. Bare(b) \in Range(says[i])
        OBVIOUS
      <3> QED
        BY <1>1, <2>2, <3>1
    <2> QED
      BY <2>1, <2>2
  <1> QED
    BY <1>2, <1>3

LEMMA VPNFaithful ==
  ASSUME NEW f, IsConfiguration(f), f.kind = "openvpn"
  PROVE  Faithful(f, VPNConfig(f)) /\ Anchored(VPNConfig(f))
  <1>1. PICK says : says = [i \in DOMAIN f.lines |-> VPNListed(f.lines[i])]
    OBVIOUS
  <1>2. /\ IsSeq(says) /\ DOMAIN says = DOMAIN f.lines
        /\ \A i \in DOMAIN says : IsSeq(says[i])
    BY <1>1, LineFacts, OverIsSeq, VPNListedFacts
  <1>3. PICK said : said = [i \in DOMAIN f.lines |-> VPNSaid(f.lines[i])]
    OBVIOUS
  <1>4. \A i \in DOMAIN f.lines : \A x : x \in Range(says[i]) <=> \E b \in said[i] : x = Bare(b)
    BY <1>1, <1>3, LineFacts, VPNListedFacts
  <1>5. PICK some : some = Directives(f, "openvpn")
    OBVIOUS
  <1>6. PICK a : a = Anchor(f, some, "OpenVPN")
    OBVIOUS
  <1>7. IsSeq(a) /\ AreProtocols(f, a) /\ (some # {} => Len(a) # 0)
    BY <1>6, AnchorIs
  <1>8. PICK e : e = Emitted(f, a, EachLine(says))
    OBVIOUS
  <1>9. VPNConfig(f) = e
    BY <1>1, <1>5, <1>6, <1>8 DEF VPNConfig
  <1>10. ShownAs(f, e, a, says)
    BY <1>2, <1>7, <1>8, SaysShown
  <1>11. Anchored(e)
    <2>1. ASSUME some = {}
          PROVE  \A i \in DOMAIN f.lines : Range(says[i]) = {}
      BY <1>3, <1>4, <1>5, <2>1 DEF Directives, VPNSaid
    <2> QED
      BY <1>7, <1>10, <2>1 DEF ShownAs
  <1>12. \A r : r \in Rows(e) <=> \E i \in DOMAIN f.lines : \E b \in said[i] : r = <<i, b, None>>
    BY <1>4, <1>10, BareRows
  <1>13. Rows(e) = Permits(f)
    <2>1. \A r : r \in Permits(f) <=> \E i \in DOMAIN f.lines : \E b \in said[i] : r = <<i, b, None>>
      BY <1>3, VPNPermits
    <2> QED
      BY <1>12, <2>1
  <1> QED
    BY <1>9, <1>10, <1>11, <1>13 DEF Faithful, ShownAs

-----------------------------------------------------------------------------
(* TLS of web servers.                                                     *)
Left(S, mark) == {a \in Names : \E x \in S : x.mark # mark /\ a \in Stands(x.name)}
SuitesSaid(l) == IF l.is = "suites" THEN Left(Range(l.names) \cup Range(l.remark), "!") ELSE {}
VersionsSaid(l) == IF l.is = "protocols" THEN Left(Range(l.names) \cup Range(l.remark), "-") ELSE {}

LEMMA UnmarkedFacts ==
  ASSUME NEW items, IsSeq(items), NEW mark
  PROVE  /\ IsSeq(Unmarked(items, mark))
         /\ \A x : x \in Range(Unmarked(items, mark)) <=> \E a \in Left(Range(items), mark) : x = Bare(a)
  <1>1. PICK left : left = Chosen(items, {i \in DOMAIN items : items[i].mark # mark})
    OBVIOUS
  <1>2. IsSeq(left) /\ \A x : x \in Range(left) <=> \E i \in DOMAIN items : items[i].mark # mark /\ x = items[i]
    BY <1>1, ChosenFacts
  <1>3. PICK names : names = [i \in DOMAIN left |-> left[i].name]
    OBVIOUS
  <1>4. IsSeq(names) /\ DOMAIN names = DOMAIN left
    BY <1>2, <1>3, OverIsSeq
  <1>5. Unmarked(items, mark) = Plain(names)
    BY <1>1, <1>3 DEF Unmarked
  <1>6. \A n : n \in Range(names) <=> \E t \in Range(left) : n = t.name
    BY <1>3, <1>4 DEF Range
  <1>7. \A n : n \in Range(names) <=> \E t \in Range(items) : t.mark # mark /\ n = t.name
    <2>1. \A t : t \in Range(left) <=> t \in Range(items) /\ t.mark # mark
      BY <1>2 DEF Range
    <2> QED
      BY <1>6, <2>1
  <1>8. \A a : a \in Left(Range(items), mark) <=> \E n \in Range(names) : a \in Stands(n)
    BY <1>7, StandsNamed DEF Left
  <1> QED
    BY <1>4, <1>5, <1>8, PlainFacts

LEMMA SuitesFacts ==
  ASSUME NEW l, IsSeq(l.names), IsSeq(l.remark)
  PROVE  IsSeq(Suites(l)) /\ \A x : x \in Range(Suites(l)) <=> \E a \in SuitesSaid(l) : x = Bare(a)
  <1>1. CASE l.is # "suites"
    <2>1. Suites(l) = <<>> /\ SuitesSaid(l) = {}
      BY <1>1 DEF Suites, SuitesSaid
    <2>2. IsSeq(<<>>) /\ Range(<<>>) = {}
      BY DEF IsSeq, Range
    <2> QED
      BY <2>1, <2>2
  <1>2. CASE l.is = "suites"
    <2>1. PICK items : items = l.names \o l.remark
      OBVIOUS
    <2>2. IsSeq(items) /\ Range(items) = Range(l.names) \cup Range(l.remark)
      BY <2>1, JoinFacts
    <2>3. PICK mark : mark = "!"
      OBVIOUS
    <2>4. Suites(l) = Unmarked(items, mark) /\ SuitesSaid(l) = Left(Range(items), mark)
      BY <1>2, <2>1, <2>2, <2>3 DEF Suites, SuitesSaid
    <2>5. /\ IsSeq(Unmarked(items, mark))
          /\ \A x : x \in Range(Unmarked(items, mark)) <=> \E a \in Left(Range(items), mark) : x = Bare(a)
      BY <2>2, UnmarkedFacts
    <2> QED
      BY <2>4, <2>5
  <1> QED
    BY <1>1, <1>2

LEMMA VersionsFacts ==
  ASSUME NEW l, IsSeq(l.names), IsSeq(l.remark)
  PROVE  IsSeq(Versions(l)) /\ \A x : x \in Range(Versions(l)) <=> \E a \in VersionsSaid(l) : x = Bare(a)
  <1>1. CASE l.is # "protocols"
    <2>1. Versions(l) = <<>> /\ VersionsSaid(l) = {}
      BY <1>1 DEF Versions, VersionsSaid
    <2>2. IsSeq(<<>>) /\ Range(<<>>) = {}
      BY DEF IsSeq, Range
    <2> QED
      BY <2>1, <2>2
  <1>2. CASE l.is = "protocols"
    <2>1. PICK items : items = l.names \o l.remark
      OBVIOUS
    <2>2. IsSeq(items) /\ Range(items) = Range(l.names) \cup Range(l.remark)
      BY <2>1, JoinFacts
    <2>3. PICK mark : mark = "-"
      OBVIOUS
    <2>4. Versions(l) = Unmarked(items, mark) /\ VersionsSaid(l) = Left(Range(items), mark)
      BY <1>2, <2>1, <2>2, <2>3 DEF Versions, VersionsSaid
    <2>5. /\ IsSeq(Unmarked(items, mark))
          /\ \A x : x \in Range(Unmarked(items, mark)) <=> \E a \in Left(Range(items), mark) : x = Bare(a)
      BY <2>2, UnmarkedFacts
    <2> QED
      BY <2>4, <2>5
  <1> QED
    BY <1>1, <1>2

(* Of every version the first line that enables it.                        *)
LEMMA WebProtocolsFacts ==
  ASSUME NEW f, IsConfiguration(f)
  PROVE  /\ IsSeq(WebProtocols(f)) /\ AreProtocols(f, WebProtocols(f))
         /\ \A a : (\E i \in DOMAIN WebProtocols(f) : WebProtocols(f)[i].name = a)
                     <=> \E i \in DOMAIN f.lines : a \in VersionsSaid(f.lines[i])
  <1>1. PICK says : says = [i \in DOMAIN f.lines |-> Versions(f.lines[i])]
    OBVIOUS
  <1>2. /\ IsSeq(says) /\ DOMAIN says = DOMAIN f.lines
        /\ \A i \in DOMAIN says : IsSeq(says[i])
    BY <1>1, LineFacts, OverIsSeq, VersionsFacts
  <1>3. \A i \in DOMAIN f.lines : \A x : x \in Range(says[i]) <=> \E a \in VersionsSaid(f.lines[i]) : x = Bare(a)
    BY <1>1, LineFacts, VersionsFacts
  <1>4. PICK all : all = EachLine(says)
    OBVIOUS
  <1>5. /\ IsSeq(all)
        /\ \A x : x \in Range(all) <=>
             \E i \in DOMAIN says : \E h \in Range(says[i]) :
               x = [line |-> i, algorithm |-> h.algorithm, partner |-> h.partner]
    BY <1>2, <1>4, EachLineFacts
  <1>6. \A a : (\E x \in Range(all) : x.algorithm = a) <=> \E i \in DOMAIN f.lines : a \in VersionsSaid(f.lines[i])
    <2>1. \A i \in DOMAIN f.lines : \A a :
            (\E h \in Range(says[i]) : h.algorithm = a) <=> a \in VersionsSaid(f.lines[i])
      <3>1. \A b : Bare(b).algorithm = b
        BY DEF Bare
      <3> TAKE i \in DOMAIN f.lines
      <3>2. \A x : x \in Range(says[i]) <=> \E b \in VersionsSaid(f.lines[i]) : x = Bare(b)
        BY <1>3
      <3> TAKE a
      <3>3. ASSUME NEW h \in Range(says[i]), h.algorithm = a PROVE a \in VersionsSaid(f.lines[i])
        BY <3>1, <3>2, <3>3
      <3>4. ASSUME a \in VersionsSaid(f.lines[i]) PROVE \E h \in Range(says[i]) : h.algorithm = a
        <4>1. Bare(a) \in Range(says[i])
          BY <3>2, <3>4
        <4> QED
          BY <3>1, <4>1
      <3> QED
        BY <3>3, <3>4
    <2>2. \A a : (\E x \in Range(all) : x.algorithm = a)
            <=> \E i \in DOMAIN says : \E h \in Range(says[i]) : h.algorithm = a
      <3> TAKE a
      <3>1. ASSUME NEW x \in Range(all), x.algorithm = a
            PROVE  \E i \in DOMAIN says : \E h \in Range(says[i]) : h.algorithm = a
        <4>1. PICK i \in DOMAIN says : \E h \in Range(says[i]) :
                x = [line |-> i, algorithm |-> h.algorithm, partner |-> h.partner]
          BY <1>5
        <4> QED
          BY <3>1, <4>1
      <3>2. ASSUME NEW i \in DOMAIN says, NEW h \in Range(says[i]), h.algorithm = a
            PROVE  \E x \in Range(all) : x.algorithm = a
        <4>1. PICK x : x = [line |-> i, algorithm |-> h.algorithm, partner |-> h.partner]
          OBVIOUS
        <4>2. x \in Range(all)
          BY <1>5, <4>1
        <4> QED
          BY <3>2, <4>1, <4>2
      <3> QED
        BY <3>1, <3>2
    <2> QED
      BY <1>2, <2>1, <2>2
  <1>7. PICK first : first = {i \in DOMAIN all : \A j \in DOMAIN all : all[j].algorithm = all[i].algorithm => i <= j}
    OBVIOUS
  <1>8. PICK versions : versions = Chosen(all, first)
    OBVIOUS
  <1>9. IsSeq(versions) /\ \A x : x \in Range(versions) <=> \E i \in DOMAIN all \cap first : x = all[i]
    BY <1>5, <1>8, ChosenFacts
  <1>10. \A a : (\E x \in Range(versions) : x.algorithm = a) <=> \E x \in Range(all) : x.algorithm = a
    <2>1. ASSUME NEW x \in Range(versions) PROVE x \in Range(all)
      BY <1>9 DEF Range
    <2>2. ASSUME NEW x \in Range(all)
          PROVE  \E y \in Range(versions) : y.algorithm = x.algorithm
      <3>1. PICK same : same = {j \in DOMAIN all : all[j].algorithm = x.algorithm}
        OBVIOUS
      <3>2. DOMAIN all \in SUBSET Nat
        <4>1. DOMAIN all = 1..Len(all) /\ Len(all) \in Nat
          BY <1>5, SeqFacts
        <4> QED
          BY <4>1
      <3>3. same \in SUBSET Nat /\ same # {}
        BY <3>1, <3>2 DEF Range
      <3>4. PICK i \in same : \A j \in same : i <= j
        BY <3>3, FirstNumber
      <3>5. i \in DOMAIN all \cap first
        BY <1>7, <3>1, <3>4
      <3> QED
        BY <1>9, <3>1, <3>4, <3>5
    <2> QED
      BY <2>1, <2>2
  <1>11. PICK g : g = [i \in DOMAIN versions |-> Configured(f, versions[i].line, "protocol", versions[i].algorithm, None)]
    OBVIOUS
  <1>12. WebProtocols(f) = g
    BY <1>1, <1>4, <1>7, <1>8, <1>11 DEF WebProtocols
  <1>13. IsSeq(g) /\ DOMAIN g = DOMAIN versions
    BY <1>9, <1>11, OverIsSeq
  <1>14. \A i \in DOMAIN g : g[i].name = versions[i].algorithm
    BY <1>11, <1>13 DEF Configured
  <1>15. AreProtocols(f, g)
    BY <1>11, <1>13 DEF AreProtocols
  <1>16. \A a : (\E i \in DOMAIN g : g[i].name = a) <=> \E x \in Range(versions) : x.algorithm = a
    BY <1>13, <1>14 DEF Range
  <1> QED
    BY <1>6, <1>10, <1>12, <1>13, <1>15, <1>16

LEMMA WebPermits ==
  ASSUME NEW f, IsConfiguration(f), f.kind = "webtls", ReadAsMeant(f)
  PROVE  /\ \A r : r \in Permits(f) <=>
              \E i \in DOMAIN f.lines : \E a \in SuitesSaid(f.lines[i]) : r = <<i, a, None>>
         /\ \A a : a \in Enabled(f) <=> \E i \in DOMAIN f.lines : a \in VersionsSaid(f.lines[i])
  <1> DEFINE pairs == {p \in Directives(f, "suites") \X Names : f.lines[p[1]].mod # "-"}
             listed == {q \in pairs : \E x \in Range(f.lines[q[1]].names) : x.mark = "" /\ q[2] \in Stands(x.name)}
  <1>1. Permits(f) = {<<p[1], p[2], None>> : p \in listed}
    BY DEF Permits
  <1>2. ASSUME NEW i \in DOMAIN f.lines
        PROVE  /\ f.lines[i].is = "suites" => f.lines[i].mod # "-" /\ Range(f.lines[i].remark) = {}
               /\ f.lines[i].is = "protocols" => Range(f.lines[i].remark) = {}
               /\ f.lines[i].is = "suites" =>
                    \A x \in Range(f.lines[i].names) : x.mark # "!" <=> x.mark = ""
    <2>1. PICK l : l = f.lines[i]
      OBVIOUS
    <2>2. l \in Range(f.lines)
      BY <2>1 DEF Range
    <2>3. l.is \in {"protocols", "suites"} => l.remark = <<>>
      BY <2>2 DEF ReadAsMeant
    <2>4. l.is = "suites" => l.mod # "-" /\ \A x \in Range(l.names) : x.mark \in {"", "!", "-"} /\ x.mark # "-"
      BY <2>1, <2>2, LineFacts DEF ReadAsMeant
    <2>5. Range(<<>>) = {}
      BY DEF Range
    <2> QED
      BY <2>1, <2>3, <2>4, <2>5
  <1>3. \A i \in DOMAIN f.lines : \A a : a \in SuitesSaid(f.lines[i]) <=>
          /\ a \in Names /\ f.lines[i].is = "suites"
          /\ \E x \in Range(f.lines[i].names) : x.mark = "" /\ a \in Stands(x.name)
    BY <1>2 DEF SuitesSaid, Left
  <1>4. \A p : p \in listed <=> \E i \in DOMAIN f.lines : \E a \in SuitesSaid(f.lines[i]) : p = <<i, a>>
    <2> DEFINE said(l) == {a \in Names : l.is = "suites" /\ \E x \in Range(l.names) : x.mark = "" /\ a \in Stands(x.name)}
    <2>1. \A i \in DOMAIN f.lines : f.lines[i].is = "suites" => f.lines[i].mod # "-"
      BY <1>2
    <2>2. \A p : p \in listed <=> \E i \in DOMAIN f.lines : \E a \in said(f.lines[i]) : p = <<i, a>>
      <3>1. \A p : p \in pairs <=> \E i \in DOMAIN f.lines : \E a \in Names : p = <<i, a>> /\ f.lines[i].is = "suites"
        BY <2>1 DEF Directives
      <3>2. \A p : p \in listed <=>
              p \in pairs /\ \E x \in Range(f.lines[p[1]].names) : x.mark = "" /\ p[2] \in Stands(x.name)
        OBVIOUS
      <3> HIDE DEF pairs, listed
      <3>3. ASSUME NEW p \in listed
            PROVE  \E i \in DOMAIN f.lines : \E a \in said(f.lines[i]) : p = <<i, a>>
        <4>1. PICK i \in DOMAIN f.lines, a \in Names : p = <<i, a>> /\ f.lines[i].is = "suites"
          BY <3>1, <3>2
        <4>2. PICK x \in Range(f.lines[p[1]].names) : x.mark = "" /\ p[2] \in Stands(x.name)
          BY <3>2
        <4>3. p[1] = i /\ p[2] = a
          BY <4>1
        <4> QED
          BY <4>1, <4>2, <4>3
      <3>4. ASSUME NEW i \in DOMAIN f.lines, NEW a \in said(f.lines[i])
            PROVE  <<i, a>> \in listed
        <4>1. <<i, a>> \in pairs
          BY <3>1
        <4>2. <<i, a>>[1] = i /\ <<i, a>>[2] = a
          OBVIOUS
        <4> QED
          BY <3>2, <4>1, <4>2
      <3> QED
        BY <3>3, <3>4
    <2>3. \A i \in DOMAIN f.lines : \A a : a \in SuitesSaid(f.lines[i]) <=> a \in said(f.lines[i])
      BY <1>3
    <2> HIDE DEF said, listed
    <2> QED
      BY <2>2, <2>3
  <1>5. \A a : a \in Enabled(f) <=> \E i \in DOMAIN f.lines : a \in VersionsSaid(f.lines[i])
    BY <1>2 DEF Enabled, VersionsSaid, Left, Directives
  <1> HIDE DEF listed
  <1>6. ASSUME NEW r
        PROVE  r \in Permits(f) <=>
                 \E i \in DOMAIN f.lines : \E a \in SuitesSaid(f.lines[i]) : r = <<i, a, None>>
    <2>1. ASSUME NEW p \in listed, r = <<p[1], p[2], None>>
          PROVE  \E i \in DOMAIN f.lines : \E a \in SuitesSaid(f.lines[i]) : r = <<i, a, None>>
      BY <1>4, <2>1
    <2>2. ASSUME NEW i \in DOMAIN f.lines, NEW a \in SuitesSaid(f.lines[i]), r = <<i, a, None>>
          PROVE  r \in Permits(f)
      <3>1. <<i, a>> \in listed
        BY <1>4
      <3> QED
        BY <1>1, <2>2, <3>1
    <2>3. r \in Permits(f) => \E p \in listed : r = <<p[1], p[2], None>>
      BY <1>1
    <2> QED
      BY <2>1, <2>2, <2>3
  <1> QED
    BY <1>5, <1>6

LEMMA WebFaithful ==
  ASSUME NEW f, IsConfiguration(f), f.kind = "webtls"
  PROVE  /\ Faithful(f, WebConfig(f))
         /\ ReadAsMeant(f) => Heads(WebConfig(f)) = Enabled(f)
         /\ Heads(WebConfig(f)) # {} => Anchored(WebConfig(f))
  <1>1. PICK says : says = [i \in DOMAIN f.lines |-> Suites(f.lines[i])]
    OBVIOUS
  <1>2. /\ IsSeq(says) /\ DOMAIN says = DOMAIN f.lines
        /\ \A i \in DOMAIN says : IsSeq(says[i])
    BY <1>1, LineFacts, OverIsSeq, SuitesFacts
  <1>3. PICK said : said = [i \in DOMAIN f.lines |-> SuitesSaid(f.lines[i])]
    OBVIOUS
  <1>4. \A i \in DOMAIN f.lines : \A x : x \in Range(says[i]) <=> \E b \in said[i] : x = Bare(b)
    BY <1>1, <1>3, LineFacts, SuitesFacts
  <1>5. PICK a : a = WebProtocols(f)
    OBVIOUS
  <1>6. /\ IsSeq(a) /\ AreProtocols(f, a)
        /\ \A v : (\E i \in DOMAIN a : a[i].name = v) <=> \E i \in DOMAIN f.lines : v \in VersionsSaid(f.lines[i])
    BY <1>5, WebProtocolsFacts
  <1>7. PICK e : e = Emitted(f, a, EachLine(says))
    OBVIOUS
  <1>8. WebConfig(f) = e
    BY <1>1, <1>5, <1>7 DEF WebConfig
  <1>9. ShownAs(f, e, a, says)
    BY <1>2, <1>6, <1>7, SaysShown
  <1>10. \A r : r \in Rows(e) <=> \E i \in DOMAIN f.lines : \E b \in said[i] : r = <<i, b, None>>
    BY <1>4, <1>9, BareRows
  <1>11. ASSUME ReadAsMeant(f)
         PROVE  Rows(e) = Permits(f) /\ Heads(e) = Enabled(f)
    <2>1. \A r : r \in Permits(f) <=> \E i \in DOMAIN f.lines : \E b \in said[i] : r = <<i, b, None>>
      BY <1>3, <1>11, WebPermits
    <2>2. Heads(e) = {a[i].name : i \in DOMAIN a}
      BY <1>9 DEF ShownAs
    <2>3. \A v : v \in Heads(e) <=> v \in Enabled(f)
      BY <1>6, <1>11, <2>2, WebPermits
    <2> QED
      BY <1>10, <2>1, <2>3
  <1>12. ASSUME Heads(e) # {}
         PROVE  Anchored(e)
    <2>1. DOMAIN a # {}
      BY <1>9, <1>12 DEF ShownAs
    <2>2. Len(a) # 0
      BY <1>6, <2>1, SeqFacts
    <2> QED
      BY <1>9, <2>2 DEF ShownAs
  <1> QED
    BY <1>8, <1>9, <1>11, <1>12 DEF Faithful, ShownAs

-----------------------------------------------------------------------------
(* Mail.                                                                   *)
CMSSaid(l) == {a \in Names : l.is = "cms" /\ \E n \in Range(l.names) : a \in Stands(n)}

LEMMA EncryptsIs ==
  ASSUME NEW f, NEW r
  PROVE  r \in Encrypts(f) <=> \E i \in DOMAIN f.lines : \E a \in CMSSaid(f.lines[i]) : r = <<i, a, None>>
  <1> DEFINE listed == {q \in Directives(f, "cms") \X Names : \E x \in Range(f.lines[q[1]].names) : q[2] \in Stands(x)}
  <1>1. Encrypts(f) = {<<p[1], p[2], None>> : p \in listed}
    BY DEF Encrypts
  <1>2. \A p : p \in listed <=> \E i \in DOMAIN f.lines : \E a \in CMSSaid(f.lines[i]) : p = <<i, a>>
    BY DEF Directives, CMSSaid
  <1> HIDE DEF listed
  <1>3. ASSUME NEW p \in listed, r = <<p[1], p[2], None>>
        PROVE  \E i \in DOMAIN f.lines : \E a \in CMSSaid(f.lines[i]) : r = <<i, a, None>>
    BY <1>2, <1>3
  <1>4. ASSUME NEW i \in DOMAIN f.lines, NEW a \in CMSSaid(f.lines[i]), r = <<i, a, None>>
        PROVE  r \in Encrypts(f)
    <2>1. <<i, a>> \in listed
      BY <1>2
    <2> QED
      BY <1>1, <1>4, <2>1
  <1>5. r \in Encrypts(f) => \E p \in listed : r = <<p[1], p[2], None>>
    BY <1>1
  <1> QED
    BY <1>3, <1>4, <1>5

LEMMA ContentFacts ==
  ASSUME NEW l, IsSeq(l.names)
  PROVE  /\ IsSeq(ContentEncryption(l))
         /\ \A x : x \in Range(ContentEncryption(l)) <=> \E a \in CMSSaid(l) : x = Bare(a)
  <1>1. CASE l.is # "cms"
    <2>1. ContentEncryption(l) = <<>> /\ CMSSaid(l) = {}
      BY <1>1 DEF ContentEncryption, CMSSaid
    <2>2. IsSeq(<<>>) /\ Range(<<>>) = {}
      BY DEF IsSeq, Range
    <2> QED
      BY <2>1, <2>2
  <1>2. CASE l.is = "cms"
    <2>1. ContentEncryption(l) = Plain(l.names)
      BY <1>2 DEF ContentEncryption
    <2>2. \A a : a \in CMSSaid(l) <=> \E n \in Range(l.names) : a \in Stands(n)
      BY <1>2, StandsNamed DEF CMSSaid
    <2> QED
      BY <2>1, <2>2, PlainFacts
  <1> QED
    BY <1>1, <1>2

LEMMA SMIMEShown ==
  ASSUME NEW f, IsConfiguration(f)
  PROVE  /\ PieceOf(f.id, SMIME(f)) /\ Rows(SMIME(f)) = Encrypts(f)
         /\ Heads(SMIME(f)) \subseteq {"S/MIME"} /\ Anchored(SMIME(f))
  <1> DEFINE mail == "S/MIME"
  <1>1. PICK markers : markers = Directives(f, "marker") \cup Directives(f, "cms")
    OBVIOUS
  <1>2. PICK marker : marker = CHOOSE i \in markers : \A j \in markers : i <= j
    OBVIOUS
  <1>3. PICK says : says = [i \in DOMAIN f.lines |-> ContentEncryption(f.lines[i])]
    OBVIOUS
  <1>4. PICK c : c = Configured(f, marker, "protocol", mail, None)
    OBVIOUS
  <1>5. SMIME(f) = IF markers = {} THEN NoPiece ELSE Emitted(f, <<c>>, EachLine(says))
    BY <1>1, <1>2, <1>3, <1>4 DEF SMIME
  <1> HIDE DEF mail
  <1>6. /\ IsSeq(says) /\ DOMAIN says = DOMAIN f.lines
        /\ \A i \in DOMAIN says : IsSeq(says[i])
    BY <1>3, LineFacts, OverIsSeq, ContentFacts
  <1>7. PICK said : said = [i \in DOMAIN f.lines |-> CMSSaid(f.lines[i])]
    OBVIOUS
  <1>8. \A i \in DOMAIN f.lines : \A x : x \in Range(says[i]) <=> \E b \in said[i] : x = Bare(b)
    BY <1>3, <1>7, LineFacts, ContentFacts
  <1>9. \A r : r \in Encrypts(f) <=> \E i \in DOMAIN f.lines : \E b \in said[i] : r = <<i, b, None>>
    BY <1>7, EncryptsIs
  <1>10. CASE markers = {}
    <2>1. \A i \in DOMAIN f.lines : said[i] = {}
      BY <1>1, <1>7, <1>10 DEF Directives, CMSSaid
    <2>2. Encrypts(f) = {}
      BY <1>9, <2>1
    <2> QED
      BY <1>5, <1>10, <2>2, NoPieceIsPiece, NothingShown
  <1>11. CASE markers # {}
    <2>1. PICK e : e = Emitted(f, <<c>>, EachLine(says))
      OBVIOUS
    <2>2. IsSeq(<<c>>) /\ Len(<<c>>) = 1 /\ DOMAIN <<c>> = {1} /\ <<c>>[1] = c
      BY DEF IsSeq, Range
    <2>3. AreProtocols(f, <<c>>)
      BY <1>4, <2>2 DEF AreProtocols
    <2>4. PICK a : a = <<c>>
      OBVIOUS
    <2>5. ShownAs(f, e, a, says)
      BY <1>6, <2>1, <2>2, <2>3, <2>4, SaysShown
    <2>6. \A r : r \in Rows(e) <=> \E i \in DOMAIN f.lines : \E b \in said[i] : r = <<i, b, None>>
      BY <1>8, <2>5, BareRows
    <2>7. Rows(e) = Encrypts(f)
      BY <1>9, <2>6
    <2>8. c.name = mail
      BY <1>4 DEF Configured
    <2>9. Heads(e) = {mail}
      BY <2>2, <2>4, <2>5, <2>8 DEF ShownAs
    <2>10. PieceOf(f.id, e) /\ Anchored(e)
      BY <2>2, <2>4, <2>5 DEF ShownAs
    <2>11. SMIME(f) = e
      BY <1>5, <1>11, <2>1
    <2> QED
      BY <2>7, <2>9, <2>10, <2>11 DEF mail
  <1> QED
    BY <1>10, <1>11

-----------------------------------------------------------------------------
(* What a configuration file is reported as.                               *)

(* Without what its kind's handler finds, and with it.                     *)
LEMMA BesidesShown ==
  ASSUME NEW f, IsConfiguration(f)
  PROVE  /\ PieceOf(f.id, Besides(f))
         /\ Rows(Besides(f)) = IF f.kind = "smime" THEN {} ELSE Encrypts(f)
         /\ Heads(Besides(f)) \subseteq {"S/MIME"} /\ Anchored(Besides(f))
  <1>1. CASE f.kind = "smime"
    <2>1. Besides(f) = NoPiece
      BY <1>1 DEF Besides
    <2> QED
      BY <1>1, <2>1, NoPieceIsPiece, NothingShown
  <1>2. CASE f.kind # "smime"
    <2>1. Besides(f) = SMIME(f)
      BY <1>2 DEF Besides
    <2> QED
      BY <1>2, <2>1, SMIMEShown
  <1> QED
    BY <1>1, <1>2

LEMMA HandledShown ==
  ASSUME NEW f, IsConfiguration(f)
  PROVE  /\ PieceOf(f.id, Handled(f))
         /\ ReadAsMeant(f) => Rows(Handled(f)) = IF f.kind = "smime" THEN Encrypts(f) ELSE Permits(f)
         /\ f.kind = "webtls" /\ ReadAsMeant(f) => Heads(Handled(f)) = Enabled(f)
         /\ Anchored(Handled(f)) \/ (f.kind = "webtls" /\ Heads(Handled(f)) = {})
  <1>1. CASE f.kind = "ssh"
    <2>1. Handled(f) = SSHConfig(f)
      BY <1>1 DEF Handled
    <2> QED
      BY <1>1, <2>1, SSHFaithful DEF Faithful
  <1>2. CASE f.kind = "ipsec"
    <2>1. Handled(f) = IPsecConfig(f)
      BY <1>2 DEF Handled
    <2> QED
      BY <1>2, <2>1, IPsecFaithful DEF Faithful
  <1>3. CASE f.kind = "openvpn"
    <2>1. Handled(f) = VPNConfig(f)
      BY <1>3 DEF Handled
    <2> QED
      BY <1>3, <2>1, VPNFaithful DEF Faithful
  <1>4. CASE f.kind = "webtls"
    <2>1. Handled(f) = WebConfig(f)
      BY <1>4 DEF Handled
    <2> QED
      BY <1>4, <2>1, WebFaithful DEF Faithful
  <1>5. CASE f.kind = "smime"
    <2>1. Handled(f) = SMIME(f)
      BY <1>5 DEF Handled
    <2> QED
      BY <1>5, <2>1, SMIMEShown
  <1> QED
    BY <1>1, <1>2, <1>3, <1>4, <1>5 DEF IsConfiguration

LEMMA WholeShown ==
  ASSUME NEW f, IsConfiguration(f), NEW p, p = Joined(Handled(f), Besides(f))
  PROVE  /\ PieceOf(f.id, p)
         /\ ReadAsMeant(f) => Rows(p) = Permits(f) \cup Encrypts(f)
         /\ f.kind = "webtls" /\ ReadAsMeant(f) => Heads(p) \ {"S/MIME"} = Enabled(f)
         /\ ReadAsMeant(f) => Anchored(p) \/ (f.kind = "webtls" /\ Enabled(f) = {})
  <1> DEFINE mail == "S/MIME"
  <1>1. PICK h, b : h = Handled(f) /\ b = Besides(f)
    OBVIOUS
  <1>2. /\ PieceOf(f.id, h)
        /\ ReadAsMeant(f) => Rows(h) = IF f.kind = "smime" THEN Encrypts(f) ELSE Permits(f)
        /\ f.kind = "webtls" /\ ReadAsMeant(f) => Heads(h) = Enabled(f)
        /\ Anchored(h) \/ (f.kind = "webtls" /\ Heads(h) = {})
    BY <1>1, HandledShown
  <1>3. /\ PieceOf(f.id, b)
        /\ Rows(b) = IF f.kind = "smime" THEN {} ELSE Encrypts(f)
        /\ Heads(b) \subseteq {mail} /\ Anchored(b)
    BY <1>1, BesidesShown
  <1>4. mail \notin Enabled(f)
    BY StandsNamed DEF Enabled
  <1> HIDE DEF mail
  <1>5. PieceOf(f.id, p)
    BY <1>1, <1>2, <1>3, JoinedIsOf
  <1>6. Rows(p) = Rows(h) \cup Rows(b) /\ Heads(p) = Heads(h) \cup Heads(b) /\ (Anchored(h) /\ Anchored(b) => Anchored(p))
    BY <1>1, <1>2, <1>3, JoinedShown
  <1>7. f.kind = "smime" => Permits(f) = {}
    BY DEF Permits
  <1>8. ReadAsMeant(f) => Rows(p) = Permits(f) \cup Encrypts(f)
    BY <1>2, <1>3, <1>6, <1>7
  <1>9. f.kind = "webtls" /\ ReadAsMeant(f) => Heads(p) \ {mail} = Enabled(f)
    BY <1>2, <1>3, <1>4, <1>6
  <1>10. ReadAsMeant(f) => Anchored(p) \/ (f.kind = "webtls" /\ Enabled(f) = {})
    BY <1>2, <1>3, <1>6
  <1> QED
    BY <1>5, <1>8, <1>9, <1>10 DEF mail

-----------------------------------------------------------------------------
(* What the scanners of code and of manifests find.                        *)
LEMMA PythonFacts ==
  ASSUME NEW id, NEW nodes, IsSeq(nodes)
  PROVE  PieceOf(id, Piece(PythonFindings(id, nodes), {}))
  <1> DEFINE top == {i \in DOMAIN nodes : ~nodes[i].deep}
             deep == {i \in DOMAIN nodes : nodes[i].deep}
             walk == Walked(nodes)
             calls == Chosen(walk, {i \in DOMAIN walk : walk[i].is = "call"})
             found == {i \in DOMAIN calls : Pending(calls[i], Aliases(nodes), Constants(nodes)).name # None}
             pending == Chosen(calls, found)
             all == PythonFindings(id, nodes)
  <1>1. IsSeq(walk)
    <2>1. IsSeq(Chosen(nodes, top)) /\ IsSeq(Chosen(nodes, deep))
      BY ChosenFacts
    <2> QED
      BY <2>1, JoinFacts DEF Walked
  <1> HIDE DEF walk
  <1>2. IsSeq(calls)
    BY <1>1, ChosenFacts
  <1> HIDE DEF calls, found
  <1>3. IsSeq(pending)
    BY <1>2, ChosenFacts
  <1>4. /\ all = [i \in DOMAIN pending |-> all[i]]
        /\ \A i \in DOMAIN pending : \E line, p, mode :
             all[i] = Observed(id, line, p.name, p.size, mode, p.provider, "python-ast")
    BY DEF PythonFindings, pending, found, calls, walk
  <1> HIDE DEF pending, all
  <1>5. IsSeq(all) /\ DOMAIN all = DOMAIN pending
    BY <1>3, <1>4, OverIsSeq
  <1>6. \A i \in DOMAIN all : all[i].place[2] = id /\ Coherent(all[i])
    BY <1>4, <1>5 DEF Observed, Coherent
  <1> QED
    BY <1>5, <1>6 DEF PieceOf, Piece, all

LEMMA PatternFacts ==
  ASSUME NEW id, NEW text, IsSeq(text)
  PROVE  PieceOf(id, Piece(PatternFindings(id, text), {}))
  <1> DEFINE at == [i \in DOMAIN text |-> i]
             live == {i \in DOMAIN text : text[i] \in DOMAIN Matches /\ i \notin Commented(Written(text))}
             by == [r \in 1..Rules |-> Chosen(at, {i \in live : Matches[text[i]].rule = r})]
             matched == Matched(text)
             kept == {k \in DOMAIN matched : ~Subsumed(text, matched[k], matched)}
             rest == Chosen(matched, kept)
             all == PatternFindings(id, text)
  <1>1. IsSeq(at)
    BY OverIsSeq
  <1> HIDE DEF at, live
  <1>2. IsSeq(by) /\ DOMAIN by = 1..Rules /\ \A r \in DOMAIN by : IsSeq(by[r])
    <2>1. by = [r \in 1..Rules |-> by[r]]
      OBVIOUS
    <2>2. \A r \in 1..Rules : IsSeq(by[r])
      BY <1>1, ChosenFacts
    <2> HIDE DEF by
    <2> QED
      BY <2>1, <2>2, MapIsSeq, SourceAssumption
  <1>3. matched = FlattenSeq(by)
    BY DEF Matched, by, live, at
  <1> HIDE DEF by, matched
  <1>4. IsSeq(matched)
    BY <1>2, <1>3, FlattenFacts
  <1> HIDE DEF kept
  <1>5. IsSeq(rest)
    BY <1>4, ChosenFacts
  <1>6. /\ all = [k \in DOMAIN rest |-> all[k]]
        /\ \A k \in DOMAIN rest : \E line, m :
             all[k] = Observed(id, line, m.name, m.size, m.mode, m.provider, "pattern")
    BY DEF PatternFindings, rest, kept, matched
  <1> HIDE DEF rest, all
  <1>7. IsSeq(all) /\ DOMAIN all = DOMAIN rest
    BY <1>5, <1>6, OverIsSeq
  <1>8. \A i \in DOMAIN all : all[i].place[2] = id /\ Coherent(all[i])
    BY <1>6, <1>7 DEF Observed, Coherent
  <1> QED
    BY <1>7, <1>8 DEF PieceOf, Piece, all

LEMMA LibraryFacts ==
  ASSUME NEW id, NEW dep
  PROVE  PieceOf(id, LibraryPiece(id, dep))
  <1>1. CASE RowsOf(dep.name) = {}
    BY <1>1, NoPieceIsPiece DEF LibraryPiece
  <1>2. CASE RowsOf(dep.name) # {}
    <2> DEFINE rows == RowsOf(dep.name)
               first == CHOOSE i \in rows : \A j \in rows : i <= j
               row == Exposes[first]
               lib == <<row.key, dep.version>>
               head == Declared(id, row.row, "material", lib)
               tail == [i \in DOMAIN row.algorithms |-> Declared(id, row.algorithms[i], "algorithm", lib)]
               edges == {<<1 + i, 1, "depends-on">> : i \in DOMAIN row.algorithms}
               p == LibraryPiece(id, dep)
    <2>1. rows \in SUBSET Nat /\ rows \subseteq DOMAIN Exposes
      <3>1. DOMAIN Exposes = 1..Len(Exposes) /\ Len(Exposes) \in Nat
        BY ManifestAssumption, SeqFacts DEF IsSeq
      <3> QED
        BY <3>1 DEF RowsOf
    <2>2. p = Piece(<<head>> \o tail, edges)
      BY <1>2 DEF LibraryPiece
    <2> HIDE DEF rows, p
    <2>3. \E i \in rows : \A j \in rows : i <= j
      BY <1>2, <2>1, FirstNumber DEF rows
    <2>4. first \in DOMAIN Exposes
      BY <2>1, <2>3
    <2> HIDE DEF first
    <2>5. IsSeq(row.algorithms)
      BY <2>4, ManifestAssumption DEF IsSeq
    <2>6. IsSeq(tail) /\ DOMAIN tail = DOMAIN row.algorithms
      BY <2>5, OverIsSeq
    <2>7. IsSeq(<<head>>) /\ Len(<<head>>) = 1
      BY DEF IsSeq, Range
    <2>8. \A i \in DOMAIN tail : tail[i].place[2] = id /\ Coherent(tail[i])
      BY DEF Declared, Coherent
    <2>9. head.place[2] = id /\ Coherent(head)
      BY DEF Declared, Coherent
    <2>10. \A i \in DOMAIN row.algorithms : <<1 + i, 1, "depends-on">>[1] = 1 + i
                                           /\ <<1 + i, 1, "depends-on">>[2] = 1
      OBVIOUS
    <2> HIDE DEF head, tail, row
    <2>11. /\ IsSeq(<<head>> \o tail) /\ DOMAIN (<<head>> \o tail) = 1..(1 + Len(tail))
           /\ (<<head>> \o tail)[1] = head
           /\ \A i \in 1..Len(tail) : (<<head>> \o tail)[1 + i] = tail[i]
      BY <2>6, <2>7, JoinFacts
    <2>12. Len(tail) \in Nat /\ DOMAIN tail = 1..Len(tail)
      BY <2>6, SeqFacts
    <2>13. PICK whole : whole = <<head>> \o tail
      OBVIOUS
    <2>14. \A i \in DOMAIN whole : whole[i].place[2] = id /\ Coherent(whole[i])
      <3> TAKE i \in DOMAIN whole
      <3>1. i = 1 \/ (i - 1 \in 1..Len(tail) /\ i = 1 + (i - 1))
        BY <2>11, <2>12, <2>13
      <3> QED
        BY <2>8, <2>9, <2>11, <2>12, <2>13, <3>1
    <2>15. \A l \in edges : {l[1], l[2]} \subseteq DOMAIN whole
      <3> TAKE l \in edges
      <3>1. PICK i \in DOMAIN tail : l[1] = 1 + i /\ l[2] = 1
        BY <2>6, <2>10
      <3> QED
        BY <2>11, <2>12, <2>13, <3>1
    <2>16. p.assets = whole /\ p.links = edges
      BY <2>2, <2>13 DEF Piece
    <2> HIDE DEF edges
    <2>17. PieceOf(id, p)
      BY <2>11, <2>13, <2>14, <2>15, <2>16 DEF PieceOf
    <2> QED
      BY <2>17 DEF p
  <1> QED
    BY <1>1, <1>2

(* What is read of a manifest so far, library by library.                  *)
ReadsOn(h, f, n) == h = [k \in 0..n |-> IF k = 0 THEN NoPiece ELSE Joined(h[k - 1], LibraryPiece(f.id, f.deps[k]))]

LEMMA ManifestUnfolds ==
  ASSUME NEW f
  PROVE  ManifestPiece(f) = (CHOOSE h : ReadsOn(h, f, Len(f.deps)))[Len(f.deps)]
  BY DEF ManifestPiece, ReadsOn

LEMMA ReadsOnExists ==
  ASSUME NEW f
  PROVE  \A n \in Nat : \E h : ReadsOn(h, f, n)
  <1> DEFINE Bad == {n \in Nat : ~\E h : ReadsOn(h, f, n)}
  <1> SUFFICES ASSUME Bad # {} PROVE FALSE
    OBVIOUS
  <1>1. PICK n \in Bad : \A j \in Bad : n <= j
    BY FirstNumber
  <1>2. n # 0
    <2>1. ReadsOn([k \in 0..0 |-> NoPiece], f, 0)
      BY DEF ReadsOn
    <2> QED
      BY <1>1, <2>1
  <1>3. n - 1 \in Nat /\ n - 1 \notin Bad
    BY <1>1, <1>2
  <1>4. PICK h : ReadsOn(h, f, n - 1)
    BY <1>3
  <1> DEFINE Step(g, k) == IF k = 0 THEN NoPiece ELSE Joined(g[k - 1], LibraryPiece(f.id, f.deps[k]))
             g == [k \in 0..n |-> IF k < n THEN h[k] ELSE Step(h, k)]
  <1>5. ASSUME NEW k \in 0..n
        PROVE  g[k] = Step(g, k)
    <2>1. CASE k = n
      BY <2>1, <1>1, <1>2
    <2>2. CASE k < n
      <3>1. k \in 0..(n - 1) /\ (k # 0 => k - 1 \in 0..(n - 1))
        BY <2>2, <1>1
      <3>2. h[k] = Step(h, k)
        BY <3>1, <1>4 DEF ReadsOn
      <3>3. g[k] = h[k] /\ (k # 0 => g[k - 1] = h[k - 1])
        BY <3>1, <2>2, <1>1
      <3> QED
        BY <3>2, <3>3
    <2> QED
      BY <2>1, <2>2, <1>1
  <1>6. g = [k \in 0..n |-> g[k]]
    OBVIOUS
  <1> HIDE DEF g
  <1>7. g = [k \in 0..n |-> Step(g, k)]
    BY <1>5, <1>6, Zenon
  <1>8. ReadsOn(g, f, n)
    BY <1>7 DEF ReadsOn
  <1> QED
    BY <1>1, <1>8

LEMMA ManifestFacts ==
  ASSUME NEW f, IsSeq(f.deps)
  PROVE  PieceOf(f.id, ManifestPiece(f))
  <1>1. Len(f.deps) \in Nat
    BY SeqFacts
  <1>2. PICK n \in Nat : n = Len(f.deps)
    BY <1>1
  <1>3. PICK h : h = CHOOSE g : ReadsOn(g, f, n)
    OBVIOUS
  <1>4. ReadsOn(h, f, n)
    BY <1>3, ReadsOnExists
  <1>5. h[0] = NoPiece /\ \A k \in 1..n : h[k] = Joined(h[k - 1], LibraryPiece(f.id, f.deps[k]))
    BY <1>4 DEF ReadsOn
  <1> DEFINE Bad == {k \in 0..n : ~PieceOf(f.id, h[k])}
  <1>6. Bad = {}
    <2> SUFFICES ASSUME Bad # {} PROVE FALSE
      OBVIOUS
    <2>1. Bad \in SUBSET Nat
      OBVIOUS
    <2>2. PICK k \in Bad : \A j \in Bad : k <= j
      <3> HIDE DEF Bad
      <3> QED
        BY <2>1, FirstNumber
    <2>3. k # 0
      BY <1>5, <2>2, NoPieceIsPiece
    <2>4. k \in 1..n /\ k - 1 \in 0..n /\ ~(k <= k - 1)
      BY <2>2, <2>3
    <2>5. PieceOf(f.id, h[k - 1])
      BY <2>2, <2>4
    <2>6. PieceOf(f.id, LibraryPiece(f.id, f.deps[k]))
      BY LibraryFacts
    <2>7. PieceOf(f.id, Joined(h[k - 1], LibraryPiece(f.id, f.deps[k])))
      BY <2>5, <2>6, JoinedIsOf
    <2> QED
      BY <1>5, <2>2, <2>4, <2>7
  <1>7. PieceOf(f.id, h[n])
    BY <1>6
  <1> QED
    BY <1>2, <1>3, <1>7, ManifestUnfolds

-----------------------------------------------------------------------------
(* Python: what a file shows with every name written out.                  *)

(* A set of the first numbers that is not empty has a first and a last one.*)
LEMMA FirstOfFacts ==
  ASSUME NEW S \in SUBSET Nat, S # {}
  PROVE  FirstOf(S) \in S /\ \A j \in S : FirstOf(S) <= j
  BY FirstNumber DEF FirstOf

LEMMA LastOfFacts ==
  ASSUME NEW n \in Nat, NEW S \in SUBSET (1..n), S # {}
  PROVE  LastOf(S) \in S
  <1> DEFINE Upper == {k \in Nat : \A j \in S : j <= k}
  <1>1. n \in Upper
    OBVIOUS
  <1>2. PICK b \in Upper : \A k \in Upper : b <= k
    <2>1. Upper \in SUBSET Nat
      OBVIOUS
    <2> HIDE DEF Upper
    <2> QED
      BY <1>1, <2>1, FirstNumber
  <1>3. b \in S
    <2> SUFFICES ASSUME b \notin S PROVE FALSE
      OBVIOUS
    <2>1. \A j \in S : j \in Nat /\ j <= b /\ j # b /\ j >= 1
      BY <1>2
    <2>2. b \in Nat /\ b # 0
      <3>1. PICK j : j \in S
        OBVIOUS
      <3>2. b \in Nat /\ j \in Nat /\ j <= b /\ j >= 1
        BY <1>2, <2>1, <3>1
      <3> QED
        BY <3>2
    <2>3. b - 1 \in Nat /\ \A j \in S : j <= b - 1
      BY <2>1, <2>2
    <2>4. b - 1 \in Upper
      BY <2>3
    <2>5. b <= b - 1
      BY <1>2, <2>4
    <2> QED
      BY <2>2, <2>5
  <1> QED
    BY <1>2, <1>3 DEF LastOf

-----------------------------------------------------------------------------
(* Python: what the file shows with every name written out.                *)

LEMMA WalkedFacts ==
  ASSUME NEW nodes, IsSeq(nodes)
  PROVE  IsSeq(Walked(nodes)) /\ Range(Walked(nodes)) = Range(nodes)
  <1> DEFINE top == {i \in DOMAIN nodes : ~nodes[i].deep}
             deep == {i \in DOMAIN nodes : nodes[i].deep}
  <1>1. top \cup deep = DOMAIN nodes
    OBVIOUS
  <1>2. Walked(nodes) = Chosen(nodes, top) \o Chosen(nodes, deep)
    BY DEF Walked
  <1> HIDE DEF top, deep
  <1>3. /\ IsSeq(Chosen(nodes, top)) /\ IsSeq(Chosen(nodes, deep))
        /\ \A x : x \in Range(Chosen(nodes, top)) <=> \E i \in DOMAIN nodes \cap top : x = nodes[i]
        /\ \A x : x \in Range(Chosen(nodes, deep)) <=> \E i \in DOMAIN nodes \cap deep : x = nodes[i]
    BY ChosenFacts
  <1>4. IsSeq(Walked(nodes)) /\ Range(Walked(nodes)) = Range(Chosen(nodes, top)) \cup Range(Chosen(nodes, deep))
    BY <1>2, <1>3, JoinFacts
  <1>5. Range(nodes) = Range(Chosen(nodes, top)) \cup Range(Chosen(nodes, deep))
    BY <1>1, <1>3 DEF Range
  <1> QED
    BY <1>4, <1>5

(* No two bindings have a name.                                            *)
LEMMA OneBinding ==
  ASSUME NEW nodes, BoundOnce(nodes)
  PROVE  \A x, y \in Range(nodes) : x.is # "call" /\ y.is # "call" /\ x.name = y.name => x = y
  BY DEF BoundOnce, Range

(* A name in full is what the imports make of it.                          *)
LEMMA FullNameIs ==
  ASSUME NEW nodes, IsSeq(nodes), BoundOnce(nodes), NEW fn
  PROVE  Expand(fn, Aliases(nodes)) = FullName(fn, nodes)
  <1> DEFINE walk == Walked(nodes)
             imports == {x \in Range(nodes) : x.is = "import" /\ fn # <<>> /\ x.name = fn[1]}
             Binding(x) == {i \in DOMAIN walk : walk[i].is = "import" /\ walk[i].name = x}
             aliases == Aliases(nodes)
  <1>1. aliases = [x \in {walk[i].name : i \in {j \in DOMAIN walk : walk[j].is = "import"}} |->
                     walk[LastOf(Binding(x))].origin]
    BY DEF Aliases
  <1>2. FullName(fn, nodes) =
          IF {b.origin : b \in imports} = {} THEN fn
          ELSE (CHOOSE o \in {b.origin : b \in imports} : TRUE) \o Tail(fn)
    BY DEF FullName
  <1>3. IsSeq(walk) /\ Range(walk) = Range(nodes)
    BY WalkedFacts
  <1>4. Len(walk) \in Nat /\ DOMAIN walk = 1..Len(walk)
    BY <1>3, SeqFacts
  <1> HIDE DEF walk, aliases
  <1>5. CASE imports = {}
    <2>1. fn # <<>> => fn[1] \notin DOMAIN aliases
      BY <1>1, <1>3, <1>5 DEF Range
    <2>2. FullName(fn, nodes) = fn
      BY <1>2, <1>5
    <2> QED
      BY <2>1, <2>2 DEF Expand, aliases
  <1>6. CASE imports # {}
    <2>1. PICK x \in imports : TRUE
      BY <1>6
    <2>2. PICK k \in DOMAIN walk : walk[k] = x
      BY <1>3, <2>1 DEF Range
    <2>3. fn[1] \in DOMAIN aliases /\ fn # <<>> /\ aliases[fn[1]] = walk[LastOf(Binding(fn[1]))].origin
      BY <1>1, <2>1, <2>2
    <2>4. Binding(fn[1]) \subseteq 1..Len(walk) /\ Binding(fn[1]) # {}
      BY <1>4, <2>1, <2>2
    <2>5. LastOf(Binding(fn[1])) \in Binding(fn[1])
      <3>1. PICK S : S = Binding(fn[1])
        OBVIOUS
      <3> QED
        BY <1>4, <2>4, <3>1, LastOfFacts
    <2>6. walk[LastOf(Binding(fn[1]))] \in imports
      BY <1>3, <2>3, <2>5 DEF Range
    <2>7. \A y \in imports : y = x
      BY <2>1, OneBinding
    <2>8. {b.origin : b \in imports} = {x.origin}
      BY <2>1, <2>7
    <2>9. FullName(fn, nodes) = x.origin \o Tail(fn)
      BY <1>2, <2>8
    <2>10. aliases[fn[1]] = x.origin
      BY <2>3, <2>6, <2>7
    <2> QED
      BY <2>3, <2>9, <2>10 DEF Expand, aliases
  <1> QED
    BY <1>5, <1>6

(* What a name resolves to is what is put in its place.                    *)
LEMMA SubstitutedIs ==
  ASSUME NEW nodes, IsProgram(nodes), BoundOnce(nodes), NEW e
  PROVE  LET r == Resolved(e, Constants(nodes))
             s == Substituted(e, nodes) IN
         /\ e.is # "name" => s = e
         /\ e.is = "name" => (Literal(s) <=> r # None)
         /\ r = IF Literal(s) THEN s ELSE None
         /\ e # None => s # None
  <1> DEFINE values == {b.value : b \in {x \in Range(nodes) : x.is = "assign" /\ ~x.deep /\ x.name = e.v}}
             assigned == {x \in Range(nodes) : x.is = "assign" /\ ~x.deep /\ x.name = e.v}
             folds == {i \in DOMAIN nodes : /\ nodes[i].is = "assign" /\ ~nodes[i].deep
                                            /\ ConstValue(nodes[i].value) # None}
             To(x) == {i \in folds : nodes[i].name = x}
             constants == Constants(nodes)
             r == Resolved(e, constants)
             s == Substituted(e, nodes)
             value == CHOOSE v \in values : TRUE
  <1>1. constants = [x \in {nodes[i].name : i \in folds} |-> ConstValue(nodes[LastOf(To(x))].value)]
    BY DEF Constants
  <1>2. s = IF e.is # "name" \/ values = {} THEN e ELSE IF value.is = "env" THEN value.default ELSE value
    BY DEF Substituted
  <1>3. e.is = "name" => ~Literal(e)
    BY DEF Literal
  <1>4. r = IF Literal(e) THEN e ELSE IF e.is = "name" /\ e.v \in DOMAIN constants THEN constants[e.v] ELSE None
    BY <1>3 DEF Resolved
  <1>5. Len(nodes) \in Nat /\ DOMAIN nodes = 1..Len(nodes)
    BY SeqFacts DEF IsProgram, IsSeq
  <1>6. values = {b.value : b \in assigned}
    OBVIOUS
  <1> SUFFICES /\ e.is # "name" => s = e
               /\ e.is = "name" => (Literal(s) <=> r # None)
               /\ r = IF Literal(s) THEN s ELSE None
               /\ e # None => s # None
    OBVIOUS
  <1> HIDE DEF constants, s, r, values, value
  <1>7. CASE e.is # "name"
    BY <1>2, <1>4, <1>7
  <1>8. CASE e.is = "name" /\ assigned = {}
    <2>1. e.v \notin DOMAIN constants
      BY <1>1, <1>8 DEF Range
    <2> QED
      BY <1>2, <1>3, <1>4, <1>6, <1>8, <2>1
  <1>9. CASE e.is = "name" /\ assigned # {}
    <2>1. PICK x \in assigned : TRUE
      BY <1>9
    <2>2. \A y \in assigned : y = x
      BY <2>1, OneBinding
    <2>3. values = {x.value}
      BY <1>6, <2>1, <2>2
    <2>4. s = IF x.value.is = "env" THEN x.value.default ELSE x.value
      BY <1>2, <1>9, <2>3 DEF value
    <2>5. x.value # None /\ (x.value.is = "env" => x.value.default # None)
      BY <2>1 DEF IsProgram
    <2>6. PICK k \in DOMAIN nodes : nodes[k] = x
      BY <2>1 DEF Range
    <2>7. ConstValue(x.value) = IF Literal(s) THEN s ELSE None
      <3>1. x.value.is = "env" => ~Literal(x.value)
        BY DEF Literal
      <3> QED
        BY <2>4, <3>1 DEF ConstValue
    <2>8. s # None
      BY <2>4, <2>5
    <2>9. CASE Literal(s)
      <3>1. k \in To(e.v)
        BY <2>1, <2>6, <2>7, <2>8, <2>9
      <3>2. LastOf(To(e.v)) \in To(e.v)
        <4>1. PICK S : S = To(e.v)
          OBVIOUS
        <4>2. S \in SUBSET (1..Len(nodes)) /\ S # {}
          BY <1>5, <3>1, <4>1
        <4> QED
          BY <1>5, <4>1, <4>2, LastOfFacts
      <3>3. nodes[LastOf(To(e.v))] \in assigned
        BY <3>2 DEF Range
      <3>4. nodes[LastOf(To(e.v))] = x
        BY <2>2, <3>3
      <3>5. e.v \in DOMAIN constants /\ constants[e.v] = ConstValue(x.value)
        BY <1>1, <3>1, <3>4
      <3> QED
        BY <1>3, <1>4, <1>9, <2>7, <2>8, <2>9, <3>5
    <2>10. CASE ~Literal(s)
      <3>1. e.v \notin DOMAIN constants
        <4> SUFFICES ASSUME NEW i \in folds, nodes[i].name = e.v PROVE FALSE
          BY <1>1
        <4>1. nodes[i] \in assigned
          BY DEF Range
        <4>2. ConstValue(x.value) # None
          BY <2>2, <4>1
        <4> QED
          BY <2>7, <2>10, <4>2
      <3> QED
        BY <1>3, <1>4, <1>9, <2>8, <2>10, <3>1
    <2> QED
      BY <2>9, <2>10
  <1> QED
    BY <1>7, <1>8, <1>9

(* The arguments of a call, with what their names stand for in place.      *)
LEMMA ArgumentsOf ==
  ASSUME NEW nodes, NEW n, IsSeq(n.args), ~Indirect(n, nodes)
  PROVE  LET w == WrittenOut(n, nodes) IN
         /\ IsSeq(w.args) /\ DOMAIN w.args = DOMAIN n.args /\ Len(w.args) = Len(n.args)
         /\ \A i \in DOMAIN n.args : w.args[i] = Substituted(n.args[i], nodes)
  <1> DEFINE g == [i \in DOMAIN n.args |-> Substituted(n.args[i], nodes)]
  <1>1. WrittenOut(n, nodes).args = g
    BY DEF WrittenOut
  <1>2. IsSeq(g) /\ Len(g) = Len(n.args) /\ DOMAIN g = DOMAIN n.args
    BY OverIsSeq
  <1> QED
    BY <1>1, <1>2

(* The positions at which a name of the call stands for a literal.         *)
Folded(n, w) == {i \in DOMAIN w.args : n.args[i].is = "name" /\ Literal(w.args[i])}

(* What is called is what is written out as called.                        *)
LEMMA CalleeIs ==
  ASSUME NEW nodes, IsProgram(nodes), BoundOnce(nodes), NEW n, IsSeq(n.args), ReadAsWritten(n, nodes)
  PROVE  LET w == WrittenOut(n, nodes) IN
         Callee(n, Aliases(nodes)) = w.fn /\ Callee(w, <<>>) = w.fn
  <1> DEFINE w == WrittenOut(n, nodes)
             name == FullName(n.fn, nodes)
  <1>1. \A fn : Expand(fn, Aliases(nodes)) = FullName(fn, nodes)
    BY FullNameIs DEF IsProgram, IsSeq
  <1>2. w.fn = IF Indirect(n, nodes) THEN Append(FullName(<<n.args[1].v>>, nodes), n.args[2].v) ELSE name
    BY DEF WrittenOut
  <1>3. Callee(n, Aliases(nodes)) = w.fn
    <2>1. Indirect(n, nodes) <=> /\ name # <<>> /\ Last(name) = "getattr"
                                 /\ Len(n.args) = 2 /\ n.args[1].is = "name" /\ n.args[2].is = "str"
      BY DEF Indirect, IsGetattr
    <2> HIDE DEF name, w
    <2>2. Expand(n.fn, Aliases(nodes)) = name
      BY <1>1 DEF name
    <2> QED
      BY <1>1, <1>2, <2>1, <2>2 DEF Callee
  <1>4. Expand(w.fn, <<>>) = w.fn
    BY DEF Expand
  <1>5. Indirect(n, nodes) => Len(w.args) # 2
    BY DEF WrittenOut
  <1>6. ~Indirect(n, nodes) => ~(/\ w.fn # <<>> /\ Last(w.fn) = "getattr"
                                 /\ Len(w.args) = 2 /\ w.args[1].is = "name" /\ w.args[2].is = "str")
    <2> SUFFICES ASSUME ~Indirect(n, nodes), IsGetattr(w.fn),
                        Len(w.args) = 2, w.args[1].is = "name", w.args[2].is = "str"
                 PROVE  FALSE
      BY DEF IsGetattr
    <2>1. /\ DOMAIN w.args = DOMAIN n.args /\ Len(n.args) = 2 /\ DOMAIN n.args = 1..Len(n.args)
          /\ \A i \in DOMAIN n.args : w.args[i] = Substituted(n.args[i], nodes)
      BY ArgumentsOf, SeqFacts
    <2>2. 1 \in DOMAIN n.args /\ 2 \in DOMAIN n.args
      BY <2>1
    <2>3. \A i \in DOMAIN n.args : n.args[i].is # "name" => w.args[i] = n.args[i]
      BY <2>1, SubstitutedIs
    <2>4. \A i \in DOMAIN w.args : ~(n.args[i].is = "name" /\ Literal(w.args[i]))
      <3> HIDE DEF w
      <3>1. \A i \in Folded(n, w) : ~IsGetattr(w.fn)
        BY DEF ReadAsWritten, Folded, w
      <3> QED
        BY <3>1 DEF Folded
    <2>5. n.args[1].is = "name"
      BY <2>2, <2>3
    <2>6. n.args[2].is = "str"
      BY <2>1, <2>2, <2>3, <2>4 DEF Literal
    <2>7. IsGetattr(name)
      BY <1>2
    <2> QED
      BY <2>1, <2>5, <2>6, <2>7 DEF Indirect
  <1> HIDE DEF w
  <1>7. Callee(w, <<>>) = w.fn
    BY <1>4, <1>5, <1>6 DEF Callee
  <1> QED
    BY <1>3, <1>7 DEF w

(* An integer is read of an expression or of what is put in its place.     *)
LEMMA IntIs ==
  ASSUME NEW nodes, IsProgram(nodes), BoundOnce(nodes), NEW e
  PROVE  IntOf(e, Constants(nodes)) = IntOf(Substituted(e, nodes), <<>>)
  <1> DEFINE s == Substituted(e, nodes)
  <1>1. Resolved(e, Constants(nodes)) = IF Literal(s) THEN s ELSE None
    BY SubstitutedIs
  <1>2. Resolved(s, <<>>) = IF Literal(s) THEN s ELSE None
    <2>1. s.is = "name" => ~Literal(s)
      BY DEF Literal
    <2> HIDE DEF s
    <2> QED
      BY <2>1 DEF Resolved
  <1> QED
    BY <1>1, <1>2 DEF IntOf

LEMMA SizeIs ==
  ASSUME NEW nodes, IsProgram(nodes), BoundOnce(nodes), NEW n, IsSeq(n.args), NEW rule,
         Indirect(n, nodes) => rule \notin DOMAIN SizeArg,
         n.size = None /\ rule \notin DOMAIN SizeArg /\ ~Indirect(n, nodes) =>
           Folded(n, WrittenOut(n, nodes)) \cap PlausibleSizes(WrittenOut(n, nodes)) = {}
  PROVE  KeySize(n, rule, Constants(nodes)) = KeySize(WrittenOut(n, nodes), rule, <<>>)
  <1> DEFINE w == WrittenOut(n, nodes)
             constants == Constants(nodes)
  <1>1. w.size = IF n.size = None THEN None ELSE Substituted(n.size, nodes)
    BY DEF WrittenOut
  <1>2. CASE n.size # None
    <2>1. w.size = Substituted(n.size, nodes) /\ w.size # None
      BY <1>1, <1>2, SubstitutedIs
    <2>2. KeySize(n, rule, constants) = IntOf(n.size, constants)
      BY <1>2 DEF KeySize
    <2>3. KeySize(w, rule, <<>>) = IntOf(w.size, <<>>)
      BY <2>1 DEF KeySize
    <2> QED
      BY <2>1, <2>2, <2>3, IntIs
  <1>3. CASE n.size = None /\ rule \in DOMAIN SizeArg
    <2>1. w.size = None
      BY <1>1, <1>3
    <2>2. PICK k : k = SizeArg[rule]
      OBVIOUS
    <2>3. k \in Nat \ {0}
      BY <1>3, <2>2, SourceAssumption
    <2>4. KeySize(n, rule, constants) = IF Len(n.args) >= k THEN IntOf(n.args[k], constants) ELSE None
      BY <1>3, <2>2 DEF KeySize
    <2>5. KeySize(w, rule, <<>>) = IF Len(w.args) >= k THEN IntOf(w.args[k], <<>>) ELSE None
      BY <1>3, <2>1, <2>2 DEF KeySize
    <2>6. /\ Len(w.args) = Len(n.args) /\ DOMAIN n.args = 1..Len(n.args) /\ Len(n.args) \in Nat
          /\ \A i \in DOMAIN n.args : w.args[i] = Substituted(n.args[i], nodes)
      BY <1>3, ArgumentsOf, SeqFacts
    <2>7. CASE Len(n.args) >= k
      <3>1. k \in DOMAIN n.args
        BY <2>3, <2>6, <2>7
      <3>2. IntOf(n.args[k], constants) = IntOf(w.args[k], <<>>)
        BY <2>6, <3>1, IntIs
      <3> HIDE DEF w, constants
      <3> QED
        BY <2>4, <2>5, <2>6, <2>7, <3>2 DEF constants, w
    <2> QED
      BY <2>4, <2>5, <2>6, <2>7
  <1>4. CASE n.size = None /\ rule \notin DOMAIN SizeArg
    <2>1. w.size = None
      BY <1>1, <1>4
    <2>2. KeySize(n, rule, constants) = IF PlausibleSizes(n) # {} THEN n.args[FirstOf(PlausibleSizes(n))].v ELSE None
      BY <1>4 DEF KeySize
    <2>3. KeySize(w, rule, <<>>) = IF PlausibleSizes(w) # {} THEN w.args[FirstOf(PlausibleSizes(w))].v ELSE None
      BY <1>4, <2>1 DEF KeySize
    <2>4. CASE Indirect(n, nodes)
      <3>1. DOMAIN n.args = {1, 2} /\ n.args[1].is = "name" /\ n.args[2].is = "str"
        BY <2>4, SeqFacts DEF Indirect
      <3>2. PlausibleSizes(n) = {}
        BY <3>1 DEF PlausibleSizes
      <3>3. w.args = <<>>
        BY <2>4 DEF WrittenOut
      <3>4. PlausibleSizes(w) = {}
        BY <3>3 DEF PlausibleSizes
      <3> QED
        BY <2>2, <2>3, <3>2, <3>4
    <2>5. CASE ~Indirect(n, nodes)
      <3>1. /\ DOMAIN w.args = DOMAIN n.args /\ DOMAIN n.args = 1..Len(n.args) /\ Len(n.args) \in Nat
            /\ \A i \in DOMAIN n.args : w.args[i] = Substituted(n.args[i], nodes)
        BY <2>5, ArgumentsOf, SeqFacts
      <3>2. \A i \in DOMAIN n.args : n.args[i].is # "name" => w.args[i] = n.args[i]
        BY <3>1, SubstitutedIs
      <3>3. \A i \in PlausibleSizes(w) : n.args[i].is # "name"
        BY <1>4, <2>5 DEF Folded, Literal, PlausibleSizes
      <3>4. \A i \in PlausibleSizes(n) : i \in PlausibleSizes(w) /\ w.args[i] = n.args[i]
        BY <3>1, <3>2 DEF PlausibleSizes
      <3>5. \A i \in PlausibleSizes(w) : i \in PlausibleSizes(n)
        BY <3>1, <3>2, <3>3 DEF PlausibleSizes
      <3>6. PlausibleSizes(w) = PlausibleSizes(n)
        BY <3>4, <3>5
      <3>7. PlausibleSizes(n) # {} => FirstOf(PlausibleSizes(n)) \in PlausibleSizes(n)
        <4>1. PlausibleSizes(n) \in SUBSET Nat
          BY <3>1 DEF PlausibleSizes
        <4> QED
          BY <4>1, FirstOfFacts
      <3> QED
        BY <2>2, <2>3, <3>4, <3>6, <3>7
    <2> QED
      BY <2>4, <2>5
  <1> QED
    BY <1>2, <1>3, <1>4

(* The name of an algorithm, if no constant vies with another argument.    *)
LEMMA NameIs ==
  ASSUME NEW nodes, IsProgram(nodes), BoundOnce(nodes), NEW n, IsSeq(n.args), ~Indirect(n, nodes),
         \A i \in Folded(n, WrittenOut(n, nodes)) : \A j \in DOMAIN WrittenOut(n, nodes).args :
           Literal(WrittenOut(n, nodes).args[j]) => j = i
  PROVE  NamedAlgorithm(n, Constants(nodes)) = NamedAlgorithm(WrittenOut(n, nodes), <<>>)
  <1> DEFINE w == WrittenOut(n, nodes)
             constants == Constants(nodes)
             Strings(c) == {i \in DOMAIN c.args : c.args[i].is = "str"}
             Names_(c, cs) == {i \in DOMAIN c.args : c.args[i].is = "name" /\ Resolved(c.args[i], cs) # None}
             Named_(c, cs) == Resolved(c.args[FirstOf(Names_(c, cs))], cs)
  <1>1. \A c, cs : NamedAlgorithm(c, cs) =
          IF Strings(c) # {} THEN c.args[FirstOf(Strings(c))].v
          ELSE IF Names_(c, cs) # {} THEN IF Named_(c, cs).is = "str" THEN Named_(c, cs).v ELSE None
          ELSE None
    BY DEF NamedAlgorithm
  <1>2. /\ DOMAIN w.args = DOMAIN n.args /\ DOMAIN n.args = 1..Len(n.args) /\ Len(n.args) \in Nat
        /\ \A i \in DOMAIN n.args : w.args[i] = Substituted(n.args[i], nodes)
    BY ArgumentsOf, SeqFacts
  <1>3. \A i \in DOMAIN n.args :
          /\ n.args[i].is # "name" => w.args[i] = n.args[i]
          /\ n.args[i].is = "name" => (Literal(w.args[i]) <=> Resolved(n.args[i], constants) # None)
          /\ Literal(w.args[i]) => Resolved(n.args[i], constants) = w.args[i]
    BY <1>2, SubstitutedIs
  <1>4. \A c : Names_(c, <<>>) = {}
    <2>1. \A e : e.is = "name" => Resolved(e, <<>>) = None
      BY DEF Resolved, Literal
    <2> QED
      BY <2>1
  <1>5. \A i \in Folded(n, w), j \in DOMAIN w.args : Literal(w.args[j]) => j = i
    OBVIOUS
  <1>6. Names_(n, constants) = Folded(n, w)
    BY <1>2, <1>3 DEF Folded
  <1>7. PICK s : s = Strings(n)
    OBVIOUS
  <1>8. PICK t : t = Strings(w)
    OBVIOUS
  <1>9. s \in SUBSET Nat /\ t \in SUBSET Nat
    BY <1>2, <1>7, <1>8
  <1> HIDE DEF w, constants
  <1>10. CASE Folded(n, w) = {}
    <2>1. \A i \in s : i \in t /\ w.args[i] = n.args[i]
      BY <1>2, <1>3, <1>7, <1>8
    <2>2. t \subseteq s
      BY <1>2, <1>3, <1>8, <1>7, <1>10 DEF Folded, Literal
    <2>3. s = t
      BY <2>1, <2>2
    <2>4. s # {} => FirstOf(s) \in s
      BY <1>9, FirstOfFacts
    <2>5. NamedAlgorithm(n, constants) = IF s # {} THEN n.args[FirstOf(s)].v ELSE None
      BY <1>1, <1>6, <1>7, <1>10
    <2>6. NamedAlgorithm(w, <<>>) = IF t # {} THEN w.args[FirstOf(t)].v ELSE None
      BY <1>1, <1>4, <1>8
    <2> QED
      BY <2>1, <2>3, <2>4, <2>5, <2>6 DEF w, constants
  <1>11. CASE Folded(n, w) # {}
    <2>1. PICK i \in Folded(n, w) : TRUE
      BY <1>11
    <2>2. i \in DOMAIN n.args /\ n.args[i].is = "name" /\ Literal(w.args[i])
      BY <1>2, <2>1 DEF Folded
    <2>3. Folded(n, w) = {i}
      BY <1>5, <2>1 DEF Folded
    <2>4. s = {}
      BY <1>2, <1>3, <1>5, <1>7, <2>1, <2>2 DEF Literal
    <2>5. t = IF w.args[i].is = "str" THEN {i} ELSE {}
      BY <1>2, <1>5, <1>8, <2>1, <2>2 DEF Literal
    <2>6. FirstOf({i}) = i
      BY DEF FirstOf
    <2>7. Resolved(n.args[i], constants) = w.args[i]
      BY <1>3, <2>2
    <2>8. NamedAlgorithm(n, constants) = IF w.args[i].is = "str" THEN w.args[i].v ELSE None
      BY <1>1, <1>6, <1>7, <2>3, <2>4, <2>6, <2>7
    <2>9. NamedAlgorithm(w, <<>>) = IF t # {} THEN w.args[FirstOf(t)].v ELSE None
      BY <1>1, <1>4, <1>8
    <2> QED
      BY <2>5, <2>6, <2>8, <2>9 DEF w, constants
  <1> QED
    BY <1>10, <1>11

(* What a call is pending as, by what it calls.                            *)
InFamily(name) == {i \in DOMAIN name : name[i] \in DOMAIN Families}
RuleOf(name) == CHOOSE k \in Rule(name, CallRules) : TRUE

PendsAs(p, n, name, constants) ==
  /\ Rule(name, CallRules) # {} =>
       /\ p.name = IF CallRules[RuleOf(name)] = Unnamed THEN NamedAlgorithm(n, constants)
                   ELSE CallRules[RuleOf(name)]
       /\ p.size = KeySize(n, RuleOf(name), constants)
  /\ Rule(name, CallRules) = {} =>
       /\ p.name = IF InFamily(name) = {} THEN None
                   ELSE Families[IF FamilyArgument(n.args) # {} THEN n.args[FirstOf(FamilyArgument(n.args))].v
                                 ELSE name[FirstOf(InFamily(name))]]
       /\ p.size = None

LEMMA PendingParts ==
  ASSUME NEW n, NEW aliases, NEW constants
  PROVE  PendsAs(Pending(n, aliases, constants), n, Callee(n, aliases), constants)
  BY DEF Pending, RuleOf, InFamily, PendsAs

LEMMA FullNameOfOne ==
  ASSUME NEW nodes, IsProgram(nodes), NEW x
  PROVE  FullName(<<x>>, nodes) \in Seq(Range(FullName(<<x>>, nodes)))
  <1> DEFINE imports == {y \in Range(nodes) : y.is = "import" /\ <<x>> # <<>> /\ y.name = <<x>>[1]}
             origins == {b.origin : b \in imports}
  <1>1. FullName(<<x>>, nodes) = IF origins = {} THEN <<x>> ELSE (CHOOSE o \in origins : TRUE) \o Tail(<<x>>)
    BY DEF FullName
  <1>2. IsSeq(<<x>>) /\ IsSeq(Tail(<<x>>))
    <2>1. Tail(<<x>>) = <<>>
      OBVIOUS
    <2> QED
      BY <2>1 DEF IsSeq, Range
  <1>3. \A o \in origins : IsSeq(o)
    BY DEF IsProgram, IsSeq
  <1> HIDE DEF origins
  <1>4. origins # {} => IsSeq((CHOOSE o \in origins : TRUE) \o Tail(<<x>>))
    BY <1>2, <1>3, JoinFacts
  <1> QED
    BY <1>1, <1>2, <1>4 DEF IsSeq

LEMMA LastAppended ==
  ASSUME NEW s, s \in Seq(Range(s)), NEW x
  PROVE  /\ Len(s) \in Nat /\ Len(Append(s, x)) = Len(s) + 1
         /\ DOMAIN Append(s, x) = 1..(Len(s) + 1) /\ Append(s, x)[Len(s) + 1] = x
  <1>1. s \in Seq(Range(s) \cup {x})
    BY SeqWithin DEF IsSeq
  <1> QED
    BY <1>1, AppendProperties, LenProperties

LEMMA PendingIs ==
  ASSUME NEW nodes, IsProgram(nodes), BoundOnce(nodes), NEW n, IsSeq(n.args), ReadAsWritten(n, nodes)
  PROVE  LET p == Pending(n, Aliases(nodes), Constants(nodes))
             q == Pending(WrittenOut(n, nodes), <<>>, <<>>) IN
         p.name = q.name /\ p.size = q.size
  <1> DEFINE w == WrittenOut(n, nodes)
             constants == Constants(nodes)
             name == w.fn
             rules == Rule(name, CallRules)
             rule == RuleOf(name)
             p == Pending(n, Aliases(nodes), constants)
             q == Pending(w, <<>>, <<>>)
             Unheard(i) == \/ w.args[i].is # "str"
                           \/ \E j \in 1..(i - 1) : n.args[j].is = "str"
                           \/ \A j \in DOMAIN w.args : w.args[j].is = "str" => w.args[j].v \notin DOMAIN Families
  <1>1. name = Callee(n, Aliases(nodes)) /\ name = Callee(w, <<>>)
    BY CalleeIs
  <1>2. PendsAs(p, n, name, constants) /\ PendsAs(q, w, name, <<>>)
    BY <1>1, PendingParts
  <1>4. IF Indirect(n, nodes)
        THEN IF rules = {} THEN \A i \in 1..(Len(name) - 1) : name[i] \notin DOMAIN Families
             ELSE CallRules[rule] # Unnamed /\ rule \notin DOMAIN SizeArg
        ELSE \A i \in Folded(n, w) :
               /\ ~IsGetattr(name)
               /\ IF rules = {} THEN Unheard(i)
                  ELSE /\ CallRules[rule] = Unnamed => \A j \in DOMAIN w.args : Literal(w.args[j]) => j = i
                       /\ n.size = None /\ rule \notin DOMAIN SizeArg => i \notin PlausibleSizes(w)
    <2> HIDE DEF w
    <2> QED
      BY DEF ReadAsWritten, Folded, RuleOf, w
  <1>5. CASE rules # {}
    <2>1. KeySize(n, rule, constants) = KeySize(w, rule, <<>>)
      <3>1. Indirect(n, nodes) => rule \notin DOMAIN SizeArg
        BY <1>4, <1>5
      <3>2. n.size = None /\ rule \notin DOMAIN SizeArg /\ ~Indirect(n, nodes) =>
              Folded(n, w) \cap PlausibleSizes(w) = {}
        <4> HIDE DEF w, rule, rules
        <4> QED
          BY <1>4, <1>5
      <3> QED
        BY <3>1, <3>2, SizeIs
    <2>2. CallRules[rule] = Unnamed => NamedAlgorithm(n, constants) = NamedAlgorithm(w, <<>>)
      <3> SUFFICES ASSUME CallRules[rule] = Unnamed
                   PROVE  NamedAlgorithm(n, constants) = NamedAlgorithm(w, <<>>)
        OBVIOUS
      <3>1. ~Indirect(n, nodes)
        BY <1>4, <1>5
      <3>2. \A i \in Folded(n, w) : \A j \in DOMAIN w.args : Literal(w.args[j]) => j = i
        <4> HIDE DEF w, rule, rules
        <4> QED
          BY <1>4, <1>5, <3>1
      <3> QED
        BY <3>1, <3>2, NameIs
    <2> HIDE DEF w, p, q, constants
    <2> QED
      BY <1>2, <1>5, <2>1, <2>2 DEF p, q, w, constants, PendsAs
  <1>6. CASE rules = {} /\ ~Indirect(n, nodes)
    <2>1. PICK s : s = FamilyArgument(n.args)
      OBVIOUS
    <2>2. /\ DOMAIN w.args = DOMAIN n.args /\ DOMAIN n.args = 1..Len(n.args) /\ Len(n.args) \in Nat
          /\ \A i \in DOMAIN n.args : w.args[i] = Substituted(n.args[i], nodes)
      BY <1>6, ArgumentsOf, SeqFacts
    <2>3. \A i \in DOMAIN n.args : n.args[i].is # "name" => w.args[i] = n.args[i]
      BY <2>2, SubstitutedIs
    <2>4. \A i \in Folded(n, w) : Unheard(i)
      <3> HIDE DEF w, rules, Unheard
      <3> QED
        BY <1>4, <1>6
    <2> HIDE DEF w
    <2>5. \A i \in s : w.args[i] = n.args[i]
      BY <2>1, <2>3 DEF FamilyArgument
    <2>6. FamilyArgument(w.args) = s
      <3>1. \A i \in DOMAIN n.args : w.args[i].is = "str" =>
              \/ n.args[i].is = "str" /\ w.args[i] = n.args[i]
              \/ i \in Folded(n, w)
        BY <2>2, <2>3 DEF Folded, Literal
      <3>2. \A i \in DOMAIN n.args : \A j \in 1..(i - 1) : j \in DOMAIN n.args
        BY <2>2
      <3>3. \A i \in DOMAIN n.args : n.args[i].is = "str" => w.args[i] = n.args[i]
        BY <2>3
      <3>4. ASSUME NEW i \in DOMAIN n.args, i \in FamilyArgument(w.args)
            PROVE  i \in s
        <4>1. /\ w.args[i].is = "str" /\ w.args[i].v \in DOMAIN Families
              /\ \A j \in 1..(i - 1) : w.args[j].is # "str"
          BY <3>4 DEF FamilyArgument
        <4>2. \A j \in 1..(i - 1) : n.args[j].is # "str"
          BY <4>1, <3>2, <3>3
        <4>3. n.args[i].is = "str" /\ w.args[i] = n.args[i]
          BY <4>1, <4>2, <3>1, <2>2, <2>4
        <4> QED
          BY <4>1, <4>2, <4>3, <2>1 DEF FamilyArgument
      <3>5. ASSUME NEW i \in s
            PROVE  i \in FamilyArgument(w.args)
        <4>1. /\ i \in DOMAIN n.args /\ n.args[i].is = "str" /\ n.args[i].v \in DOMAIN Families
              /\ \A j \in 1..(i - 1) : n.args[j].is # "str"
          BY <2>1, <3>5 DEF FamilyArgument
        <4>2. w.args[i] = n.args[i]
          BY <4>1, <3>3
        <4>3. ASSUME NEW j \in 1..(i - 1), w.args[j].is = "str"
              PROVE  FALSE
          <5>1. j \in DOMAIN n.args /\ n.args[j].is # "str"
            BY <4>1, <3>2
          <5>2. Unheard(j)
            BY <4>3, <5>1, <3>1, <2>4
          <5>3. \A k \in 1..(j - 1) : k \in 1..(i - 1)
            BY <4>1, <2>2
          <5> QED
            BY <4>1, <4>2, <4>3, <5>2, <5>3, <2>2
        <4> QED
          BY <4>1, <4>2, <4>3, <2>2 DEF FamilyArgument
      <3>6. FamilyArgument(w.args) \subseteq DOMAIN n.args
        BY <2>2 DEF FamilyArgument
      <3> QED
        BY <3>4, <3>5, <3>6
    <2>7. s # {} => FirstOf(s) \in s
      <3>1. s \in SUBSET Nat
        BY <2>1, <2>2 DEF FamilyArgument
      <3> QED
        BY <3>1, FirstOfFacts
    <2> HIDE DEF p, q, constants
    <2> QED
      BY <1>2, <1>6, <2>1, <2>5, <2>6, <2>7 DEF w, p, q, constants, PendsAs
  <1>7. CASE rules = {} /\ Indirect(n, nodes)
    <2>1. /\ DOMAIN n.args = 1..2 /\ n.args[1].is = "name" /\ n.args[2].is = "str"
      BY <1>7, SeqFacts DEF Indirect
    <2>2. PICK v : v = n.args[2].v
      OBVIOUS
    <2>3. PICK base : base = FullName(<<n.args[1].v>>, nodes)
      OBVIOUS
    <2>4. w.args = <<>> /\ name = Append(base, v)
      BY <1>7, <2>2, <2>3 DEF WrittenOut
    <2>5. FamilyArgument(w.args) = {}
      BY <2>4 DEF FamilyArgument
    <2>6. FamilyArgument(n.args) = IF v \in DOMAIN Families THEN {2} ELSE {}
      <3>1. 1..(2 - 1) = {1} /\ n.args[1].is # "str"
        BY <2>1
      <3>2. 2 \in FamilyArgument(n.args) <=> v \in DOMAIN Families
        BY <2>1, <2>2, <3>1 DEF FamilyArgument
      <3>3. \A i \in FamilyArgument(n.args) : i = 2
        BY <2>1, <3>1 DEF FamilyArgument
      <3> QED
        BY <3>2, <3>3
    <2>7. \A i \in 1..(Len(name) - 1) : name[i] \notin DOMAIN Families
      BY <1>4, <1>7
    <2>8. base \in Seq(Range(base))
      BY <2>3, FullNameOfOne
    <2>9. Len(base) \in Nat /\ Len(name) = Len(base) + 1 /\ DOMAIN name = 1..(Len(base) + 1) /\ name[Len(base) + 1] = v
      BY <2>4, <2>8, LastAppended
    <2>10. v \in DOMAIN Families => InFamily(name) = {Len(base) + 1}
      BY <2>7, <2>9 DEF InFamily
    <2>11. v \notin DOMAIN Families => InFamily(name) = {}
      BY <2>7, <2>9 DEF InFamily
    <2>12. \A k : FirstOf({k}) = k
      BY DEF FirstOf
    <2> HIDE DEF w, name, p, q, constants
    <2>13. CASE v \in DOMAIN Families
      <3>1. n.args[FirstOf(FamilyArgument(n.args))].v = v /\ FamilyArgument(n.args) # {}
        BY <2>2, <2>6, <2>12, <2>13
      <3>2. name[FirstOf(InFamily(name))] = v /\ InFamily(name) # {}
        BY <2>9, <2>10, <2>12, <2>13
      <3>3. p.name = Families[v] /\ p.size = None
        BY <1>2, <1>7, <3>1, <3>2 DEF PendsAs
      <3>4. q.name = Families[v] /\ q.size = None
        BY <1>2, <1>7, <2>5, <3>2 DEF PendsAs
      <3> QED
        BY <3>3, <3>4 DEF p, q, constants, w
    <2>14. CASE v \notin DOMAIN Families
      BY <1>2, <1>7, <2>5, <2>6, <2>11, <2>14 DEF p, q, constants, w, PendsAs
    <2> QED
      BY <2>13, <2>14
  <1> QED
    BY <1>5, <1>6, <1>7

(* The findings of a file are its calls that are pending as something.     *)
LEMMA PythonRows ==
  ASSUME NEW id, NEW nodes, IsSeq(nodes)
  PROVE  LET P(n) == Pending(n, Aliases(nodes), Constants(nodes))
             Says(a, n) == a.place[3] = n.line /\ a.name = P(n).name /\ a.size = P(n).size
             found == {n \in Range(nodes) : n.is = "call" /\ P(n).name # None}
             all == Range(PythonFindings(id, nodes)) IN
         /\ \A n \in found : \E a \in all : Says(a, n)
         /\ \A a \in all : \E n \in found : Says(a, n)
  <1> DEFINE P(n) == Pending(n, Aliases(nodes), Constants(nodes))
             Says(a, n) == a.place[3] = n.line /\ a.name = P(n).name /\ a.size = P(n).size
             walk == Walked(nodes)
             called == {i \in DOMAIN walk : walk[i].is = "call"}
             calls == Chosen(walk, called)
             kept == {i \in DOMAIN calls : P(calls[i]).name # None}
             pending == Chosen(calls, kept)
             all == PythonFindings(id, nodes)
             found == {n \in Range(nodes) : n.is = "call" /\ P(n).name # None}
  <1>1. IsSeq(walk) /\ Range(walk) = Range(nodes)
    BY WalkedFacts
  <1> HIDE DEF walk, called
  <1>2. IsSeq(calls) /\ \A x : x \in Range(calls) <=> \E i \in DOMAIN walk \cap called : x = walk[i]
    BY <1>1, ChosenFacts
  <1>3. \A x : x \in Range(calls) <=> x \in Range(nodes) /\ x.is = "call"
    BY <1>1, <1>2 DEF called, Range
  <1> HIDE DEF calls, kept
  <1>4. IsSeq(pending) /\ \A x : x \in Range(pending) <=> \E i \in DOMAIN calls \cap kept : x = calls[i]
    BY <1>2, ChosenFacts
  <1>5. \A x : x \in Range(pending) <=> x \in Range(calls) /\ P(x).name # None
    BY <1>4 DEF kept, Range
  <1>6. Range(pending) = found
    BY <1>3, <1>5
  <1>7. /\ DOMAIN all = DOMAIN pending
        /\ \A i \in DOMAIN pending : \E mode, provider :
             all[i] = Observed(id, pending[i].line, P(pending[i]).name, P(pending[i]).size, mode, provider, "python-ast")
    BY DEF PythonFindings, pending, kept, calls, called, walk
  <1> HIDE DEF pending, all, P
  <1>8. \A i \in DOMAIN pending : Says(all[i], pending[i])
    BY <1>7 DEF Observed
  <1>9. \A n \in found : \E a \in Range(all) : Says(a, n)
    BY <1>6, <1>7, <1>8 DEF Range
  <1>10. \A a \in Range(all) : \E n \in found : Says(a, n)
    <2> TAKE a \in Range(all)
    <2>1. PICK i \in DOMAIN pending : a = all[i]
      BY <1>7 DEF Range
    <2>2. pending[i] \in found
      BY <1>6, <2>1 DEF Range
    <2> QED
      BY <1>8, <2>1, <2>2
  <1> QED
    BY <1>9, <1>10 DEF all, P

LEMMA PythonIsShown ==
  ASSUME NEW f, IsProgram(f.nodes), BoundOnce(f.nodes), FoundIn(f) = Range(PythonFindings(f.id, f.nodes))
  PROVE  PythonShown(f)
  <1> DEFINE nodes == f.nodes
             P(n) == Pending(n, Aliases(nodes), Constants(nodes))
             plain(n) == Pending(WrittenOut(n, nodes), <<>>, <<>>)
             Says(a, n) == a.place[3] = n.line /\ a.name = P(n).name /\ a.size = P(n).size
             calls == {n \in Range(nodes) : n.is = "call"}
             alike == {n \in calls : ReadAsWritten(n, nodes)}
             found == {n \in Range(nodes) : n.is = "call" /\ P(n).name # None}
  <1>1. /\ \A n \in found : \E a \in FoundIn(f) : Says(a, n)
        /\ \A a \in FoundIn(f) : \E n \in found : Says(a, n)
    BY PythonRows DEF IsProgram, IsSeq
  <1>2. \A n \in alike : P(n).name = plain(n).name /\ P(n).size = plain(n).size
    <2> TAKE n \in alike
    <2>1. IsSeq(n.args) /\ ReadAsWritten(n, nodes)
      BY DEF IsProgram, IsSeq
    <2> QED
      BY <2>1, PendingIs
  <1> HIDE DEF P, plain
  <1>3. /\ \A n \in alike : plain(n).name # None =>
             \E a \in FoundIn(f) : a.place[3] = n.line /\ a.name = plain(n).name /\ a.size = plain(n).size
        /\ \A a \in FoundIn(f) : \E n \in calls :
             a.place[3] = n.line /\ (n \in alike => a.name = plain(n).name /\ a.size = plain(n).size)
    BY <1>1, <1>2
  <1> QED
    BY <1>3 DEF PythonShown, plain

-----------------------------------------------------------------------------
(* Comments, as the scanner finds them and as a reader of one character at *)
(* a time does.                                                            *)

(* What a reader makes of a character.                                     *)
LEMMA LexedCode ==
  ASSUME NEW s, s[1] \in {"code", "slash"}, NEW c
  PROVE  /\ c = "#" => Lexed(s, c)[1] = "line"
         /\ s[1] = "code" /\ c = "/" => Lexed(s, c)[1] = "slash"
         /\ s[1] = "slash" /\ c = "/" => Lexed(s, c)[1] = "line"
         /\ s[1] = "slash" /\ c = "*" => Lexed(s, c)[1] = "block"
         /\ c \in Quotes => Lexed(s, c) = <<"string", c>>
         /\ c \notin Quotes \cup {"#", "/"} /\ (s[1] = "slash" => c # "*") => Lexed(s, c)[1] = "code"
  BY DEF Lexed, Quotes

LEMMA LexedString ==
  ASSUME NEW s, NEW c
  PROVE  /\ s[1] = "string" /\ c = "\\" => Lexed(s, c) = <<"escape", s[2]>>
         /\ s[1] = "string" /\ c \in {s[2], "\n"} /\ c # "\\" => Lexed(s, c)[1] = "code"
         /\ s[1] = "string" /\ c \notin {s[2], "\n", "\\"} => Lexed(s, c) = s
         /\ s[1] = "escape" => Lexed(s, c) = <<"string", s[2]>>
  BY DEF Lexed

LEMMA LexedComment ==
  ASSUME NEW s, NEW c
  PROVE  /\ s[1] = "line" /\ c = "\n" => Lexed(s, c)[1] = "code"
         /\ s[1] = "line" /\ c # "\n" => Lexed(s, c)[1] = "line"
         /\ s[1] \in {"block", "star"} /\ c = "*" => Lexed(s, c)[1] = "star"
         /\ s[1] = "star" /\ c = "/" => Lexed(s, c)[1] = "code"
         /\ s[1] \in {"block", "star"} /\ c # "*" /\ (s[1] = "star" => c # "/") => Lexed(s, c)[1] = "block"
  BY DEF Lexed

(* Where the reader is behind each character, up to the n-th.              *)
AtStart == <<"code", "">>
ReadsTo(st, text, n) == st = [i \in 0..n |-> IF i = 0 THEN AtStart ELSE Lexed(st[i - 1], text[i])]
Reads(st, text) == ReadsTo(st, text, Len(text))

LEMMA LexerUnfolds ==
  ASSUME NEW text
  PROVE  LexerState(text) = CHOOSE st : Reads(st, text)
  BY DEF LexerState, Reads, ReadsTo, AtStart

LEMMA ReadsToExists ==
  ASSUME NEW text
  PROVE  \A n \in Nat : \E st : ReadsTo(st, text, n)
  <1> DEFINE Bad == {n \in Nat : ~\E st : ReadsTo(st, text, n)}
  <1> SUFFICES ASSUME Bad # {} PROVE FALSE
    OBVIOUS
  <1>1. PICK n \in Bad : \A j \in Bad : n <= j
    BY FirstNumber
  <1>2. n # 0
    <2>1. ReadsTo([k \in 0..0 |-> AtStart], text, 0)
      BY DEF ReadsTo
    <2> QED
      BY <1>1, <2>1
  <1>3. n - 1 \in Nat /\ n - 1 \notin Bad
    BY <1>1, <1>2
  <1>4. PICK h : ReadsTo(h, text, n - 1)
    BY <1>3
  <1> DEFINE Step(g, k) == IF k = 0 THEN AtStart ELSE Lexed(g[k - 1], text[k])
             g == [k \in 0..n |-> IF k < n THEN h[k] ELSE Step(h, k)]
  <1>5. ASSUME NEW k \in 0..n
        PROVE  g[k] = Step(g, k)
    <2>1. CASE k = n
      BY <2>1, <1>1, <1>2
    <2>2. CASE k < n
      <3>1. k \in 0..(n - 1) /\ (k # 0 => k - 1 \in 0..(n - 1))
        BY <2>2, <1>1
      <3>2. h[k] = Step(h, k)
        BY <3>1, <1>4 DEF ReadsTo
      <3>3. g[k] = h[k] /\ (k # 0 => g[k - 1] = h[k - 1])
        BY <3>1, <2>2, <1>1
      <3> QED
        BY <3>2, <3>3
    <2> QED
      BY <2>1, <2>2, <1>1
  <1>6. g = [k \in 0..n |-> g[k]]
    OBVIOUS
  <1> HIDE DEF g
  <1>7. g = [k \in 0..n |-> Step(g, k)]
    BY <1>5, <1>6, Zenon
  <1>8. ReadsTo(g, text, n)
    BY <1>7 DEF ReadsTo
  <1> QED
    BY <1>1, <1>8

LEMMA ReaderReads ==
  ASSUME NEW text, IsSeq(text)
  PROVE  Reads(LexerState(text), text)
  <1>1. Len(text) \in Nat
    BY SeqFacts
  <1>2. \E st : Reads(st, text)
    BY <1>1, ReadsToExists DEF Reads
  <1> QED
    BY <1>2, LexerUnfolds

LEMMA ReadsFacts ==
  ASSUME NEW text, IsSeq(text), NEW st, Reads(st, text)
  PROVE  st[0][1] = "code" /\ \A i \in 1..Len(text) : st[i] = Lexed(st[i - 1], text[i])
  <1>1. Len(text) \in Nat
    BY SeqFacts
  <1>2. PICK n \in Nat : n = Len(text)
    BY <1>1
  <1>3. st[0] = AtStart /\ \A i \in 1..n : st[i] = Lexed(st[i - 1], text[i])
    BY <1>2 DEF Reads, ReadsTo
  <1>4. AtStart[1] = "code"
    BY DEF AtStart
  <1> QED
    BY <1>2, <1>3, <1>4

(* A comment to the end of the line.                                       *)
LEMMA LineRun ==
  ASSUME NEW text, IsSeq(text), NEW st, Reads(st, text),
         NEW a \in 0..Len(text), NEW e \in Nat, e <= Len(text) + 1, st[a][1] = "line",
         \A k \in (a + 1)..(e - 1) : text[k] # "\n"
  PROVE  \A k \in a..(e - 1) : st[k][1] = "line"
  <1> DEFINE Bad == {k \in a..(e - 1) : st[k][1] # "line"}
  <1> SUFFICES ASSUME Bad # {} PROVE FALSE
    OBVIOUS
  <1>1. Len(text) \in Nat /\ a \in Nat
    BY SeqFacts
  <1>2. PICK k \in Bad : \A j \in Bad : k <= j
    <2>1. Bad \in SUBSET Nat
      BY <1>1
    <2> HIDE DEF Bad
    <2> QED
      BY <2>1, FirstNumber
  <1>3. k # a /\ k \in (a + 1)..(e - 1) /\ k - 1 \in a..(e - 1) /\ ~(k <= k - 1) /\ k \in 1..Len(text)
    BY <1>1, <1>2
  <1>4. st[k - 1][1] = "line"
    BY <1>2, <1>3
  <1>5. st[k] = Lexed(st[k - 1], text[k])
    BY <1>3, ReadsFacts
  <1> QED
    BY <1>2, <1>3, <1>4, <1>5, LexedComment

(* A comment to the star and the slash that end it.                        *)
LEMMA BlockRun ==
  ASSUME NEW text, IsSeq(text), NEW st, Reads(st, text),
         NEW a \in 0..Len(text), NEW e \in Nat, e <= Len(text) + 1, st[a][1] = "block",
         \A j \in (a + 3)..(e - 1) : ~(text[j - 2] = "*" /\ text[j - 1] = "/")
  PROVE  /\ \A k \in a..(e - 2) : st[k][1] \in {"block", "star"}
         /\ e >= a + 3 /\ text[e - 2] = "*" /\ text[e - 1] = "/" => st[e - 1][1] = "code"
  <1> DEFINE Ok(k) == st[k][1] \in {"block", "star"} /\ (st[k][1] = "star" => k > a /\ text[k] = "*")
             Bad == {k \in a..(e - 2) : ~Ok(k)}
  <1>1. Len(text) \in Nat /\ a \in Nat
    BY SeqFacts
  <1>2. Bad = {}
    <2> SUFFICES ASSUME Bad # {} PROVE FALSE
      OBVIOUS
    <2>1. PICK k \in Bad : \A j \in Bad : k <= j
      <3>1. Bad \in SUBSET Nat
        BY <1>1
      <3> HIDE DEF Bad
      <3> QED
        BY <3>1, FirstNumber
    <2>2. k # a
      BY <2>1
    <2>3. k \in (a + 1)..(e - 2) /\ k - 1 \in a..(e - 2) /\ ~(k <= k - 1) /\ k \in 1..Len(text)
      BY <1>1, <2>1, <2>2
    <2>4. Ok(k - 1)
      BY <2>1, <2>3
    <2>5. st[k] = Lexed(st[k - 1], text[k])
      BY <2>3, ReadsFacts
    <2>6. CASE text[k] = "*"
      BY <2>1, <2>2, <2>3, <2>4, <2>5, <2>6, LexedComment
    <2>7. CASE text[k] # "*"
      <3>1. st[k - 1][1] = "star" => text[k] # "/"
        <4> SUFFICES ASSUME st[k - 1][1] = "star", text[k] = "/" PROVE FALSE
          OBVIOUS
        <4>1. k - 1 > a /\ text[k - 1] = "*"
          BY <2>4
        <4>2. k + 1 \in (a + 3)..(e - 1) /\ (k + 1) - 2 = k - 1 /\ (k + 1) - 1 = k
          BY <1>1, <2>3, <4>1
        <4> QED
          BY <4>1, <4>2
      <3>2. st[k][1] = "block"
        BY <2>4, <2>5, <2>7, <3>1, LexedComment
      <3> QED
        BY <2>1, <3>2
    <2> QED
      BY <2>6, <2>7
  <1>3. \A k \in a..(e - 2) : Ok(k)
    BY <1>2
  <1>4. ASSUME e >= a + 3, text[e - 2] = "*", text[e - 1] = "/"
        PROVE  st[e - 1][1] = "code"
    <2>1. e - 3 \in a..(e - 2) /\ e - 2 \in 1..Len(text) /\ e - 1 \in 1..Len(text)
          /\ (e - 2) - 1 = e - 3 /\ (e - 1) - 1 = e - 2
      BY <1>1, <1>4
    <2>2. st[e - 2] = Lexed(st[e - 3], text[e - 2]) /\ st[e - 1] = Lexed(st[e - 2], text[e - 1])
      BY <2>1, ReadsFacts
    <2>3. st[e - 3][1] \in {"block", "star"}
      BY <1>3, <2>1
    <2>4. st[e - 2][1] = "star"
      BY <1>4, <2>2, <2>3, LexedComment
    <2> QED
      BY <1>4, <2>2, <2>4, LexedComment
  <1> QED
    BY <1>3, <1>4
(* Behind a string.                                                        *)
InString(s, q) == s[1] = "string" /\ s[2] = q
InEscape(s, q) == s[1] = "escape" /\ s[2] = q

LEMMA StringStep ==
  ASSUME NEW s, NEW c, NEW q
  PROVE  /\ InString(s, q) /\ c = "\\" => InEscape(Lexed(s, c), q)
         /\ InString(s, q) /\ c # "\\" /\ c \in {q, "\n"} => Lexed(s, c)[1] = "code"
         /\ InString(s, q) /\ c # "\\" /\ c \notin {q, "\n"} => InString(Lexed(s, c), q)
         /\ InEscape(s, q) => InString(Lexed(s, c), q)
  <1>1. InEscape(<<"escape", s[2]>>, s[2]) /\ InString(<<"string", s[2]>>, s[2])
    BY DEF InString, InEscape
  <1>2. ASSUME InString(s, q), c = "\\" PROVE InEscape(Lexed(s, c), q)
    <2>1. s[1] = "string" /\ s[2] = q
      BY <1>2 DEF InString
    <2>2. Lexed(s, c) = <<"escape", s[2]>>
      BY <2>1, <1>2, LexedString, Zenon
    <2> QED
      BY <2>1, <2>2, <1>1, Zenon
  <1>3. ASSUME InString(s, q), c # "\\", c \in {q, "\n"} PROVE Lexed(s, c)[1] = "code"
    <2>1. s[1] = "string" /\ s[2] = q
      BY <1>3, Zenon DEF InString
    <2> QED
      BY <2>1, <1>3, LexedString, Zenon
  <1>4. ASSUME InString(s, q), c # "\\", c \notin {q, "\n"} PROVE InString(Lexed(s, c), q)
    <2>1. s[1] = "string" /\ s[2] = q
      BY <1>4, Zenon DEF InString
    <2>2. c \notin {s[2], "\n", "\\"}
      BY <2>1, <1>4, Zenon
    <2>3. Lexed(s, c) = s
      BY <2>1, <2>2, LexedString, Zenon
    <2> QED
      BY <1>4, <2>3, Zenon
  <1>5. ASSUME InEscape(s, q) PROVE InString(Lexed(s, c), q)
    <2>1. s[1] = "escape" /\ s[2] = q
      BY <1>5, Zenon DEF InEscape
    <2>2. Lexed(s, c) = <<"string", s[2]>>
      BY <2>1, LexedString, Zenon
    <2> QED
      BY <2>1, <2>2, <1>1, Zenon
  <1> QED
    BY <1>2, <1>3, <1>4, <1>5, Zenon

BehindStep(h, text, i, j) ==
  IF j > Len(text) THEN j
  ELSE IF text[j] = "\\" THEN h[j + 2]
  ELSE IF text[j] \in {text[i], "\n"} THEN j + 1
  ELSE h[j + 1]
BehindFrom(h, text, i, m) == h = [j \in m..(Len(text) + 2) |-> BehindStep(h, text, i, j)]

LEMMA StringEndUnfolds ==
  ASSUME NEW text, NEW i
  PROVE  StringEnd(text, i) = (CHOOSE h : BehindFrom(h, text, i, i + 1))[i + 1]
  BY Zenon DEF StringEnd, BehindFrom, BehindStep

LEMMA BehindStepOf ==
  ASSUME NEW text, NEW i, NEW j, NEW h
  PROVE  /\ j > Len(text) => BehindStep(h, text, i, j) = j
         /\ ~(j > Len(text)) /\ text[j] = "\\" => BehindStep(h, text, i, j) = h[j + 2]
         /\ ~(j > Len(text)) /\ text[j] # "\\" /\ text[j] \in {text[i], "\n"} => BehindStep(h, text, i, j) = j + 1
         /\ ~(j > Len(text)) /\ text[j] # "\\" /\ text[j] \notin {text[i], "\n"} => BehindStep(h, text, i, j) = h[j + 1]
  BY Zenon DEF BehindStep

LEMMA BehindStepAgrees ==
  ASSUME NEW text, NEW i, NEW j, NEW h, NEW g,
         ~(j > Len(text)) => h[j + 1] = g[j + 1] /\ h[j + 2] = g[j + 2]
  PROVE  BehindStep(h, text, i, j) = BehindStep(g, text, i, j)
  BY Zenon DEF BehindStep

LEMMA BehindExists ==
  ASSUME NEW text, IsSeq(text), NEW i
  PROVE  \A k \in Nat : \E h : BehindFrom(h, text, i, Len(text) + 3 - k)
  <1> DEFINE Bad == {k \in Nat : ~\E h : BehindFrom(h, text, i, Len(text) + 3 - k)}
  <1> SUFFICES ASSUME Bad # {} PROVE FALSE
    OBVIOUS
  <1>1. PICK k \in Bad : \A j \in Bad : k <= j
    BY FirstNumber
  <1>n. PICK n \in Nat : n = Len(text)
    BY SeqFacts
  <1>2. k # 0
    <2>1. (n + 3)..(n + 2) = {}
      BY <1>n
    <2>2. n + 3 - 0 = n + 3
      BY <1>n
    <2> DEFINE h == [j \in {} |-> 0]
    <2>3. h = [j \in {} |-> BehindStep(h, text, i, j)]
      OBVIOUS
    <2>4. BehindFrom(h, text, i, n + 3 - 0)
      BY <2>1, <2>2, <2>3, <1>n DEF BehindFrom
    <2> QED
      BY <1>1, <1>n, <2>4
  <1>3. k - 1 \in Nat /\ k - 1 \notin Bad
    <2>1. k \in Nat
      BY <1>1
    <2>2. k - 1 \in Nat /\ ~(k <= k - 1)
      BY <2>1, <1>2
    <2> HIDE DEF Bad
    <2> QED
      BY <1>1, <2>2
  <1>m. PICK m \in Int : m = n + 3 - k /\ m + 1 = n + 3 - (k - 1) /\ m <= n + 2
    <2>1. k \in Nat
      BY <1>1
    <2>2. n + 3 - k \in Int /\ (n + 3 - k) + 1 = n + 3 - (k - 1) /\ n + 3 - k <= n + 2
      BY <2>1, <1>n, <1>2
    <2> HIDE DEF Bad
    <2> QED
      BY <2>2
  <1>4. PICK h : BehindFrom(h, text, i, m + 1)
    BY <1>3, <1>n, <1>m
  <1>5. h = [j \in (m + 1)..(n + 2) |-> BehindStep(h, text, i, j)]
    BY <1>4, <1>n DEF BehindFrom
  <1> DEFINE g == [j \in m..(n + 2) |-> IF j > m THEN h[j] ELSE BehindStep(h, text, i, j)]
  <1>6. ASSUME NEW j \in m..(n + 2)
        PROVE  g[j] = BehindStep(g, text, i, j)
    <2>1. g[j] = BehindStep(h, text, i, j)
      <3>1. j > m => j \in (m + 1)..(n + 2)
        BY <1>n, <1>m
      <3>2. j > m => h[j] = BehindStep(h, text, i, j)
        BY <1>5, <3>1
      <3> QED
        BY <3>2
    <2>2. ~(j > n) => h[j + 1] = g[j + 1] /\ h[j + 2] = g[j + 2]
      BY <1>n, <1>m
    <2> HIDE DEF g
    <2>3. BehindStep(h, text, i, j) = BehindStep(g, text, i, j)
      BY <2>2, <1>n, BehindStepAgrees
    <2> QED
      BY <2>1, <2>3
  <1>7. g = [j \in m..(n + 2) |-> g[j]]
    OBVIOUS
  <1> HIDE DEF g
  <1>8. g = [j \in m..(n + 2) |-> BehindStep(g, text, i, j)]
    BY <1>6, <1>7, Zenon
  <1>9. BehindFrom(g, text, i, Len(text) + 3 - k)
    BY <1>8, <1>n, <1>m DEF BehindFrom
  <1> QED
    BY <1>1, <1>9

(* What lies before the end of a string from j on, and what it ends in.    *)
Through(st, n, j, e) ==
  /\ \A k \in (j - 1)..(e - 2) : k <= n => st[k][1] \in {"string", "escape"}
  /\ e <= n => st[e - 1][1] = "code"
EndsAt(st, n, q, j, e) ==
  /\ e \in j..(n + 2)
  /\ j <= n + 1 /\ InString(st[j - 1], q) => Through(st, n, j, e)

LEMMA StringRun ==
  ASSUME NEW text, IsSeq(text), NEW st, Reads(st, text), NEW i \in 1..Len(text), InString(st[i], text[i])
  PROVE  EndsAt(st, Len(text), text[i], i + 1, StringEnd(text, i))
  <1>n. PICK n \in Nat : n = Len(text)
    BY SeqFacts
  <1>q. PICK q : q = text[i]
    OBVIOUS
  <1>1. PICK h : h = CHOOSE g : BehindFrom(g, text, i, i + 1)
    OBVIOUS
  <1>2. BehindFrom(h, text, i, i + 1)
    <2>1. n + 2 - i \in Nat /\ n + 3 - (n + 2 - i) = i + 1
      BY <1>n
    <2> QED
      BY <2>1, <1>1, <1>n, BehindExists
  <1>3. StringEnd(text, i) = h[i + 1]
    BY <1>1, StringEndUnfolds
  <1>4. \A j \in (i + 1)..(n + 2) : h[j] = BehindStep(h, text, i, j)
    BY <1>2, <1>n DEF BehindFrom
  <1> DEFINE Ok(j) == EndsAt(st, n, q, j, h[j])
             Bad == {k \in 0..(n + 1 - i) : ~Ok(n + 2 - k)}
  <1>5. Bad = {}
    <2> SUFFICES ASSUME Bad # {} PROVE FALSE
      OBVIOUS
    <2>1. PICK k \in Bad : \A x \in Bad : k <= x
      <3>1. Bad \in SUBSET Nat
        BY <1>n
      <3> HIDE DEF Bad
      <3> QED
        BY <3>1, FirstNumber
    <2>2. PICK j \in (i + 1)..(n + 2) : j = n + 2 - k
      BY <2>1, <1>n
    <2>3. \A x \in (j + 1)..(n + 2) : Ok(x)
      <3> SUFFICES ASSUME NEW x \in (j + 1)..(n + 2) PROVE Ok(x)
        OBVIOUS
      <3>1. n + 2 - x \in 0..(n + 1 - i) /\ n + 2 - (n + 2 - x) = x /\ ~(k <= n + 2 - x)
        BY <2>1, <2>2, <1>n
      <3> QED
        BY <2>1, <3>1
    <2>4. ~Ok(j)
      BY <2>1, <2>2
    <2> HIDE DEF Ok
    <2>5. h[j] = BehindStep(h, text, i, j)
      BY <1>4
    <2>6. CASE j > n
      <3>1. h[j] = j
        BY <2>5, <2>6, <1>n, BehindStepOf
      <3>2. j \in Nat /\ j \in j..(n + 2) /\ ~(j <= n)
        BY <1>n, <2>6
      <3>3. j <= n + 1 => \A x \in (j - 1)..(j - 2) : FALSE
        BY <3>2
      <3>4. j <= n + 1 => Through(st, n, j, j)
        BY <3>2, <3>3 DEF Through
      <3> QED
        BY <2>4, <3>1, <3>2, <3>4 DEF Ok, EndsAt
    <2>7. CASE ~(j > n)
      <3>1. j \in 1..n /\ j + 1 \in (j + 1)..(n + 2) /\ j + 2 \in (j + 1)..(n + 2) /\ j - 1 \in 0..n
            /\ (j + 1) - 1 = j /\ (j + 2) - 1 = j + 1 /\ j \in Nat
        BY <1>n, <2>7
      <3>2. st[j] = Lexed(st[j - 1], text[j])
        BY <3>1, <1>n, ReadsFacts
      <3>3. j + 1 <= n => st[j + 1] = Lexed(st[j], text[j + 1])
        <4>1. j + 1 <= n => j + 1 \in 1..n
          BY <3>1, <1>n
        <4> QED
          BY <4>1, <3>1, <1>n, ReadsFacts
      <3>4. EndsAt(st, n, q, j + 1, h[j + 1]) /\ EndsAt(st, n, q, j + 2, h[j + 2])
        BY <2>3, <3>1 DEF Ok
      <3>5. CASE text[j] = "\\"
        <4>1. h[j] = h[j + 2]
          BY <2>5, <2>7, <3>5, <1>n, BehindStepOf
        <4>2. PICK e : e = h[j + 2]
          OBVIOUS
        <4>3. e \in (j + 2)..(n + 2) /\ e \in j..(n + 2) /\ e \in Nat
          BY <3>4, <4>2, <3>1, <1>n DEF EndsAt
        <4>4. ASSUME InString(st[j - 1], q)
              PROVE  Through(st, n, j, e)
          <5>1. InEscape(st[j], q)
            <6>1. PICK s, c : s = st[j - 1] /\ c = text[j]
              OBVIOUS
            <6>2. InEscape(Lexed(s, c), q)
              BY <6>1, <4>4, <3>5, StringStep, Zenon
            <6> QED
              BY <6>1, <6>2, <3>2
          <5>2. j + 1 <= n => InString(st[j + 1], q)
            BY <5>1, <3>3, StringStep
          <5>3. j + 1 <= n => Through(st, n, j + 2, e)
            <6>1. j + 1 <= n => j + 2 <= n + 1
              BY <3>1, <1>n
            <6> QED
              BY <5>2, <6>1, <3>4, <4>2, <3>1 DEF EndsAt
          <5>7. j + 1 <= n => \A x \in (j + 1)..(e - 2) : x <= n => st[x][1] \in {"string", "escape"}
            BY <5>3, <3>1 DEF Through
          <5>8. j + 1 <= n /\ e <= n => st[e - 1][1] = "code"
            BY <5>3 DEF Through
          <5>4. st[j - 1][1] \in {"string", "escape"} /\ st[j][1] \in {"string", "escape"}
            BY <4>4, <5>1 DEF InString, InEscape
          <5>5. \A x \in (j - 1)..(e - 2) : x <= n => x = j - 1 \/ x = j \/ (x \in (j + 1)..(e - 2) /\ j + 1 <= n)
            BY <3>1, <4>3, <1>n
          <5>6. e <= n => j + 1 <= n
            BY <3>1, <4>3, <1>n
          <5> QED
            BY <5>4, <5>5, <5>6, <5>7, <5>8 DEF Through
        <4> QED
          BY <2>4, <4>1, <4>2, <4>3, <4>4 DEF Ok, EndsAt
      <3>6. CASE text[j] # "\\" /\ text[j] \in {q, "\n"}
        <4>1. h[j] = j + 1
          BY <2>5, <2>7, <3>6, <1>n, <1>q, BehindStepOf
        <4>2. ASSUME InString(st[j - 1], q)
              PROVE  st[j][1] = "code" /\ st[j - 1][1] \in {"string", "escape"}
          <5>1. PICK s, c : s = st[j - 1] /\ c = text[j]
            OBVIOUS
          <5>2. Lexed(s, c)[1] = "code"
            BY <5>1, <4>2, <3>6, StringStep, Zenon
          <5> QED
            BY <5>1, <5>2, <3>2, <4>2 DEF InString
        <4>3. j + 1 \in j..(n + 2) /\ \A x \in (j - 1)..((j + 1) - 2) : x = j - 1
          BY <3>1, <1>n
        <4>4. InString(st[j - 1], q) => Through(st, n, j, j + 1)
          BY <4>2, <4>3, <3>1 DEF Through
        <4> QED
          BY <2>4, <4>1, <4>3, <4>4 DEF Ok, EndsAt
      <3>7. CASE text[j] # "\\" /\ text[j] \notin {q, "\n"}
        <4>1. h[j] = h[j + 1]
          BY <2>5, <2>7, <3>7, <1>n, <1>q, BehindStepOf
        <4>2. PICK e : e = h[j + 1]
          OBVIOUS
        <4>3. e \in (j + 1)..(n + 2) /\ e \in j..(n + 2) /\ e \in Nat
          BY <3>4, <4>2, <3>1, <1>n DEF EndsAt
        <4>4. ASSUME InString(st[j - 1], q)
              PROVE  Through(st, n, j, e)
          <5>1. InString(st[j], q)
            BY <4>4, <3>2, <3>7, StringStep
          <5>3. Through(st, n, j + 1, e)
            <6>1. j + 1 <= n + 1
              BY <3>1, <1>n
            <6> QED
              BY <5>1, <6>1, <3>4, <4>2, <3>1 DEF EndsAt
          <5>4. st[j - 1][1] \in {"string", "escape"}
            BY <4>4 DEF InString
          <5>5. \A x \in (j - 1)..(e - 2) : x = j - 1 \/ x \in j..(e - 2)
            BY <3>1, <4>3, <1>n
          <5> QED
            BY <5>3, <5>4, <5>5, <3>1 DEF Through
        <4> QED
          BY <2>4, <4>1, <4>2, <4>3, <4>4 DEF Ok, EndsAt
      <3> QED
        BY <3>5, <3>6, <3>7
    <2> QED
      BY <2>6, <2>7
  <1>6. n + 1 - i \in 0..(n + 1 - i) /\ n + 2 - (n + 1 - i) = i + 1
    BY <1>n
  <1>7. Ok(i + 1)
    BY <1>5, <1>6
  <1> QED
    BY <1>7, <1>3, <1>n, <1>q

(* The ends of the two kinds of comments.                                  *)
LEMMA FirstOrFacts ==
  ASSUME NEW S, S \in SUBSET Nat, NEW end
  PROVE  /\ FirstOr(S, end) \in S \/ (S = {} /\ FirstOr(S, end) = end)
         /\ \A j \in S : FirstOr(S, end) <= j
  <1>1. CASE S = {}
    BY <1>1 DEF FirstOr
  <1>2. CASE S # {}
    <2>1. FirstOf(S) \in S /\ \A j \in S : FirstOf(S) <= j
      BY <1>2, FirstOfFacts
    <2>2. FirstOr(S, end) = FirstOf(S)
      BY <1>2 DEF FirstOr
    <2> QED
      BY <2>1, <2>2, Zenon
  <1> QED
    BY <1>1, <1>2

LEMMA LineEndFacts ==
  ASSUME NEW text, IsSeq(text), NEW i \in 1..Len(text)
  PROVE  /\ LineEnd(text, i) \in i..(Len(text) + 1)
         /\ LineEnd(text, i) <= Len(text) => text[LineEnd(text, i)] = "\n"
         /\ \A k \in i..(LineEnd(text, i) - 1) : text[k] # "\n"
  <1>n. PICK n \in Nat : n = Len(text)
    BY SeqFacts
  <1>c. PICK c : c = "\n"
    OBVIOUS
  <1> DEFINE S == {j \in i..n : text[j] = c}
  <1>1. LineEnd(text, i) = FirstOr(S, n + 1)
    BY <1>n, <1>c, Zenon DEF LineEnd
  <1>2. S \in SUBSET Nat
    BY <1>n
  <1>3. PICK e : e = FirstOr(S, n + 1)
    OBVIOUS
  <1>4. (e \in S \/ (S = {} /\ e = n + 1)) /\ \A j \in S : e <= j
    BY <1>2, <1>3, FirstOrFacts
  <1>5. e \in i..(n + 1) /\ (e <= n => text[e] = c)
    BY <1>4, <1>n
  <1>6. \A k \in i..(e - 1) : text[k] # c
    BY <1>4, <1>5, <1>n
  <1> QED
    BY <1>1, <1>3, <1>5, <1>6, <1>n, <1>c, Zenon

Closes(text, j) == text[j - 2] = "*" /\ text[j - 1] = "/"

LEMMA BlockEndFacts ==
  ASSUME NEW text, IsSeq(text), NEW i \in 1..Len(text)
  PROVE  /\ BlockEnd(text, i) \in (i + 1)..(Len(text) + 1)
         /\ BlockEnd(text, i) <= Len(text) => BlockEnd(text, i) >= i + 4 /\ Closes(text, BlockEnd(text, i))
         /\ \A k \in (i + 4)..(BlockEnd(text, i) - 1) : ~Closes(text, k)
  <1>n. PICK n \in Nat : n = Len(text)
    BY SeqFacts
  <1> DEFINE S == {j \in (i + 4)..(n + 1) : Closes(text, j)}
  <1>1. BlockEnd(text, i) = FirstOr(S, n + 1)
    BY <1>n DEF BlockEnd, Closes
  <1>2. S \in SUBSET Nat
    BY <1>n
  <1>3. PICK e : e = FirstOr(S, n + 1)
    OBVIOUS
  <1>4. (e \in S \/ (S = {} /\ e = n + 1)) /\ \A j \in S : e <= j
    BY <1>2, <1>3, FirstOrFacts
  <1>5. e \in (i + 1)..(n + 1) /\ (e <= n => e >= i + 4 /\ Closes(text, e))
    BY <1>4, <1>n
  <1>6. \A k \in (i + 4)..(e - 1) : ~Closes(text, k)
    BY <1>4, <1>5, <1>n
  <1> QED
    BY <1>1, <1>3, <1>5, <1>6, <1>n

(* Where the scanner may be when it looks for the next comment.            *)
OpensLine(text, i) == text[i] = "#" \/ (text[i] = "/" /\ i < Len(text) /\ text[i + 1] = "/")
OpensBlock(text, i) == text[i] = "/" /\ i < Len(text) /\ text[i + 1] = "*"
InCode(st, text, i) ==
  i <= Len(text) =>
    \/ st[i - 1][1] = "code"
    \/ st[i - 1][1] = "slash" /\ text[i] \notin {"*", "/"}
    \/ st[i - 1][1] = "line" /\ text[i] = "\n"

(* A match does not begin with what comments are told by.                  *)
MayMatch(c) == c \notin {"#", "/", "*", "\n"}

(* The matches before e are in a comment or not, and there it goes on.     *)
AllIn(st, text, i, e, in) ==
  /\ e \in (i + 1)..(Len(text) + 2) /\ InCode(st, text, e)
  /\ \A m \in i..(e - 1) : m <= Len(text) /\ MayMatch(text[m]) => InComment(st[m - 1]) = in

LEMMA AtQuote ==
  ASSUME NEW text, IsSeq(text), NEW st, Reads(st, text), NEW i \in 1..Len(text),
         InCode(st, text, i), text[i] \in Quotes
  PROVE  AllIn(st, text, i, StringEnd(text, i), FALSE)
  <1>n. PICK n \in Nat : n = Len(text)
    BY SeqFacts
  <1>1. st[i] = Lexed(st[i - 1], text[i])
    BY ReadsFacts
  <1>2. st[i - 1][1] \in {"code", "slash"}
    <2>1. text[i] # "\n"
      BY Zenon DEF Quotes
    <2>2. i <= Len(text)
      BY <1>n
    <2> QED
      BY <2>1, <2>2, Zenon DEF InCode
  <1>3. Lexed(st[i - 1], text[i]) = <<"string", text[i]>>
    BY <1>2, LexedCode
  <1>4. InString(st[i], text[i])
    BY <1>1, <1>3 DEF InString
  <1>5. PICK e : e = StringEnd(text, i)
    OBVIOUS
  <1>6. EndsAt(st, n, text[i], i + 1, e)
    BY <1>4, <1>5, <1>n, StringRun
  <1>7. e \in (i + 1)..(n + 2) /\ (\A k \in i..(e - 2) : k <= n => st[k][1] \in {"string", "escape"})
        /\ (e <= n => st[e - 1][1] = "code")
    <2>1. (i + 1) - 1 = i /\ i + 1 <= n + 1
      BY <1>n
    <2> QED
      BY <2>1, <1>4, <1>6 DEF EndsAt, Through
  <1>8. InCode(st, text, e)
    BY <1>7, <1>n, Zenon DEF InCode
  <1>9. ASSUME NEW m \in i..(e - 1), m <= n, MayMatch(text[m])
        PROVE  InComment(st[m - 1]) = FALSE
    <2>1. CASE m = i
      BY <2>1, <1>2 DEF InComment
    <2>2. CASE m # i
      <3>1. m - 1 \in i..(e - 2) /\ m - 1 <= n
        BY <2>2, <1>9, <1>7, <1>n
      <3>2. st[m - 1][1] \in {"string", "escape"}
        BY <3>1, <1>7
      <3> QED
        BY <3>2 DEF InComment
    <2> QED
      BY <2>1, <2>2
  <1> QED
    BY <1>5, <1>7, <1>8, <1>9, <1>n DEF AllIn

LEMMA AtLine ==
  ASSUME NEW text, IsSeq(text), NEW st, Reads(st, text), NEW i \in 1..Len(text),
         InCode(st, text, i), OpensLine(text, i)
  PROVE  AllIn(st, text, i, LineEnd(text, i), TRUE)
  <1>n. PICK n \in Nat : n = Len(text)
    BY SeqFacts
  <1>1. st[i] = Lexed(st[i - 1], text[i])
    BY ReadsFacts
  <1>2. PICK e : e = LineEnd(text, i)
    OBVIOUS
  <1>3. e \in i..(n + 1) /\ (e <= n => text[e] = "\n") /\ \A k \in i..(e - 1) : text[k] # "\n"
    BY <1>2, <1>n, LineEndFacts, Zenon
  <1>4. i <= Len(text)
    BY <1>n
  <1>5. \E a \in i..n : /\ a < e /\ st[a][1] = "line" /\ \A m \in i..a : ~MayMatch(text[m])
    <2>1. CASE text[i] = "#"
      <3>1. st[i - 1][1] \in {"code", "slash"}
        BY <2>1, <1>4 DEF InCode
      <3>2. st[i][1] = "line"
        BY <3>1, <1>1, <2>1, LexedCode
      <3>3. i # e
        BY <1>3, <1>n, <2>1
      <3>4. ~MayMatch(text[i])
        BY <2>1, Zenon DEF MayMatch
      <3>5. i \in i..n /\ i < e /\ \A m \in i..i : m = i
        BY <3>3, <1>3, <1>n
      <3> QED
        BY <3>2, <3>4, <3>5
    <2>2. CASE text[i] = "/" /\ i < Len(text) /\ text[i + 1] = "/"
      <3>1. st[i - 1][1] = "code"
        BY <2>2, <1>4 DEF InCode
      <3>2. st[i][1] = "slash"
        BY <3>1, <1>1, <2>2, LexedCode
      <3>3. st[i + 1] = Lexed(st[i], text[i + 1])
        <4>1. i + 1 \in 1..Len(text) /\ (i + 1) - 1 = i
          BY <2>2, <1>n
        <4> QED
          BY <4>1, ReadsFacts
      <3>4. st[i + 1][1] = "line"
        BY <3>2, <3>3, <2>2, LexedCode
      <3>5. i # e /\ i + 1 # e
        BY <1>3, <1>n, <2>2
      <3>6. ~MayMatch(text[i]) /\ ~MayMatch(text[i + 1])
        BY <2>2, Zenon DEF MayMatch
      <3>7. i + 1 \in i..n /\ i + 1 < e /\ \A m \in i..(i + 1) : m = i \/ m = i + 1
        BY <3>5, <1>3, <1>n, <2>2
      <3> QED
        BY <3>4, <3>6, <3>7
    <2> QED
      BY <2>1, <2>2 DEF OpensLine
  <1>6. PICK a \in i..n : /\ a < e /\ st[a][1] = "line" /\ \A m \in i..a : ~MayMatch(text[m])
    BY <1>5
  <1>7. \A k \in a..(e - 1) : st[k][1] = "line"
    <2>1. a \in 0..Len(text) /\ e \in Nat /\ e <= Len(text) + 1
      BY <1>3, <1>6, <1>n
    <2>2. \A k \in (a + 1)..(e - 1) : k \in i..(e - 1)
      BY <1>6, <1>3, <1>n
    <2>3. \A k \in (a + 1)..(e - 1) : text[k] # "\n"
      BY <2>2, <1>3, Zenon
    <2> QED
      BY <2>1, <2>3, <1>6, LineRun, Zenon
  <1>8. e \in (i + 1)..(n + 2) /\ e - 1 \in a..(e - 1)
    BY <1>3, <1>6, <1>n
  <1>9. InCode(st, text, e)
    <2>1. st[e - 1][1] = "line"
      BY <1>7, <1>8
    <2> QED
      BY <2>1, <1>3, <1>n, Zenon DEF InCode
  <1>10. ASSUME NEW m \in i..(e - 1), m <= n, MayMatch(text[m])
         PROVE  InComment(st[m - 1]) = TRUE
    <2>1. m \notin i..a
      BY <1>6, <1>10
    <2>2. m - 1 \in a..(e - 1)
      BY <2>1, <1>10, <1>6, <1>8, <1>n
    <2>3. st[m - 1][1] = "line"
      BY <2>2, <1>7
    <2> QED
      BY <2>3 DEF InComment
  <1> QED
    BY <1>2, <1>8, <1>9, <1>10, <1>n DEF AllIn

LEMMA AtBlock ==
  ASSUME NEW text, IsSeq(text), NEW st, Reads(st, text), NEW i \in 1..Len(text),
         InCode(st, text, i), OpensBlock(text, i)
  PROVE  AllIn(st, text, i, BlockEnd(text, i), TRUE)
  <1>n. PICK n \in Nat : n = Len(text)
    BY SeqFacts
  <1>1. st[i] = Lexed(st[i - 1], text[i])
    BY ReadsFacts
  <1>2. PICK e : e = BlockEnd(text, i)
    OBVIOUS
  <1>3. /\ e \in (i + 1)..(n + 1) /\ (e <= n => e >= i + 4 /\ Closes(text, e))
        /\ \A k \in (i + 4)..(e - 1) : ~Closes(text, k)
    BY <1>2, <1>n, BlockEndFacts
  <1>4. i <= Len(text) /\ i < n
    BY <1>n DEF OpensBlock
  <1>5. st[i - 1][1] = "code"
    BY <1>4 DEF InCode, OpensBlock
  <1>6. st[i][1] = "slash"
    BY <1>5, <1>1, LexedCode DEF OpensBlock
  <1>7. st[i + 1] = Lexed(st[i], text[i + 1])
    <2>1. i + 1 \in 1..Len(text) /\ (i + 1) - 1 = i
      BY <1>4, <1>n
    <2> QED
      BY <2>1, ReadsFacts
  <1>8. st[i + 1][1] = "block"
    BY <1>6, <1>7, LexedCode DEF OpensBlock
  <1>9. /\ \A k \in (i + 1)..(e - 2) : st[k][1] \in {"block", "star"}
        /\ e >= (i + 1) + 3 /\ Closes(text, e) => st[e - 1][1] = "code"
    <2>1. PICK a \in 0..Len(text) : a = i + 1
      BY <1>4, <1>n
    <2>2. e \in Nat /\ e <= Len(text) + 1 /\ st[a][1] = "block"
      BY <1>3, <1>n, <1>8, <2>1
    <2>3. \A j \in (a + 3)..(e - 1) : ~(text[j - 2] = "*" /\ text[j - 1] = "/")
      <3>1. a + 3 = i + 4
        BY <2>1
      <3> QED
        BY <3>1, <1>3 DEF Closes
    <2>4. /\ \A k \in a..(e - 2) : st[k][1] \in {"block", "star"}
          /\ e >= a + 3 /\ text[e - 2] = "*" /\ text[e - 1] = "/" => st[e - 1][1] = "code"
      BY <2>2, <2>3, BlockRun
    <2> QED
      BY <2>1, <2>4 DEF Closes
  <1>10. e \in (i + 1)..(n + 2)
    BY <1>3, <1>n
  <1>11. InCode(st, text, e)
    <2>1. e <= n => st[e - 1][1] = "code"
      BY <1>3, <1>9, <1>n
    <2> QED
      BY <2>1, <1>n, Zenon DEF InCode
  <1>12. ASSUME NEW m \in i..(e - 1), m <= n, MayMatch(text[m])
         PROVE  InComment(st[m - 1]) = TRUE
    <2>1. m # i /\ m # i + 1
      BY <1>12, Zenon DEF OpensBlock, MayMatch
    <2>2. m - 1 \in (i + 1)..(e - 2)
      BY <2>1, <1>12, <1>10, <1>n
    <2>3. st[m - 1][1] \in {"block", "star"}
      BY <2>2, <1>9
    <2> QED
      BY <2>3 DEF InComment
  <1> QED
    BY <1>2, <1>10, <1>11, <1>12, <1>n DEF AllIn

LEMMA AtOther ==
  ASSUME NEW text, IsSeq(text), NEW st, Reads(st, text), NEW i \in 1..Len(text),
         InCode(st, text, i), text[i] \notin Quotes, ~OpensLine(text, i), ~OpensBlock(text, i)
  PROVE  AllIn(st, text, i, i + 1, FALSE)
  <1>n. PICK n \in Nat : n = Len(text)
    BY SeqFacts
  <1>1. st[i] = Lexed(st[i - 1], text[i])
    BY ReadsFacts
  <1>2. i <= Len(text) /\ i + 1 \in (i + 1)..(n + 2) /\ (i + 1) - 1 = i /\ \A m \in i..((i + 1) - 1) : m = i
    BY <1>n
  <1>3. i + 1 <= Len(text) => i < Len(text)
    BY <1>n
  <1>4. text[i] # "#"
    BY DEF OpensLine
  <1>5. InCode(st, text, i + 1)
    <2>1. CASE st[i - 1][1] = "line" /\ text[i] = "\n"
      <3>1. st[i][1] = "code"
        <4>1. PICK s, c : s = st[i - 1] /\ c = text[i]
          OBVIOUS
        <4>2. Lexed(s, c)[1] = "code"
          BY <2>1, <4>1, LexedComment, Zenon
        <4> QED
          BY <4>1, <4>2, <1>1
      <3> QED
        BY <3>1, <1>2, Zenon DEF InCode
    <2>2. CASE st[i - 1][1] = "code" /\ text[i] = "/"
      <3>1. i < Len(text) => text[i + 1] \notin {"*", "/"}
        BY <2>2 DEF OpensLine, OpensBlock
      <3>2. st[i][1] = "slash"
        BY <2>2, <1>1, LexedCode
      <3> QED
        BY <3>1, <3>2, <1>2, <1>3, Zenon DEF InCode
    <2>3. CASE st[i - 1][1] \in {"code", "slash"} /\ text[i] # "/" /\ (st[i - 1][1] = "slash" => text[i] # "*")
      <3>1. text[i] \notin Quotes \cup {"#", "/"}
        BY <2>3, <1>4, Zenon
      <3>2. st[i][1] = "code"
        BY <2>3, <3>1, <1>1, LexedCode
      <3> QED
        BY <3>2, <1>2, Zenon DEF InCode
    <2> QED
      BY <2>1, <2>2, <2>3, <1>2, Zenon DEF InCode
  <1>6. ASSUME MayMatch(text[i])
        PROVE  InComment(st[i - 1]) = FALSE
    <2>1. text[i] # "\n"
      BY <1>6, Zenon DEF MayMatch
    <2>2. st[i - 1][1] \in {"code", "slash"}
      BY <2>1, <1>2, Zenon DEF InCode
    <2> QED
      BY <2>2 DEF InComment
  <1> QED
    BY <1>2, <1>5, <1>6, <1>n DEF AllIn

(* The positions inside comments, from i on.                               *)
CommentStep(h, text, i) ==
  IF i > Len(text) THEN {}
  ELSE IF text[i] \in Quotes THEN h[StringEnd(text, i)]
  ELSE IF text[i] = "#" \/ <<text[i], IF i < Len(text) THEN text[i + 1] ELSE "">> = <<"/", "/">>
  THEN (i..(LineEnd(text, i) - 1)) \cup h[LineEnd(text, i)]
  ELSE IF <<text[i], IF i < Len(text) THEN text[i + 1] ELSE "">> = <<"/", "*">>
  THEN (i..(BlockEnd(text, i) - 1)) \cup h[BlockEnd(text, i)]
  ELSE h[i + 1]
CommentsFrom(h, text, m) == h = [i \in m..(Len(text) + 2) |-> CommentStep(h, text, i)]

LEMMA CommentedUnfolds ==
  ASSUME NEW text
  PROVE  Commented(text) = (CHOOSE h : CommentsFrom(h, text, 1))[1]
  BY Zenon DEF Commented, CommentsFrom, CommentStep

(* Where the next comment is looked for.                                   *)
Onward(text, i) ==
  IF text[i] \in Quotes THEN StringEnd(text, i)
  ELSE IF OpensLine(text, i) THEN LineEnd(text, i)
  ELSE IF OpensBlock(text, i) THEN BlockEnd(text, i)
  ELSE i + 1
Opens(text, i) == text[i] \notin Quotes /\ (OpensLine(text, i) \/ OpensBlock(text, i))

LEMMA CommentStepOf ==
  ASSUME NEW text, NEW i, NEW h
  PROVE  /\ i > Len(text) => CommentStep(h, text, i) = {}
         /\ ~(i > Len(text)) /\ Opens(text, i) =>
              CommentStep(h, text, i) = (i..(Onward(text, i) - 1)) \cup h[Onward(text, i)]
         /\ ~(i > Len(text)) /\ ~Opens(text, i) => CommentStep(h, text, i) = h[Onward(text, i)]
  <1> DEFINE next == IF i < Len(text) THEN text[i + 1] ELSE ""
  <1>1. <<text[i], next>> = <<"/", "/">> <=> text[i] = "/" /\ i < Len(text) /\ text[i + 1] = "/"
    OBVIOUS
  <1>2. <<text[i], next>> = <<"/", "*">> <=> OpensBlock(text, i)
    BY DEF OpensBlock
  <1>3. (text[i] = "#" \/ <<text[i], next>> = <<"/", "/">>) <=> OpensLine(text, i)
    BY <1>1 DEF OpensLine
  <1> QED
    BY <1>2, <1>3, Zenon DEF CommentStep, Onward, Opens

LEMMA CommentStepAgrees ==
  ASSUME NEW text, NEW i, NEW h, NEW g, ~(i > Len(text)) => h[Onward(text, i)] = g[Onward(text, i)]
  PROVE  CommentStep(h, text, i) = CommentStep(g, text, i)
  <1>1. CASE i > Len(text)
    BY <1>1, CommentStepOf, Zenon
  <1>2. CASE ~(i > Len(text)) /\ Opens(text, i)
    BY <1>2, CommentStepOf, Zenon
  <1>3. CASE ~(i > Len(text)) /\ ~Opens(text, i)
    BY <1>3, CommentStepOf, Zenon
  <1> QED
    BY <1>1, <1>2, <1>3

(* Of a step from i, where the reader is outside comments and strings.     *)
LEMMA OnwardIs ==
  ASSUME NEW text, IsSeq(text), NEW st, Reads(st, text), NEW i \in 1..Len(text), InCode(st, text, i)
  PROVE  AllIn(st, text, i, Onward(text, i), Opens(text, i))
  <1>1. CASE text[i] \in Quotes
    BY <1>1, AtQuote DEF Onward, Opens
  <1>2. CASE text[i] \notin Quotes /\ OpensLine(text, i)
    BY <1>2, AtLine DEF Onward, Opens
  <1>3. CASE text[i] \notin Quotes /\ ~OpensLine(text, i) /\ OpensBlock(text, i)
    BY <1>3, AtBlock DEF Onward, Opens
  <1>4. CASE text[i] \notin Quotes /\ ~OpensLine(text, i) /\ ~OpensBlock(text, i)
    BY <1>4, AtOther DEF Onward, Opens
  <1> QED
    BY <1>1, <1>2, <1>3, <1>4

(* Wherever the scanner goes on, it is further on.                         *)
LEMMA StringEndWithin ==
  ASSUME NEW text, IsSeq(text), NEW i \in 1..Len(text)
  PROVE  StringEnd(text, i) \in (i + 1)..(Len(text) + 2)
  <1>n. PICK n \in Nat : n = Len(text)
    BY SeqFacts
  <1>1. PICK h : h = CHOOSE g : BehindFrom(g, text, i, i + 1)
    OBVIOUS
  <1>2. BehindFrom(h, text, i, i + 1)
    <2>1. n + 2 - i \in Nat /\ n + 3 - (n + 2 - i) = i + 1
      BY <1>n
    <2> QED
      BY <2>1, <1>1, <1>n, BehindExists
  <1>3. StringEnd(text, i) = h[i + 1]
    BY <1>1, StringEndUnfolds
  <1>4. \A j \in (i + 1)..(n + 2) : h[j] = BehindStep(h, text, i, j)
    BY <1>2, <1>n DEF BehindFrom
  <1> DEFINE Ok(j) == h[j] \in j..(n + 2)
             Bad == {k \in 0..(n + 1 - i) : ~Ok(n + 2 - k)}
  <1>5. Bad = {}
    <2> SUFFICES ASSUME Bad # {} PROVE FALSE
      OBVIOUS
    <2>1. PICK k \in Bad : \A x \in Bad : k <= x
      <3>1. Bad \in SUBSET Nat
        BY <1>n
      <3> HIDE DEF Bad
      <3> QED
        BY <3>1, FirstNumber
    <2>2. PICK j \in (i + 1)..(n + 2) : j = n + 2 - k
      BY <2>1, <1>n
    <2>3. \A x \in (j + 1)..(n + 2) : Ok(x)
      <3> SUFFICES ASSUME NEW x \in (j + 1)..(n + 2) PROVE Ok(x)
        OBVIOUS
      <3>1. n + 2 - x \in 0..(n + 1 - i) /\ n + 2 - (n + 2 - x) = x /\ ~(k <= n + 2 - x)
        BY <2>1, <2>2, <1>n
      <3> QED
        BY <2>1, <3>1
    <2>4. ~Ok(j)
      BY <2>1, <2>2
    <2> HIDE DEF Bad
    <2>5. \/ h[j] = j
          \/ ~(j > n) /\ h[j] \in {j + 1, h[j + 1], h[j + 2]}
      <3>1. h[j] = BehindStep(h, text, i, j)
        BY <1>4
      <3>2. \/ BehindStep(h, text, i, j) = j
            \/ ~(j > Len(text)) /\ BehindStep(h, text, i, j) \in {j + 1, h[j + 1], h[j + 2]}
        BY Zenon DEF BehindStep
      <3> HIDE DEF Ok
      <3> QED
        BY <3>1, <3>2, <1>n, Zenon
    <2>6. CASE h[j] = j
      BY <2>4, <2>6, <1>n
    <2>7. CASE ~(j > n) /\ h[j] \in {j + 1, h[j + 1], h[j + 2]}
      <3>1. j + 1 \in (j + 1)..(n + 2) /\ j + 2 \in (j + 1)..(n + 2)
        BY <2>7, <1>n
      <3>2. h[j + 1] \in (j + 1)..(n + 2) /\ h[j + 2] \in (j + 2)..(n + 2)
        BY <2>3, <3>1
      <3> QED
        BY <2>4, <2>7, <3>1, <3>2, <1>n
    <2> QED
      BY <2>5, <2>6, <2>7
  <1>6. n + 1 - i \in 0..(n + 1 - i) /\ n + 2 - (n + 1 - i) = i + 1
    BY <1>n
  <1>7. Ok(i + 1)
    BY <1>5, <1>6
  <1> QED
    BY <1>7, <1>3, <1>n

LEMMA OnwardWithin ==
  ASSUME NEW text, IsSeq(text), NEW i \in 1..Len(text)
  PROVE  Onward(text, i) \in (i + 1)..(Len(text) + 2)
  <1>n. PICK n \in Nat : n = Len(text)
    BY SeqFacts
  <1>1. StringEnd(text, i) \in (i + 1)..(n + 2)
    BY <1>n, StringEndWithin
  <1>2. BlockEnd(text, i) \in (i + 1)..(n + 2)
    BY <1>n, BlockEndFacts
  <1>3. ASSUME OpensLine(text, i) PROVE LineEnd(text, i) \in (i + 1)..(n + 2)
    <2>1. PICK e : e = LineEnd(text, i)
      OBVIOUS
    <2>2. e \in i..(n + 1) /\ (e <= n => text[e] = "\n")
      BY <2>1, <1>n, LineEndFacts, Zenon
    <2>3. text[i] # "\n"
      BY <1>3, Zenon DEF OpensLine
    <2>4. e # i
      <3>1. i <= n
        BY <1>n
      <3> QED
        BY <2>2, <2>3, <3>1, Zenon
    <2> QED
      BY <2>1, <2>2, <2>4, <1>n
  <1>4. i + 1 \in (i + 1)..(n + 2)
    BY <1>n
  <1> QED
    BY <1>1, <1>2, <1>3, <1>4, <1>n DEF Onward

LEMMA CommentsExists ==
  ASSUME NEW text, IsSeq(text)
  PROVE  \E h : CommentsFrom(h, text, 1)
  <1>n. PICK n \in Nat : n = Len(text)
    BY SeqFacts
  <1> DEFINE Bad == {k \in 0..(n + 2) : ~\E h : CommentsFrom(h, text, n + 3 - k)}
  <1> SUFFICES ASSUME Bad # {} PROVE FALSE
    <2>1. n + 2 \in 0..(n + 2) /\ n + 3 - (n + 2) = 1
      BY <1>n
    <2> QED
      BY <2>1
  <1>1. PICK k \in Bad : \A j \in Bad : k <= j
    <2>1. Bad \in SUBSET Nat
      BY <1>n
    <2> HIDE DEF Bad
    <2> QED
      BY <2>1, FirstNumber
  <1>2. k # 0
    <2>1. (n + 3)..(n + 2) = {}
      BY <1>n
    <2>2. n + 3 - 0 = n + 3
      BY <1>n
    <2> DEFINE h == [j \in {} |-> 0]
    <2>3. h = [j \in {} |-> CommentStep(h, text, j)]
      OBVIOUS
    <2>4. CommentsFrom(h, text, n + 3 - 0)
      BY <2>1, <2>2, <2>3, <1>n DEF CommentsFrom
    <2> QED
      BY <1>1, <1>n, <2>4
  <1>3. k \in 1..(n + 2)
    BY <1>1, <1>2, <1>n
  <1>4. PICK m \in 1..(n + 2) : m = n + 3 - k
    <2>1. n + 3 - k \in 1..(n + 2)
      BY <1>3, <1>n
    <2> HIDE DEF Bad
    <2> QED
      BY <2>1
  <1>5. PICK h : CommentsFrom(h, text, m + 1)
    <2>1. k - 1 \in 0..(n + 2) /\ ~(k <= k - 1) /\ n + 3 - (k - 1) = m + 1
      BY <1>3, <1>4, <1>n
    <2> QED
      BY <1>1, <2>1
  <1>6. h = [j \in (m + 1)..(n + 2) |-> CommentStep(h, text, j)]
    BY <1>5, <1>n DEF CommentsFrom
  <1> DEFINE g == [j \in m..(n + 2) |-> IF j > m THEN h[j] ELSE CommentStep(h, text, j)]
  <1>7. ASSUME NEW j \in m..(n + 2)
        PROVE  g[j] = CommentStep(g, text, j)
    <2>1. g[j] = CommentStep(h, text, j)
      <3>1. j > m => j \in (m + 1)..(n + 2)
        BY <1>n, <1>4
      <3>2. j > m => h[j] = CommentStep(h, text, j)
        BY <1>6, <3>1
      <3> QED
        BY <3>2
    <2>2. ~(j > n) => h[Onward(text, j)] = g[Onward(text, j)]
      <3> SUFFICES ASSUME ~(j > n) PROVE h[Onward(text, j)] = g[Onward(text, j)]
        OBVIOUS
      <3>1. j \in 1..Len(text)
        BY <1>4, <1>n
      <3>2. PICK e : e = Onward(text, j)
        OBVIOUS
      <3>3. e \in (j + 1)..(n + 2)
        BY <3>1, <3>2, <1>n, OnwardWithin
      <3>4. e \in m..(n + 2) /\ e > m
        BY <3>3, <1>4, <1>n
      <3>5. g[e] = h[e]
        BY <3>4
      <3> HIDE DEF g
      <3> QED
        BY <3>2, <3>5
    <2> HIDE DEF g
    <2>3. CommentStep(h, text, j) = CommentStep(g, text, j)
      BY <2>2, <1>n, CommentStepAgrees
    <2> QED
      BY <2>1, <2>3
  <1>8. g = [j \in m..(n + 2) |-> g[j]]
    OBVIOUS
  <1> HIDE DEF g
  <1>9. g = [j \in m..(n + 2) |-> CommentStep(g, text, j)]
    BY <1>7, <1>8, Zenon
  <1>10. CommentsFrom(g, text, n + 3 - k)
    BY <1>9, <1>n, <1>4 DEF CommentsFrom
  <1> QED
    BY <1>1, <1>10

(* The scanner and the reader agree on which matches are in comments.      *)
CommentsAgree(text, st, i, c) ==
  /\ c \subseteq i..Len(text)
  /\ InCode(st, text, i) =>
       \A m \in i..Len(text) : MayMatch(text[m]) => (m \in c <=> InComment(st[m - 1]))

LEMMA CommentsStep ==
  ASSUME NEW text, IsSeq(text), NEW st, Reads(st, text), NEW i \in 1..Len(text), NEW c, NEW d,
         CommentsAgree(text, st, Onward(text, i), d),
         c = IF Opens(text, i) THEN (i..(Onward(text, i) - 1)) \cup d ELSE d,
         Opens(text, i) => Onward(text, i) <= Len(text) + 1
  PROVE  CommentsAgree(text, st, i, c)
  <1>n. PICK n \in Nat : n = Len(text)
    BY SeqFacts
  <1>1. PICK e : e = Onward(text, i)
    OBVIOUS
  <1>2. PICK in \in BOOLEAN : in = Opens(text, i)
    BY DEF Opens
  <1>3. e \in (i + 1)..(n + 2) /\ (in => e <= n + 1) /\ d \subseteq e..n
    BY <1>1, <1>2, <1>n, OnwardWithin DEF CommentsAgree
  <1>4. c = IF in THEN (i..(e - 1)) \cup d ELSE d
    BY <1>1, <1>2
  <1>5. c \subseteq i..n
    <2>1. d \subseteq i..n
      BY <1>3, <1>n
    <2>2. in => i..(e - 1) \subseteq i..n
      BY <1>3, <1>n
    <2> QED
      BY <1>4, <2>1, <2>2
  <1>6. ASSUME InCode(st, text, i), NEW m \in i..n, MayMatch(text[m])
        PROVE  m \in c <=> InComment(st[m - 1])
    <2>1. AllIn(st, text, i, e, in)
      BY <1>1, <1>2, <1>6, OnwardIs
    <2>2. CASE m >= e
      <3>1. m \in e..n /\ m \notin i..(e - 1)
        BY <2>2, <1>3, <1>n
      <3>2. m \in d <=> InComment(st[m - 1])
        BY <3>1, <2>1, <1>1, <1>6, <1>n DEF AllIn, CommentsAgree
      <3> QED
        BY <3>1, <3>2, <1>4
    <2>3. CASE ~(m >= e)
      <3>1. m \in i..(e - 1) /\ m \notin e..n /\ m <= n
        BY <2>3, <1>3, <1>n
      <3>2. InComment(st[m - 1]) = in
        BY <3>1, <2>1, <1>6, <1>n DEF AllIn
      <3>3. m \notin d
        BY <3>1, <1>3
      <3> QED
        BY <3>1, <3>2, <3>3, <1>4
    <2> QED
      BY <2>2, <2>3
  <1> QED
    BY <1>5, <1>6, <1>n DEF CommentsAgree

LEMMA CommentedIs ==
  ASSUME NEW text, IsSeq(text)
  PROVE  \A m \in DOMAIN text : MayMatch(text[m]) =>
           (m \in Commented(text) <=> InComment(LexerState(text)[m - 1]))
  <1>n. PICK n \in Nat : n = Len(text) /\ DOMAIN text = 1..n
    BY SeqFacts
  <1>s. PICK st : st = LexerState(text) /\ Reads(st, text)
    BY ReaderReads
  <1>1. PICK h : h = (CHOOSE g : CommentsFrom(g, text, 1)) /\ CommentsFrom(h, text, 1)
    BY CommentsExists
  <1>2. Commented(text) = h[1]
    BY <1>1, CommentedUnfolds
  <1>3. \A i \in 1..(n + 2) : h[i] = CommentStep(h, text, i)
    BY <1>1, <1>n DEF CommentsFrom
  <1> DEFINE Ok(i) == CommentsAgree(text, st, i, h[i])
             Bad == {k \in 0..(n + 1) : ~Ok(n + 2 - k)}
  <1>4. Bad = {}
    <2> SUFFICES ASSUME Bad # {} PROVE FALSE
      OBVIOUS
    <2>1. PICK k \in Bad : \A x \in Bad : k <= x
      <3>1. Bad \in SUBSET Nat
        BY <1>n
      <3> HIDE DEF Bad
      <3> QED
        BY <3>1, FirstNumber
    <2>2. PICK i \in 1..(n + 2) : i = n + 2 - k
      BY <2>1, <1>n
    <2>3. \A x \in (i + 1)..(n + 2) : Ok(x)
      <3> SUFFICES ASSUME NEW x \in (i + 1)..(n + 2) PROVE Ok(x)
        OBVIOUS
      <3>1. n + 2 - x \in 0..(n + 1) /\ n + 2 - (n + 2 - x) = x /\ ~(k <= n + 2 - x)
        BY <2>1, <2>2, <1>n
      <3> QED
        BY <2>1, <3>1
    <2>4. ~Ok(i)
      BY <2>1, <2>2
    <2> HIDE DEF Ok, Bad
    <2>5. h[i] = CommentStep(h, text, i)
      BY <1>3
    <2>6. CASE i > n
      <3>1. h[i] = {}
        BY <2>5, <2>6, <1>n, CommentStepOf
      <3>2. \A m \in i..n : FALSE
        BY <2>6, <1>n
      <3> QED
        BY <2>4, <3>1, <3>2, <1>n DEF Ok, CommentsAgree
    <2>7. CASE ~(i > n)
      <3>1. i \in 1..Len(text) /\ ~(i > Len(text))
        BY <2>7, <1>n
      <3>2. Onward(text, i) \in (i + 1)..(n + 2)
        BY <3>1, <1>n, OnwardWithin
      <3>3. CommentsAgree(text, st, Onward(text, i), h[Onward(text, i)])
        BY <3>2, <2>3 DEF Ok
      <3>4. Opens(text, i) => Onward(text, i) <= Len(text) + 1
        <4>1. LineEnd(text, i) <= Len(text) + 1
          <5>1. LineEnd(text, i) \in i..(n + 1)
            BY <3>1, <1>n, LineEndFacts, Zenon
          <5> QED
            BY <5>1, <1>n
        <4>2. BlockEnd(text, i) <= Len(text) + 1
          <5>1. BlockEnd(text, i) \in (i + 1)..(n + 1)
            BY <3>1, <1>n, BlockEndFacts
          <5> QED
            BY <5>1, <1>n
        <4> QED
          BY <4>1, <4>2 DEF Opens, Onward
      <3>5. h[i] = IF Opens(text, i) THEN (i..(Onward(text, i) - 1)) \cup h[Onward(text, i)] ELSE h[Onward(text, i)]
        BY <2>5, <3>1, CommentStepOf
      <3>6. CommentsAgree(text, st, i, h[i])
        BY <3>1, <3>3, <3>4, <3>5, <1>s, CommentsStep
      <3> QED
        BY <2>4, <3>6 DEF Ok
    <2> QED
      BY <2>6, <2>7
  <1>5. Ok(1)
    <2>1. n + 1 \in 0..(n + 1) /\ n + 2 - (n + 1) = 1
      BY <1>n
    <2> QED
      BY <2>1, <1>4
  <1>6. InCode(st, text, 1)
    <2>1. st[0][1] = "code" /\ 1 - 1 = 0
      BY <1>s, ReadsFacts
    <2> QED
      BY <2>1, Zenon DEF InCode
  <1> QED
    BY <1>5, <1>6, <1>2, <1>s, <1>n DEF CommentsAgree

(* The matches outside comments, and those a match beside says more than.  *)
Live(text) == {i \in DOMAIN text : text[i] \in DOMAIN Matches /\ i \notin Commented(Written(text))}
ShowsMatch(a, text, i) ==
  /\ a.place[3] = LineAt(text, i) /\ a.name = Matches[text[i]].name
  /\ a.size = Matches[text[i]].size /\ a.params = Matches[text[i]].mode
Beside(text, i, j) ==
  /\ Matches[text[j]].name = Matches[text[i]].name /\ ~AttributeFree(Matches[text[j]])
  /\ LineAt(text, j) - LineAt(text, i) \in -1..1
Redundant(text, i) == AttributeFree(Matches[text[i]]) /\ \E j \in Live(text) : Beside(text, i, j)

LEMMA MatchedAre ==
  ASSUME NEW text, IsSeq(text)
  PROVE  IsSeq(Matched(text)) /\ Range(Matched(text)) = Live(text)
  <1> DEFINE at == [i \in DOMAIN text |-> i]
             of(r) == {i \in Live(text) : Matches[text[i]].rule = r}
             by == [r \in 1..Rules |-> Chosen(at, of(r))]
  <1>1. IsSeq(at) /\ DOMAIN at = DOMAIN text /\ \A i \in DOMAIN text : at[i] = i
    BY OverIsSeq
  <1>2. Matched(text) = FlattenSeq(by)
    BY DEF Matched, Live
  <1> HIDE DEF at
  <1>3. \A r \in 1..Rules : IsSeq(by[r]) /\ \A x : x \in Range(by[r]) <=> x \in of(r)
    <2> SUFFICES ASSUME NEW r \in 1..Rules PROVE IsSeq(by[r]) /\ \A x : x \in Range(by[r]) <=> x \in of(r)
      OBVIOUS
    <2>1. by[r] = Chosen(at, of(r))
      OBVIOUS
    <2>2. of(r) \subseteq DOMAIN text
      BY DEF Live
    <2> HIDE DEF by, of
    <2>3. IsSeq(Chosen(at, of(r))) /\ \A x : x \in Range(Chosen(at, of(r))) <=> \E i \in DOMAIN at \cap of(r) : x = at[i]
      BY <1>1, ChosenFacts
    <2> QED
      BY <2>1, <2>2, <2>3, <1>1
  <1>4. IsSeq(by) /\ DOMAIN by = 1..Rules
    <2>1. by = [r \in 1..Rules |-> by[r]]
      OBVIOUS
    <2> HIDE DEF by
    <2> QED
      BY <2>1, MapIsSeq, SourceAssumption
  <1> HIDE DEF by
  <1>5. IsSeq(FlattenSeq(by)) /\ \A x : x \in Range(FlattenSeq(by)) <=> \E r \in DOMAIN by : x \in Range(by[r])
    BY <1>3, <1>4, FlattenFacts
  <1>6. \A x : (\E r \in 1..Rules : x \in of(r)) <=> x \in Live(text)
    BY SourceAssumption DEF Live
  <1> HIDE DEF of
  <1>7. \A x : x \in Range(FlattenSeq(by)) <=> x \in Live(text)
    BY <1>3, <1>4, <1>5, <1>6
  <1> QED
    BY <1>2, <1>5, <1>7

LEMMA PatternRows ==
  ASSUME NEW id, NEW text, IsSeq(text)
  PROVE  /\ \A i \in Live(text) : ~Redundant(text, i) =>
               \E a \in Range(PatternFindings(id, text)) : ShowsMatch(a, text, i)
         /\ \A a \in Range(PatternFindings(id, text)) :
               \E i \in Live(text) : ~Redundant(text, i) /\ ShowsMatch(a, text, i)
  <1> DEFINE matched == Matched(text)
             kept == {k \in DOMAIN matched : ~Subsumed(text, matched[k], matched)}
             rest == Chosen(matched, kept)
             all == PatternFindings(id, text)
  <1>1. IsSeq(matched) /\ Range(matched) = Live(text)
    BY MatchedAre
  <1>2. \A i : Subsumed(text, i, matched) <=> Redundant(text, i)
    BY <1>1 DEF Subsumed, Redundant, Beside
  <1>3. /\ DOMAIN all = DOMAIN rest
        /\ \A k \in DOMAIN rest :
             all[k] = Observed(id, LineAt(text, rest[k]), Matches[text[rest[k]]].name, Matches[text[rest[k]]].size,
                               Matches[text[rest[k]]].mode, Matches[text[rest[k]]].provider, "pattern")
    BY DEF PatternFindings
  <1> HIDE DEF matched, kept
  <1>4. \A x : x \in Range(rest) <=> \E k \in DOMAIN matched \cap kept : x = matched[k]
    BY <1>1, ChosenFacts
  <1>5. \A x : x \in Range(rest) <=> x \in Live(text) /\ ~Redundant(text, x)
    BY <1>1, <1>2, <1>4 DEF kept, Range
  <1> HIDE DEF rest, all
  <1>6. \A k \in DOMAIN rest : ShowsMatch(all[k], text, rest[k])
    BY <1>3 DEF Observed, ShowsMatch
  <1>7. \A i \in Range(rest) : \E a \in Range(all) : ShowsMatch(a, text, i)
    BY <1>3, <1>6 DEF Range
  <1>8. \A a \in Range(all) : \E i \in Range(rest) : ShowsMatch(a, text, i)
    BY <1>3, <1>6 DEF Range
  <1> QED
    BY <1>5, <1>7, <1>8 DEF all

LEMMA PatternIsShown ==
  ASSUME NEW f, IsSeq(f.text), FoundIn(f) = Range(PatternFindings(f.id, f.text))
  PROVE  PatternsShown(f)
  <1> DEFINE state == LexerState(Written(f.text))
             live == {i \in DOMAIN f.text : f.text[i] \in DOMAIN Matches /\ ~InComment(state[i - 1])}
  <1>1. live = Live(f.text)
    <2>1. PICK w : w = Written(f.text) /\ IsSeq(w) /\ DOMAIN w = DOMAIN f.text
      <3>1. PICK w : w = Written(f.text)
        OBVIOUS
      <3>2. DOMAIN w = DOMAIN f.text /\ w = [i \in DOMAIN f.text |-> w[i]]
        BY <3>1 DEF Written
      <3> QED
        BY <3>1, <3>2, OverIsSeq
    <2>2. \A m \in DOMAIN f.text : f.text[m] \in DOMAIN Matches => MayMatch(w[m])
      BY <2>1, SourceAssumption DEF Written, MayMatch
    <2>3. \A m \in DOMAIN f.text : f.text[m] \in DOMAIN Matches =>
            (m \in Commented(w) <=> InComment(LexerState(w)[m - 1]))
      BY <2>1, <2>2, CommentedIs
    <2> QED
      BY <2>1, <2>3 DEF Live
  <1>2. \A i \in Live(f.text) : ~Redundant(f.text, i) => \E a \in FoundIn(f) : ShowsMatch(a, f.text, i)
    BY PatternRows
  <1>3. \A a \in FoundIn(f) : \E i \in Live(f.text) : ShowsMatch(a, f.text, i)
    BY PatternRows
  <1>4. ASSUME NEW i \in Live(f.text), Redundant(f.text, i)
        PROVE  /\ AttributeFree(Matches[f.text[i]])
               /\ \E a \in FoundIn(f) : /\ a.name = Matches[f.text[i]].name
                                        /\ a.size # None \/ a.params # None
                                        /\ a.place[3] - LineAt(f.text, i) \in -1..1
    <2>1. PICK j \in Live(f.text) : Beside(f.text, i, j)
      BY <1>4 DEF Redundant
    <2>2. ~Redundant(f.text, j)
      BY <2>1 DEF Redundant, Beside
    <2>3. PICK a \in FoundIn(f) : ShowsMatch(a, f.text, j)
      BY <1>2, <2>2
    <2> QED
      BY <1>4, <2>1, <2>3 DEF Redundant, Beside, ShowsMatch, AttributeFree
  <1> HIDE DEF live
  <1>5. /\ \A i \in live :
             \/ \E a \in FoundIn(f) : ShowsMatch(a, f.text, i)
             \/ /\ AttributeFree(Matches[f.text[i]])
                /\ \E a \in FoundIn(f) : /\ a.name = Matches[f.text[i]].name
                                         /\ a.size # None \/ a.params # None
                                         /\ a.place[3] - LineAt(f.text, i) \in -1..1
        /\ \A a \in FoundIn(f) : \E i \in live : ShowsMatch(a, f.text, i)
    BY <1>1, <1>2, <1>3, <1>4
  <1> QED
    BY <1>5 DEF PatternsShown, ShowsMatch, live

-----------------------------------------------------------------------------
(* The walk.                                                               *)

(* What is there of a file is a piece, with its relationships.             *)
Laid(p, id) ==
  \E off \in Nat :
    /\ OfFile(id) = {off + k : k \in DOMAIN p.assets}
    /\ \A k \in DOMAIN p.assets : sourced[off + k] = p.assets[k]
    /\ \A l \in p.links : <<off + l[1], off + l[2], l[3]>> \in related

LEMMA NoPieceLaid == ASSUME NEW id, OfFile(id) = {} PROVE Laid(NoPiece, id)
  <1>1. DOMAIN NoPiece.assets = {} /\ NoPiece.links = {}
    BY DEF NoPiece, Piece
  <1>2. 0 \in Nat
    OBVIOUS
  <1> QED
    BY <1>1, <1>2 DEF Laid

(* Taking a piece of one file lays it, and leaves what is there.           *)
LEMMA TakeLays ==
  ASSUME IsSeq(sourced), NEW id, NEW p, PieceOf(id, p), Take(p)
  PROVE  /\ IsSeq(sourced')
         /\ OfFile(id) = {} => Laid(p, id)'
         /\ \A x : x # id => OfFile(x)' = OfFile(x)
         /\ \A x, q : x # id /\ Laid(q, x) => Laid(q, x)'
  <1> DEFINE n == Len(sourced)
             b == p.assets
  <1>1. /\ sourced' = sourced \o b
        /\ related' = related \cup {<<n + l[1], n + l[2], l[3]>> : l \in p.links}
    BY DEF Take, Joined, Piece
  <1>2. IsSeq(b)
    BY DEF PieceOf
  <1>3. n \in Nat /\ Len(b) \in Nat /\ DOMAIN sourced = 1..n /\ DOMAIN b = 1..Len(b)
    BY <1>2, SeqFacts
  <1>4. /\ IsSeq(sourced') /\ DOMAIN sourced' = 1..(n + Len(b))
        /\ \A i \in 1..n : sourced'[i] = sourced[i]
        /\ \A i \in 1..Len(b) : sourced'[n + i] = b[i]
    BY <1>1, <1>2, JoinFacts
  <1> HIDE DEF n, b
  <1>5. \A i \in DOMAIN sourced' : i \in DOMAIN sourced \/ (i - n \in DOMAIN b /\ i = n + (i - n))
    BY <1>3, <1>4
  <1>6. \A i \in DOMAIN sourced : i \in DOMAIN sourced'
    BY <1>3, <1>4
  <1>7. \A k \in DOMAIN b : n + k \in DOMAIN sourced' /\ n + k \notin DOMAIN sourced
    BY <1>3, <1>4
  <1>8. \A k \in DOMAIN b : sourced'[n + k] = b[k] /\ b[k].place[2] = id
    BY <1>3, <1>4 DEF PieceOf, b
  <1>9. \A i \in DOMAIN sourced : sourced'[i] = sourced[i]
    BY <1>3, <1>4
  <1>10. ASSUME NEW x, x # id
         PROVE  OfFile(x)' = OfFile(x)
    <2>1. \A i \in DOMAIN sourced' : sourced'[i].place[2] = x => i \in DOMAIN sourced
      BY <1>5, <1>8, <1>10
    <2> QED
      BY <1>6, <1>9, <2>1 DEF OfFile
  <1>11. ASSUME OfFile(id) = {}
         PROVE  Laid(p, id)'
    <2>1. \A i \in DOMAIN sourced : sourced[i].place[2] # id
      BY <1>11 DEF OfFile
    <2>2. OfFile(id)' = {n + k : k \in DOMAIN p.assets}
      BY <1>5, <1>7, <1>8, <1>9, <2>1 DEF OfFile, b
    <2>3. \A k \in DOMAIN p.assets : sourced'[n + k] = p.assets[k]
      BY <1>8 DEF b
    <2>4. \A l \in p.links : <<n + l[1], n + l[2], l[3]>> \in related'
      BY <1>1
    <2> QED
      BY <1>3, <2>2, <2>3, <2>4 DEF Laid
  <1>12. ASSUME NEW x, NEW q, x # id, Laid(q, x)
         PROVE  Laid(q, x)'
    <2>1. PICK off \in Nat :
            /\ OfFile(x) = {off + k : k \in DOMAIN q.assets}
            /\ \A k \in DOMAIN q.assets : sourced[off + k] = q.assets[k]
            /\ \A l \in q.links : <<off + l[1], off + l[2], l[3]>> \in related
      BY <1>12 DEF Laid
    <2>2. \A k \in DOMAIN q.assets : off + k \in DOMAIN sourced
      BY <2>1 DEF OfFile
    <2>3. \A k \in DOMAIN q.assets : sourced'[off + k] = q.assets[k]
      BY <1>9, <2>1, <2>2
    <2>4. OfFile(x)' = {off + k : k \in DOMAIN q.assets}
      BY <1>10, <1>12, <2>1
    <2>5. \A l \in q.links : <<off + l[1], off + l[2], l[3]>> \in related'
      BY <1>1, <2>1
    <2> QED
      BY <2>3, <2>4, <2>5 DEF Laid
  <1> QED
    BY <1>4, <1>10, <1>11, <1>12

(* What a piece shows is what there is of its file.                        *)
LEMMA LaidShows ==
  ASSUME NEW id, NEW p, Laid(p, id)
  PROVE  /\ {Row(sourced[i]) : i \in {j \in OfFile(id) : sourced[j].kind = "algorithm"}} = Rows(p)
         /\ {sourced[i].name : i \in {j \in OfFile(id) : sourced[j].kind = "protocol"}} = Heads(p)
         /\ Anchored(p) =>
              \A i \in OfFile(id) : sourced[i].kind # "protocol" =>
                \E h \in OfFile(id) : sourced[h].kind = "protocol" /\ <<i, h, "negotiated-by">> \in related
  <1>1. PICK off \in Nat :
          /\ OfFile(id) = {off + k : k \in DOMAIN p.assets}
          /\ \A k \in DOMAIN p.assets : sourced[off + k] = p.assets[k]
          /\ \A l \in p.links : <<off + l[1], off + l[2], l[3]>> \in related
    BY DEF Laid
  <1>2. \A i \in OfFile(id) : \E k \in DOMAIN p.assets : i = off + k /\ sourced[i] = p.assets[k]
    BY <1>1
  <1>3. \A k \in DOMAIN p.assets : off + k \in OfFile(id)
    BY <1>1
  <1>4. {Row(sourced[i]) : i \in {j \in OfFile(id) : sourced[j].kind = "algorithm"}} = Rows(p)
    BY <1>1, <1>2, <1>3 DEF Rows
  <1>5. {sourced[i].name : i \in {j \in OfFile(id) : sourced[j].kind = "protocol"}} = Heads(p)
    BY <1>1, <1>2, <1>3 DEF Heads
  <1>6. ASSUME Anchored(p), NEW i \in OfFile(id), sourced[i].kind # "protocol"
        PROVE  \E h \in OfFile(id) : sourced[h].kind = "protocol" /\ <<i, h, "negotiated-by">> \in related
    <2>1. PICK k \in DOMAIN p.assets : i = off + k /\ sourced[i] = p.assets[k]
      BY <1>2
    <2>2. PICK h \in DOMAIN p.assets : p.assets[h].kind = "protocol" /\ <<k, h, "negotiated-by">> \in p.links
      BY <1>6, <2>1 DEF Anchored
    <2>3. PICK l \in p.links : l = <<k, h, "negotiated-by">>
      BY <2>2
    <2>4. <<off + l[1], off + l[2], l[3]>> \in related
      BY <1>1
    <2>5. <<i, off + h, "negotiated-by">> \in related
      BY <2>1, <2>3, <2>4
    <2> QED
      BY <1>1, <1>3, <2>2, <2>5
  <1> QED
    BY <1>4, <1>5, <1>6

(* How a configuration file that the walk has been at was dealt with.      *)
DealtWith(f) ==
  \/ f.large /\ OfFile(f.id) = {}
  \/ ~f.large /\ Followed(f) /\ Laid(Joined(Handled(f), Besides(f)), f.id)
  \/ ~f.large /\ ~Followed(f) /\ (OfFile(f.id) = {} \/ Laid(Besides(f), f.id))

LEMMA DealtWithReported ==
  ASSUME NEW f, IsConfiguration(f), ReadAsMeant(f), DealtWith(f), ~f.large
  PROVE  ReportedAsPermitted(f)
  <1> DEFINE mine == OfFile(f.id)
             shown == {<<sourced[i].place[3], sourced[i].name, sourced[i].params>> :
                         i \in {j \in mine : sourced[j].kind = "algorithm"}}
             protocols == {i \in mine : sourced[i].kind = "protocol"}
             enabled == {sourced[i].name : i \in protocols}
             negotiated == \A i \in mine \ protocols : \E p \in protocols : <<i, p, "negotiated-by">> \in related
  <1>1. ASSUME NEW p, Laid(p, f.id)
        PROVE  shown = Rows(p) /\ enabled = Heads(p) /\ (Anchored(p) => negotiated)
    <2>1. shown = {Row(sourced[i]) : i \in {j \in mine : sourced[j].kind = "algorithm"}}
      BY DEF Row
    <2>2. enabled = {sourced[i].name : i \in {j \in mine : sourced[j].kind = "protocol"}}
      OBVIOUS
    <2>3. /\ {Row(sourced[i]) : i \in {j \in mine : sourced[j].kind = "algorithm"}} = Rows(p)
          /\ {sourced[i].name : i \in {j \in mine : sourced[j].kind = "protocol"}} = Heads(p)
          /\ Anchored(p) =>
               \A i \in mine : sourced[i].kind # "protocol" =>
                 \E h \in mine : sourced[h].kind = "protocol" /\ <<i, h, "negotiated-by">> \in related
      BY <1>1, LaidShows
    <2>4. Anchored(p) => negotiated
      BY <2>3
    <2> QED
      BY <2>1, <2>2, <2>3, <2>4
  <1>2. mine = {} => shown = {} /\ negotiated
    OBVIOUS
  <1>3. ReportedAsPermitted(f) =
          (/\ Followed(f) => shown = Permits(f) \cup Encrypts(f)
           /\ ~Followed(f) => shown \in {{}, IF f.kind = "smime" THEN {} ELSE Encrypts(f)}
           /\ f.kind = "webtls" /\ Followed(f) => enabled \ {"S/MIME"} = Enabled(f)
           /\ \A i \in mine \ protocols :
                \/ \E p \in protocols : <<i, p, "negotiated-by">> \in related
                \/ f.kind = "webtls" /\ Enabled(f) = {})
    BY DEF ReportedAsPermitted
  <1> HIDE DEF mine, shown, enabled
  <1>4. CASE Followed(f) /\ Laid(Joined(Handled(f), Besides(f)), f.id)
    <2>1. PICK p : p = Joined(Handled(f), Besides(f))
      OBVIOUS
    <2>2. /\ Rows(p) = Permits(f) \cup Encrypts(f)
          /\ f.kind = "webtls" => Heads(p) \ {"S/MIME"} = Enabled(f)
          /\ Anchored(p) \/ (f.kind = "webtls" /\ Enabled(f) = {})
      BY <2>1, WholeShown
    <2>3. shown = Rows(p) /\ enabled = Heads(p) /\ (Anchored(p) => negotiated)
      BY <1>1, <1>4, <2>1
    <2> QED
      BY <1>3, <1>4, <2>2, <2>3, Zenon
  <1>5. CASE ~Followed(f) /\ Laid(Besides(f), f.id)
    <2>1. /\ Rows(Besides(f)) = IF f.kind = "smime" THEN {} ELSE Encrypts(f)
          /\ Anchored(Besides(f))
      BY BesidesShown
    <2>2. shown = Rows(Besides(f)) /\ negotiated
      BY <1>1, <1>5, <2>1
    <2> QED
      BY <1>3, <1>5, <2>1, <2>2, Zenon
  <1>6. CASE ~Followed(f) /\ OfFile(f.id) = {}
    <2>1. shown = {} /\ negotiated
      BY <1>2, <1>6 DEF mine
    <2> QED
      BY <1>3, <1>6, <2>1, Zenon
  <1> QED
    BY <1>4, <1>5, <1>6 DEF DealtWith

(* How a file of code was dealt with: what it shows is there whole, or it  *)
(* is named and nothing of it is there.                                    *)
SourcePiece(f) ==
  Piece(IF f.lang = "python" THEN PythonFindings(f.id, f.nodes) ELSE PatternFindings(f.id, f.text), {})
SourceDealtWith(f) == IF Followed(f) THEN Laid(SourcePiece(f), f.id) ELSE OfFile(f.id) = {}

LEMMA LaidIsFound ==
  ASSUME NEW f, NEW p, Laid(p, f.id)
  PROVE  FoundIn(f) = Range(p.assets)
  <1>1. PICK off \in Nat : /\ OfFile(f.id) = {off + k : k \in DOMAIN p.assets}
                          /\ \A k \in DOMAIN p.assets : sourced[off + k] = p.assets[k]
    BY DEF Laid
  <1>2. FoundIn(f) = {sourced[i] : i \in OfFile(f.id)}
    BY DEF FoundIn, OfFile, Range
  <1> QED
    BY <1>1, <1>2 DEF Range

LEMMA SourceDealtWithShown ==
  ASSUME NEW f, SourceDealtWith(f)
  PROVE  /\ ~Followed(f) => FoundIn(f) = {}
         /\ f.lang = "python" /\ Followed(f) /\ IsProgram(f.nodes) /\ BoundOnce(f.nodes) => PythonShown(f)
         /\ f.lang = "pattern" /\ Followed(f) /\ IsSeq(f.text) => PatternsShown(f)
  <1>1. ~Followed(f) => FoundIn(f) = {}
    BY DEF SourceDealtWith, FoundIn, OfFile, Range
  <1>2. Followed(f) => FoundIn(f) = Range(SourcePiece(f).assets)
    BY LaidIsFound DEF SourceDealtWith
  <1>3. ASSUME f.lang = "python", Followed(f), IsProgram(f.nodes), BoundOnce(f.nodes)
        PROVE  PythonShown(f)
    <2>1. SourcePiece(f).assets = PythonFindings(f.id, f.nodes)
      BY <1>3 DEF SourcePiece, Piece
    <2> QED
      BY <1>2, <1>3, <2>1, PythonIsShown
  <1>4. ASSUME f.lang = "pattern", Followed(f), IsSeq(f.text)
        PROVE  PatternsShown(f)
    <2>1. SourcePiece(f).assets = PatternFindings(f.id, f.text)
      BY <1>4 DEF SourcePiece, Piece
    <2> QED
      BY <1>2, <1>4, <2>1, PatternIsShown
  <1> QED
    BY <1>1, <1>3, <1>4
=============================================================================
