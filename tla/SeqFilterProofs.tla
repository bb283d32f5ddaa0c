-------------------------- MODULE SeqFilterProofs ---------------------------
(***************************************************************************)
(* What SeqFilter computes, for every sequence and every set.              *)
(*                                                                         *)
(* Only is a recursive function of the length of the prefix looked at.     *)
(* The argument is by the least prefix that would not satisfy the claim,   *)
(* which exists because < on the naturals is well-founded.                 *)
(***************************************************************************)
EXTENDS SeqFilter, SequenceTheorems, WellFoundedInduction, TLAPS

\* A set of naturals that has a member has a least one.
LEMMA LeastExists ==
  ASSUME NEW S \in SUBSET Nat, S # {}
  PROVE  \E x \in S : \A y \in S : x <= y
<1>. DEFINE Less == {p \in Nat \X Nat : p[1] < p[2]}
<1>1. IsWellFoundedOn(Less, Nat)
  BY NatLessThanWellFounded, Zenon DEF OpToRel
<1>2. PICK x \in S : \A y \in S : ~(<<y, x>> \in Less)
  BY <1>1, WFMin
<1>3. ASSUME NEW y \in S
      PROVE  x <= y
  <2>1. x \in Nat /\ y \in Nat /\ <<y, x>> \in Nat \X Nat
    OBVIOUS
  <2>2. ~(<<y, x>>[1] < <<y, x>>[2])
    BY <1>2, <2>1, Zenon
  <2>. QED  BY <2>1, <2>2
<1>. QED  BY <1>2, <1>3

\* f computes the filter of the first n elements of s, for every n up to m.
Filters(f, s, keep, m) ==
  \A n \in 0..m :
    f[n] = IF n = 0 THEN <<>>
           ELSE IF s[n] \in keep THEN Append(f[n - 1], s[n])
           ELSE f[n - 1]

\* The recursive definition of Only has a solution.
LEMMA FilterExists ==
  ASSUME NEW S, NEW s \in Seq(S), NEW keep
  PROVE  \E f \in [0..Len(s) -> Seq(S)] : Filters(f, s, keep, Len(s))
<1>. DEFINE Good(m) == \E f \in [0..m -> Seq(S)] : Filters(f, s, keep, m)
            Bad == {m \in 0..Len(s) : ~Good(m)}
<1>1. Len(s) \in Nat
  OBVIOUS
<1>2. SUFFICES ASSUME Bad # {}
      PROVE  FALSE
  <2>1. Len(s) \in 0..Len(s)
    BY <1>1
  <2>. QED  BY <2>1
<1>3. Bad \in SUBSET Nat
  BY <1>1
<1>4. PICK m \in Bad : \A k \in Bad : m <= k
  BY <1>2, <1>3, LeastExists
<1>5. Good(0)
  <2>. DEFINE f == [n \in 0..0 |-> <<>>]
  <2>1. f \in [0..0 -> Seq(S)]
    OBVIOUS
  <2>2. Filters(f, s, keep, 0)
    BY DEF Filters
  <2>. QED  BY <2>1, <2>2
<1>6. m \in Nat /\ m # 0 /\ m - 1 \in 0..Len(s) /\ m \in 1..Len(s)
  <2>1. m \in 0..Len(s) /\ ~Good(m)
    OBVIOUS
  <2>2. m # 0
    BY <2>1, <1>5
  <2>. HIDE DEF Good
  <2>. QED  BY <1>1, <2>1, <2>2
<1>7. Good(m - 1)
  <2>1. ~(m <= m - 1)
    BY <1>6
  <2>. QED  BY <2>1, <1>4, <1>6
<1>8. PICK f \in [0..(m - 1) -> Seq(S)] : Filters(f, s, keep, m - 1)
  BY <1>7
<1>. DEFINE last == IF s[m] \in keep THEN Append(f[m - 1], s[m]) ELSE f[m - 1]
            g == [n \in 0..m |-> IF n = m THEN last ELSE f[n]]
<1>9. s[m] \in S /\ f[m - 1] \in Seq(S)
  BY <1>6, <1>8, ElementOfSeq
<1>10. last \in Seq(S)
  BY <1>9
<1>11. g \in [0..m -> Seq(S)]
  BY <1>6, <1>8, <1>10
<1>12. Filters(g, s, keep, m)
  <2>1. SUFFICES ASSUME NEW n \in 0..m
        PROVE  g[n] = IF n = 0 THEN <<>>
                      ELSE IF s[n] \in keep THEN Append(g[n - 1], s[n])
                      ELSE g[n - 1]
    BY DEF Filters
  <2>2. CASE n = m
    <3>1. g[n] = last /\ g[n - 1] = f[n - 1] /\ n # 0
      BY <1>6, <2>2
    <3>. QED  BY <3>1, <2>2
  <2>3. CASE n # m /\ n # 0
    <3>1. n \in 0..(m - 1) /\ n - 1 \in 0..m /\ n - 1 # m
      BY <1>6, <2>3
    <3>2. g[n] = f[n] /\ g[n - 1] = f[n - 1]
      BY <2>3, <3>1
    <3>3. f[n] = IF s[n] \in keep THEN Append(f[n - 1], s[n]) ELSE f[n - 1]
      BY <1>8, <2>3, <3>1 DEF Filters
    <3>. QED  BY <2>3, <3>2, <3>3
  <2>4. CASE n # m /\ n = 0
    <3>1. n \in 0..(m - 1)
      BY <1>6, <2>4
    <3>2. g[n] = f[n]
      BY <2>4
    <3>. QED  BY <1>8, <2>4, <3>1, <3>2 DEF Filters
  <2>. QED  BY <2>2, <2>3, <2>4
<1>. QED  BY <1>4, <1>11, <1>12

\* Only is computed by such a function.
LEMMA OnlyUnfolds ==
  ASSUME NEW S, NEW s \in Seq(S), NEW keep
  PROVE  \E f : Filters(f, s, keep, Len(s)) /\ Only(s, keep) = f[Len(s)]
<1>. DEFINE Body(f) == [n \in 0..Len(s) |->
                          IF n = 0 THEN <<>>
                          ELSE IF s[n] \in keep THEN Append(f[n - 1], s[n])
                          ELSE f[n - 1]]
            kept == CHOOSE f : f = Body(f)
<1>1. PICK f \in [0..Len(s) -> Seq(S)] : Filters(f, s, keep, Len(s))
  BY FilterExists
<1>2. f = Body(f)
  BY <1>1 DEF Filters
<1>3. kept = Body(kept)
  <2>. HIDE DEF Body
  <2>. QED  BY <1>2
<1>4. Filters(kept, s, keep, Len(s))
  <2>. HIDE DEF kept
  <2>. QED  BY <1>3 DEF Filters
<1>5. Only(s, keep) = kept[Len(s)]
  BY DEF Only
<1>. HIDE DEF kept
<1>. QED  BY <1>4, <1>5

\* e says where each element of r, a filter of the first m elements of s, came from.
Embeds(e, r, s, keep, m) ==
  /\ e \in [1..Len(r) -> 1..m]
  /\ \A i \in 1..Len(r) : r[i] = s[e[i]] /\ s[e[i]] \in keep
  /\ \A i, j \in 1..Len(r) : i < j => e[i] < e[j]
  /\ \A k \in 1..m : s[k] \in keep => \E i \in 1..Len(r) : e[i] = k

\* The first m elements, filtered, are a sequence that embeds in s.
LEMMA FilterEmbeds ==
  ASSUME NEW S, NEW s \in Seq(S), NEW keep, NEW f, Filters(f, s, keep, Len(s))
  PROVE  \A m \in 0..Len(s) : f[m] \in Seq(S) /\ \E e : Embeds(e, f[m], s, keep, m)
<1>. DEFINE Good(m) == f[m] \in Seq(S) /\ \E e : Embeds(e, f[m], s, keep, m)
            Bad == {m \in 0..Len(s) : ~Good(m)}
<1>1. Len(s) \in Nat
  OBVIOUS
<1>2. SUFFICES ASSUME Bad # {}
      PROVE  FALSE
  OBVIOUS
<1>3. Bad \in SUBSET Nat
  BY <1>1
<1>4. PICK m \in Bad : \A k \in Bad : m <= k
  BY <1>2, <1>3, LeastExists
<1>5. Good(0)
  <2>1. f[0] = <<>>
    BY <1>1 DEF Filters
  <2>. DEFINE e == [i \in 1..0 |-> 0]
  <2>2. Embeds(e, <<>>, s, keep, 0)
    BY DEF Embeds
  <2>3. <<>> \in Seq(S)
    OBVIOUS
  <2>. QED  BY <2>1, <2>2, <2>3
<1>6. m \in Nat /\ m # 0 /\ m - 1 \in 0..Len(s) /\ m \in 1..Len(s)
  <2>1. m \in 0..Len(s) /\ ~Good(m)
    OBVIOUS
  <2>2. m # 0
    BY <2>1, <1>5
  <2>. HIDE DEF Good
  <2>. QED  BY <1>1, <2>1, <2>2
<1>7. Good(m - 1)
  <2>1. ~(m <= m - 1)
    BY <1>6
  <2>. QED  BY <2>1, <1>4, <1>6
<1>8. f[m] = IF s[m] \in keep THEN Append(f[m - 1], s[m]) ELSE f[m - 1]
  BY <1>6 DEF Filters
<1>9. PICK r : r = f[m - 1]
  OBVIOUS
<1>10. PICK e : Embeds(e, r, s, keep, m - 1)
  BY <1>7, <1>9
<1>11. r \in Seq(S) /\ s[m] \in S /\ Len(r) \in Nat
  BY <1>6, <1>7, <1>9, ElementOfSeq
<1>12. CASE s[m] \notin keep
  <2>1. f[m] = r
    BY <1>8, <1>9, <1>12
  <2>2. Embeds(e, r, s, keep, m)
    <3>1. e \in [1..Len(r) -> 1..m]
      BY <1>6, <1>10, <1>11 DEF Embeds
    <3>2. \A k \in 1..m : s[k] \in keep => k \in 1..(m - 1)
      BY <1>6, <1>12
    <3>. QED  BY <1>10, <3>1, <3>2 DEF Embeds
  <2>. QED  BY <1>4, <1>11, <2>1, <2>2
<1>13. CASE s[m] \in keep
  <2>. DEFINE q == Append(r, s[m])
              g == [i \in 1..Len(q) |-> IF i = Len(q) THEN m ELSE e[i]]
  <2>1. f[m] = q
    BY <1>8, <1>9, <1>13
  <2>2. /\ q \in Seq(S) /\ Len(q) = Len(r) + 1 /\ q[Len(q)] = s[m]
        /\ \A i \in 1..Len(r) : q[i] = r[i]
    BY <1>11, AppendProperties
  <2>. HIDE DEF q
  <2>3. \A i \in 1..Len(q) : i = Len(q) \/ i \in 1..Len(r)
    BY <1>11, <2>2
  <2>4. \A i \in 1..Len(r) : g[i] = e[i] /\ e[i] \in 1..(m - 1) /\ i \in 1..Len(q)
    <3>1. SUFFICES ASSUME NEW i \in 1..Len(r)
          PROVE  g[i] = e[i] /\ e[i] \in 1..(m - 1) /\ i \in 1..Len(q)
      OBVIOUS
    <3>2. i \in 1..Len(q) /\ i # Len(q)
      BY <1>11, <2>2
    <3>3. e[i] \in 1..(m - 1)
      BY <1>10 DEF Embeds
    <3>. QED  BY <3>2, <3>3
  <2>5. g[Len(q)] = m /\ Len(q) \in 1..Len(q)
    BY <1>11, <2>2
  <2>6. g \in [1..Len(q) -> 1..m]
    <3>1. \A i \in 1..Len(q) : g[i] \in 1..m
      <4>1. SUFFICES ASSUME NEW i \in 1..Len(q)
            PROVE  g[i] \in 1..m
        OBVIOUS
      <4>. HIDE DEF g
      <4>2. CASE i = Len(q)
        BY <1>6, <2>5, <4>2
      <4>3. CASE i \in 1..Len(r)
        BY <1>6, <2>4, <4>3
      <4>. QED  BY <2>3, <4>2, <4>3
    <3>. QED  BY <3>1
  <2>. HIDE DEF g
  <2>7. \A i \in 1..Len(q) : q[i] = s[g[i]] /\ s[g[i]] \in keep
    BY <1>10, <1>13, <2>2, <2>3, <2>4, <2>5 DEF Embeds
  <2>8. \A i, j \in 1..Len(q) : i < j => g[i] < g[j]
    <3>1. ASSUME NEW i \in 1..Len(q), NEW j \in 1..Len(q), i < j
          PROVE  g[i] < g[j]
      <4>1. i \in 1..Len(r)
        BY <1>11, <2>2, <3>1
      <4>2. CASE j = Len(q)
        BY <1>6, <2>4, <2>5, <4>1, <4>2
      <4>3. CASE j \in 1..Len(r)
        BY <1>10, <2>4, <3>1, <4>1, <4>3 DEF Embeds
      <4>. QED  BY <2>3, <4>2, <4>3
    <3>. QED  BY <3>1
  <2>9. \A k \in 1..m : s[k] \in keep => \E i \in 1..Len(q) : g[i] = k
    <3>1. ASSUME NEW k \in 1..m, s[k] \in keep
          PROVE  \E i \in 1..Len(q) : g[i] = k
      <4>1. CASE k = m
        BY <2>5, <4>1
      <4>2. CASE k # m
        <5>1. k \in 1..(m - 1)
          BY <1>6, <4>2
        <5>2. PICK i \in 1..Len(r) : e[i] = k
          BY <1>10, <3>1, <5>1 DEF Embeds
        <5>. QED  BY <2>4, <5>2
      <4>. QED  BY <4>1, <4>2
    <3>. QED  BY <3>1
  <2>10. Embeds(g, q, s, keep, m)
    BY <2>6, <2>7, <2>8, <2>9 DEF Embeds
  <2>. QED  BY <1>4, <2>1, <2>2, <2>10
<1>. QED  BY <1>12, <1>13

\* A filtered list is made of the kept elements of the list, all of them, in their order.
THEOREM OnlyIsAFilter ==
  ASSUME NEW S, NEW s \in Seq(S), NEW keep
  PROVE  Only(s, keep) \in Seq(S) /\ \E e : Embeds(e, Only(s, keep), s, keep, Len(s))
<1>1. PICK f : Filters(f, s, keep, Len(s)) /\ Only(s, keep) = f[Len(s)]
  BY OnlyUnfolds
<1>2. Len(s) \in 0..Len(s)
  OBVIOUS
<1>. QED  BY <1>1, <1>2, FilterEmbeds
\* A list of which everything is kept is the list.
LEMMA OnlyKeepsAll ==
  ASSUME NEW S, NEW s \in Seq(S), NEW keep, \A k \in 1..Len(s) : s[k] \in keep
  PROVE  Only(s, keep) = s
<1>1. PICK f : Filters(f, s, keep, Len(s)) /\ Only(s, keep) = f[Len(s)]
  BY OnlyUnfolds
<1>. DEFINE Good(m) == /\ f[m] \in Seq(S) /\ Len(f[m]) = m
                       /\ \A i \in 1..m : f[m][i] = s[i]
            Bad == {m \in 0..Len(s) : ~Good(m)}
<1>2. Len(s) \in Nat
  OBVIOUS
<1>3. Good(0)
  <2>1. f[0] = <<>>
    BY <1>1, <1>2 DEF Filters
  <2>. QED  BY <2>1
<1>4. ASSUME Bad # {}
      PROVE  FALSE
  <2>1. Bad \in SUBSET Nat
    BY <1>2
  <2>2. PICK m \in Bad : \A k \in Bad : m <= k
    BY <1>4, <2>1, LeastExists
  <2>3. m \in 0..Len(s) /\ ~Good(m) /\ m # 0
    BY <1>3
  <2>. HIDE DEF Good
  <2>4. PICK n \in Nat : m = n + 1 /\ n \in 0..Len(s) /\ m \in 1..Len(s) /\ ~(m <= n)
    <3>1. m - 1 \in Nat /\ m = (m - 1) + 1 /\ m - 1 \in 0..Len(s) /\ m \in 1..Len(s) /\ ~(m <= m - 1)
      BY <1>2, <2>3
    <3>. QED  BY <3>1
  <2>5. Good(n)
    BY <2>2, <2>4
  <2>6. f[m] = Append(f[n], s[m])
    <3>1. f[m] = IF m = 0 THEN <<>> ELSE IF s[m] \in keep THEN Append(f[m - 1], s[m]) ELSE f[m - 1]
      BY <1>1, <2>3 DEF Filters
    <3>2. m - 1 = n /\ s[m] \in keep
      BY <2>4
    <3>. QED  BY <2>3, <3>1, <3>2
  <2>7. PICK r \in Seq(S), q \in Seq(S) : r = f[n] /\ q = f[m] /\ q = Append(r, s[m]) /\ Len(r) = n
    <3>1. f[n] \in Seq(S) /\ Len(f[n]) = n /\ s[m] \in S
      BY <2>4, <2>5, ElementOfSeq DEF Good
    <3>2. Append(f[n], s[m]) \in Seq(S)
      BY <3>1
    <3>. QED  BY <2>6, <3>1, <3>2
  <2>8. Len(q) = n + 1 /\ q[n + 1] = s[m] /\ \A i \in 1..n : q[i] = r[i]
    BY <2>7
  <2>9. \A i \in 1..m : q[i] = s[i]
    <3>1. \A i \in 1..n : r[i] = s[i]
      BY <2>5, <2>7 DEF Good
    <3>2. \A i \in 1..m : i = n + 1 \/ i \in 1..n
      BY <2>4
    <3>. QED  BY <2>4, <2>8, <3>1, <3>2
  <2>10. Good(m)
    BY <2>4, <2>7, <2>8, <2>9 DEF Good
  <2>. QED  BY <2>3, <2>10
<1>5. Good(Len(s))
  <2>1. Len(s) \in 0..Len(s)
    BY <1>2
  <2>. QED  BY <1>4, <2>1
<1>6. PICK q \in Seq(S) : q = Only(s, keep) /\ Len(q) = Len(s) /\ \A i \in 1..Len(s) : q[i] = s[i]
  BY <1>1, <1>5
<1>7. q = s
  BY <1>6, SeqEqual
<1>. QED  BY <1>6, <1>7

=============================================================================
