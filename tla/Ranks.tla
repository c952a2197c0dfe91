------------------------------- MODULE Ranks -------------------------------
(***************************************************************************)
(* Finite sets of numbers in ascending order, for what the server and the  *)
(* client pick out of tables and streams: the rows or frames that satisfy  *)
(* a condition, oldest first.                                              *)
(***************************************************************************)
EXTENDS Integers, Sequences, FiniteSetTheorems, WellFoundedInduction, TLAPS

\* The r-th smallest member of S, a finite set of numbers.
Nth(S, r) == CHOOSE x \in S : Cardinality({y \in S : y <= x}) = r

----------------------------------------------------------------------------
\* e lists S in ascending order.
Lists(e, S) ==
    /\ \A i \in DOMAIN e : e[i] \in S
    /\ \A i, j \in DOMAIN e : i < j => e[i] < e[j]
    /\ \A x \in S : \E i \in DOMAIN e : e[i] = x

\* A set of numbers that has a property has a least member.
LEMMA LeastOf ==
    ASSUME NEW S, S \subseteq Nat, S # {}
    PROVE  \E x \in S : \A y \in S : x <= y
<1>1. PICK x \in S : \A y \in S : ~(<<y, x>> \in OpToRel(<, Nat))
  BY WFMin, NatLessThanWellFounded, Zenon
<1>2. \A y \in S : ~(y < x)
  <2>1. ASSUME NEW y \in S, y < x PROVE <<y, x>> \in OpToRel(<, Nat)
    BY <2>1, Zenon DEF OpToRel
  <2>. QED
    BY <1>1, <2>1
<1>. QED
  BY <1>2

\* Induction: a set that has 0, and with each number below n the next, has n.
LEMMA Climb ==
    ASSUME NEW S, NEW n \in Nat, 0 \in S, \A i \in 1 .. n : i - 1 \in S => i \in S
    PROVE  n \in S
<1>. DEFINE D == {i \in 0 .. n : i \notin S}
<1>1. SUFFICES ASSUME D # {} PROVE FALSE
  BY <1>1
<1>2. PICK l \in D : \A y \in D : l <= y
  <2>1. D \subseteq Nat
    OBVIOUS
  <2>. HIDE DEF D
  <2>. QED
    BY <1>1, <2>1, LeastOf
<1>3. l \in 1 .. n /\ l - 1 \in 0 .. n /\ ~(l <= l - 1)
  BY <1>2
<1>4. l - 1 \in S
  BY <1>2, <1>3
<1>. QED
  BY <1>2, <1>3, <1>4

\* A list of S has as many entries as S has members.
LEMMA ListLength ==
    ASSUME NEW n \in Nat, NEW S, NEW e \in [1 .. n -> Nat], S \subseteq Nat, Lists(e, S)
    PROVE  IsFiniteSet(S) /\ Cardinality(S) = n
<1>1. e \in Bijection(1 .. n, S)
  <2>1. e \in [1 .. n -> S]
    BY DEF Lists
  <2>2. \A i, j \in 1 .. n : e[i] = e[j] => i = j
    BY DEF Lists
  <2>3. \A x \in S : \E i \in 1 .. n : e[i] = x
    BY DEF Lists
  <2>. QED
    BY <2>1, <2>2, <2>3 DEF Bijection, Injection, Surjection, IsInjective
<1>2. ExistsBijection(1 .. n, S)
  BY <1>1 DEF ExistsBijection
<1>3. IsFiniteSet(1 .. n) /\ Cardinality(1 .. n) = n
  BY FS_Interval
<1>. QED
  BY <1>2, <1>3, FS_Bijection

\* The r-th entry of a list is the r-th smallest member.
LEMMA NthOfList ==
    ASSUME NEW n \in Nat, NEW S, NEW e \in [1 .. n -> Nat], S \subseteq Nat, Lists(e, S),
           NEW r \in 1 .. n
    PROVE  Nth(S, r) = e[r]
<1>. DEFINE Upto(x) == {y \in S : y <= x}
<1>1. ASSUME NEW q \in 1 .. n PROVE Cardinality(Upto(e[q])) = q
  <2>. DEFINE g == [i \in 1 .. q |-> e[i]]
  <2>1. q \in Nat /\ g \in [1 .. q -> Nat] /\ DOMAIN g = 1 .. q /\ 1 .. q \subseteq 1 .. n
        /\ \A i \in 1 .. q : g[i] = e[i]
    OBVIOUS
  <2>. HIDE DEF g
  <2>2. \A i, j \in 1 .. n : e[i] \in Nat /\ e[i] \in S /\ (i < j => e[i] < e[j])
    BY DEF Lists
  <2>3. \A i \in 1 .. q : i = q \/ i < q
    OBVIOUS
  <2>4. \A i \in 1 .. q : g[i] \in Upto(e[q])
    BY <2>1, <2>2, <2>3
  <2>5. ASSUME NEW x \in Upto(e[q]) PROVE \E i \in 1 .. q : g[i] = x
    <3>1. PICK i \in 1 .. n : e[i] = x
      BY DEF Lists
    <3>2. ~(q < i)
      BY <2>2, <3>1
    <3>3. i \in 1 .. q
      BY <3>2
    <3>. QED
      BY <2>1, <3>1, <3>3
  <2>6. Lists(g, Upto(e[q]))
    BY <2>1, <2>2, <2>4, <2>5 DEF Lists
  <2>7. Upto(e[q]) \subseteq Nat
    OBVIOUS
  <2>. HIDE DEF Upto
  <2>. QED
    BY <2>1, <2>6, <2>7, ListLength
<1>. HIDE DEF Upto
<1>2. ASSUME NEW x \in S, Cardinality(Upto(x)) = r PROVE x = e[r]
  <2>1. PICK i \in 1 .. n : e[i] = x
    BY DEF Lists
  <2>. QED
    BY <1>1, <1>2, <2>1
<1>3. e[r] \in S
  BY DEF Lists
<1>. QED
  BY <1>1, <1>2, <1>3 DEF Nth, Upto

\* Every finite set of positive numbers has a list.
LEMMA ListExists ==
    ASSUME NEW S, NEW m \in Nat, S \subseteq 1 .. m
    PROVE  \E n \in Nat : \E e \in [1 .. n -> Nat] : Lists(e, S)
<1>. DEFINE Part(l) == {x \in S : x <= l}
            Listed(l) == \E n \in Nat : \E e \in [1 .. n -> Nat] : Lists(e, Part(l))
            D == {l \in Nat : ~Listed(l)}
<1>0. \A x \in S : x \in Nat /\ 1 <= x /\ x <= m
  OBVIOUS
<1>1. D = {}
  <2>. SUFFICES ASSUME D # {} PROVE FALSE
    OBVIOUS
  <2>1. PICK l \in D : \A y \in D : l <= y
    <3>1. D \subseteq Nat
      OBVIOUS
    <3>. HIDE DEF D
    <3>. QED
      BY <3>1, LeastOf
  <2>2. l \in Nat /\ ~Listed(l)
    BY <2>1
  <2>3. CASE l = 0
    <3>. DEFINE e == [i \in 1 .. 0 |-> 0]
    <3>1. e \in [1 .. 0 -> Nat] /\ Part(l) = {} /\ DOMAIN e = {}
      <4>1. \A x \in S : ~(x <= l)
        BY <1>0, <2>3
      <4>2. Part(l) = {}
        BY <4>1
      <4>3. e \in [1 .. 0 -> Nat] /\ DOMAIN e = 1 .. 0 /\ 1 .. 0 = {}
        OBVIOUS
      <4>. QED
        BY <4>2, <4>3
    <3>2. Lists(e, Part(l))
      BY <3>1 DEF Lists
    <3>. QED
      BY <2>2, <3>1, <3>2
  <2>4. CASE l > 0
    <3>1. l - 1 \in Nat /\ Listed(l - 1)
      <4>1. l - 1 \in Nat /\ ~(l <= l - 1)
        BY <2>2, <2>4
      <4>2. l - 1 \notin D
        BY <2>1, <4>1
      <4>. QED
        BY <4>1, <4>2
    <3>2. PICK n \in Nat : \E e \in [1 .. n -> Nat] : Lists(e, Part(l - 1))
      BY <3>1
    <3>3. PICK e \in [1 .. n -> Nat] : Lists(e, Part(l - 1))
      BY <3>2
    <3>4. CASE l \notin S
      <4>1. Part(l) = Part(l - 1)
        <5>1. \A x \in S : x <= l <=> x <= l - 1
          BY <1>0, <2>2, <3>4
        <5>. QED
          BY <5>1
      <4>. QED
        BY <2>2, <3>3, <4>1
    <3>5. CASE l \in S
      <4>. DEFINE g == [i \in 1 .. n + 1 |-> IF i <= n THEN e[i] ELSE l]
      <4>1. g \in [1 .. n + 1 -> Nat]
        BY <2>2
      <4>2. Part(l) = Part(l - 1) \cup {l}
        <5>1. \A x \in S : x <= l <=> x <= l - 1 \/ x = l
          BY <1>0, <2>2, <3>5
        <5>2. l <= l
          BY <2>2
        <5>. QED
          BY <3>5, <5>1, <5>2
      <4>3. \A x \in Part(l - 1) : x \in Nat /\ x < l
        BY <2>2
      <4>4. \A i \in 1 .. n : e[i] \in Part(l - 1) /\ g[i] = e[i]
        BY <3>3 DEF Lists
      <4>5. g[n + 1] = l /\ DOMAIN g = 1 .. n + 1 /\ DOMAIN e = 1 .. n
        OBVIOUS
      <4>. HIDE DEF g, Part
      <4>6. \A i \in DOMAIN g : g[i] \in Part(l)
        BY <4>2, <4>4, <4>5
      <4>7. \A i, j \in DOMAIN g : i < j => g[i] < g[j]
        <5>. SUFFICES ASSUME NEW i \in 1 .. n + 1, NEW j \in 1 .. n + 1, i < j
                      PROVE  g[i] < g[j]
          BY <4>5
        <5>0. i \in 1 .. n
          OBVIOUS
        <5>1. CASE j \in 1 .. n
          BY <3>3, <4>4, <4>5, <5>0, <5>1 DEF Lists
        <5>2. CASE j = n + 1
          BY <4>3, <4>4, <4>5, <5>0, <5>2
        <5>. QED
          BY <5>1, <5>2
      <4>8. \A x \in Part(l) : \E i \in DOMAIN g : g[i] = x
        <5>1. \A x \in Part(l - 1) : \E i \in 1 .. n : e[i] = x
          BY <3>3, <4>5 DEF Lists
        <5>2. 1 .. n \subseteq DOMAIN g /\ n + 1 \in DOMAIN g
          BY <4>5
        <5>3. \A x \in Part(l - 1) : \E i \in DOMAIN g : g[i] = x
          BY <4>4, <5>1, <5>2
        <5>. QED
          BY <4>2, <4>5, <5>2, <5>3
      <4>9. Lists(g, Part(l))
        BY <4>6, <4>7, <4>8 DEF Lists
      <4>. QED
        BY <2>2, <4>1, <4>9
    <3>. QED
      BY <3>4, <3>5
  <2>. QED
    BY <2>2, <2>3, <2>4
<1>2. Listed(m)
  BY <1>1
<1>3. Part(m) = S
  BY <1>0
<1>. QED
  BY <1>2, <1>3
=============================================================================
