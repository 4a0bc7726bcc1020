----------------------------- MODULE SumsProofs -----------------------------
(***************************************************************************)
(* Induction over the natural numbers for sets, from the finiteness of     *)
(* bounded sets of numbers, and with it what sums are.                     *)
(***************************************************************************)
EXTENDS Sums, FiniteSets, Functions, FiniteSetTheorems, TLAPS

\* A set closed under successor that misses k would map its part below k one to one
\* into that part without 0, which is smaller.
LEMMA SetInduction ==
    ASSUME NEW S, 0 \in S, \A n \in Nat : n \in S => n + 1 \in S
    PROVE  Nat \subseteq S
  <1> SUFFICES ASSUME NEW k \in Nat, k \notin S
               PROVE  FALSE
    OBVIOUS
  <1> DEFINE below == {n \in 0..k : n \in S}
             positive == below \ {0}
             next == [n \in below |-> n + 1]
  <1>1. IsFiniteSet(below) /\ 0 \in below
    <2>1. below \in SUBSET Nat /\ \A n \in below : n <= k
      OBVIOUS
    <2>2. IsFiniteSet(below)
      BY <2>1, FS_BoundedSetOfNaturals
    <2> QED
      BY <2>2
  <1>2. /\ IsFiniteSet(positive)
        /\ Cardinality(positive) = Cardinality(below) - 1 /\ Cardinality(below) \in Nat
    BY <1>1, FS_RemoveElement, FS_CardinalityType
  <1>3. next \in Injection(below, positive)
    <2>1. \A n \in below : n + 1 \in positive
      OBVIOUS
    <2> QED
      BY <2>1 DEF Injection, IsInjective
  <1>4. Cardinality(below) <= Cardinality(positive)
    BY <1>1, <1>2, <1>3, FS_Injection
  <1> QED
    BY <1>2, <1>4

-----------------------------------------------------------------------------

\* s is the function of partial sums of f up to n.
Sums(s, f, n) == s = [m \in 0..n |-> IF m = 0 THEN 0 ELSE s[m - 1] + f[m]]

LEMMA SumsExist ==
    ASSUME NEW f
    PROVE  \A n \in Nat : \E s : Sums(s, f, n)
  <1> DEFINE good == {n \in Nat : \E s : Sums(s, f, n)}
  <1>1. 0 \in good
    <2> DEFINE s == [m \in 0..0 |-> 0]
    <2>1. Sums(s, f, 0)
      BY DEF Sums
    <2> QED
      BY <2>1
  <1>2. ASSUME NEW n \in Nat, n \in good
        PROVE  n + 1 \in good
    <2> PICK s : Sums(s, f, n)
      BY <1>2
    <2> DEFINE t == [m \in 0..(n + 1) |-> IF m = n + 1 THEN s[n] + f[m] ELSE s[m]]
    <2>1. \A m \in 0..n : s[m] = IF m = 0 THEN 0 ELSE s[m - 1] + f[m]
      BY DEF Sums
    <2>2. \A m \in 0..(n + 1) : t[m] = IF m = 0 THEN 0 ELSE t[m - 1] + f[m]
      <3> SUFFICES ASSUME NEW m \in 0..(n + 1)
                   PROVE  t[m] = IF m = 0 THEN 0 ELSE t[m - 1] + f[m]
        OBVIOUS
      <3>1. CASE m = n + 1
        BY <3>1
      <3>2. CASE m \in 1..n
        BY <2>1, <3>2
      <3>3. CASE m = 0
        BY <2>1, <3>3
      <3> QED
        BY <3>1, <3>2, <3>3
    <2>3. Sums(t, f, n + 1)
      <3>1. t = [m \in 0..(n + 1) |-> t[m]]
        OBVIOUS
      <3> HIDE DEF t
      <3>2. [m \in 0..(n + 1) |-> t[m]]
            = [m \in 0..(n + 1) |-> IF m = 0 THEN 0 ELSE t[m - 1] + f[m]]
        BY <2>2
      <3> QED
        BY <3>1, <3>2 DEF Sums
    <2> QED
      BY <2>3
  <1> HIDE DEF good
  <1>3. Nat \subseteq good
    BY <1>1, <1>2, SetInduction
  <1> QED
    BY <1>3 DEF good

\* Partial sums of functions that agree up to k agree up to k.
LEMMA SumsAgree ==
    ASSUME NEW f, NEW g, NEW n \in Nat, NEW l \in Nat, NEW s, NEW t, NEW k \in Nat,
           Sums(s, f, n), Sums(t, g, l), k <= n, k <= l, \A i \in 1..k : f[i] = g[i]
    PROVE  s[k] = t[k]
  <1> DEFINE good == {m \in Nat : m <= k => s[m] = t[m]}
  <1>1. /\ \A m \in 0..n : s[m] = IF m = 0 THEN 0 ELSE s[m - 1] + f[m]
        /\ \A m \in 0..l : t[m] = IF m = 0 THEN 0 ELSE t[m - 1] + g[m]
    BY DEF Sums
  <1>2. 0 \in good
    BY <1>1
  <1>3. ASSUME NEW m \in Nat, m \in good
        PROVE  m + 1 \in good
    <2> SUFFICES ASSUME m + 1 <= k
                 PROVE  s[m + 1] = t[m + 1]
      OBVIOUS
    <2>1. s[m] = t[m] /\ m + 1 \in 1..k /\ m + 1 \in 0..n /\ m + 1 \in 0..l /\ (m + 1) - 1 = m
      BY <1>3
    <2>2. s[m + 1] = s[m] + f[m + 1] /\ t[m + 1] = t[m] + g[m + 1]
      BY <1>1, <2>1
    <2> QED
      BY <2>1, <2>2
  <1> HIDE DEF good
  <1>4. k \in good
    BY <1>2, <1>3, SetInduction
  <1> QED
    BY <1>4 DEF good

LEMMA SumIsLast ==
    ASSUME NEW f, NEW n \in Nat
    PROVE  \E s : Sums(s, f, n) /\ SumUpTo(f, n) = s[n]
  <1> DEFINE s == CHOOSE r : Sums(r, f, n)
  <1>1. Sums(s, f, n)
    BY SumsExist
  <1>2. SumUpTo(f, n) = s[n]
    BY DEF SumUpTo, Sums
  <1> QED
    BY <1>1, <1>2

-----------------------------------------------------------------------------

LEMMA SumOfNone ==
    ASSUME NEW f
    PROVE  SumUpTo(f, 0) = 0
  <1> PICK s : Sums(s, f, 0) /\ SumUpTo(f, 0) = s[0]
    BY SumIsLast
  <1> QED
    BY DEF Sums

LEMMA SumOfSame ==
    ASSUME NEW f, NEW g, NEW n \in Nat, \A i \in 1..n : f[i] = g[i]
    PROVE  SumUpTo(f, n) = SumUpTo(g, n)
  <1> PICK s : Sums(s, f, n) /\ SumUpTo(f, n) = s[n]
    BY SumIsLast
  <1> PICK t : Sums(t, g, n) /\ SumUpTo(g, n) = t[n]
    BY SumIsLast
  <1>1. s[n] = t[n]
    <2>1. n <= n
      OBVIOUS
    <2>2. /\ Sums(s, f, n) /\ Sums(t, g, n)
          /\ \A i \in 1..n : f[i] = g[i]
      OBVIOUS
    <2> QED
      BY ONLY n \in Nat, <2>1, <2>2, SumsAgree
  <1> QED
    BY <1>1

LEMMA SumOfNext ==
    ASSUME NEW f, NEW n \in Nat
    PROVE  SumUpTo(f, n + 1) = SumUpTo(f, n) + f[n + 1]
  <1> PICK s : Sums(s, f, n) /\ SumUpTo(f, n) = s[n]
    BY SumIsLast
  <1> PICK t : Sums(t, f, n + 1) /\ SumUpTo(f, n + 1) = t[n + 1]
    BY SumIsLast
  <1>1. s[n] = t[n]
    BY SumsAgree
  <1>2. t[n + 1] = t[n] + f[n + 1]
    BY DEF Sums
  <1> QED
    BY <1>1, <1>2

\* The sum of a function that is g up to n and x at n + 1.
LEMMA SumExtended ==
    ASSUME NEW f, NEW g, NEW n \in Nat, NEW x,
           \A i \in 1..n : f[i] = g[i], f[n + 1] = x
    PROVE  SumUpTo(f, n + 1) = SumUpTo(g, n) + x
  BY SumOfNext, SumOfSame

LEMMA SumOfZeros ==
    ASSUME NEW f, NEW n \in Nat, \A i \in 1..n : f[i] = 0
    PROVE  SumUpTo(f, n) = 0
  <1> DEFINE good == {m \in Nat : m <= n => SumUpTo(f, m) = 0}
  <1>1. 0 \in good
    BY SumOfNone
  <1>2. ASSUME NEW m \in Nat, m \in good
        PROVE  m + 1 \in good
    BY <1>2, SumOfNext
  <1>3. n \in good
    <2> HIDE DEF good
    <2> QED
      BY <1>1, <1>2, SetInduction
  <1> QED
    BY <1>3 DEF good

LEMMA SumIsInteger ==
    ASSUME NEW f, NEW n \in Nat, \A i \in 1..n : f[i] \in Int
    PROVE  SumUpTo(f, n) \in Int
  <1> DEFINE good == {m \in Nat : m <= n => SumUpTo(f, m) \in Int}
  <1>1. 0 \in good
    BY SumOfNone
  <1>2. ASSUME NEW m \in Nat, m \in good
        PROVE  m + 1 \in good
    BY <1>2, SumOfNext
  <1> HIDE DEF good
  <1>3. n \in good
    BY <1>1, <1>2, SetInduction
  <1> QED
    BY <1>3 DEF good
=============================================================================
