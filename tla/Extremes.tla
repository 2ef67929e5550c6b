------------------------------ MODULE Extremes ------------------------------
(* What Max and Min return, induction, and ascending lists: lemmas for the      *)
(* other modules' proofs.                                                       *)
EXTENDS Integers, SequencesExt, WellFoundedInduction, FiniteSetTheorems, TLAPS

\* A nonempty set of numbers up to n has a greatest element, and Max names it.
LEMMA MaxIsGreatest ==
    ASSUME NEW n \in Nat, NEW S \in SUBSET (1 .. n), S # {}
    PROVE  /\ Max(S) \in S
           /\ \A y \in S : Max(S) >= y
<1> DEFINE T == {n - i : i \in S}
<1>1. T \in SUBSET Nat /\ T # {}
  <2>1. \A i \in S : n - i \in Nat
    OBVIOUS
  <2>2. PICK i \in S : TRUE
    OBVIOUS
  <2>3. n - i \in T
    BY <2>2
  <2> QED
    BY <2>1, <2>3
<1>2. PICK x \in T : \A y \in T : ~ (<<y, x>> \in OpToRel(<, Nat))
  BY <1>1, NatLessThanWellFounded, WFMin
<1>3. \A y \in T : x <= y
  <2> SUFFICES ASSUME NEW y \in T PROVE x <= y
    OBVIOUS
  <2>1. x \in Nat /\ y \in Nat
    BY <1>1, <1>2
  <2> HIDE DEF T
  <2>2. ~(y < x)
    BY <1>2, <2>1 DEF OpToRel
  <2> QED
    BY <2>1, <2>2
<1>4. PICK m \in S : x = n - m
  BY <1>2
<1>5. \A y \in S : m >= y
  <2> TAKE y \in S
  <2>1. x <= n - y
    BY <1>3
  <2> QED
    BY <2>1, <1>4
<1> QED
  BY <1>4, <1>5 DEF Max

\* And a least one, which Min names.
LEMMA MinIsLeast ==
    ASSUME NEW n \in Nat, NEW S \in SUBSET (1 .. n), S # {}
    PROVE  /\ Min(S) \in S
           /\ \A y \in S : Min(S) <= y
<1>1. S \in SUBSET Nat
  OBVIOUS
<1>2. PICK x \in S : \A y \in S : ~ (<<y, x>> \in OpToRel(<, Nat))
  BY <1>1, NatLessThanWellFounded, WFMin
<1>3. \A y \in S : x <= y
  <2> SUFFICES ASSUME NEW y \in S PROVE x <= y
    OBVIOUS
  <2>1. x \in Nat /\ y \in Nat
    BY <1>1
  <2>2. ~(y < x)
    BY <1>2, <2>1 DEF OpToRel
  <2> QED
    BY <2>1, <2>2
<1> QED
  BY <1>3 DEF Min

\* What holds at a, and passes from each number to the next, holds up to b.
LEMMA Reaches ==
    ASSUME NEW a \in Int, NEW b \in Int, NEW S, a \in S,
           \A k \in a .. b - 1 : k \in S => k + 1 \in S
    PROVE  \A k \in a .. b : k \in S
<1> DEFINE Wrong == {n \in Nat : a + n <= b /\ a + n \notin S}
<1>1. CASE Wrong # {}
  <2>1. PICK n \in Wrong : \A y \in Wrong : ~(<<y, n>> \in OpToRel(<, Nat))
    BY <1>1, NatLessThanWellFounded, WFMin
  <2>2. n \in Nat /\ a + n <= b /\ a + n \notin S
    OBVIOUS
  <2>3. n # 0
    BY <2>2
  <2>4. n - 1 \in Nat /\ n - 1 < n
    BY <2>2, <2>3
  <2>5. n - 1 \notin Wrong
    BY <2>1, <2>2, <2>4 DEF OpToRel
  <2>6. a + (n - 1) \in S
    BY <2>2, <2>4, <2>5
  <2>7. (a + (n - 1)) + 1 = a + n /\ a + (n - 1) \in a .. b - 1
    BY <2>2, <2>4
  <2> HIDE DEF Wrong
  <2> QED
    BY <2>2, <2>6, <2>7
<1>2. CASE Wrong = {}
  <2> TAKE k \in a .. b
  <2>1. k - a \in Nat /\ a + (k - a) = k /\ k <= b
    OBVIOUS
  <2>2. k - a \notin Wrong
    BY <1>2
  <2> QED
    BY <2>1, <2>2
<1> QED
  BY <1>1, <1>2

-----------------------------------------------------------------------------
(* Ascending lists. *)

Ascends(s) == \A j, k \in DOMAIN s : j < k => s[j] < s[k]

\* A set of numbers up to n is finite and has at most n elements.
LEMMA UpToIsFinite ==
    ASSUME NEW n \in Nat, NEW S \in SUBSET (1 .. n)
    PROVE  /\ IsFiniteSet(S)
           /\ Cardinality(S) \in 0 .. n
           /\ Cardinality(S) = n => S = 1 .. n
<1>1. IsFiniteSet(1 .. n) /\ Cardinality(1 .. n) = n
  <2>1. Cardinality(1 .. n) = IF 1 > n THEN 0 ELSE n - 1 + 1
    BY FS_Interval
  <2> QED
    BY <2>1, FS_Interval
<1>2. /\ IsFiniteSet(S)
      /\ Cardinality(S) <= Cardinality(1 .. n)
      /\ Cardinality(1 .. n) = Cardinality(S) => 1 .. n = S
  BY <1>1, FS_Subset
<1>3. Cardinality(S) \in Nat
  BY <1>2, FS_CardinalityType
<1> QED
  BY <1>1, <1>2, <1>3

\* It can be listed in ascending order.
LEMMA CanBeListed ==
    ASSUME NEW n \in Nat, NEW S \in SUBSET (1 .. n)
    PROVE  \E s \in SetToSeqs(S) : Ascends(s)
<1> DEFINE P == {m \in Nat : \A T \in SUBSET (1 .. m) : \E s \in SetToSeqs(T) : Ascends(s)}
<1>1. 0 \in P
  <2> SUFFICES ASSUME NEW T \in SUBSET (1 .. 0) PROVE \E s \in SetToSeqs(T) : Ascends(s)
    OBVIOUS
  <2>1. Cardinality(T) = 0
    BY UpToIsFinite
  <2> DEFINE none == [i \in 1 .. 0 |-> 0]
  <2>2. none \in SetToSeqs(T) /\ Ascends(none)
    BY <2>1 DEF SetToSeqs, Ascends
  <2> QED
    BY <2>2
<1>2. ASSUME NEW m \in Nat, m \in P PROVE m + 1 \in P
  <2> SUFFICES ASSUME NEW T \in SUBSET (1 .. m + 1) PROVE \E s \in SetToSeqs(T) : Ascends(s)
    OBVIOUS
  <2>1. CASE m + 1 \notin T
    <3>1. T \in SUBSET (1 .. m)
      BY <2>1
    <3> QED
      BY <1>2, <3>1
  <2>2. CASE m + 1 \in T
    <3> DEFINE U == T \ {m + 1}
    <3>1. U \in SUBSET (1 .. m)
      OBVIOUS
    <3>2. PICK s \in SetToSeqs(U) : Ascends(s)
      BY <1>2, <3>1
    <3> DEFINE c == Cardinality(U)
    <3>3. c \in Nat /\ Cardinality(T) = c + 1
      <4>1. IsFiniteSet(T) /\ Cardinality(T) \in Nat
        BY UpToIsFinite, m + 1 \in Nat
      <4>2. Cardinality(U) = Cardinality(T) - 1
        BY <2>2, <4>1, FS_RemoveElement
      <4>3. Cardinality(U) \in Nat
        BY <3>1, UpToIsFinite
      <4> QED
        BY <4>1, <4>2, <4>3
    <3>4. /\ s \in [1 .. c -> U] /\ DOMAIN s = 1 .. c
          /\ \A i, j \in 1 .. c : i # j => s[i] # s[j]
      BY <3>2 DEF SetToSeqs
    <3> HIDE DEF c
    <3> DEFINE t == [i \in 1 .. c + 1 |-> IF i <= c THEN s[i] ELSE m + 1]
    <3>5. \A i \in 1 .. c : s[i] \in T /\ s[i] \in 1 .. m
      BY <3>1, <3>4
    <3>6. t \in [1 .. c + 1 -> T]
      BY <2>2, <3>3, <3>5
    <3>7. \A i, j \in 1 .. c + 1 : i < j => t[i] < t[j]
      BY <3>2, <3>3, <3>4, <3>5 DEF Ascends
    <3>8. \A i \in 1 .. c + 1 : t[i] \in 1 .. m + 1
      BY <3>6
    <3>9. \A i, j \in 1 .. c + 1 : i # j => t[i] # t[j]
      <4> HIDE DEF t
      <4> QED
        BY <3>3, <3>7, <3>8
    <3>10. t \in SetToSeqs(T)
      BY <3>3, <3>6, <3>9 DEF SetToSeqs
    <3>11. Ascends(t)
      BY <3>6, <3>7 DEF Ascends
    <3> QED
      BY <3>10, <3>11
  <2> QED
    BY <2>1, <2>2
<1>3. n \in P
  <2>1. n \in Int /\ 0 \in Int
    OBVIOUS
  <2>2. \A m \in 0 .. n - 1 : m \in P => m + 1 \in P
    BY <1>2
  <2> HIDE DEF P
  <2>3. \A m \in 0 .. n : m \in P
    BY <1>1, <2>1, <2>2, Reaches
  <2> QED
    BY <2>3
<1> QED
  BY <1>3

=============================================================================
