---------------------------- MODULE ReadingProofs ----------------------------
(***************************************************************************)
(* Proofs about RoundTrip that cross every column with every type: what is *)
(* read of any cell is what the cell holds, and a type reads what its      *)
(* columns hold.                                                           *)
(***************************************************************************)
EXTENDS RoundTripProofs

-----------------------------------------------------------------------------
(* Rounding to a float. *)

\* Powers of two multiply.
LEMMA TwoToAdds ==
    ASSUME NEW m \in Nat, NEW n \in Nat
    PROVE  TwoTo[m + n] = TwoTo[m] * TwoTo[n]
<1> DEFINE S == {i \in Nat : TwoTo[m + i] = TwoTo[m] * TwoTo[i]}
<1>1. 0 \in S /\ 0 \in Int /\ n \in Int
  <2>1. TwoTo[m] \in Nat /\ m + 0 = m
    BY TwoToDoubles
  <2> QED
    BY <2>1, TwoToDoubles
<1>2. \A k \in 0 .. n - 1 : k \in S => k + 1 \in S
  <2> SUFFICES ASSUME NEW k \in 0 .. n - 1, k \in S PROVE k + 1 \in S
    OBVIOUS
  <2> DEFINE a == TwoTo[m]
             b == TwoTo[k]
  <2>1. k \in Nat /\ m + k \in Nat /\ m + (k + 1) = (m + k) + 1
    OBVIOUS
  <2>2. a \in Nat /\ b \in Nat /\ TwoTo[k + 1] = 2 * b /\ TwoTo[m + (k + 1)] = 2 * (a * b)
    BY <2>1, TwoToDoubles
  <2> HIDE DEF a, b
  <2>3. a * (2 * b) = 2 * (a * b)
    BY <2>2
  <2> QED
    BY <2>1, <2>2, <2>3 DEF a, b
<1> HIDE DEF S
<1>3. \A k \in 0 .. n : k \in S
  BY <1>1, <1>2, Reaches
<1> QED
  BY <1>3 DEF S

\* A number is less than the power of two it is the exponent of.
LEMMA TwoToAbove ==
    ASSUME NEW n \in Nat
    PROVE  n < TwoTo[n]
<1> DEFINE S == {i \in Nat : i < TwoTo[i]}
<1>1. 0 \in S /\ 0 \in Int /\ n \in Int
  BY TwoToDoubles
<1>2. \A k \in 0 .. n - 1 : k \in S => k + 1 \in S
  <2> SUFFICES ASSUME NEW k \in 0 .. n - 1, k \in S PROVE k + 1 \in S
    OBVIOUS
  <2>1. k \in Nat /\ TwoTo[k] \in Nat /\ k < TwoTo[k] /\ TwoTo[k + 1] = 2 * TwoTo[k]
    BY TwoToDoubles
  <2> QED
    BY <2>1
<1> HIDE DEF S
<1>3. \A k \in 0 .. n : k \in S
  BY <1>1, <1>2, Reaches
<1> QED
  BY <1>3 DEF S

LEMMA AbsIs ==
    ASSUME NEW n \in Int
    PROVE  /\ Abs(n) \in Nat
           /\ n >= 0 => Abs(n) = n
           /\ n < 0 => Abs(n) = -n
BY DEF Abs

\* The power of two that the float nearest to a number is a multiple of.
IsExponent(q, bits, e) ==
    /\ Abs(q) < TwoTo[bits + e]
    /\ e = 0 \/ Abs(q) >= TwoTo[bits + e - 1]

LEMMA ExponentExists ==
    ASSUME NEW q \in Int, NEW bits \in Nat \ {0}
    PROVE  \E e \in 0 .. Abs(q) : IsExponent(q, bits, e)
<1> DEFINE n == Abs(q)
           S == {i \in 0 .. n : \A j \in 0 .. i : n >= TwoTo[bits + j]}
<1>1. n \in Nat
  BY AbsIs
<1> HIDE DEF n
<1>2. n < TwoTo[bits + n]
  <2>1. bits + n \in Nat /\ n < bits + n
    BY <1>1
  <2>2. bits + n < TwoTo[bits + n] /\ TwoTo[bits + n] \in Nat
    BY <2>1, TwoToAbove, TwoToDoubles
  <2> QED
    BY <1>1, <2>1, <2>2
<1>3. n \notin S
  BY <1>1, <1>2, TwoToDoubles
<1>4. CASE 0 \notin S
  <2>1. ~(n >= TwoTo[bits + 0]) /\ TwoTo[bits + 0] \in Nat
    BY <1>1, <1>4, TwoToDoubles
  <2>2. IsExponent(q, bits, 0) /\ 0 \in 0 .. n
    BY <1>1, <2>1 DEF IsExponent, n
  <2> QED
    BY <2>2 DEF n
<1>5. CASE 0 \in S
  <2>1. PICK k \in 0 .. n - 1 : k \in S /\ k + 1 \notin S
    <3>1. 0 \in Int /\ n \in Int /\ n \in 0 .. n
      BY <1>1
    <3> HIDE DEF S
    <3> QED
      BY <1>3, <1>5, <3>1, Reaches
  <2>2. k \in Nat /\ k + 1 \in 0 .. n /\ n >= TwoTo[bits + k]
    BY <1>1, <2>1
  <2>3. ~(n >= TwoTo[bits + (k + 1)]) /\ TwoTo[bits + (k + 1)] \in Nat
    <3>1. PICK j \in 0 .. k + 1 : ~(n >= TwoTo[bits + j])
      BY <2>1, <2>2
    <3>2. j \notin 0 .. k
      BY <2>1, <3>1
    <3>3. j = k + 1
      BY <2>2, <3>2
    <3> QED
      BY <2>2, <3>1, <3>3, TwoToDoubles
  <2>4. bits + (k + 1) - 1 = bits + k
    BY <2>2
  <2>5. IsExponent(q, bits, k + 1)
    BY <1>1, <2>2, <2>3, <2>4 DEF IsExponent, n
  <2> QED
    BY <2>2, <2>5 DEF n
<1> QED
  BY <1>4, <1>5

\* The nearest multiple of a unit, ties to the even one.
LEMMA NearestMultiple ==
    ASSUME NEW q \in Int, NEW unit \in Nat \ {0}
    PROVE  LET below == q \div unit
               rest == 2 * (q % unit)
               up == rest > unit \/ (rest = unit /\ below % 2 = 1)
               k == IF up THEN below + 1 ELSE below
           IN  /\ k \in Int /\ k * unit \in Int
               /\ 2 * (k * unit - q) <= unit /\ 2 * (q - k * unit) <= unit
               /\ q % unit = 0 => k * unit = q
<1>1. PICK b \in Int, r \in Int :
          b = q \div unit /\ r = q % unit /\ q = b * unit + r /\ 0 <= r /\ r < unit
  BY DivMod
<1> DEFINE up == 2 * r > unit \/ (2 * r = unit /\ b % 2 = 1)
           p == b * unit
<1>2. p \in Int /\ (b + 1) * unit = p + unit
  BY <1>1
<1>3. /\ up => 2 * ((b + 1) * unit - q) <= unit /\ 2 * (q - (b + 1) * unit) <= unit
      /\ ~up => 2 * (b * unit - q) <= unit /\ 2 * (q - b * unit) <= unit
      /\ r = 0 => ~up /\ b * unit = q
  <2> HIDE DEF p
  <2>1. q = p + r /\ b * unit = p
    BY <1>1 DEF p
  <2> QED
    BY <1>1, <1>2, <2>1
<1> QED
  BY <1>1, <1>2, <1>3

\* What rounding gives: the multiple of a unit that is nearest.
IsRounded(q, bits, e, k, r) ==
    /\ IsExponent(q, bits, e)
    /\ r = k * TwoTo[e]
    /\ 2 * (r - q) <= TwoTo[e] /\ 2 * (q - r) <= TwoTo[e]
    /\ q % TwoTo[e] = 0 => r = q

LEMMA RoundedIs ==
    ASSUME NEW q \in Int, NEW bits \in Nat \ {0}
    PROVE  /\ Rounded(q, bits) \in Int
           /\ \E e \in Nat, k \in Int : IsRounded(q, bits, e, k, Rounded(q, bits))
<1> DEFINE e == CHOOSE e \in 0 .. Abs(q) :
                    /\ Abs(q) < TwoTo[bits + e]
                    /\ e = 0 \/ Abs(q) >= TwoTo[bits + e - 1]
           unit == TwoTo[e]
           below == q \div unit
           rest == 2 * (q % unit)
           up == rest > unit \/ (rest = unit /\ below % 2 = 1)
           k == IF up THEN below + 1 ELSE below
<1>1. e \in 0 .. Abs(q) /\ IsExponent(q, bits, e)
  BY ExponentExists DEF IsExponent
<1>2. Rounded(q, bits) = k * unit
  BY DEF Rounded
<1>3. e \in Nat /\ unit \in Nat \ {0}
  <2>1. e \in Nat
    BY <1>1, AbsIs
  <2> QED
    BY <2>1, TwoToDoubles
<1> HIDE DEF e
<1>4. /\ k \in Int /\ k * unit \in Int
      /\ 2 * (k * unit - q) <= unit /\ 2 * (q - k * unit) <= unit
      /\ q % unit = 0 => k * unit = q
  <2> HIDE DEF unit
  <2> QED
    BY <1>3, NearestMultiple
<1> HIDE DEF k
<1> QED
  BY <1>1, <1>2, <1>3, <1>4 DEF IsRounded

\* A number of no more bits than a float keeps is that float; so is a whole
\* number of one bit more.
LEMMA RoundedExactly ==
    ASSUME NEW q \in Int, NEW bits \in Nat \ {0},
           \/ Abs(q) <= TwoTo[bits]
           \/ Abs(q) <= 2 * TwoTo[bits] /\ q % One = 0
    PROVE  Rounded(q, bits) = q
<1>1. PICK e \in Nat, k \in Int : IsRounded(q, bits, e, k, Rounded(q, bits))
  BY RoundedIs
<1> DEFINE n == Abs(q)
           b == TwoTo[bits]
<1>2. /\ n \in Nat /\ b \in Nat \ {0}
      /\ TwoTo[bits + 1] = 2 * b /\ TwoTo[bits + 2] = 4 * b
      /\ TwoTo[1] = 2 /\ TwoTo[2] = 4 /\ TwoTo[0] = 1
  <2>1. /\ b \in Nat \ {0} /\ TwoTo[bits + 1] = 2 * b /\ TwoTo[(bits + 1) + 1] = 2 * TwoTo[bits + 1]
        /\ TwoTo[0] = 1 /\ TwoTo[0 + 1] = 2 * TwoTo[0] /\ TwoTo[1 + 1] = 2 * TwoTo[1]
    BY TwoToDoubles
  <2>2. (bits + 1) + 1 = bits + 2 /\ 0 + 1 = 1 /\ 1 + 1 = 2
    OBVIOUS
  <2> HIDE DEF b
  <2> QED
    BY <2>1, <2>2, AbsIs
<1>3. e # 0 => n >= TwoTo[bits + e - 1]
  BY <1>1 DEF IsRounded, IsExponent
<1>4. e <= 2 /\ (e = 2 => q % One = 0)
  <2>1. ASSUME e > 2 PROVE FALSE
    <3>1. bits + e - 1 \in Nat /\ bits + 1 < bits + e - 1 /\ bits + 1 \in Nat
      BY <2>1
    <3>2. 2 * TwoTo[bits + 1] <= TwoTo[bits + e - 1] /\ TwoTo[bits + e - 1] \in Nat
      BY <3>1, TwoToGrows, TwoToDoubles
    <3>3. n >= 4 * b
      <4> HIDE DEF n, b
      <4> QED
        BY <1>2, <1>3, <2>1, <3>2
    <3>4. n <= 2 * b
      <4> HIDE DEF n, b
      <4> SUFFICES n <= b \/ n <= 2 * b
        BY <1>2
      <4> QED
        BY DEF n, b
    <3> HIDE DEF n, b
    <3> QED
      BY <1>2, <3>3, <3>4
  <2>2. ASSUME e = 2 PROVE q % One = 0
    <3>1. n >= 2 * b
      <4>1. bits + e - 1 = bits + 1
        BY <2>2
      <4> QED
        BY <1>2, <1>3, <2>2, <4>1
    <3>2. ~(n <= b)
      <4> HIDE DEF n, b
      <4> QED
        BY <1>2, <3>1
    <3> QED
      BY <3>2
  <2> QED
    BY <2>1, <2>2
<1>5. q % TwoTo[e] = 0
  <2>1. CASE e = 0
    BY <1>2, <2>1
  <2>2. CASE e = 1
    <3>1. n >= b
      <4>1. bits + e - 1 = bits
        BY <2>2
      <4> QED
        BY <1>3, <2>2, <4>1
    <3>2. q % 2 = 0
      <4>1. CASE q % One = 0
        BY <4>1 DEF One
      <4>2. CASE n <= b
        <5>1. n = b
          <6> HIDE DEF n, b
          <6> QED
            BY <1>2, <3>1, <4>2
        <5>2. b % 2 = 0
          <6>1. bits - 1 \in Nat /\ (bits - 1) + 1 = bits
            OBVIOUS
          <6>2. TwoTo[bits - 1] \in Nat /\ b = 2 * TwoTo[bits - 1]
            BY <6>1, TwoToDoubles
          <6> QED
            BY <6>2
        <5>3. q = b \/ q = -b
          BY <5>1, AbsIs
        <5> HIDE DEF b
        <5> QED
          BY <1>2, <5>2, <5>3
      <4> QED
        BY <4>1, <4>2
    <3> QED
      BY <1>2, <2>2, <3>2
  <2>3. CASE e = 2
    BY <1>2, <1>4, <2>3 DEF One
  <2> QED
    BY <1>4, <2>1, <2>2, <2>3
<1> QED
  BY <1>1, <1>5 DEF IsRounded

\* A whole number stays one, and a number keeps its sign.
LEMMA RoundedWhole ==
    ASSUME NEW q \in Int, NEW bits \in Nat \ {0}
    PROVE  /\ q % One = 0 => Rounded(q, bits) % One = 0
           /\ q >= 0 => Rounded(q, bits) >= 0
<1> DEFINE r == Rounded(q, bits)
<1>1. PICK e \in Nat, k \in Int : IsRounded(q, bits, e, k, r)
  BY RoundedIs
<1> DEFINE unit == TwoTo[e]
<1>2. r \in Int /\ unit \in Nat \ {0} /\ r = k * unit
  BY <1>1, RoundedIs, TwoToDoubles DEF IsRounded
<1>3. 2 * (q - r) <= unit /\ (q % unit = 0 => r = q)
  BY <1>1 DEF IsRounded
<1>4. ASSUME e >= 2 PROVE unit % 4 = 0
  <2>1. e - 2 \in Nat /\ e - 1 \in Nat /\ (e - 2) + 1 = e - 1 /\ (e - 1) + 1 = e
    BY <1>4
  <2>2. TwoTo[e - 2] \in Nat /\ TwoTo[e - 1] = 2 * TwoTo[e - 2] /\ TwoTo[e] = 2 * TwoTo[e - 1]
    BY <2>1, TwoToDoubles
  <2> QED
    BY <2>2
<1>5. e < 2 => unit \in {1, 2}
  <2>1. TwoTo[0] = 1 /\ TwoTo[0 + 1] = 2 * TwoTo[0] /\ 0 + 1 = 1
    BY TwoToDoubles
  <2>2. e < 2 => e = 0 \/ e = 1
    OBVIOUS
  <2> QED
    BY <2>1, <2>2
<1> HIDE DEF unit, r
<1>6. ASSUME q % One = 0 PROVE r % One = 0
  <2>1. CASE e < 2
    <3>1. q % unit = 0
      BY <1>5, <1>6, <2>1 DEF One
    <3> QED
      BY <1>3, <1>6, <3>1
  <2>2. CASE e >= 2
    <3>1. PICK m \in Int : unit = 4 * m
      <4>1. unit = 4 * (unit \div 4) /\ unit \div 4 \in Int
        BY <1>2, <1>4, <2>2
      <4> QED
        BY <4>1
    <3>2. r = 4 * (k * m) /\ k * m \in Int
      BY <1>2, <3>1
    <3> QED
      BY <3>2 DEF One
  <2> QED
    BY <2>1, <2>2
<1>7. ASSUME q >= 0 PROVE r >= 0
  <2>1. k >= 0 => k * unit >= 0
    BY <1>2
  <2>2. k <= -1 => k * unit <= -unit
    BY <1>2
  <2> QED
    BY <1>2, <1>3, <1>7, <2>1, <2>2
<1> QED
  BY <1>6, <1>7 DEF r

\* The error of rounding: half of the last bit that is kept.
LEMMA RoundedNear ==
    ASSUME NEW q \in Int, NEW bits \in Nat \ {0}
    PROVE  TwoTo[bits] * Abs(Rounded(q, bits) - q) <= Abs(q)
<1> DEFINE r == Rounded(q, bits)
           b == TwoTo[bits]
           d == Abs(r - q)
           n == Abs(q)
<1>1. PICK e \in Nat, k \in Int : IsRounded(q, bits, e, k, r)
  BY RoundedIs
<1>2. r \in Int /\ b \in Nat /\ TwoTo[e] \in Nat \ {0}
  BY RoundedIs, TwoToDoubles
<1>3. 2 * (r - q) <= TwoTo[e] /\ 2 * (q - r) <= TwoTo[e]
  BY <1>1 DEF IsRounded
<1> HIDE DEF r
<1>4. d \in Nat /\ 2 * d <= TwoTo[e] /\ n \in Nat
  <2>1. r - q \in Int
    BY <1>2
  <2> QED
    BY <1>2, <1>3, <2>1, AbsIs
<1> HIDE DEF d, n
<1>5. CASE e = 0
  <2>1. TwoTo[e] = 1
    BY <1>5, TwoToDoubles
  <2>2. d = 0
    BY <1>4, <2>1
  <2>3. b * 0 = 0
    BY <1>2
  <2> HIDE DEF b
  <2> QED
    BY <1>4, <2>2, <2>3 DEF b, d, n, r
<1>6. CASE e # 0
  <2> DEFINE u == TwoTo[e - 1]
  <2>1. e - 1 \in Nat /\ (e - 1) + 1 = e /\ bits + e - 1 = bits + (e - 1)
    BY <1>6
  <2>2. u \in Nat /\ TwoTo[e] = 2 * u /\ TwoTo[bits + e - 1] = b * u
    BY <2>1, TwoToDoubles, TwoToAdds
  <2>3. n >= TwoTo[bits + e - 1]
    BY <1>1, <1>6 DEF IsRounded, IsExponent, n
  <2> HIDE DEF b, u
  <2>4. d <= u
    BY <1>4, <2>2
  <2>5. b * d <= b * u
    BY <1>2, <1>4, <2>2, <2>4 DEF b
  <2>6. b * d \in Int /\ b * u \in Int
    BY <1>2, <1>4, <2>2 DEF b
  <2> QED
    BY <1>4, <2>2, <2>3, <2>5, <2>6 DEF b, d, n, r
<1> QED
  BY <1>5, <1>6

\* So a float that is rounded once is near the number,
LEMMA NearOnce ==
    ASSUME NEW q \in Int, NEW bits \in Nat \ {0}
    PROVE  Near(Rounded(q, bits), q, bits)
<1> DEFINE a == TwoTo[bits - 1]
           d == Abs(Rounded(q, bits) - q)
           n == Abs(q)
<1>1. bits - 1 \in Nat /\ (bits - 1) + 1 = bits
  OBVIOUS
<1>2. a \in Nat /\ TwoTo[bits] = 2 * a
  BY <1>1, TwoToDoubles
<1>3. TwoTo[bits] * d <= n
  BY RoundedNear
<1>4. d \in Nat /\ n \in Nat
  <2>1. Rounded(q, bits) - q \in Int
    BY RoundedIs
  <2> QED
    BY <2>1, AbsIs
<1> HIDE DEF a, d, n
<1>5. a * d \in Nat /\ (2 * a) * d = 2 * (a * d)
  BY <1>2, <1>4
<1>6. a * d <= n
  BY <1>2, <1>3, <1>4, <1>5
<1> QED
  BY <1>6 DEF Near, a, d, n

\* and so is one that is rounded to a wider float first.
LEMMA NearTwice ==
    ASSUME NEW q \in Int, NEW bits \in Nat \ {0}, NEW more \in Nat, bits + 2 <= more
    PROVE  Near(Rounded(Rounded(q, more), bits), q, bits)
<1> DEFINE a == TwoTo[bits - 1]
           r == Rounded(q, more)
           v == Rounded(r, bits)
           x == Abs(v - r)
           y == Abs(r - q)
           n == Abs(q)
<1>1. /\ bits - 1 \in Nat /\ (bits - 1) + 1 = bits /\ bits + 1 < more /\ bits + 1 \in Nat
      /\ more \in Nat \ {0}
  OBVIOUS
<1>2. /\ a \in Nat \ {0} /\ TwoTo[bits] = 2 * a /\ TwoTo[bits + 1] = 4 * a
      /\ TwoTo[more] \in Nat /\ 8 * a <= TwoTo[more]
  <2>1. a \in Nat \ {0} /\ TwoTo[bits] = 2 * a
    BY <1>1, TwoToDoubles
  <2>2. TwoTo[bits + 1] = 2 * TwoTo[bits] /\ TwoTo[more] \in Nat
    BY <1>1, TwoToDoubles
  <2>3. 2 * TwoTo[bits + 1] <= TwoTo[more]
    BY <1>1, TwoToGrows
  <2> HIDE DEF a
  <2> QED
    BY <2>1, <2>2, <2>3
<1>3. r \in Int /\ v \in Int /\ TwoTo[more] * y <= n /\ TwoTo[bits] * x <= Abs(r)
  BY <1>1, RoundedIs, RoundedNear
<1> HIDE DEF a, r, v
<1>4. x \in Nat /\ y \in Nat /\ n \in Nat /\ Abs(r) <= n + y /\ Abs(v - q) \in Nat /\ Abs(v - q) <= x + y
  BY <1>3 DEF Abs
<1> DEFINE z == Abs(v - q)
           m == Abs(r)
<1>5. m \in Nat
  BY <1>3, AbsIs
<1> HIDE DEF x, y, n, z, m
<1>6. (8 * a) * y <= TwoTo[more] * y /\ TwoTo[more] * y \in Nat
  <2> DEFINE t == TwoTo[more] - 8 * a
  <2>1. t \in Nat /\ TwoTo[more] = 8 * a + t
    BY <1>2
  <2> HIDE DEF t
  <2>2. TwoTo[more] * y = (8 * a) * y + t * y /\ t * y >= 0
    BY <1>2, <1>4, <2>1
  <2> QED
    BY <1>2, <1>4, <2>1, <2>2
<1> DEFINE p == a * x
           s == a * y
<1>7. p \in Nat /\ s \in Nat /\ (8 * a) * y = 8 * s /\ (2 * a) * x = 2 * p /\ y <= s
  BY <1>2, <1>4
<1>8. a * z <= p + s
  <2>1. x + y - z \in Nat
    BY <1>4 DEF z
  <2>2. a * (x + y - z) >= 0 /\ a * (x + y - z) = a * x + a * y - a * z
    BY <1>2, <1>4, <2>1 DEF z
  <2>3. a * z \in Int
    BY <1>2, <1>4 DEF z
  <2> QED
    BY <1>7, <2>2, <2>3
<1>9. a * z \in Int
  BY <1>2, <1>4 DEF z
<1> HIDE DEF p, s
<1>10. 8 * s <= n
  BY <1>3, <1>4, <1>6, <1>7
<1>11. 2 * p <= n + y
  BY <1>2, <1>3, <1>4, <1>5, <1>7 DEF m
<1>12. a * z <= n
  BY <1>4, <1>7, <1>8, <1>9, <1>10, <1>11
<1> QED
  BY <1>12 DEF Near, a, z, n, v, r

\* Multiples of a unit compare as what they are multiplied by.
LEMMA UnitsCompare ==
    ASSUME NEW k \in Int, NEW m \in Int, NEW u \in Nat \ {0}
    PROVE  /\ k * u \in Int /\ m * u \in Int
           /\ 2 * (k * u - m * u) < 2 * u => k <= m
           /\ k <= m <=> k * u <= m * u
<1> DEFINE d == k - m
<1>1. d \in Int /\ d * u = k * u - m * u /\ k * u \in Int /\ m * u \in Int
  OBVIOUS
<1>2. d <= 0 => d * u <= 0
  OBVIOUS
<1>3. d >= 1 => d * u >= u
  <2> SUFFICES ASSUME d >= 1 PROVE d * u >= u
    OBVIOUS
  <2>1. d - 1 \in Nat
    OBVIOUS
  <2>2. (d - 1) * u >= 0 /\ (d - 1) * u = d * u - u
    BY <2>1
  <2> QED
    BY <1>1, <2>2
<1> DEFINE a == k * u
           b == m * u
           c == d * u
<1>4. a \in Int /\ b \in Int /\ c = a - b /\ (d <= 0 => c <= 0) /\ (d >= 1 => c >= u)
  BY <1>1, <1>2, <1>3
<1> HIDE DEF a, b, c
<1>5. /\ 2 * (a - b) < 2 * u => k <= m
      /\ k <= m <=> a <= b
  BY <1>4
<1> QED
  BY <1>4, <1>5 DEF a, b

\* The float a number is rounded to has no more bits than a float keeps, and
\* none less than the number.
LEMMA RoundedBits ==
    ASSUME NEW q \in Int, NEW bits \in Nat \ {0}, NEW e \in Nat, NEW k \in Int,
           IsRounded(q, bits, e, k, Rounded(q, bits))
    PROVE  /\ -TwoTo[bits] <= k /\ k <= TwoTo[bits]
           /\ e # 0 => Abs(k) >= TwoTo[bits - 1]
           /\ Abs(k) \in Nat /\ Abs(Rounded(q, bits)) = Abs(k) * TwoTo[e]
<1> DEFINE r == Rounded(q, bits)
           u == TwoTo[e]
           b == TwoTo[bits]
           h == TwoTo[bits - 1]
<1>1. /\ r \in Int /\ u \in Nat \ {0} /\ b \in Nat \ {0} /\ h \in Nat \ {0}
      /\ bits - 1 \in Nat
  <2>1. bits - 1 \in Nat
    OBVIOUS
  <2> QED
    BY <2>1, RoundedIs, TwoToDoubles
<1>2. /\ r = k * u /\ 2 * (r - q) <= u /\ 2 * (q - r) <= u
      /\ Abs(q) < TwoTo[bits + e] /\ (e = 0 \/ Abs(q) >= TwoTo[bits + e - 1])
  BY DEF IsRounded, IsExponent
<1>3. TwoTo[bits + e] = b * u /\ (e # 0 => TwoTo[bits + e - 1] = h * u)
  <2>1. bits + e - 1 = (bits - 1) + e
    OBVIOUS
  <2> QED
    BY <1>1, <2>1, TwoToAdds
<1> DEFINE m == b * u
           g == h * u
           n == (-k) * u
<1>4. m \in Int /\ g \in Int /\ n \in Int /\ n = -(k * u)
  BY <1>1
<1> HIDE DEF r, u, b, h
<1>5. n = -r
  BY <1>2, <1>4
<1>6. k <= b
  <2>1. 2 * (r - m) < 2 * u
    <3> HIDE DEF m
    <3> QED
      BY <1>1, <1>2, <1>3, <1>4 DEF Abs, m
  <2> QED
    BY <1>1, <1>2, <2>1, UnitsCompare
<1>7. -k <= b
  <2>1. 2 * (n - m) < 2 * u
    <3> HIDE DEF m, n
    <3> QED
      BY <1>1, <1>2, <1>3, <1>4, <1>5 DEF Abs, m
  <2> QED
    BY <1>1, <2>1, UnitsCompare
<1>8. ASSUME e # 0 PROVE h <= k \/ h <= -k
  <2>1. 2 * (g - r) < 2 * u \/ 2 * (g - n) < 2 * u
    <3> HIDE DEF g, n
    <3>1. Abs(q) >= g
      BY <1>2, <1>3, <1>8 DEF g
    <3> QED
      BY <1>1, <1>2, <1>4, <1>5, <3>1 DEF Abs
  <2> QED
    BY <1>1, <1>2, <2>1, UnitsCompare
<1>9. Abs(k) \in Nat /\ Abs(r) = Abs(k) * u
  <2>1. k >= 0 => k * u >= 0
    BY <1>1
  <2>2. k < 0 => n >= 0
    BY <1>1
  <2> QED
    BY <1>1, <1>2, <1>4, <1>5, <2>1, <2>2 DEF Abs
<1> QED
  BY <1>1, <1>6, <1>7, <1>8, <1>9 DEF Abs, r, u, b, h

\* A smaller power of two divides a larger one.
LEMMA TwoToDivides ==
    ASSUME NEW m \in Nat, NEW n \in Nat, m <= n, NEW k \in Int
    PROVE  (k * TwoTo[n]) % TwoTo[m] = 0
<1>1. n - m \in Nat /\ m + (n - m) = n
  OBVIOUS
<1> DEFINE a == TwoTo[m]
           b == TwoTo[n - m]
<1>2. a \in Nat \ {0} /\ b \in Nat /\ TwoTo[n] = a * b
  <2>1. TwoTo[m + (n - m)] = a * b
    BY <1>1, TwoToAdds
  <2> QED
    BY <1>1, <2>1, TwoToDoubles
<1> HIDE DEF a, b
<1>3. k * (a * b) = (k * b) * a /\ k * b \in Int
  BY <1>2
<1>4. PICK i \in Int, j \in Int :
          i = ((k * b) * a) \div a /\ j = ((k * b) * a) % a /\ (k * b) * a = i * a + j /\ 0 <= j /\ j < a
  BY <1>2, <1>3, DivMod
<1>5. j = 0
  <2> DEFINE c == k * b
             d == c - i
  <2>1. d \in Int /\ d * a = c * a - i * a
    BY <1>2, <1>3, <1>4
  <2>2. d * a = j
    BY <1>2, <1>3, <1>4, <2>1
  <2>3. d >= 1 => d * a >= a
    <3> HIDE DEF d
    <3> SUFFICES ASSUME d >= 1 PROVE d * a >= a
      OBVIOUS
    <3>1. d - 1 \in Nat
      BY <2>1
    <3>2. (d - 1) * a >= 0 /\ (d - 1) * a = d * a - a
      BY <1>2, <2>1, <3>1
    <3> QED
      BY <1>2, <2>1, <3>2
  <2>4. d <= -1 => d * a < 0
    <3> HIDE DEF d
    <3> QED
      BY <1>2, <2>1
  <2>5. d = 0 => d * a = 0
    <3> HIDE DEF d
    <3> QED
      BY <1>2
  <2> HIDE DEF d
  <2> QED
    BY <1>2, <1>4, <2>1, <2>2, <2>3, <2>4, <2>5
<1> QED
  BY <1>2, <1>3, <1>4, <1>5 DEF a

\* What has no more bits than a float keeps is that float.
LEMMA ExactMultiple ==
    ASSUME NEW bits \in Nat \ {0}, NEW e \in Nat, NEW k \in Int,
           -TwoTo[bits] <= k, k <= TwoTo[bits]
    PROVE  Rounded(k * TwoTo[e], bits) = k * TwoTo[e]
<1> DEFINE q == k * TwoTo[e]
           b == TwoTo[bits]
           u == TwoTo[e]
<1>1. b \in Nat \ {0} /\ u \in Nat \ {0} /\ q \in Int
  BY TwoToDoubles
<1>2. PICK f \in Nat, i \in Int : IsRounded(q, bits, f, i, Rounded(q, bits))
  BY <1>1, RoundedIs
<1>3. (q % TwoTo[f] = 0 => Rounded(q, bits) = q) /\ (f = 0 \/ Abs(q) >= TwoTo[bits + f - 1])
  BY <1>2 DEF IsRounded, IsExponent
<1>4. TwoTo[bits + e] = b * u
  BY TwoToAdds
<1>5. Abs(q) <= b * u
  <2>1. b * u \in Int /\ (-k) * u = -(k * u)
    BY <1>1
  <2>2. k * u <= b * u /\ (-k) * u <= b * u
    <3> HIDE DEF b, u
    <3>1. k <= b /\ -k <= b
      BY <1>1 DEF b
    <3> QED
      BY <1>1, <3>1, UnitsCompare
  <2> DEFINE m == b * u
  <2>3. q <= m /\ -q <= m /\ m \in Int
    BY <2>1, <2>2
  <2> HIDE DEF q, m
  <2> QED
    BY <1>1, <2>3 DEF Abs, m
<1>6. CASE f <= e
  BY <1>3, <1>6, TwoToDivides
<1>7. CASE f > e
  <2>1. f = e + 1
    <3> SUFFICES ASSUME f > e + 1 PROVE FALSE
      BY <1>7
    <3>1. bits + e < bits + f - 1 /\ bits + e \in Nat /\ bits + f - 1 \in Nat
      OBVIOUS
    <3> DEFINE x == TwoTo[bits + e]
               y == TwoTo[bits + f - 1]
    <3>2. 2 * x <= y /\ x \in Nat \ {0} /\ y \in Nat
      BY <3>1, TwoToGrows, TwoToDoubles
    <3>3. Abs(q) <= x /\ Abs(q) >= y /\ Abs(q) \in Nat
      BY <1>1, <1>3, <1>4, <1>5, <1>7, AbsIs
    <3> HIDE DEF x, y, q
    <3> QED
      BY <3>2, <3>3
  <2>2. Abs(q) = TwoTo[bits + e]
    <3>1. bits + f - 1 = bits + e
      BY <2>1
    <3>2. TwoTo[bits + e] \in Nat /\ Abs(q) \in Nat
      <4>1. bits + e \in Nat
        OBVIOUS
      <4> QED
        BY <1>1, <4>1, AbsIs, TwoToDoubles
    <3> HIDE DEF q
    <3> QED
      BY <1>3, <1>4, <1>5, <1>7, <3>1, <3>2
  <2>3. bits + e = (bits - 1) + f /\ bits - 1 \in Nat
    BY <2>1
  <2> DEFINE h == TwoTo[bits - 1]
             v == TwoTo[f]
  <2>4. TwoTo[bits + e] = h * v /\ h \in Nat /\ v \in Nat
    BY <2>3, TwoToAdds, TwoToDoubles
  <2>5. q = h * v \/ q = (-h) * v
    <3> HIDE DEF h, v, q
    <3>1. h * v \in Int /\ (-h) * v = -(h * v)
      BY <2>4
    <3> QED
      BY <1>1, <2>2, <2>4, <3>1 DEF Abs
  <2>6. q % v = 0
    BY <2>4, <2>5, TwoToDivides
  <2> QED
    BY <1>3, <2>6
<1> QED
  BY <1>6, <1>7

\* So a float is its own nearest one, in a wider type too.
LEMMA RoundedTwice ==
    ASSUME NEW q \in Int, NEW bits \in Nat \ {0}, NEW more \in Nat \ {0}, bits <= more
    PROVE  Rounded(Rounded(q, bits), more) = Rounded(q, bits)
<1>1. PICK e \in Nat, k \in Int : IsRounded(q, bits, e, k, Rounded(q, bits))
  BY RoundedIs
<1>2. Rounded(q, bits) = k * TwoTo[e]
  BY <1>1 DEF IsRounded
<1> DEFINE b == TwoTo[bits]
           c == TwoTo[more]
<1>3. b \in Nat /\ c \in Nat /\ b <= c
  <2>1. b \in Nat /\ c \in Nat /\ (bits < more => 2 * b <= c)
    BY TwoToDoubles, TwoToGrows
  <2>2. bits = more => b = c
    OBVIOUS
  <2> HIDE DEF b, c
  <2> QED
    BY <2>1, <2>2
<1>4. -b <= k /\ k <= b
  BY <1>1, RoundedBits
<1> HIDE DEF b
<1>5. -c <= k /\ k <= c
  <2> HIDE DEF c
  <2> QED
    BY <1>3, <1>4
<1> QED
  BY <1>2, <1>5, ExactMultiple

\* Rounding does not go below a power of two.
LEMMA RoundedReaches ==
    ASSUME NEW q \in Int, NEW bits \in Nat \ {0}, NEW power \in Nat, bits <= power,
           Abs(q) >= TwoTo[power]
    PROVE  Abs(Rounded(q, bits)) >= TwoTo[power]
<1>1. PICK e \in Nat, k \in Int : IsRounded(q, bits, e, k, Rounded(q, bits))
  BY RoundedIs
<1>2. Abs(q) < TwoTo[bits + e] /\ Abs(q) \in Nat
  BY <1>1, AbsIs DEF IsRounded, IsExponent
<1>3. power < bits + e
  <2> SUFFICES ASSUME bits + e <= power PROVE FALSE
    OBVIOUS
  <2> DEFINE x == TwoTo[bits + e]
             y == TwoTo[power]
  <2>1. bits + e \in Nat
    OBVIOUS
  <2>2. x \in Nat \ {0} /\ y \in Nat \ {0} /\ (bits + e < power => 2 * x <= y)
        /\ (bits + e = power => x = y)
    BY <2>1, TwoToDoubles, TwoToGrows
  <2> HIDE DEF x, y
  <2>3. x <= y
    BY <2>2
  <2> QED
    BY <1>2, <2>2, <2>3 DEF x, y
<1>4. e # 0 /\ bits - 1 \in Nat /\ (bits - 1) + e \in Nat /\ power <= (bits - 1) + e
  BY <1>3
<1> DEFINE h == TwoTo[bits - 1]
           u == TwoTo[e]
           y == TwoTo[power]
           z == TwoTo[(bits - 1) + e]
           a == Abs(k)
<1>5. h \in Nat /\ u \in Nat \ {0} /\ y \in Nat /\ z = h * u /\ z \in Nat
  BY <1>4, TwoToAdds, TwoToDoubles
<1>6. y <= z
  <2>1. (power < (bits - 1) + e => 2 * y <= z) /\ (power = (bits - 1) + e => y = z)
    BY <1>4, TwoToGrows
  <2> HIDE DEF y, z
  <2> QED
    BY <1>4, <1>5, <2>1
<1>7. a \in Nat /\ h <= a /\ Abs(Rounded(q, bits)) = a * u
  <2>1. Abs(k) >= TwoTo[bits - 1] /\ Abs(k) \in Nat /\ Abs(Rounded(q, bits)) = Abs(k) * TwoTo[e]
    BY <1>1, <1>4, RoundedBits
  <2> QED
    BY <1>5, <2>1
<1> HIDE DEF h, u, a, z
<1>8. h * u <= a * u
  BY <1>5, <1>7, UnitsCompare
<1> DEFINE w == a * u
<1>9. w \in Int
  BY <1>5, <1>7
<1> HIDE DEF w, y
<1>10. w >= y
  BY <1>5, <1>6, <1>8, <1>9 DEF w
<1> QED
  BY <1>7, <1>10 DEF w, y

\* A float of more bits than it keeps has zeros at its end.
LEMMA FloatsEnd ==
    ASSUME NEW q \in Int, NEW bits \in Nat \ {0}, Rounded(q, bits) = q
    PROVE  /\ Abs(q) >= TwoTo[bits] => q % 2 = 0
           /\ Abs(q) >= 2 * TwoTo[bits] => q % 4 = 0
<1>1. PICK e \in Nat, k \in Int : IsRounded(q, bits, e, k, q)
  BY RoundedIs
<1>2. Abs(q) < TwoTo[bits + e] /\ q = k * TwoTo[e] /\ Abs(q) \in Nat
  BY <1>1, AbsIs DEF IsRounded, IsExponent
<1>3. /\ TwoTo[bits] \in Nat /\ TwoTo[bits + 1] = 2 * TwoTo[bits]
      /\ TwoTo[1] = 2 /\ TwoTo[2] = 4
  <2>1. /\ TwoTo[bits] \in Nat /\ TwoTo[bits + 1] = 2 * TwoTo[bits]
        /\ TwoTo[0] = 1 /\ TwoTo[0 + 1] = 2 * TwoTo[0] /\ TwoTo[1 + 1] = 2 * TwoTo[1]
    BY TwoToDoubles
  <2> QED
    BY <2>1
<1>4. ASSUME Abs(q) >= TwoTo[bits] PROVE q % 2 = 0
  <2>1. e # 0
    <3> SUFFICES ASSUME e = 0 PROVE FALSE
      OBVIOUS
    <3>1. bits + e = bits
      OBVIOUS
    <3> DEFINE x == TwoTo[bits]
    <3>2. Abs(q) < x /\ Abs(q) >= x /\ x \in Nat
      BY <1>2, <1>3, <1>4, <3>1
    <3> HIDE DEF x
    <3> QED
      BY <1>2, <3>2
  <2>2. 1 \in Nat /\ 1 <= e
    BY <2>1
  <2>3. (k * TwoTo[e]) % TwoTo[1] = 0
    BY <2>2, TwoToDivides
  <2> QED
    BY <1>2, <1>3, <2>3
<1>5. ASSUME Abs(q) >= 2 * TwoTo[bits] PROVE q % 4 = 0
  <2>1. e >= 2
    <3> SUFFICES ASSUME e < 2 PROVE FALSE
      OBVIOUS
    <3>1. bits + e = bits \/ bits + e = bits + 1
      OBVIOUS
    <3> DEFINE x == TwoTo[bits]
    <3>2. (Abs(q) < x \/ Abs(q) < 2 * x) /\ Abs(q) >= 2 * x /\ x \in Nat
      BY <1>2, <1>3, <1>5, <3>1
    <3> HIDE DEF x
    <3> QED
      BY <1>2, <3>2
  <2>2. 2 \in Nat /\ 2 <= e
    BY <2>1
  <2>3. (k * TwoTo[e]) % TwoTo[2] = 0
    BY <2>2, TwoToDivides
  <2> QED
    BY <1>2, <1>3, <2>3
<1> QED
  BY <1>4, <1>5

LEMMA FloatWidths ==
    /\ Mantissa[32] \in Nat \ {0} /\ Mantissa[64] \in Nat \ {0}
    /\ Mantissa[32] + 2 <= Mantissa[64]
    /\ Width[32] < Mantissa[64] /\ Mantissa[64] <= Width[64] - 1
<1>1. /\ Mantissa[32] \in Nat \ {0} /\ Mantissa[64] \in Nat \ {0}
      /\ Width[32] \in Nat \ {0} /\ Width[64] \in Nat \ {0}
      /\ Mantissa[32] < Width[32] /\ Width[32] < Mantissa[64] /\ Mantissa[64] < Width[64]
  BY WidthAssumption
<1> QED
  BY <1>1

-----------------------------------------------------------------------------
(* The text of a float, and what Decimal makes of it. *)

\* The texts of a float that end at some place have one nearest to it.
LEMMA NearestExists ==
    ASSUME NEW float \in Int, NEW S \in SUBSET Int, S # {}
    PROVE  \E n \in S : \A m \in S : Abs(n - float) <= Abs(m - float)
<1> DEFINE D == {Abs(n - float) : n \in S}
<1>1. \A n \in S : Abs(n - float) \in Nat
  <2> SUFFICES ASSUME NEW n \in S PROVE Abs(n - float) \in Nat
    OBVIOUS
  <2>1. n - float \in Int
    OBVIOUS
  <2> QED
    BY <2>1, AbsIs
<1>2. D \in SUBSET Nat /\ D # {}
  BY <1>1
<1> HIDE DEF D
<1>3. PICK d \in D : \A y \in D : ~(<<y, d>> \in OpToRel(<, Nat))
  BY <1>2, NatLessThanWellFounded, WFMin
<1>4. \A y \in D : d <= y
  <2> SUFFICES ASSUME NEW y \in D PROVE d <= y
    OBVIOUS
  <2>1. d \in Nat /\ y \in Nat
    BY <1>2
  <2>2. ~(y < d)
    BY <1>3, <2>1 DEF OpToRel
  <2> QED
    BY <2>1, <2>2
<1> QED
  BY <1>3, <1>4 DEF D

\* The text of a float reads back as it, is no further from it than half of its
\* last bit allows, and drops no zero of its end.
IsText(float, n) ==
    /\ n \in Int /\ ToF64(n) = float
    /\ n - float <= Abs(float) \div TwoTo[Mantissa[64]]
    /\ float - n <= Abs(float) \div TwoTo[Mantissa[64]]
    /\ float % 2 = 0 => n % 2 = 0
    /\ float % 4 = 0 => n % 4 = 0

LEMMA FloatTextIs ==
    ASSUME NEW float \in Int, ToF64(float) = float
    PROVE  \E n \in Int : IsText(float, n) /\ FloatText(float) = Number(n, n % One # 0)
<1> DEFINE reach == Abs(float) \div TwoTo[Mantissa[64]]
           texts == {n \in float - reach .. float + reach : ToF64(n) = float}
           EndingAt(place) == {n \in texts : n % place = 0}
           last == CHOOSE p \in Endings :
                       /\ EndingAt(p) # {}
                       /\ \A q \in Endings : EndingAt(q) # {} => q <= p
           number == CHOOSE n \in EndingAt(last) :
                       \A m \in EndingAt(last) : Abs(n - float) <= Abs(m - float)
<1>1. reach \in Nat /\ float \in texts
  <2>1. Abs(float) \in Nat /\ TwoTo[Mantissa[64]] \in Nat \ {0}
    BY AbsIs, FloatWidths, TwoToDoubles
  <2>2. reach \in Nat
    <3> DEFINE a == Abs(float)
               b == TwoTo[Mantissa[64]]
    <3> HIDE DEF a, b
    <3> SUFFICES a \div b \in Nat
      BY DEF a, b
    <3>1. a \in Nat /\ b \in Nat \ {0}
      BY <2>1 DEF a, b
    <3> QED
      BY <3>1
  <2> HIDE DEF reach
  <2> QED
    BY <2>2
<1>2. \A n \in texts : n \in Int /\ n - float <= reach /\ float - n <= reach /\ ToF64(n) = float
  <2> HIDE DEF reach
  <2> QED
    BY <1>1
<1>3. FloatText(float) = Number(number, number % One # 0)
  BY DEF FloatText
<1> HIDE DEF reach, texts
<1>4. Endings = {1, 2, 4, 40, 400}
  BY DEF Endings, Half, One
<1>5. float \in EndingAt(1)
  BY <1>1
<1>6. last \in Endings /\ EndingAt(last) # {} /\ \A q \in Endings : EndingAt(q) # {} => q <= last
  <2> DEFINE E == {p \in Endings : EndingAt(p) # {}}
  <2>1. 1 \in E /\ E \subseteq {1, 2, 4, 40, 400}
    BY <1>4, <1>5
  <2> HIDE DEF E
  <2>2. \E p \in E : \A q \in E : q <= p
    <3>1. CASE 400 \in E
      BY <2>1, <3>1
    <3>2. CASE 400 \notin E /\ 40 \in E
      BY <2>1, <3>2
    <3>3. CASE 400 \notin E /\ 40 \notin E /\ 4 \in E
      BY <2>1, <3>3
    <3>4. CASE 400 \notin E /\ 40 \notin E /\ 4 \notin E /\ 2 \in E
      BY <2>1, <3>4
    <3>5. CASE 400 \notin E /\ 40 \notin E /\ 4 \notin E /\ 2 \notin E
      BY <2>1, <3>5
    <3> QED
      BY <3>1, <3>2, <3>3, <3>4, <3>5
  <2>3. \E p \in Endings : EndingAt(p) # {} /\ \A q \in Endings : EndingAt(q) # {} => q <= p
    BY <2>2 DEF E
  <2> HIDE DEF EndingAt
  <2> QED
    BY <2>3
<1>7. (float % 2 = 0 => last >= 2) /\ (float % 4 = 0 => last >= 4)
  <2>1. float % 2 = 0 => float \in EndingAt(2)
    BY <1>1
  <2>2. float % 4 = 0 => float \in EndingAt(4)
    BY <1>1
  <2> HIDE DEF EndingAt, last
  <2> QED
    BY <1>4, <1>6, <2>1, <2>2
<1>8. number \in EndingAt(last)
  <2>1. EndingAt(last) \in SUBSET Int
    BY <1>2
  <2>2. \E n \in EndingAt(last) : \A m \in EndingAt(last) : Abs(n - float) <= Abs(m - float)
    <3> HIDE DEF EndingAt, last
    <3> QED
      BY <1>6, <2>1, NearestExists
  <2> HIDE DEF EndingAt, last
  <2> QED
    BY <2>2
<1> HIDE DEF last
<1>9. number \in texts /\ number % last = 0
  BY <1>8
<1> HIDE DEF number
<1>10. number \in Int /\ ToF64(number) = float /\ number - float <= reach /\ float - number <= reach
  BY <1>2, <1>9
<1>11. (float % 2 = 0 => number % 2 = 0) /\ (float % 4 = 0 => number % 4 = 0)
  BY <1>4, <1>6, <1>7, <1>9, <1>10
<1> QED
  BY <1>3, <1>10, <1>11 DEF IsText, reach

\* The text of a float with no more bits than it keeps is exact.
LEMMA FloatTextExact ==
    ASSUME NEW float \in Int, NEW n, IsText(float, n), Abs(float) <= TwoTo[Mantissa[64]]
    PROVE  n = float
<1> DEFINE b == TwoTo[Mantissa[64]]
           a == Abs(float)
<1>1. b \in Nat \ {0} /\ b % 2 = 0
  <2>1. Mantissa[64] - 1 \in Nat /\ (Mantissa[64] - 1) + 1 = Mantissa[64]
    BY FloatWidths
  <2>2. TwoTo[Mantissa[64] - 1] \in Nat \ {0} /\ b = 2 * TwoTo[Mantissa[64] - 1]
    BY <2>1, TwoToDoubles
  <2> HIDE DEF b
  <2> QED
    BY <2>2
<1>2. a \in Nat /\ a <= b
  BY AbsIs
<1>3. /\ n \in Int /\ n - float <= a \div b /\ float - n <= a \div b
      /\ float % 2 = 0 => n % 2 = 0
  BY DEF IsText
<1>4. a = b => float % 2 = 0
  <2>1. a = b => float = b \/ float = -b
    BY DEF Abs
  <2> HIDE DEF a, b
  <2> QED
    BY <1>1, <2>1
<1> HIDE DEF a, b
<1>5. (a < b => a \div b = 0) /\ (a = b => a \div b = 1)
  BY <1>1, <1>2
<1>6. CASE a < b
  BY <1>3, <1>5, <1>6
<1>7. CASE a = b
  <2>1. float % 2 = 0 /\ n % 2 = 0 /\ n - float <= 1 /\ float - n <= 1
    BY <1>3, <1>4, <1>5, <1>7
  <2> QED
    BY <1>3, <2>1
<1> QED
  BY <1>1, <1>2, <1>6, <1>7

\* A number that Decimal refuses is too large for it.
LEMMA DecimalRefused ==
    ASSUME NEW number \in Int, RustDecimal(number) = None
    PROVE  /\ ~FitsDecimal(Abs(number) + Half, One)
           /\ Abs(number) + 2 >= 4 * TwoTo[DecimalBits]
<1> DEFINE size == Abs(number)
           digits == TwoTo[DecimalBits]
<1>1. size \in Nat /\ digits \in Nat \ {0}
  BY AbsIs, TwoToDoubles, DecimalAssumption
<1> DEFINE kept == IF size \div 2 < digits THEN ((size + 1) \div 2) * 2 ELSE ((size + 2) \div 4) * 4
<1>2. ~(kept \div 4 < digits)
  <2>1. 2 \div 2 = 1 /\ 4 \div 2 = 2
    OBVIOUS
  <2> QED
    BY <2>1, OneSome DEF RustDecimal, FitsDecimal, Half, One
<1> HIDE DEF size, digits
<1>3. ~((size + 2) \div 4 < digits) /\ size + 2 >= 4 * digits
  BY <1>1, <1>2
<1> QED
  BY <1>3 DEF FitsDecimal, Half, One, size, digits

\* Even numbers that are small enough, and those without a fraction, are taken
\* as they are.
LEMMA DecimalTaken ==
    ASSUME NEW number \in Int, RustDecimal(number) # None,
           \/ number % 2 = 0 /\ Abs(number) \div 2 < TwoTo[DecimalBits]
           \/ number % 4 = 0
    PROVE  RustDecimal(number) = Some(number)
<1> DEFINE size == Abs(number)
           digits == TwoTo[DecimalBits]
<1>1. size \in Nat /\ digits \in Nat \ {0} /\ number = (IF number < 0 THEN -size ELSE size)
  BY AbsIs, TwoToDoubles, DecimalAssumption DEF Abs
<1>2. (number % 2 = 0 => size % 2 = 0) /\ (number % 4 = 0 => size % 4 = 0)
  BY DEF Abs
<1> DEFINE kept == IF size \div 2 < digits THEN ((size + 1) \div 2) * 2 ELSE ((size + 2) \div 4) * 4
<1>3. RustDecimal(number) = Some(IF number < 0 THEN -kept ELSE kept)
  <2>1. 2 \div 2 = 1 /\ 4 \div 2 = 2
    OBVIOUS
  <2> QED
    BY <2>1, OneSome DEF RustDecimal, FitsDecimal, Half, One
<1>4. \/ size % 2 = 0 /\ size \div 2 < digits
      \/ size % 4 = 0
  BY <1>2
<1> HIDE DEF size, digits
<1>5. kept = size
  BY <1>1, <1>4
<1> QED
  BY <1>1, <1>3, <1>5

\* A float is larger than Decimal has room for if its text is.
LEMMA FloatRefused ==
    ASSUME NEW float \in Int, ToF64(float) = float, NEW n, IsText(float, n), RustDecimal(n) = None
    PROVE  ~FitsDecimal(Abs(float) + Half, One) /\ Abs(float) >= 4 * TwoTo[DecimalBits]
<1> DEFINE bits == Mantissa[64]
           d == TwoTo[DecimalBits]
           a == Abs(float)
           s == Abs(n)
<1>1. /\ n \in Int /\ Rounded(n, bits) = float /\ Rounded(float, bits) = float
      /\ float % 4 = 0 => n % 4 = 0
  BY DEF IsText, ToF64
<1>2. /\ bits \in Nat \ {0} /\ DecimalBits \in Nat /\ bits < DecimalBits
      /\ DecimalBits + 1 \in Nat /\ DecimalBits + 2 \in Nat
  BY DecimalAssumption, FloatWidths, Widths
<1>3. /\ d \in Nat \ {0} /\ TwoTo[DecimalBits + 1] = 2 * d /\ TwoTo[DecimalBits + 2] = 4 * d
      /\ TwoTo[bits] \in Nat /\ 2 * TwoTo[bits] <= d
  <2>1. d \in Nat \ {0} /\ TwoTo[DecimalBits + 1] = 2 * d
        /\ TwoTo[(DecimalBits + 1) + 1] = 2 * TwoTo[DecimalBits + 1]
    BY <1>2, TwoToDoubles
  <2>2. (DecimalBits + 1) + 1 = DecimalBits + 2
    BY <1>2
  <2>3. TwoTo[bits] \in Nat /\ 2 * TwoTo[bits] <= d
    BY <1>2, TwoToDoubles, TwoToGrows
  <2> HIDE DEF d
  <2> QED
    BY <2>1, <2>2, <2>3
<1>4. a \in Nat /\ s \in Nat /\ s + 2 >= 4 * d
  BY <1>1, AbsIs, DecimalRefused
<1> HIDE DEF a, s, d, bits
<1>5. a >= 2 * d
  <2>1. s >= TwoTo[DecimalBits + 1]
    BY <1>3, <1>4
  <2> QED
    BY <1>1, <1>2, <1>3, <2>1, RoundedReaches DEF a, s
<1>6. n % 4 = 0
  <2>1. a >= 2 * TwoTo[bits]
    BY <1>3, <1>4, <1>5
  <2> QED
    BY <1>1, <1>2, <2>1, FloatsEnd DEF a
<1>7. s % 4 = 0
  BY <1>1, <1>6 DEF s, Abs
<1>8. s >= 4 * d
  BY <1>3, <1>4, <1>7
<1>9. a >= 4 * d
  <2>1. s >= TwoTo[DecimalBits + 2]
    BY <1>3, <1>8
  <2> QED
    BY <1>1, <1>2, <1>3, <2>1, RoundedReaches DEF a, s
<1>10. ~((a + 2) \div 4 < d)
  BY <1>3, <1>4, <1>9
<1> QED
  BY <1>9, <1>10 DEF FitsDecimal, Half, One, a, d

-----------------------------------------------------------------------------
(* What is known of a cell by its tag. *)

\* The integers of the columns are no larger than the widest.
LEMMA SmallIntegers ==
    ASSUME NEW w \in {8, 16, 32, 64}, NEW n
    PROVE  /\ n \in Signed(Width[w]) \cup UpTo(Width[w]) => n \in Int /\ Abs(n) <= TwoTo[Width[64]]
           /\ n \in Signed(Width[w]) => Abs(Half * n) <= TwoTo[Width[64]]
<1> DEFINE h == TwoTo[Width[w] - 1]
           b == TwoTo[Width[w]]
           t == TwoTo[Width[64]]
<1>1. /\ Width[w] \in Nat \ {0} /\ Width[64] \in Nat /\ Width[w] - 1 \in Nat
      /\ (Width[w] - 1) + 1 = Width[w] /\ (Width[w] = Width[64] \/ Width[w] < Width[64])
  <2>1. /\ Width[8] \in Nat \ {0} /\ Width[16] \in Nat \ {0} /\ Width[32] \in Nat \ {0}
        /\ Width[64] \in Nat \ {0}
        /\ Width[8] < Width[16] /\ Width[16] < Width[32] /\ Width[32] < Width[64]
    BY Widths
  <2> QED
    BY <2>1
<1>2. h \in Nat \ {0} /\ b = 2 * h /\ t \in Nat /\ (b = t \/ 2 * b <= t)
  BY <1>1, TwoToDoubles, TwoToGrows
<1>3. /\ n \in Signed(Width[w]) => n \in Int /\ -h <= n /\ n <= h - 1
      /\ n \in UpTo(Width[w]) => n \in Int /\ 0 <= n /\ n <= b - 1
  BY <1>1, SignedIs, UpToIs
<1> HIDE DEF h, b, t
<1>4. n \in Signed(Width[w]) \cup UpTo(Width[w]) => n \in Int /\ -t <= n /\ n <= t
  BY <1>2, <1>3
<1>5. n \in Signed(Width[w]) => Half * n \in Int /\ -t <= Half * n /\ Half * n <= t
  BY <1>2, <1>3 DEF Half
<1> QED
  BY <1>2, <1>4, <1>5, AbsIs DEF t

\* So a Decimal holds them.
LEMMA WholeHeld ==
    ASSUME NEW n \in Int, Abs(n) <= TwoTo[Width[64]]
    PROVE  n * One \in Int /\ (n * One) % One = 0 /\ Held(n * One)
<1> DEFINE t == TwoTo[Width[64]]
           d == TwoTo[DecimalBits]
           a == Abs(n)
<1>1. n * One \in Int /\ (n * One) % One = 0 /\ Abs(n * One) = a * One
  BY DEF One, Abs
<1>2. t \in Nat \ {0} /\ d \in Nat /\ 2 * t <= d
  BY DecimalAssumption, Widths, TwoToDoubles, TwoToGrows
<1>3. a \in Nat /\ a <= t
  BY AbsIs
<1> HIDE DEF t, d, a
<1>4. (a * One) \div One < d
  BY <1>2, <1>3 DEF One
<1> QED
  BY <1>1, <1>4 DEF Held, FitsDecimal, d

LEMMA BitHeld ==
    ASSUME NEW q \in {0, One}
    PROVE  q \in Int /\ q % One = 0 /\ Held(q)
<1>1. PICK n \in {0, 1} : q = n * One
  BY DEF One
<1>2. Abs(n) <= TwoTo[Width[64]]
  <2>1. TwoTo[Width[64]] \in Nat \ {0}
    BY Widths, TwoToDoubles
  <2> QED
    BY <2>1 DEF Abs
<1> QED
  BY <1>1, <1>2, WholeHeld

\* The numbers of both floats are f64s.
LEMMA FloatsKept ==
    ASSUME NEW q \in Float(Mantissa[32]) \cup Float(Mantissa[64])
    PROVE  q \in Int /\ ToF64(q) = q
<1>1. q \in Int /\ (Rounded(q, Mantissa[32]) = q \/ Rounded(q, Mantissa[64]) = q)
  BY DEF Float
<1>2. Mantissa[32] <= Mantissa[64]
  BY FloatWidths
<1>3. Rounded(q, Mantissa[32]) = q => Rounded(q, Mantissa[64]) = q
  <2>1. Rounded(Rounded(q, Mantissa[32]), Mantissa[64]) = Rounded(q, Mantissa[32])
    BY <1>1, <1>2, FloatWidths, RoundedTwice
  <2> QED
    BY <2>1
<1> QED
  BY <1>1, <1>3 DEF ToF64

\* The tag of a column's cells.
TagOf(name) ==
    CASE name \in {"decimal", "numeric"} -> "decimal"
      [] name \in {"nvarchar", "varchar", "nchar", "char", "text", "ntext"} -> "string"
      [] name \in {"binary", "varbinary", "image", "geometry", "geography"} -> "bytes"
      [] name = "uniqueidentifier" -> "uuid"
      [] OTHER -> name

KnownNumber(cell) ==
    /\ cell[1] \in Whole \cup {"bit"} => cell[2] \in Int /\ cell[2] % One = 0 /\ Held(cell[2])
    /\ cell[1] \in {"real", "float"} => cell[2] \in Int /\ ToF64(cell[2]) = cell[2]
    /\ cell[1] \in {"money", "smallmoney"} => cell[2] \in Int /\ Abs(cell[2]) <= TwoTo[Width[64]]
    /\ cell[1] = "decimal" =>
           cell[2] \in Int /\ cell[3] \in BOOLEAN /\ (~cell[3] => cell[2] % One = 0)

KnownText(cell) ==
    /\ cell[1] \in {"string", "xml", "json"} => cell[2] \in Text
    /\ cell[1] = "bytes" =>
           /\ cell = <<"bytes", cell[2]>> /\ cell[2] = <<cell[2][1], cell[2][2]>>
           /\ cell[2][1] = "utf8" => cell[2][2] \in Text
    /\ cell[1] = "uuid" => cell = <<"uuid", cell[2]>>

KnownMoment(cell) ==
    /\ cell[1] \in {"date", "datetime2", "datetimeoffset"} => cell[2] \in Nat /\ cell[2] <= MaxDay
    /\ cell[1] = "time" => cell[2] \in Nat /\ cell[2] < TicksPerDay
    /\ cell[1] \in {"datetime2", "datetimeoffset"} => cell[3] \in Nat /\ cell[3] < TicksPerDay
    /\ cell[1] \in {"datetime", "smalldatetime"} => cell[2] \in Int /\ cell[3] \in Nat
    /\ cell[1] = "datetime" => cell[3] < 300 * SecondsPerDay
    /\ cell[1] = "smalldatetime" => cell[3] < 24 * 60

\* A cell of a column of the type that is named.
KnownCell(name, cell) ==
    /\ cell[1] = TagOf(name)
    /\ KnownNumber(cell) /\ KnownText(cell) /\ KnownMoment(cell)
    /\ name \in {"geometry", "geography"} => cell[2][1] = "spatial"

LEMMA TextIs ==
    ASSUME NEW t \in Text
    PROVE  \/ /\ t[1] = "number" /\ t = Number(t[2], t[3])
              /\ t[2] \in Int /\ t[3] \in BOOLEAN /\ (~t[3] => t[2] % One = 0)
           \/ t[1] = "exponent" /\ t = Exponent(t[2]) /\ t[2] \in Int
           \/ t[1] = "word" /\ t = Word(t[2])
<1>1. CASE t \in {"number"} \X Int \X BOOLEAN
  <2>1. ~t[3] => t[2] % One = 0
    BY <1>1 DEF Text
  <2> QED
    BY <1>1, <2>1 DEF Number
<1>2. CASE t \in {"exponent"} \X Int
  BY <1>2 DEF Exponent
<1>3. CASE t \in {"word"} \X STRING
  BY <1>3 DEF Word
<1> QED
  BY <1>1, <1>2, <1>3 DEF Text

LEMMA BlobIs ==
    ASSUME NEW b \in Blob
    PROVE  b = <<b[1], b[2]>> /\ (b[1] = "utf8" => b[2] \in Text)
<1>1. CASE b \in {"utf8"} \X Text
  BY <1>1, InProduct
<1>2. CASE b \in {"raw"} \X Nat
  <2>1. b[1] \in {"raw"} /\ b = <<b[1], b[2]>>
    BY <1>2, InProduct
  <2> QED
    BY <2>1
<1>3. CASE b \in {"wkb"} \X Geometries
  <2>1. b[1] \in {"wkb"} /\ b = <<b[1], b[2]>>
    BY <1>3, InProduct
  <2> QED
    BY <2>1
<1> QED
  BY <1>1, <1>2, <1>3 DEF Blob

\* The moments of Cells, one type at a time.
LEMMA MomentCells ==
    /\ Cells("date") = {"date"} \X (0 .. MaxDay)
    /\ Cells("time") = {"time"} \X (0 .. TicksPerDay - 1)
    /\ Cells("datetime2") = {"datetime2"} \X (0 .. MaxDay) \X (0 .. TicksPerDay - 1)
    /\ Cells("datetimeoffset")
           = {"datetimeoffset"} \X (0 .. MaxDay) \X (0 .. TicksPerDay - 1) \X (-840 .. 840)
    /\ Cells("datetime") = {"datetime"} \X DateTimeDays \X DateTimeTicks
    /\ Cells("smalldatetime") = {"smalldatetime"} \X SmallDateTimeDays \X Minutes
BY IntegerColumns DEF Cells

LEMMA CellsKnown ==
    ASSUME NEW name \in DOMAIN SystemTypes, NEW cell \in Cells(name)
    PROVE  KnownCell(name, cell)
<1>1. CASE name \in {"tinyint", "smallint", "int", "bigint"}
  <2> DEFINE q == cell[2]
  <2>1. cell \in {name} \X IntegerCells(name)
    BY <1>1, IntegerColumns, CellSets
  <2>2. cell[1] = name /\ q \in IntegerCells(name)
    BY <2>1, InProduct
  <2> HIDE DEF q
  <2>3. q \in Int /\ q % One = 0 /\ q \div One \in SqlIntegers[name] /\ (q \div One) * One = q
    BY <2>2 DEF IntegerCells, One
  <2>4. \E w \in {8, 16, 32, 64} : SqlIntegers[name] \in {Signed(Width[w]), UpTo(Width[w])}
    BY <1>1 DEF SqlIntegers
  <2>5. q \div One \in Int /\ Abs(q \div One) <= TwoTo[Width[64]]
    BY <2>3, <2>4, SmallIntegers
  <2>6. Held(q)
    BY <2>3, <2>5, WholeHeld
  <2> QED
    BY <1>1, <2>2, <2>3, <2>6 DEF KnownCell, TagOf, KnownNumber, KnownText, KnownMoment, q
<1>2. CASE name \in {"bit", "real", "float", "money", "smallmoney"}
  <2> DEFINE q == cell[2]
  <2>1. /\ name = "bit" => cell \in {"bit"} \X {0, One}
        /\ name = "real" => cell \in {"real"} \X Float(Mantissa[32])
        /\ name = "float" => cell \in {"float"} \X Float(Mantissa[64])
        /\ name \in {"money", "smallmoney"} => cell \in {name} \X MoneyCells(name)
    BY <1>2, CellSets
  <2>2. /\ cell[1] = name
        /\ name = "bit" => q \in {0, One}
        /\ name \in {"real", "float"} => q \in Float(Mantissa[32]) \cup Float(Mantissa[64])
        /\ name \in {"money", "smallmoney"} => q \in MoneyCells(name)
    BY <1>2, <2>1, InProduct
  <2> HIDE DEF q
  <2>3. name = "bit" => q \in Int /\ q % One = 0 /\ Held(q)
    BY <2>2, BitHeld
  <2>4. name \in {"real", "float"} => q \in Int /\ ToF64(q) = q
    BY <2>2, FloatsKept
  <2>5. name \in {"money", "smallmoney"} => q \in Int /\ Abs(q) <= TwoTo[Width[64]]
    <3> SUFFICES ASSUME name \in {"money", "smallmoney"}
                 PROVE  q \in Int /\ Abs(q) <= TwoTo[Width[64]]
      OBVIOUS
    <3>1. \E w \in {32, 64} : \E n \in Signed(Width[w]) : q = Half * n
      BY <2>2 DEF MoneyCells
    <3> PICK w \in {32, 64} : \E n \in Signed(Width[w]) : q = Half * n
      BY <3>1
    <3> PICK n \in Signed(Width[w]) : q = Half * n
      OBVIOUS
    <3>2. n \in Int /\ Abs(Half * n) <= TwoTo[Width[64]]
      BY <3>1, SmallIntegers
    <3> QED
      BY <3>1, <3>2 DEF Half
  <2> QED
    BY <1>2, <2>2, <2>3, <2>4, <2>5 DEF KnownCell, TagOf, KnownNumber, KnownText, KnownMoment, Whole, q
<1>3. CASE name \in {"decimal", "numeric"}
  <2>1. cell \in DecimalCells
    BY <1>3, CellSets
  <2>2. cell[1] = "decimal" /\ cell[2] \in Int /\ cell[3] \in BOOLEAN /\ (~cell[3] => cell[2] % One = 0)
    BY <2>1 DEF DecimalCells
  <2> QED
    BY <1>3, <2>2 DEF KnownCell, TagOf, KnownNumber, KnownText, KnownMoment, Whole
<1>4. CASE name \in {"nvarchar", "varchar", "nchar", "char", "text", "ntext", "xml", "json"}
  <2>1. cell \in {TagOf(name)} \X Text
    BY <1>4, CellSets DEF TagOf
  <2>2. cell[1] = TagOf(name) /\ cell[2] \in Text
    BY <2>1, InProduct
  <2> QED
    BY <1>4, <2>2 DEF KnownCell, TagOf, KnownNumber, KnownText, KnownMoment, Whole
<1>5. CASE name \in {"binary", "varbinary", "image"}
  <2>1. cell \in {"bytes"} \X Blob
    BY <1>5, CellSets
  <2>2. cell[1] = "bytes" /\ cell[2] \in Blob /\ cell = <<cell[1], cell[2]>>
    BY <2>1, InProduct
  <2>3. cell[2] = <<cell[2][1], cell[2][2]>> /\ (cell[2][1] = "utf8" => cell[2][2] \in Text)
    BY <2>2, BlobIs
  <2> QED
    BY <1>5, <2>2, <2>3 DEF KnownCell, TagOf, KnownNumber, KnownText, KnownMoment, Whole
<1>6. CASE name \in {"geometry", "geography"}
  <2>1. cell \in {"bytes"} \X ({"spatial"} \X Payloads)
    BY <1>6, CellSets
  <2>2. cell[1] = "bytes" /\ cell[2] \in {"spatial"} \X Payloads /\ cell = <<cell[1], cell[2]>>
    BY <2>1, InProduct
  <2>3. cell[2][1] = "spatial" /\ cell[2] = <<cell[2][1], cell[2][2]>>
    BY <2>2, InProduct
  <2> QED
    BY <1>6, <2>2, <2>3 DEF KnownCell, TagOf, KnownNumber, KnownText, KnownMoment, Whole
<1>7. CASE name = "uniqueidentifier"
  <2>1. cell \in {"uuid"} \X STRING
    BY <1>7, CellSets
  <2>2. cell[1] = "uuid" /\ cell = <<cell[1], cell[2]>>
    BY <2>1, InProduct
  <2> QED
    BY <1>7, <2>2 DEF KnownCell, TagOf, KnownNumber, KnownText, KnownMoment, Whole
<1>8. CASE name \in {"date", "time", "datetime2", "datetimeoffset"}
  <2> DEFINE days == 0 .. MaxDay
             ticks == 0 .. TicksPerDay - 1
  <2>1. /\ \A d \in days : d \in Nat /\ d <= MaxDay
        /\ \A t \in ticks : t \in Nat /\ t < TicksPerDay
    <3>1. MaxDay \in Int /\ TicksPerDay \in Int
      BY SecondsKnown, Units DEF MaxDay, TicksPerDay
    <3> QED
      BY <3>1
  <2> HIDE DEF days, ticks
  <2>2. /\ name = "date" => cell \in {"date"} \X days
        /\ name = "time" => cell \in {"time"} \X ticks
        /\ name = "datetime2" => cell \in {"datetime2"} \X days \X ticks
        /\ name = "datetimeoffset" => cell \in {"datetimeoffset"} \X days \X ticks \X (-840 .. 840)
    BY MomentCells DEF days, ticks
  <2>3. /\ cell[1] = name
        /\ name # "time" => cell[2] \in days
        /\ name = "time" => cell[2] \in ticks
        /\ name \in {"datetime2", "datetimeoffset"} => cell[3] \in ticks
    BY <1>8, <2>2
  <2> QED
    BY <1>8, <2>1, <2>3 DEF KnownCell, TagOf, KnownNumber, KnownText, KnownMoment, Whole
<1>9. CASE name \in {"datetime", "smalldatetime"}
  <2>1. /\ name = "datetime" => cell \in {"datetime"} \X DateTimeDays \X DateTimeTicks
        /\ name = "smalldatetime" => cell \in {"smalldatetime"} \X SmallDateTimeDays \X Minutes
    BY MomentCells
  <2>2. /\ cell[1] = name
        /\ name = "datetime" => cell[2] \in DateTimeDays /\ cell[3] \in DateTimeTicks
        /\ name = "smalldatetime" => cell[2] \in SmallDateTimeDays /\ cell[3] \in Minutes
    BY <1>9, <2>1
  <2>3. /\ \A d \in DateTimeDays \cup SmallDateTimeDays : d \in Int
        /\ \A t \in DateTimeTicks : t \in Nat /\ t < 300 * SecondsPerDay
        /\ \A m \in Minutes : m \in Nat /\ m < 24 * 60
    <3>1. DateTimeDays \subseteq Int /\ SmallDateTimeDays \subseteq Int
      <4>1. MaxDay - Epoch1900 \in Int
        BY DEF MaxDay, Epoch1900
      <4> QED
        BY <4>1 DEF DateTimeDays, SmallDateTimeDays
    <3>2. \A m \in Minutes : m \in Nat /\ m < 24 * 60
      BY DEF Minutes
    <3>3. ASSUME NEW t \in DateTimeTicks PROVE t \in Nat /\ t < 300 * SecondsPerDay
      <4> DEFINE all == 300 * SecondsPerDay
      <4>1. all \in Int /\ t \in 0 .. all - 1
        BY SecondsKnown DEF DateTimeTicks
      <4> HIDE DEF all
      <4>2. t \in Nat /\ t < all
        BY <4>1
      <4> QED
        BY <4>2 DEF all
    <3> QED
      BY <3>1, <3>2, <3>3
  <2>4. /\ cell[2] \in Int /\ cell[3] \in Nat
        /\ name = "datetime" => cell[3] < 300 * SecondsPerDay
        /\ name = "smalldatetime" => cell[3] < 24 * 60
    BY <1>9, <2>2, <2>3
  <2> QED
    BY <1>9, <2>2, <2>4 DEF KnownCell, TagOf, KnownNumber, KnownText, KnownMoment, Whole
<1> QED
  BY <1>1, <1>2, <1>3, <1>4, <1>5, <1>6, <1>7, <1>8, <1>9 DEF SystemTypes

\* So is a cell that was stored for a value.
LEMMA StoredKnown ==
    ASSUME NEW type \in RustTypes, NEW value \in Values(type), NEW cell, Kept(type, value, cell),
           Encode(type, value) # None
    PROVE  KnownCell(OwnType[type.kind], cell)
<1> DEFINE kind == type.kind
           name == OwnType[kind]
<1>1. CASE kind \in Integer
  <2>1. cell = <<name, value * One>> /\ name \in Whole
    BY <1>1, IntegerKinds DEF Kept, OwnType, Whole
  <2>2. value \in Int /\ Abs(value) <= TwoTo[Width[64]]
    <3>1. value \in Signed(Width[64])
      BY <1>1 DEF Kept, IntegerRange
    <3> QED
      BY <3>1, SmallIntegers
  <2>3. value * One \in Int /\ (value * One) % One = 0 /\ Held(value * One)
    BY <2>2, WholeHeld
  <2> HIDE DEF name
  <2>4. KnownCell(name, cell)
    BY <2>1, <2>3 DEF KnownCell, TagOf, KnownNumber, KnownText, KnownMoment, Whole
  <2> QED
    BY <2>4 DEF name
<1>2. CASE kind \in {"bool", "f32", "f64"}
  <2>1. /\ kind = "bool" => cell = <<"bit", IF value THEN One ELSE 0>>
        /\ kind = "f32" => cell = <<"real", value>> /\ value \in Float(Mantissa[32])
        /\ kind = "f64" => cell = <<"float", value>> /\ value \in Float(Mantissa[64])
    BY <1>2, IntegerKinds DEF Kept, Values, RustType
  <2>2. name = cell[1] /\ name \in {"bit", "real", "float"}
        /\ (name = "bit" => cell[2] \in {0, One})
        /\ (name # "bit" => cell[2] \in Float(Mantissa[32]) \cup Float(Mantissa[64]))
    BY <1>2, <2>1 DEF OwnType
  <2> HIDE DEF name
  <2>3. /\ name = "bit" => cell[2] \in Int /\ cell[2] % One = 0 /\ Held(cell[2])
        /\ name # "bit" => cell[2] \in Int /\ ToF64(cell[2]) = cell[2]
    <3> DEFINE q == cell[2]
    <3> HIDE DEF q
    <3>1. (name = "bit" => q \in {0, One})
          /\ (name # "bit" => q \in Float(Mantissa[32]) \cup Float(Mantissa[64]))
      BY <2>2 DEF q
    <3>2. /\ name = "bit" => q \in Int /\ q % One = 0 /\ Held(q)
          /\ name # "bit" => q \in Int /\ ToF64(q) = q
      BY <3>1, BitHeld, FloatsKept
    <3> QED
      BY <3>2 DEF q
  <2>4. KnownCell(name, cell)
    BY <2>2, <2>3 DEF KnownCell, TagOf, KnownNumber, KnownText, KnownMoment, Whole
  <2> QED
    BY <2>4 DEF name
<1>3. CASE kind \in {"string", "json"}
  <2>1. /\ kind = "string" => cell = <<"string", value>>
        /\ kind = "json" => cell = <<"json", value>>
        /\ value \in Text
    BY <1>3, IntegerKinds DEF Kept, Values, RustType
  <2>2. cell[1] = TagOf(name) /\ cell[1] \in {"string", "json"} /\ cell[2] \in Text
        /\ name \in {"nvarchar", "json"}
    BY <1>3, <2>1 DEF OwnType, TagOf
  <2> HIDE DEF name
  <2>3. KnownCell(name, cell)
    BY <2>2 DEF KnownCell, KnownNumber, KnownText, KnownMoment, Whole
  <2> QED
    BY <2>3 DEF name
<1>4. CASE kind = "decimal"
  <2>1. PICK point \in BOOLEAN : cell = <<"decimal", value, point>> /\ (value % One # 0 => point)
    BY <1>4 DEF Kept
  <2>2. value \in Int
    BY <1>4, IntegerKinds DEF Values, RustType
  <2>3. cell[1] = "decimal" /\ cell[2] \in Int /\ cell[3] \in BOOLEAN /\ (~cell[3] => cell[2] % One = 0)
        /\ name = "decimal"
    BY <1>4, <2>1, <2>2 DEF OwnType
  <2> HIDE DEF name
  <2>4. KnownCell(name, cell)
    BY <2>3 DEF KnownCell, TagOf, KnownNumber, KnownText, KnownMoment, Whole
  <2> QED
    BY <2>4 DEF name
<1>5. CASE kind \in {"bytes", "wkb"} \cup ShapeKinds
  <2>1. /\ cell = <<"bytes", cell[2]>> /\ cell[2] = <<cell[2][1], cell[2][2]>>
        /\ cell[2][1] = "utf8" => cell[2][2] \in Text
        /\ kind \in ShapeKinds => cell[2][1] = "spatial"
    <3>1. CASE kind = "bytes"
      <4>1. cell = <<"bytes", value>> /\ value \in Blob
        BY <3>1, IntegerKinds DEF Kept, Values, RustType
      <4>2. value = <<value[1], value[2]>> /\ (value[1] = "utf8" => value[2] \in Text)
        BY <4>1, BlobIs
      <4> QED
        BY <3>1, <4>1, <4>2 DEF ShapeKinds
    <3>2. CASE kind = "wkb"
      <4>1. cell = <<"bytes", <<"wkb", value>>>>
        BY <3>2 DEF Kept
      <4> QED
        BY <3>2, <4>1 DEF ShapeKinds
    <3>3. CASE kind \in ShapeKinds
      <4> DEFINE payload == ServerForm(EncodePayload(value[1], value[2]))
      <4>1. cell = <<"bytes", <<"spatial", payload>>>>
        BY <3>3 DEF Kept
      <4> HIDE DEF payload
      <4> QED
        BY <4>1
    <3> QED
      BY <1>5, <3>1, <3>2, <3>3
  <2>2. TagOf(name) = "bytes" /\ (name \in {"geometry", "geography"} => kind \in ShapeKinds)
    BY <1>5 DEF OwnType, TagOf, ShapeKinds
  <2> HIDE DEF name
  <2>3. KnownCell(name, cell)
    BY <2>1, <2>2 DEF KnownCell, KnownNumber, KnownText, KnownMoment, Whole
  <2> QED
    BY <2>3 DEF name
<1>6. CASE kind = "uuid"
  <2>1. cell = <<"uuid", value>> /\ TagOf(name) = "uuid" /\ name = "uniqueidentifier"
    BY <1>6 DEF Kept, OwnType, TagOf
  <2> HIDE DEF name
  <2>2. KnownCell(name, cell)
    BY <2>1 DEF KnownCell, KnownNumber, KnownText, KnownMoment, Whole
  <2> QED
    BY <2>2 DEF name
<1>7. CASE kind \in Moments
  <2>1. PICK day, nanos : Sends(type, value, day, nanos)
    BY <1>7, MomentSent
  <2>2. cell = EncodeMoment(type, value)[1] /\ cell \in StoresMoment(cell)
    BY <1>7 DEF Kept
  <2>3. EncodeMoment(type, value) # None
    BY <1>7, Encodes DEF Encoded
  <2> DEFINE ticks == NanosToTicks(nanos)
  <2>4. /\ ticks \in Nat
        /\ kind # "time" => day \in Nat /\ day <= MaxDay
        /\ kind # "date" => ticks < TicksPerDay
        /\ kind = "date" => cell = <<"date", day>>
        /\ kind = "time" => cell = <<"time", ticks>>
        /\ kind = "datetime" => cell = <<"datetime2", day, ticks>>
        /\ kind = "timestamp" => cell = <<"datetimeoffset", day, ticks, 0>>
    BY <1>7, <2>1, <2>2, <2>3, MomentStored
  <2> HIDE DEF ticks
  <2>5. name = cell[1] /\ name \in {"date", "time", "datetime2", "datetimeoffset"}
    BY <1>7, <2>4 DEF OwnType, Moments
  <2>6. KnownMoment(cell)
    BY <1>7, <2>4 DEF KnownMoment, Moments
  <2> HIDE DEF name
  <2>7. KnownCell(name, cell)
    BY <2>5, <2>6 DEF KnownCell, TagOf, KnownNumber, KnownText, Whole
  <2> QED
    BY <2>7 DEF name
<1> QED
  BY <1>1, <1>2, <1>3, <1>4, <1>5, <1>6, <1>7, Kinds DEF ShapeKinds

\* What is known of the row that was read.
KnownRow(name, nullable) ==
    /\ name \in DOMAIN SystemTypes /\ nullable \in BOOLEAN
    /\ row.column = TypeInfo(name, StoredAs(name, nullable))
    /\ KnownCell(name, row.cell)

LEMMA RowKnown ==
    ASSUME IInv, at = "done", ~IsNull(row.cell)
    PROVE  \/ \E name, nullable : KnownRow(name, nullable)
           \/ row.column = VectorColumn /\ row.cell = VectorCell
<1>0. CASE VectorRow
  BY <1>0 DEF VectorRow, IsNull
<1> SUFFICES ASSUME ~VectorRow PROVE \E name, nullable : KnownRow(name, nullable)
  BY <1>0
<1>1. PICK name \in DOMAIN SystemTypes, nullable \in BOOLEAN :
          /\ row.column = TypeInfo(name, StoredAs(name, nullable))
          /\ \/ written = Foreign /\ row.cell \in Cells(name) \cup {<<"null">>}
             \/ /\ written \in Writes /\ name = OwnType[written.type.kind]
                /\ Bound(written) # None
                /\ row.cell \in Inserted(written, Bound(written)[1])
  BY DEF IInv, Stored
<1>2. row.cell # <<"null">>
  BY DEF IsNull
<1>3. CASE written = Foreign /\ row.cell \in Cells(name)
  BY <1>1, <1>3, CellsKnown DEF KnownRow
<1>4. CASE written \in Writes /\ name = OwnType[written.type.kind] /\ Bound(written) # None
           /\ row.cell \in Inserted(written, Bound(written)[1])
  <2>1. written.value # None
    BY <1>2, <1>4, NullStored
  <2>2. /\ written.type \in RustTypes /\ written.value[1] \in Values(written.type)
        /\ Encode(written.type, written.value[1]) # None
    BY <1>4, <2>1, Written DEF Bound
  <2>3. Kept(written.type, written.value[1], row.cell)
    BY <1>4, <2>1, StoredFor
  <2>4. KnownCell(name, row.cell)
    BY <1>4, <2>2, <2>3, StoredKnown
  <2> QED
    BY <1>1, <2>4 DEF KnownRow
<1> QED
  BY <1>1, <1>2, <1>3, <1>4

\* And of what was read from it.
LEMMA WasRead ==
    ASSUME IInv, at = "done", result.outcome \in {"value", "error"}
    PROVE  LET x == Decode(reader.type, row.column, row.cell)
           IN  /\ reader.type \in RustTypes /\ ~IsNull(row.cell)
               /\ result.outcome = "value" => x # None /\ result.value = x
               /\ result.outcome = "error" => x = None
               /\ reader.how = "checked" => Compatible(reader.type.kind, row.column)
<1>1. /\ reader.type \in RustTypes \/ reader.type = RustType("std", AnyKind(row.column.tds))
      /\ result = Got(reader.type, reader.how, row.column, row.cell)
  BY DEF IInv, ReadAs
<1>2. reader.type \in RustTypes
  <2>1. AnyKind(row.column.tds) \in {"bool", "i16", "i32", "i64", "f32", "f64", "bytes", "string"}
    BY DEF AnyKind
  <2> QED
    BY <1>1, <2>1, IntegerKinds DEF RustTypes
<1> QED
  BY <1>1, <1>2 DEF Got, Outcome, Decoded

\* No type reads a vector.
LEMMA VectorUnread ==
    ASSUME NEW type \in RustTypes, NEW column
    PROVE  Decode(type, column, VectorCell) = None
<1> DEFINE kind == type.kind
<1>1. VectorCell[1] = "vector"
  BY DEF VectorCell
<1> DEFINE cell == VectorCell
<1> HIDE DEF cell
<1>2. cell[1] = "vector"
  BY <1>1 DEF cell
<1>3. TextualForm(cell) = None
  BY <1>2 DEF TextualForm
<1>4. AsI64(cell) = None /\ AsF64(cell) = None /\ AsBool(cell) = None /\ AsBytes(cell) = None
  BY <1>2, <1>3 DEF AsI64, AsF64, AsBool, AsBytes, Whole
<1>5. CASE kind \in Integer \cup {"bool", "f32", "f64", "string", "bytes", "decimal", "uuid", "json"}
  <2>1. DecodeInteger(kind, cell) = None /\ DecodeF32(cell) = None /\ DecodeString(cell) = None
    BY <1>3, <1>4 DEF DecodeInteger, DecodeF32, DecodeString
  <2>2. DecodeDecimal(type.crate, cell) = None /\ DecodeUuid(cell) = None /\ DecodeJson(cell) = None
    BY <1>2, <1>3, <1>4 DEF DecodeDecimal, DecodeUuid, DecodeJson
  <2> QED
    BY <1>4, <1>5, <2>1, <2>2, Decodes DEF cell
<1>6. CASE kind \in ShapeKinds \cup {"wkb"}
  <2>1. DecodeShape(kind, column, cell) = None
    BY <1>4 DEF DecodeShape
  <2> QED
    BY <1>6, <2>1, Decodes DEF cell
<1>7. CASE kind \in Moments
  <2>1. type = RustType(type.crate, kind) /\ type.crate \in Crates
    BY <1>7, MomentTypes
  <2>2. MomentFrom(type.crate, cell) = None
    BY <1>2, <2>1 DEF MomentFrom, ChronoMoment, TimeMoment, JiffMoment, Crates
  <2>3. TimeReadTimestamp(cell) = None /\ JiffReadTimestamp(cell) = None
    BY <1>2 DEF TimeReadTimestamp, TimeMoment, JiffReadTimestamp
  <2>4. DecodeMoment(type, cell) = None
    BY <1>2, <1>7, <2>1, <2>2, <2>3, ReadCases DEF Moments, Crates, DatePart, TimePart
  <2> QED
    BY <1>7, <2>4, Decodes DEF cell
<1> QED
  BY <1>5, <1>6, <1>7, Kinds DEF ShapeKinds

-----------------------------------------------------------------------------
(* What is read from a number. *)

\* A whole number of one bit more than an f64 keeps goes through one unchanged,
\* and is an i64.
LEMMA ExactWhole ==
    ASSUME NEW q \in Int, q % One = 0, Abs(q) <= 2 * TwoTo[Mantissa[64]]
    PROVE  ToF64(q) = q /\ q \div One \in IntegerRange.i64
<1> DEFINE bits == Mantissa[64]
           b == TwoTo[bits]
           c == TwoTo[Width[64] - 1]
<1>1. ToF64(q) = q
  BY FloatWidths, RoundedExactly DEF ToF64
<1>2. b \in Nat /\ c \in Nat /\ b <= c
  <2>1. Width[64] - 1 \in Nat /\ (bits = Width[64] - 1 \/ bits < Width[64] - 1) /\ bits \in Nat
    BY FloatWidths, Widths
  <2>2. b \in Nat /\ c \in Nat
    BY <2>1, TwoToDoubles
  <2>3. bits < Width[64] - 1 => 2 * b <= c
    BY <2>1, TwoToGrows
  <2>4. bits = Width[64] - 1 => b = c
    OBVIOUS
  <2> HIDE DEF b, c, bits
  <2> QED
    BY <2>1, <2>2, <2>3, <2>4
<1>3. q <= 2 * b /\ -q <= 2 * b
  <2>1. Abs(q) <= 2 * b
    OBVIOUS
  <2> HIDE DEF b
  <2> QED
    BY <1>2, <2>1 DEF Abs
<1>4. b # 0
  <2>1. bits \in Nat
    BY FloatWidths
  <2> QED
    BY <2>1, TwoToDoubles
<1> HIDE DEF b, c, bits
<1>5. q \div One \in Int /\ -c <= q \div One /\ q \div One <= c - 1
  BY <1>2, <1>3, <1>4 DEF One
<1>6. q \div One \in Signed(Width[64])
  BY <1>5, Widths, SignedIs DEF c
<1> QED
  BY <1>1, <1>6 DEF IntegerRange

LEMMA IntegersAre ==
    ASSUME NEW kind \in Integer
    PROVE  /\ IntegerRange[kind] \subseteq Int
           /\ kind \notin {"i64", "u64"} =>
                  \A n \in IntegerRange[kind] : Abs(n * One) <= 2 * TwoTo[Mantissa[64]]
<1> DEFINE t == TwoTo[Width[32]]
           m == TwoTo[Mantissa[64]]
<1>1. ASSUME NEW w \in {8, 16, 32}, NEW n
      PROVE  n \in Signed(Width[w]) \cup UpTo(Width[w]) => n \in Int /\ -t <= n /\ n <= t
  <2> DEFINE a == TwoTo[Width[w] - 1]
             b == TwoTo[Width[w]]
  <2>1. /\ Width[w] \in Nat \ {0} /\ Width[32] \in Nat /\ Width[w] - 1 \in Nat
        /\ Width[w] - 1 < Width[32] /\ (Width[w] = Width[32] \/ Width[w] < Width[32])
    <3>1. /\ Width[8] \in Nat \ {0} /\ Width[16] \in Nat \ {0} /\ Width[32] \in Nat \ {0}
          /\ Width[8] < Width[16] /\ Width[16] < Width[32]
      BY Widths
    <3> QED
      BY <3>1
  <2>2. a \in Nat /\ b \in Nat /\ t \in Nat /\ 2 * a <= t /\ (b = t \/ 2 * b <= t)
    BY <2>1, TwoToDoubles, TwoToGrows
  <2>3. /\ n \in Signed(Width[w]) => n \in Int /\ -a <= n /\ n <= a - 1
        /\ n \in UpTo(Width[w]) => n \in Int /\ 0 <= n /\ n <= b - 1
    BY <2>1, SignedIs, UpToIs
  <2> HIDE DEF a, b, t
  <2> QED
    BY <2>2, <2>3
<1>2. ASSUME NEW n PROVE n \in Signed(Width[64]) \cup UpTo(Width[64]) => n \in Int
  BY Widths, SignedIs, UpToIs
<1>3. /\ kind \in {"i8", "i16", "i32", "u8", "u16", "u32"} =>
             \E w \in {8, 16, 32} : IntegerRange[kind] \in {Signed(Width[w]), UpTo(Width[w])}
      /\ kind \in {"i64", "u64"} =>
             IntegerRange[kind] \in {Signed(Width[64]), UpTo(Width[64])}
  BY DEF IntegerRange
<1>4. t \in Nat /\ m \in Nat /\ 2 * t <= m
  <2>1. Width[32] \in Nat /\ Mantissa[64] \in Nat /\ Width[32] < Mantissa[64]
    BY Widths, FloatWidths
  <2> QED
    BY <2>1, TwoToDoubles, TwoToGrows
<1>5. ASSUME NEW n \in Int, -t <= n, n <= t PROVE Abs(n * One) <= 2 * m
  <2> HIDE DEF t, m
  <2>1. n * One \in Int /\ n * One <= 2 * m /\ -(n * One) <= 2 * m
    BY <1>4, <1>5 DEF One
  <2> QED
    BY <2>1, AbsIs
<1>6. CASE kind \in {"i64", "u64"}
  BY <1>2, <1>3, <1>6
<1>7. CASE kind \in {"i8", "i16", "i32", "u8", "u16", "u32"}
  <2>1. \A n \in IntegerRange[kind] : n \in Int /\ -t <= n /\ n <= t
    BY <1>1, <1>3, <1>7
  <2> HIDE DEF t, m
  <2>2. \A n \in IntegerRange[kind] : Abs(n * One) <= 2 * m
    BY <1>5, <2>1
  <2> QED
    BY <2>1, <2>2 DEF m
<1> QED
  BY <1>6, <1>7, IntegerKinds

LEMMA SaturatedIs ==
    ASSUME NEW n \in Int
    PROVE  /\ Saturated(n) \in IntegerRange.i64
           /\ n \in IntegerRange.i64 => Saturated(n) = n
           /\ n >= 0 => Saturated(n) \in IntegerRange.u64
<1> DEFINE c == TwoTo[Width[64] - 1]
<1>1. /\ Width[64] \in Nat \ {0} /\ Width[64] - 1 \in Nat /\ (Width[64] - 1) + 1 = Width[64]
  BY Widths
<1>2. c \in Nat \ {0} /\ TwoTo[Width[64]] = 2 * c
  BY <1>1, TwoToDoubles
<1>3. \A i : i \in IntegerRange.i64 <=> i \in Int /\ -c <= i /\ i <= c - 1
  BY <1>1, SignedIs DEF IntegerRange
<1>4. \A i : i \in IntegerRange.u64 <=> i \in Int /\ 0 <= i /\ i <= 2 * c - 1
  BY <1>1, <1>2, UpToIs DEF IntegerRange
<1>5. Saturated(n) = IF n \in IntegerRange.i64 THEN n ELSE IF n < 0 THEN -c ELSE c - 1
  BY DEF Saturated
<1> HIDE DEF c
<1> QED
  BY <1>2, <1>3, <1>4, <1>5

\* The number that is read as an integer from what is no integer column: a text
\* or a decimal.
LEMMA IntegerSpelt ==
    ASSUME NEW q \in Int, NEW point \in BOOLEAN, ~point => q % One = 0, NEW kind \in Integer,
           NEW t, t = Number(q, point) \/ (t = Exponent(q) /\ point)
    PROVE  LET x == ParseIntegerText(t)
           IN  /\ x # None => x = Some(x[1])
               /\ x # None /\ Abs(q) <= TwoTo[Mantissa[64]] => x[1] * One = q
               /\ q % One = 0 /\ q \div One \in IntegerRange[kind] =>
                      x # None /\ x[1] \in IntegerRange[kind]
<1> DEFINE f == ToF64(q)
           x == ParseIntegerText(t)
           n == q \div One
<1>1. /\ t[2] = q
      /\ (t[1] = "number" /\ t[3] = point) \/ (t[1] = "exponent" /\ point)
  <2>1. CASE t = Number(q, point)
    <3>1. t = <<"number", q, point>>
      BY <2>1 DEF Number
    <3> QED
      BY <3>1
  <2>2. CASE t = Exponent(q) /\ point
    BY <2>2 DEF Exponent
  <2> QED
    BY <2>1, <2>2
<1>2. x = IF ~point /\ n \in IntegerRange.i64 THEN Some(n)
          ELSE IF f % One = 0 THEN Some(Saturated(f \div One)) ELSE None
  BY <1>1 DEF ParseIntegerText
<1> HIDE DEF x
<1>3. /\ f \in Int /\ (q % One = 0 => f % One = 0) /\ (q >= 0 => f >= 0)
  BY FloatWidths, RoundedIs, RoundedWhole DEF ToF64
<1>4. q % One = 0 => n * One = q
  BY DEF One
<1>5. n \in Int /\ f \div One \in Int /\ (f >= 0 => f \div One >= 0) /\ (n >= 0 => q >= 0)
      /\ (f % One = 0 => (f \div One) * One = f)
  BY <1>3 DEF One
<1>6. TwoTo[Mantissa[64]] \in Nat
  <2>1. Mantissa[64] \in Nat
    BY FloatWidths
  <2> QED
    BY <2>1, TwoToDoubles
<1>7. Abs(q) <= TwoTo[Mantissa[64]] => f = q
  BY FloatWidths, RoundedExactly DEF ToF64
<1>8. Abs(q) \in Int
  BY AbsIs
<1>9. Abs(q) <= TwoTo[Mantissa[64]] => Abs(q) <= 2 * TwoTo[Mantissa[64]]
  BY <1>6, <1>8
<1>10. q % One = 0 /\ Abs(q) <= 2 * TwoTo[Mantissa[64]] => f = q /\ n \in IntegerRange.i64
  BY ExactWhole
<1> HIDE DEF f, n
<1>11. ASSUME x # None, Abs(q) <= TwoTo[Mantissa[64]] PROVE x[1] * One = q
  <2>1. CASE ~point /\ n \in IntegerRange.i64
    BY <1>2, <1>4, <2>1, OneSome
  <2>2. CASE ~(~point /\ n \in IntegerRange.i64)
    <3>1. f % One = 0 /\ x = Some(Saturated(f \div One))
      BY <1>2, <1>11, <2>2
    <3>2. f = q /\ n \in IntegerRange.i64 /\ q % One = 0
      BY <1>7, <1>9, <1>10, <1>11, <3>1
    <3>3. f \div One = n
      BY <3>2 DEF n
    <3> QED
      BY <1>4, <1>5, <3>1, <3>2, <3>3, OneSome, SaturatedIs
  <2> QED
    BY <2>1, <2>2
<1>12. ASSUME q % One = 0, n \in IntegerRange[kind] PROVE x # None /\ x[1] \in IntegerRange[kind]
  <2>1. CASE ~point /\ n \in IntegerRange.i64
    BY <1>2, <1>12, <2>1, OneSome
  <2>2. CASE ~(~point /\ n \in IntegerRange.i64)
    <3> DEFINE s == Saturated(f \div One)
    <3>1. x = Some(s)
      BY <1>2, <1>3, <1>12, <2>2
    <3>2. s \in IntegerRange[kind]
      <4>1. CASE kind = "i64"
        BY <1>5, <4>1, SaturatedIs
      <4>2. CASE kind = "u64"
        <5>1. n >= 0
          BY <1>12, <4>2, Widths, UpToIs DEF IntegerRange
        <5> QED
          BY <1>3, <1>5, <4>2, <5>1, SaturatedIs
      <4>3. CASE kind \notin {"i64", "u64"}
        <5>1. Abs(n * One) <= 2 * TwoTo[Mantissa[64]]
          BY <1>12, <4>3, IntegersAre
        <5>2. f = q /\ n \in IntegerRange.i64
          BY <1>4, <1>10, <1>12, <5>1
        <5>3. f \div One = n
          BY <5>2 DEF n
        <5> QED
          BY <1>5, <1>12, <5>2, <5>3, SaturatedIs
      <4> QED
        BY <4>1, <4>2, <4>3
    <3> HIDE DEF s
    <3> QED
      BY <3>1, <3>2, OneSome
  <2> QED
    BY <2>1, <2>2
<1>13. x # None => x = Some(x[1])
  BY <1>2, OneSome
<1> QED
  BY <1>11, <1>12, <1>13 DEF x, n

LEMMA IntegerText ==
    ASSUME NEW t \in Text, t[1] # "word", NEW kind \in Integer
    PROVE  LET q == t[2]
               x == ParseIntegerText(t)
           IN  /\ x # None => x = Some(x[1])
               /\ x # None /\ Abs(q) <= TwoTo[Mantissa[64]] => x[1] * One = q
               /\ q % One = 0 /\ q \div One \in IntegerRange[kind] =>
                      x # None /\ x[1] \in IntegerRange[kind]
<1>1. CASE t[1] = "number"
  <2>1. t = Number(t[2], t[3]) /\ t[2] \in Int /\ t[3] \in BOOLEAN /\ (~t[3] => t[2] % One = 0)
    BY <1>1, TextIs
  <2> QED
    BY <2>1, IntegerSpelt
<1>2. CASE t[1] = "exponent"
  <2>1. t = Exponent(t[2]) /\ t[2] \in Int
    BY <1>2, TextIs
  <2> QED
    BY <2>1, IntegerSpelt
<1> QED
  BY <1>1, <1>2, TextIs

-----------------------------------------------------------------------------
(* What is read from a cell that is no moment and no shape. *)

\* The views of a cell, by its tag.
NumberViews(cell) ==
    /\ cell[1] \in Whole \cup {"bit", "real", "float", "money", "smallmoney"} =>
           /\ TextualForm(cell) = None /\ AsBytes(cell) = None
           /\ NumberIn(cell) = Some(cell[2]) /\ TextIn(cell) = None
    /\ AsI64(cell) = IF cell[1] \in Whole \cup {"bit"} THEN Some(cell[2] \div One)
                     ELSE IF TextualForm(cell) = None THEN None
                     ELSE ParseIntegerText(TextualForm(cell)[1])
    /\ cell[1] \in {"real", "float"} => AsF64(cell) = Some(cell[2])
    /\ cell[1] \in Whole \cup {"money", "smallmoney"} => AsF64(cell) = Some(ToF64(cell[2]))
    /\ cell[1] = "bit" => AsF64(cell) = None
    /\ cell[1] \in Whole \cup {"bit", "real", "float"} => AsBool(cell) = Some(cell[2] # 0)
    /\ cell[1] \in {"money", "smallmoney"} => AsBool(cell) = None

LEMMA NumbersViewed ==
    ASSUME NEW cell
    PROVE  NumberViews(cell)
<1>1. CASE cell[1] \in {"tinyint", "smallint", "int", "bigint"}
  BY <1>1 DEF NumberViews, TextualForm, AsBytes, NumberIn, TextIn, AsI64, AsF64, AsBool, Whole
<1>2. CASE cell[1] = "bit"
  BY <1>2 DEF NumberViews, TextualForm, AsBytes, NumberIn, TextIn, AsI64, AsF64, AsBool, Whole
<1>3. CASE cell[1] \in {"real", "float", "money", "smallmoney"}
  BY <1>3 DEF NumberViews, TextualForm, AsBytes, NumberIn, TextIn, AsI64, AsF64, AsBool, Whole
<1>4. CASE cell[1] \notin {"tinyint", "smallint", "int", "bigint", "bit", "real", "float", "money", "smallmoney"}
  BY <1>4 DEF NumberViews, AsI64, Whole
<1> QED
  BY <1>1, <1>2, <1>3, <1>4

\* A cell with a text.
TextCells == {"string", "xml", "json", "decimal"}
TextViews(cell, t) ==
    /\ t \in Text
    /\ TextualForm(cell) = Some(t) /\ TextIn(cell) = Some(t)
    /\ NumberIn(cell) = NumberOf(t)
    /\ AsF64(cell) = IF t[1] # "word" THEN Some(ToF64(t[2])) ELSE None
    /\ AsBytes(cell) = Some(<<"utf8", t>>)
    /\ AsBool(cell) = ParseBoolText(t)
    /\ AsI64(cell) = ParseIntegerText(t)

LEMMA TextsViewed ==
    ASSUME NEW cell, cell[1] \in TextCells, KnownNumber(cell), KnownText(cell)
    PROVE  TextViews(cell, TextualForm(cell)[1])
<1> DEFINE t == TextualForm(cell)[1]
<1>1. /\ t \in Text /\ TextualForm(cell) = Some(t) /\ TextIn(cell) = Some(t)
      /\ NumberIn(cell) = NumberOf(t)
  <2>1. CASE cell[1] = "decimal"
    <3>1. TextualForm(cell) = Some(Number(cell[2], cell[3]))
      BY <2>1 DEF TextualForm
    <3>2. t = Number(cell[2], cell[3])
      BY <3>1, OneSome
    <3>3. cell[2] \in Int /\ cell[3] \in BOOLEAN /\ (~cell[3] => cell[2] % One = 0)
      BY <2>1 DEF KnownNumber
    <3> HIDE DEF t
    <3>4. t[1] = "number" /\ t[2] = cell[2] /\ t[3] = cell[3] /\ t = <<"number", cell[2], cell[3]>>
      BY <3>2 DEF Number
    <3>5. t \in {"number"} \X Int \X BOOLEAN
      BY <3>3, <3>4
    <3>6. t \in Text
      BY <3>3, <3>4, <3>5 DEF Text
    <3>7. TextIn(cell) = Some(Number(cell[2], cell[3])) /\ NumberIn(cell) = Some(cell[2])
      BY <2>1 DEF TextIn, NumberIn
    <3> QED
      BY <3>1, <3>2, <3>4, <3>6, <3>7 DEF NumberOf
  <2>2. CASE cell[1] \in {"string", "xml", "json"}
    <3>1. TextualForm(cell) = Some(cell[2]) /\ cell[2] \in Text
      BY <2>2 DEF TextualForm, KnownText
    <3>2. t = cell[2]
      BY <3>1, OneSome
    <3> HIDE DEF t
    <3>3. TextIn(cell) = Some(cell[2]) /\ NumberIn(cell) = NumberOf(cell[2])
      BY <2>2 DEF TextIn, NumberIn
    <3> QED
      BY <3>1, <3>2, <3>3
  <2> QED
    BY <2>1, <2>2 DEF TextCells
<1> HIDE DEF t
<1>2. cell[1] \in {"string", "xml", "json", "decimal"} /\ TextualForm(cell) # None /\ TextualForm(cell)[1] = t
  BY <1>1, OneSome DEF TextCells
<1>3. AsF64(cell) = IF t[1] # "word" THEN Some(ToF64(t[2])) ELSE None
  BY <1>2 DEF AsF64, Whole
<1>4. AsBytes(cell) = Some(<<"utf8", t>>) /\ AsBool(cell) = ParseBoolText(t)
  BY <1>2 DEF AsBytes, AsBool, Whole
<1>5. AsI64(cell) = ParseIntegerText(t)
  BY <1>2 DEF AsI64, Whole
<1> QED
  BY <1>1, <1>3, <1>4, <1>5 DEF TextViews, t

\* A cell of bytes, and one with neither a number nor a text nor bytes.
BytesViews(cell) ==
    /\ TextualForm(cell) = None /\ AsI64(cell) = None /\ AsF64(cell) = None
    /\ AsBool(cell) = None /\ NumberIn(cell) = None
    /\ cell[1] = "bytes" =>
           /\ AsBytes(cell) = Some(cell[2])
           /\ TextIn(cell) = IF cell[2][1] = "utf8" THEN Some(cell[2][2]) ELSE None
    /\ cell[1] = "uuid" => AsBytes(cell) = Some(<<"guid", cell[2]>>) /\ TextIn(cell) = None

LEMMA BytesViewed ==
    ASSUME NEW cell, cell[1] \in {"bytes", "uuid"}
    PROVE  BytesViews(cell)
BY DEF BytesViews, TextualForm, AsI64, AsF64, AsBool, AsBytes, NumberIn, TextIn, Whole

MomentTags == {"date", "time", "datetime2", "datetimeoffset", "datetime", "smalldatetime"}

LEMMA MomentsViewed ==
    ASSUME NEW cell, cell[1] \in MomentTags
    PROVE  /\ TextualForm(cell) = None /\ AsI64(cell) = None /\ AsF64(cell) = None
           /\ AsBool(cell) = None /\ AsBytes(cell) = None /\ TextIn(cell) = None
BY DEF TextualForm, AsI64, AsF64, AsBool, AsBytes, TextIn, Whole, MomentTags

LEMMA NoNumberViewed ==
    ASSUME NEW cell, cell[1] \in {"bytes", "uuid"} \cup MomentTags
    PROVE  /\ TextualForm(cell) = None /\ AsI64(cell) = None /\ AsF64(cell) = None
           /\ AsBool(cell) = None
<1>1. CASE cell[1] \in {"bytes", "uuid"}
  <2>1. BytesViews(cell)
    BY <1>1, BytesViewed
  <2> QED
    BY <2>1 DEF BytesViews
<1>2. CASE cell[1] \in MomentTags
  BY <1>2, MomentsViewed
<1> QED
  BY <1>1, <1>2

\* Every cell is one of these.
LEMMA Tags ==
    ASSUME NEW name \in DOMAIN SystemTypes
    PROVE  TagOf(name) \in Whole \cup {"bit", "real", "float", "money", "smallmoney"} \cup TextCells
                               \cup {"bytes", "uuid"} \cup MomentTags
BY DEF SystemTypes, TagOf, Whole, TextCells, MomentTags

-----------------------------------------------------------------------------
(* A value that is read is the one in the cell. *)

LEMMA ValueMeans ==
    ASSUME NEW type \in RustTypes, NEW value, NEW cell
    PROVE  LET kind == type.kind
               number == NumberIn(cell)
               text == TextIn(cell)
               means == Means(type, value, cell, 1)
           IN  /\ kind \in Integer => (means <=> number = Some(value * One))
               /\ kind = "decimal" =>
                      (means <=> \/ number = Some(value)
                                 \/ cell[1] \in {"real", "float"} /\ number = Some(ToF64(value)))
               /\ kind = "f32" =>
                      (means <=> number # None /\ Near(value, number[1], Mantissa[32]))
               /\ kind = "f64" =>
                      (means <=> number # None /\ Near(value, number[1], Mantissa[64]))
               /\ kind = "bool" =>
                      (means <=> \/ number # None /\ value = (number[1] # 0)
                                 \/ text = Some(Word(IF value THEN "true" ELSE "false")))
               /\ kind \in {"string", "json"} => (means <=> text = Some(value))
               /\ kind = "bytes" =>
                      (means <=> \/ cell = <<"bytes", value>>
                                 \/ cell[1] = "uuid" /\ value = <<"guid", cell[2]>>
                                 \/ text # None /\ value = <<"utf8", text[1]>>)
               /\ kind = "uuid" => (means <=> cell = <<"uuid", value>>)
               /\ kind = "wkb" => (means <=> cell = <<"bytes", <<"wkb", value>>>>)
<1> DEFINE kind == type.kind
           number == NumberIn(cell)
           text == TextIn(cell)
           means == Means(type, value, cell, 1)
<1>1. ASSUME kind \in Integer PROVE means <=> number = Some(value * One)
  BY IntegerKinds, <1>1 DEF Means, ShapeKinds
<1>2. ASSUME kind = "decimal"
      PROVE  means <=> \/ number = Some(value)
                       \/ cell[1] \in {"real", "float"} /\ number = Some(ToF64(value))
  BY IntegerKinds, <1>2 DEF Means, ShapeKinds
<1>3. ASSUME kind = "f32" PROVE means <=> number # None /\ Near(value, number[1], Mantissa[32])
  BY IntegerKinds, <1>3 DEF Means, ShapeKinds
<1>4. ASSUME kind = "f64" PROVE means <=> number # None /\ Near(value, number[1], Mantissa[64])
  BY IntegerKinds, <1>4 DEF Means, ShapeKinds
<1>5. ASSUME kind = "bool"
      PROVE  means <=> \/ number # None /\ value = (number[1] # 0)
                       \/ text = Some(Word(IF value THEN "true" ELSE "false"))
  BY IntegerKinds, <1>5 DEF Means, ShapeKinds
<1>6. ASSUME kind \in {"string", "json"} PROVE means <=> text = Some(value)
  BY IntegerKinds, <1>6 DEF Means, ShapeKinds
<1>7. ASSUME kind = "bytes"
      PROVE  means <=> \/ cell = <<"bytes", value>>
                       \/ cell[1] = "uuid" /\ value = <<"guid", cell[2]>>
                       \/ text # None /\ value = <<"utf8", text[1]>>
  BY IntegerKinds, <1>7 DEF Means, ShapeKinds
<1>8. ASSUME kind = "uuid" PROVE means <=> cell = <<"uuid", value>>
  BY IntegerKinds, <1>8 DEF Means, ShapeKinds
<1>9. ASSUME kind = "wkb" PROVE means <=> cell = <<"bytes", <<"wkb", value>>>>
  BY IntegerKinds, <1>9 DEF Means, ShapeKinds
<1> QED
  BY <1>1, <1>2, <1>3, <1>4, <1>5, <1>6, <1>7, <1>8, <1>9

LEMMA IntegerRead ==
    ASSUME NEW cell, KnownNumber(cell), KnownText(cell), NEW name \in DOMAIN SystemTypes,
           cell[1] = TagOf(name), NEW type, type.kind \in Integer,
           DecodeInteger(type.kind, cell) # None
    PROVE  \/ Lossy(type, cell)
           \/ NumberIn(cell) = Some(DecodeInteger(type.kind, cell)[1] * One)
<1> DEFINE kind == type.kind
           x == AsI64(cell)
<1>1. x # None /\ DecodeInteger(kind, cell) = x
  BY DEF DecodeInteger
<1>2. CASE cell[1] \in Whole \cup {"bit"}
  <2>1. x = Some(cell[2] \div One) /\ NumberIn(cell) = Some(cell[2])
    BY <1>2, NumbersViewed DEF NumberViews
  <2>2. cell[2] \in Int /\ cell[2] % One = 0
    BY <1>2 DEF KnownNumber
  <2> DEFINE q == cell[2]
  <2> HIDE DEF q
  <2>3. (q \div One) * One = q
    BY <2>2 DEF One, q
  <2> QED
    BY <1>1, <2>1, <2>3, OneSome DEF q
<1>3. CASE cell[1] \in TextCells
  <2> DEFINE t == TextualForm(cell)[1]
             q == t[2]
  <2>1. TextViews(cell, t)
    BY <1>3, TextsViewed
  <2>2. t \in Text /\ x = ParseIntegerText(t) /\ TextualForm(cell) # None
        /\ NumberIn(cell) = NumberOf(t)
    BY <2>1, OneSome DEF TextViews
  <2> HIDE DEF x, t
  <2>3. t[1] # "word"
    BY <1>1, <2>2 DEF ParseIntegerText
  <2>4. q \in Int
    BY <2>2, <2>3, TextIs
  <2>5. NumberIn(cell) = Some(q)
    BY <2>2, <2>3 DEF NumberOf
  <2>6. Abs(q) <= TwoTo[Mantissa[64]] => x[1] * One = q
    BY <1>1, <2>2, <2>3, IntegerText
  <2> HIDE DEF q
  <2>7. Abs(q) > TwoTo[Mantissa[64]] => Lossy(type, cell)
    BY <2>2, <2>5, OneSome DEF Lossy
  <2>8. Abs(q) \in Int /\ TwoTo[Mantissa[64]] \in Int
    <3>1. Mantissa[64] \in Nat
      BY FloatWidths
    <3> QED
      BY <2>4, <3>1, AbsIs, TwoToDoubles
  <2>9. Abs(q) <= TwoTo[Mantissa[64]] \/ Abs(q) > TwoTo[Mantissa[64]]
    BY <2>8
  <2> QED
    BY <1>1, <2>5, <2>6, <2>7, <2>9
<1>4. CASE cell[1] \in {"real", "float", "money", "smallmoney"}
  <2>1. x = None
    BY <1>4, NumbersViewed DEF NumberViews, Whole
  <2> QED
    BY <1>1, <2>1
<1>5. CASE cell[1] \in {"bytes", "uuid"} \cup MomentTags
  BY <1>1, <1>5, NoNumberViewed
<1> QED
  BY <1>2, <1>3, <1>4, <1>5, Tags

\* A number that is read as an f64 is the one in the cell, or was rounded once.
LEMMA FloatRead ==
    ASSUME NEW cell, KnownNumber(cell), KnownText(cell), NEW name \in DOMAIN SystemTypes,
           cell[1] = TagOf(name), AsF64(cell) # None
    PROVE  \E q \in Int :
              /\ NumberIn(cell) = Some(q)
              /\ \/ AsF64(cell) = Some(q)
                 \/ AsF64(cell) = Some(ToF64(q)) /\ cell[1] \notin {"real", "float"}
<1>1. CASE cell[1] \in {"real", "float"}
  BY <1>1, NumbersViewed DEF NumberViews, KnownNumber
<1>2. CASE cell[1] \in Whole \cup {"money", "smallmoney"}
  BY <1>2, NumbersViewed DEF NumberViews, KnownNumber, Whole
<1>3. CASE cell[1] = "bit"
  BY <1>3, NumbersViewed DEF NumberViews
<1>4. CASE cell[1] \in TextCells
  <2> DEFINE t == TextualForm(cell)[1]
  <2>1. TextViews(cell, t)
    BY <1>4, TextsViewed
  <2> HIDE DEF t
  <2>2. t[1] # "word" /\ t \in Text /\ NumberIn(cell) = Some(t[2]) /\ AsF64(cell) = Some(ToF64(t[2]))
    BY <2>1 DEF TextViews, NumberOf
  <2>3. t[2] \in Int
    BY <2>2, TextIs
  <2> QED
    BY <1>4, <2>2, <2>3 DEF TextCells
<1>5. CASE cell[1] \in {"bytes", "uuid"} \cup MomentTags
  BY <1>5, NoNumberViewed
<1> QED
  BY <1>1, <1>2, <1>3, <1>4, <1>5, Tags

LEMMA FloatsNear ==
    ASSUME NEW cell, KnownNumber(cell), KnownText(cell), NEW name \in DOMAIN SystemTypes,
           cell[1] = TagOf(name), AsF64(cell) # None
    PROVE  /\ NumberIn(cell) # None
           /\ Near(AsF64(cell)[1], NumberIn(cell)[1], Mantissa[64])
           /\ Near(Rounded(AsF64(cell)[1], Mantissa[32]), NumberIn(cell)[1], Mantissa[32])
<1>1. PICK q \in Int :
          /\ NumberIn(cell) = Some(q)
          /\ AsF64(cell) = Some(q) \/ AsF64(cell) = Some(ToF64(q))
  BY FloatRead
<1> DEFINE y == AsF64(cell)[1]
<1>2. NumberIn(cell) # None /\ NumberIn(cell)[1] = q /\ (y = q \/ y = ToF64(q))
  BY <1>1, OneSome
<1> HIDE DEF y
<1>3. CASE y = q
  BY <1>2, <1>3, FloatWidths, NearItself, NearOnce DEF y
<1>4. CASE y = ToF64(q)
  <2>1. y = Rounded(q, Mantissa[64]) /\ Mantissa[64] \in Nat
    BY <1>4, FloatWidths DEF ToF64
  <2> QED
    BY <1>2, <2>1, FloatWidths, NearTwice, NearOnce DEF y
<1> QED
  BY <1>2, <1>3, <1>4

\* What the crates make of a number that a Decimal holds.
LEMMA HeldRead ==
    ASSUME NEW crate \in {"bigdecimal", "rust_decimal"}, NEW q \in Int, NEW point, Held(q)
    PROVE  DecimalFromStr(crate, Number(q, point)) = Some(q)
<1>1. RustDecimal(q) = Some(q)
  BY DecimalHeld
<1> QED
  BY <1>1 DEF DecimalFromStr, Number

\* The text of a float is read as a number that reads back as the float, if a
\* Decimal holds the float and has room for the text.
LEMMA FloatHeld ==
    ASSUME NEW float \in Int, ToF64(float) = float, Held(float), NEW n, IsText(float, n),
           RustDecimal(n) # None
    PROVE  RustDecimal(n) = Some(n)
<1> DEFINE bits == Mantissa[64]
           b == TwoTo[bits]
           d == TwoTo[DecimalBits]
           a == Abs(float)
           s == Abs(n)
<1>1. /\ n \in Int /\ Rounded(n, bits) = float /\ Rounded(float, bits) = float
      /\ float % 2 = 0 => n % 2 = 0
      /\ float % 4 = 0 => n % 4 = 0
  BY DEF IsText, ToF64
<1>2. /\ bits \in Nat \ {0} /\ DecimalBits \in Nat /\ bits < DecimalBits
      /\ DecimalBits + 1 \in Nat /\ bits <= DecimalBits + 1
  BY DecimalAssumption, FloatWidths, Widths
<1>3. /\ b \in Nat /\ d \in Nat \ {0} /\ TwoTo[DecimalBits + 1] = 2 * d /\ 2 * b <= d
  BY <1>2, TwoToDoubles, TwoToGrows
<1>4. a \in Nat /\ s \in Nat
  BY <1>1, AbsIs
<1>5. CASE a <= b
  <2>1. n = float
    BY <1>5, FloatTextExact
  <2> QED
    BY <2>1, DecimalHeld
<1> HIDE DEF a, s, d, b, bits
<1>6. CASE a > b /\ s \div 2 < d
  <2>1. float % 2 = 0
    BY <1>1, <1>2, <1>3, <1>4, <1>6, FloatsEnd DEF a, b
  <2>2. n % 2 = 0
    BY <1>1, <2>1
  <2> QED
    BY <1>1, <1>6, <2>2, DecimalTaken DEF s, d
<1>7. CASE a > b /\ ~(s \div 2 < d)
  <2>1. s >= 2 * d
    BY <1>3, <1>4, <1>7
  <2>2. s >= TwoTo[DecimalBits + 1]
    BY <1>3, <2>1
  <2>3. a >= TwoTo[DecimalBits + 1]
    BY <1>1, <1>2, <2>2, RoundedReaches DEF a, s
  <2>4. a >= 2 * b
    BY <1>3, <1>4, <2>3
  <2>5. float % 4 = 0
    BY <1>1, <1>2, <2>4, FloatsEnd DEF a, b
  <2>6. n % 4 = 0
    BY <1>1, <2>5
  <2> QED
    BY <1>1, <2>6, DecimalTaken
<1> QED
  BY <1>3, <1>4, <1>5, <1>6, <1>7

LEMMA DecimalRead ==
    ASSUME NEW cell, KnownNumber(cell), KnownText(cell), NEW name \in DOMAIN SystemTypes,
           cell[1] = TagOf(name), NEW type, type.crate \in {"bigdecimal", "rust_decimal"},
           type.kind = "decimal", NEW x, x = DecodeDecimal(type.crate, cell), x # None
    PROVE  \/ Lossy(type, cell)
           \/ NumberIn(cell) = Some(x[1])
           \/ cell[1] \in {"real", "float"} /\ NumberIn(cell) = Some(ToF64(x[1]))
<1> DEFINE crate == type.crate
<1>1. CASE cell[1] \in TextCells
  <2> DEFINE t == TextualForm(cell)[1]
             q == t[2]
  <2>1. TextViews(cell, t)
    BY <1>1, TextsViewed
  <2>2. t \in Text /\ TextualForm(cell) # None /\ NumberIn(cell) = NumberOf(t)
    BY <2>1, OneSome DEF TextViews
  <2>3. x = DecimalFromStr(crate, t)
    BY <2>2 DEF DecodeDecimal
  <2> HIDE DEF t
  <2>4. t[1] # "word" /\ NumberIn(cell) = Some(q) /\ q \in Int
    <3>1. t[1] # "word"
      BY <2>3 DEF DecimalFromStr
    <3> QED
      BY <2>2, <3>1, TextIs DEF NumberOf
  <2>5. CASE crate = "bigdecimal"
    <3>1. x = Some(q)
      BY <2>3, <2>4, <2>5 DEF DecimalFromStr
    <3> QED
      BY <2>4, <3>1, OneSome
  <2>6. CASE crate = "rust_decimal"
    <3>1. x = RustDecimal(q)
      BY <2>3, <2>4, <2>6 DEF DecimalFromStr
    <3> HIDE DEF q
    <3>2. NumberIn(cell)[1] = q
      BY <2>4, OneSome
    <3>3. ~Held(q) => Lossy(type, cell)
      BY <2>6, <3>2 DEF Lossy
    <3>4. Held(q) => x = Some(q)
      BY <2>4, <3>1, DecimalHeld
    <3> QED
      BY <2>4, <3>3, <3>4, OneSome
  <2> QED
    BY <2>5, <2>6
<1>2. CASE cell[1] \in Whole \cup {"bit"}
  <2> DEFINE q == cell[2]
  <2>1. TextualForm(cell) = None /\ AsI64(cell) = Some(q \div One) /\ NumberIn(cell) = Some(q)
        /\ q \in Int /\ q % One = 0 /\ Held(q)
    BY <1>2, NumbersViewed DEF NumberViews, KnownNumber
  <2> HIDE DEF q
  <2>2. x = DecimalFromStr(crate, Number((q \div One) * One, FALSE))
    BY <2>1, OneSome DEF DecodeDecimal
  <2>3. (q \div One) * One = q
    BY <2>1 DEF One
  <2>4. x = Some(q)
    BY <2>1, <2>2, <2>3, HeldRead
  <2> QED
    BY <2>1, <2>4, OneSome
<1>3. CASE cell[1] \in {"real", "float", "money", "smallmoney"}
  <2> DEFINE q == cell[2]
             b == TwoTo[Mantissa[64]]
             float == AsF64(cell)[1]
  <2>1. /\ TextualForm(cell) = None /\ AsI64(cell) = None /\ NumberIn(cell) = Some(q) /\ q \in Int
        /\ cell[1] \in {"real", "float"} => AsF64(cell) = Some(q) /\ ToF64(q) = q
        /\ cell[1] \in {"money", "smallmoney"} => AsF64(cell) = Some(ToF64(q))
    BY <1>3, NumbersViewed DEF NumberViews, KnownNumber, Whole
  <2>2. NumberIn(cell)[1] = q /\ AsF64(cell) # None
    BY <1>3, <2>1, OneSome
  <2>3. x = DecimalFromStr(crate, FloatText(float))
    BY <2>1, <2>2 DEF DecodeDecimal
  <2>4. /\ cell[1] \in {"real", "float"} => float = q
        /\ cell[1] \in {"money", "smallmoney"} => float = ToF64(q)
    BY <2>1, OneSome
  <2> HIDE DEF q, float
  <2>5. Abs(q) \in Int /\ b \in Int
    <3>1. Mantissa[64] \in Nat
      BY FloatWidths
    <3> QED
      BY <2>1, <3>1, AbsIs, TwoToDoubles
  <2>6. cell[1] \in {"money", "smallmoney"} => Lossy(type, cell) \/ Abs(q) <= b
    BY <2>2, <2>5 DEF Lossy
  <2>7. Abs(q) <= b => ToF64(q) = q
    BY <2>1, FloatWidths, RoundedExactly DEF ToF64
  <2>8. crate = "rust_decimal" => Lossy(type, cell) \/ Held(q)
    BY <2>2 DEF Lossy
  <2> SUFFICES ASSUME ~Lossy(type, cell)
               PROVE  \/ NumberIn(cell) = Some(x[1])
                      \/ cell[1] \in {"real", "float"} /\ NumberIn(cell) = Some(ToF64(x[1]))
    OBVIOUS
  <2>9. float = q /\ ToF64(q) = q /\ (cell[1] \in {"money", "smallmoney"} => Abs(q) <= b)
    BY <1>3, <2>1, <2>4, <2>6, <2>7
  <2>10. PICK n \in Int : IsText(q, n) /\ FloatText(q) = Number(n, n % One # 0)
    BY <2>1, <2>9, FloatTextIs
  <2>11. x = Some(n)
    <3>1. x = IF crate = "bigdecimal" THEN Some(n) ELSE RustDecimal(n)
      BY <2>3, <2>9, <2>10 DEF DecimalFromStr, Number
    <3>2. crate = "rust_decimal" => RustDecimal(n) = Some(n)
      BY <2>1, <2>8, <2>9, <2>10, <3>1, FloatHeld
    <3> QED
      BY <3>1, <3>2
  <2>12. ToF64(n) = q /\ (Abs(q) <= b => n = q)
    BY <2>1, <2>10, FloatTextExact DEF IsText
  <2> QED
    BY <1>3, <2>1, <2>9, <2>11, <2>12, OneSome
<1>4. CASE cell[1] \in {"bytes", "uuid"} \cup MomentTags
  <2>1. TextualForm(cell) = None /\ AsI64(cell) = None /\ AsF64(cell) = None
    BY <1>4, NoNumberViewed
  <2> QED
    BY <2>1 DEF DecodeDecimal
<1> QED
  BY <1>1, <1>2, <1>3, <1>4, Tags

LEMMA BoolRead ==
    ASSUME NEW cell, KnownNumber(cell), KnownText(cell), NEW name \in DOMAIN SystemTypes,
           cell[1] = TagOf(name), AsBool(cell) # None
    PROVE  LET value == AsBool(cell)[1]
           IN  \/ NumberIn(cell) # None /\ value = (NumberIn(cell)[1] # 0)
               \/ TextIn(cell) = Some(Word(IF value THEN "true" ELSE "false"))
<1>1. CASE cell[1] \in Whole \cup {"bit", "real", "float"}
  <2>1. AsBool(cell) = Some(cell[2] # 0) /\ NumberIn(cell) = Some(cell[2])
    BY <1>1, NumbersViewed DEF NumberViews
  <2> QED
    BY <2>1, OneSome
<1>2. CASE cell[1] \in TextCells
  <2> DEFINE t == TextualForm(cell)[1]
  <2>1. TextViews(cell, t)
    BY <1>2, TextsViewed
  <2>2. /\ AsBool(cell) = ParseBoolText(t) /\ TextIn(cell) = Some(t)
        /\ NumberIn(cell) = IF t[1] # "word" THEN Some(t[2]) ELSE None
    BY <2>1 DEF TextViews, NumberOf
  <2> HIDE DEF t
  <2>3. CASE t \in {Number(One, FALSE), Word("true")}
    <3>1. AsBool(cell) = Some(TRUE)
      <4>1. t \notin {Number(0, FALSE), Word("false")}
        <5>1. \A n : Number(n, FALSE)[1] = "number" /\ Number(n, FALSE)[2] = n
          BY DEF Number
        <5>2. \A w : Word(w)[1] = "word" /\ Word(w)[2] = w
          BY DEF Word
        <5>3. Number(One, FALSE)[2] # Number(0, FALSE)[2]
          <6>1. Number(One, FALSE)[2] = One /\ Number(0, FALSE)[2] = 0
            BY <5>1
          <6>2. One # 0
            BY DEF One
          <6> QED
            BY <6>1, <6>2
        <5> QED
          BY <2>3, <5>1, <5>2, <5>3
      <4> QED
        BY <2>2, <2>3, <4>1 DEF ParseBoolText
    <3>2. AsBool(cell)[1] = TRUE
      BY <3>1, OneSome
    <3>3. CASE t = Word("true")
      BY <2>2, <3>2, <3>3
    <3>4. CASE t = Number(One, FALSE)
      <4>1. t[1] = "number" /\ t[2] = One /\ One # 0
        BY <3>4 DEF Number, One
      <4> QED
        BY <2>2, <3>2, <4>1, OneSome
    <3> QED
      BY <2>3, <3>3, <3>4
  <2>4. CASE t \in {Number(0, FALSE), Word("false")} /\ t \notin {Number(One, FALSE), Word("true")}
    <3>1. AsBool(cell) = Some(FALSE)
      BY <2>2, <2>4 DEF ParseBoolText
    <3>2. AsBool(cell)[1] = FALSE
      BY <3>1, OneSome
    <3>3. CASE t = Word("false")
      BY <2>2, <3>2, <3>3
    <3>4. CASE t = Number(0, FALSE)
      <4>1. t[1] = "number" /\ t[2] = 0
        BY <3>4 DEF Number
      <4> QED
        BY <2>2, <3>2, <4>1, OneSome
    <3> QED
      BY <2>4, <3>3, <3>4
  <2>5. t \in {Number(One, FALSE), Word("true")} \/ t \in {Number(0, FALSE), Word("false")}
    BY <2>2 DEF ParseBoolText
  <2> QED
    BY <2>3, <2>4, <2>5
<1>3. CASE cell[1] \in {"money", "smallmoney"}
  BY <1>3, NumbersViewed DEF NumberViews
<1>4. CASE cell[1] \in {"bytes", "uuid"} \cup MomentTags
  BY <1>4, NoNumberViewed
<1> QED
  BY <1>1, <1>2, <1>3, <1>4, Tags

LEMMA TextRead ==
    ASSUME NEW cell, KnownNumber(cell), KnownText(cell), NEW name \in DOMAIN SystemTypes,
           cell[1] = TagOf(name)
    PROVE  /\ DecodeString(cell) # None =>
                  TextIn(cell) = None \/ TextIn(cell) = Some(DecodeString(cell)[1])
           /\ DecodeJson(cell) # None => TextIn(cell) = Some(DecodeJson(cell)[1])
           /\ AsBytes(cell) # None =>
                  LET value == AsBytes(cell)[1]
                  IN  \/ cell = <<"bytes", value>>
                      \/ cell[1] = "uuid" /\ value = <<"guid", cell[2]>>
                      \/ TextIn(cell) # None /\ value = <<"utf8", TextIn(cell)[1]>>
<1>1. CASE cell[1] \in TextCells
  <2> DEFINE t == TextualForm(cell)[1]
  <2>1. TextViews(cell, t)
    BY <1>1, TextsViewed
  <2>2. /\ TextualForm(cell) = Some(t) /\ TextIn(cell) = Some(t)
        /\ AsBytes(cell) = Some(<<"utf8", t>>)
    BY <2>1 DEF TextViews
  <2> HIDE DEF t
  <2>3. DecodeString(cell) = Some(t)
    BY <2>2, OneSome DEF DecodeString
  <2>4. DecodeJson(cell) # None => DecodeJson(cell) = Some(t)
    BY <2>2, OneSome DEF DecodeJson
  <2> QED
    BY <2>2, <2>3, <2>4, OneSome
<1>2. CASE cell[1] \in Whole \cup {"bit", "real", "float", "money", "smallmoney"}
  <2>1. TextualForm(cell) = None /\ AsBytes(cell) = None
    BY <1>2, NumbersViewed DEF NumberViews
  <2> QED
    BY <2>1 DEF DecodeString, DecodeJson
<1>3. CASE cell[1] \in MomentTags
  <2>1. TextualForm(cell) = None /\ AsBytes(cell) = None
    BY <1>3, MomentsViewed
  <2> QED
    BY <2>1 DEF DecodeString, DecodeJson
<1>4. CASE cell[1] = "bytes"
  <2> DEFINE b == cell[2]
  <2>1. /\ TextualForm(cell) = None /\ AsBytes(cell) = Some(b)
        /\ TextIn(cell) = IF b[1] = "utf8" THEN Some(b[2]) ELSE None
        /\ cell = <<"bytes", b>>
    <3>1. cell = <<"bytes", cell[2]>>
      BY <1>4 DEF KnownText
    <3> QED
      <4>1. BytesViews(cell)
        BY <1>4, BytesViewed
      <4> QED
        BY <1>4, <3>1, <4>1 DEF BytesViews
  <2> HIDE DEF b
  <2>2. AsBytes(cell) # None /\ AsBytes(cell)[1] = b
    BY <2>1, OneSome
  <2>3. b[1] = "utf8" => DecodeString(cell) = Some(b[2])
    BY <2>1, <2>2 DEF DecodeString
  <2>4. DecodeJson(cell) # None => b[1] = "utf8" /\ DecodeJson(cell) = Some(b[2])
    BY <2>1, <2>2 DEF DecodeJson
  <2> QED
    BY <2>1, <2>2, <2>3, <2>4, OneSome
<1>5. CASE cell[1] = "uuid"
  <2>1. /\ TextualForm(cell) = None /\ AsBytes(cell) = Some(<<"guid", cell[2]>>) /\ TextIn(cell) = None
    BY <1>5, BytesViewed DEF BytesViews
  <2>2. AsBytes(cell)[1] = <<"guid", cell[2]>>
    BY <2>1, OneSome
  <2>3. DecodeJson(cell) = None
    <3>1. AsBytes(cell)[1][1] = "guid"
      BY <2>2
    <3> QED
      BY <2>1, <3>1 DEF DecodeJson
  <2> QED
    BY <1>5, <2>1, <2>2, <2>3
<1> QED
  BY <1>1, <1>2, <1>3, <1>4, <1>5, Tags

-----------------------------------------------------------------------------
(* A moment that is read is the one in the cell. *)

\* datetime's 1/300ths of a second are nanoseconds of a day, counted as the
\* driver does or by the hundredths of a second.
Thirds(t, N, nanos) ==
    /\ nanos = (t \div 300) * N + ((t % 300) * N) \div 300
    /\ nanos = (t \div 3) * (N \div 100) + ((t % 3) * (N \div 100)) \div 3

LEMMA ThirdsOfHundredths ==
    ASSUME NEW t \in Nat, NEW N \in Nat \ {0}, N % 100 = 0, NEW S \in Nat, t < 300 * S
    PROVE  \E nanos \in Nat : Thirds(t, N, nanos) /\ nanos < S * N
<1> DEFINE a == t \div 300
           r == t % 300
           b == r \div 3
           c == r % 3
           H == N \div 100
           p == a * H
           s == b * H
           u == c * H
<1>1. /\ a \in Nat /\ r \in Nat /\ b \in Nat /\ c \in Nat /\ H \in Nat
      /\ N = 100 * H /\ t = 300 * a + r /\ r = 3 * b + c /\ r < 300 /\ c < 3 /\ b < 100
      /\ t \div 3 = 100 * a + b /\ t % 3 = c /\ a < S
  OBVIOUS
<1> DEFINE i == t \div 3
           j == t % 3
<1>2. /\ t \div 300 = a /\ t % 300 = r /\ N \div 100 = H /\ i = 100 * a + b /\ j = c
  BY <1>1
<1> HIDE DEF a, r, b, c, H, i, j
<1>3. /\ p \in Nat /\ s \in Nat /\ u \in Nat
      /\ a * N = 100 * p /\ r * N = 300 * s + 100 * u
      /\ (100 * a + b) * H = 100 * p + s
  <2>1. a * (100 * H) = 100 * (a * H) /\ (3 * b + c) * (100 * H) = 300 * (b * H) + 100 * (c * H)
        /\ (100 * a + b) * H = 100 * (a * H) + b * H
    BY <1>1
  <2> QED
    BY <1>1, <2>1
<1>4. u < 3 * H
  <2>1. c = 0 \/ c = 1 \/ c = 2
    BY <1>1
  <2>2. H >= 1
    BY <1>1
  <2> QED
    BY <1>1, <2>1, <2>2
<1>5. s + H <= 100 * H
  <2>1. 99 - b \in Nat
    BY <1>1
  <2>2. (99 - b) * H >= 0 /\ (99 - b) * H = 99 * H - b * H
    BY <1>1, <2>1
  <2> QED
    BY <1>1, <1>3, <2>2
<1> DEFINE all == S * N
<1>6. 100 * p + 100 * H <= all /\ all \in Int
  <2>1. S - a - 1 \in Nat
    BY <1>1
  <2>2. (S - a - 1) * N >= 0 /\ (S - a - 1) * N = S * N - a * N - N
    BY <1>1, <2>1
  <2> QED
    BY <1>1, <1>3, <2>2
<1> HIDE DEF p, s, u, all
<1>7. (300 * s + 100 * u) \div 300 = s + u \div 3 /\ u \div 3 \in Nat /\ u \div 3 < H
  BY <1>1, <1>3, <1>4
<1>8. LET nanos == a * N + (r * N) \div 300
      IN  nanos = i * H + (j * H) \div 3 /\ nanos \in Nat /\ nanos < all
  <2>1. a * N + (r * N) \div 300 = 100 * p + s + u \div 3
    BY <1>3, <1>7
  <2>2. i * H = 100 * p + s
    BY <1>2, <1>3
  <2>3. j * H = u
    BY <1>2 DEF u
  <2>4. 100 * p + s + u \div 3 \in Nat /\ 100 * p + s + u \div 3 < all
    BY <1>1, <1>3, <1>5, <1>6, <1>7
  <2> QED
    BY <2>1, <2>2, <2>3, <2>4
<1> DEFINE found == (t \div 300) * N + ((t % 300) * N) \div 300
<1>9. /\ found = (t \div 3) * (N \div 100) + ((t % 3) * (N \div 100)) \div 3
      /\ found \in Nat /\ found < S * N
  BY <1>2, <1>8 DEF all, i, j
<1>10. Thirds(t, N, found)
  BY <1>9 DEF Thirds
<1> HIDE DEF found
<1> QED
  BY <1>9, <1>10

\* The types of a cell with a date and a time.
PairTags == {"datetime2", "datetimeoffset", "datetime", "smalldatetime"}

\* What is not read of them: days before 1970 by chrono, and the older types by
\* the other crates.
PairUnread(crate, cell) ==
    \/ crate = "chrono" /\ cell[1] \in {"datetime2", "datetimeoffset"} /\ cell[2] < Epoch
    \/ crate # "chrono" /\ cell[1] \in {"datetime", "smalldatetime"}

Days1900 ==
    /\ Epoch1900 \in Int
    /\ NanosPerSecond % 100 = 0

LEMMA Constants == Days1900
BY UnitsAssumption DEF Days1900, Epoch1900

LEMMA PairIn ==
    ASSUME NEW cell, KnownMoment(cell), cell[1] \in PairTags
    PROVE  \E days \in Int, nanos \in Nat :
              /\ MomentIn(cell) = <<days, nanos>>
              /\ nanos < SecondsPerDay * NanosPerSecond
<1>1. CASE cell[1] \in {"datetime2", "datetimeoffset"}
  <2>1. MomentIn(cell) = <<cell[2], TicksToNanos(cell[3])>>
    BY <1>1 DEF MomentIn
  <2>2. cell[2] \in Nat /\ cell[3] \in Nat /\ cell[3] < TicksPerDay
    BY <1>1 DEF KnownMoment
  <2>3. TicksToNanos(cell[3]) \in Nat /\ TicksToNanos(cell[3]) < SecondsPerDay * NanosPerSecond
    BY <2>2, TicksInDay
  <2> QED
    BY <2>1, <2>2, <2>3
<1>2. CASE cell[1] = "datetime"
  <2> DEFINE t == cell[3]
             H == NanosPerSecond \div 100
             nanos == (t \div 3) * H + ((t % 3) * H) \div 3
  <2>1. MomentIn(cell) = <<Epoch1900 + cell[2], nanos>>
    BY <1>2 DEF MomentIn
  <2>2. cell[2] \in Int /\ t \in Nat /\ t < 300 * SecondsPerDay
    BY <1>2 DEF KnownMoment
  <2> HIDE DEF t
  <2>4. NanosPerSecond \in Nat \ {0} /\ NanosPerSecond % 100 = 0 /\ SecondsPerDay \in Nat
    BY Constants, Units, SecondsKnown DEF Days1900
  <2>5. PICK n \in Nat : Thirds(t, NanosPerSecond, n) /\ n < SecondsPerDay * NanosPerSecond
    BY <2>2, <2>4, ThirdsOfHundredths
  <2>6. nanos = n
    BY <2>5 DEF Thirds
  <2> HIDE DEF nanos
  <2>3. nanos \in Nat /\ nanos < SecondsPerDay * NanosPerSecond
    BY <2>5, <2>6
  <2> QED
    BY <2>1, <2>2, <2>3, Constants DEF Days1900
<1>3. CASE cell[1] = "smalldatetime"
  <2> DEFINE m == cell[3]
             nanos == m * 60 * NanosPerSecond
  <2>1. MomentIn(cell) = <<Epoch1900 + cell[2], nanos>>
    BY <1>3 DEF MomentIn
  <2>2. cell[2] \in Int /\ m \in Nat /\ m < 24 * 60
    BY <1>3 DEF KnownMoment
  <2> HIDE DEF m
  <2>3. nanos \in Nat /\ nanos < SecondsPerDay * NanosPerSecond
    <3>1. m * 60 \in Nat /\ m * 60 < SecondsPerDay
      BY <2>2 DEF SecondsPerDay
    <3>2. /\ (m * 60) * NanosPerSecond + 0 \in Nat
          /\ (m * 60) * NanosPerSecond + 0 < SecondsPerDay * NanosPerSecond
      <4>1. 0 \in Nat /\ 0 < NanosPerSecond
        BY Units
      <4> QED
        BY <3>1, <4>1, Units, SecondsKnown, WithinDay
    <3>3. nanos = (m * 60) * NanosPerSecond + 0
      BY <2>2, Units
    <3> QED
      BY <3>2, <3>3
  <2> HIDE DEF nanos
  <2> QED
    BY <2>1, <2>2, <2>3, Constants DEF Days1900
<1> QED
  BY <1>1, <1>2, <1>3 DEF PairTags

\* A cell with a date and a time is read as what it holds.
LEMMA PairsRead ==
    ASSUME NEW crate \in Crates, NEW cell, KnownMoment(cell)
    PROVE  /\ cell[1] \notin PairTags => MomentFrom(crate, cell) = None
           /\ cell[1] \in PairTags =>
                  \/ PairUnread(crate, cell) /\ MomentFrom(crate, cell) = None
                  \/ IsPair(crate, MomentFrom(crate, cell), MomentIn(cell)[1], MomentIn(cell)[2])
<1>1. CASE cell[1] \notin PairTags
  <2>1. CASE crate = "chrono"
    BY <1>1, <2>1 DEF MomentFrom, ChronoMoment, PairTags
  <2>2. CASE crate = "time"
    BY <1>1, <2>2 DEF MomentFrom, TimeMoment, PairTags
  <2>3. CASE crate = "jiff"
    BY <1>1, <2>3 DEF MomentFrom, JiffMoment, PairTags
  <2> QED
    BY <1>1, <2>1, <2>2, <2>3 DEF Crates
<1>2. CASE cell[1] \in {"datetime2", "datetimeoffset"}
  <2> DEFINE days == cell[2]
             ticks == cell[3]
  <2>1. days \in Nat /\ days <= MaxDay /\ ticks \in Nat /\ ticks < TicksPerDay
    BY <1>2 DEF KnownMoment
  <2>2. MomentIn(cell) = <<days, TicksToNanos(ticks)>>
    BY <1>2 DEF MomentIn
  <2>3. cell[2] = days /\ cell[3] = ticks
    OBVIOUS
  <2> HIDE DEF days, ticks
  <2>4. \/ MomentFrom(crate, cell) = None /\ crate = "chrono" /\ days < Epoch
        \/ IsPair(crate, MomentFrom(crate, cell), days, TicksToNanos(ticks))
    BY <1>2, <2>1, <2>3, PairRead
  <2> QED
    BY <1>2, <2>2, <2>3, <2>4 DEF PairUnread, PairTags
<1>3. CASE cell[1] \in {"datetime", "smalldatetime"} /\ crate # "chrono"
  <2>1. MomentFrom(crate, cell) = None
    BY <1>3 DEF MomentFrom, TimeMoment, JiffMoment, Crates
  <2> QED
    BY <1>3, <2>1 DEF PairUnread, PairTags
<1>4. CASE cell[1] \in {"datetime", "smalldatetime"} /\ crate = "chrono"
  <2>1. PICK days \in Int, nanos \in Nat :
            MomentIn(cell) = <<days, nanos>> /\ nanos < SecondsPerDay * NanosPerSecond
    BY <1>4, PairIn DEF PairTags
  <2>2. days = Epoch1900 + cell[2]
    BY <1>4, <2>1 DEF MomentIn
  <2>3. MomentFrom(crate, cell) = Both(Some(days), TimeFrom("chrono", nanos))
    <3>1. CASE cell[1] = "datetime"
      <4> DEFINE t == cell[3]
                 H == NanosPerSecond \div 100
                 counted == (t \div 300) * NanosPerSecond + ((t % 300) * NanosPerSecond) \div 300
      <4>1. nanos = (t \div 3) * H + ((t % 3) * H) \div 3
        BY <2>1, <3>1 DEF MomentIn
      <4>2. t \in Nat /\ t < 300 * SecondsPerDay
        BY <3>1 DEF KnownMoment
      <4>3. MomentFrom(crate, cell) = Both(Some(Epoch1900 + cell[2]), ChronoTimeFromNanos(counted))
        BY <1>4, <3>1 DEF MomentFrom, ChronoMoment, ChronoFromDateTime
      <4> HIDE DEF t
      <4>5. NanosPerSecond \in Nat \ {0} /\ NanosPerSecond % 100 = 0 /\ SecondsPerDay \in Nat
        BY Constants, Units, SecondsKnown DEF Days1900
      <4>6. PICK n \in Nat : Thirds(t, NanosPerSecond, n) /\ n < SecondsPerDay * NanosPerSecond
        BY <4>2, <4>5, ThirdsOfHundredths
      <4>7. counted = n
        BY <4>6 DEF Thirds
      <4> HIDE DEF counted
      <4>8. nanos = n
        BY <4>1, <4>6 DEF Thirds
      <4>4. counted = nanos
        BY <4>7, <4>8
      <4> QED
        BY <2>2, <4>3, <4>4 DEF TimeFrom
    <3>2. CASE cell[1] = "smalldatetime"
      <4>1. nanos = cell[3] * 60 * NanosPerSecond
        BY <2>1, <3>2 DEF MomentIn
      <4>2. MomentFrom(crate, cell)
                = Both(Some(Epoch1900 + cell[2]), ChronoTimeFromNanos(cell[3] * 60 * NanosPerSecond))
        BY <1>4, <3>2 DEF MomentFrom, ChronoMoment, ChronoFromSmallDateTime
      <4> QED
        BY <2>2, <4>1, <4>2 DEF TimeFrom
    <3> QED
      BY <1>4, <3>1, <3>2
  <2>4. PICK time \in Times("chrono") :
            TimeFrom("chrono", nanos) = Some(time) /\ NanosOfDay("chrono", time) = nanos
    BY <2>1, TimeRead DEF Crates
  <2>5. MomentFrom(crate, cell) = Some([date |-> days, time |-> time])
    BY <2>3, <2>4, OneSome DEF Both
  <2>6. days \in Dates("chrono") /\ DayOf("chrono", days) = days
    BY DEF Dates, DayOf
  <2>7. IsPair(crate, MomentFrom(crate, cell), days, nanos)
    BY <1>4, <2>4, <2>5, <2>6 DEF IsPair
  <2> QED
    BY <1>4, <2>1, <2>7 DEF PairTags
<1> QED
  BY <1>1, <1>2, <1>3, <1>4 DEF PairTags

LEMMA FloorOfOne ==
    ASSUME NEW n \in Nat
    PROVE  Floor(n, 1) = n
<1>1. n % 1 = 0
  OBVIOUS
<1> QED
  BY <1>1 DEF Floor

\* A date and a time in a cell, read by a type for both.
LEMMA BothMean ==
    ASSUME NEW type \in RustTypes, type.kind \in {"datetime", "timestamp"},
           type # RustType("time", "timestamp"), NEW cell, NEW days, NEW nanos \in Nat,
           MomentIn(cell) = <<days, nanos>>, NEW date, NEW time,
           DayOf(type.crate, date) = days, NanosOfDay(type.crate, time) = nanos
    PROVE  Means(type, [date |-> date, time |-> time], cell, 1)
<1> DEFINE m == [date |-> date, time |-> time]
<1>1. type.kind \in Moments /\ m.date = date /\ m.time = time
  BY DEF Moments
<1> HIDE DEF m
<1>2. MomentOf(type, m) = <<days, nanos>>
  BY <1>1, MomentIs
<1>3. Floor(nanos, 1) = nanos
  BY FloorOfOne
<1>4. Means(type, m, cell, 1) <=> <<days, Floor(nanos, 1)>> = MomentIn(cell)
  BY <1>1, <1>2, MomentMeans
<1> QED
  BY <1>3, <1>4 DEF m

\* A type for a date or a time alone.
LEMMA OneMeans ==
    ASSUME NEW type \in RustTypes, NEW cell, NEW value
    PROVE  /\ type.kind = "date" /\ DayOf(type.crate, value) = MomentIn(cell)[1] =>
                  Means(type, value, cell, 1)
           /\ type.kind = "time" /\ NanosOfDay(type.crate, value) = MomentIn(cell)[2]
              /\ MomentIn(cell)[2] \in Nat =>
                  Means(type, value, cell, 1)
<1>1. ASSUME type.kind = "date", DayOf(type.crate, value) = MomentIn(cell)[1]
      PROVE  Means(type, value, cell, 1)
  <2>1. type.kind \in Moments
    BY <1>1 DEF Moments
  <2>2. MomentOf(type, value) = <<MomentIn(cell)[1], 0>>
    BY <1>1, <2>1, MomentIs
  <2>3. Means(type, value, cell, 1) <=> MomentIn(cell)[1] = MomentIn(cell)[1]
    BY <1>1, <2>1, <2>2, MomentMeans
  <2> QED
    BY <2>3
<1>2. ASSUME type.kind = "time", NanosOfDay(type.crate, value) = MomentIn(cell)[2],
             MomentIn(cell)[2] \in Nat
      PROVE  Means(type, value, cell, 1)
  <2> DEFINE nanos == MomentIn(cell)[2]
  <2>1. type.kind \in Moments
    BY <1>2 DEF Moments
  <2>2. MomentOf(type, value) = <<0, nanos>>
    BY <1>2, <2>1, MomentIs
  <2>3. nanos \in Nat /\ nanos = MomentIn(cell)[2]
    BY <1>2
  <2> HIDE DEF nanos
  <2>4. Floor(nanos, 1) = nanos
    BY <2>3, FloorOfOne
  <2>5. Means(type, value, cell, 1) <=> Floor(nanos, 1) = MomentIn(cell)[2]
    BY <1>2, <2>1, <2>2, MomentMeans
  <2> QED
    BY <2>3, <2>4, <2>5
<1> QED
  BY <1>1, <1>2

\* What each type reads of a cell with a date and a time, and what it leaves.
LEMMA PairMeans ==
    ASSUME NEW type \in RustTypes, type.kind \in Moments, NEW cell, KnownMoment(cell),
           cell[1] \in PairTags, DecodeMoment(type, cell) # None
    PROVE  OffsetTwice(type, cell) \/ Means(type, DecodeMoment(type, cell)[1], cell, 1)
<1> DEFINE crate == type.crate
           kind == type.kind
           x == DecodeMoment(type, cell)
           moment == MomentFrom(crate, cell)
<1>1. type = RustType(crate, kind) /\ crate \in Crates
  BY MomentTypes
<1>2. PICK days \in Int, nanos \in Nat :
          MomentIn(cell) = <<days, nanos>> /\ nanos < SecondsPerDay * NanosPerSecond
  BY PairIn
<1>3. MomentIn(cell)[1] = days /\ MomentIn(cell)[2] = nanos
  BY <1>2
<1>4. moment = None \/ IsPair(crate, moment, days, nanos)
  BY <1>1, <1>3, PairsRead
<1>5. cell[1] # "date" /\ cell[1] # "time"
  BY DEF PairTags
<1>6. /\ kind = "date" => x = DatePart(moment)
      /\ kind = "time" => x = TimePart(moment)
      /\ kind = "datetime" => x = moment
      /\ kind = "timestamp" /\ crate = "chrono" => x = moment
      /\ kind = "timestamp" /\ crate = "time" => x = TimeReadTimestamp(cell)
      /\ kind = "timestamp" /\ crate = "jiff" => x = JiffReadTimestamp(cell)
  BY <1>5, ReadCases
<1>7. moment # None
  <2> SUFFICES ASSUME moment = None PROVE x = None
    OBVIOUS
  <2>1. DatePart(moment) = None /\ TimePart(moment) = None
    BY DEF DatePart, TimePart
  <2>2. CASE kind = "timestamp" /\ crate = "time"
    BY <1>6, <2>2 DEF TimeReadTimestamp, MomentFrom
  <2>3. CASE kind = "timestamp" /\ crate = "jiff"
    BY <1>6, <2>3 DEF JiffReadTimestamp, TimestampFromDateTime2, MomentFrom, JiffMoment
  <2> QED
    BY <1>1, <1>6, <2>1, <2>2, <2>3 DEF Crates, Moments
<1>8. PICK date \in Dates(crate), time \in Times(crate) :
          /\ moment = Some([date |-> date, time |-> time])
          /\ DayOf(crate, date) = days /\ NanosOfDay(crate, time) = nanos
  BY <1>4, <1>7 DEF IsPair
<1> DEFINE m == [date |-> date, time |-> time]
<1>9. moment[1] = m /\ m.date = date /\ m.time = time
  BY <1>8, OneSome
<1> HIDE DEF m, moment, x
<1>10. CASE kind = "date"
  <2>1. x = Some(date)
    BY <1>6, <1>7, <1>9, <1>10 DEF DatePart
  <2>2. x[1] = date
    BY <2>1, OneSome
  <2>3. Means(type, date, cell, 1)
    BY <1>3, <1>8, <1>10, OneMeans
  <2> QED
    BY <2>2, <2>3 DEF x
<1>11. CASE kind = "time"
  <2>1. x = Some(time)
    BY <1>6, <1>7, <1>9, <1>11 DEF TimePart
  <2>2. x[1] = time
    BY <2>1, OneSome
  <2>3. Means(type, time, cell, 1)
    BY <1>3, <1>8, <1>11, OneMeans
  <2> QED
    BY <2>2, <2>3 DEF x
<1>12. CASE kind \in {"datetime", "timestamp"} /\ type # RustType("time", "timestamp")
  <2>1. x = moment
    <3>1. CASE kind = "timestamp" /\ crate = "jiff"
      <4>1. x = JiffReadTimestamp(cell) /\ moment = JiffMoment(cell) /\ x # None
        BY <1>6, <3>1 DEF MomentFrom, moment, x
      <4> QED
        BY <4>1 DEF JiffReadTimestamp, TimestampFromDateTime2, JiffMoment
    <3>2. CASE kind = "timestamp" /\ crate = "time"
      BY <1>1, <1>12, <3>2
    <3> QED
      BY <1>1, <1>6, <1>12, <3>1, <3>2 DEF Crates
  <2>2. Means(type, m, cell, 1)
    BY <1>2, <1>8, <1>12, BothMean DEF m
  <2> QED
    BY <1>9, <2>1, <2>2 DEF x
<1>13. CASE type = RustType("time", "timestamp") /\ ~OffsetTwice(type, cell)
  <2>1. crate = "time" /\ kind = "timestamp"
    BY <1>13 DEF RustType
  <2>2. x = TimeReadTimestamp(cell) /\ moment = TimeMoment(cell)
    BY <1>6, <2>1 DEF MomentFrom, moment
  <2>3. cell[1] = "datetimeoffset" => cell[4] = 0
    BY <1>13 DEF OffsetTwice
  <2> DEFINE v == [date |-> date, time |-> time, offset |-> 0]
  <2>4. x = Some(v)
    BY <1>7, <1>9, <2>2, <2>3 DEF TimeReadTimestamp
  <2>5. x[1] = v
    BY <2>4, OneSome
  <2>6. date = days /\ date \in Int /\ time \in ClockTime /\ NanosOfDay("time", time) = nanos
    BY <1>8, <2>1 DEF Dates, Times, DayOf
  <2>7. NanosOfDay("time", time) < SecondsPerDay * NanosPerSecond
    BY <1>2, <2>6
  <2>8. MomentOf(RustType("time", "timestamp"), v) = <<date, NanosOfDay("time", time)>>
    BY <2>6, <2>7, AtUtc
  <2> HIDE DEF v
  <2>9. MomentOf(type, v) = <<days, nanos>>
    BY <1>13, <2>6, <2>8
  <2>10. Means(type, v, cell, 1) <=> <<days, Floor(nanos, 1)>> = MomentIn(cell)
    BY <2>1, <2>9, MomentMeans
  <2>11. Floor(nanos, 1) = nanos
    BY FloorOfOne
  <2> QED
    BY <1>2, <2>5, <2>10, <2>11 DEF x
<1> QED
  BY <1>10, <1>11, <1>12, <1>13 DEF Moments, x

\* A date or a time of its own.
LEMMA MomentRead ==
    ASSUME NEW type \in RustTypes, type.kind \in Moments, NEW cell, KnownMoment(cell),
           DecodeMoment(type, cell) # None
    PROVE  OffsetTwice(type, cell) \/ Means(type, DecodeMoment(type, cell)[1], cell, 1)
<1> DEFINE crate == type.crate
           kind == type.kind
           x == DecodeMoment(type, cell)
           moment == MomentFrom(crate, cell)
           days == cell[2]
<1>1. type = RustType(crate, kind) /\ crate \in Crates
  BY MomentTypes
<1>2. CASE cell[1] \in PairTags
  BY <1>2, PairMeans
<1>3. ASSUME cell[1] \notin PairTags
      PROVE  /\ moment = None /\ DatePart(moment) = None /\ TimePart(moment) = None
             /\ kind = "timestamp" => x = None
  <2>1. moment = None
    BY <1>1, <1>3, PairsRead
  <2>2. TimeReadTimestamp(cell) = None
    <3>1. TimeMoment(cell) = None
      BY <1>3 DEF TimeMoment, PairTags
    <3> QED
      BY <3>1 DEF TimeReadTimestamp
  <2>3. JiffReadTimestamp(cell) = None
    BY <1>3 DEF JiffReadTimestamp, PairTags
  <2>4. kind = "timestamp" => x = None
    BY <1>1, <2>1, <2>2, <2>3, ReadCases DEF Crates
  <2> QED
    BY <2>1, <2>4 DEF DatePart, TimePart
<1>4. CASE cell[1] = "date"
  <2>1. cell[1] \notin PairTags /\ cell[1] # "time"
    BY <1>4 DEF PairTags
  <2>2. days \in Nat /\ days <= MaxDay /\ MomentIn(cell) = <<days, 0>>
    BY <1>4 DEF KnownMoment, MomentIn
  <2> HIDE DEF moment, x
  <2>3. DatePart(moment) = None /\ TimePart(moment) = None /\ x # None
    BY <1>3, <2>1 DEF x
  <2>4. kind = "date" \/ (kind = "datetime" /\ crate = "chrono")
    BY <1>3, <1>4, <2>1, <2>3, ReadCases DEF x, moment, Moments
  <2>5. /\ kind = "date" => x = DateFrom(crate, days)
        /\ kind = "datetime" => x = Both(DateFrom(crate, days), TimeFrom(crate, 0))
    BY <1>4, <2>4, ReadCases DEF x
  <2> HIDE DEF days
  <2>6. PICK date : DateFrom(crate, days) = Some(date) /\ DayOf(crate, date) = days
    <3>1. DateFrom(crate, days) # None
      BY <2>3, <2>4, <2>5 DEF Both
    <3> QED
      BY <1>1, <2>2, <3>1, DateRead
  <2>7. CASE kind = "date"
    <3>1. x[1] = date
      BY <2>5, <2>6, <2>7, OneSome
    <3>2. MomentIn(cell)[1] = days
      BY <2>2
    <3>3. Means(type, date, cell, 1)
      BY <2>6, <2>7, <3>2, OneMeans
    <3> QED
      BY <3>1, <3>3 DEF x
  <2>8. CASE kind = "datetime" /\ crate = "chrono"
    <3>1. 0 \in Nat /\ 0 < SecondsPerDay * NanosPerSecond
      <4>1. 0 \in Nat /\ 0 < SecondsPerDay /\ 0 < NanosPerSecond
        BY SecondsKnown, Units
      <4>2. SecondsPerDay * NanosPerSecond \in Nat \ {0}
        BY <4>1, SecondsKnown, Units, WithinDay
      <4> QED
        BY <4>2
    <3>2. PICK time \in Times(crate) : TimeFrom(crate, 0) = Some(time) /\ NanosOfDay(crate, time) = 0
      BY <1>1, <3>1, TimeRead
    <3>3. x = Some([date |-> date, time |-> time])
      BY <2>5, <2>6, <2>8, <3>2, OneSome DEF Both
    <3>4. x[1] = [date |-> date, time |-> time]
      BY <3>3, OneSome
    <3>5. type # RustType("time", "timestamp")
      BY <2>8 DEF RustType
    <3>6. Means(type, [date |-> date, time |-> time], cell, 1)
      BY <2>2, <2>6, <2>8, <3>1, <3>2, <3>5, BothMean
    <3> QED
      BY <3>4, <3>6 DEF x
  <2> QED
    BY <2>4, <2>7, <2>8
<1>5. CASE cell[1] = "time"
  <2> DEFINE nanos == TicksToNanos(cell[2])
  <2>1. cell[1] \notin PairTags /\ cell[1] # "date"
    BY <1>5 DEF PairTags
  <2>2. cell[2] \in Nat /\ cell[2] < TicksPerDay /\ MomentIn(cell) = <<0, nanos>>
    BY <1>5 DEF KnownMoment, MomentIn
  <2>3. nanos \in Nat /\ nanos < SecondsPerDay * NanosPerSecond
    BY <2>2, TicksInDay
  <2> HIDE DEF moment, x
  <2>4. DatePart(moment) = None /\ moment = None /\ x # None
    BY <1>3, <2>1 DEF x
  <2>5. kind = "time"
    BY <1>3, <1>5, <2>1, <2>4, ReadCases DEF x, moment, Moments
  <2>6. x = TimeFrom(crate, nanos)
    BY <1>5, <2>5, ReadCases DEF x
  <2> HIDE DEF nanos
  <2>7. PICK time : TimeFrom(crate, nanos) = Some(time) /\ NanosOfDay(crate, time) = nanos
    BY <1>1, <2>3, TimeRead
  <2>8. x[1] = time
    BY <2>6, <2>7, OneSome
  <2>9. MomentIn(cell)[2] = nanos
    BY <2>2
  <2>10. Means(type, time, cell, 1)
    BY <2>3, <2>5, <2>7, <2>9, OneMeans
  <2> QED
    BY <2>8, <2>10 DEF x
<1>6. CASE cell[1] \notin PairTags \cup {"date", "time"}
  <2> HIDE DEF moment
  <2>1. x = None
    BY <1>3, <1>6, ReadCases DEF Moments, moment
  <2> QED
    BY <2>1
<1> QED
  BY <1>2, <1>4, <1>5, <1>6

\* Whatever type a known cell is read as, the value that is read is the one in
\* the cell.
LEMMA ValueRead ==
    ASSUME NEW type \in RustTypes, type.kind \notin ShapeKinds, NEW column,
           NEW name \in DOMAIN SystemTypes, NEW cell, KnownCell(name, cell),
           NEW x, x = Decode(type, column, cell), x # None
    PROVE  \/ Lossy(type, cell)
           \/ OffsetTwice(type, cell)
           \/ type.kind = "string" /\ TextIn(cell) = None
           \/ Means(type, x[1], cell, 1)
<1> DEFINE kind == type.kind
           value == x[1]
<1>1. cell[1] = TagOf(name) /\ KnownNumber(cell) /\ KnownText(cell) /\ KnownMoment(cell)
  BY DEF KnownCell
<1>2. CASE kind \in Integer
  <2>1. x = DecodeInteger(kind, cell)
    BY <1>2, Decodes
  <2>2. Lossy(type, cell) \/ NumberIn(cell) = Some(value * One)
    BY <1>1, <1>2, <2>1, IntegerRead
  <2> QED
    BY <1>2, <2>2, ValueMeans
<1>3. CASE kind \in {"f32", "f64"}
  <2> DEFINE f == AsF64(cell)
  <2>1. /\ kind = "f32" => x = DecodeF32(cell)
        /\ kind = "f64" => x = f
    BY <1>3, Decodes
  <2>2. f # None
    BY <1>3, <2>1 DEF DecodeF32
  <2>3. /\ NumberIn(cell) # None
        /\ Near(f[1], NumberIn(cell)[1], Mantissa[64])
        /\ Near(Rounded(f[1], Mantissa[32]), NumberIn(cell)[1], Mantissa[32])
    BY <1>1, <2>2, FloatsNear
  <2>4. /\ kind = "f32" => value = Rounded(f[1], Mantissa[32])
        /\ kind = "f64" => value = f[1]
    BY <2>1, <2>2, OneSome DEF DecodeF32
  <2> HIDE DEF f, value
  <2>5. kind = "f32" => Near(value, NumberIn(cell)[1], Mantissa[32])
    BY <2>3, <2>4
  <2>6. kind = "f64" => Near(value, NumberIn(cell)[1], Mantissa[64])
    BY <2>3, <2>4
  <2> QED
    BY <1>3, <2>3, <2>5, <2>6, ValueMeans DEF value
<1>4. CASE kind = "decimal"
  <2>1. x = DecodeDecimal(type.crate, cell) /\ type.crate \in {"bigdecimal", "rust_decimal"}
    BY <1>4, Decodes, Kinds
  <2>2. \/ Lossy(type, cell)
        \/ NumberIn(cell) = Some(value)
        \/ cell[1] \in {"real", "float"} /\ NumberIn(cell) = Some(ToF64(value))
    BY <1>1, <1>4, <2>1, DecimalRead
  <2> QED
    BY <1>4, <2>2, ValueMeans
<1>5. CASE kind = "bool"
  <2>1. x = AsBool(cell)
    BY <1>5, Decodes
  <2>2. \/ NumberIn(cell) # None /\ value = (NumberIn(cell)[1] # 0)
        \/ TextIn(cell) = Some(Word(IF value THEN "true" ELSE "false"))
    BY <1>1, <2>1, BoolRead
  <2> QED
    BY <1>5, <2>2, ValueMeans
<1>6. CASE kind \in {"string", "json", "bytes"}
  <2>1. /\ kind = "string" => x = DecodeString(cell)
        /\ kind = "json" => x = DecodeJson(cell)
        /\ kind = "bytes" => x = AsBytes(cell)
    BY <1>6, Decodes
  <2>2. CASE kind = "string"
    <3>1. TextIn(cell) = None \/ TextIn(cell) = Some(value)
      BY <1>1, <2>1, <2>2, TextRead
    <3> QED
      BY <2>2, <3>1, ValueMeans
  <2>3. CASE kind = "json"
    <3>1. TextIn(cell) = Some(value)
      BY <1>1, <2>1, <2>3, TextRead
    <3> QED
      BY <2>3, <3>1, ValueMeans
  <2>4. CASE kind = "bytes"
    <3>1. \/ cell = <<"bytes", value>>
          \/ cell[1] = "uuid" /\ value = <<"guid", cell[2]>>
          \/ TextIn(cell) # None /\ value = <<"utf8", TextIn(cell)[1]>>
      BY <1>1, <2>1, <2>4, TextRead
    <3> QED
      BY <2>4, <3>1, ValueMeans
  <2> QED
    BY <1>6, <2>2, <2>3, <2>4
<1>7. CASE kind = "uuid"
  <2>1. cell[1] = "uuid" /\ value = cell[2]
    BY <1>7, Decodes, OneSome DEF DecodeUuid
  <2>2. cell = <<"uuid", value>>
    BY <1>1, <2>1 DEF KnownText
  <2> QED
    BY <1>7, <2>2, ValueMeans
<1>8. CASE kind = "wkb"
  <2> DEFINE bytes == AsBytes(cell)
  <2>1. x = DecodeShape("wkb", column, cell)
    BY <1>8, Decodes
  <2>2. bytes # None /\ bytes[1][1] = "wkb" /\ x = Some(bytes[1][2])
    BY <2>1 DEF DecodeShape
  <2>3. cell[1] = "bytes"
    <3>1. CASE cell[1] \in TextCells
      <4> DEFINE t == TextualForm(cell)[1]
      <4>1. TextViews(cell, t)
        BY <1>1, <3>1, TextsViewed
      <4>2. bytes = Some(<<"utf8", t>>)
        BY <4>1 DEF TextViews
      <4> HIDE DEF t
      <4>3. bytes[1] = <<"utf8", t>>
        BY <4>2, OneSome
      <4> QED
        BY <2>2, <4>3
    <3>2. CASE cell[1] = "uuid"
      <4>1. BytesViews(cell)
        BY <3>2, BytesViewed
      <4>2. bytes = Some(<<"guid", cell[2]>>)
        BY <3>2, <4>1 DEF BytesViews
      <4>3. bytes[1] = <<"guid", cell[2]>>
        BY <4>2, OneSome
      <4> QED
        BY <2>2, <4>3
    <3>3. CASE cell[1] \in MomentTags
      BY <2>2, <3>3, MomentsViewed
    <3>4. CASE cell[1] \in Whole \cup {"bit", "real", "float", "money", "smallmoney"}
      BY <2>2, <3>4, NumbersViewed DEF NumberViews
    <3> QED
      BY <1>1, <3>1, <3>2, <3>3, <3>4, Tags
  <2>4. bytes = Some(cell[2])
    <3>1. BytesViews(cell)
      BY <2>3, BytesViewed
    <3> QED
      BY <2>3, <3>1 DEF BytesViews
  <2>5. cell[2][1] = "wkb" /\ value = cell[2][2]
    BY <2>2, <2>4, OneSome
  <2>6. cell = <<"bytes", <<"wkb", value>>>>
    <3>1. cell = <<"bytes", cell[2]>> /\ cell[2] = <<cell[2][1], cell[2][2]>>
      BY <1>1, <2>3 DEF KnownText
    <3>2. cell[2] = <<"wkb", value>>
      BY <2>5, <3>1
    <3> QED
      BY <3>1, <3>2
  <2> QED
    BY <1>8, <2>6, ValueMeans
<1>9. CASE kind \in Moments
  <2>1. x = DecodeMoment(type, cell)
    BY <1>9, Decodes
  <2> QED
    BY <1>1, <1>9, <2>1, MomentRead
<1> QED
  BY <1>2, <1>3, <1>4, <1>5, <1>6, <1>7, <1>8, <1>9, Kinds DEF ShapeKinds

\* Whatever is read, as whatever type and with or without the check of the
\* types, is what the cell holds.  (What an f64 on the way, or the places that
\* rust_decimal has no room for, may take from it is left out, as is the offset
\* that time applies twice.)
THEOREM ReadsMeaning == Spec => []NothingMisread
<1>1. IInv => NothingMisread
  <2> SUFFICES ASSUME IInv, at = "done", result.outcome = "value",
                      reader.type.kind \notin ShapeKinds
               PROVE  \/ Lossy(reader.type, row.cell)
                      \/ OffsetTwice(reader.type, row.cell)
                      \/ reader.type.kind = "string" /\ TextIn(row.cell) = None
                      \/ Means(reader.type, result.value[1], row.cell, 1)
    BY DEF NothingMisread
  <2> DEFINE x == Decode(reader.type, row.column, row.cell)
  <2>1. reader.type \in RustTypes /\ ~IsNull(row.cell) /\ x # None /\ result.value = x
    BY WasRead
  <2>2. PICK name, nullable : KnownRow(name, nullable)
    BY <2>1, RowKnown, VectorUnread
  <2>3. name \in DOMAIN SystemTypes /\ KnownCell(name, row.cell)
    BY <2>2 DEF KnownRow
  <2>4. x = Decode(reader.type, row.column, row.cell)
    OBVIOUS
  <2> HIDE DEF x
  <2> QED
    BY <2>1, <2>3, <2>4, ValueRead
<1> QED
  BY <1>1, AlwaysKnown, PTL

-----------------------------------------------------------------------------
(* A type that accepts a column reads its cells. *)

\* The tags of the cells of the columns a kind accepts.
AcceptedTags(kind, tag) ==
    /\ kind = "bool" => tag = "bit"
    /\ kind \in Integer \cup {"f32", "f64"} =>
           tag \in Whole \cup {"real", "float", "money", "smallmoney", "decimal"}
    /\ kind = "decimal" => tag \in Whole \cup {"real", "float", "money", "smallmoney"} \cup TextCells
    /\ kind = "string" => tag \in TextCells
    /\ kind = "json" => tag \in TextCells \cup {"bytes"}
    /\ kind \in {"bytes", "wkb"} \cup ShapeKinds => tag = "bytes"
    /\ kind = "uuid" => tag = "uuid"
    /\ kind = "date" => tag = "date"
    /\ kind = "time" => tag = "time"
    /\ kind \in {"datetime", "timestamp"} => tag \in PairTags

\* The names that store as each family of TDS types.
LEMMA Columns ==
    ASSUME NEW name \in DOMAIN SystemTypes, NEW nullable \in BOOLEAN, NEW tds, NEW tag,
           tds = StoredAs(name, nullable), tag = TagOf(name)
    PROVE  /\ tds \in {"Bit", "BitN"} => tag = "bit"
           /\ tds \in Numeric =>
                  tag \in Whole \cup {"real", "float", "money", "smallmoney", "decimal"}
           /\ tds \in Character => tag \in {"string", "xml", "json"}
           /\ tds \in Binary => tag = "bytes"
           /\ tds = "Udt" => tag = "bytes" /\ name \in {"geometry", "geography"}
           /\ tds = "Guid" => tag = "uuid"
           /\ tds = "DateN" => tag = "date"
           /\ tds = "TimeN" => tag = "time"
           /\ tds \in NaiveDateTime \cup {"DateTimeOffsetN"} => tag \in PairTags
           /\ tds # "Udt" \/ tds \notin Binary
<1>1. tds = SystemTypes[name]
          \/ (name \in DOMAIN NullableStorage /\ tds = NullableStorage[name])
  BY DEF StoredAs
<1>2. CASE name \in {"tinyint", "smallint", "int", "bigint", "bit", "real", "float", "money",
                     "smallmoney", "decimal", "numeric"}
  BY <1>1, <1>2 DEF SystemTypes, NullableStorage, TagOf, Numeric, Character, Binary, NaiveDateTime,
                    PairTags, Whole
<1>3. CASE name \in {"uniqueidentifier", "date", "time", "datetime2", "datetimeoffset", "datetime",
                     "smalldatetime"}
  BY <1>1, <1>3 DEF SystemTypes, NullableStorage, TagOf, Numeric, Character, Binary, NaiveDateTime,
                    PairTags, Whole
<1>4. CASE name \in {"char", "varchar", "nchar", "nvarchar", "text", "ntext", "xml", "json"}
  BY <1>1, <1>4 DEF SystemTypes, NullableStorage, TagOf, Numeric, Character, Binary, NaiveDateTime,
                    PairTags, Whole
<1>5. CASE name \in {"binary", "varbinary", "image", "geometry", "geography"}
  BY <1>1, <1>5 DEF SystemTypes, NullableStorage, TagOf, Numeric, Character, Binary, NaiveDateTime,
                    PairTags, Whole
<1> QED
  BY <1>2, <1>3, <1>4, <1>5 DEF SystemTypes

LEMMA Accepts ==
    ASSUME NEW type \in RustTypes, NEW name \in DOMAIN SystemTypes, NEW nullable \in BOOLEAN,
           Compatible(type.kind, TypeInfo(name, StoredAs(name, nullable)))
    PROVE  /\ AcceptedTags(type.kind, TagOf(name))
           /\ type.kind \in ShapeKinds => IsUdt(TypeInfo(name, StoredAs(name, nullable)), type.kind)
           /\ type.kind = "wkb" => StoredAs(name, nullable) # "Udt"
<1> DEFINE kind == type.kind
           tds == StoredAs(name, nullable)
           info == TypeInfo(name, tds)
           tag == TagOf(name)
<1>1. info.tds = tds /\ info.name = name
  BY DEF TypeInfo
<1> HIDE DEF info, tds, tag
<1>2. /\ tds \in {"Bit", "BitN"} => tag = "bit"
      /\ tds \in Numeric =>
             tag \in Whole \cup {"real", "float", "money", "smallmoney", "decimal"}
      /\ tds \in Character => tag \in {"string", "xml", "json"}
      /\ tds \in Binary => tag = "bytes"
      /\ tds = "Udt" => tag = "bytes" /\ name \in {"geometry", "geography"}
      /\ tds = "Guid" => tag = "uuid"
      /\ tds = "DateN" => tag = "date"
      /\ tds = "TimeN" => tag = "time"
      /\ tds \in NaiveDateTime \cup {"DateTimeOffsetN"} => tag \in PairTags
      /\ tds # "Udt" \/ tds \notin Binary
  BY Columns DEF tds, tag
<1>3. /\ kind = "bool" => tds \in {"Bit", "BitN"}
      /\ kind \in Integer \cup {"f32", "f64"} => tds \in Numeric
      /\ kind = "decimal" => tds \in Numeric \cup Character
      /\ kind = "string" => tds \in Character
      /\ kind = "json" => tds \in Character \cup Binary
      /\ kind \in {"bytes", "wkb"} => tds \in Binary
      /\ kind \in ShapeKinds => IsUdt(info, kind) /\ tds = "Udt"
      /\ kind = "uuid" => tds = "Guid"
      /\ kind = "date" => tds = "DateN"
      /\ kind = "time" => tds = "TimeN"
      /\ kind \in {"datetime", "timestamp"} => tds \in NaiveDateTime \cup {"DateTimeOffsetN"}
  <2>1. Compatible(kind, info)
    BY DEF info, tds
  <2> HIDE DEF kind
  <2>2. kind \in Integer \cup {"bool", "f32", "f64", "decimal"} =>
            /\ kind = "bool" => tds \in {"Bit", "BitN"}
            /\ kind \in Integer \cup {"f32", "f64"} => tds \in Numeric
            /\ kind = "decimal" => tds \in Numeric \cup Character
    BY <1>1, <2>1, IntegerKinds DEF Compatible
  <2>3. kind \in {"string", "json", "bytes", "wkb"} =>
            /\ kind = "string" => tds \in Character
            /\ kind = "json" => tds \in Character \cup Binary
            /\ kind \in {"bytes", "wkb"} => tds \in Binary
    BY <1>1, <2>1 DEF Compatible
  <2>4. kind \in ShapeKinds \cup {"uuid", "date", "time", "datetime", "timestamp"} =>
            /\ kind \in ShapeKinds => IsUdt(info, kind) /\ tds = "Udt"
            /\ kind = "uuid" => tds = "Guid"
            /\ kind = "date" => tds = "DateN"
            /\ kind = "time" => tds = "TimeN"
            /\ kind \in {"datetime", "timestamp"} => tds \in NaiveDateTime \cup {"DateTimeOffsetN"}
    BY <1>1, <2>1 DEF Compatible, IsUdt, ShapeKinds
  <2> QED
    BY <2>2, <2>3, <2>4
<1>4. AcceptedTags(kind, tag)
  BY <1>2, <1>3, IntegerKinds DEF AcceptedTags, TextCells, ShapeKinds
<1> QED
  BY <1>1, <1>2, <1>3, <1>4 DEF info, tds, tag

\* A number of a column its type accepts is read, unless it is no integer of
\* the type, or an integer type was given a float or money to read.
LEMMA NumberUnread ==
    ASSUME NEW type \in RustTypes, type.kind \in Integer \cup {"bool", "f32", "f64"}, NEW column,
           NEW name \in DOMAIN SystemTypes, NEW cell, KnownCell(name, cell),
           AcceptedTags(type.kind, cell[1]), Decode(type, column, cell) = None
    PROVE  MayFail(type, cell)
<1> DEFINE kind == type.kind
           q == cell[2]
<1>1. KnownNumber(cell) /\ KnownText(cell) /\ NumberViews(cell)
  BY NumbersViewed DEF KnownCell
<1>2. CASE kind \in Integer
  <2>1. DecodeInteger(kind, cell) = None
    BY <1>2, Decodes
  <2>2. AsI64(cell) = None \/ AsI64(cell)[1] \notin IntegerRange[kind]
    BY <2>1 DEF DecodeInteger
  <2>3. cell[1] \in Whole \cup {"real", "float", "money", "smallmoney", "decimal"}
    BY <1>2 DEF AcceptedTags
  <2>4. CASE cell[1] \in Whole
    <3>1. AsI64(cell) = Some(q \div One) /\ NumberIn(cell) = Some(q)
      BY <1>1, <2>4 DEF NumberViews
    <3>2. NumberIn(cell) # None /\ NumberIn(cell)[1] = q /\ q \div One \notin IntegerRange[kind]
      BY <2>2, <3>1, OneSome
    <3> QED
      BY <1>2, <3>2 DEF MayFail
  <2>5. CASE cell[1] \in {"real", "float", "money", "smallmoney"}
    BY <1>2, <2>5 DEF MayFail
  <2>6. CASE cell[1] = "decimal"
    <3> DEFINE t == TextualForm(cell)[1]
    <3>1. TextViews(cell, t)
      BY <1>1, <2>6, TextsViewed DEF TextCells
    <3>2. TextualForm(cell) = Some(Number(q, cell[3])) /\ NumberIn(cell) = Some(q)
      BY <2>6 DEF TextualForm, NumberIn
    <3>3. /\ t \in Text /\ t[1] # "word" /\ t[2] = q
          /\ NumberIn(cell) # None /\ NumberIn(cell)[1] = q
      BY <3>1, <3>2, OneSome DEF TextViews, Number
    <3> HIDE DEF t
    <3>4. AsI64(cell) = ParseIntegerText(t)
      BY <3>1 DEF TextViews
    <3> HIDE DEF q
    <3>5. q % One = 0 /\ q \div One \in IntegerRange[kind] =>
              ParseIntegerText(t) # None /\ ParseIntegerText(t)[1] \in IntegerRange[kind]
      BY <1>2, <3>3, IntegerText
    <3>6. q % One # 0 \/ q \div One \notin IntegerRange[kind]
      BY <2>2, <3>4, <3>5
    <3> QED
      BY <1>2, <3>3, <3>6 DEF MayFail
  <2> QED
    BY <2>3, <2>4, <2>5, <2>6
<1>3. CASE kind = "bool"
  <2>1. cell[1] = "bit"
    BY <1>3 DEF AcceptedTags
  <2>2. AsBool(cell) # None
    BY <1>1, <2>1, OneSome DEF NumberViews
  <2> QED
    BY <1>3, <2>2, Decodes
<1>4. CASE kind \in {"f32", "f64"}
  <2>1. AsF64(cell) = None
    <3>1. kind = "f32" => DecodeF32(cell) = None
      BY <1>4, Decodes
    <3>2. kind = "f64" => AsF64(cell) = None
      BY <1>4, Decodes
    <3>3. DecodeF32(cell) = None => AsF64(cell) = None
      BY OneSome DEF DecodeF32
    <3> QED
      BY <1>4, <3>1, <3>2, <3>3
  <2>2. cell[1] \in Whole \cup {"real", "float", "money", "smallmoney", "decimal"}
    BY <1>4 DEF AcceptedTags
  <2>3. CASE cell[1] # "decimal"
    BY <1>1, <2>1, <2>2, <2>3, OneSome DEF NumberViews
  <2>4. CASE cell[1] = "decimal"
    <3> DEFINE t == TextualForm(cell)[1]
    <3>1. TextViews(cell, t)
      BY <1>1, <2>4, TextsViewed DEF TextCells
    <3>2. NumberIn(cell) = Some(q)
      BY <2>4 DEF NumberIn
    <3>3. t[1] # "word"
      BY <3>1, <3>2, OneSome DEF TextViews, NumberOf
    <3> QED
      BY <2>1, <3>1, <3>3, OneSome DEF TextViews
  <2> QED
    BY <2>3, <2>4
<1> QED
  BY <1>2, <1>3, <1>4

\* A decimal, unless the text is no number, or is too large for a Decimal of
\* rust_decimal or has an exponent.
LEMMA DecimalUnread ==
    ASSUME NEW type \in RustTypes, type.kind = "decimal",
           type.crate \in {"bigdecimal", "rust_decimal"}, NEW cell,
           KnownNumber(cell), KnownText(cell),
           cell[1] \in Whole \cup {"real", "float", "money", "smallmoney"} \cup TextCells,
           DecodeDecimal(type.crate, cell) = None
    PROVE  MayFail(type, cell)
<1> DEFINE crate == type.crate
           q == cell[2]
<1>1. ASSUME NEW n \in Int, NumberIn(cell) = Some(n), crate = "rust_decimal",
             ~FitsDecimal(Abs(n) + Half, One)
      PROVE  MayFail(type, cell)
  <2>1. NumberIn(cell) # None /\ NumberIn(cell)[1] = n
    BY <1>1, OneSome
  <2>2. BeyondDecimal(cell)
    BY <1>1, <2>1 DEF BeyondDecimal
  <2> QED
    BY <1>1, <2>1, <2>2 DEF MayFail
<1>2. CASE cell[1] \in TextCells
  <2> DEFINE t == TextualForm(cell)[1]
  <2>1. TextViews(cell, t)
    BY <1>2, TextsViewed
  <2>2. /\ t \in Text /\ TextualForm(cell) # None /\ NumberIn(cell) = NumberOf(t)
        /\ TextIn(cell) # None /\ TextIn(cell)[1] = t
    BY <2>1, OneSome DEF TextViews
  <2>3. DecimalFromStr(crate, t) = None
    BY <2>2 DEF DecodeDecimal
  <2> HIDE DEF t
  <2>4. CASE t[1] = "word"
    <3>1. NumberIn(cell) = None
      BY <2>2, <2>4 DEF NumberOf
    <3> QED
      BY <2>2, <3>1 DEF MayFail
  <2>5. CASE t[1] # "word"
    <3>1. NumberIn(cell) = Some(t[2]) /\ t[2] \in Int
      BY <2>2, <2>5, TextIs DEF NumberOf
    <3>2. crate = "rust_decimal" /\ (t[1] = "exponent" \/ RustDecimal(t[2]) = None)
      BY <2>3, <2>5, OneSome DEF DecimalFromStr
    <3>3. CASE t[1] = "exponent"
      <4>1. NumberIn(cell) # None
        BY <3>1, OneSome
      <4>2. BeyondDecimal(cell)
        BY <2>2, <3>3 DEF BeyondDecimal
      <4> QED
        BY <3>2, <4>1, <4>2 DEF MayFail
    <3>4. CASE RustDecimal(t[2]) = None
      <4>1. ~FitsDecimal(Abs(t[2]) + Half, One)
        BY <3>1, <3>4, DecimalRefused
      <4> QED
        BY <1>1, <3>1, <3>2, <4>1
    <3> QED
      BY <3>2, <3>3, <3>4
  <2> QED
    BY <2>4, <2>5
<1>3. CASE cell[1] \in Whole
  <2>1. TextualForm(cell) = None /\ AsI64(cell) = Some(q \div One)
        /\ q \in Int /\ q % One = 0 /\ Held(q)
    BY <1>3, NumbersViewed DEF NumberViews, KnownNumber
  <2> HIDE DEF q
  <2>2. DecimalFromStr(crate, Number((q \div One) * One, FALSE)) = None
    BY <2>1, OneSome DEF DecodeDecimal
  <2>3. (q \div One) * One = q
    BY <2>1 DEF One
  <2>4. DecimalFromStr(crate, Number(q, FALSE)) = Some(q)
    BY <2>1, HeldRead
  <2> QED
    BY <2>2, <2>3, <2>4, OneSome
<1>4. CASE cell[1] \in {"real", "float", "money", "smallmoney"}
  <2> DEFINE float == AsF64(cell)[1]
             d == TwoTo[DecimalBits]
             w == TwoTo[Width[64]]
  <2>1. /\ TextualForm(cell) = None /\ AsI64(cell) = None /\ NumberIn(cell) = Some(q) /\ q \in Int
        /\ cell[1] \in {"real", "float"} => AsF64(cell) = Some(q) /\ ToF64(q) = q
        /\ cell[1] \in {"money", "smallmoney"} => AsF64(cell) = Some(ToF64(q)) /\ Abs(q) <= w
    BY <1>4, NumbersViewed DEF NumberViews, KnownNumber, Whole
  <2>2. AsF64(cell) # None
    BY <1>4, <2>1, OneSome
  <2>3. DecimalFromStr(crate, FloatText(float)) = None
    BY <2>1, <2>2 DEF DecodeDecimal
  <2>4. /\ cell[1] \in {"real", "float"} => float = q
        /\ cell[1] \in {"money", "smallmoney"} => float = ToF64(q)
    BY <2>1, OneSome
  <2> HIDE DEF q, float
  <2>5. float \in Int /\ ToF64(float) = float
    <3>1. Rounded(q, Mantissa[64]) \in Int
      BY <2>1, FloatWidths, RoundedIs
    <3>2. Rounded(Rounded(q, Mantissa[64]), Mantissa[64]) = Rounded(q, Mantissa[64])
      BY <2>1, FloatWidths, RoundedTwice
    <3> QED
      BY <1>4, <2>1, <2>4, <3>1, <3>2 DEF ToF64
  <2>6. PICK n \in Int : IsText(float, n) /\ FloatText(float) = Number(n, n % One # 0)
    BY <2>5, FloatTextIs
  <2>7. crate = "rust_decimal" /\ RustDecimal(n) = None
    BY <2>3, <2>6, OneSome DEF DecimalFromStr, Number
  <2>8. ~FitsDecimal(Abs(float) + Half, One) /\ Abs(float) >= 4 * d
    BY <2>5, <2>6, <2>7, FloatRefused
  <2>9. CASE cell[1] \in {"real", "float"}
    BY <1>1, <2>1, <2>4, <2>7, <2>8, <2>9
  <2>10. CASE cell[1] \in {"money", "smallmoney"}
    <3> DEFINE b == TwoTo[Mantissa[64]]
               z == Abs(float - q)
               a == Abs(q)
    <3>1. b * z <= a
      BY <2>1, <2>4, <2>10, FloatWidths, RoundedNear DEF ToF64
    <3>2. /\ b \in Nat \ {0} /\ d \in Nat \ {0} /\ w \in Nat /\ 2 * w <= d
      BY DecimalAssumption, Widths, FloatWidths, TwoToDoubles, TwoToGrows
    <3>3. z \in Nat /\ a \in Nat /\ a <= w /\ Abs(float) \in Nat /\ Abs(float) <= a + z
      <4>1. float - q \in Int
        BY <2>1, <2>5
      <4> QED
        BY <2>1, <2>5, <2>10, <4>1, AbsIs DEF Abs
    <3> HIDE DEF b, z, a, d, w
    <3>4. z <= a
      <4> DEFINE c == b - 1
                 y == c * z
      <4>1. c \in Nat /\ b = c + 1
        BY <3>2
      <4> HIDE DEF c
      <4>2. y \in Nat /\ (c + 1) * z = y + z
        BY <3>3, <4>1
      <4> HIDE DEF y
      <4> QED
        BY <3>1, <3>3, <4>1, <4>2
    <3> QED
      BY <2>8, <3>2, <3>3, <3>4
  <2> QED
    BY <1>4, <2>9, <2>10
<1> QED
  BY <1>2, <1>3, <1>4

\* A text, or bytes, unless it is no number, no JSON or no WKB.
LEMMA TextUnread ==
    ASSUME NEW type \in RustTypes, type.kind \in {"string", "json", "decimal", "bytes", "uuid"},
           NEW column, NEW name \in DOMAIN SystemTypes, NEW cell, KnownCell(name, cell),
           AcceptedTags(type.kind, cell[1]), Decode(type, column, cell) = None
    PROVE  MayFail(type, cell)
<1> DEFINE kind == type.kind
           t == TextualForm(cell)[1]
<1>1. KnownNumber(cell) /\ KnownText(cell) /\ NumberViews(cell)
  BY NumbersViewed DEF KnownCell
<1>2. ASSUME cell[1] \in TextCells
      PROVE  /\ TextViews(cell, t)
             /\ TextualForm(cell) # None /\ TextualForm(cell) = Some(t)
             /\ TextIn(cell) # None /\ TextIn(cell)[1] = t
             /\ t \in Text /\ NumberIn(cell) = NumberOf(t)
  <2>1. TextViews(cell, t)
    BY <1>1, <1>2, TextsViewed
  <2> HIDE DEF t
  <2> QED
    BY <2>1, OneSome DEF TextViews
<1>3. CASE kind = "string"
  <2>1. cell[1] \in TextCells
    BY <1>3 DEF AcceptedTags
  <2>2. DecodeString(cell) # None
    BY <1>2, <2>1 DEF DecodeString
  <2> QED
    BY <1>3, <2>2, Decodes
<1>4. CASE kind = "json" /\ cell[1] \in TextCells
  <2>1. DecodeJson(cell) = None
    BY <1>4, Decodes
  <2>2. TextualForm(cell) # None /\ ~IsJson(TextualForm(cell)[1])
    BY <1>2, <1>4, <2>1 DEF DecodeJson
  <2> HIDE DEF t
  <2>3. ~IsJson(t) /\ TextIn(cell) # None /\ TextIn(cell)[1] = t
    BY <1>2, <1>4, <2>2 DEF t
  <2>4. NumberIn(cell) = None
    BY <1>2, <1>4, <2>3 DEF IsJson, NumberOf, t
  <2> QED
    BY <1>4, <2>3, <2>4 DEF MayFail
<1>5. CASE kind = "json" /\ cell[1] = "bytes"
  <2>1. DecodeJson(cell) = None
    BY <1>5, Decodes
  <2>2. BytesViews(cell)
    BY <1>5, BytesViewed
  <2>3. /\ TextualForm(cell) = None /\ AsBytes(cell) = Some(cell[2]) /\ NumberIn(cell) = None
        /\ TextIn(cell) = IF cell[2][1] = "utf8" THEN Some(cell[2][2]) ELSE None
    BY <1>5, <2>2 DEF BytesViews
  <2>4. CASE cell[2][1] # "utf8"
    BY <1>5, <2>4 DEF MayFail
  <2>5. CASE cell[2][1] = "utf8"
    <3>1. AsBytes(cell) # None /\ AsBytes(cell)[1][1] = "utf8" /\ AsBytes(cell)[1][2] = cell[2][2]
      BY <2>3, <2>5, OneSome
    <3>2. TextIn(cell) # None /\ TextIn(cell)[1] = cell[2][2]
      BY <2>3, <2>5, OneSome
    <3>3. ~IsJson(cell[2][2])
      BY <2>1, <2>3, <3>1, OneSome DEF DecodeJson
    <3> QED
      BY <1>5, <2>3, <3>2, <3>3 DEF MayFail
  <2> QED
    BY <2>4, <2>5
<1>6. CASE kind = "decimal"
  <2>1. /\ DecodeDecimal(type.crate, cell) = None /\ type.crate \in {"bigdecimal", "rust_decimal"}
        /\ cell[1] \in Whole \cup {"real", "float", "money", "smallmoney"} \cup TextCells
    BY <1>6, Decodes, Kinds DEF AcceptedTags
  <2> QED
    BY <1>1, <1>6, <2>1, DecimalUnread
<1>7. CASE kind \in {"bytes", "uuid"}
  <2>1. cell[1] = "bytes" \/ cell[1] = "uuid"
    BY <1>7 DEF AcceptedTags
  <2>2. BytesViews(cell)
    BY <2>1, BytesViewed
  <2>3. AsBytes(cell) # None
    BY <2>1, <2>2, OneSome DEF BytesViews
  <2>4. kind = "uuid" => cell[1] = "uuid"
    BY DEF AcceptedTags
  <2>5. kind = "uuid" => DecodeUuid(cell) # None
    BY <2>4, OneSome DEF DecodeUuid
  <2> QED
    BY <1>7, <2>3, <2>5, Decodes
<1>8. kind = "json" => cell[1] \in TextCells \cup {"bytes"}
  BY DEF AcceptedTags
<1> QED
  BY <1>3, <1>4, <1>5, <1>6, <1>7, <1>8

\* A shape, unless its bytes are no shape.
LEMMA ShapeUnread ==
    ASSUME NEW type \in RustTypes, type.kind \in ShapeKinds \cup {"wkb"}, NEW column,
           NEW name \in DOMAIN SystemTypes, NEW cell, KnownCell(name, cell),
           AcceptedTags(type.kind, cell[1]), Decode(type, column, cell) = None,
           type.kind \in ShapeKinds => IsUdt(column, type.kind) /\ cell[2][1] = "spatial",
           type.kind = "wkb" => column.tds # "Udt"
    PROVE  MayFail(type, cell)
<1> DEFINE kind == type.kind
<1>1. cell[1] = "bytes"
  BY DEF AcceptedTags
<1>2. BytesViews(cell)
  BY <1>1, BytesViewed
<1>3. AsBytes(cell) # None /\ AsBytes(cell)[1] = cell[2]
  BY <1>1, <1>2, OneSome DEF BytesViews
<1>4. DecodeShape(kind, column, cell) = None
  BY Decodes
<1>5. CASE kind = "wkb"
  <2>1. cell[2][1] # "wkb"
    BY <1>3, <1>4, <1>5, OneSome DEF DecodeShape
  <2> QED
    BY <1>1, <1>5, <2>1 DEF MayFail
<1>6. CASE kind \in ShapeKinds
  <2>1. kind # "wkb"
    BY <1>6 DEF ShapeKinds
  <2>2. DecodePayload(cell[2][2]) = None
    BY <1>3, <1>4, <1>6, <2>1 DEF DecodeShape
  <2>3. DecodePayload(cell[2][2]) = Broken
    BY <2>2 DEF None, Broken
  <2> QED
    BY <1>6, <2>3 DEF MayFail
<1> QED
  BY <1>5, <1>6

\* A moment, unless it is one of the older types, a day before 1970 on chrono, or
\* one of the last two days on jiff.
LEMMA MomentUnread ==
    ASSUME NEW type \in RustTypes, type.kind \in Moments, NEW cell, KnownMoment(cell),
           AcceptedTags(type.kind, cell[1]), DecodeMoment(type, cell) = None
    PROVE  MayFail(type, cell)
<1> DEFINE crate == type.crate
           kind == type.kind
           x == DecodeMoment(type, cell)
           moment == MomentFrom(crate, cell)
<1>1. type = RustType(crate, kind) /\ crate \in Crates
  BY MomentTypes
<1>2. CASE kind = "date"
  <2>1. cell[1] = "date"
    BY <1>2 DEF AcceptedTags
  <2>2. cell[2] \in Nat /\ cell[2] <= MaxDay
    BY <2>1 DEF KnownMoment
  <2>3. DateFrom(crate, cell[2]) = None
    BY <1>2, <2>1, ReadCases
  <2>4. crate = "chrono" /\ cell[2] < Epoch
    BY <1>1, <2>2, <2>3, DateRead, OneSome
  <2>5. BeforeEpoch(type, cell)
    BY <2>1, <2>4 DEF BeforeEpoch
  <2> QED
    BY <2>5 DEF MayFail
<1>3. CASE kind = "time"
  <2>1. cell[1] = "time"
    BY <1>3 DEF AcceptedTags
  <2>2. cell[2] \in Nat /\ cell[2] < TicksPerDay
    BY <2>1 DEF KnownMoment
  <2> DEFINE nanos == TicksToNanos(cell[2])
  <2>3. nanos \in Nat /\ nanos < SecondsPerDay * NanosPerSecond
    BY <2>2, TicksInDay
  <2>4. TimeFrom(crate, nanos) = None
    BY <1>3, <2>1, ReadCases
  <2> HIDE DEF nanos
  <2>5. TimeFrom(crate, nanos) # None
    BY <1>1, <2>3, TimeRead, OneSome
  <2> QED
    BY <2>4, <2>5
<1>4. CASE kind \in {"datetime", "timestamp"}
  <2>1. cell[1] \in PairTags
    BY <1>4 DEF AcceptedTags
  <2>2. \/ PairUnread(crate, cell) /\ moment = None
        \/ IsPair(crate, moment, MomentIn(cell)[1], MomentIn(cell)[2])
    BY <1>1, <2>1, PairsRead
  <2>3. CASE PairUnread(crate, cell)
    <3>1. CASE crate = "chrono" /\ cell[1] \in {"datetime2", "datetimeoffset"} /\ cell[2] < Epoch
      <4>1. BeforeEpoch(type, cell)
        BY <3>1 DEF BeforeEpoch
      <4> QED
        BY <4>1 DEF MayFail
    <3>2. CASE crate # "chrono" /\ cell[1] \in {"datetime", "smalldatetime"}
      <4>1. type.crate \in {"time", "jiff"}
        BY <1>1, <3>2 DEF Crates
      <4> QED
        BY <3>2, <4>1 DEF MayFail
    <3> QED
      BY <2>3, <3>1, <3>2 DEF PairUnread
  <2>4. CASE ~PairUnread(crate, cell)
    <3>1. PICK date \in Dates(crate), time \in Times(crate) :
              /\ moment = Some([date |-> date, time |-> time])
              /\ DayOf(crate, date) = MomentIn(cell)[1]
      BY <2>2, <2>4 DEF IsPair
    <3> DEFINE m == [date |-> date, time |-> time]
    <3>2. moment # None /\ moment[1] = m /\ m.date = date
      BY <3>1, OneSome
    <3> HIDE DEF m
    <3>3. /\ kind = "datetime" => x = moment
          /\ kind = "timestamp" /\ crate = "chrono" => x = moment
          /\ kind = "timestamp" /\ crate = "time" => x = TimeReadTimestamp(cell)
          /\ kind = "timestamp" /\ crate = "jiff" => x = JiffReadTimestamp(cell)
      <4>1. cell[1] # "date"
        BY <2>1 DEF PairTags
      <4> QED
        BY <4>1, ReadCases
    <3> HIDE DEF moment
    <3>4. crate # "time"
      <4> SUFFICES ASSUME crate = "time" PROVE FALSE
        OBVIOUS
      <4>1. moment = TimeMoment(cell) /\ TimeReadTimestamp(cell) = None
        BY <1>4, <3>2, <3>3 DEF MomentFrom, moment
      <4> QED
        BY <3>2, <4>1, OneSome DEF TimeReadTimestamp
    <3>5. crate = "jiff" /\ kind = "timestamp" /\ JiffReadTimestamp(cell) = None
      BY <1>1, <1>4, <3>2, <3>3, <3>4 DEF Crates
    <3>6. cell[1] \in {"datetime2", "datetimeoffset"}
      BY <2>1, <2>4, <3>5 DEF PairUnread, PairTags
    <3>7. moment = JiffFromDateTime2(cell[2], cell[3])
      BY <3>5, <3>6 DEF MomentFrom, JiffMoment, moment
    <3>8. ~TimestampRange(m)
      BY <3>2, <3>5, <3>6, <3>7 DEF JiffReadTimestamp, TimestampFromDateTime2
    <3> DEFINE days == cell[2]
    <3>9. days \in Nat /\ MomentIn(cell)[1] = days
      BY <3>6 DEF KnownMoment, MomentIn
    <3> HIDE DEF days
    <3>10. JiffDaysFromDate(date) = Unsigned(days)
      BY <3>1, <3>5, <3>9, DaySent
    <3>11. JiffDaysFromDate(m.date)[1] = days
      BY <3>2, <3>9, <3>10, OneSome DEF Unsigned
    <3>12. ~(days < MaxDay - 1)
      BY <3>8, <3>11 DEF TimestampRange
    <3>13. cell[2] >= MaxDay - 1
      <4>1. MaxDay \in Int
        BY DEF MaxDay
      <4>2. days >= MaxDay - 1
        BY <3>9, <3>12, <4>1
      <4> QED
        BY <4>2 DEF days
    <3>14. type = RustType("jiff", "timestamp")
      BY <1>1, <3>5
    <3> QED
      BY <3>13, <3>14 DEF MayFail
  <2> QED
    BY <2>3, <2>4
<1> QED
  BY <1>2, <1>3, <1>4 DEF Moments

\* A read that compares the types first fails only on a cell that has no value
\* of the type, a number beyond rust_decimal's range among them, and on the
\* columns that are accepted and never read: vectors, for one.
THEOREM ReadsWhatFits == Spec => []ReadIfItFits
<1>1. IInv => ReadIfItFits
  <2> SUFFICES ASSUME IInv, at = "done", reader.how = "checked", result.outcome = "error"
               PROVE  MayFail(reader.type, row.cell)
    BY DEF ReadIfItFits
  <2> DEFINE type == reader.type
             column == row.column
             cell == row.cell
  <2>1. /\ type \in RustTypes /\ ~IsNull(cell) /\ Decode(type, column, cell) = None
        /\ Compatible(type.kind, column)
    BY WasRead
  <2>0. CASE cell = VectorCell
    BY <2>0 DEF MayFail, VectorCell
  <2> SUFFICES ASSUME cell # VectorCell PROVE MayFail(type, cell)
    BY <2>0
  <2>2. PICK name, nullable : KnownRow(name, nullable)
    BY <2>1, RowKnown
  <2>3. /\ name \in DOMAIN SystemTypes /\ nullable \in BOOLEAN
        /\ column = TypeInfo(name, StoredAs(name, nullable)) /\ KnownCell(name, cell)
    BY <2>2 DEF KnownRow
  <2> HIDE DEF type, column, cell
  <2>4. /\ AcceptedTags(type.kind, TagOf(name))
        /\ type.kind \in ShapeKinds => IsUdt(column, type.kind)
        /\ type.kind = "wkb" => StoredAs(name, nullable) # "Udt"
    BY <2>1, <2>3, Accepts
  <2>5. /\ cell[1] = TagOf(name) /\ KnownMoment(cell)
        /\ name \in {"geometry", "geography"} => cell[2][1] = "spatial"
    BY <2>3 DEF KnownCell
  <2>6. column.tds = StoredAs(name, nullable) /\ column.name = name
    BY <2>3 DEF TypeInfo
  <2>7. AcceptedTags(type.kind, cell[1])
    BY <2>4, <2>5
  <2>8. CASE type.kind \in Integer \cup {"bool", "f32", "f64"}
    BY <2>1, <2>3, <2>7, <2>8, NumberUnread DEF type, cell
  <2>9. CASE type.kind \in {"string", "json", "decimal", "bytes", "uuid"}
    BY <2>1, <2>3, <2>7, <2>9, TextUnread DEF type, cell
  <2>10. CASE type.kind \in ShapeKinds \cup {"wkb"}
    <3>1. type.kind \in ShapeKinds => IsUdt(column, type.kind) /\ cell[2][1] = "spatial"
      BY <2>4, <2>5, <2>6 DEF IsUdt, ShapeKinds
    <3>2. type.kind = "wkb" => column.tds # "Udt"
      BY <2>4, <2>6
    <3>3. MayFail(type, cell)
      BY <2>1, <2>3, <2>7, <2>10, <3>1, <3>2, ShapeUnread
    <3> QED
      BY <3>3 DEF type, cell
  <2>11. CASE type.kind \in Moments
    <3>1. DecodeMoment(type, cell) = None
      BY <2>1, <2>11, Decodes
    <3>2. MayFail(type, cell)
      BY <2>1, <2>5, <2>7, <2>11, <3>1, MomentUnread
    <3> QED
      BY <3>2 DEF type, cell
  <2> QED
    BY <2>1, <2>8, <2>9, <2>10, <2>11, Kinds DEF ShapeKinds, type, cell
<1> QED
  BY <1>1, AlwaysKnown, PTL
-----------------------------------------------------------------------------
(* Reading shapes, whoever stored them. *)

\* What is laid out as this driver and the server lay out a geometry.
LaidOut(payload) ==
    \E s \in Int, g \in Geometries : ~NoExterior(g) /\ payload = ServerForm(EncodePayload(s, g))

\* What the others have stored, as far as it can be decoded, is laid out so too.
RowsLaidOut ==
    \A r \in Rows :
        r.cell[1] = "bytes" /\ r.cell[2][1] = "spatial" =>
            DecodePayload(r.cell[2][2]) = Broken \/ LaidOut(r.cell[2][2])

\* A row that no program of this model wrote is one of the others', and stays it.
FromRows == written = Foreign => row \in Rows

LEMMA FromRowsKept == IInv /\ FromRows /\ [Next]_vars => FromRows'
<1> SUFFICES ASSUME IInv, FromRows, [Next]_vars, written' = Foreign PROVE row' \in Rows
  BY DEF FromRows
<1>1. at \in {"bind", "execute"} => written # Foreign
  BY Written DEF IInv, Origin
<1>2. CASE Bind
  BY <1>1, <1>2 DEF Bind
<1>3. CASE \E nullable \in BOOLEAN : Execute(nullable)
  BY <1>1, <1>3 DEF Execute
<1>4. CASE \E type \in RustTypes, how \in {"checked", "unchecked"} : Get(type, how)
  BY <1>4 DEF Get, FromRows
<1>5. CASE GetAny
  BY <1>5 DEF GetAny, FromRows
<1>6. CASE UNCHANGED vars
  BY <1>6 DEF vars, FromRows
<1> QED
  BY <1>2, <1>3, <1>4, <1>5, <1>6 DEF Next

LEMMA AlwaysFromRows == Spec => [](IInv /\ FromRows)
<1>1. Init => FromRows
  <2> SUFFICES ASSUME Init, written = Foreign PROVE row \in Rows
    BY DEF FromRows
  <2>1. written \notin Writes
    BY Written
  <2> QED
    BY <2>1 DEF Init
<1> QED
  BY <1>1, InitKnown, NextKnown, FromRowsKept, PTL DEF Spec

\* Only a cell of one of the two spatial types is read as a shape.
LEMMA ShapeCellRead ==
    ASSUME NEW type \in RustTypes, type.kind \in ShapeKinds, NEW name \in DOMAIN SystemTypes,
           NEW nullable, NEW cell, KnownCell(name, cell), NEW column,
           column = TypeInfo(name, StoredAs(name, nullable)), Decode(type, column, cell) # None
    PROVE  /\ name \in ShapeKinds /\ cell[1] = "bytes" /\ cell[2][1] = "spatial"
           /\ Decode(type, column, cell) = DecodePayload(cell[2][2])
<1> DEFINE kind == type.kind
<1>1. Decode(type, column, cell) = DecodeShape(kind, column, cell) /\ kind # "wkb"
  BY Decodes DEF ShapeKinds
<1>2. IsUdt(column, kind) /\ AsBytes(cell) # None
  BY <1>1 DEF DecodeShape
<1>3. name \in ShapeKinds
  BY <1>2 DEF IsUdt, TypeInfo
<1>4. cell[1] = "bytes" /\ cell[2][1] = "spatial"
  BY <1>3 DEF KnownCell, TagOf, ShapeKinds
<1>5. AsBytes(cell)[1] = cell[2]
  <2>1. BytesViews(cell)
    BY <1>4, BytesViewed
  <2>2. AsBytes(cell) = Some(cell[2])
    BY <1>4, <2>1, Zenon DEF BytesViews
  <2> QED
    BY <2>2, OneSome
<1>6. DecodeShape(kind, column, cell) = DecodePayload(cell[2][2])
  BY <1>1, <1>2, <1>4, <1>5 DEF DecodeShape
<1> QED
  BY <1>1, <1>3, <1>4, <1>6

\* The shape that is read of what is laid out as one is laid out as it.
LEMMA SameLayout ==
    ASSUME NEW payload, LaidOut(payload), NEW x, x = DecodePayload(payload)
    PROVE  ServerForm(EncodePayload(x[1][1], x[1][2])) = payload
<1>1. PICK s \in Int, g \in Geometries : ~NoExterior(g) /\ payload = ServerForm(EncodePayload(s, g))
  BY DEF LaidOut
<1>2. x = Built(<<s, Normal[g]>>)
  BY <1>1, PayloadComesBack
<1>3. x[1] = <<s, Normal[g]>>
  BY <1>2 DEF Built
<1>4. x[1][1] = s /\ x[1][2] = Normal[g]
  BY <1>3
<1>5. EncodePayload(s, Normal[g]) = EncodePayload(s, g)
  BY <1>1, NormalIsSame DEF EncodePayload
<1> QED
  BY <1>1, <1>4, <1>5

\* Whoever stored a shape, the one that is read is laid out as the one in the
\* cell, with the same reference system: geometry and geography are not taken
\* for one another, nor anything else for one of them.  What other writers lay
\* out in a way of their own, and this driver decodes all the same, is left out.
THEOREM ReadsShapes == ASSUME RowsLaidOut PROVE Spec => []ShapesNotMisread
<1>1. IInv /\ FromRows => ShapesNotMisread
  <2> SUFFICES ASSUME IInv, FromRows, at = "done", result.outcome = "value",
                      reader.type.kind \in ShapeKinds, ~HasNoExterior
               PROVE  Means(reader.type, result.value[1], row.cell, 1)
    BY DEF ShapesNotMisread
  <2> DEFINE type == reader.type
             column == row.column
             cell == row.cell
             payload == cell[2][2]
             x == result.value
  <2>1. /\ type \in RustTypes /\ ~IsNull(cell)
        /\ x # None /\ x = Decode(type, column, cell)
    BY WasRead
  <2>2. PICK name, nullable : KnownRow(name, nullable)
    BY <2>1, RowKnown, VectorUnread
  <2>3. /\ name \in DOMAIN SystemTypes /\ nullable \in BOOLEAN
        /\ column = TypeInfo(name, StoredAs(name, nullable)) /\ KnownCell(name, cell)
    BY <2>2 DEF KnownRow
  <2>4. /\ name \in ShapeKinds /\ cell[1] = "bytes" /\ cell[2][1] = "spatial"
        /\ x = DecodePayload(payload)
    BY <2>1, <2>3, ShapeCellRead
  <2>5. PICK own \in DOMAIN SystemTypes, maybe \in BOOLEAN :
            /\ column = TypeInfo(own, StoredAs(own, maybe))
            /\ \/ written = Foreign /\ cell \in Cells(own) \cup {<<"null">>}
               \/ /\ written \in Writes /\ own = OwnType[written.type.kind]
                  /\ Bound(written) # None
                  /\ cell \in Inserted(written, Bound(written)[1])
    <3>1. ~VectorRow
      BY <2>1, VectorUnread DEF VectorRow, IsNull
    <3> QED
      BY <3>1 DEF IInv, Stored
  <2>6. own = name
    BY <2>3, <2>5 DEF TypeInfo
  <2>7. cell = <<"bytes", <<"spatial", payload>>>> /\ LaidOut(payload)
    <3>1. CASE written = Foreign /\ cell \in Cells(name) \cup {<<"null">>}
      <4>1. cell \in {"bytes"} \X ({"spatial"} \X Payloads)
        BY <2>1, <2>4, <3>1, CellSets DEF ShapeKinds, IsNull
      <4>2. cell = <<cell[1], cell[2]>> /\ cell[2] = <<cell[2][1], cell[2][2]>>
        BY <4>1, InProduct
      <4>3. row \in Rows
        BY <3>1 DEF FromRows
      <4>4. DecodePayload(payload) # Broken
        BY <2>1, <2>4 DEF None, Broken
      <4>5. LaidOut(payload)
        BY <2>4, <4>3, <4>4 DEF RowsLaidOut
      <4> QED
        BY <2>4, <4>2, <4>5
    <3>2. CASE /\ written \in Writes /\ name = OwnType[written.type.kind]
               /\ Bound(written) # None /\ cell \in Inserted(written, Bound(written)[1])
      <4> DEFINE s == written.value[1][1]
                 g == written.value[1][2]
      <4>1. written.value # None
        BY <2>1, <3>2, NullStored DEF IsNull
      <4>2. written.type \in RustTypes /\ written.value[1] \in Values(written.type)
        BY <3>2, <4>1, Written
      <4>3. written.type.kind \in ShapeKinds
        BY <2>4, <3>2, <4>2, Kinds, IntegerKinds DEF OwnType, ShapeKinds, Moments
      <4>4. cell = <<"bytes", <<"spatial", ServerForm(EncodePayload(s, g))>>>>
        BY <3>2, <4>1, <4>3, StoredFor DEF Kept
      <4>5. s \in Int /\ g \in Geometries
        <5>1. Values(written.type) = Int \X Geometries
          BY <4>3, IntegerKinds DEF Values, ShapeKinds, RustType
        <5> QED
          BY <4>2, <5>1
      <4>6. ~NoExterior(g)
        BY <4>1, <4>3 DEF HasNoExterior
      <4> HIDE DEF s, g
      <4>7. payload = ServerForm(EncodePayload(s, g))
        BY <4>4
      <4>8. LaidOut(payload)
        BY <4>5, <4>6, <4>7 DEF LaidOut
      <4> QED
        BY <4>4, <4>7, <4>8
    <3> QED
      BY <2>5, <2>6, <3>1, <3>2
  <2>8. ServerForm(EncodePayload(x[1][1], x[1][2])) = payload
    BY <2>4, <2>7, SameLayout
  <2>9. Means(type, x[1], cell, 1)
    <3>1. cell = <<"bytes", <<"spatial", ServerForm(EncodePayload(x[1][1], x[1][2]))>>>>
      BY <2>7, <2>8
    <3> HIDE DEF type, cell, x
    <3> QED
      BY <3>1, IntegerKinds DEF Means, ShapeKinds, type
  <2> QED
    BY <2>9
<1> QED
  BY <1>1, AlwaysFromRows, PTL

=============================================================================
