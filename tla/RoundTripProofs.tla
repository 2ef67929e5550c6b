--------------------------- MODULE RoundTripProofs ---------------------------
(***************************************************************************)
(* Proofs about RoundTrip, for values and cells of any size, any widths of *)
(* the numbers and any lengths of a tick.                                  *)
(***************************************************************************)
EXTENDS RoundTrip, SpatialProofs

-----------------------------------------------------------------------------
(* Powers of two. *)

\* TwoTo as its definition says: its tables up to n agree, and it joins them.
LEMMA TwoToDefined ==
    \A n \in Nat : TwoTo[n] = IF n = 0 THEN 1 ELSE 2 * TwoTo[n - 1]
<1> DEFINE Step(f, i) == IF i = 0 THEN 1 ELSE 2 * f[i - 1]
           IsTable(f, n) == f = [i \in 0 .. n |-> Step(f, i)]
           Table(n) == CHOOSE f : IsTable(f, n)
           F == [n \in Nat |-> Table(n)[n]]
           S == {n \in Nat : \E f : IsTable(f, n)}
<1>1. 0 \in S
  <2>1. IsTable([i \in 0 .. 0 |-> 1], 0)
    OBVIOUS
  <2> QED
    BY <2>1
<1>2. ASSUME NEW n \in Nat, n \in S
      PROVE  n + 1 \in S
  <2>1. PICK f : IsTable(f, n)
    BY <1>2
  <2> DEFINE g == [i \in 0 .. n + 1 |-> IF i <= n THEN f[i] ELSE Step(f, i)]
  <2>2. ASSUME NEW i \in 0 .. n + 1
        PROVE  g[i] = Step(g, i)
    <3>1. i # 0 => g[i - 1] = f[i - 1]
      OBVIOUS
    <3>2. Step(g, i) = Step(f, i)
      BY <3>1
    <3>3. i <= n => f[i] = Step(f, i)
      BY <2>1
    <3> QED
      BY <3>2, <3>3
  <2>3. IsTable(g, n + 1)
    <3> HIDE DEF Step
    <3> QED
      BY <2>2
  <2> HIDE DEF g, IsTable
  <2>4. \E h : IsTable(h, n + 1)
    BY <2>3
  <2> QED
    BY <2>4
<1>3. ASSUME NEW n \in Nat PROVE IsTable(Table(n), n)
  <2>1. 0 \in Int /\ n \in Int
    OBVIOUS
  <2> HIDE DEF S
  <2>2. \A k \in 0 .. n - 1 : k \in S => k + 1 \in S
    BY <1>2
  <2>3. \A k \in 0 .. n : k \in S
    BY <1>1, <2>1, <2>2, Reaches
  <2>4. n \in 0 .. n
    BY <2>1
  <2>5. \E f : IsTable(f, n)
    BY <2>3, <2>4 DEF S
  <2> HIDE DEF IsTable
  <2> QED
    BY <2>5
<1> HIDE DEF Table, S
<1>4. ASSUME NEW n \in Nat
      PROVE  Table(n + 1)[n] = Table(n)[n]
  <2> DEFINE T == {i \in 0 .. n : Table(n + 1)[i] = Table(n)[i]}
  <2>1. /\ \A i \in 0 .. n : Table(n)[i] = Step(Table(n), i)
        /\ \A i \in 0 .. n + 1 : Table(n + 1)[i] = Step(Table(n + 1), i)
    <3>1. IsTable(Table(n), n) /\ IsTable(Table(n + 1), n + 1)
      BY <1>3
    <3> HIDE DEF Step
    <3> QED
      BY <3>1
  <2>2. 0 \in T
    BY <2>1
  <2>3. ASSUME NEW k \in 0 .. n - 1, k \in T PROVE k + 1 \in T
    BY <2>1, <2>3
  <2>4. 0 \in Int /\ n \in Int
    OBVIOUS
  <2> HIDE DEF T
  <2>5. \A k \in 0 .. n : k \in T
    BY <2>2, <2>3, <2>4, Reaches
  <2> QED
    BY <2>4, <2>5 DEF T
<1>5. ASSUME NEW n \in Nat
      PROVE  F[n] = Step(F, n)
  <2>1. Table(n)[n] = Step(Table(n), n)
    <3>1. IsTable(Table(n), n)
      BY <1>3
    <3> HIDE DEF Step
    <3> QED
      BY <3>1
  <2>2. ASSUME n # 0 PROVE n - 1 \in Nat /\ Table(n)[n - 1] = Table(n - 1)[n - 1]
    <3>1. n - 1 \in Nat /\ (n - 1) + 1 = n
      BY <2>2
    <3> QED
      BY <1>4, <3>1
  <2>3. F[n] = Table(n)[n] /\ (n # 0 => F[n - 1] = Table(n - 1)[n - 1])
    BY <2>2
  <2> QED
    BY <2>1, <2>2, <2>3
<1>6. F = [n \in Nat |-> Step(F, n)]
  <2> HIDE DEF Step
  <2> QED
    BY <1>5
<1>7. TwoTo = CHOOSE f : f = [n \in Nat |-> Step(f, n)]
  BY DEF TwoTo
<1> HIDE DEF F
<1>8. TwoTo = [n \in Nat |-> Step(TwoTo, n)]
  BY <1>6, <1>7
<1> HIDE DEF Step
<1>9. ASSUME NEW n \in Nat PROVE TwoTo[n] = Step(TwoTo, n)
  BY <1>8
<1> QED
  BY <1>9 DEF Step

\* Powers of two are positive, and double from one to the next.
LEMMA TwoToDoubles ==
    /\ TwoTo[0] = 1
    /\ \A n \in Nat : TwoTo[n] \in Nat \ {0} /\ TwoTo[n + 1] = 2 * TwoTo[n]
<1>1. TwoTo[0] = 1
  BY TwoToDefined
<1>2. ASSUME NEW n \in Nat PROVE TwoTo[n + 1] = 2 * TwoTo[n]
  <2>1. n + 1 \in Nat /\ n + 1 # 0 /\ (n + 1) - 1 = n
    OBVIOUS
  <2> QED
    BY <2>1, TwoToDefined
<1>3. ASSUME NEW n \in Nat PROVE TwoTo[n] \in Nat \ {0}
  <2> DEFINE S == {i \in Nat : TwoTo[i] \in Nat \ {0}}
  <2>1. 0 \in S /\ 0 \in Int /\ n \in Int
    BY <1>1
  <2>2. \A k \in 0 .. n - 1 : k \in S => k + 1 \in S
    BY <1>2
  <2> HIDE DEF S
  <2>3. \A k \in 0 .. n : k \in S
    BY <2>1, <2>2, Reaches
  <2> QED
    BY <2>1, <2>3 DEF S
<1> QED
  BY <1>1, <1>2, <1>3

\* A higher power is at least the next one.
LEMMA TwoToGrows ==
    ASSUME NEW m \in Nat, NEW n \in Nat, m < n
    PROVE  2 * TwoTo[m] <= TwoTo[n]
<1> DEFINE S == {i \in Nat : 2 * TwoTo[m] <= TwoTo[i]}
<1>1. m + 1 \in S /\ m + 1 \in Int /\ n \in Int
  BY TwoToDoubles
<1>2. \A k \in m + 1 .. n - 1 : k \in S => k + 1 \in S
  <2> SUFFICES ASSUME NEW k \in m + 1 .. n - 1, k \in S PROVE k + 1 \in S
    OBVIOUS
  <2>1. k \in Nat /\ TwoTo[k] \in Nat /\ TwoTo[m] \in Nat /\ TwoTo[k + 1] = 2 * TwoTo[k]
    BY TwoToDoubles
  <2>2. 2 * TwoTo[m] <= TwoTo[k]
    BY DEF S
  <2> QED
    BY <2>1, <2>2
<1> HIDE DEF S
<1>3. \A k \in m + 1 .. n : k \in S
  BY <1>1, <1>2, Reaches
<1>4. n \in m + 1 .. n
  OBVIOUS
<1> QED
  BY <1>3, <1>4 DEF S

-----------------------------------------------------------------------------
(* Division by a number that is not known. *)

\* A number is the quotient times the divisor and the rest.
LEMMA DivMod ==
    ASSUME NEW n \in Int, NEW d \in Nat \ {0}
    PROVE  \E q \in Int, r \in Int :
              /\ q = n \div d /\ r = n % d
              /\ n = q * d + r /\ 0 <= r /\ r < d
<1> DEFINE q == n \div d
           r == n % d
<1>1. q \in Int /\ r \in Int /\ 0 <= r /\ r < d
  OBVIOUS
<1>2. q = n \div d /\ r = n % d
  OBVIOUS
<1> HIDE DEF q, r
<1>3. n = q * d + r
  BY <1>1, <1>2
<1> QED
  BY <1>1, <1>2, <1>3

\* There is one way to write it so.
LEMMA SmallProduct ==
    ASSUME NEW d \in Nat \ {0}, NEW a \in Int, NEW b \in Int, NEW r \in Int, NEW s \in Int,
           0 <= r, r < d, 0 <= s, s < d, a * d + r = b * d + s
    PROVE  a = b
<1>1. CASE a < b
  <2>1. b - a >= 1 /\ (b - a) * d = r - s
    BY <1>1
  <2>2. (b - a) * d >= d
    BY <2>1
  <2> QED
    BY <2>1, <2>2
<1>2. CASE b < a
  <2>1. a - b >= 1 /\ (a - b) * d = s - r
    BY <1>2
  <2>2. (a - b) * d >= d
    BY <2>1
  <2> QED
    BY <2>1, <2>2
<1> QED
  BY <1>1, <1>2

\* So whoever writes it so has its quotient and its rest.
LEMMA Divided ==
    ASSUME NEW n \in Int, NEW d \in Nat \ {0}, NEW q \in Int, NEW r \in Int, 0 <= r, r < d,
           n = q * d + r
    PROVE  n \div d = q /\ n % d = r
<1>1. PICK p \in Int, s \in Int :
          p = n \div d /\ s = n % d /\ n = p * d + s /\ 0 <= s /\ s < d
  BY DivMod
<1>2. p = q
  BY <1>1, SmallProduct
<1> QED
  BY <1>1, <1>2

LEMMA Below ==
    ASSUME NEW n \in Int, NEW d \in Nat \ {0}, NEW k \in Int
    PROVE  n < k * d <=> n \div d < k
<1>1. PICK q \in Int, r \in Int :
          q = n \div d /\ r = n % d /\ n = q * d + r /\ 0 <= r /\ r < d
  BY DivMod
<1>2. CASE q < k
  <2>1. k - q >= 1
    BY <1>1, <1>2
  <2>2. (k - q) * d >= d
    BY <1>1, <2>1
  <2>3. k * d = (k - q) * d + q * d
    BY <1>1
  <2> QED
    BY <1>1, <1>2, <2>2, <2>3
<1>3. CASE q >= k
  <2>1. q - k >= 0
    BY <1>1, <1>3
  <2>2. (q - k) * d >= 0
    BY <1>1, <2>1
  <2>3. q * d = (q - k) * d + k * d
    BY <1>1
  <2> QED
    BY <1>1, <1>3, <2>2, <2>3
<1> QED
  BY <1>1, <1>2, <1>3

-----------------------------------------------------------------------------
(* The calendar. *)

LEMMA SplitEra ==
    ASSUME NEW y \in Int, NEW r, r = y - (y \div 400) * 400
    PROVE  /\ y \div 400 \in Int /\ r \in 0 .. 399
           /\ y = 400 * (y \div 400) + r
           /\ y \div 100 = 4 * (y \div 400) + r \div 100
           /\ y \div 4 = 100 * (y \div 400) + r \div 4
OBVIOUS

LEMMA LeapYears ==
    ASSUME NEW y \in Int
    PROVE  y \div 4 - y \div 100 + y \div 400
               = (y - 1) \div 4 - (y - 1) \div 100 + (y - 1) \div 400
                 + (IF Leap(y) THEN 1 ELSE 0)
<1>1. /\ y \div 4 = (y - 1) \div 4 + (IF y % 4 = 0 THEN 1 ELSE 0)
      /\ y \div 100 = (y - 1) \div 100 + (IF y % 100 = 0 THEN 1 ELSE 0)
      /\ y \div 400 = (y - 1) \div 400 + (IF y % 400 = 0 THEN 1 ELSE 0)
  OBVIOUS
<1>2. /\ y % 100 = 0 => y % 4 = 0
      /\ y % 400 = 0 => y % 100 = 0
  OBVIOUS
<1> QED
  BY <1>1, <1>2 DEF Leap

\* The length of the months before, in years that begin in March.
MonthShift(month) == IF month > 2 THEN month - 3 ELSE month + 9

Before(month) == <<0, 31, 59, 90, 120, 151, 181, 212, 243, 273, 304, 334>>[month]

LEMMA MonthsBefore ==
    ASSUME NEW m \in 1 .. 12
    PROVE  (153 * MonthShift(m) + 2) \div 5
               = (IF m > 2 THEN Before(m) - 59 ELSE Before(m) + 306)
           /\ Before(m) \in Nat
BY DEF MonthShift, Before

LEMMA CalendarAgrees ==
    ASSUME NEW date \in CivilDate
    PROVE  UnixDaysFromDate(date) + Epoch = CalendarDay(date)
<1> DEFINE year == date.year
           month == date.month
           ay == IF month <= 2 THEN year - 1 ELSE year
           r == ay - (ay \div 400) * 400
           shift == MonthShift(month)
           doy == (153 * shift + 2) \div 5 + date.day - 1
           doe == r * 365 + r \div 4 - r \div 100 + doy
<1>1. year \in Int /\ month \in 1 .. 12 /\ date.day \in 1 .. 31
  BY DEF CivilDate
<1>2. UnixDaysFromDate(date) = (ay \div 400) * 146097 + doe - 719468
  BY DEF UnixDaysFromDate, MonthShift
<1>3. CalendarDay(date) = 365 * (year - 1) + (year - 1) \div 4 - (year - 1) \div 100 + (year - 1) \div 400
          + Before(month) + date.day - 1 + (IF Leap(year) /\ month > 2 THEN 1 ELSE 0)
  BY DEF CalendarDay, Before
<1>4. (153 * shift + 2) \div 5 = (IF month > 2 THEN Before(month) - 59 ELSE Before(month) + 306)
      /\ Before(month) \in Nat
  BY <1>1, MonthsBefore
<1> HIDE DEF year, month, shift
<1>5. ay \in Int /\ r = ay - (ay \div 400) * 400
  BY <1>1
<1>10. ay = IF month <= 2 THEN year - 1 ELSE year
  OBVIOUS
<1> HIDE DEF r, ay
<1>6. /\ r \in 0 .. 399 /\ ay \div 400 \in Int
      /\ ay = 400 * (ay \div 400) + r
      /\ ay \div 100 = 4 * (ay \div 400) + r \div 100
      /\ ay \div 4 = 100 * (ay \div 400) + r \div 4
  BY <1>5
<1>7. UnixDaysFromDate(date) + Epoch
          = 365 * ay + ay \div 4 - ay \div 100 + ay \div 400 + doy - 306
  BY <1>1, <1>2, <1>4, <1>5, <1>6 DEF Epoch
<1>8. CASE month <= 2
  BY <1>1, <1>3, <1>4, <1>7, <1>8, <1>10
<1>9. CASE month > 2
  <2>1. ay = year /\ 365 * (year - 1) = 365 * year - 365
    BY <1>1, <1>9, <1>10
  <2>2. year \div 4 - year \div 100 + year \div 400
            = (year - 1) \div 4 - (year - 1) \div 100 + (year - 1) \div 400
              + (IF Leap(year) THEN 1 ELSE 0)
    BY <1>1, LeapYears
  <2> QED
    BY <1>1, <1>3, <1>4, <1>7, <1>9, <2>1, <2>2
<1> QED
  BY <1>1, <1>8, <1>9

\* The year of an era is found again from its day, the last day of a leap
\* year, century and era included.
YearsOfEra == 0 .. 399
DaysOfYear == 0 .. 365
Shifts == 0 .. 11

EraDay(r, doy, doe) ==
    /\ doe = 365 * r + r \div 4 - r \div 100 + doy
    /\ doy = 365 => r % 4 = 3 /\ (r % 100 # 99 \/ r = 399)

LEMMA YearFound ==
    ASSUME NEW r \in YearsOfEra, NEW doy \in DaysOfYear, NEW doe \in Int, EraDay(r, doy, doe)
    PROVE  0 <= doe /\ doe <= 146096 /\ YearOfEra(doe) = r
<1> DEFINE c == r \div 100
           q == (r % 100) \div 4
           y == r % 4
<1>7. r \in 0 .. 399 /\ doy \in 0 .. 365
  BY DEF YearsOfEra, DaysOfYear
<1>1. c \in 0 .. 3 /\ q \in 0 .. 24 /\ y \in 0 .. 3
  BY <1>7
<1>2. r = 100 * c + 4 * q + y /\ r \div 4 = 25 * c + q /\ r \div 100 = c
  BY <1>7
<1>3. doy = 365 => y = 3 /\ (q # 24 \/ c = 3)
  BY <1>7 DEF EraDay
<1>4. doe = 36524 * c + 1461 * q + 365 * y + doy
  BY <1>1, <1>2, <1>7 DEF EraDay
<1> HIDE DEF c, q, y
<1>5. CASE c = 3 /\ q = 24 /\ y = 3 /\ doy = 365
  <2>1. r = 399 /\ doe = 146096
    BY <1>2, <1>4, <1>5, <1>7
  <2>2. YearOfEra(146096) = 399
    BY DEF YearOfEra
  <2>3. 0 <= doe /\ doe <= 146096
    BY <2>1
  <2>4. YearOfEra(doe) = r
    BY <2>1, <2>2
  <2> QED
    BY <2>3, <2>4
<1>6. CASE ~(c = 3 /\ q = 24 /\ y = 3 /\ doy = 365)
  <2> DEFINE rest == 1461 * q + 365 * y + doy
             more == 24 * c + q + 365 * y + doy
  <2>1. 0 <= rest /\ rest <= 36523
    <3>1. CASE q = 24
      BY <1>1, <1>7, <1>3, <1>6, <3>1
    <3>2. CASE q # 24
      BY <1>1, <1>7, <3>2
    <3> QED
      BY <3>1, <3>2
  <2>2. rest \in Int /\ more \in Int /\ doe = 36524 * c + rest /\ doe = 1460 * (25 * c + q) + more
    BY <1>1, <1>7, <1>4
  <2>3. 0 <= more /\ more <= 2919 /\ (doy = 0 => more < 1460) /\ (doy = 365 => more >= 1460)
    BY <1>1, <1>7, <1>3
  <2>5. doe = 365 * r + doy + 24 * c + q
    BY <1>1, <1>7, <1>2, <1>4
  <2> HIDE DEF rest, more
  <2>6. doe \in Int /\ 0 <= doe /\ doe <= 146095
    BY <1>1, <1>7, <2>1, <2>2
  <2>7. doe \div 36524 = c /\ doe \div 146096 = 0
    BY <1>1, <1>7, <2>1, <2>2
  <2>8. CASE more < 1460
    <3>1. doe \div 1460 = 25 * c + q
      BY <1>1, <1>7, <2>2, <2>3, <2>8
    <3>2. doe - doe \div 1460 + doe \div 36524 - doe \div 146096 = 365 * r + doy
      BY <1>1, <1>7, <2>5, <2>7, <3>1
    <3>3. 0 <= doy /\ doy <= 364
      BY <1>7, <2>2, <2>3, <2>8
    <3>4. (365 * r + doy) \div 365 = r
      BY <1>7, <3>3
    <3>5. YearOfEra(doe) = r
      BY <3>2, <3>4 DEF YearOfEra
    <3> QED
      BY <2>6, <3>5
  <2>9. CASE more >= 1460
    <3>1. doe \div 1460 = 25 * c + q + 1
      BY <1>1, <1>7, <2>2, <2>3, <2>9
    <3>2. doe - doe \div 1460 + doe \div 36524 - doe \div 146096 = 365 * r + (doy - 1)
      BY <1>1, <1>7, <2>5, <2>7, <3>1
    <3>3. 0 <= doy - 1 /\ doy - 1 <= 364
      BY <1>7, <2>2, <2>3, <2>9
    <3>4. (365 * r + (doy - 1)) \div 365 = r
      BY <1>7, <3>3
    <3>5. YearOfEra(doe) = r
      BY <3>2, <3>4 DEF YearOfEra
    <3> QED
      BY <2>6, <3>5
  <2> QED
    BY <2>2, <2>8, <2>9
<1> QED
  BY <1>5, <1>6

\* So are the month and the day of the month.
LEMMA MonthFound ==
    ASSUME NEW s \in 0 .. 11, NEW k \in 0 .. 30,
           (153 * s + 2) \div 5 + k < (153 * (s + 1) + 2) \div 5
    PROVE  (5 * ((153 * s + 2) \div 5 + k) + 2) \div 153 = s
OBVIOUS

\* The last day of a month is the one before the next month begins.
LEMMA MonthLengths ==
    ASSUME NEW year \in Int, NEW m \in 1 .. 12
    PROVE  /\ MonthShift(m) \in 0 .. 11 /\ DaysIn(year, m) \in 28 .. 31
           /\ m # 2 => (153 * MonthShift(m) + 2) \div 5 + DaysIn(year, m)
                           = (153 * (MonthShift(m) + 1) + 2) \div 5
           /\ m = 2 => (153 * MonthShift(m) + 2) \div 5 = 337
           /\ m = IF MonthShift(m) < 10 THEN MonthShift(m) + 3 ELSE MonthShift(m) - 9
BY DEF MonthShift, DaysIn

YearDay(month, day) == (153 * MonthShift(month) + 2) \div 5 + day - 1

InYear(year, month, day, shift, doy) ==
    /\ doy \in DaysOfYear /\ shift \in Shifts
    /\ doy = 365 => month = 2 /\ Leap(year)
    /\ (5 * doy + 2) \div 153 = shift
    /\ day = doy - (153 * shift + 2) \div 5 + 1
    /\ month = IF shift < 10 THEN shift + 3 ELSE shift - 9

LEMMA DayOfYear ==
    ASSUME NEW year \in Int, NEW month \in 1 .. 12, NEW day \in 1 .. 31, day <= DaysIn(year, month)
    PROVE  InYear(year, month, day, MonthShift(month), YearDay(month, day))
<1> DEFINE shift == MonthShift(month)
           doy == YearDay(month, day)
<1>0. shift \in 0 .. 11 /\ doy = (153 * shift + 2) \div 5 + day - 1
  BY DEF MonthShift, YearDay
<1>10. shift = MonthShift(month) /\ doy = YearDay(month, day)
  OBVIOUS
<1> HIDE DEF shift, doy
<1>11. doy \in Int /\ day = doy - (153 * shift + 2) \div 5 + 1
  BY <1>0
<1>1. shift \in 0 .. 11 /\ month = IF shift < 10 THEN shift + 3 ELSE shift - 9
  BY <1>10 DEF MonthShift
<1>2. month = 2 <=> shift = 11
  BY <1>1
<1> DEFINE k == day - 1
<1>3. k \in 0 .. 30 /\ doy = (153 * shift + 2) \div 5 + k
  BY <1>0
<1>4. ASSUME month = 2
      PROVE  /\ doy \in 0 .. 365
             /\ doy = 365 => month = 2 /\ Leap(year)
             /\ (5 * doy + 2) \div 153 = shift
  <2>1. shift = 11 /\ (153 * shift + 2) \div 5 = 337 /\ (153 * (shift + 1) + 2) \div 5 = 367
    BY <1>2, <1>4
  <2>2. day <= (IF Leap(year) THEN 29 ELSE 28)
    BY <1>4 DEF DaysIn
  <2>3. day <= 29 /\ (day = 29 => Leap(year))
    BY <2>2
  <2>4. doy = 337 + day - 1
    BY <1>0, <2>1
  <2>5. (5 * doy + 2) \div 153 = shift
    <3> HIDE DEF k
    <3> QED
      BY <1>1, <1>3, <2>1, <2>3, <2>4, MonthFound
  <2> QED
    BY <1>1, <1>4, <2>3, <2>4, <2>5
<1>5. ASSUME month # 2
      PROVE  /\ doy \in 0 .. 365
             /\ doy = 365 => month = 2 /\ Leap(year)
             /\ (5 * doy + 2) \div 153 = shift
  <2>1. DaysIn(year, month) \in Int
        /\ (153 * shift + 2) \div 5 + DaysIn(year, month) = (153 * (shift + 1) + 2) \div 5
    BY <1>5, <1>10, MonthLengths
  <2>2. shift \in 0 .. 10
    BY <1>1, <1>2, <1>5
  <2> DEFINE low == (153 * shift + 2) \div 5
             high == (153 * (shift + 1) + 2) \div 5
  <2>3. low \in Int /\ high \in Int /\ 0 <= low /\ high <= 337
    <3>1. \A s \in 0 .. 10 : 0 <= (153 * s + 2) \div 5
      OBVIOUS
    <3>2. \A s \in 0 .. 10 : (153 * (s + 1) + 2) \div 5 <= 337
      OBVIOUS
    <3> QED
      BY <2>2, <3>1, <3>2
  <2>4. (153 * shift + 2) \div 5 + k < (153 * (shift + 1) + 2) \div 5
    BY <2>1, <2>3
  <2>5. doy < 337 /\ doy >= 0
    <3>1. low + k < high /\ doy = low + k
      BY <1>3, <2>4
    <3> HIDE DEF low, high, k
    <3> QED
      BY <1>3, <2>3, <3>1
  <2>6. (5 * doy + 2) \div 153 = shift
    <3>1. shift \in 0 .. 11
      BY <2>2
    <3> HIDE DEF k
    <3>2. (5 * ((153 * shift + 2) \div 5 + k) + 2) \div 153 = shift
      BY <1>3, <2>4, <3>1, MonthFound
    <3> QED
      BY <1>3, <3>2
  <2>7. doy \in 0 .. 365 /\ doy # 365
    BY <1>11, <2>5
  <2> QED
    BY <2>6, <2>7
<1>6. /\ doy \in 0 .. 365
      /\ doy = 365 => month = 2 /\ Leap(year)
      /\ (5 * doy + 2) \div 153 = shift
  BY <1>4, <1>5
<1> QED
  BY <1>1, <1>6, <1>11 DEF shift, doy, InYear, DaysOfYear, Shifts

\* The parts the driver makes of a date.
Parts(date, era, r, doy, doe, shift) ==
    /\ UnixDaysFromDate(date) + 719468 = era * 146097 + doe
    /\ EraDay(r, doy, doe)
    /\ date.year = 400 * era + r + (IF date.month <= 2 THEN 1 ELSE 0)
    /\ date.month = IF shift < 10 THEN shift + 3 ELSE shift - 9
    /\ date.day = doy - (153 * shift + 2) \div 5 + 1
    /\ (5 * doy + 2) \div 153 = shift
HasParts(date) ==
    \E era \in Int, r \in YearsOfEra, doy \in DaysOfYear, doe \in Int, shift \in Shifts :
        Parts(date, era, r, doy, doe, shift)

LEMMA DateParts ==
    ASSUME NEW date \in CivilDate
    PROVE  HasParts(date)
<1> DEFINE year == date.year
           month == date.month
           day == date.day
           ay == IF month <= 2 THEN year - 1 ELSE year
           era == ay \div 400
           r == ay - era * 400
           shift == MonthShift(month)
           doy == YearDay(month, day)
<1>1. year \in Int /\ month \in 1 .. 12 /\ day \in 1 .. 31
  BY DEF CivilDate
<1>2. day <= DaysIn(year, month)
  BY DEF CivilDate
<1>3. UnixDaysFromDate(date) = era * 146097 + (365 * r + r \div 4 - r \div 100 + doy) - 719468
  BY <1>1 DEF UnixDaysFromDate, MonthShift, YearDay
<1> HIDE DEF year, month, day
<1>4. /\ doy \in 0 .. 365
      /\ doy = 365 => month = 2 /\ Leap(year)
      /\ (5 * doy + 2) \div 153 = shift
      /\ day = doy - (153 * shift + 2) \div 5 + 1
      /\ shift \in 0 .. 11
      /\ month = IF shift < 10 THEN shift + 3 ELSE shift - 9
  <2>1. InYear(year, month, day, shift, doy)
    BY <1>1, <1>2, DayOfYear
  <2> HIDE DEF doy, shift
  <2> QED
    BY <2>1 DEF InYear, DaysOfYear, Shifts
<1> HIDE DEF doy, shift
<1>6. ay \in Int /\ year = ay + (IF month <= 2 THEN 1 ELSE 0) /\ (month = 2 => ay = year - 1)
  BY <1>1
<1> HIDE DEF ay
<1>7. era \in Int /\ r \in 0 .. 399 /\ ay = 400 * era + r
  BY <1>6
<1> HIDE DEF era, r
<1>8. ASSUME doy = 365 PROVE r % 4 = 3 /\ (r % 100 # 99 \/ r = 399)
  <2>1. year = 400 * era + r + 1
    BY <1>1, <1>4, <1>6, <1>7, <1>8
  <2>2. year % 4 = 0 /\ (year % 100 # 0 \/ year % 400 = 0)
    BY <1>4, <1>8 DEF Leap
  <2> QED
    BY <1>1, <1>7, <2>1, <2>2
<1> DEFINE doe == 365 * r + r \div 4 - r \div 100 + doy
<1>9. UnixDaysFromDate(date) + 719468 = era * 146097 + doe /\ doe \in Int
  BY <1>3, <1>4, <1>7
<1>10. year = 400 * era + r + (IF month <= 2 THEN 1 ELSE 0)
  BY <1>6, <1>7
<1>11. EraDay(r, doy, doe)
  BY <1>8 DEF EraDay
<1> HIDE DEF doe
<1>12. Parts(date, era, r, doy, doe, shift)
  BY <1>4, <1>9, <1>10, <1>11 DEF Parts, year, month, day
<1>13. era \in Int /\ r \in YearsOfEra /\ doy \in DaysOfYear /\ doe \in Int /\ shift \in Shifts
  BY <1>4, <1>7, <1>9 DEF YearsOfEra, DaysOfYear, Shifts
<1> QED
  BY <1>12, <1>13 DEF HasParts

\* A date within the years the crate has comes back from its day number.
FromMonth(era, r, doy, shift) ==
    LET month == IF shift < 10 THEN shift + 3 ELSE shift - 9
        year == r + era * 400 + (IF month <= 2 THEN 1 ELSE 0)
    IN  IF year > 9999 THEN None
        ELSE Some([year |-> year, month |-> month, day |-> doy - (153 * shift + 2) \div 5 + 1])
FromDay(era, r, doy) == FromMonth(era, r, doy, (5 * doy + 2) \div 153)
FromYear(era, doe, r) == FromDay(era, r, doe - (365 * r + r \div 4 - r \div 100))
FromEra(shifted, era) ==
    FromYear(era, shifted - era * 146097, YearOfEra(shifted - era * 146097))

LEMMA DateFound ==
    ASSUME NEW date \in CivilDate
    PROVE  DateFromUnixDays(UnixDaysFromDate(date))
               = IF date.year > 9999 THEN None ELSE Some(date)
<1>1. PICK era \in Int, r \in YearsOfEra, doy \in DaysOfYear, doe \in Int, shift \in Shifts :
          Parts(date, era, r, doy, doe, shift)
  BY DateParts DEF HasParts
<1> DEFINE shifted == UnixDaysFromDate(date) + 719468
<1>16. r \in 0 .. 399 /\ doy \in 0 .. 365 /\ shift \in 0 .. 11
  BY DEF YearsOfEra, DaysOfYear, Shifts
<1>2. shifted = era * 146097 + doe
  BY <1>1 DEF Parts
<1>15. EraDay(r, doy, doe)
  BY <1>1 DEF Parts
<1> HIDE DEF shifted
<1>3. 0 <= doe /\ doe <= 146096 /\ YearOfEra(doe) = r
  BY <1>15, YearFound
<1>4. DateFromUnixDays(UnixDaysFromDate(date)) = FromEra(shifted, shifted \div 146097)
  BY DEF DateFromUnixDays, FromEra, FromYear, FromDay, FromMonth, shifted
<1>5. shifted \div 146097 = era /\ shifted - era * 146097 = doe
  BY <1>2, <1>3
<1>6. doe - (365 * r + r \div 4 - r \div 100) = doy
  BY <1>15, <1>16 DEF EraDay
<1>7. (5 * doy + 2) \div 153 = shift
  BY <1>1 DEF Parts
<1>8. FromEra(shifted, era) = FromYear(era, doe, r)
  BY <1>3, <1>5 DEF FromEra
<1>9. FromYear(era, doe, r) = FromMonth(era, r, doy, shift)
  BY <1>6, <1>7 DEF FromYear, FromDay
<1>10. DateFromUnixDays(UnixDaysFromDate(date)) = FromMonth(era, r, doy, shift)
  BY <1>4, <1>5, <1>8, <1>9
<1>11. /\ date.month = IF shift < 10 THEN shift + 3 ELSE shift - 9
       /\ date.day = doy - (153 * shift + 2) \div 5 + 1
       /\ date.year = 400 * era + r + (IF date.month <= 2 THEN 1 ELSE 0)
  BY <1>1 DEF Parts
<1>12. 400 * era + r + (IF date.month <= 2 THEN 1 ELSE 0) = r + era * 400 + (IF date.month <= 2 THEN 1 ELSE 0)
  BY <1>16
<1>13. date = [year |-> date.year, month |-> date.month, day |-> date.day]
  BY DEF CivilDate
<1>14. FromMonth(era, r, doy, shift)
           = IF date.year > 9999 THEN None
             ELSE Some([year |-> date.year, month |-> date.month, day |-> date.day])
  BY <1>11, <1>12 DEF FromMonth
<1> QED
  BY <1>10, <1>13, <1>14

\* The day after a date is the next number.
LEMMA NextDay ==
    ASSUME NEW date \in CivilDate
    PROVE  \E next \in CivilDate :
              CalendarDay(next) = CalendarDay(date) + 1
<1> DEFINE year == date.year
           month == date.month
           day == date.day
           Until(y) == 365 * (y - 1) + (y - 1) \div 4 - (y - 1) \div 100 + (y - 1) \div 400
<1>1. year \in Int /\ month \in 1 .. 12 /\ day \in 1 .. 31 /\ day <= DaysIn(year, month)
  BY DEF CivilDate
<1>2. ASSUME NEW d \in CivilDate
      PROVE  CalendarDay(d) = Until(d.year) + Before(d.month) + d.day - 1
                                  + (IF Leap(d.year) /\ d.month > 2 THEN 1 ELSE 0)
  BY DEF CalendarDay, Before
<1> DEFINE Made(y, m, d) == [year |-> y, month |-> m, day |-> d]
<1>3. ASSUME NEW y \in Int, NEW m \in 1 .. 12, NEW d \in 1 .. 31, d <= DaysIn(y, m)
      PROVE  /\ Made(y, m, d) \in CivilDate
             /\ CalendarDay(Made(y, m, d))
                    = Until(y) + Before(m) + d - 1 + (IF Leap(y) /\ m > 2 THEN 1 ELSE 0)
  <2>1. Made(y, m, d) \in CivilDate
    BY <1>3 DEF CivilDate
  <2> QED
    BY <1>2, <2>1
<1>4. CalendarDay(date) = Until(year) + Before(month) + day - 1
                              + (IF Leap(year) /\ month > 2 THEN 1 ELSE 0)
  BY <1>2
<1> HIDE DEF year, month, day
<1>5. Until(year) \in Int
  BY <1>1
<1>6. Until(year + 1) = Until(year) + 365 + (IF Leap(year) THEN 1 ELSE 0)
  <2>1. (year + 1) - 1 = year
    BY <1>1
  <2>2. year \div 4 - year \div 100 + year \div 400
            = (year - 1) \div 4 - (year - 1) \div 100 + (year - 1) \div 400
              + (IF Leap(year) THEN 1 ELSE 0)
    BY <1>1, LeapYears
  <2> QED
    BY <1>1, <2>1, <2>2
<1> HIDE DEF Until, Made
<1>7. Before(month) \in Nat
  BY <1>1, MonthsBefore
<1>8. CASE day < DaysIn(year, month)
  <2>1. day + 1 \in 1 .. 31 /\ day + 1 <= DaysIn(year, month)
    BY <1>1, <1>8, MonthLengths
  <2>2. Made(year, month, day + 1) \in CivilDate
    BY <1>1, <1>3, <2>1
  <2>3. CalendarDay(Made(year, month, day + 1))
            = Until(year) + Before(month) + (day + 1) - 1
                  + (IF Leap(year) /\ month > 2 THEN 1 ELSE 0)
    BY <1>1, <1>3, <2>1
  <2>4. CalendarDay(Made(year, month, day + 1)) = CalendarDay(date) + 1
    BY <1>1, <1>4, <1>5, <1>7, <2>3
  <2> QED
    BY <2>2, <2>4
<1>9. CASE day = DaysIn(year, month) /\ month # 12
  <2>1. month + 1 \in 1 .. 12 /\ 1 \in 1 .. 31 /\ 1 <= DaysIn(year, month + 1)
    BY <1>1, <1>9, MonthLengths
  <2>2. Before(month + 1) + (IF Leap(year) /\ month + 1 > 2 THEN 1 ELSE 0)
            = Before(month) + DaysIn(year, month) + (IF Leap(year) /\ month > 2 THEN 1 ELSE 0)
    BY <1>1, <1>9 DEF Before, DaysIn
  <2>3. Made(year, month + 1, 1) \in CivilDate
    BY <1>1, <1>3, <2>1
  <2>4. CalendarDay(Made(year, month + 1, 1))
            = Until(year) + Before(month + 1) + 1 - 1
                  + (IF Leap(year) /\ month + 1 > 2 THEN 1 ELSE 0)
    BY <1>1, <1>3, <2>1
  <2>5. Before(month + 1) \in Nat
    BY <2>1, MonthsBefore
  <2>6. CalendarDay(Made(year, month + 1, 1)) = CalendarDay(date) + 1
    BY <1>1, <1>4, <1>5, <1>7, <1>9, <2>2, <2>4, <2>5
  <2> QED
    BY <2>3, <2>6
<1>10. CASE day = DaysIn(year, month) /\ month = 12
  <2>1. 1 \in 1 .. 12 /\ 1 \in 1 .. 31 /\ 1 <= DaysIn(year + 1, 1) /\ year + 1 \in Int
    BY <1>1, MonthLengths
  <2>2. Before(1) = 0 /\ Before(12) = 334 /\ DaysIn(year, 12) = 31
    BY DEF Before, DaysIn
  <2>3. Made(year + 1, 1, 1) \in CivilDate
    BY <1>3, <2>1
  <2>4. CalendarDay(Made(year + 1, 1, 1)) = Until(year + 1)
    <3>1. CalendarDay(Made(year + 1, 1, 1))
              = Until(year + 1) + Before(1) + 1 - 1 + (IF Leap(year + 1) /\ 1 > 2 THEN 1 ELSE 0)
      BY <1>3, <2>1
    <3> QED
      BY <1>5, <1>6, <2>2, <3>1
  <2>5. CalendarDay(Made(year + 1, 1, 1)) = CalendarDay(date) + 1
    BY <1>1, <1>4, <1>5, <1>6, <1>10, <2>2, <2>4
  <2> QED
    BY <2>3, <2>5
<1>11. DaysIn(year, month) \in Int
  BY <1>1, MonthLengths
<1> QED
  BY <1>1, <1>8, <1>9, <1>10, <1>11

\* Every day from the first one on is a date's.
LEMMA EveryDay ==
    ASSUME NEW day \in Nat
    PROVE  \E date \in CivilDate : CalendarDay(date) = day
<1> DEFINE first == [year |-> 1, month |-> 1, day |-> 1]
           S == {d \in Nat : \E date \in CivilDate : CalendarDay(date) = d}
<1>1. first \in CivilDate /\ CalendarDay(first) = 0
  BY DEF CivilDate, DaysIn, CalendarDay
<1>2. 0 \in S /\ 0 \in Int /\ day \in Int /\ day \in 0 .. day
  BY <1>1
<1>3. \A k \in 0 .. day - 1 : k \in S => k + 1 \in S
  BY NextDay
<1> HIDE DEF S
<1>4. \A k \in 0 .. day : k \in S
  BY <1>2, <1>3, Reaches
<1> QED
  BY <1>2, <1>4 DEF S

\* Of the days up to the last of 9999 the driver makes the calendar's dates.
THEOREM DaysRead ==
    ASSUME NEW day \in Nat, day <= MaxDay
    PROVE  \E date \in CivilDate :
              /\ JiffDateFromDays(day) = Some(date) /\ date.year <= 9999
              /\ CalendarDay(date) = day /\ JiffDaysFromDate(date) = Some(day)
<1>1. PICK date \in CivilDate : CalendarDay(date) = day
  BY EveryDay
<1>2. UnixDaysFromDate(date) + Epoch = day
  BY <1>1, CalendarAgrees
<1>3. date.year \in Int
  BY DEF CivilDate
<1>4. date.year <= 9999
  <2> SUFFICES ASSUME date.year >= 10000 PROVE FALSE
    BY <1>3
  <2> DEFINE y == date.year - 1
  <2>1. CalendarDay(date) = 365 * y + y \div 4 - y \div 100 + y \div 400
            + Before(date.month) + date.day - 1
            + (IF Leap(date.year) /\ date.month > 2 THEN 1 ELSE 0)
    BY DEF CalendarDay, Before
  <2>2. date.month \in 1 .. 12 /\ date.day \in 1 .. 31 /\ Before(date.month) \in Nat
    BY MonthsBefore DEF CivilDate
  <2>3. y \in Int /\ y >= 9999
    BY <1>3
  <2> HIDE DEF y
  <2>4. 365 * y + y \div 4 - y \div 100 + y \div 400 > MaxDay
    BY <2>3 DEF MaxDay
  <2>5. 365 * y + y \div 4 - y \div 100 + y \div 400 \in Int /\ MaxDay \in Int
    BY <2>3 DEF MaxDay
  <2> HIDE DEF Before
  <2>6. CalendarDay(date) >= 365 * y + y \div 4 - y \div 100 + y \div 400
    BY <2>1, <2>2, <2>5
  <2> QED
    BY <1>1, <2>4, <2>5, <2>6
<1>5. JiffDateFromDays(day) = Some(date)
  <2>1. UnixDaysFromDate(date) = day - Epoch
    <3>1. UnixDaysFromDate(date) \in Int
      BY DEF UnixDaysFromDate, CivilDate
    <3> QED
      BY <1>2, <3>1 DEF Epoch
  <2> QED
    BY <1>3, <1>4, <2>1, DateFound DEF JiffDateFromDays
<1>6. JiffDaysFromDate(date) = Some(day)
  BY <1>2 DEF JiffDaysFromDate, Unsigned
<1> QED
  BY <1>1, <1>4, <1>5, <1>6

-----------------------------------------------------------------------------
(* The invariant: what is known of a value at each place on its way. *)

Origin == IF at \in {"bind", "execute", "refused"} THEN written \in Writes
          ELSE written \in Writes \/ written = Foreign

Sent == at = "execute" => argument = Bound(written) /\ argument # None

\* The column and the cell others have stored, or the server for an argument.
VectorRow ==
    written = Foreign /\ row.column = VectorColumn /\ row.cell \in {VectorCell, <<"null">>}

Stored ==
    at \in {"fetch", "done"} =>
        \/ VectorRow
        \/ \E name \in DOMAIN SystemTypes, nullable \in BOOLEAN :
               /\ row.column = TypeInfo(name, StoredAs(name, nullable))
               /\ \/ written = Foreign /\ row.cell \in Cells(name) \cup {<<"null">>}
                  \/ /\ written \in Writes /\ name = OwnType[written.type.kind]
                     /\ Bound(written) # None
                     /\ row.cell \in Inserted(written, Bound(written)[1])

Refused ==
    at = "refused" => Bound(written) = None \/ Inserted(written, Bound(written)[1]) = {}

ReadAs ==
    IF at = "done"
    THEN /\ reader.type \in RustTypes \/ reader.type = RustType("std", AnyKind(row.column.tds))
         /\ reader.how \in {"checked", "unchecked", "any"}
         /\ reader.how = "any" => reader.type = RustType("std", AnyKind(row.column.tds))
         /\ result = Got(reader.type, reader.how, row.column, row.cell)
    ELSE result = Outcome("none", None)

Stages == at \in {"bind", "execute", "fetch", "done", "refused"}

IInv == Stages /\ Origin /\ Sent /\ Stored /\ Refused /\ ReadAs

\* What a program writes has a Rust type, and is one of its values or none.
LEMMA Written ==
    ASSUME NEW w \in Writes
    PROVE  /\ w.type \in RustTypes
           /\ w.value = None \/ (w.value # None /\ w.value[1] \in Values(w.type) /\ w.value = Some(w.value[1]))
           /\ w # Foreign
<1>1. w.type \in RustTypes /\ w.value \in Seq(Values(w.type)) /\ Len(w.value) <= 1
  BY WritesAssumption
<1>2. Foreign.type \notin RustTypes
  BY DEF Foreign, RustTypes, RustType, Crates, Moments, Integer, IntegerRange
<1>3. CASE w.value # None
  <2>1. Len(w.value) = 1
    <3>1. Len(w.value) \in Nat /\ Len(w.value) # 0
      BY <1>1, <1>3, EmptySeq DEF None
    <3>2. \A n \in Nat : n # 0 /\ n <= 1 => n = 1
      OBVIOUS
    <3> QED
      BY <1>1, <3>1, <3>2
  <2>2. w.value[1] \in Values(w.type) /\ w.value = <<w.value[1]>>
    BY <1>1, <2>1
  <2> QED
    BY <1>1, <1>2, <1>3, <2>2 DEF Some
<1> QED
  BY <1>1, <1>2, <1>3

\* The columns values are described as are among the system's types.
LEMMA OwnColumns ==
    ASSUME NEW type \in RustTypes
    PROVE  OwnType[type.kind] \in DOMAIN SystemTypes
BY DEF RustTypes, RustType, Crates, Moments, Integer, IntegerRange, OwnType, SystemTypes

LEMMA InitKnown == Init => IInv
<1> SUFFICES ASSUME Init PROVE IInv
  OBVIOUS
<1>1. CASE at = "bind" /\ written \in Writes /\ row = NoRow
  BY <1>1 DEF Init, IInv, Stages, Origin, Sent, Stored, Refused, ReadAs
<1>2. CASE at = "fetch" /\ written = Foreign /\ row \in Rows
  <2>1. \/ \E name \in DOMAIN SystemTypes, nullable \in BOOLEAN :
               /\ row.column = TypeInfo(name, StoredAs(name, nullable))
               /\ row.cell \in Cells(name) \cup {<<"null">>}
        \/ row.column = VectorColumn /\ row.cell \in {VectorCell, <<"null">>}
    BY <1>2, RowsAssumption
  <2>2. Stored
    BY <1>2, <2>1 DEF Stored, VectorRow
  <2> QED
    BY <1>2, <2>2 DEF Init, IInv, Stages, Origin, Sent, Refused, ReadAs
<1> QED
  BY <1>1, <1>2 DEF Init

LEMMA NextKnown == IInv /\ [Next]_vars => IInv'
<1> SUFFICES ASSUME IInv, [Next]_vars PROVE IInv'
  OBVIOUS
<1>1. Stages /\ Origin /\ Sent /\ Stored /\ Refused /\ ReadAs
  BY DEF IInv
<1>2. CASE Bind
  <2>1. argument' = Bound(written) /\ written' = written /\ result' = result
        /\ at' = IF argument' = None THEN "refused" ELSE "execute"
    BY <1>2 DEF Bind
  <2>2. Stages' /\ Origin' /\ Sent' /\ Stored'
    BY <1>1, <1>2, <2>1 DEF Bind, Stages, Origin, Sent, Stored, VectorRow, Bound
  <2>3. Refused'
    BY <2>1 DEF Refused, Bound
  <2>4. ReadAs'
    BY <1>1, <1>2, <2>1 DEF Bind, ReadAs
  <2> QED
    BY <2>2, <2>3, <2>4 DEF IInv
<1>3. CASE \E nullable \in BOOLEAN : Execute(nullable)
  <2> PICK nullable \in BOOLEAN : Execute(nullable)
    BY <1>3
  <2> DEFINE name == OwnType[written.type.kind]
             cells == Inserted(written, argument[1])
  <2>1. /\ at = "execute" /\ written' = written /\ result' = result
        /\ \/ cells = {} /\ at' = "refused"
           \/ at' = "fetch" /\ \E cell \in cells :
                 row' = [column |-> TypeInfo(name, StoredAs(name, nullable)), cell |-> cell]
    BY DEF Execute
  <2>2. written \in Writes /\ argument = Bound(written) /\ Bound(written) # None
    BY <1>1, <2>1 DEF Origin, Sent
  <2>3. name \in DOMAIN SystemTypes
    BY <2>2, Written, OwnColumns
  <2>4. Stages' /\ Origin' /\ Sent' /\ ReadAs'
    BY <1>1, <2>1, <2>2 DEF Stages, Origin, Sent, ReadAs
  <2> HIDE DEF name
  <2>5. Stored'
    <3> SUFFICES ASSUME at' = "fetch" PROVE Stored'
      BY <2>1 DEF Stored
    <3>1. PICK cell \in cells :
              row' = [column |-> TypeInfo(name, StoredAs(name, nullable)), cell |-> cell]
      BY <2>1
    <3>2. row'.column = TypeInfo(name, StoredAs(name, nullable)) /\ row'.cell = cell
      BY <3>1
    <3>3. cell \in Inserted(written, Bound(written)[1])
      BY <2>2
    <3> QED
      BY <2>1, <2>2, <2>3, <3>2, <3>3 DEF Stored, Bound, Inserted, name
  <2>6. Refused'
    BY <2>1, <2>2 DEF Refused, Bound, Inserted
  <2> QED
    BY <2>4, <2>5, <2>6 DEF IInv
<1>4. CASE \E type \in RustTypes, how \in {"checked", "unchecked"} : Get(type, how)
  <2> PICK type \in RustTypes, how \in {"checked", "unchecked"} : Get(type, how)
    BY <1>4
  <2>1. /\ at = "fetch" /\ at' = "done" /\ written' = written /\ row' = row
        /\ reader'.type = type /\ reader'.how = how
        /\ result' = Got(type, how, row.column, row.cell)
    BY DEF Get
  <2>2. Stages' /\ Origin' /\ Sent' /\ Stored' /\ Refused'
    BY <1>1, <2>1 DEF Stages, Origin, Sent, Stored, VectorRow, Refused, Bound
  <2>3. ReadAs'
    BY <2>1 DEF ReadAs, Got
  <2> QED
    BY <2>2, <2>3 DEF IInv
<1>5. CASE GetAny
  <2> DEFINE type == RustType("std", AnyKind(row.column.tds))
  <2>1. /\ at = "fetch" /\ at' = "done" /\ written' = written /\ row' = row
        /\ reader'.type = type /\ reader'.how = "any"
        /\ result' = Got(type, "any", row.column, row.cell)
    BY <1>5 DEF GetAny
  <2>2. Stages' /\ Origin' /\ Sent' /\ Stored' /\ Refused'
    BY <1>1, <2>1 DEF Stages, Origin, Sent, Stored, VectorRow, Refused, Bound
  <2>3. ReadAs'
    BY <2>1 DEF ReadAs, Got
  <2> QED
    BY <2>2, <2>3 DEF IInv
<1>6. CASE UNCHANGED vars
  BY <1>1, <1>6
     DEF vars, IInv, Stages, Origin, Sent, Stored, VectorRow, Refused, ReadAs, Bound, Inserted, Got
<1> QED
  BY <1>2, <1>3, <1>4, <1>5, <1>6 DEF Next

LEMMA AlwaysKnown == Spec => []IInv
BY InitKnown, NextKnown, PTL DEF Spec

\* What a read gives: an outcome, with a value if it is one.
LEMMA Gets ==
    ASSUME NEW type, NEW how, NEW column, NEW cell
    PROVE  LET got == Got(type, how, column, cell)
           IN  got.outcome # "none" /\ (got.outcome = "value" <=> got.value # None)
BY DEF Got, Outcome, Decoded

\* Where the program is, what it has bound and what it gets agree, whatever is
\* bound, stored and read.
THEOREM TypeCorrect == Spec => []TypeOK
<1>1. IInv => TypeOK
  <2> SUFFICES ASSUME IInv PROVE TypeOK
    OBVIOUS
  <2>1. written.type \in RustTypes \/ written = Foreign
    BY Written DEF IInv, Origin
  <2>2. at \in {"fetch", "done"} =>
            \/ row.column = VectorColumn
            \/ \E nullable \in BOOLEAN : row.column.tds = StoredAs(row.column.name, nullable)
    <3> SUFFICES ASSUME at \in {"fetch", "done"}, ~VectorRow
                 PROVE  \E nullable \in BOOLEAN : row.column.tds = StoredAs(row.column.name, nullable)
      BY DEF VectorRow
    <3>1. PICK name \in DOMAIN SystemTypes, nullable \in BOOLEAN :
              row.column = TypeInfo(name, StoredAs(name, nullable))
      BY DEF IInv, Stored
    <3>2. row.column.name = name /\ row.column.tds = StoredAs(name, nullable)
      BY <3>1 DEF TypeInfo
    <3> QED
      BY <3>2
  <2>3. at = "done" => result = Got(reader.type, reader.how, row.column, row.cell)
    BY DEF IInv, ReadAs
  <2>4. at # "done" => result.outcome = "none" /\ result.value = None
    BY DEF IInv, ReadAs, Outcome
  <2> QED
    BY <2>1, <2>2, <2>3, <2>4, Gets DEF IInv, Stages, Sent, TypeOK
<1> QED
  BY <1>1, AlwaysKnown, PTL

-----------------------------------------------------------------------------
(* The Any driver. *)

LEMMA IntegerKinds == Integer = {"i8", "i16", "i32", "i64", "u8", "u16", "u32", "u64"}
BY DEF Integer, IntegerRange

LEMMA IntegerColumns == DOMAIN SqlIntegers = {"tinyint", "smallint", "int", "bigint"}
BY DEF SqlIntegers

LEMMA Widths ==
    /\ \A n \in {8, 16, 32, 64} : Width[n] \in Nat \ {0}
    /\ Width[8] < Width[16] /\ Width[16] < Width[32] /\ Width[32] < Width[64]
BY WidthAssumption

LEMMA SignedIs ==
    ASSUME NEW n \in Nat \ {0}, NEW i
    PROVE  i \in Signed(n) <=> i \in Int /\ -TwoTo[n - 1] <= i /\ i <= TwoTo[n - 1] - 1
<1>1. n - 1 \in Nat
  OBVIOUS
<1>2. TwoTo[n - 1] \in Nat
  BY <1>1, TwoToDoubles
<1> QED
  BY <1>2 DEF Signed

LEMMA UpToIs ==
    ASSUME NEW n \in Nat, NEW i
    PROVE  i \in UpTo(n) <=> i \in Int /\ 0 <= i /\ i <= TwoTo[n] - 1
<1>1. TwoTo[n] \in Nat
  BY TwoToDoubles
<1> QED
  BY <1>1 DEF UpTo

\* A narrower integer is one of a wider type, and a byte of the next one.
LEMMA Wider ==
    ASSUME NEW m \in Nat \ {0}, NEW n \in Nat, m < n
    PROVE  /\ Signed(m) \subseteq Signed(n)
           /\ UpTo(m) \subseteq Signed(n)
<1> DEFINE a == TwoTo[m - 1]
           b == TwoTo[m]
           c == TwoTo[n - 1]
<1>1. m - 1 \in Nat /\ n - 1 \in Nat /\ m - 1 < n - 1 /\ (m = n - 1 \/ m < n - 1)
  OBVIOUS
<1>2. a \in Nat /\ b \in Nat /\ c \in Nat /\ a <= c /\ b <= c
  <2>1. a \in Nat \ {0} /\ b \in Nat \ {0} /\ c \in Nat \ {0}
    BY <1>1, TwoToDoubles
  <2>2. 2 * a <= c
    BY <1>1, TwoToGrows
  <2>3. m < n - 1 => 2 * b <= c
    BY <1>1, TwoToGrows
  <2> HIDE DEF a, b, c
  <2>4. b <= c
    BY <1>1, <2>1, <2>3 DEF b, c
  <2> QED
    BY <2>1, <2>2, <2>4
<1>3. n \in Nat \ {0}
  OBVIOUS
<1> QED
  BY <1>2, <1>3, SignedIs, UpToIs

\* A cell has the tag of its column's type, and an integer its range.
Tagged(name, cell) ==
    /\ name \in DOMAIN SqlIntegers => cell[1] = name /\ cell[2] \div One \in SqlIntegers[name]
    /\ name \in {"bit", "real", "float", "xml", "json"} => cell[1] = name
    /\ name \in {"decimal", "numeric"} => cell[1] = "decimal"
    /\ name \in {"nvarchar", "varchar", "nchar", "char", "text", "ntext"} => cell[1] = "string"
    /\ name \in {"binary", "varbinary", "image", "geometry", "geography"} => cell[1] = "bytes"
    /\ name = "uniqueidentifier" => cell[1] = "uuid"

LEMMA CellSets ==
    /\ \A name \in DOMAIN SqlIntegers : Cells(name) = {name} \X IntegerCells(name)
    /\ Cells("bit") = {"bit"} \X {0, One}
    /\ Cells("real") = {"real"} \X Float(Mantissa[32])
    /\ Cells("float") = {"float"} \X Float(Mantissa[64])
    /\ \A name \in {"money", "smallmoney"} : Cells(name) = {name} \X MoneyCells(name)
    /\ \A name \in {"decimal", "numeric"} : Cells(name) = DecimalCells
    /\ \A name \in {"nvarchar", "varchar", "nchar", "char", "text", "ntext"} :
           Cells(name) = {"string"} \X Text
    /\ \A name \in {"xml", "json"} : Cells(name) = {name} \X Text
    /\ \A name \in {"binary", "varbinary", "image"} : Cells(name) = {"bytes"} \X Blob
    /\ Cells("uniqueidentifier") = {"uuid"} \X STRING
    /\ \A name \in {"geometry", "geography"} :
           Cells(name) = {"bytes"} \X ({"spatial"} \X Payloads)
<1>1. ASSUME NEW name \in DOMAIN SqlIntegers PROVE Cells(name) = {name} \X IntegerCells(name)
  BY IntegerColumns DEF Cells
<1>2. /\ Cells("bit") = {"bit"} \X {0, One}
      /\ Cells("real") = {"real"} \X Float(Mantissa[32])
      /\ Cells("float") = {"float"} \X Float(Mantissa[64])
      /\ Cells("uniqueidentifier") = {"uuid"} \X STRING
  BY IntegerColumns DEF Cells
<1>3. ASSUME NEW name \in {"decimal", "numeric"} PROVE Cells(name) = DecimalCells
  BY IntegerColumns DEF Cells
<1>4. ASSUME NEW name \in {"nvarchar", "varchar", "nchar", "char", "text", "ntext"}
      PROVE  Cells(name) = {"string"} \X Text
  BY IntegerColumns DEF Cells
<1>5. ASSUME NEW name \in {"xml", "json"} PROVE Cells(name) = {name} \X Text
  BY IntegerColumns DEF Cells
<1>6. ASSUME NEW name \in {"binary", "varbinary", "image"} PROVE Cells(name) = {"bytes"} \X Blob
  BY IntegerColumns DEF Cells
<1>7. ASSUME NEW name \in {"geometry", "geography"}
      PROVE  Cells(name) = {"bytes"} \X ({"spatial"} \X Payloads)
  BY IntegerColumns DEF Cells
<1>8. ASSUME NEW name \in {"money", "smallmoney"} PROVE Cells(name) = {name} \X MoneyCells(name)
  BY IntegerColumns DEF Cells
<1> QED
  BY <1>1, <1>2, <1>3, <1>4, <1>5, <1>6, <1>7, <1>8

LEMMA InProduct ==
    ASSUME NEW A, NEW B, NEW c \in A \X B
    PROVE  c[1] \in A /\ c[2] \in B /\ c = <<c[1], c[2]>>
OBVIOUS

LEMMA CellsTagged ==
    ASSUME NEW name \in DOMAIN SystemTypes, NEW cell \in Cells(name)
    PROVE  Tagged(name, cell)
<1>1. ASSUME name \in DOMAIN SqlIntegers
      PROVE  cell[1] = name /\ cell[2] \div One \in SqlIntegers[name]
  <2>1. cell \in {name} \X IntegerCells(name)
    BY <1>1, CellSets
  <2>2. cell[1] \in {name} /\ cell[2] \in IntegerCells(name)
    BY <2>1, InProduct
  <2> QED
    BY <2>2 DEF IntegerCells
<1>2. ASSUME name \in {"bit", "real", "float", "xml", "json"} PROVE cell[1] = name
  BY <1>2, CellSets
<1>3. ASSUME name \in {"decimal", "numeric"} PROVE cell[1] = "decimal"
  BY <1>3, CellSets DEF DecimalCells
<1>4. ASSUME name \in {"nvarchar", "varchar", "nchar", "char", "text", "ntext"}
      PROVE  cell[1] = "string"
  BY <1>4, CellSets
<1>5. ASSUME name \in {"binary", "varbinary", "image", "geometry", "geography"}
      PROVE  cell[1] = "bytes"
  BY <1>5, CellSets
<1>6. ASSUME name = "uniqueidentifier" PROVE cell[1] = "uuid"
  BY <1>6, CellSets
<1> QED
  BY <1>1, <1>2, <1>3, <1>4, <1>5, <1>6 DEF Tagged

\* The kinds of the Rust types, and the crates of the dates and times.
LEMMA Kinds ==
    ASSUME NEW type \in RustTypes
    PROVE  /\ type.kind \in Integer \cup {"bool", "f32", "f64", "string", "bytes", "geometry",
                                          "geography", "wkb", "uuid", "decimal", "json"} \cup Moments
           /\ type.kind \in Moments => type.crate \in Crates
           /\ type.kind = "decimal" => type.crate \in {"bigdecimal", "rust_decimal"}
           /\ type = [crate |-> type.crate, kind |-> type.kind]
BY IntegerKinds DEF RustTypes, RustType, Crates, Moments

\* What the kinds encode.
Encoded(type, value, x) ==
    LET kind == type.kind
    IN  /\ kind \in Integer =>
               x = IF value \in IntegerRange.i64 THEN Some(<<"bigint", value * One>>) ELSE None
        /\ kind = "bool" => x = Some(<<"bit", IF value THEN One ELSE 0>>)
        /\ kind = "f32" => x = Some(<<"real", value>>)
        /\ kind = "f64" => x = Some(<<"float", value>>)
        /\ kind \in {"string", "json"} => x = Some(<<"nvarchar", value>>)
        /\ kind = "bytes" => x = Some(<<"varbinary", value>>)
        /\ kind = "decimal" => x = EncodeDecimal(type.crate, value)
        /\ kind = "uuid" => x = Some(<<"uniqueidentifier", value>>)
        /\ kind = "wkb" => x = Some(<<"varbinary", <<"wkb", value>>>>)
        /\ kind \in ShapeKinds =>
               x = Some(<<"varbinary", <<"spatial", EncodePayload(value[1], value[2])>>>>)
        /\ kind \in Moments => x = EncodeMoment(type, value)

LEMMA Encodes ==
    ASSUME NEW type \in RustTypes, NEW value
    PROVE  Encoded(type, value, Encode(type, value))
BY IntegerKinds DEF Encode, EncodeValue, EncodeInteger, Moments, Encoded, ShapeKinds

\* And what is stored for them, unless the statement fails.
Kept(type, value, cell) ==
    LET kind == type.kind
    IN  /\ kind \in Integer =>
               /\ cell = <<OwnType[kind], value * One>>
               /\ value \in IntegerRange.i64
               /\ (value * One) \div One \in SqlIntegers[OwnType[kind]]
        /\ kind = "bool" => cell = <<"bit", IF value THEN One ELSE 0>>
        /\ kind = "f32" => cell = <<"real", value>>
        /\ kind = "f64" => cell = <<"float", value>>
        /\ kind = "string" => cell = <<"string", value>>
        /\ kind = "json" => cell = <<"json", value>>
        /\ kind = "decimal" =>
               \E point \in BOOLEAN :
                   cell = <<"decimal", value, point>> /\ (value % One # 0 => point)
        /\ kind = "bytes" => cell = <<"bytes", value>>
        /\ kind = "wkb" => cell = <<"bytes", <<"wkb", value>>>>
        /\ kind = "uuid" => cell = <<"uuid", value>>
        /\ kind \in ShapeKinds =>
               cell = <<"bytes", <<"spatial", ServerForm(EncodePayload(value[1], value[2]))>>>>
        /\ kind \in Moments => cell = EncodeMoment(type, value)[1] /\ cell \in StoresMoment(cell)

LEMMA StoredFor ==
    ASSUME NEW w \in Writes, w.value # None, Bound(w) # None,
           NEW cell \in Inserted(w, Bound(w)[1])
    PROVE  Kept(w.type, w.value[1], cell)
<1> DEFINE type == w.type
           kind == type.kind
           value == w.value[1]
           x == Bound(w)[1]
<1>1. type \in RustTypes /\ Encode(type, value) # None
  BY Written DEF Bound
<1>2. kind \notin Moments => cell \in Stores(OwnType[kind], x[1], x[2])
  BY DEF Inserted
<1>3. kind \in Moments => cell \in StoresMoment(x)
  BY DEF Inserted
<1>4. x = Encode(type, value)[1]
  BY DEF Bound
<1> SUFFICES Kept(type, value, cell)
  OBVIOUS
<1> HIDE DEF type, value, x
<1>5. Encoded(type, value, Encode(type, value))
  BY <1>1, Encodes
<1>6. CASE kind \in Integer
  <2>1. value \in IntegerRange.i64 /\ x = <<"bigint", value * One>>
    BY <1>1, <1>4, <1>5, <1>6 DEF Encoded, Some, None
  <2>2. cell \in Only(<<OwnType[kind], x[2]>>, x[2] \div One \in SqlIntegers[OwnType[kind]])
    BY <1>2, <1>6, <2>1, IntegerKinds DEF Stores, Moments
  <2>3. cell = <<OwnType[kind], value * One>> /\ (value * One) \div One \in SqlIntegers[OwnType[kind]]
    BY <2>1, <2>2 DEF Only
  <2> QED
    BY <1>6, <2>1, <2>3, IntegerKinds DEF Kept, Moments, ShapeKinds
<1>7. CASE kind \in {"bool", "f32", "f64"}
  <2>1. /\ kind = "bool" => x = <<"bit", IF value THEN One ELSE 0>>
        /\ kind = "f32" => x = <<"real", value>>
        /\ kind = "f64" => x = <<"float", value>>
    BY <1>4, <1>5 DEF Encoded, Some
  <2>2. cell \in {<<x[1], x[2]>>}
    BY <1>2, <1>7, <2>1 DEF Stores, Moments
  <2> QED
    BY <1>7, <2>1, <2>2, IntegerKinds DEF Kept, Moments, ShapeKinds
<1>8. CASE kind \in {"string", "json", "decimal"}
  <2>1. /\ kind \in {"string", "json"} => x = <<"nvarchar", value>>
        /\ kind = "decimal" =>
               x \in {<<"nvarchar", t>> : t \in {Exponent(value), Number(value, value % One # 0)}}
    BY <1>4, <1>5 DEF Encoded, Some, ShapeKinds, EncodeDecimal
  <2>2. kind = "string" => cell = <<"string", value>>
    BY <1>2, <2>1 DEF Stores, Moments, OwnType
  <2>3. kind = "json" => cell = <<"json", value>>
    BY <1>2, <2>1 DEF Stores, Moments, OwnType, Only
  <2>4. ASSUME kind = "decimal"
        PROVE  \E point \in BOOLEAN : cell = <<"decimal", value, point>> /\ (value % One # 0 => point)
    <3>1. cell \in {<<"decimal", x[2][2], point>> :
                         point \in {p \in BOOLEAN : x[2][1] = "number" /\ (x[2][3] => p)}}
      BY <1>2, <2>1, <2>4 DEF Stores, Moments, OwnType
    <3>2. x[2][2] = value /\ x[2][3] = (value % One # 0)
      <4>1. x[2][1] = "number"
        BY <3>1
      <4>2. x[2] = Number(value, value % One # 0)
        BY <2>1, <2>4, <4>1 DEF Exponent
      <4> QED
        BY <4>2 DEF Number
    <3> QED
      BY <3>1, <3>2
  <2> QED
    BY <1>8, <2>2, <2>3, <2>4, IntegerKinds DEF Kept, Moments, ShapeKinds
<1>9. CASE kind \in {"bytes", "wkb", "uuid", "geometry", "geography"}
  <2>1. /\ kind = "bytes" => x = <<"varbinary", value>>
        /\ kind = "wkb" => x = <<"varbinary", <<"wkb", value>>>>
        /\ kind = "uuid" => x = <<"uniqueidentifier", value>>
        /\ kind \in {"geometry", "geography"} =>
               x = <<"varbinary", <<"spatial", EncodePayload(value[1], value[2])>>>>
    BY <1>4, <1>5 DEF Encoded, Some, ShapeKinds
  <2>2. kind \in {"bytes", "wkb"} => cell = <<"bytes", x[2]>>
    BY <1>2, <2>1 DEF Stores, Moments, OwnType
  <2>3. kind = "uuid" => cell = <<"uuid", value>>
    BY <1>2, <2>1 DEF Stores, Moments, OwnType
  <2>4. kind \in {"geometry", "geography"} => cell = <<"bytes", <<"spatial", ServerForm(x[2][2])>>>>
    BY <1>2, <2>1 DEF Stores, Moments, OwnType
  <2> QED
    BY <1>9, <2>1, <2>2, <2>3, <2>4, IntegerKinds DEF Kept, Moments, ShapeKinds
<1>10. CASE kind \in Moments
  <2>1. x = EncodeMoment(type, value)[1]
    BY <1>4, <1>5, <1>10 DEF Encoded
  <2>2. cell = x
    BY <1>3, <1>10 DEF StoresMoment, Only
  <2> QED
    BY <1>3, <1>10, <2>1, <2>2, IntegerKinds DEF Kept, Moments, ShapeKinds
<1> QED
  BY <1>1, <1>6, <1>7, <1>8, <1>9, <1>10, Kinds

\* What is stored for a missing value is NULL.
LEMMA NullStored ==
    ASSUME NEW w \in Writes, w.value = None, Bound(w) # None,
           NEW cell \in Inserted(w, Bound(w)[1])
    PROVE  cell = <<"null">>
<1>1. Bound(w)[1][1] = "null"
  BY DEF Bound, Some, NullLike
<1>2. cell \in Stores(OwnType[w.type.kind], "null", Bound(w)[1][2])
  BY <1>1 DEF Inserted
<1> QED
  BY <1>2 DEF Stores, Only

LEMMA StoredTagged ==
    ASSUME NEW w \in Writes, w.value # None, Bound(w) # None,
           NEW cell \in Inserted(w, Bound(w)[1])
    PROVE  Tagged(OwnType[w.type.kind], cell)
<1> DEFINE kind == w.type.kind
<1>1. Kept(w.type, w.value[1], cell) /\ w.type \in RustTypes
  BY StoredFor, Written
<1>2. CASE kind \in Integer
  <2>1. cell[1] = OwnType[kind] /\ cell[2] \div One \in SqlIntegers[OwnType[kind]]
    BY <1>1, <1>2 DEF Kept
  <2>2. OwnType[kind] \in DOMAIN SqlIntegers
    BY <1>2, IntegerKinds, IntegerColumns DEF OwnType
  <2> QED
    BY <2>1, <2>2, IntegerColumns DEF Tagged
<1>3. CASE kind \in {"bool", "f32", "f64", "json"}
  BY <1>1, <1>3, IntegerColumns DEF Kept, OwnType, Tagged
<1>4. CASE kind \in {"string", "decimal"}
  BY <1>1, <1>4, IntegerColumns DEF Kept, OwnType, Tagged
<1>5. CASE kind \in {"bytes", "wkb"} \cup ShapeKinds
  BY <1>1, <1>5, IntegerColumns DEF Kept, OwnType, Tagged, ShapeKinds
<1>6. CASE kind = "uuid"
  BY <1>1, <1>6, IntegerColumns DEF Kept, OwnType, Tagged
<1>7. CASE kind \in Moments
  BY <1>7, IntegerColumns DEF OwnType, Tagged, Moments
<1> QED
  BY <1>1, <1>2, <1>3, <1>4, <1>5, <1>6, <1>7, Kinds DEF ShapeKinds

\* The types of a column the driver has an Any kind for.
AnyColumns ==
    {"tinyint", "smallint", "int", "bigint", "bit", "real", "float", "xml", "json", "decimal",
     "numeric", "nvarchar", "varchar", "nchar", "char", "text", "ntext", "binary", "varbinary",
     "image", "geometry", "geography", "uniqueidentifier"}

\* A cell of such a column is read.
LEMMA AnyRead ==
    ASSUME NEW name \in DOMAIN SystemTypes, NEW nullable \in BOOLEAN, NEW cell,
           Tagged(name, cell),
           StoredAs(name, nullable) \notin
               {"IntN", "Money", "Money4", "MoneyN"} \cup DateTimeData
    PROVE  LET tds == StoredAs(name, nullable)
               column == TypeInfo(name, tds)
           IN  Decode(RustType("std", AnyKind(tds)), column, cell) # None
<1> DEFINE tds == StoredAs(name, nullable)
           column == TypeInfo(name, tds)
<1>1. name \in AnyColumns
  BY DEF StoredAs, SystemTypes, NullableStorage, DateTimeData, NaiveDateTime, AnyColumns
<1>2. ASSUME NEW kind \in Integer \cup {"bool", "f32", "f64", "string", "bytes"}
      PROVE  Decode(RustType("std", kind), column, cell) = DecodeValue(kind, cell)
  BY <1>2, IntegerKinds DEF Decode, RustType, Moments
<1>3. CASE name \in {"tinyint", "smallint", "int", "bigint"}
  <2>1. cell[1] = name /\ cell[2] \div One \in SqlIntegers[name]
    BY <1>3, IntegerColumns DEF Tagged
  <2>2. /\ name = "tinyint" => AnyKind(tds) = "i16"
        /\ name = "smallint" => AnyKind(tds) = "i16"
        /\ name = "int" => AnyKind(tds) = "i32"
        /\ name = "bigint" => AnyKind(tds) = "i64"
    <3>1. /\ name = "tinyint" => tds = "Int1"
          /\ name = "smallint" => tds = "Int2"
          /\ name = "int" => tds = "Int4"
          /\ name = "bigint" => tds = "Int8"
      BY <1>3 DEF StoredAs, SystemTypes, NullableStorage
    <3> HIDE DEF tds
    <3> QED
      BY <3>1 DEF AnyKind, Binary
  <2>3. SqlIntegers[name] \subseteq IntegerRange[AnyKind(tds)]
    <3>1. UpTo(Width[8]) \subseteq Signed(Width[16])
      BY Widths, Wider
    <3> QED
      BY <1>3, <2>2, <3>1 DEF SqlIntegers, IntegerRange
  <2>4. AsI64(cell) = Some(cell[2] \div One)
    BY <1>3, <2>1 DEF AsI64, Whole
  <2>5. DecodeValue(AnyKind(tds), cell) = Some(cell[2] \div One)
    <3>1. AnyKind(tds) \in Integer /\ cell[2] \div One \in IntegerRange[AnyKind(tds)]
      BY <1>3, <2>1, <2>2, <2>3, IntegerKinds
    <3>2. DecodeValue(AnyKind(tds), cell) = DecodeInteger(AnyKind(tds), cell)
      BY <3>1, IntegerKinds DEF DecodeValue
    <3> QED
      BY <2>4, <3>1, <3>2 DEF DecodeInteger, Some, None
  <2> QED
    <3>1. AnyKind(tds) \in Integer
      BY <1>3, <2>2, IntegerKinds
    <3>2. Decode(RustType("std", AnyKind(tds)), column, cell) = DecodeValue(AnyKind(tds), cell)
      BY <1>2, <3>1
    <3> QED
      BY <2>5, <3>2 DEF Some, None
<1>4. CASE name = "bit"
  <2>1. AnyKind(tds) = "bool"
    <3>1. tds \in {"Bit", "BitN"}
      BY <1>4 DEF StoredAs, SystemTypes, NullableStorage
    <3> QED
      BY <3>1 DEF AnyKind, Binary
  <2>2. AsBool(cell) # None
    <3>1. cell[1] = "bit"
      BY <1>4 DEF Tagged
    <3>2. AsBool(cell) = Some(cell[2] # 0)
      BY <3>1 DEF AsBool, Whole, TextualForm
    <3> QED
      BY <3>2 DEF Some, None
  <2> QED
    BY <1>2, <2>1, <2>2, IntegerKinds DEF DecodeValue
<1>5. CASE name \in {"real", "float"}
  <2>1. AnyKind(tds) \in {"f32", "f64"}
    <3>1. tds \in {"Flt4", "Flt8", "FltN"}
      BY <1>5 DEF StoredAs, SystemTypes, NullableStorage
    <3> QED
      BY <3>1 DEF AnyKind, Binary
  <2>2. AsF64(cell) = Some(cell[2])
    <3>1. cell[1] \in {"real", "float"}
      BY <1>5 DEF Tagged
    <3> QED
      BY <3>1 DEF AsF64, TextualForm, Whole
  <2>3. DecodeF32(cell) # None
    BY <2>2 DEF DecodeF32, Some, None
  <2> QED
    BY <1>2, <2>1, <2>2, <2>3, IntegerKinds DEF DecodeValue, Some, None
<1>6. CASE name \in {"binary", "varbinary", "image", "geometry", "geography"}
  <2>1. AnyKind(tds) = "bytes"
    BY <1>6 DEF StoredAs, SystemTypes, NullableStorage, AnyKind, Binary
  <2>2. AsBytes(cell) = Some(cell[2])
    <3>1. cell[1] = "bytes"
      BY <1>6 DEF Tagged
    <3> QED
      BY <3>1 DEF AsBytes, TextualForm
  <2> QED
    BY <1>2, <2>1, <2>2, IntegerKinds DEF DecodeValue, Some, None
<1>7. CASE name \in {"decimal", "numeric", "xml", "json", "nvarchar", "varchar", "nchar", "char", "text", "ntext"}
  <2>1. AnyKind(tds) = "string"
    BY <1>7 DEF StoredAs, SystemTypes, NullableStorage, AnyKind, Binary
  <2>2. cell[1] \in {"string", "xml", "json", "decimal"}
    BY <1>7 DEF Tagged
  <2>3. TextualForm(cell) # None
    BY <2>2 DEF TextualForm, Some, None
  <2>4. DecodeString(cell) # None
    BY <2>3 DEF DecodeString
  <2> QED
    BY <1>2, <2>1, <2>4, IntegerKinds DEF DecodeValue
<1>8. CASE name = "uniqueidentifier"
  <2>1. AnyKind(tds) = "string"
    BY <1>8 DEF StoredAs, SystemTypes, NullableStorage, AnyKind, Binary
  <2>2. cell[1] = "uuid"
    BY <1>8 DEF Tagged
  <2>3. TextualForm(cell) = None /\ AsBytes(cell) # None
    BY <2>2 DEF TextualForm, AsBytes, Some, None
  <2>4. DecodeString(cell) # None
    BY <2>3 DEF DecodeString, Some, None
  <2> QED
    BY <1>2, <2>1, <2>4, IntegerKinds DEF DecodeValue
<1> QED
  BY <1>1, <1>3, <1>4, <1>5, <1>6, <1>7, <1>8 DEF AnyColumns

\* The Any driver reads every cell of a column whose type it has a kind for, but
\* no vector, whether a program or another stored it, in columns of any width.
THEOREM AnyReads == Spec => []AnyReadsItsKinds
<1>1. IInv => AnyReadsItsKinds
  <2> SUFFICES ASSUME IInv, at = "done", reader.how = "any", result.outcome = "error",
                      row.column.tds \notin
                          {"IntN", "Money", "Money4", "MoneyN", "Vector"} \cup DateTimeData
               PROVE  FALSE
    BY DEF AnyReadsItsKinds
  <2>0. ~VectorRow
    BY DEF VectorRow, VectorColumn, TypeInfo
  <2>1. PICK name \in DOMAIN SystemTypes, nullable \in BOOLEAN :
            /\ row.column = TypeInfo(name, StoredAs(name, nullable))
            /\ \/ written = Foreign /\ row.cell \in Cells(name) \cup {<<"null">>}
               \/ /\ written \in Writes /\ name = OwnType[written.type.kind]
                  /\ Bound(written) # None
                  /\ row.cell \in Inserted(written, Bound(written)[1])
    BY <2>0 DEF IInv, Stored
  <2> DEFINE tds == StoredAs(name, nullable)
             type == RustType("std", AnyKind(tds))
  <2>2. row.column.tds = tds
    BY <2>1 DEF TypeInfo
  <2>3. result = Got(type, "any", row.column, row.cell)
    BY <2>2 DEF IInv, ReadAs
  <2>4. ~IsNull(row.cell) /\ Decode(type, row.column, row.cell) = None
    BY <2>3 DEF Got, Outcome, Decoded
  <2>5. Tagged(name, row.cell)
    <3>1. row.cell # <<"null">>
      BY <2>4 DEF IsNull
    <3>2. CASE written = Foreign /\ row.cell \in Cells(name)
      BY <3>2, CellsTagged
    <3>3. CASE written \in Writes /\ name = OwnType[written.type.kind] /\ Bound(written) # None
               /\ row.cell \in Inserted(written, Bound(written)[1])
      BY <3>1, <3>3, NullStored, StoredTagged
    <3> QED
      BY <2>1, <3>1, <3>2, <3>3
  <2> QED
    BY <2>1, <2>2, <2>4, <2>5, AnyRead
<1> QED
  BY <1>1, AlwaysKnown, PTL

-----------------------------------------------------------------------------
(* What is stored for the dates and times. *)

\* The day numbers and the times of a crate's values.
Dates(crate) == IF crate = "jiff" THEN {d \in CivilDate : d.year <= 9999} ELSE Int
Times(crate) == IF crate = "chrono" THEN LeapTime ELSE ClockTime

\* The argument for a day and a nanosecond of it.
MomentArgument(kind, day, nanos) ==
    CASE kind = "date"      -> SqlDate(Unsigned(day))
      [] kind = "time"      -> Some(<<"time", NanosToTicks(nanos)>>)
      [] kind = "datetime"  -> SqlDateTime2(Unsigned(day), Some(NanosToTicks(nanos)))
      [] kind = "timestamp" ->
            SqlDateTimeOffset(SqlDateTime2(Unsigned(day), Some(NanosToTicks(nanos))))

LEMMA Units ==
    /\ NanosPerSecond \in Nat \ {0} /\ NanosPerTick \in Nat \ {0}
    /\ NanosPerSecond = (NanosPerSecond \div NanosPerTick) * NanosPerTick
    /\ NanosPerSecond \div NanosPerTick \in Nat \ {0}
<1>1. /\ NanosPerSecond \in Nat \ {0} /\ NanosPerTick \in Nat \ {0}
      /\ NanosPerSecond % NanosPerTick = 0
  BY UnitsAssumption
<1>2. PICK q \in Int, r \in Int :
          /\ q = NanosPerSecond \div NanosPerTick /\ r = NanosPerSecond % NanosPerTick
          /\ NanosPerSecond = q * NanosPerTick + r /\ 0 <= r /\ r < NanosPerTick
  BY <1>1, DivMod
<1>3. NanosPerSecond = q * NanosPerTick
  BY <1>1, <1>2
<1>4. q > 0
  <2>1. q <= 0 => q * NanosPerTick <= 0
    BY <1>1, <1>2
  <2> QED
    BY <1>1, <1>2, <1>3, <2>1
<1> QED
  BY <1>1, <1>2, <1>3, <1>4

LEMMA SecondsKnown ==
    /\ SecondsPerDay \in Nat \ {0}
    /\ \A s : s \in 0 .. SecondsPerDay - 1 <=> s \in Int /\ 0 <= s /\ s < SecondsPerDay
<1>1. SecondsPerDay \in Nat \ {0}
  BY DEF SecondsPerDay
<1> QED
  BY <1>1

\* The hours, minutes and seconds of a number of seconds.
IsClock(n, h, m, s) ==
    /\ h \in 0 .. 23 /\ m \in 0 .. 59 /\ s \in 0 .. 59
    /\ h * 3600 + m * 60 + s = n

LEMMA SecondsOf ==
    ASSUME NEW h \in Int, NEW m \in Int, NEW s \in Int, NEW n, IsClock(n, h, m, s)
    PROVE  n \in Int /\ 0 <= n /\ n < 86400
BY DEF IsClock

LEMMA ClockExists ==
    ASSUME NEW n \in Int, 0 <= n, n < 86400
    PROVE  IsClock(n, n \div 3600, (n % 3600) \div 60, n % 60)
<1> DEFINE h == n \div 3600
           rest == n % 3600
           m == rest \div 60
           s == rest % 60
<1>1. h \in Int /\ rest \in Int /\ n = 3600 * h + rest /\ 0 <= rest /\ rest < 3600
  OBVIOUS
<1>2. h = n \div 3600 /\ m = (n % 3600) \div 60
  OBVIOUS
<1> HIDE DEF h, rest
<1>3. m \in Int /\ s \in Int /\ rest = 60 * m + s /\ 0 <= s /\ s < 60
  BY <1>1
<1>4. h \in 0 .. 23 /\ m \in 0 .. 59
  BY <1>1
<1> HIDE DEF m, s
<1>5. n = 60 * (60 * h + m) + s
  BY <1>1, <1>3
<1>6. n % 60 = s
  BY <1>1, <1>3, <1>5
<1>7. s \in 0 .. 59 /\ h * 3600 + m * 60 + s = n
  BY <1>1, <1>3
<1>8. IsClock(n, h, m, s)
  BY <1>4, <1>7 DEF IsClock
<1> QED
  BY <1>2, <1>6, <1>8

\* A second of a day and a nanosecond of it are within the day.
LEMMA WithinDay ==
    ASSUME NEW S \in Nat \ {0}, NEW N \in Nat \ {0}, NEW s \in Nat, s < S,
           NEW nano \in Nat, nano < N
    PROVE  /\ s * N + nano \in Nat /\ s * N + nano < S * N
           /\ S * N \in Nat \ {0}
<1> DEFINE a == (S - (s + 1)) * N
           b == s * N
           c == S * N
<1>1. S - (s + 1) \in Nat
  OBVIOUS
<1>2. a \in Nat /\ b \in Nat /\ c \in Nat
  BY <1>1
<1>3. c = a + b + N
  OBVIOUS
<1> HIDE DEF a, b, c
<1>4. b + nano \in Nat /\ b + nano < c /\ c # 0
  BY <1>2, <1>3
<1> QED
  BY <1>2, <1>4 DEF b, c

\* The second of a day and the nanosecond of it, and back to the clock's.
LEMMA ClockSeconds ==
    ASSUME NEW clock \in ClockTime
    PROVE  /\ SecondOfDay(clock) \in 0 .. SecondsPerDay - 1
           /\ clock.nano \in Nat /\ clock.nano < NanosPerSecond
           /\ NanosFromTime(clock) = SecondOfDay(clock) * NanosPerSecond + clock.nano
           /\ \A crate \in {"time", "jiff"} : NanosOfDay(crate, clock) = NanosFromTime(clock)
<1>1. /\ clock.hour \in 0 .. 23 /\ clock.minute \in 0 .. 59 /\ clock.second \in 0 .. 59
      /\ clock.nano \in 0 .. NanosPerSecond - 1
  BY DEF ClockTime
<1>2. (clock.hour * 60 + clock.minute) * 60 + clock.second = SecondOfDay(clock)
  BY <1>1 DEF SecondOfDay
<1>3. SecondOfDay(clock) \in Int /\ 0 <= SecondOfDay(clock) /\ SecondOfDay(clock) < SecondsPerDay
  <2> DEFINE h == clock.hour
             m == clock.minute
             t == clock.second
  <2>1. h \in 0 .. 23 /\ m \in 0 .. 59 /\ t \in 0 .. 59 /\ SecondOfDay(clock) = h * 3600 + m * 60 + t
    BY <1>1 DEF SecondOfDay
  <2> HIDE DEF h, m, t
  <2>2. h \in Int /\ m \in Int /\ t \in Int /\ IsClock(SecondOfDay(clock), h, m, t)
    BY <2>1 DEF IsClock
  <2> QED
    BY <2>2, SecondsOf DEF SecondsPerDay
<1> QED
  BY <1>1, <1>2, <1>3, Units, SecondsKnown DEF NanosFromTime, NanosOfDay

LEMMA ClockOf ==
    ASSUME NEW seconds \in 0 .. SecondsPerDay - 1, NEW nano \in Nat, nano < NanosPerSecond
    PROVE  /\ Clock(seconds, nano) \in ClockTime
           /\ SecondOfDay(Clock(seconds, nano)) = seconds
           /\ Clock(seconds, nano).nano = nano
<1>1. seconds \in Int /\ 0 <= seconds /\ seconds < 86400
  <2>1. seconds \in Int /\ 0 <= seconds /\ seconds < SecondsPerDay
    BY SecondsKnown, Zenon
  <2> QED
    BY <2>1 DEF SecondsPerDay
<1> DEFINE h == seconds \div 3600
           m == (seconds % 3600) \div 60
           s == seconds % 60
<1>2. IsClock(seconds, h, m, s)
  BY <1>1, ClockExists
<1>3. nano \in 0 .. NanosPerSecond - 1
  BY Units
<1>4. Clock(seconds, nano) = [hour |-> h, minute |-> m, second |-> s, nano |-> nano]
  BY DEF Clock
<1> HIDE DEF h, m, s
<1>5. /\ h \in 0 .. 23 /\ m \in 0 .. 59 /\ s \in 0 .. 59
      /\ h * 3600 + m * 60 + s = seconds
  BY <1>2 DEF IsClock
<1> QED
  BY <1>3, <1>4, <1>5 DEF ClockTime, SecondOfDay

\* The nanoseconds of a day are few enough for a day, but for leap seconds.
LEMMA NanosKnown ==
    ASSUME NEW crate \in Crates, NEW time \in Times(crate)
    PROVE  NanosOfDay(crate, time) \in Nat
<1>1. CASE crate = "chrono"
  <2>1. time.second \in 0 .. SecondsPerDay - 1 /\ time.nano \in 0 .. 2 * NanosPerSecond - 1
    BY <1>1 DEF Times, LeapTime
  <2>2. time.second \in Nat /\ time.nano \in Nat /\ NanosPerSecond \in Nat
    BY <2>1, Units, SecondsKnown
  <2> QED
    BY <1>1, <2>2 DEF NanosOfDay
<1>2. CASE crate # "chrono"
  <2>1. time \in ClockTime /\ crate \in {"time", "jiff"}
    BY <1>2 DEF Times, Crates
  <2>2. SecondOfDay(time) \in Nat /\ time.nano \in Nat /\ NanosPerSecond \in Nat
    BY <2>1, ClockSeconds, Units, SecondsKnown
  <2> QED
    BY <2>1, <2>2, ClockSeconds
<1> QED
  BY <1>1, <1>2

LEMMA DaysKnown ==
    ASSUME NEW crate \in Crates, NEW date \in Dates(crate)
    PROVE  DayOf(crate, date) \in Int
<1>1. CASE crate = "jiff"
  <2>1. date \in CivilDate
    BY <1>1 DEF Dates
  <2>2. UnixDaysFromDate(date) + Epoch \in Int
    <3> DEFINE year == date.year
               month == date.month
               day == date.day
    <3>1. year \in Int /\ month \in 1 .. 12 /\ day \in 1 .. 31
      BY <2>1 DEF CivilDate
    <3>2. UnixDaysFromDate(date) = UnixDaysFromDate([year |-> year, month |-> month, day |-> day])
      BY <2>1 DEF CivilDate
    <3> HIDE DEF year, month, day
    <3> QED
      BY <3>1, <3>2 DEF UnixDaysFromDate, Epoch
  <2> QED
    BY <1>1, <2>1, <2>2, CalendarAgrees DEF DayOf
<1>2. CASE crate # "jiff"
  BY <1>2 DEF Dates, DayOf
<1> QED
  BY <1>1, <1>2

\* What the values of a moment are made of.
LEMMA MomentValues ==
    ASSUME NEW type \in RustTypes, type.kind \in Moments, NEW value \in Values(type)
    PROVE  /\ type.kind = "date" => value \in Dates(type.crate)
           /\ type.kind = "time" => value \in Times(type.crate)
           /\ type.kind \in {"datetime", "timestamp"} =>
                  value.date \in Dates(type.crate) /\ value.time \in Times(type.crate)
           /\ type = RustType("time", "timestamp") => value.offset \in Int
<1>1. type.kind \notin Integer
  BY IntegerKinds DEF Moments
<1>2. ASSUME type.kind = "date" PROVE value \in Dates(type.crate)
  BY <1>1, <1>2 DEF Values, Dates, RustType
<1>3. ASSUME type.kind = "time" PROVE value \in Times(type.crate)
  BY <1>1, <1>3 DEF Values, Times, RustType
<1>4. ASSUME type.kind = "datetime"
      PROVE  value.date \in Dates(type.crate) /\ value.time \in Times(type.crate)
  BY <1>1, <1>4 DEF Values, Dates, Times, RustType
<1>5. CASE type = RustType("time", "timestamp")
  <2>1. value.date \in Dates("time") /\ value.time \in Times("time") /\ value.offset \in Int
    BY <1>1, <1>5 DEF Values, Dates, Times, RustType
  <2> QED
    BY <1>5, <2>1 DEF RustType
<1>6. CASE type = RustType("jiff", "timestamp")
  <2>1. value.date \in Dates("jiff") /\ value.time \in Times("jiff")
    BY <1>1, <1>6 DEF Values, Dates, Times, RustType
  <2> QED
    BY <1>6, <2>1 DEF RustType
<1>7. CASE type = RustType("chrono", "timestamp")
  <2>1. value.date \in Dates("chrono") /\ value.time \in Times("chrono")
    BY <1>1, <1>7 DEF Values, Dates, Times, RustType
  <2> QED
    BY <1>7, <2>1 DEF RustType
<1>8. type.kind = "timestamp" => type \in {RustType(c, "timestamp") : c \in Crates}
  BY Kinds DEF RustType, Crates
<1> QED
  BY <1>2, <1>3, <1>4, <1>5, <1>6, <1>7, <1>8 DEF RustType, Crates, Moments

\* The day and the nanoseconds of a value, by its kind.
LEMMA MomentIs ==
    ASSUME NEW type \in RustTypes, type.kind \in Moments, NEW value
    PROVE  /\ type.kind = "date" => MomentOf(type, value) = <<DayOf(type.crate, value), 0>>
           /\ type.kind = "time" => MomentOf(type, value) = <<0, NanosOfDay(type.crate, value)>>
           /\ type.kind \in {"datetime", "timestamp"} /\ type # RustType("time", "timestamp") =>
                  MomentOf(type, value)
                      = <<DayOf(type.crate, value.date), NanosOfDay(type.crate, value.time)>>
BY DEF MomentOf, RustType

\* A time at an offset is the moment the driver takes it for.
LEMMA UtcIs ==
    ASSUME NEW value, value.date \in Int, value.time \in ClockTime, value.offset \in Int
    PROVE  /\ ToUtc(value).date \in Int /\ ToUtc(value).time \in ClockTime
           /\ MomentOf(RustType("time", "timestamp"), value)
                  = <<ToUtc(value).date, NanosFromTime(ToUtc(value).time)>>
<1> DEFINE utc == ToUtc(value)
           date == value.date
           second == SecondOfDay(value.time)
           nano == value.time.nano
           offset == value.offset
           seconds == second - offset * 60
           all == SecondsPerDay * NanosPerSecond
<1>1. /\ second \in 0 .. SecondsPerDay - 1 /\ nano \in Nat /\ nano < NanosPerSecond
      /\ NanosOfDay("time", value.time) = second * NanosPerSecond + nano
  BY ClockSeconds
<1>2. /\ utc.date = date + seconds \div SecondsPerDay
      /\ utc.time = Clock(seconds % SecondsPerDay, nano)
  BY DEF ToUtc
<1>3. MomentOf(RustType("time", "timestamp"), value)
          = <<date + (NanosOfDay("time", value.time) - offset * 60 * NanosPerSecond) \div all,
              (NanosOfDay("time", value.time) - offset * 60 * NanosPerSecond) % all>>
  BY DEF MomentOf, RustType, DayOf
<1>4. date \in Int /\ offset \in Int /\ second \in Int
  BY <1>1, SecondsKnown
<1> HIDE DEF utc, date, second, nano, offset
<1>5. seconds \in Int
  BY <1>4
<1>6. (second * NanosPerSecond + nano) - offset * 60 * NanosPerSecond
          = seconds * NanosPerSecond + nano
  BY <1>1, <1>4, Units
<1> HIDE DEF seconds
<1>7. PICK q \in Int, r \in Int :
          /\ q = seconds \div SecondsPerDay /\ r = seconds % SecondsPerDay
          /\ seconds = q * SecondsPerDay + r /\ 0 <= r /\ r < SecondsPerDay
  BY <1>5, SecondsKnown, DivMod
<1>8. r * NanosPerSecond + nano \in Nat /\ r * NanosPerSecond + nano < all /\ all \in Nat \ {0}
  BY <1>1, <1>7, Units, SecondsKnown, WithinDay
<1>10. seconds * NanosPerSecond + nano = q * all + (r * NanosPerSecond + nano)
  <2>1. seconds * NanosPerSecond = q * all + r * NanosPerSecond
    <3>1. SecondsPerDay \in Int /\ NanosPerSecond \in Int /\ q \in Int /\ r \in Int
      BY <1>7, Units, SecondsKnown
    <3>2. seconds = q * SecondsPerDay + r
      BY <1>7
    <3>3. (q * SecondsPerDay + r) * NanosPerSecond = q * all + r * NanosPerSecond
      BY <3>1
    <3> QED
      BY <3>2, <3>3
  <2>2. q * all \in Int /\ r * NanosPerSecond \in Int
    BY <1>7, <1>8, Units
  <2> QED
    BY <1>1, <2>1, <2>2
<1>11. seconds * NanosPerSecond + nano \in Int
  BY <1>1, <1>5, Units
<1> HIDE DEF all
<1>12. /\ (seconds * NanosPerSecond + nano) \div all = q
       /\ (seconds * NanosPerSecond + nano) % all = r * NanosPerSecond + nano
  BY <1>7, <1>8, <1>10, <1>11, Divided
<1>13. MomentOf(RustType("time", "timestamp"), value) = <<date + q, r * NanosPerSecond + nano>>
  BY <1>1, <1>3, <1>6, <1>12
<1>14. utc.date = date + q /\ utc.time = Clock(r, nano)
  BY <1>2, <1>7
<1>15. r \in 0 .. SecondsPerDay - 1
  BY <1>7, SecondsKnown
<1>16. /\ Clock(r, nano) \in ClockTime /\ SecondOfDay(Clock(r, nano)) = r
       /\ Clock(r, nano).nano = nano
  BY <1>1, <1>15, ClockOf
<1>17. NanosFromTime(Clock(r, nano)) = r * NanosPerSecond + nano
  BY <1>16, ClockSeconds
<1>18. /\ utc.date \in Int /\ utc.time \in ClockTime
       /\ <<date + q, r * NanosPerSecond + nano>> = <<utc.date, NanosFromTime(utc.time)>>
  <2>1. date + q \in Int
    BY <1>4, <1>7
  <2>2. r * NanosPerSecond + nano = NanosFromTime(utc.time)
    BY <1>14, <1>17
  <2>3. utc.time \in ClockTime
    BY <1>14, <1>16
  <2> QED
    BY <1>14, <2>1, <2>2, <2>3
<1> QED
  BY <1>13, <1>18 DEF utc

LEMMA MomentCases ==
    ASSUME NEW type, NEW value
    PROVE  /\ type = RustType("chrono", "date") => EncodeMoment(type, value) = ChronoBindDate(value)
           /\ type = RustType("chrono", "time") => EncodeMoment(type, value) = ChronoBindTime(value)
           /\ type = RustType("chrono", "datetime") => EncodeMoment(type, value) = ChronoBindDateTime(value)
           /\ type = RustType("chrono", "timestamp") => EncodeMoment(type, value) = ChronoBindTimestamp(value)
           /\ type = RustType("time", "date") => EncodeMoment(type, value) = TimeBindDate(value)
           /\ type = RustType("time", "time") => EncodeMoment(type, value) = TimeBindTime(value)
           /\ type = RustType("time", "datetime") => EncodeMoment(type, value) = TimeBindDateTime(value)
           /\ type = RustType("time", "timestamp") => EncodeMoment(type, value) = TimeBindTimestamp(value)
           /\ type = RustType("jiff", "date") => EncodeMoment(type, value) = JiffBindDate(value)
           /\ type = RustType("jiff", "time") => EncodeMoment(type, value) = JiffBindTime(value)
           /\ type = RustType("jiff", "datetime") => EncodeMoment(type, value) = JiffBindDateTime(value)
           /\ type = RustType("jiff", "timestamp") => EncodeMoment(type, value) = JiffBindTimestamp(value)
BY DEF EncodeMoment, RustType

LEMMA MomentTypes ==
    ASSUME NEW type \in RustTypes, type.kind \in Moments
    PROVE  /\ type.crate \in Crates
           /\ type = RustType(type.crate, type.kind)
BY Kinds DEF RustType

\* What is sent for a moment: its day and its nanosecond.  The crate time has no
\* days to send beyond the last one SQL Server has.
Sends(type, value, day, nanos) ==
    /\ day \in Int /\ nanos \in Nat
    /\ MomentOf(type, value) = <<day, nanos>>
    /\ \/ EncodeMoment(type, value) = MomentArgument(type.kind, day, nanos)
       \/ EncodeMoment(type, value) = None /\ day > MaxDay
    /\ type.kind = "date" => nanos = 0
    /\ type.kind = "time" => day = 0

LEMMA DaySent ==
    ASSUME NEW date \in Dates("jiff")
    PROVE  JiffDaysFromDate(date) = Unsigned(DayOf("jiff", date))
<1>1. date \in CivilDate
  BY DEF Dates
<1> QED
  BY <1>1, CalendarAgrees DEF JiffDaysFromDate, DayOf

LEMMA TimeSent ==
    ASSUME NEW time
    PROVE  /\ ChronoTicks(time) = Some(NanosToTicks(NanosOfDay("chrono", time)))
           /\ time \in ClockTime => Ticks(time) = Some(NanosToTicks(NanosFromTime(time)))
           /\ time \in ClockTime => NanosOfDay("time", time) = NanosFromTime(time)
           /\ time \in ClockTime => NanosOfDay("jiff", time) = NanosFromTime(time)
BY ClockSeconds DEF ChronoTicks, ChronoNanosFromTime, NanosOfDay, Ticks

LEMMA MomentSent ==
    ASSUME NEW type \in RustTypes, type.kind \in Moments, NEW value \in Values(type)
    PROVE  \E day, nanos : Sends(type, value, day, nanos)
<1> DEFINE crate == type.crate
           kind == type.kind
<1>1. crate \in Crates /\ type = RustType(crate, kind)
  BY MomentTypes
<1>2. /\ kind = "date" => value \in Dates(crate)
      /\ kind = "time" => value \in Times(crate)
      /\ kind \in {"datetime", "timestamp"} =>
             value.date \in Dates(crate) /\ value.time \in Times(crate)
      /\ type = RustType("time", "timestamp") => value.offset \in Int
  BY MomentValues
<1>3. /\ kind = "date" => MomentOf(type, value) = <<DayOf(crate, value), 0>>
      /\ kind = "time" => MomentOf(type, value) = <<0, NanosOfDay(crate, value)>>
      /\ kind \in {"datetime", "timestamp"} /\ type # RustType("time", "timestamp") =>
             MomentOf(type, value) = <<DayOf(crate, value.date), NanosOfDay(crate, value.time)>>
  BY MomentIs
<1>4. ASSUME NEW date \in Dates(crate) PROVE DayOf(crate, date) \in Int
  BY <1>1, DaysKnown
<1>5. ASSUME NEW time \in Times(crate)
      PROVE  /\ NanosOfDay(crate, time) \in Nat
             /\ crate # "chrono" => time \in ClockTime
  BY <1>1, <1>5, NanosKnown DEF Times
<1>6. ASSUME crate \in {"chrono", "time"} PROVE \A date : DayOf(crate, date) = date
  BY <1>6 DEF DayOf
<1> HIDE DEF crate, kind
<1>7. CASE kind = "date"
  <2>1. EncodeMoment(type, value) = SqlDate(Unsigned(DayOf(crate, value)))
    <3>1. CASE crate = "chrono"
      BY <1>1, <1>6, <1>7, <3>1, MomentCases DEF ChronoBindDate
    <3>2. CASE crate = "time"
      BY <1>1, <1>6, <1>7, <3>2, MomentCases DEF TimeBindDate
    <3>3. CASE crate = "jiff"
      BY <1>1, <1>2, <1>7, <3>3, MomentCases, DaySent DEF JiffBindDate
    <3> QED
      BY <1>1, <3>1, <3>2, <3>3 DEF Crates
  <2>2. Sends(type, value, DayOf(crate, value), 0)
    BY <1>2, <1>3, <1>4, <1>7, <2>1 DEF Sends, MomentArgument, kind
  <2> QED
    BY <2>2
<1>8. CASE kind = "time"
  <2>1. EncodeMoment(type, value) = Some(<<"time", NanosToTicks(NanosOfDay(crate, value))>>)
    <3>1. CASE crate = "chrono"
      BY <1>1, <1>8, <3>1, MomentCases, TimeSent DEF ChronoBindTime, Some
    <3>2. CASE crate = "time"
      BY <1>1, <1>2, <1>5, <1>8, <3>2, MomentCases, TimeSent DEF TimeBindTime, Some
    <3>3. CASE crate = "jiff"
      BY <1>1, <1>2, <1>5, <1>8, <3>3, MomentCases, TimeSent DEF JiffBindTime, Some
    <3> QED
      BY <1>1, <3>1, <3>2, <3>3 DEF Crates
  <2>2. Sends(type, value, 0, NanosOfDay(crate, value))
    BY <1>2, <1>3, <1>5, <1>8, <2>1 DEF Sends, MomentArgument, kind
  <2> QED
    BY <2>2
<1>9. CASE kind \in {"datetime", "timestamp"} /\ type # RustType("time", "timestamp")
  <2> DEFINE day == DayOf(crate, value.date)
             nanos == NanosOfDay(crate, value.time)
             datetime2 == SqlDateTime2(Unsigned(day), Some(NanosToTicks(nanos)))
  <2>1. /\ crate = "chrono" => ChronoDateTime2(value) = datetime2
        /\ crate = "time" => TimeDateTime2(value) = datetime2
        /\ crate = "jiff" => JiffDateTime2(value) = datetime2
    <3>1. CASE crate = "chrono"
      BY <1>6, <3>1, TimeSent DEF ChronoDateTime2
    <3>2. CASE crate = "time"
      BY <1>2, <1>5, <1>6, <1>9, <3>2, TimeSent DEF TimeDateTime2
    <3>3. CASE crate = "jiff"
      BY <1>2, <1>5, <1>9, <3>3, TimeSent, DaySent DEF JiffDateTime2
    <3> QED
      BY <3>1, <3>2, <3>3
  <2> HIDE DEF datetime2
  <2>2. kind = "datetime" => EncodeMoment(type, value) = datetime2
    BY <1>1, <2>1, MomentCases DEF ChronoBindDateTime, TimeBindDateTime, JiffBindDateTime, Crates
  <2>3. kind = "timestamp" => EncodeMoment(type, value) = SqlDateTimeOffset(datetime2)
    BY <1>1, <1>9, <2>1, MomentCases DEF ChronoBindTimestamp, JiffBindTimestamp, Crates
  <2>4. day \in Int /\ nanos \in Nat
    BY <1>2, <1>4, <1>5, <1>9
  <2>5. MomentOf(type, value) = <<day, nanos>>
    BY <1>3, <1>9
  <2> HIDE DEF day, nanos
  <2>6. Sends(type, value, day, nanos)
    BY <1>9, <2>2, <2>3, <2>4, <2>5 DEF Sends, MomentArgument, kind, datetime2
  <2> QED
    BY <2>6
<1>10. CASE type = RustType("time", "timestamp")
  <2>1. crate = "time" /\ kind = "timestamp"
    BY <1>10 DEF RustType, crate, kind
  <2>2. value.date \in Int /\ value.time \in ClockTime /\ value.offset \in Int
    BY <1>2, <1>5, <1>10, <2>1 DEF Dates
  <2> DEFINE utc == ToUtc(value)
             nanos == NanosFromTime(utc.time)
  <2>3. /\ utc.date \in Int /\ utc.time \in ClockTime
        /\ MomentOf(type, value) = <<utc.date, nanos>>
    BY <1>10, <2>2, UtcIs
  <2>4. EncodeMoment(type, value) = TimeBindTimestamp(value)
    BY <1>10, MomentCases
  <2>5. TimeBindTimestamp(value)
            = IF utc.date > MaxDay THEN None
              ELSE SqlDateTimeOffset(SqlDateTime2(Unsigned(utc.date), Some(NanosToTicks(nanos))))
    BY <2>3, TimeSent DEF TimeBindTimestamp, TimeDateTime2
  <2>6. nanos \in Nat
    BY <2>3, NanosKnown, TimeSent DEF Times, Crates
  <2> HIDE DEF utc, nanos
  <2>7. Sends(type, value, utc.date, nanos)
    BY <2>1, <2>3, <2>4, <2>5, <2>6 DEF Sends, MomentArgument, kind
  <2> QED
    BY <2>7
<1> QED
  BY <1>1, <1>7, <1>8, <1>9, <1>10 DEF Moments, kind

\* What it is for a cell to stand for a moment.
LEMMA MomentMeans ==
    ASSUME NEW type, type.kind \in Moments, NEW value, NEW cell, NEW unit, NEW day, NEW nanos,
           MomentOf(type, value) = <<day, nanos>>
    PROVE  /\ type.kind = "date" => (Means(type, value, cell, unit) <=> day = MomentIn(cell)[1])
           /\ type.kind = "time" =>
                  (Means(type, value, cell, unit) <=> Floor(nanos, unit) = MomentIn(cell)[2])
           /\ type.kind \in {"datetime", "timestamp"} =>
                  (Means(type, value, cell, unit)
                       <=> <<day, Floor(nanos, unit)>> = MomentIn(cell))
<1>1. type.kind \notin Integer
  BY IntegerKinds DEF Moments
<1>2. ASSUME type.kind = "date"
      PROVE  Means(type, value, cell, unit) <=> day = MomentIn(cell)[1]
  BY <1>1, <1>2 DEF Means, ShapeKinds
<1>3. ASSUME type.kind = "time"
      PROVE  Means(type, value, cell, unit) <=> Floor(nanos, unit) = MomentIn(cell)[2]
  BY <1>1, <1>3 DEF Means, ShapeKinds
<1>4. ASSUME type.kind \in {"datetime", "timestamp"}
      PROVE  Means(type, value, cell, unit) <=> <<day, Floor(nanos, unit)>> = MomentIn(cell)
  BY <1>1, <1>4 DEF Means, ShapeKinds
<1> QED
  BY <1>2, <1>3, <1>4

\* What is cut off is never negative.
LEMMA FloorBelow ==
    ASSUME NEW n \in Nat, NEW unit \in Nat \ {0}
    PROVE  Floor(n, unit) <= n
<1>1. n % unit \in Nat
  OBVIOUS
<1> QED
  BY <1>1 DEF Floor

\* Ticks and back is down to the tick.
LEMMA FloorIs ==
    ASSUME NEW n \in Nat
    PROVE  /\ NanosToTicks(n) \in Nat
           /\ TicksToNanos(NanosToTicks(n)) = Floor(n, NanosPerTick)
           /\ Floor(n, NanosPerTick) \in Nat
           /\ n < SecondsPerDay * NanosPerSecond <=> NanosToTicks(n) < TicksPerDay
<1>1. NanosPerTick \in Nat \ {0}
  BY Units
<1>2. PICK q \in Int, r \in Int :
          /\ q = n \div NanosPerTick /\ r = n % NanosPerTick
          /\ n = q * NanosPerTick + r /\ 0 <= r /\ r < NanosPerTick
  BY <1>1, DivMod
<1>3. q * NanosPerTick \in Int /\ q * NanosPerTick = n - r
  BY <1>1, <1>2
<1>4. q >= 0
  <2>1. q <= -1 => q * NanosPerTick <= -NanosPerTick
    BY <1>1, <1>2
  <2> QED
    BY <1>1, <1>2, <1>3, <2>1
<1>5. q * NanosPerTick >= 0
  BY <1>1, <1>2, <1>4
<1>6. SecondsPerDay * NanosPerSecond = TicksPerDay * NanosPerTick /\ TicksPerDay \in Int
  <2> DEFINE d == NanosPerSecond \div NanosPerTick
  <2>1. d \in Int /\ SecondsPerDay \in Int /\ NanosPerTick \in Int
        /\ NanosPerSecond = d * NanosPerTick /\ TicksPerDay = SecondsPerDay * d
    BY Units, SecondsKnown DEF TicksPerDay
  <2> HIDE DEF d
  <2> QED
    BY <2>1
<1>7. n < TicksPerDay * NanosPerTick <=> q < TicksPerDay
  BY <1>1, <1>2, <1>6, Below
<1> QED
  BY <1>2, <1>3, <1>4, <1>5, <1>6, <1>7 DEF NanosToTicks, TicksToNanos, Floor

\* What is sent stands for the value.
LEMMA MomentKept ==
    ASSUME NEW type \in RustTypes, type.kind \in Moments, NEW value, NEW day, NEW nanos,
           Sends(type, value, day, nanos), EncodeMoment(type, value) # None
    PROVE  LET cell == EncodeMoment(type, value)[1]
           IN  ~IsNull(cell) /\ Means(type, value, cell, NanosPerTick)
<1> DEFINE cell == EncodeMoment(type, value)[1]
           ticks == NanosToTicks(nanos)
<1>1. /\ day \in Int /\ nanos \in Nat /\ MomentOf(type, value) = <<day, nanos>>
      /\ EncodeMoment(type, value) = MomentArgument(type.kind, day, nanos)
  BY DEF Sends
<1>2. TicksToNanos(ticks) = Floor(nanos, NanosPerTick)
  BY <1>1, FloorIs
<1> HIDE DEF ticks
<1>3. CASE type.kind = "date"
  <2>1. cell = <<"date", day>>
    BY <1>1, <1>3 DEF MomentArgument, SqlDate, Unsigned, Some, None
  <2>2. MomentIn(cell)[1] = day /\ ~IsNull(cell)
    BY <2>1 DEF MomentIn, IsNull
  <2> QED
    BY <1>1, <1>3, <2>2, MomentMeans
<1>4. CASE type.kind = "time"
  <2>1. cell = <<"time", ticks>>
    BY <1>1, <1>4 DEF MomentArgument, Some, ticks
  <2>2. MomentIn(cell)[2] = TicksToNanos(ticks) /\ ~IsNull(cell)
    BY <2>1 DEF MomentIn, IsNull
  <2> QED
    BY <1>1, <1>2, <1>4, <2>2, MomentMeans
<1>5. CASE type.kind \in {"datetime", "timestamp"}
  <2>1. SqlDateTime2(Unsigned(day), Some(ticks)) # None
    BY <1>1, <1>5 DEF MomentArgument, SqlDateTimeOffset, ticks
  <2>2. SqlDateTime2(Unsigned(day), Some(ticks)) = Some(<<"datetime2", day, ticks>>)
    BY <2>1 DEF SqlDateTime2, Unsigned, Some, None
  <2>3. cell \in {<<"datetime2", day, ticks>>, <<"datetimeoffset", day, ticks, 0>>}
    BY <1>1, <1>5, <2>2 DEF MomentArgument, SqlDateTimeOffset, Some, None, ticks
  <2>4. MomentIn(cell) = <<day, TicksToNanos(ticks)>> /\ ~IsNull(cell)
    BY <2>3 DEF MomentIn, IsNull
  <2> QED
    BY <1>1, <1>2, <1>5, <2>4, MomentMeans
<1> QED
  BY <1>3, <1>4, <1>5 DEF Moments

\* A moment its column can hold is sent and stored.
LEMMA MomentFits ==
    ASSUME NEW type \in RustTypes, type.kind \in Moments, NEW value, NEW day, NEW nanos,
           Sends(type, value, day, nanos), Fits(type, value)
    PROVE  /\ EncodeMoment(type, value) # None
           /\ StoresMoment(EncodeMoment(type, value)[1]) # {}
<1> DEFINE x == EncodeMoment(type, value)
           ticks == NanosToTicks(nanos)
<1>1. MaxDay \in Nat
  BY DEF MaxDay
<1>2. /\ day \in Int /\ nanos \in Nat /\ MomentOf(type, value) = <<day, nanos>>
      /\ x = MomentArgument(type.kind, day, nanos) \/ (x = None /\ day > MaxDay)
  BY DEF Sends
<1>3. day \in 0 .. MaxDay /\ nanos < SecondsPerDay * NanosPerSecond
  <2>1. type.kind \notin Integer
    BY IntegerKinds DEF Moments
  <2>2. MomentOf(type, value)[1] \in 0 .. MaxDay
        /\ MomentOf(type, value)[2] < SecondsPerDay * NanosPerSecond
    BY <2>1 DEF Fits
  <2> QED
    BY <1>2, <2>2
<1>4. x = MomentArgument(type.kind, day, nanos) /\ Unsigned(day) = Some(day) /\ day <= MaxDay
  BY <1>1, <1>2, <1>3 DEF Unsigned
<1>5. ticks < TicksPerDay
  BY <1>2, <1>3, FloorIs
<1> HIDE DEF ticks
<1>6. x \in {Some(<<"date", day>>), Some(<<"time", ticks>>), Some(<<"datetime2", day, ticks>>),
             Some(<<"datetimeoffset", day, ticks, 0>>)}
  <2>1. CASE type.kind = "date"
    BY <1>4, <2>1 DEF MomentArgument, SqlDate, Some, None
  <2>2. CASE type.kind = "time"
    BY <1>4, <2>2 DEF MomentArgument, ticks
  <2>3. CASE type.kind = "datetime"
    BY <1>4, <2>3 DEF MomentArgument, SqlDateTime2, Some, None, ticks
  <2>4. CASE type.kind = "timestamp"
    BY <1>4, <2>4 DEF MomentArgument, SqlDateTime2, SqlDateTimeOffset, Some, None, ticks
  <2> QED
    BY <2>1, <2>2, <2>3, <2>4 DEF Moments
<1> HIDE DEF x
<1>7. x # None
  <2>1. \A y : Some(y) # None
    BY DEF Some, None
  <2> QED
    BY <1>6, <2>1
<1>8. StoresMoment(x[1]) = {x[1]}
  BY <1>3, <1>5, <1>6 DEF StoresMoment, Only, Some
<1> QED
  BY <1>7, <1>8 DEF x

-----------------------------------------------------------------------------
(* What is stored means what was bound. *)

\* A float that is not rounded is near itself.
LEMMA NearItself ==
    ASSUME NEW n \in Int, NEW bits \in Nat \ {0}
    PROVE  Near(n, n, bits)
<1>1. TwoTo[bits - 1] \in Nat
  <2>1. bits - 1 \in Nat
    OBVIOUS
  <2> QED
    BY <2>1, TwoToDoubles
<1>2. Abs(n - n) = 0 /\ Abs(n) >= 0
  BY DEF Abs
<1> QED
  BY <1>1, <1>2 DEF Near

LEMMA ValueKept ==
    ASSUME NEW type \in RustTypes, type.kind \notin Moments, NEW value \in Values(type),
           NEW cell, Kept(type, value, cell)
    PROVE  ~IsNull(cell) /\ Means(type, value, cell, NanosPerTick)
<1> DEFINE kind == type.kind
<1>1. CASE kind \in Integer
  <2>1. cell = <<OwnType[kind], value * One>>
    BY <1>1 DEF Kept
  <2>2. OwnType[kind] \in {"tinyint", "smallint", "int", "bigint"}
    BY <1>1, IntegerKinds DEF OwnType
  <2> DEFINE n == value * One
  <2> HIDE DEF n
  <2>3. NumberIn(cell) = Some(n) /\ ~IsNull(cell)
    BY <2>1, <2>2 DEF NumberIn, IsNull, n
  <2> QED
    BY <1>1, <2>3, IntegerKinds DEF Means, ShapeKinds, n
<1>2. CASE kind \in {"f32", "f64"}
  <2>1. /\ kind = "f32" => cell = <<"real", value>>
        /\ kind = "f64" => cell = <<"float", value>>
    BY DEF Kept
  <2>2. value \in Int
    <3>1. CASE kind = "f32"
      BY <3>1, IntegerKinds DEF Values, RustType, Float
    <3>2. CASE kind = "f64"
      BY <3>2, IntegerKinds DEF Values, RustType, Float
    <3> QED
      BY <1>2, <3>1, <3>2
  <2>3. Near(value, value, Mantissa[32]) /\ Near(value, value, Mantissa[64])
    BY <2>2, NearItself, WidthAssumption
  <2>4. NumberIn(cell) = Some(value) /\ ~IsNull(cell)
    BY <1>2, <2>1 DEF NumberIn, IsNull
  <2>5. Some(value) # None /\ Some(value)[1] = value
    BY DEF Some, None
  <2> QED
    BY <1>2, <2>3, <2>4, <2>5, IntegerKinds DEF Means, ShapeKinds
<1>3. CASE kind = "bool"
  <2>1. cell = <<"bit", IF value THEN One ELSE 0>>
    BY <1>3 DEF Kept
  <2>2. value \in BOOLEAN
    BY <1>3, IntegerKinds DEF Values, RustType
  <2>3. NumberIn(cell) = Some(IF value THEN One ELSE 0) /\ ~IsNull(cell)
    BY <2>1 DEF NumberIn, IsNull
  <2>4. NumberIn(cell) # None /\ value = (NumberIn(cell)[1] # 0)
    BY <2>2, <2>3 DEF Some, None, One
  <2> QED
    BY <1>3, <2>3, <2>4, IntegerKinds DEF Means, ShapeKinds
<1>4. CASE kind \in {"string", "json"}
  <2>1. cell \in {<<"string", value>>, <<"json", value>>}
    BY <1>4 DEF Kept
  <2>2. TextIn(cell) = Some(value) /\ ~IsNull(cell)
    BY <2>1 DEF TextIn, IsNull
  <2> QED
    BY <1>4, <2>2, IntegerKinds DEF Means, ShapeKinds
<1>5. CASE kind = "decimal"
  <2>1. \E point \in BOOLEAN : cell = <<"decimal", value, point>>
    BY <1>5 DEF Kept
  <2>2. NumberIn(cell) = Some(value) /\ ~IsNull(cell)
    BY <2>1 DEF NumberIn, IsNull
  <2> QED
    BY <1>5, <2>2, IntegerKinds DEF Means, ShapeKinds
<1>6. CASE kind \in {"bytes", "uuid", "wkb"}
  <2>1. /\ kind = "bytes" => cell = <<"bytes", value>>
        /\ kind = "wkb" => cell = <<"bytes", <<"wkb", value>>>>
        /\ kind = "uuid" => cell = <<"uuid", value>>
    BY DEF Kept
  <2>2. ~IsNull(cell)
    BY <1>6, <2>1 DEF IsNull
  <2> QED
    BY <1>6, <2>1, <2>2, IntegerKinds DEF Means, ShapeKinds
<1>7. CASE kind \in ShapeKinds
  <2>1. cell = <<"bytes", <<"spatial", ServerForm(EncodePayload(value[1], value[2]))>>>>
    BY <1>7 DEF Kept
  <2>2. ~IsNull(cell)
    BY <2>1 DEF IsNull
  <2> QED
    BY <1>7, <2>1, <2>2, IntegerKinds DEF Means, ShapeKinds
<1> QED
  BY <1>1, <1>2, <1>3, <1>4, <1>5, <1>6, <1>7, Kinds DEF ShapeKinds

\* What a program binds is stored as a cell that means it.
LEMMA StoredMeans ==
    ASSUME NEW w \in Writes, Bound(w) # None, NEW cell \in Inserted(w, Bound(w)[1]),
           ~IsNull(cell)
    PROVE  w.value # None /\ Means(w.type, w.value[1], cell, NanosPerTick)
<1>1. w.value # None
  BY NullStored DEF IsNull
<1>2. w.type \in RustTypes /\ w.value[1] \in Values(w.type)
  BY <1>1, Written
<1>3. Kept(w.type, w.value[1], cell)
  BY <1>1, StoredFor
<1>4. CASE w.type.kind \in Moments
  <2>1. cell = EncodeMoment(w.type, w.value[1])[1]
    BY <1>3, <1>4 DEF Kept
  <2>2. PICK day, nanos : Sends(w.type, w.value[1], day, nanos)
    BY <1>2, <1>4, MomentSent
  <2>3. EncodeMoment(w.type, w.value[1]) # None
    BY <1>1, <1>2, <1>4, Encodes DEF Bound, Encoded
  <2> QED
    BY <1>1, <1>2, <1>4, <2>1, <2>2, <2>3, MomentKept
<1>5. CASE w.type.kind \notin Moments
  BY <1>1, <1>2, <1>3, <1>5, ValueKept
<1> QED
  BY <1>4, <1>5

\* What is stored for a value means that value, down to the length of a tick.
THEOREM StoresMeaning == Spec => []StoredAsMeant
<1>1. IInv => StoredAsMeant
  <2> SUFFICES ASSUME IInv, at = "fetch", written # Foreign, ~IsNull(row.cell)
               PROVE  /\ written.value # None
                      /\ Means(written.type, written.value[1], row.cell, NanosPerTick)
    BY DEF StoredAsMeant
  <2>1. /\ written \in Writes /\ Bound(written) # None
        /\ row.cell \in Inserted(written, Bound(written)[1])
    BY DEF IInv, Stored, VectorRow
  <2> QED
    BY <2>1, StoredMeans
<1> QED
  BY <1>1, AlwaysKnown, PTL

-----------------------------------------------------------------------------
(* What is refused does not fit. *)

\* A NULL is declared as its own type, but for the CLR types, which varbinary
\* is converted to.
LEMMA NullDeclared ==
    ASSUME NEW type \in RustTypes
    PROVE  LET name == OwnType[type.kind]
               declared == NullSqlType(FromSystemTypeName(name).tds)
           IN  declared = name \/ (declared = "varbinary" /\ SystemTypes[name] = "Udt")
<1> DEFINE kind == type.kind
           name == OwnType[kind]
           tds == FromSystemTypeName(name).tds
<1>1. tds = SystemTypes[name]
  BY DEF FromSystemTypeName, TypeInfo
<1>2. kind \in Integer \cup {"bool", "f32", "f64", "string", "bytes", "geometry",
                             "geography", "wkb", "uuid", "decimal", "json"} \cup Moments
  BY Kinds
<1>3. name \in {"bit", "tinyint", "smallint", "int", "bigint", "json", "real", "float",
                "nvarchar", "varbinary", "geometry", "geography", "uniqueidentifier", "date",
                "time", "datetime2", "datetimeoffset", "decimal"}
  BY <1>2, IntegerKinds DEF OwnType, Moments
<1> HIDE DEF name, tds
<1>4. /\ NullSqlType("Bit") = "bit" /\ SystemTypes.bit = "Bit"
      /\ NullSqlType("Int1") = "tinyint" /\ SystemTypes.tinyint = "Int1"
      /\ NullSqlType("Int2") = "smallint" /\ SystemTypes.smallint = "Int2"
      /\ NullSqlType("Int4") = "int" /\ SystemTypes.int = "Int4"
      /\ NullSqlType("Int8") = "bigint" /\ SystemTypes.bigint = "Int8"
      /\ NullSqlType("Json") = "json" /\ SystemTypes.json = "Json"
      /\ NullSqlType("Flt4") = "real" /\ SystemTypes.real = "Flt4"
      /\ NullSqlType("Flt8") = "float" /\ SystemTypes.float = "Flt8"
      /\ NullSqlType("NVarChar") = "nvarchar" /\ SystemTypes.nvarchar = "NVarChar"
      /\ NullSqlType("BigVarBinary") = "varbinary" /\ SystemTypes.varbinary = "BigVarBinary"
      /\ NullSqlType("Guid") = "uniqueidentifier" /\ SystemTypes.uniqueidentifier = "Guid"
      /\ NullSqlType("DateN") = "date" /\ SystemTypes.date = "DateN"
      /\ NullSqlType("TimeN") = "time" /\ SystemTypes.time = "TimeN"
      /\ NullSqlType("DateTime2N") = "datetime2" /\ SystemTypes.datetime2 = "DateTime2N"
      /\ NullSqlType("DateTimeOffsetN") = "datetimeoffset" /\ SystemTypes.datetimeoffset = "DateTimeOffsetN"
      /\ NullSqlType("DecimalN") = "decimal" /\ SystemTypes.decimal = "DecimalN"
      /\ NullSqlType("Udt") = "varbinary"
      /\ SystemTypes.geometry = "Udt" /\ SystemTypes.geography = "Udt"
  BY DEF NullSqlType, SystemTypes
<1>5. NullSqlType(SystemTypes[name]) = name
      \/ (NullSqlType(SystemTypes[name]) = "varbinary" /\ SystemTypes[name] = "Udt")
  BY <1>3, <1>4
<1> QED
  BY <1>1, <1>5 DEF name, tds

LEMMA NullFits ==
    ASSUME NEW w \in Writes, w.value = None
    PROVE  Bound(w) # None /\ Inserted(w, Bound(w)[1]) # {}
<1> DEFINE name == OwnType[w.type.kind]
           declared == NullSqlType(FromSystemTypeName(name).tds)
<1>1. w.type \in RustTypes
  BY Written
<1>2. Bound(w) = Some(<<"null", declared>>)
  BY DEF Bound, NullLike
<1>3. Converts(declared, name)
  <2>1. declared = name \/ (declared = "varbinary" /\ SystemTypes[name] = "Udt")
    BY <1>1, NullDeclared
  <2>2. Converts(name, name)
    BY DEF Converts
  <2>3. SystemTypes[name] = "Udt" => Converts("varbinary", name)
    BY DEF Converts, Family, SystemTypes, Binary, Character, Numeric
  <2> QED
    BY <2>1, <2>2, <2>3
<1> HIDE DEF name, declared
<1>4. Bound(w)[1] = <<"null", declared>> /\ Bound(w) # None
  BY <1>2 DEF Some, None
<1>5. Inserted(w, Bound(w)[1]) = Stores(name, "null", declared)
  BY <1>4 DEF Inserted, name
<1>6. Stores(name, "null", declared) = {<<"null">>}
  BY <1>3 DEF Stores, Only
<1> QED
  BY <1>4, <1>5, <1>6

\* A value its column can hold is bound and stored, if it is not sent with an
\* exponent.
LEMMA ValueFits ==
    ASSUME NEW w \in Writes, w.value # None, Fits(w.type, w.value[1]),
           ~SentWithExponent(w.type, w.value[1])
    PROVE  Bound(w) # None /\ Inserted(w, Bound(w)[1]) # {}
<1> DEFINE type == w.type
           kind == type.kind
           value == w.value[1]
           name == OwnType[kind]
<1>1. type \in RustTypes /\ value \in Values(type)
  BY Written
<1>2. Bound(w) = Encode(type, value)
  BY DEF Bound
<1>3. \A x : /\ kind \in Moments => Inserted(w, x) = StoresMoment(x)
             /\ kind \notin Moments => Inserted(w, x) = Stores(name, x[1], x[2])
  BY DEF Inserted
<1>4. /\ Encoded(type, value, Encode(type, value)) /\ Fits(type, value)
      /\ ~SentWithExponent(type, value)
  BY <1>1, Encodes
<1>5. \A y : Some(y) # None /\ Some(y)[1] = y
  BY DEF Some, None
<1> HIDE DEF type, kind, value, name
<1>6. CASE kind \in Moments
  <2>1. PICK day, nanos : Sends(type, value, day, nanos)
    BY <1>1, <1>6, MomentSent DEF kind
  <2>2. EncodeMoment(type, value) # None /\ StoresMoment(EncodeMoment(type, value)[1]) # {}
    BY <1>1, <1>4, <1>6, <2>1, MomentFits DEF kind
  <2>3. Encode(type, value) = EncodeMoment(type, value)
    BY <1>4, <1>6 DEF Encoded, kind
  <2> QED
    BY <1>2, <1>3, <1>6, <2>2, <2>3
<1>7. CASE kind \in Integer
  <2>1. value \in SqlIntegers[name]
    BY <1>4, <1>7, IntegerKinds DEF Fits, Moments, kind, name
  <2>2. name \in DOMAIN SqlIntegers
    BY <1>7, IntegerKinds, IntegerColumns DEF OwnType, name
  <2>3. SqlIntegers[name] \subseteq IntegerRange.i64
    <3>1. /\ UpTo(Width[8]) \subseteq Signed(Width[64])
          /\ Signed(Width[16]) \subseteq Signed(Width[64])
          /\ Signed(Width[32]) \subseteq Signed(Width[64])
      <4>1. /\ Width[8] \in Nat \ {0} /\ Width[16] \in Nat \ {0} /\ Width[32] \in Nat \ {0}
            /\ Width[64] \in Nat \ {0}
            /\ Width[8] < Width[64] /\ Width[16] < Width[64] /\ Width[32] < Width[64]
        BY Widths
      <4> QED
        BY <4>1, Wider
    <3> QED
      BY <2>2, <3>1, IntegerColumns DEF SqlIntegers, IntegerRange
  <2>4. Encode(type, value) = Some(<<"bigint", value * One>>)
    BY <1>4, <1>7, <2>1, <2>3 DEF Encoded, kind
  <2>5. value \in Int
    <3>1. value \in Signed(Width[64])
      BY <2>1, <2>3 DEF IntegerRange
    <3> QED
      BY <3>1, Widths, SignedIs
  <2>6. (value * One) \div One = value
    BY <2>5 DEF One
  <2>7. Stores(name, "bigint", value * One) = {<<name, value * One>>}
    BY <2>1, <2>6 DEF Stores, Only
  <2> DEFINE n == value * One
             x == <<"bigint", n>>
  <2> HIDE DEF n
  <2>8. Bound(w)[1] = x /\ Bound(w) # None /\ x[1] = "bigint" /\ x[2] = n
    BY <1>2, <1>5, <2>4 DEF n
  <2>9. kind \notin Moments
    BY <1>7, IntegerKinds DEF Moments
  <2>10. Inserted(w, x) = Stores(name, "bigint", n)
    BY <1>3, <2>8, <2>9
  <2> QED
    BY <2>7, <2>8, <2>10 DEF n
<1>8. CASE kind \in {"bool", "f32", "f64", "string", "bytes", "wkb", "uuid", "json", "decimal"}
           \cup ShapeKinds
  <2>1. \E type_, x : /\ Encode(type, value) = Some(<<type_, x>>)
                      /\ Stores(name, type_, x) # {}
    <3>1. CASE kind \in {"bool", "f32", "f64"}
      <4>1. PICK x : Encode(type, value) \in {Some(<<t, x>>) : t \in {"bit", "real", "float"}}
        BY <1>4, <3>1 DEF Encoded, kind
      <4>2. \A t \in {"bit", "real", "float"} : Stores(name, t, x) = {<<t, x>>}
        BY DEF Stores
      <4> QED
        BY <4>1, <4>2
    <3>2. CASE kind = "string"
      <4>1. Encode(type, value) = Some(<<"nvarchar", value>>) /\ name = "nvarchar"
        BY <1>4, <3>2 DEF Encoded, kind, name, OwnType
      <4>2. Stores(name, "nvarchar", value) = {<<"string", value>>}
        BY <4>1 DEF Stores
      <4> QED
        BY <4>1, <4>2
    <3>3. CASE kind = "json"
      <4>1. Encode(type, value) = Some(<<"nvarchar", value>>) /\ name = "json"
        BY <1>4, <3>3 DEF Encoded, kind, name, OwnType
      <4>2. IsJson(value)
        BY <1>1, <3>3, IntegerKinds DEF Values, RustType, kind
      <4>3. Stores(name, "nvarchar", value) = {<<"json", value>>}
        BY <4>1, <4>2 DEF Stores, Only
      <4> QED
        BY <4>1, <4>3
    <3>4. CASE kind = "decimal"
      <4> DEFINE x == Number(value, value % One # 0)
      <4>0. ~(type.crate = "bigdecimal" /\ value # 0 /\ Abs(value) < PlainDecimal)
        <5>1. value \in Int
          BY <1>1, <3>4, IntegerKinds DEF Values, RustType, kind
        <5> QED
          BY <1>4, <5>1, DecimalAssumption DEF SentWithExponent, Abs
      <4>1. Encode(type, value) = Some(<<"nvarchar", x>>) /\ name = "decimal"
        BY <1>4, <3>4, <4>0 DEF Encoded, EncodeDecimal, kind, name, OwnType
      <4>2. Stores(name, "nvarchar", x)
                = {<<"decimal", x[2], point>> :
                       point \in {p \in BOOLEAN : x[1] = "number" /\ (x[3] => p)}}
        BY <4>1 DEF Stores
      <4>3. TRUE \in {p \in BOOLEAN : x[1] = "number" /\ (x[3] => p)}
        BY DEF Number
      <4> HIDE DEF x
      <4> QED
        BY <4>1, <4>2, <4>3
    <3>5. CASE kind \in {"bytes", "wkb"}
      <4>0. /\ kind = "bytes" => Encode(type, value) = Some(<<"varbinary", value>>)
            /\ kind = "wkb" => Encode(type, value) = Some(<<"varbinary", <<"wkb", value>>>>)
            /\ name = "varbinary"
        BY <1>4, <3>5 DEF Encoded, kind, name, OwnType
      <4>1. PICK x : Encode(type, value) = Some(<<"varbinary", x>>) /\ name = "varbinary"
        BY <3>5, <4>0
      <4>2. Stores(name, "varbinary", x) = {<<"bytes", x>>}
        BY <4>1 DEF Stores
      <4> QED
        BY <4>1, <4>2
    <3>6. CASE kind = "uuid"
      <4>1. Encode(type, value) = Some(<<"uniqueidentifier", value>>)
        BY <1>4, <3>6 DEF Encoded, kind
      <4>2. Stores(name, "uniqueidentifier", value) = {<<"uuid", value>>}
        BY DEF Stores
      <4> QED
        BY <4>1, <4>2
    <3>7. CASE kind \in ShapeKinds
      <4> DEFINE x == <<"spatial", EncodePayload(value[1], value[2])>>
      <4>0. Encode(type, value) = Some(<<"varbinary", x>>)
        BY <1>4, <3>7 DEF Encoded, kind
      <4>1. name # "varbinary"
        BY <3>7 DEF ShapeKinds, OwnType, name
      <4> HIDE DEF x
      <4>2. Stores(name, "varbinary", x) = {<<"bytes", <<"spatial", ServerForm(x[2])>>>>}
        BY <4>1 DEF Stores
      <4> QED
        BY <4>0, <4>2
    <3> QED
      BY <1>8, <3>1, <3>2, <3>3, <3>4, <3>5, <3>6, <3>7
  <2>2. PICK type_, x : Encode(type, value) = Some(<<type_, x>>) /\ Stores(name, type_, x) # {}
    BY <2>1
  <2>3. kind \notin Moments
    BY <1>8 DEF Moments, ShapeKinds
  <2>4. Bound(w)[1] = <<type_, x>> /\ Bound(w) # None
    BY <1>2, <1>5, <2>2
  <2> QED
    BY <1>3, <2>2, <2>3, <2>4
<1> QED
  BY <1>1, <1>6, <1>7, <1>8, Kinds DEF ShapeKinds, kind

\* A statement is refused only for a value its column cannot hold or one that
\* BigDecimal writes with an exponent, and never for a NULL.
THEOREM StoresWhatFits == Spec => []StoredIfItFits
<1>1. IInv => StoredIfItFits
  <2> SUFFICES ASSUME IInv, at = "refused"
               PROVE  /\ written.value # None
                      /\ \/ ~Fits(written.type, written.value[1])
                         \/ SentWithExponent(written.type, written.value[1])
    BY DEF StoredIfItFits
  <2>1. written \in Writes /\ (Bound(written) = None \/ Inserted(written, Bound(written)[1]) = {})
    BY DEF IInv, Origin, Refused
  <2> QED
    BY <2>1, NullFits, ValueFits
<1> QED
  BY <1>1, AlwaysKnown, PTL

-----------------------------------------------------------------------------
(* What is read from a date or a time. *)

DateFrom(crate, days) ==
    CASE crate = "chrono" -> ChronoDateFromDays(days)
      [] crate = "time"   -> TimeDateFromDays(days)
      [] crate = "jiff"   -> JiffDateFromDays(days)
TimeFrom(crate, nanos) ==
    IF crate = "chrono" THEN ChronoTimeFromNanos(nanos) ELSE TimeFromNanos(nanos)
MomentFrom(crate, cell) ==
    CASE crate = "chrono" -> ChronoMoment(cell)
      [] crate = "time"   -> TimeMoment(cell)
      [] crate = "jiff"   -> JiffMoment(cell)

LEMMA OneSome ==
    ASSUME NEW x
    PROVE  Some(x) # None /\ Some(x)[1] = x
BY DEF Some, None

\* Of a column's days only chrono has none before 1970.
LEMMA DateRead ==
    ASSUME NEW crate \in Crates, NEW days \in Nat, days <= MaxDay
    PROVE  \/ DateFrom(crate, days) = None /\ crate = "chrono" /\ days < Epoch
           \/ \E date \in Dates(crate) :
                 DateFrom(crate, days) = Some(date) /\ DayOf(crate, date) = days
<1>1. CASE crate = "chrono"
  BY <1>1 DEF DateFrom, ChronoDateFromDays, Dates, DayOf
<1>2. CASE crate = "time"
  <2>1. MaxDay \in Int
    BY DEF MaxDay
  <2> QED
    BY <1>2, <2>1 DEF DateFrom, TimeDateFromDays, Dates, DayOf
<1>3. CASE crate = "jiff"
  <2>1. PICK date \in CivilDate :
            /\ JiffDateFromDays(days) = Some(date) /\ date.year <= 9999
            /\ CalendarDay(date) = days
    BY DaysRead
  <2> QED
    BY <1>3, <2>1 DEF DateFrom, Dates, DayOf
<1> QED
  BY <1>1, <1>2, <1>3 DEF Crates

\* Every nanosecond of a day is read.
LEMMA TimeRead ==
    ASSUME NEW crate \in Crates, NEW nanos \in Nat, nanos < SecondsPerDay * NanosPerSecond
    PROVE  \E time \in Times(crate) :
              /\ TimeFrom(crate, nanos) = Some(time) /\ NanosOfDay(crate, time) = nanos
              /\ crate # "chrono" => SecondOfDay(time) = nanos \div NanosPerSecond
<1>1. PICK q \in Int, r \in Int :
          /\ q = nanos \div NanosPerSecond /\ r = nanos % NanosPerSecond
          /\ nanos = q * NanosPerSecond + r /\ 0 <= r /\ r < NanosPerSecond
  BY Units, DivMod
<1>2. q < SecondsPerDay
  BY <1>1, Units, SecondsKnown, Below
<1>3. q >= 0
  <2>1. q <= -1 => q * NanosPerSecond <= -NanosPerSecond
    BY <1>1, Units
  <2>2. q * NanosPerSecond \in Int
    BY <1>1, Units
  <2> QED
    BY <1>1, <2>1, <2>2, Units
<1>4. q \in 0 .. SecondsPerDay - 1 /\ r \in Nat
  BY <1>1, <1>2, <1>3, SecondsKnown
<1>5. CASE crate = "chrono"
  <2> DEFINE time == [second |-> q, nano |-> r]
  <2>1. TimeFrom(crate, nanos) = Some(time)
    <3>1. ~(q >= SecondsPerDay)
      BY <1>1, <1>2, SecondsKnown
    <3> QED
      BY <1>1, <1>5, <3>1 DEF TimeFrom, ChronoTimeFromNanos
  <2>2. NanosOfDay(crate, time) = nanos
    BY <1>1, <1>5 DEF NanosOfDay
  <2>3. time \in Times(crate)
    <3>1. r \in 0 .. 2 * NanosPerSecond - 1
      BY <1>1, Units
    <3> QED
      BY <1>4, <1>5, <3>1 DEF Times, LeapTime
  <2> QED
    BY <1>5, <2>1, <2>2, <2>3
<1>6. CASE crate # "chrono"
  <2> DEFINE time == Clock(q, r)
  <2>1. time \in ClockTime /\ SecondOfDay(time) = q /\ time.nano = r
    BY <1>1, <1>4, ClockOf
  <2>2. ~(time.hour > 23)
    BY <2>1 DEF ClockTime
  <2>3. TimeFrom(crate, nanos) = Some(time)
    BY <1>1, <1>6, <2>2 DEF TimeFrom, TimeFromNanos
  <2> HIDE DEF time
  <2>4. NanosOfDay(crate, time) = nanos
    BY <1>1, <1>6, <2>1, ClockSeconds DEF Crates
  <2> QED
    BY <1>1, <1>6, <2>1, <2>3, <2>4 DEF Times
<1> QED
  BY <1>5, <1>6

\* What each type reads, said once for the crates.
LEMMA ReadCases ==
    ASSUME NEW type \in RustTypes, type.kind \in Moments, NEW cell
    PROVE  LET crate == type.crate
               moment == MomentFrom(crate, cell)
               x == DecodeMoment(type, cell)
           IN  /\ type.kind = "date" =>
                      x = IF cell[1] = "date" THEN DateFrom(crate, cell[2]) ELSE DatePart(moment)
               /\ type.kind = "time" =>
                      x = IF cell[1] = "time" THEN TimeFrom(crate, TicksToNanos(cell[2]))
                          ELSE TimePart(moment)
               /\ type.kind = "datetime" =>
                      x = IF crate = "chrono" /\ cell[1] = "date"
                          THEN Both(DateFrom(crate, cell[2]), TimeFrom(crate, 0))
                          ELSE moment
               /\ type.kind = "timestamp" /\ crate = "chrono" => x = moment
               /\ type.kind = "timestamp" /\ crate = "time" => x = TimeReadTimestamp(cell)
               /\ type.kind = "timestamp" /\ crate = "jiff" => x = JiffReadTimestamp(cell)
<1> DEFINE crate == type.crate
           kind == type.kind
           x == DecodeMoment(type, cell)
<1>1. type = RustType(crate, kind) /\ crate \in Crates
  BY MomentTypes
<1> HIDE DEF crate, kind, x
<1>2. CASE crate = "chrono"
  <2>1. /\ kind = "date" => x = ChronoReadDate(cell)
        /\ kind = "time" => x = ChronoReadTime(cell)
        /\ kind = "datetime" => x = ChronoReadDateTime(cell)
        /\ kind = "timestamp" => x = ChronoReadTimestamp(cell)
    BY <1>1, <1>2 DEF DecodeMoment, RustType, x
  <2> QED
    BY <1>2, <2>1 DEF ChronoReadDate, ChronoReadTime, ChronoReadDateTime, ChronoReadTimestamp,
                      DateFrom, TimeFrom, MomentFrom, crate, kind, x
<1>3. CASE crate = "time"
  <2>1. /\ kind = "date" => x = TimeReadDate(cell)
        /\ kind = "time" => x = TimeReadTime(cell)
        /\ kind = "datetime" => x = TimeReadDateTime(cell)
        /\ kind = "timestamp" => x = TimeReadTimestamp(cell)
    BY <1>1, <1>3 DEF DecodeMoment, RustType, x
  <2> QED
    BY <1>3, <2>1 DEF TimeReadDate, TimeReadTime, TimeReadDateTime,
                      DateFrom, TimeFrom, MomentFrom, crate, kind, x
<1>4. CASE crate = "jiff"
  <2>1. /\ kind = "date" => x = JiffReadDate(cell)
        /\ kind = "time" => x = JiffReadTime(cell)
        /\ kind = "datetime" => x = JiffReadDateTime(cell)
        /\ kind = "timestamp" => x = JiffReadTimestamp(cell)
    BY <1>1, <1>4 DEF DecodeMoment, RustType, x
  <2> QED
    BY <1>4, <2>1 DEF JiffReadDate, JiffReadTime, JiffReadDateTime,
                      DateFrom, TimeFrom, MomentFrom, crate, kind, x
<1> QED
  BY <1>1, <1>2, <1>3, <1>4 DEF Crates

LEMMA TicksInDay ==
    ASSUME NEW ticks \in Nat, ticks < TicksPerDay
    PROVE  TicksToNanos(ticks) \in Nat /\ TicksToNanos(ticks) < SecondsPerDay * NanosPerSecond
<1> DEFINE n == ticks * NanosPerTick
<1>1. NanosPerTick \in Nat \ {0} /\ n \in Nat /\ n = ticks * NanosPerTick + 0
  BY Units
<1> HIDE DEF n
<1>2. n \div NanosPerTick = ticks
  <2>1. 0 \in Int /\ 0 <= 0 /\ 0 < NanosPerTick /\ n \in Int /\ ticks \in Int
    BY <1>1
  <2> QED
    BY <1>1, <2>1, Divided
<1>3. NanosToTicks(n) = ticks
  BY <1>2 DEF NanosToTicks
<1>4. n < SecondsPerDay * NanosPerSecond
  BY <1>1, <1>3, FloorIs
<1> QED
  BY <1>1, <1>4 DEF TicksToNanos, n

\* A day and a time of it that were read.
IsPair(crate, x, days, nanos) ==
    \E date \in Dates(crate), time \in Times(crate) :
        /\ x = Some([date |-> date, time |-> time])
        /\ DayOf(crate, date) = days /\ NanosOfDay(crate, time) = nanos
        /\ crate # "chrono" => SecondOfDay(time) = nanos \div NanosPerSecond

\* A date and a time in one cell: both are read, or chrono has no such day.
LEMMA PairRead ==
    ASSUME NEW crate \in Crates, NEW cell, cell[1] \in {"datetime2", "datetimeoffset"},
           NEW days \in Nat, days <= MaxDay, cell[2] = days,
           NEW ticks \in Nat, ticks < TicksPerDay, cell[3] = ticks
    PROVE  \/ MomentFrom(crate, cell) = None /\ crate = "chrono" /\ days < Epoch
           \/ IsPair(crate, MomentFrom(crate, cell), days, TicksToNanos(ticks))
<1> DEFINE nanos == TicksToNanos(ticks)
           d == DateFrom(crate, days)
           t == TimeFrom(crate, nanos)
<1>1. nanos \in Nat /\ nanos < SecondsPerDay * NanosPerSecond
  BY TicksInDay
<1>2. MomentFrom(crate, cell) = Both(d, t)
  <2>1. CASE crate = "chrono"
    BY <2>1 DEF MomentFrom, ChronoMoment, ChronoFromDateTime2, DateFrom, TimeFrom
  <2>2. CASE crate = "time"
    BY <2>2 DEF MomentFrom, TimeMoment, TimeFromDateTime2, DateFrom, TimeFrom
  <2>3. CASE crate = "jiff"
    BY <2>3 DEF MomentFrom, JiffMoment, JiffFromDateTime2, DateFrom, TimeFrom
  <2> QED
    BY <2>1, <2>2, <2>3 DEF Crates
<1> HIDE DEF nanos, d, t
<1>3. PICK time \in Times(crate) :
          /\ t = Some(time) /\ NanosOfDay(crate, time) = nanos
          /\ crate # "chrono" => SecondOfDay(time) = nanos \div NanosPerSecond
  BY <1>1, TimeRead DEF t
<1>4. CASE d = None /\ crate = "chrono" /\ days < Epoch
  BY <1>2, <1>4 DEF Both
<1>5. ASSUME NEW date \in Dates(crate), d = Some(date), DayOf(crate, date) = days
      PROVE  /\ MomentFrom(crate, cell) = Some([date |-> date, time |-> time])
             /\ DayOf(crate, date) = days
  BY <1>2, <1>3, <1>5, OneSome DEF Both
<1>6. \/ d = None /\ crate = "chrono" /\ days < Epoch
      \/ \E date \in Dates(crate) : d = Some(date) /\ DayOf(crate, date) = days
  BY DateRead DEF d
<1>7. CASE \E date \in Dates(crate) : d = Some(date) /\ DayOf(crate, date) = days
  BY <1>3, <1>5, <1>7 DEF nanos, IsPair
<1> QED
  BY <1>4, <1>6, <1>7

\* The cell a moment is stored in.
LEMMA MomentStored ==
    ASSUME NEW type, type.kind \in Moments, NEW value, NEW day, NEW nanos,
           Sends(type, value, day, nanos), NEW cell,
           EncodeMoment(type, value) # None, cell = EncodeMoment(type, value)[1],
           cell \in StoresMoment(cell)
    PROVE  LET ticks == NanosToTicks(nanos)
           IN  /\ ticks \in Nat
               /\ type.kind # "time" => day \in Nat /\ day <= MaxDay
               /\ type.kind # "date" => ticks < TicksPerDay
               /\ type.kind = "date" => cell = <<"date", day>>
               /\ type.kind = "time" => cell = <<"time", ticks>>
               /\ type.kind = "datetime" => cell = <<"datetime2", day, ticks>>
               /\ type.kind = "timestamp" => cell = <<"datetimeoffset", day, ticks, 0>>
<1> DEFINE ticks == NanosToTicks(nanos)
<1>1. /\ day \in Int /\ nanos \in Nat
      /\ EncodeMoment(type, value) = MomentArgument(type.kind, day, nanos)
  BY DEF Sends
<1>2. ticks \in Nat
  BY <1>1, FloorIs
<1>3. MaxDay \in Nat
  BY DEF MaxDay
<1> HIDE DEF ticks
<1>4. /\ cell[1] # "time" => cell[2] \in 0 .. MaxDay
      /\ cell[1] = "time" => cell[2] < TicksPerDay
      /\ cell[1] \in {"datetime2", "datetimeoffset"} => cell[3] < TicksPerDay
  BY DEF StoresMoment, Only
<1>5. CASE type.kind = "date"
  <2>1. cell = <<"date", day>>
    BY <1>1, <1>5 DEF MomentArgument, SqlDate, Unsigned, Some, None
  <2> QED
    BY <1>2, <1>3, <1>4, <1>5, <2>1 DEF ticks
<1>6. CASE type.kind = "time"
  <2>1. cell = <<"time", ticks>>
    BY <1>1, <1>6 DEF MomentArgument, Some, ticks
  <2> QED
    BY <1>2, <1>4, <1>6, <2>1 DEF ticks
<1>7. CASE type.kind \in {"datetime", "timestamp"}
  <2>1. SqlDateTime2(Unsigned(day), Some(ticks)) # None
    BY <1>1, <1>7 DEF MomentArgument, SqlDateTimeOffset, ticks
  <2>2. SqlDateTime2(Unsigned(day), Some(ticks)) = Some(<<"datetime2", day, ticks>>)
    BY <2>1 DEF SqlDateTime2, Unsigned, Some, None
  <2>3. /\ type.kind = "datetime" => cell = <<"datetime2", day, ticks>>
        /\ type.kind = "timestamp" => cell = <<"datetimeoffset", day, ticks, 0>>
    BY <1>1, <1>7, <2>2 DEF MomentArgument, SqlDateTimeOffset, Some, None, ticks
  <2> QED
    BY <1>2, <1>3, <1>4, <1>7, <2>3 DEF ticks
<1> QED
  BY <1>5, <1>6, <1>7 DEF Moments

LEMMA AtUtc ==
    ASSUME NEW date \in Int, NEW time \in ClockTime,
           NanosOfDay("time", time) < SecondsPerDay * NanosPerSecond
    PROVE  MomentOf(RustType("time", "timestamp"), [date |-> date, time |-> time, offset |-> 0])
               = <<date, NanosOfDay("time", time)>>
<1> DEFINE nanos == NanosOfDay("time", time)
           all == SecondsPerDay * NanosPerSecond
           value == [date |-> date, time |-> time, offset |-> 0]
<1>1. nanos \in Nat
  BY NanosKnown DEF Times, Crates
<1>2. all \in Nat \ {0}
  <2>1. 0 \in Nat /\ 0 < SecondsPerDay /\ 0 < NanosPerSecond
    BY Units, SecondsKnown
  <2> QED
    BY <2>1, Units, SecondsKnown, WithinDay
<1>3. MomentOf(RustType("time", "timestamp"), value)
          = <<date + (nanos - value.offset * 60 * NanosPerSecond) \div all,
              (nanos - value.offset * 60 * NanosPerSecond) % all>>
  BY DEF MomentOf, RustType, DayOf
<1>4. nanos - value.offset * 60 * NanosPerSecond = nanos
  <2>1. NanosPerSecond \in Int /\ value.offset = 0
    BY Units
  <2>2. 0 * 60 * NanosPerSecond = 0
    BY <2>1
  <2> QED
    BY <1>1, <2>1, <2>2
<1>5. nanos < all
  OBVIOUS
<1> HIDE DEF nanos, all, value
<1>6. nanos \div all = 0 /\ nanos % all = nanos
  <2>1. nanos = 0 * all + nanos /\ 0 <= nanos
    BY <1>1, <1>2
  <2> QED
    BY <1>1, <1>2, <1>5, <2>1, Divided
<1> QED
  BY <1>3, <1>4, <1>6 DEF nanos, value

\* What a moment is in UTC does not change when it is read as it was stored.
Reads(type, x, day, nanos) == x # None /\ MomentOf(type, x[1]) = <<day, nanos>>

LEMMA MomentBack ==
    ASSUME NEW type \in RustTypes, type.kind \in Moments, NEW value \in Values(type),
           NEW day, NEW nanos, Sends(type, value, day, nanos), NEW cell,
           EncodeMoment(type, value) # None, cell = EncodeMoment(type, value)[1],
           cell \in StoresMoment(cell)
    PROVE  \/ BeforeEpoch(type, cell)
           \/ Reads(type, DecodeMoment(type, cell), day, Floor(nanos, NanosPerTick))
<1> DEFINE crate == type.crate
           kind == type.kind
           ticks == NanosToTicks(nanos)
           floor == Floor(nanos, NanosPerTick)
           x == DecodeMoment(type, cell)
<1>1. type = RustType(crate, kind) /\ crate \in Crates
  BY MomentTypes
<1>2. /\ day \in Int /\ nanos \in Nat /\ MomentOf(type, value) = <<day, nanos>>
      /\ kind = "date" => nanos = 0
      /\ kind = "time" => day = 0
  BY DEF Sends
<1>3. /\ ticks \in Nat
      /\ kind # "time" => day \in Nat /\ day <= MaxDay
      /\ kind # "date" => ticks < TicksPerDay
      /\ kind = "date" => cell = <<"date", day>>
      /\ kind = "time" => cell = <<"time", ticks>>
      /\ kind = "datetime" => cell = <<"datetime2", day, ticks>>
      /\ kind = "timestamp" => cell = <<"datetimeoffset", day, ticks, 0>>
  BY MomentStored
<1>4. TicksToNanos(ticks) = floor /\ floor \in Nat
  BY <1>2, FloorIs
<1>5. kind # "date" => floor < SecondsPerDay * NanosPerSecond
  BY <1>3, <1>4, TicksInDay
<1>6. \A v : /\ kind = "date" => MomentOf(type, v) = <<DayOf(crate, v), 0>>
             /\ kind = "time" => MomentOf(type, v) = <<0, NanosOfDay(crate, v)>>
             /\ kind \in {"datetime", "timestamp"} /\ type # RustType("time", "timestamp") =>
                    MomentOf(type, v) = <<DayOf(crate, v.date), NanosOfDay(crate, v.time)>>
  BY MomentIs
<1> HIDE DEF ticks, floor
<1>7. CASE kind = "date"
  <2>1. x = DateFrom(crate, day)
    BY <1>3, <1>7, ReadCases
  <2>2. floor = 0
    <3>1. nanos = 0 /\ floor = nanos - (nanos % NanosPerTick) /\ NanosPerTick \in Nat \ {0}
      BY <1>2, <1>7, Units DEF Floor, floor
    <3>2. 0 % NanosPerTick = 0
      BY <3>1
    <3> QED
      BY <3>1, <3>2
  <2>3. \/ x = None /\ crate = "chrono" /\ day < Epoch
        \/ \E date \in Dates(crate) : x = Some(date) /\ DayOf(crate, date) = day
    BY <1>1, <1>3, <1>7, <2>1, DateRead
  <2> HIDE DEF x
  <2>4. CASE x = None /\ crate = "chrono" /\ day < Epoch
    BY <1>3, <1>7, <2>4 DEF BeforeEpoch
  <2>5. CASE \E date \in Dates(crate) : x = Some(date) /\ DayOf(crate, date) = day
    <3>1. PICK date : x = Some(date) /\ DayOf(crate, date) = day
      BY <2>5
    <3>2. Reads(type, x, day, floor)
      BY <1>6, <1>7, <2>2, <3>1, OneSome DEF Reads
    <3> QED
      BY <3>2 DEF x, floor
  <2> QED
    BY <2>3, <2>4, <2>5
<1>8. CASE kind = "time"
  <2>1. x = TimeFrom(crate, floor)
    BY <1>3, <1>4, <1>8, ReadCases
  <2>2. PICK time : x = Some(time) /\ NanosOfDay(crate, time) = floor
    BY <1>1, <1>4, <1>5, <1>8, <2>1, TimeRead
  <2> HIDE DEF x
  <2>3. Reads(type, x, day, floor)
    BY <1>2, <1>6, <1>8, <2>2, OneSome DEF Reads
  <2> QED
    BY <2>3 DEF x, floor
<1>9. CASE kind \in {"datetime", "timestamp"}
  <2> DEFINE moment == MomentFrom(crate, cell)
  <2>1. /\ cell[1] \in {"datetime2", "datetimeoffset"} /\ cell[2] = day /\ cell[3] = ticks
        /\ kind = "timestamp" => cell[1] = "datetimeoffset" /\ cell[4] = 0
    BY <1>3, <1>9
  <2>2. \/ moment = None /\ crate = "chrono" /\ day < Epoch
        \/ IsPair(crate, moment, day, floor)
    <3>1. day \in Nat /\ day <= MaxDay /\ ticks \in Nat /\ ticks < TicksPerDay
      BY <1>3, <1>9
    <3>2. \/ moment = None /\ crate = "chrono" /\ day < Epoch
          \/ IsPair(crate, moment, day, TicksToNanos(ticks))
      BY <1>1, <2>1, <3>1, PairRead
    <3> QED
      BY <1>4, <3>2
  <2> HIDE DEF moment, x
  <2>3. CASE moment = None /\ crate = "chrono" /\ day < Epoch
    BY <2>1, <2>3 DEF BeforeEpoch
  <2>4. ASSUME NEW date \in Dates(crate), NEW time \in Times(crate),
               moment = Some([date |-> date, time |-> time]),
               DayOf(crate, date) = day, NanosOfDay(crate, time) = floor,
               crate # "chrono" => SecondOfDay(time) = floor \div NanosPerSecond
        PROVE  Reads(type, x, day, floor)
    <3> DEFINE m == [date |-> date, time |-> time]
    <3>1. CASE type # RustType("time", "timestamp") /\ type # RustType("jiff", "timestamp")
      <4>1. x = moment
        <5>1. kind = "timestamp" => crate = "chrono"
          BY <1>1, <3>1 DEF Crates
        <5>2. cell[1] # "date"
          BY <2>1
        <5> QED
          BY <1>9, <5>1, <5>2, ReadCases DEF x, moment
      <4>2. MomentOf(type, m) = <<day, floor>>
        BY <1>6, <1>9, <2>4, <3>1
      <4> QED
        BY <2>4, <4>1, <4>2, OneSome DEF Reads
    <3>2. CASE type = RustType("time", "timestamp")
      <4>1. crate = "time" /\ kind = "timestamp"
        BY <3>2 DEF RustType
      <4>2. x = TimeReadTimestamp(cell)
        BY <4>1, ReadCases DEF x
      <4>3. moment = TimeMoment(cell)
        BY <4>1 DEF MomentFrom, moment
      <4>4. x = Some([date |-> date, time |-> time, offset |-> 0])
        <5>1. moment # None /\ moment[1] = m /\ m.date = date /\ m.time = time
          BY <2>4, OneSome
        <5>2. cell[1] = "datetimeoffset" /\ cell[4] = 0
          BY <2>1, <4>1
        <5> HIDE DEF m
        <5> QED
          BY <4>2, <4>3, <5>1, <5>2 DEF TimeReadTimestamp
      <4>5. date = day /\ date \in Int /\ time \in ClockTime /\ NanosOfDay("time", time) = floor
        BY <2>4, <4>1 DEF Dates, Times, DayOf
      <4>6. NanosOfDay("time", time) < SecondsPerDay * NanosPerSecond
        BY <1>5, <4>1, <4>5
      <4>7. MomentOf(type, [date |-> date, time |-> time, offset |-> 0]) = <<day, floor>>
        BY <3>2, <4>5, <4>6, AtUtc
      <4> QED
        BY <4>4, <4>7, OneSome DEF Reads
    <3>3. CASE type = RustType("jiff", "timestamp")
      <4>1. crate = "jiff" /\ kind = "timestamp" /\ type # RustType("time", "timestamp")
        BY <3>3 DEF RustType
      <4>2. x = JiffReadTimestamp(cell)
        BY <4>1, ReadCases DEF x
      <4>3. moment = JiffFromDateTime2(day, ticks)
        BY <2>1, <4>1 DEF MomentFrom, moment, JiffMoment
      <4>4. TimestampRange(m)
        <5>1. value.date \in Dates("jiff") /\ value.time \in ClockTime
          BY <4>1, MomentValues DEF Times
        <5>2. DayOf("jiff", value.date) = day /\ NanosOfDay("jiff", value.time) = nanos
          BY <1>2, <1>6, <4>1
        <5>3. day >= 0 /\ day \in Int
          BY <1>3, <4>1
        <5>4. JiffDaysFromDate(value.date) = Some(day) /\ JiffDaysFromDate(date) = Some(day)
          BY <2>4, <4>1, <5>1, <5>2, <5>3, DaySent DEF Unsigned
        <5>5. TimestampRange(value)
          <6>1. value \in {v \in [date : Dates("jiff"), time : ClockTime] :
                              JiffDaysFromDate(v.date) = None \/ TimestampRange(v)}
            BY <3>3, IntegerKinds DEF Values, RustType, Dates
          <6> QED
            BY <5>4, <6>1, OneSome
        <5>6. SecondOfDay(time) <= SecondOfDay(value.time)
              /\ SecondOfDay(time) \in Int /\ SecondOfDay(value.time) \in Int
          <6>1. /\ SecondOfDay(value.time) \in Int /\ value.time.nano < NanosPerSecond
                /\ value.time.nano \in Nat
                /\ nanos = SecondOfDay(value.time) * NanosPerSecond + value.time.nano
            BY <5>1, <5>2, ClockSeconds, SecondsKnown
          <6> DEFINE second == SecondOfDay(value.time)
                     nano == value.time.nano
          <6> HIDE DEF second, nano
          <6>2. floor <= nanos
            BY <1>2, FloorBelow, Units DEF floor
          <6>3. floor < (second + 1) * NanosPerSecond
            <7>1. (second + 1) * NanosPerSecond = second * NanosPerSecond + NanosPerSecond
                  /\ second * NanosPerSecond \in Int
              BY <6>1, Units DEF second
            <7>2. nanos = second * NanosPerSecond + nano /\ nano \in Nat /\ nano < NanosPerSecond
              BY <6>1 DEF second, nano
            <7> QED
              BY <1>4, <6>2, <7>1, <7>2, Units
          <6>4. floor \div NanosPerSecond < second + 1
            <7>1. floor \in Int /\ second + 1 \in Int
              BY <1>4, <6>1 DEF second
            <7> QED
              BY <6>3, <7>1, Units, Below
          <6>5. SecondOfDay(time) = floor \div NanosPerSecond /\ SecondOfDay(time) \in Int
            BY <1>4, <2>4, <4>1, Units
          <6>6. SecondOfDay(time) <= second
            BY <6>1, <6>4, <6>5 DEF second
          <6> QED
            BY <6>1, <6>5, <6>6 DEF second
        <5>7. JiffDaysFromDate(value.date)[1] = day /\ JiffDaysFromDate(date)[1] = day
          BY <5>4, OneSome
        <5> QED
          BY <5>5, <5>6, <5>7 DEF TimestampRange
      <4>5. x = Some(m)
        <5>1. x = TimestampFromDateTime2(day, ticks)
          BY <2>1, <4>2 DEF JiffReadTimestamp
        <5>2. moment # None /\ moment[1] = m
          BY <2>4, OneSome
        <5> QED
          BY <2>4, <4>3, <4>4, <5>1, <5>2 DEF TimestampFromDateTime2
      <4>6. MomentOf(type, m) = <<day, floor>>
        BY <1>6, <2>4, <4>1
      <4> QED
        BY <4>5, <4>6, OneSome DEF Reads
    <3> QED
      BY <3>1, <3>2, <3>3
  <2> QED
    BY <2>2, <2>3, <2>4 DEF x, floor, IsPair
<1> QED
  BY <1>7, <1>8, <1>9 DEF Moments

-----------------------------------------------------------------------------
(* What was bound comes back. *)

\* A value's own column is one its type accepts, nullable or not.
LEMMA OwnCompatible ==
    ASSUME NEW type \in RustTypes, NEW nullable \in BOOLEAN
    PROVE  LET name == OwnType[type.kind]
           IN  Compatible(type.kind, TypeInfo(name, StoredAs(name, nullable)))
<1> DEFINE kind == type.kind
           name == OwnType[kind]
           tds == StoredAs(name, nullable)
<1>1. tds = SystemTypes[name]
          \/ (name \in DOMAIN NullableStorage /\ tds = NullableStorage[name])
  BY DEF StoredAs
<1>2. TypeInfo(name, tds).tds = tds /\ TypeInfo(name, tds).name = name
  BY DEF TypeInfo
<1> DEFINE info == TypeInfo(name, tds)
<1> SUFFICES Compatible(kind, info)
  OBVIOUS
<1> HIDE DEF tds, info
<1>3. CASE kind \in {"i8", "i16", "i32", "i64", "u8", "u16", "u32", "u64", "f32", "f64"}
  <2>1. tds \in Numeric
    BY <1>1, <1>3 DEF OwnType, SystemTypes, NullableStorage, Numeric
  <2> QED
    BY <1>2, <1>3, <2>1 DEF Compatible, info
<1>4. CASE kind \in {"bool", "uuid", "string", "json", "bytes", "wkb", "decimal"}
  <2>1. /\ kind = "bool" => tds \in {"Bit", "BitN"}
        /\ kind = "uuid" => tds = "Guid"
        /\ kind \in {"string", "json"} => tds \in Character
        /\ kind \in {"bytes", "wkb"} => tds \in Binary
        /\ kind = "decimal" => tds \in Numeric
    BY <1>1, <1>4 DEF OwnType, SystemTypes, NullableStorage, Numeric, Character, Binary
  <2> QED
    BY <1>2, <1>4, <2>1 DEF Compatible, info
<1>5. CASE kind \in ShapeKinds
  <2>1. tds = "Udt" /\ name = kind
    BY <1>1, <1>5 DEF OwnType, SystemTypes, NullableStorage, ShapeKinds
  <2> QED
    BY <1>2, <1>5, <2>1 DEF Compatible, info, IsUdt, ShapeKinds
<1>6. CASE kind \in Moments
  <2>1. /\ kind = "date" => tds = "DateN"
        /\ kind = "time" => tds = "TimeN"
        /\ kind = "datetime" => tds = "DateTime2N"
        /\ kind = "timestamp" => tds = "DateTimeOffsetN"
    BY <1>1, <1>6 DEF OwnType, SystemTypes, NullableStorage, Moments
  <2> QED
    BY <1>2, <1>6, <2>1 DEF Compatible, info, Moments, NaiveDateTime
<1> QED
  BY <1>3, <1>4, <1>5, <1>6, Kinds, IntegerKinds DEF ShapeKinds

\* What the kinds decode.
LEMMA Decodes ==
    ASSUME NEW type \in RustTypes, NEW column, NEW cell
    PROVE  LET kind == type.kind
               x == Decode(type, column, cell)
           IN  /\ kind \in Integer => x = DecodeInteger(kind, cell)
               /\ kind = "bool" => x = AsBool(cell)
               /\ kind = "f32" => x = DecodeF32(cell)
               /\ kind = "f64" => x = AsF64(cell)
               /\ kind = "string" => x = DecodeString(cell)
               /\ kind = "bytes" => x = AsBytes(cell)
               /\ kind = "decimal" => x = DecodeDecimal(type.crate, cell)
               /\ kind = "uuid" => x = DecodeUuid(cell)
               /\ kind = "json" => x = DecodeJson(cell)
               /\ kind \in ShapeKinds \cup {"wkb"} => x = DecodeShape(kind, column, cell)
               /\ kind \in Moments => x = DecodeMoment(type, cell)
BY IntegerKinds DEF Decode, DecodeValue, Moments, ShapeKinds

\* A number that a Decimal of rust_decimal holds is taken as it is.
LEMMA DecimalHeld ==
    ASSUME NEW number \in Int, Held(number)
    PROVE  RustDecimal(number) = Some(number)
<1> DEFINE size == Abs(number)
           digits == TwoTo[DecimalBits]
<1>1. size \in Nat /\ number = (IF number < 0 THEN -size ELSE size)
  BY DEF Abs
<1>2. digits \in Nat
  BY TwoToDoubles, DecimalAssumption
<1>3. \/ number % 2 = 0 /\ size \div 2 < digits
      \/ number % 4 = 0 /\ size \div 4 < digits
  BY DEF Held, FitsDecimal, One, Half
<1>4. (number % 2 = 0 => size % 2 = 0) /\ (number % 4 = 0 => size % 4 = 0)
  BY DEF Abs
<1> HIDE DEF size, digits
<1>5. CASE size \div 2 < digits
  <2>1. ((size + 1) \div 2) * 2 = size /\ size \div 4 < digits
    BY <1>1, <1>2, <1>3, <1>4, <1>5
  <2> QED
    BY <1>1, <1>5, <2>1 DEF RustDecimal, FitsDecimal, One, Half, size, digits
<1>6. CASE ~(size \div 2 < digits)
  <2>1. ((size + 2) \div 4) * 4 = size /\ size \div 4 < digits
    BY <1>1, <1>2, <1>3, <1>4, <1>6
  <2> QED
    BY <1>1, <1>6, <2>1 DEF RustDecimal, FitsDecimal, One, Half, size, digits
<1> QED
  BY <1>5, <1>6

\* The cell of a value that is no moment and no shape is read as that value.
LEMMA ValueBack ==
    ASSUME NEW type \in RustTypes, type.kind \notin Moments \cup ShapeKinds,
           NEW value \in Values(type), NEW cell, Kept(type, value, cell), NEW nullable \in BOOLEAN
    PROVE  LET name == OwnType[type.kind]
           IN  Decode(type, TypeInfo(name, StoredAs(name, nullable)), cell) = Some(value)
<1> DEFINE kind == type.kind
           name == OwnType[kind]
           column == TypeInfo(name, StoredAs(name, nullable))
           x == Decode(type, column, cell)
<1>1. column.tds = StoredAs(name, nullable)
  BY DEF TypeInfo
<1> HIDE DEF column
<1>2. CASE kind \in Integer
  <2>1. cell = <<name, value * One>> /\ value \in IntegerRange[kind]
    <3>1. cell = <<name, value * One>>
      BY <1>2 DEF Kept
    <3>2. Values(type) = IntegerRange[kind]
      BY <1>2, IntegerKinds DEF Values, RustType
    <3> QED
      BY <3>1, <3>2
  <2>2. name \in Whole
    BY <1>2, IntegerKinds DEF OwnType, Whole
  <2>3. value \in Int
    BY <1>2, <2>1, IntegerKinds, Widths, SignedIs, UpToIs DEF IntegerRange
  <2>4. (value * One) \div One = value
    BY <2>3 DEF One
  <2>5. AsI64(cell) = Some(value)
    BY <2>1, <2>2, <2>4 DEF AsI64
  <2>6. DecodeInteger(kind, cell) = Some(value)
    BY <2>1, <2>5, OneSome DEF DecodeInteger
  <2> QED
    BY <1>2, <2>6, Decodes
<1>3. CASE kind = "bool"
  <2>1. cell = <<"bit", IF value THEN One ELSE 0>> /\ value \in BOOLEAN
    BY <1>3, IntegerKinds DEF Kept, Values, RustType
  <2>2. AsBool(cell) = Some(cell[2] # 0) /\ (cell[2] # 0) = value
    BY <2>1 DEF AsBool, TextualForm, Whole, One
  <2> QED
    BY <1>3, <2>2, Decodes
<1>4. CASE kind \in {"f32", "f64"}
  <2>1. /\ kind = "f32" => cell = <<"real", value>> /\ value \in Float(Mantissa[32])
        /\ kind = "f64" => cell = <<"float", value>>
    BY <1>4, IntegerKinds DEF Kept, Values, RustType
  <2>2. AsF64(cell) = Some(value)
    BY <1>4, <2>1 DEF AsF64, TextualForm, Whole
  <2>3. kind = "f32" => DecodeF32(cell) = Some(value)
    BY <2>1, <2>2, OneSome DEF DecodeF32, Float
  <2> QED
    BY <1>4, <2>2, <2>3, Decodes
<1>5. CASE kind \in {"string", "json"}
  <2>1. cell[1] \in {"string", "json"} /\ cell[2] = value
    BY <1>5 DEF Kept
  <2>2. TextualForm(cell) = Some(value)
    BY <2>1 DEF TextualForm
  <2>3. DecodeString(cell) = Some(value)
    BY <2>2, OneSome DEF DecodeString
  <2>4. kind = "json" => IsJson(value)
    BY IntegerKinds DEF Values, RustType
  <2>5. kind = "json" => DecodeJson(cell) = Some(value)
    BY <2>2, <2>4, OneSome DEF DecodeJson
  <2> QED
    BY <1>5, <2>3, <2>5, Decodes
<1>6. CASE kind = "decimal"
  <2>1. PICK point \in BOOLEAN : cell = <<"decimal", value, point>>
    BY <1>6 DEF Kept
  <2>2. TextualForm(cell) = Some(Number(value, point))
    BY <2>1 DEF TextualForm
  <2>3. Number(value, point)[1] = "number" /\ Number(value, point)[2] = value
    BY DEF Number
  <2>4. DecodeDecimal(type.crate, cell) = DecimalFromStr(type.crate, Number(value, point))
    BY <2>2, OneSome DEF DecodeDecimal
  <2>5. CASE type.crate = "bigdecimal"
    BY <1>6, <2>3, <2>4, <2>5, Decodes DEF DecimalFromStr
  <2>6. CASE type.crate = "rust_decimal"
    <3>1. value \in Int /\ Held(value)
      BY <1>6, <2>6, IntegerKinds DEF Values, RustType
    <3> QED
      BY <1>6, <2>3, <2>4, <2>6, <3>1, DecimalHeld, Decodes DEF DecimalFromStr
  <2> QED
    BY <1>6, <2>5, <2>6, Kinds
<1>7. CASE kind \in {"bytes", "uuid"}
  <2>1. /\ kind = "bytes" => cell = <<"bytes", value>>
        /\ kind = "uuid" => cell = <<"uuid", value>>
    BY <1>7 DEF Kept
  <2>2. kind = "bytes" => AsBytes(cell) = Some(value)
    BY <2>1 DEF AsBytes, TextualForm
  <2>3. kind = "uuid" => DecodeUuid(cell) = Some(value)
    BY <2>1 DEF DecodeUuid
  <2> QED
    BY <1>7, <2>2, <2>3, Decodes
<1>8. CASE kind = "wkb"
  <2>1. cell = <<"bytes", <<"wkb", value>>>>
    BY <1>8 DEF Kept
  <2>2. AsBytes(cell) = Some(<<"wkb", value>>)
    BY <2>1 DEF AsBytes, TextualForm
  <2>3. column.tds # "Udt"
    BY <1>1, <1>8 DEF OwnType, StoredAs, SystemTypes, NullableStorage
  <2>4. DecodeShape(kind, column, cell) = Some(value)
    BY <1>8, <2>2, <2>3, OneSome DEF DecodeShape
  <2>5. Decode(type, column, cell) = DecodeShape(kind, column, cell)
    BY <1>8, Decodes
  <2> QED
    BY <2>4, <2>5 DEF column
<1> QED
  BY <1>2, <1>3, <1>4, <1>5, <1>6, <1>7, <1>8, Kinds DEF column, ShapeKinds

\* A program that reads what it wrote, as the type it wrote it as.
LEMMA WriterReads ==
    ASSUME IInv, at = "done", reader.type = written.type
    PROVE  /\ written \in Writes /\ Bound(written) # None
           /\ row.cell \in Inserted(written, Bound(written)[1])
           /\ IF IsNull(row.cell) THEN result.outcome = "null"
              ELSE result = Decoded(Decode(written.type, row.column, row.cell))
           /\ \E nullable \in BOOLEAN :
                 LET name == OwnType[written.type.kind]
                 IN  row.column = TypeInfo(name, StoredAs(name, nullable))
<1>1. reader.type \in RustTypes \/ reader.type = RustType("std", AnyKind(row.column.tds))
  BY DEF IInv, ReadAs
<1>2. written # Foreign
  BY <1>1 DEF Foreign, RustTypes, RustType, Crates, Moments, Integer, IntegerRange
<1>3. PICK nullable \in BOOLEAN :
          /\ LET name == OwnType[written.type.kind]
             IN  row.column = TypeInfo(name, StoredAs(name, nullable))
          /\ written \in Writes /\ Bound(written) # None
          /\ row.cell \in Inserted(written, Bound(written)[1])
  BY <1>2 DEF IInv, Stored, VectorRow
<1>4. result = Got(written.type, reader.how, row.column, row.cell)
  BY DEF IInv, ReadAs
<1>5. written.type \in RustTypes
  BY <1>3, Written
<1>6. Compatible(written.type.kind, row.column)
  BY <1>3, <1>5, OwnCompatible
<1>7. IF IsNull(row.cell) THEN result.outcome = "null"
      ELSE result = Decoded(Decode(written.type, row.column, row.cell))
  BY <1>4, <1>6 DEF Got, Outcome
<1> QED
  BY <1>3, <1>7

\* A value read as the type that wrote it comes back: a NULL as a NULL, a moment
\* down to the tick, any other value that is no shape as it was.  Only days
\* before 1970 are lost, and only on chrono.
THEOREM ReadsBack == Spec => []ComesBack
<1>1. IInv => ComesBack
  <2> SUFFICES ASSUME IInv, at = "done", reader.type = written.type
               PROVE  ComesBack
    BY DEF ComesBack
  <2> DEFINE type == written.type
             kind == type.kind
             value == written.value[1]
             column == row.column
             cell == row.cell
             x == Decode(type, column, cell)
  <2>1. /\ written \in Writes /\ Bound(written) # None
        /\ cell \in Inserted(written, Bound(written)[1])
        /\ IF IsNull(cell) THEN result.outcome = "null" ELSE result = Decoded(x)
    BY WriterReads
  <2>2. PICK nullable \in BOOLEAN : column = TypeInfo(OwnType[kind], StoredAs(OwnType[kind], nullable))
    BY WriterReads
  <2>3. type \in RustTypes
    BY <2>1, Written
  <2>4. CASE written.value = None
    <3>1. IsNull(cell)
      BY <2>1, <2>4, NullStored DEF IsNull
    <3> QED
      BY <2>1, <2>4, <3>1 DEF ComesBack
  <2>5. CASE written.value # None
    <3>1. value \in Values(type) /\ written.value = Some(value) /\ Kept(type, value, cell)
      BY <2>1, <2>5, Written, StoredFor
    <3>2. CASE kind \in Moments
      <4>1. cell = EncodeMoment(type, value)[1] /\ cell \in StoresMoment(cell)
            /\ EncodeMoment(type, value) # None
        BY <2>1, <2>3, <2>5, <3>1, <3>2, Encodes DEF Kept, Bound, Encoded
      <4>2. PICK day, nanos : Sends(type, value, day, nanos)
        BY <2>3, <3>1, <3>2, MomentSent
      <4>3. MomentOf(type, value) = <<day, nanos>>
        BY <4>2 DEF Sends
      <4>4. ~IsNull(cell)
        BY <2>3, <3>2, <4>1, <4>2, MomentKept
      <4>5. x = DecodeMoment(type, cell)
        BY <2>3, <3>2, Decodes
      <4>6. BeforeEpoch(type, cell) \/ Reads(type, x, day, Floor(nanos, NanosPerTick))
        BY <2>3, <3>1, <3>2, <4>1, <4>2, <4>5, MomentBack
      <4> HIDE DEF x, value, type, cell
      <4>7. CASE BeforeEpoch(type, cell)
        BY <2>5, <3>2, <4>7 DEF ComesBack, type, cell
      <4>8. CASE Reads(type, x, day, Floor(nanos, NanosPerTick))
        <5>1. result.outcome = "value" /\ result.value = x
          BY <2>1, <4>4, <4>8 DEF Decoded, Outcome, Reads
        <5>2. MomentOf(type, result.value[1])
                  = <<MomentOf(type, value)[1], Floor(MomentOf(type, value)[2], NanosPerTick)>>
          BY <4>3, <4>8, <5>1 DEF Reads
        <5> QED
          BY <2>5, <3>2, <5>1, <5>2 DEF ComesBack, type, value, cell
      <4> QED
        BY <4>6, <4>7, <4>8
    <3>3. CASE kind \notin Moments \cup ShapeKinds
      <4>1. ~IsNull(cell)
        BY <2>3, <3>1, <3>3, ValueKept
      <4>2. x = Some(value)
        BY <2>2, <2>3, <3>1, <3>3, ValueBack
      <4>3. result = Outcome("value", Some(value))
        BY <2>1, <4>1, <4>2, OneSome DEF Decoded
      <4> QED
        BY <2>5, <3>1, <3>3, <4>3 DEF ComesBack
    <3>4. CASE kind \in ShapeKinds
      BY <2>5, <3>4 DEF ComesBack, ShapeKinds, Moments
    <3> QED
      BY <3>2, <3>3, <3>4
  <2> QED
    BY <2>4, <2>5
<1> QED
  BY <1>1, AlwaysKnown, PTL

-----------------------------------------------------------------------------
(* Shapes. *)

LEMMA ServerFormIs ==
    ASSUME NEW s, NEW g \in Geometries
    PROVE  LET payload == ServerForm(EncodePayload(s, g))
               e == Alone(g)
               alone == Len(e.shapes) = 1
               short == [NoTables EXCEPT !.points = e.points]
           IN  payload =
                   IF alone /\ e.shapes[1].type = "point"
                   THEN [srid |-> s, version |-> 1, properties |-> {"single_point"},
                         truncated |-> FALSE, tables |-> short]
                   ELSE IF alone /\ e.shapes[1].type = "linestring" /\ Len(e.points) = 2
                   THEN [srid |-> s, version |-> 1, properties |-> {"single_line"},
                         truncated |-> FALSE, tables |-> short]
                   ELSE [srid |-> s, version |-> 1, properties |-> {},
                         truncated |-> FALSE, tables |-> e]
<1> DEFINE e == Alone(g)
           payload == [srid |-> s, version |-> 1, properties |-> {}, truncated |-> FALSE, tables |-> e]
<1>1. EncodePayload(s, g) = payload
  BY DEF EncodePayload, Alone
<1> HIDE DEF e
<1>2. payload.tables = e
  OBVIOUS
<1>3. \A x, short :
          [payload EXCEPT !.properties = x, !.tables = short]
              = [srid |-> s, version |-> 1, properties |-> x, truncated |-> FALSE, tables |-> short]
  <2> TAKE x, short
  <2>1. PICK b : b = FALSE
    OBVIOUS
  <2> DEFINE p == [srid |-> s, version |-> 1, properties |-> {}, truncated |-> b, tables |-> e]
             q == [p EXCEPT !.properties = x]
  <2>2. q = [srid |-> s, version |-> 1, properties |-> x, truncated |-> b, tables |-> e]
    OBVIOUS
  <2>3. [p EXCEPT !.properties = x, !.tables = short] = [q EXCEPT !.tables = short]
    <3> HIDE DEF p
    <3> QED
      OBVIOUS
  <2> HIDE DEF p, q
  <2>4. [q EXCEPT !.tables = short]
        = [srid |-> s, version |-> 1, properties |-> x, truncated |-> b, tables |-> short]
    BY <2>2
  <2>5. payload = p
    BY <2>1, Zenon DEF p
  <2>6. [srid |-> s, version |-> 1, properties |-> x, truncated |-> b, tables |-> short]
        = [srid |-> s, version |-> 1, properties |-> x, truncated |-> FALSE, tables |-> short]
    BY <2>1, Zenon
  <2> HIDE DEF payload
  <2> QED
    BY <2>3, <2>4, <2>5, <2>6, Zenon
<1> HIDE DEF payload
<1>4. ServerForm(payload) =
          LET alone == Len(e.shapes) = 1
              short == [NoTables EXCEPT !.points = e.points]
          IN  IF alone /\ e.shapes[1].type = "point"
              THEN [payload EXCEPT !.properties = {"single_point"}, !.tables = short]
              ELSE IF alone /\ e.shapes[1].type = "linestring" /\ Len(e.points) = 2
              THEN [payload EXCEPT !.properties = {"single_line"}, !.tables = short]
              ELSE payload
  BY <1>2, Zenon DEF ServerForm
<1> QED
  BY <1>1, <1>3, <1>4 DEF e, payload

LEMMA ExpandedIs ==
    ASSUME NEW s, NEW g \in Geometries, ~NoExterior(g)
    PROVE  LET payload == ServerForm(EncodePayload(s, g))
           IN  /\ Expanded(payload) = Alone(g)
               /\ payload.srid = s /\ payload.version = 1 /\ payload.truncated = FALSE
               /\ payload.properties \cap {"z", "m"} = {}
<1> DEFINE payload == ServerForm(EncodePayload(s, g))
           e == Alone(g)
           short == [NoTables EXCEPT !.points = e.points]
<1>1. Normal[g][1] = e.shapes[1].type
  BY AloneIsRead, ShapeHasItsType
<1>2. short.points = e.points
  BY DEF NoTables
<1>3. CASE Len(e.shapes) = 1 /\ e.shapes[1].type = "point"
  <2>1. payload = [srid |-> s, version |-> 1, properties |-> {"single_point"},
                   truncated |-> FALSE, tables |-> short]
    BY <1>3, ServerFormIs
  <2>2. e = EncodeStroke(NoTables, -1, e.points, "point")
    BY <1>1, <1>3, KindsAre, PointIsItsPoints
  <2> HIDE DEF payload, e, short
  <2>3. Expanded(payload) = EncodeStroke(NoTables, -1, e.points, "point")
    BY <1>2, <2>1 DEF Expanded
  <2> QED
    BY <2>1, <2>2, <2>3 DEF payload, e
<1>4. CASE Len(e.shapes) = 1 /\ e.shapes[1].type = "linestring" /\ Len(e.points) = 2
  <2>1. payload = [srid |-> s, version |-> 1, properties |-> {"single_line"},
                   truncated |-> FALSE, tables |-> short]
    BY <1>4, ServerFormIs
  <2>2. e = EncodeStroke(NoTables, -1, e.points, "linestring")
    BY <1>1, <1>4, KindsAre, LineIsItsPoints
  <2> HIDE DEF payload, e, short
  <2>3. Expanded(payload) = EncodeStroke(NoTables, -1, e.points, "linestring")
    BY <1>2, <2>1 DEF Expanded
  <2> QED
    BY <2>1, <2>2, <2>3 DEF payload, e
<1>5. CASE ~(Len(e.shapes) = 1 /\ e.shapes[1].type = "point")
           /\ ~(Len(e.shapes) = 1 /\ e.shapes[1].type = "linestring" /\ Len(e.points) = 2)
  <2>1. payload = [srid |-> s, version |-> 1, properties |-> {}, truncated |-> FALSE, tables |-> e]
    BY <1>5, ServerFormIs
  <2> HIDE DEF payload, e
  <2>2. Expanded(payload) = e
    BY <2>1 DEF Expanded
  <2> QED
    BY <2>1, <2>2 DEF payload, e
<1> QED
  BY <1>3, <1>4, <1>5

\* What is encoded, and stored by the server, is decoded.
LEMMA PayloadComesBack ==
    ASSUME NEW s, NEW g \in Geometries, ~NoExterior(g)
    PROVE  DecodePayload(ServerForm(EncodePayload(s, g))) = Built(<<s, Normal[g]>>)
<1> DEFINE payload == ServerForm(EncodePayload(s, g))
           e == Alone(g)
           top == SelectInSeq(e.shapes, LAMBDA shape : shape.parent = -1)
<1>1. /\ Expanded(payload) = e
      /\ payload.srid = s /\ payload.version = 1 /\ payload.truncated = FALSE
      /\ payload.properties \cap {"z", "m"} = {}
  BY ExpandedIs
<1>2. /\ 1 \in 1 .. Len(e.shapes) /\ e.shapes[1].parent = -1 /\ Len(e.shapes) \in Nat
      /\ BuildShape(1, e) = Built(Normal[g])
  BY AloneIsRead, TablesHave DEF Sound
<1> HIDE DEF payload, e
<1>3. top = 1
  <2> DEFINE I == {i \in 1 .. Len(e.shapes) : e.shapes[i].parent = -1}
  <2>1. 1 \in I /\ \A i \in I : 1 <= i
    BY <1>2
  <2>2. top = IF I # {} THEN Min(I) ELSE 0
    BY DEF SelectInSeq
  <2>3. Min(I) = 1
    <3> HIDE DEF I
    <3>1. \A x : (x \in I /\ \A y \in I : x <= y) <=> x = 1
      <4>1. \A x \in I : x \in Int
        BY DEF I
      <4>2. ASSUME NEW x, x \in I /\ \A y \in I : x <= y PROVE x = 1
        <5>1. x \in Int /\ 1 <= x /\ x <= 1
          BY <2>1, <4>1, <4>2
        <5> QED
          BY <5>1
      <4> QED
        BY <2>1, <4>2
    <3> QED
      BY <3>1 DEF Min
  <2> HIDE DEF I
  <2> QED
    BY <2>1, <2>2, <2>3
<1>4. Built(Normal[g]) # Broken /\ Built(Normal[g])[1] = Normal[g]
  BY DEF Built, Broken
<1>5. DecodePayload(payload) = Built(<<s, Normal[g]>>)
  <2>1. DecodePayload(payload) =
            IF \/ payload.truncated
               \/ payload.version # 1
               \/ payload.properties \cap {"z", "m"} # {}
               \/ top = 0
               \/ BuildShape(top, e) = Broken
            THEN Broken
            ELSE Built(<<payload.srid, BuildShape(top, e)[1]>>)
    BY <1>1 DEF DecodePayload
  <2> HIDE DEF top
  <2> QED
    BY <1>1, <1>2, <1>3, <1>4, <2>1
<1> QED
  BY <1>5 DEF payload

\* The values of the two shape types, and the column that holds them.
LEMMA ShapeValues ==
    ASSUME NEW type \in RustTypes, type.kind \in ShapeKinds, NEW value \in Values(type)
    PROVE  value[2] \in Geometries
<1>1. Values(type) = Int \X Geometries
  BY IntegerKinds DEF Values, ShapeKinds, RustType
<1> QED
  BY <1>1

LEMMA ShapeDecoded ==
    ASSUME NEW type \in RustTypes, type.kind \in ShapeKinds, NEW payload, NEW column,
           \E nullable \in BOOLEAN :
               column = TypeInfo(OwnType[type.kind], StoredAs(OwnType[type.kind], nullable))
    PROVE  Decode(type, column, <<"bytes", <<"spatial", payload>>>>) = DecodePayload(payload)
<1> DEFINE cell == <<"bytes", <<"spatial", payload>>>>
<1>1. AsBytes(cell) = Some(<<"spatial", payload>>)
  BY DEF AsBytes, TextualForm
<1>2. IsUdt(column, type.kind)
  BY DEF IsUdt, OwnType, StoredAs, SystemTypes, NullableStorage, TypeInfo, ShapeKinds
<1>3. Decode(type, column, cell) = DecodeShape(type.kind, column, cell)
  BY Decodes DEF ShapeKinds
<1>4. DecodeShape(type.kind, column, cell) = DecodePayload(payload)
  <2>1. type.kind # "wkb"
    BY DEF ShapeKinds
  <2>2. Some(<<"spatial", payload>>) # None /\ Some(<<"spatial", payload>>)[1] = <<"spatial", payload>>
    BY OneSome
  <2> HIDE DEF cell
  <2> QED
    BY <1>1, <1>2, <2>1, <2>2 DEF DecodeShape
<1> QED
  BY <1>3, <1>4

\* A shape read as the type that wrote it comes back, through the short forms the
\* server has for one point and one segment: its reference system, its kind, all
\* its points, rings and parts, at any depth of nesting.  Only a polygon
\* without an exterior ring that has an interior one does not.
THEOREM ReadsShapesBack == Spec => []ShapesComeBack
<1>1. IInv => ShapesComeBack
  <2> SUFFICES ASSUME IInv, at = "done", reader.type = written.type,
                      written.type.kind \in ShapeKinds, written.value # None, ~HasNoExterior
               PROVE  LET value == written.value[1]
                      IN  result = Outcome("value", Some(<<value[1], Normal[value[2]]>>))
    BY DEF ShapesComeBack
  <2> DEFINE type == written.type
             kind == type.kind
             s == written.value[1][1]
             g == written.value[1][2]
             column == row.column
             cell == row.cell
             payload == ServerForm(EncodePayload(s, g))
  <2>1. /\ written \in Writes /\ Bound(written) # None
        /\ cell \in Inserted(written, Bound(written)[1])
        /\ IF IsNull(cell) THEN result.outcome = "null"
           ELSE result = Decoded(Decode(type, column, cell))
        /\ \E nullable \in BOOLEAN : column = TypeInfo(OwnType[kind], StoredAs(OwnType[kind], nullable))
    BY WriterReads
  <2>2. type \in RustTypes /\ written.value[1] \in Values(type) /\ Kept(type, written.value[1], cell)
    BY <2>1, Written, StoredFor
  <2>3. cell = <<"bytes", <<"spatial", payload>>>>
    BY <2>2 DEF Kept
  <2>4. g \in Geometries
    BY <2>2, ShapeValues
  <2>5. ~NoExterior(g)
    BY DEF HasNoExterior
  <2>6. DecodePayload(payload) = Built(<<s, Normal[g]>>)
    BY <2>4, <2>5, PayloadComesBack
  <2> HIDE DEF payload, s, g
  <2>7. Decode(type, column, cell) = DecodePayload(payload)
    BY <2>1, <2>2, <2>3, ShapeDecoded
  <2>8. result = Decoded(Some(<<s, Normal[g]>>))
    BY <2>1, <2>3, <2>6, <2>7 DEF IsNull, Built, Some
  <2> QED
    BY <2>8, OneSome DEF Decoded, s, g
<1> QED
  BY <1>1, AlwaysKnown, PTL

=============================================================================
