-------------------------- MODULE ValueTextProofs --------------------------
(***************************************************************************)
(* Proofs about ValueText: that a date is written as, and read as, the     *)
(* calendar day it stands for, whatever the limits of the days and of the  *)
(* years are.  A day is split into an era of 400 years, a century b, a     *)
(* four-year cycle e, a year f and a day r of a year that begins in March; *)
(* every quotient that civil_from_days takes is found from that split.     *)
(* And that a decimal of any integer and scale reads back as itself: the   *)
(* digits of a number by induction, then how they are cut or filled.       *)
(***************************************************************************)
EXTENDS ValueText, NatFacts, SequenceTheorems, TLAPS

(* Quotients.                                                              *)

\* What a quotient and a remainder are.
LEMMA DivFacts ==
  ASSUME NEW n \in Int, NEW d \in Nat \ {0}
  PROVE  /\ n \div d \in Int /\ n % d \in Int /\ 0 <= n % d /\ n % d < d
         /\ n = (d * (n \div d)) + (n % d)
  OBVIOUS

\* And that nothing else is.
LEMMA DivIs ==
  ASSUME NEW n \in Int, NEW d \in Nat \ {0}, NEW q \in Int, NEW s \in Int,
         0 <= s, s < d, n = (d * q) + s
  PROVE  n \div d = q /\ n % d = s
  OBVIOUS

\* Day r of year f of the four-year cycle e of the century b of an era.
Splits(doe, b, e, f, r) ==
  /\ b \in 0 .. 3 /\ e \in 0 .. 24 /\ f \in 0 .. 3 /\ r \in Nat
  /\ r <= 365 /\ (r = 365 => f = 3 /\ (e # 24 \/ b = 3))
  /\ doe = 36524 * b + 1461 * e + 365 * f + r

\* YearOfEra corrects the day for the leap days before it: 1460, 36524 and
\* 146096 are a day short of four years, a century and 400 years, or are one.
LEMMA YearOfEraIs ==
  ASSUME NEW doe, NEW b, NEW e, NEW f, NEW r, Splits(doe, b, e, f, r)
  PROVE  YearOfEra(doe) = 100 * b + 4 * e + f
<1> DEFINE last == b = 3 /\ e = 24 /\ f = 3 /\ r = 365
<1> USE DEF Splits
<1>1. doe \in Int /\ b \in Int /\ e \in Int /\ f \in Int
  OBVIOUS
<1>2. doe \div 36524 = IF last THEN 4 ELSE b
  <2>1. CASE last
    <3>1. doe = (36524 * 4) + 0
      BY <2>1
    <3> QED
      BY <1>1, <2>1, <3>1, DivIs
  <2>2. CASE ~last
    <3>1. doe = (36524 * b) + (1461 * e + 365 * f + r) /\ 0 <= 1461 * e + 365 * f + r
          /\ 1461 * e + 365 * f + r < 36524
      BY <2>2
    <3> QED
      BY <1>1, <2>2, <3>1, DivIs
  <2> QED
    BY <2>1, <2>2
<1>3. doe \div 146096 = IF last THEN 1 ELSE 0
  <2>1. CASE last
    <3>1. doe = (146096 * 1) + 0
      BY <2>1
    <3> QED
      BY <1>1, <2>1, <3>1, DivIs
  <2>2. CASE ~last
    <3>1. doe = (146096 * 0) + doe /\ 0 <= doe /\ doe < 146096
      BY <2>2
    <3> QED
      BY <1>1, <2>2, <3>1, DivIs
  <2> QED
    BY <2>1, <2>2
<1>4. CASE 24 * b + e + 365 * f + r < 1460
  <2>1. doe = (1460 * (25 * b + e)) + (24 * b + e + 365 * f + r)
    BY <1>1
  <2>2. doe \div 1460 = 25 * b + e
    BY <1>1, <1>4, <2>1, DivIs
  <2>3. doe - doe \div 1460 + doe \div 36524 - doe \div 146096
          = (365 * (100 * b + 4 * e + f)) + r
    BY <1>1, <1>2, <1>3, <2>2
  <2>4. r < 365
    BY <1>4
  <2> QED
    BY <1>1, <2>3, <2>4, DivIs DEF YearOfEra
<1>5. CASE ~(24 * b + e + 365 * f + r < 1460)
  <2>1. doe = (1460 * (25 * b + e + 1)) + (24 * b + e + 365 * f + r - 1460)
    BY <1>1
  <2>2. 0 <= 24 * b + e + 365 * f + r - 1460 /\ 24 * b + e + 365 * f + r - 1460 < 1460
    BY <1>5
  <2>3. doe \div 1460 = 25 * b + e + 1
    BY <1>1, <2>1, <2>2, DivIs
  <2>4. doe - doe \div 1460 + doe \div 36524 - doe \div 146096
          = (365 * (100 * b + 4 * e + f)) + (r - 1)
    BY <1>1, <1>2, <1>3, <2>3
  <2>5. 0 <= r - 1 /\ r - 1 < 365
    BY <1>5
  <2> QED
    BY <1>1, <2>4, <2>5, DivIs DEF YearOfEra
<1> QED
  BY <1>4, <1>5

-----------------------------------------------------------------------------
(* The years and the eras of the calendar.                                 *)

\* The length of a year.
LEMMA YearLength ==
  ASSUME NEW y \in Int
  PROVE  BeforeYear(y + 1) = BeforeYear(y) + (IF IsLeap(y) THEN 366 ELSE 365)
  BY DEF BeforeYear, IsLeap

\* A later year begins later.
LEMMA Later ==
  ASSUME NEW x \in Int, NEW y \in Int, x <= y
  PROVE  BeforeYear(x) <= BeforeYear(y)
  BY DEF BeforeYear

\* Centuries, four-year cycles and years of an era.
LEMMA EraSplits ==
  ASSUME NEW doe \in Nat, doe < 146097
  PROVE  \E b, e, f, r : Splits(doe, b, e, f, r)
<1>1. PICK b \in 0 .. 3, r1 \in Nat :
        doe = 36524 * b + r1 /\ r1 <= 36524 /\ (r1 = 36524 => b = 3)
  <2>1. CASE doe = 146096
    <3>1. doe = 36524 * 3 + 36524
      BY <2>1
    <3> QED
      BY <3>1
  <2>2. CASE doe # 146096
    <3>1. /\ doe \div 36524 \in Int /\ doe % 36524 \in Int
          /\ 0 <= doe % 36524 /\ doe % 36524 < 36524
          /\ doe = (36524 * (doe \div 36524)) + (doe % 36524)
      BY DivFacts
    <3>2. doe \div 36524 \in 0 .. 3 /\ doe % 36524 \in Nat
      BY <2>2, <3>1
    <3> QED
      BY <3>1, <3>2
  <2> QED
    BY <2>1, <2>2
<1>2. PICK e \in 0 .. 24, r2 \in Nat :
        r1 = 1461 * e + r2 /\ r2 <= 1460 /\ (r2 = 1460 => e # 24 \/ b = 3)
  <2>1. /\ r1 \div 1461 \in Int /\ r1 % 1461 \in Int
        /\ 0 <= r1 % 1461 /\ r1 % 1461 < 1461
        /\ r1 = (1461 * (r1 \div 1461)) + (r1 % 1461)
    BY DivFacts
  <2>2. r1 \div 1461 \in 0 .. 24 /\ r1 % 1461 \in Nat
    BY <1>1, <2>1
  <2> QED
    BY <1>1, <2>1, <2>2
<1>3. PICK f \in 0 .. 3, r \in Nat :
        r2 = 365 * f + r /\ r <= 365 /\ (r = 365 => f = 3 /\ r2 = 1460)
  <2>1. CASE r2 = 1460
    <3>1. r2 = 365 * 3 + 365
      BY <2>1
    <3> QED
      BY <2>1, <3>1
  <2>2. CASE r2 # 1460
    <3>1. /\ r2 \div 365 \in Int /\ r2 % 365 \in Int
          /\ 0 <= r2 % 365 /\ r2 % 365 < 365
          /\ r2 = (365 * (r2 \div 365)) + (r2 % 365)
      BY DivFacts
    <3>2. r2 \div 365 \in 0 .. 3 /\ r2 % 365 \in Nat
      BY <1>2, <2>2, <3>1
    <3> QED
      BY <3>1, <3>2
  <2> QED
    BY <2>1, <2>2
<1>4. doe = 36524 * b + 1461 * e + 365 * f + r
  BY <1>1, <1>2, <1>3
<1>5. Splits(doe, b, e, f, r)
  BY <1>1, <1>2, <1>3, <1>4 DEF Splits
<1> QED
  BY <1>5

\* The leap days of a year.
Leap(year) == IF IsLeap(year) THEN 1 ELSE 0

\* The first of March of a year, and when the year that ends with the next
\* February has 366 days.
LEMMA FirstOfMarch ==
  ASSUME NEW b \in 0 .. 3, NEW e \in 0 .. 24, NEW f \in 0 .. 3, NEW era \in Int,
         NEW y, y = 400 * era + 100 * b + 4 * e + f
  PROVE  /\ BeforeYear(y + 1)
              = 146097 * era + 36524 * b + 1461 * e + 365 * f - 719162
         /\ f = 3 /\ (e # 24 \/ b = 3) => IsLeap(y + 1)
<1>1. y \in Int /\ era \in Int /\ b \in Int /\ e \in Int /\ f \in Int
  OBVIOUS
<1>2. y \div 4 = 100 * era + 25 * b + e
  <2>1. y = (4 * (100 * era + 25 * b + e)) + f
    BY <1>1
  <2> QED
    BY <1>1, <2>1, DivIs
<1>3. y \div 100 = 4 * era + b
  <2>1. y = (100 * (4 * era + b)) + (4 * e + f)
    BY <1>1
  <2> QED
    BY <1>1, <2>1, DivIs
<1>4. y \div 400 = era
  <2>1. y = (400 * era) + (100 * b + 4 * e + f)
    BY <1>1
  <2> QED
    BY <1>1, <2>1, DivIs
<1>5. (y + 1) - 1 = y
  BY <1>1
<1>6. BeforeYear(y + 1)
        = 365 * ((y + 1) - 1970) + y \div 4 - y \div 100 + y \div 400 - 477
  BY <1>5 DEF BeforeYear
<1>7. BeforeYear(y + 1)
        = 146097 * era + 36524 * b + 1461 * e + 365 * f - 719162
  BY <1>1, <1>2, <1>3, <1>4, <1>6
<1>8. ASSUME f = 3, e # 24 \/ b = 3 PROVE IsLeap(y + 1)
  <2>1. (y + 1) % 4 = 0
    <3>1. y + 1 = (4 * (100 * era + 25 * b + e + 1)) + 0
      BY <1>1, <1>8
    <3> QED
      BY <1>1, <3>1, DivIs
  <2>2. CASE e # 24
    <3>1. y + 1 = (100 * (4 * era + b)) + (4 * e + 4) /\ 0 < 4 * e + 4 /\ 4 * e + 4 < 100
      BY <1>1, <1>8, <2>2
    <3>2. (y + 1) % 100 = 4 * e + 4
      BY <1>1, <3>1, DivIs
    <3> QED
      BY <1>1, <2>1, <3>1, <3>2 DEF IsLeap
  <2>3. CASE e = 24 /\ b = 3
    <3>1. y + 1 = (400 * (era + 1)) + 0
      BY <1>1, <1>8, <2>3
    <3>2. (y + 1) % 400 = 0
      BY <1>1, <3>1, DivIs
    <3> QED
      BY <3>2 DEF IsLeap
  <2> QED
    BY <1>8, <2>2, <2>3
<1> QED
  BY <1>7, <1>8

-----------------------------------------------------------------------------
(* The months.                                                             *)

\* The days before a month, month by month.
LEMMA MonthsTurn ==
  ASSUME NEW year
  PROVE  /\ DaysUpTo(year)[0] = 0
         /\ \A m \in 1 .. 12 :
              DaysUpTo(year)[m] = DaysUpTo(year)[m - 1] + MonthLength(year, m)
<1> DEFINE turn == [m \in 1 .. 12 |-> [days \in Nat |-> days + MonthLength(year, m)]]
           start == 0
           n == 12
<1>1. turn \in [1 .. n -> [Nat -> Nat]]
  <2>1. \A m \in 1 .. 12 : MonthLength(year, m) \in Nat
    BY DEF MonthLength
  <2> QED
    BY <2>1
<1>2. PICK f \in [0 .. n -> Nat] : Runs(f, n, start, turn)
  <2>1. n \in Nat /\ start \in Nat
    OBVIOUS
  <2> HIDE DEF n, start, turn
  <2> QED
    BY <1>1, <2>1, LoopExists, Zenon
<1>3. \A m \in 1 .. 12 : f[m] = f[m - 1] + MonthLength(year, m)
  <2> TAKE m \in 1 .. 12
  <2>1. f[m - 1] \in Nat
    OBVIOUS
  <2>2. turn[m][f[m - 1]] = f[m - 1] + MonthLength(year, m)
    BY <2>1
  <2> HIDE DEF turn
  <2> QED
    BY <1>2, <2>2 DEF Runs
<1>4. f = [m \in 0 .. 12 |-> IF m = 0 THEN 0 ELSE f[m - 1] + MonthLength(year, m)]
  <2>1. \A m \in 0 .. 12 : f[m] = IF m = 0 THEN 0 ELSE f[m - 1] + MonthLength(year, m)
    <3> TAKE m \in 0 .. 12
    <3>1. CASE m = 0
      BY <1>2, <3>1 DEF Runs
    <3>2. CASE m # 0
      BY <1>3, <3>2
    <3> QED
      BY <3>1, <3>2
  <2> HIDE DEF turn
  <2> QED
    BY <2>1
<1>5. DaysUpTo(year)
        = [m \in 0 .. 12 |->
             IF m = 0 THEN 0 ELSE DaysUpTo(year)[m - 1] + MonthLength(year, m)]
  BY <1>4, Zenon DEF DaysUpTo
<1>6. 0 \in 0 .. 12 /\ \A m \in 1 .. 12 : m \in 0 .. 12 /\ m # 0
  OBVIOUS
<1> QED
  BY <1>5, <1>6, Zenon

\* The months of a year that begins in March: where they begin, and how long
\* they are.
LEMMA MarchMonths ==
  ASSUME NEW r \in Nat, r <= 365, NEW mp, mp = (5 * r + 2) \div 153,
         NEW first, first = (153 * mp + 2) \div 5
  PROVE  \/ mp = 0  /\ first = 0   /\ r \in 0 .. 30
         \/ mp = 1  /\ first = 31  /\ r \in 31 .. 60
         \/ mp = 2  /\ first = 61  /\ r \in 61 .. 91
         \/ mp = 3  /\ first = 92  /\ r \in 92 .. 121
         \/ mp = 4  /\ first = 122 /\ r \in 122 .. 152
         \/ mp = 5  /\ first = 153 /\ r \in 153 .. 183
         \/ mp = 6  /\ first = 184 /\ r \in 184 .. 213
         \/ mp = 7  /\ first = 214 /\ r \in 214 .. 244
         \/ mp = 8  /\ first = 245 /\ r \in 245 .. 274
         \/ mp = 9  /\ first = 275 /\ r \in 275 .. 305
         \/ mp = 10 /\ first = 306 /\ r \in 306 .. 336
         \/ mp = 11 /\ first = 337 /\ r \in 337 .. 365
<1>1. /\ mp \in Int /\ (5 * r + 2) % 153 \in Int
      /\ 0 <= (5 * r + 2) % 153 /\ (5 * r + 2) % 153 < 153
      /\ 5 * r + 2 = (153 * mp) + ((5 * r + 2) % 153)
  BY DivFacts
<1>2. 153 * mp <= 5 * r + 2 /\ 5 * r + 2 < 153 * mp + 153
  BY <1>1
<1>3. 0 <= mp /\ mp <= 11
  BY <1>1, <1>2
<1>4. /\ first \in Int /\ (153 * mp + 2) % 5 \in Int
      /\ 0 <= (153 * mp + 2) % 5 /\ (153 * mp + 2) % 5 < 5
      /\ 153 * mp + 2 = (5 * first) + ((153 * mp + 2) % 5)
  BY <1>1, DivFacts
<1>5. 5 * first <= 153 * mp + 2 /\ 153 * mp + 2 < 5 * first + 5
  BY <1>4
<1>6. \/ mp = 0 \/ mp = 1 \/ mp = 2 \/ mp = 3 \/ mp = 4 \/ mp = 5
      \/ mp = 6 \/ mp = 7 \/ mp = 8 \/ mp = 9 \/ mp = 10 \/ mp = 11
  BY <1>1, <1>3
<1>7. CASE mp \in {0, 1, 2, 3}
  BY <1>2, <1>4, <1>5, <1>7
<1>8. CASE mp \in {4, 5, 6, 7}
  BY <1>2, <1>4, <1>5, <1>8
<1>9. CASE mp \in {8, 9, 10, 11}
  BY <1>2, <1>4, <1>5, <1>9
<1> QED
  BY <1>6, <1>7, <1>8, <1>9

\* The days of a year before each of its months.
LEMMA BeforeMonthIs ==
  ASSUME NEW year
  PROVE  /\ BeforeMonth(year, 1) = 0 /\ BeforeMonth(year, 2) = 31
         /\ BeforeMonth(year, 3) = Leap(year) + 59
         /\ BeforeMonth(year, 4) = Leap(year) + 90
         /\ BeforeMonth(year, 5) = Leap(year) + 120
         /\ BeforeMonth(year, 6) = Leap(year) + 151
         /\ BeforeMonth(year, 7) = Leap(year) + 181
         /\ BeforeMonth(year, 8) = Leap(year) + 212
         /\ BeforeMonth(year, 9) = Leap(year) + 243
         /\ BeforeMonth(year, 10) = Leap(year) + 273
         /\ BeforeMonth(year, 11) = Leap(year) + 304
         /\ BeforeMonth(year, 12) = Leap(year) + 334
<1> DEFINE d == DaysUpTo(year)
<1>1. d[0] = 0 /\ \A m \in 1 .. 12 : d[m] = d[m - 1] + MonthLength(year, m)
  BY MonthsTurn
<1>2. \A m \in 1 .. 12 : BeforeMonth(year, m) = d[m - 1]
  BY DEF BeforeMonth
<1> HIDE DEF d
<1>3. d[1] = 31 /\ d[2] = 59 + Leap(year)
  <2>1. d[1] = d[0] + MonthLength(year, 1) /\ d[2] = d[1] + MonthLength(year, 2)
    BY <1>1
  <2> QED
    BY <1>1, <2>1 DEF MonthLength, Leap
<1>4. d[3] = 90 + Leap(year) /\ d[4] = 120 + Leap(year) /\ d[5] = 151 + Leap(year)
  <2>1. /\ d[3] = d[2] + MonthLength(year, 3) /\ d[4] = d[3] + MonthLength(year, 4)
        /\ d[5] = d[4] + MonthLength(year, 5)
    BY <1>1
  <2> QED
    BY <1>3, <2>1 DEF MonthLength, Leap
<1>5. d[6] = 181 + Leap(year) /\ d[7] = 212 + Leap(year) /\ d[8] = 243 + Leap(year)
  <2>1. /\ d[6] = d[5] + MonthLength(year, 6) /\ d[7] = d[6] + MonthLength(year, 7)
        /\ d[8] = d[7] + MonthLength(year, 8)
    BY <1>1
  <2> QED
    BY <1>4, <2>1 DEF MonthLength, Leap
<1>6. d[9] = 273 + Leap(year) /\ d[10] = 304 + Leap(year) /\ d[11] = 334 + Leap(year)
  <2>1. /\ d[9] = d[8] + MonthLength(year, 9) /\ d[10] = d[9] + MonthLength(year, 10)
        /\ d[11] = d[10] + MonthLength(year, 11)
    BY <1>1
  <2> QED
    BY <1>5, <2>1 DEF MonthLength, Leap
<1>7. Leap(year) \in Int
  BY DEF Leap
<1> QED
  BY <1>1, <1>2, <1>3, <1>4, <1>5, <1>6, <1>7

\* A number that fits is not wrapped.
LEMMA WrapIs ==
  ASSUME NEW limit \in Nat \ {0}, NEW n \in Int, -limit <= n, n < limit
  PROVE  Wrap(n, limit) = n
<1>1. n + limit = ((2 * limit) * 0) + (n + limit)
  OBVIOUS
<1>2. 2 * limit \in Nat \ {0} /\ n + limit \in Int /\ 0 <= n + limit /\ n + limit < 2 * limit
  OBVIOUS
<1>3. (n + limit) % (2 * limit) = n + limit
  BY <1>1, <1>2, DivIs
<1> QED
  BY <1>3 DEF Wrap

\* A day far enough from the ends of an i64 lies in the era it is said to.
LEMMA EraIs ==
  ASSUME NEW z \in Int, DayLimit \in Nat \ {0}, -DayLimit <= z - 146096, z < DayLimit
  PROVE  Era(z) = z \div 146097
<1>1. CASE z >= 0
  BY <1>1 DEF Era, Quotient
<1>2. CASE ~(z >= 0)
  <2> DEFINE q == z \div 146097
             s == z % 146097
  <2>1. q \in Int /\ s \in Int /\ 0 <= s /\ s < 146097 /\ z = (146097 * q) + s
    BY DivFacts
  <2> HIDE DEF q, s
  <2>2. Wrap(z - 146096, DayLimit) = z - 146096
    BY <1>2, WrapIs
  <2>3. Era(z) = Quotient(z - 146096, 146097)
    BY <1>2, <2>2 DEF Era
  <2>4. Era(z) = -((-(z - 146096)) \div 146097)
    BY <1>2, <2>3 DEF Quotient
  <2>5. -(z - 146096) = (146097 * (-q)) + (146096 - s)
    BY <2>1
  <2>6. (-(z - 146096)) \div 146097 = -q
    BY <2>1, <2>5, DivIs
  <2>7. Era(z) = q
    BY <2>1, <2>4, <2>6
  <2> QED
    BY <2>7 DEF q
<1> QED
  BY <1>1, <1>2

\* The date found for a day is a day of the calendar, and that day.
LEMMA CivilIs ==
  ASSUME NEW z \in Int, DayLimit \in Nat, DayLimit > 146097,
         -DayLimit <= z - 146096, z < DayLimit
  PROVE  LET date == Civil(z)
         IN /\ date.year \in Int /\ date.month \in 1 .. 12
            /\ date.day \in 1 .. MonthLength(date.year, date.month)
            /\ BeforeYear(date.year) + BeforeMonth(date.year, date.month) + date.day - 1
                 = z - 719468
<1> DEFINE era == z \div 146097
           doe == z % 146097
<1>1. era \in Int /\ doe \in Nat /\ doe < 146097 /\ z = (146097 * era) + doe
  BY DivFacts
<1>2. Era(z) = era
  BY EraIs
<1> HIDE DEF era, doe
<1>3. Wrap(z - Era(z) * 146097, DayLimit) = doe
  <2>1. z - Era(z) * 146097 = doe
    BY <1>1, <1>2
  <2> QED
    BY <1>1, <2>1, WrapIs
<1>4. PICK b, e, f, r : Splits(doe, b, e, f, r)
  BY <1>1, EraSplits
<1>a. /\ b \in 0 .. 3 /\ e \in 0 .. 24 /\ f \in 0 .. 3 /\ r \in Nat
      /\ r <= 365 /\ (r = 365 => f = 3 /\ (e # 24 \/ b = 3))
      /\ doe = 36524 * b + 1461 * e + 365 * f + r
  BY <1>4 DEF Splits
<1> DEFINE yoe == 100 * b + 4 * e + f
           y == 400 * era + 100 * b + 4 * e + f
           mp == (5 * r + 2) \div 153
           first == (153 * mp + 2) \div 5
           m == IF mp < 10 THEN mp + 3 ELSE mp - 9
           year == IF m <= 2 THEN y + 1 ELSE y
<1>5. YearOfEra(doe) = yoe
  BY <1>4, YearOfEraIs
<1>6. yoe \in Int /\ yoe \div 4 = 25 * b + e /\ yoe \div 100 = b
  <2>1. yoe = (4 * (25 * b + e)) + f /\ yoe = (100 * b) + (4 * e + f)
    BY <1>a
  <2>2. yoe \in Int /\ 25 * b + e \in Int /\ b \in Int /\ 4 * e + f \in Int /\ f \in Int
    BY <1>a
  <2>3. 0 <= f /\ f < 4 /\ 0 <= 4 * e + f /\ 4 * e + f < 100
    BY <1>a
  <2> HIDE DEF yoe
  <2> QED
    BY <2>1, <2>2, <2>3, DivIs
<1>7. doe - (365 * yoe + yoe \div 4 - yoe \div 100) = r
  <2>1. doe - (365 * yoe + (25 * b + e) - b) = r
    BY <1>a
  <2> QED
    BY <1>6, <2>1
<1>8. /\ Civil(z).year = yoe + era * 400 + (IF m <= 2 THEN 1 ELSE 0)
      /\ Civil(z).month = m /\ Civil(z).day = r - first + 1
  <2>1. Civil(z) = DayOfYear(era, yoe, r)
    <3> HIDE DEF yoe
    <3> QED
      BY <1>2, <1>3, <1>5, <1>7 DEF Civil
  <2> HIDE DEF yoe
  <2> QED
    BY <2>1 DEF DayOfYear
<1>9. /\ BeforeYear(y + 1) = 146097 * era + 36524 * b + 1461 * e + 365 * f - 719162
      /\ f = 3 /\ (e # 24 \/ b = 3) => IsLeap(y + 1)
  <2>1. b \in 0 .. 3 /\ e \in 0 .. 24 /\ f \in 0 .. 3
    BY <1>a
  <2>2. y = 400 * era + 100 * b + 4 * e + f
    OBVIOUS
  <2> HIDE DEF y
  <2> QED
    BY <1>1, <2>1, <2>2, FirstOfMarch
<1>10. y \in Int /\ BeforeYear(y) \in Int
       /\ BeforeYear(y + 1) = BeforeYear(y) + 365 + Leap(y)
  <2>1. y \in Int
    BY <1>1, <1>a
  <2> HIDE DEF y
  <2>2. BeforeYear(y + 1) = BeforeYear(y) + (IF IsLeap(y) THEN 366 ELSE 365)
    BY <2>1, YearLength
  <2>3. BeforeYear(y) \in Int
    <3>1. (y - 1) \div 4 \in Int /\ (y - 1) \div 100 \in Int /\ (y - 1) \div 400 \in Int
      BY <2>1, DivFacts
    <3> QED
      BY <2>1, <3>1 DEF BeforeYear
  <2> QED
    BY <2>1, <2>2, <2>3 DEF Leap
<1>11. BeforeYear(y + 1) = z - r - 719162
  BY <1>1, <1>a, <1>9
<1>12. Civil(z).year = year
  BY <1>1, <1>a, <1>8
<1>13. r = 365 => IsLeap(y + 1)
  BY <1>a, <1>9
<1> SUFFICES /\ year \in Int /\ m \in 1 .. 12
             /\ r - first + 1 \in 1 .. MonthLength(year, m)
             /\ BeforeYear(year) + BeforeMonth(year, m) + (r - first + 1) - 1 = z - 719468
  BY <1>8, <1>12
<1>14. \/ mp = 0  /\ first = 0   /\ r \in 0 .. 30
       \/ mp = 1  /\ first = 31  /\ r \in 31 .. 60
       \/ mp = 2  /\ first = 61  /\ r \in 61 .. 91
       \/ mp = 3  /\ first = 92  /\ r \in 92 .. 121
       \/ mp = 4  /\ first = 122 /\ r \in 122 .. 152
       \/ mp = 5  /\ first = 153 /\ r \in 153 .. 183
       \/ mp = 6  /\ first = 184 /\ r \in 184 .. 213
       \/ mp = 7  /\ first = 214 /\ r \in 214 .. 244
       \/ mp = 8  /\ first = 245 /\ r \in 245 .. 274
       \/ mp = 9  /\ first = 275 /\ r \in 275 .. 305
       \/ mp = 10 /\ first = 306 /\ r \in 306 .. 336
       \/ mp = 11 /\ first = 337 /\ r \in 337 .. 365
  BY <1>a, MarchMonths
<1>15. Leap(y) \in Int /\ Leap(y) >= 0
  BY DEF Leap
<1> HIDE DEF y, mp, first, yoe
<1>16. CASE mp < 10
  <2>1. mp \in Int /\ m = mp + 3 /\ m \in 3 .. 12 /\ year = y
    BY <1>14, <1>16
  <2>2. first \in Int /\ BeforeMonth(y, mp + 3) = Leap(y) + first + 59
    <3>1. CASE mp \in {0, 1, 2, 3, 4}
      BY <1>14, <1>15, <3>1, BeforeMonthIs
    <3>2. CASE mp \in {5, 6, 7, 8, 9}
      BY <1>14, <1>15, <3>2, BeforeMonthIs
    <3> QED
      BY <1>14, <1>16, <3>1, <3>2
  <2>3. r - first + 1 \in 1 .. MonthLength(year, m)
    BY <1>14, <1>16, <2>1 DEF MonthLength
  <2>4. BeforeYear(year) + BeforeMonth(year, m) + (r - first + 1) - 1 = z - 719468
    <3>1. BeforeMonth(year, m) = Leap(y) + first + 59
      BY <2>1, <2>2
    <3> QED
      BY <1>a, <1>10, <1>11, <1>15, <2>2, <2>1, <3>1
  <2> QED
    BY <1>10, <2>1, <2>3, <2>4
<1>17. CASE ~(mp < 10)
  <2>1. year = y + 1 /\ m = mp - 9
        /\ (\/ m = 1 /\ first = 306 /\ r \in 306 .. 336
            \/ m = 2 /\ first = 337 /\ r \in 337 .. 365)
    BY <1>14, <1>17
  <2>2. first \in Int /\ BeforeMonth(year, m) = first - 306
    BY <2>1, BeforeMonthIs
  <2>3. r - first + 1 \in 1 .. MonthLength(year, m)
    BY <1>13, <2>1 DEF MonthLength
  <2>4. BeforeYear(year) + BeforeMonth(year, m) + (r - first + 1) - 1 = z - 719468
    BY <1>10, <1>11, <2>1, <2>2
  <2> QED
    BY <1>10, <2>1, <2>3, <2>4
<1> QED
  BY <1>14, <1>16, <1>17

-----------------------------------------------------------------------------
(* The dates.                                                              *)

\* `date` is the day that lies `days` after 1970-01-01.
IsDay(date, days) ==
  /\ date.month \in 1 .. 12
  /\ date.day \in 1 .. MonthLength(date.year, date.month)
  /\ BeforeYear(date.year) + BeforeMonth(date.year, date.month) + date.day - 1 = days

\* The lengths of the months.
LEMMA MonthLengthIs ==
  ASSUME NEW year
  PROVE  /\ MonthLength(year, 1) = 31 /\ MonthLength(year, 2) = 28 + Leap(year)
         /\ MonthLength(year, 3) = 31 /\ MonthLength(year, 4) = 30
         /\ MonthLength(year, 5) = 31 /\ MonthLength(year, 6) = 30
         /\ MonthLength(year, 7) = 31 /\ MonthLength(year, 8) = 31
         /\ MonthLength(year, 9) = 30 /\ MonthLength(year, 10) = 31
         /\ MonthLength(year, 11) = 30 /\ MonthLength(year, 12) = 31
  BY DEF MonthLength, Leap

\* A date whose year has not been cut, and the day it is.
Dated(date, days, first, last) ==
  /\ days \in Int /\ date.year \in Int /\ IsDay(date, days)
  /\ first \in Int /\ last \in Int

\* The days of a month lie in its year.
LEMMA MonthsFitYear ==
  ASSUME NEW year, NEW m \in 1 .. 12
  PROVE  /\ BeforeMonth(year, m) \in Nat /\ MonthLength(year, m) \in Nat
         /\ BeforeMonth(year, m) + MonthLength(year, m) <= 365 + Leap(year)
<1>1. Leap(year) \in {0, 1} /\ (IsLeap(year) => Leap(year) = 1)
  BY DEF Leap
<1>2. CASE m \in {1, 2, 3, 4}
  BY <1>1, <1>2, BeforeMonthIs, MonthLengthIs
<1>3. CASE m \in {5, 6, 7, 8}
  BY <1>1, <1>3, BeforeMonthIs, MonthLengthIs
<1>4. CASE m \in {9, 10, 11, 12}
  BY <1>1, <1>4, BeforeMonthIs, MonthLengthIs
<1>5. m \in {1, 2, 3, 4} \/ m \in {5, 6, 7, 8} \/ m \in {9, 10, 11, 12}
  OBVIOUS
<1> QED
  BY <1>2, <1>3, <1>4, <1>5

\* BeforeYear is a number of days.
LEMMA BeforeYearIsInt ==
  ASSUME NEW y \in Int
  PROVE  BeforeYear(y) \in Int
<1>1. (y - 1) \div 4 \in Int /\ (y - 1) \div 100 \in Int /\ (y - 1) \div 400 \in Int
  BY DivFacts
<1> QED
  BY <1>1 DEF BeforeYear

\* A day lies between the first of its year and the first of the next.
LEMMA DayInYear ==
  ASSUME NEW date, NEW days \in Int, date.year \in Int, IsDay(date, days)
  PROVE  BeforeYear(date.year) <= days /\ days < BeforeYear(date.year + 1)
<1> DEFINE y == date.year
           m == date.month
           d == date.day
<1>1. BeforeYear(y) \in Int /\ BeforeYear(y + 1) = BeforeYear(y) + 365 + Leap(y)
  <2>1. BeforeYear(y + 1) = BeforeYear(y) + (IF IsLeap(y) THEN 366 ELSE 365)
    BY YearLength
  <2>2. BeforeYear(y) \in Int
    BY BeforeYearIsInt
  <2> QED
    BY <2>1, <2>2 DEF Leap
<1>2. /\ m \in 1 .. 12 /\ d \in 1 .. MonthLength(y, m)
      /\ BeforeYear(y) + BeforeMonth(y, m) + d - 1 = days
  BY DEF IsDay
<1>3. /\ BeforeMonth(y, m) \in Nat /\ MonthLength(y, m) \in Nat
      /\ BeforeMonth(y, m) + MonthLength(y, m) <= 365 + Leap(y)
  BY <1>2, MonthsFitYear
<1>4. Leap(y) \in Int
  BY DEF Leap
<1> HIDE DEF y, m, d
<1>5. BeforeYear(y) <= days /\ days < BeforeYear(y + 1)
  BY <1>1, <1>2, <1>3, <1>4
<1> QED
  BY <1>5 DEF y

\* Between which years a day lies.
LEMMA YearBetween ==
  ASSUME NEW date, NEW days, NEW first, NEW last, Dated(date, days, first, last)
  PROVE  /\ Fits(days, first, last) => first <= date.year /\ date.year <= last
         /\ first <= date.year /\ date.year <= last => Fits(days, first, last)
<1> DEFINE y == date.year
<1>1. BeforeYear(y) <= days /\ days < BeforeYear(y + 1)
  BY DayInYear DEF Dated
<1>2. y \in Int /\ days \in Int /\ first \in Int /\ last \in Int
  BY DEF Dated
<1> HIDE DEF y
<1>3. /\ BeforeYear(y) \in Int /\ BeforeYear(y + 1) \in Int
      /\ BeforeYear(first) \in Int /\ BeforeYear(last + 1) \in Int
  BY <1>2, BeforeYearIsInt
<1>4. first <= y => BeforeYear(first) <= BeforeYear(y)
  BY <1>2, Later
<1>5. y < first => BeforeYear(y + 1) <= BeforeYear(first)
  BY <1>2, Later
<1>6. y <= last => BeforeYear(y + 1) <= BeforeYear(last + 1)
  BY <1>2, Later
<1>7. last < y => BeforeYear(last + 1) <= BeforeYear(y)
  BY <1>2, Later
<1>8. /\ Fits(days, first, last) => first <= y /\ y <= last
      /\ first <= y /\ y <= last => Fits(days, first, last)
  BY <1>1, <1>2, <1>3, <1>4, <1>5, <1>6, <1>7 DEF Fits
<1> QED
  BY <1>8 DEF y

\* Where the year fits an i32, nothing overflows, and the date is the day.
LEMMA CivilFits ==
  ASSUME NEW days \in Days, FitsYear(days), NEW date \in CivilFromDays(days)
  PROVE  /\ date = [kind |-> "date", year |-> date.year, month |-> date.month,
                    day |-> date.day]
         /\ date.year \in Int /\ IsDay(date, days)
<1> DEFINE z == days + 719468
           c == Civil(z)
<1>1. /\ YearLimit \in Nat \ {0} /\ DayLimit \in Nat /\ days \in Int
      /\ DayLimit >= 719468 + 146097 /\ DayLimit >= 719468 + BeforeYear(YearLimit)
      /\ -DayLimit <= days
  BY LimitsAssumption DEF Signed
<1>2. days < BeforeYear(YearLimit)
  BY <1>1 DEF FitsYear, Fits
<1>3. BeforeYear(YearLimit) \in Int
  BY <1>1, BeforeYearIsInt
<1>4. z \in Int /\ z < DayLimit /\ -DayLimit <= z - 146096 /\ DayLimit > 146097
  BY <1>1, <1>2, <1>3
<1>5. z \in Signed(DayLimit)
  BY <1>1, <1>4 DEF Signed
<1>6. c.year \in Int /\ IsDay(c, days)
  <2>1. z - 719468 = days
    BY <1>1
  <2> HIDE DEF z
  <2> QED
    BY <1>1, <1>4, <2>1, CivilIs DEF IsDay
<1>7. c.year \in -YearLimit .. YearLimit - 1
  <2> DEFINE first == -YearLimit
             last == YearLimit - 1
  <2>1. first \in Int /\ last \in Int /\ Fits(days, first, last)
    BY <1>1 DEF FitsYear
  <2> HIDE DEF c, first, last
  <2>2. Dated(c, days, first, last)
    BY <1>1, <1>6, <2>1 DEF Dated
  <2>3. first <= c.year /\ c.year <= last
    BY <2>1, <2>2, YearBetween
  <2> QED
    BY <1>1, <1>6, <2>3 DEF first, last
<1>8. Wrap(c.year, YearLimit) = c.year
  <2> HIDE DEF c
  <2> QED
    BY <1>1, <1>6, <1>7, WrapIs
<1>9. date = [kind |-> "date", year |-> Wrap(c.year, YearLimit),
              month |-> c.month, day |-> c.day]
  BY <1>5 DEF CivilFromDays
<1> HIDE DEF c
<1>10. /\ date = [kind |-> "date", year |-> date.year, month |-> date.month,
                  day |-> date.day]
       /\ date.year = c.year /\ date.month = c.month /\ date.day = c.day
  BY <1>8, <1>9
<1> QED
  BY <1>6, <1>10 DEF IsDay

\* chrono takes the date, or its year lies outside chrono's.
LEMMA NaiveFits ==
  ASSUME NEW days \in Days, FitsYear(days), NEW date \in CivilFromDays(days)
  PROVE  \/ Naive(date).kind = "naive" /\ IsDay(Naive(date), days)
         \/ Naive(date) = OutOfRange /\ ~FitsChrono(days)
<1>1. /\ date = [kind |-> "date", year |-> date.year, month |-> date.month,
                 day |-> date.day]
      /\ date.year \in Int /\ IsDay(date, days)
  BY CivilFits
<1>2. days \in Int /\ ChronoFirst \in Int /\ ChronoLast \in Int
  BY LimitsAssumption DEF Signed
<1>3. date # Panic
  BY <1>1 DEF Panic
<1>4. /\ FitsChrono(days) => ChronoFirst <= date.year /\ date.year <= ChronoLast
      /\ ChronoFirst <= date.year /\ date.year <= ChronoLast => FitsChrono(days)
  <2>1. Dated(date, days, ChronoFirst, ChronoLast)
    BY <1>1, <1>2 DEF Dated
  <2> QED
    BY <2>1, YearBetween DEF FitsChrono
<1>5. CASE date.year \in ChronoFirst .. ChronoLast
  <2>1. Naive(date) = [date EXCEPT !.kind = "naive"]
    BY <1>3, <1>5 DEF Naive
  <2>2. /\ Naive(date).kind = "naive" /\ Naive(date).year = date.year
        /\ Naive(date).month = date.month /\ Naive(date).day = date.day
    BY <1>1, <2>1
  <2> QED
    BY <1>1, <2>2 DEF IsDay
<1>6. CASE ~(date.year \in ChronoFirst .. ChronoLast)
  BY <1>1, <1>2, <1>3, <1>4, <1>6 DEF Naive
<1> QED
  BY <1>5, <1>6

\* Whatever the widths, every date whose year fits is written, and read into a
\* NaiveDate, as the calendar day it is (civil_from_days, FromValue for
\* NaiveDate).  No action is enabled once there is a text, so that the invariant
\* need only add the range of `value`.
THEOREM DatesAreDays == Spec => []DateIsItsDays
<1> DEFINE Inv == value \in Dates \cup Decimals /\ DateIsItsDays
<1>1. Init => Inv
  BY DEF Init, DateIsItsDays
<1>2. Inv /\ [Next]_vars => Inv'
  <2> SUFFICES ASSUME Inv, [Next]_vars PROVE Inv'
    OBVIOUS
  <2>1. value.type = "DATE" => value.days \in Days
    BY DEF Dates, Decimals
  <2>2. CASE WriteDate
    <3>1. value' = value /\ value.type = "DATE" /\ text' \in CivilFromDays(value.days)
      BY <2>2 DEF WriteDate
    <3>2. FitsYear(value.days) =>
            /\ text' = [kind |-> "date", year |-> text'.year, month |-> text'.month,
                        day |-> text'.day]
            /\ IsDay(text', value.days)
      BY <2>1, <3>1, CivilFits
    <3> QED
      BY <3>1, <3>2 DEF DateIsItsDays, IsItsDay, IsDay
  <2>3. CASE ReadNaiveDate
    <3>1. PICK date \in CivilFromDays(value.days) : text' = Naive(date)
      BY <2>3 DEF ReadNaiveDate
    <3>2. value' = value /\ value.type = "DATE"
      BY <2>3 DEF ReadNaiveDate
    <3>3. FitsYear(value.days) =>
            \/ text'.kind = "naive" /\ IsDay(text', value.days)
            \/ text' = OutOfRange /\ ~FitsChrono(value.days)
      BY <2>1, <3>1, <3>2, NaiveFits
    <3>4. OutOfRange.kind = "OutOfRange"
      BY DEF OutOfRange
    <3> QED
      BY <3>2, <3>3, <3>4 DEF DateIsItsDays, IsItsDay, IsDay
  <2>4. CASE WriteDecimal
    <3>1. value' = value /\ value.type = "DECIMAL"
      BY <2>4 DEF WriteDecimal
    <3> QED
      BY <3>1 DEF DateIsItsDays
  <2>5. CASE UNCHANGED vars
    <3>1. value' = value /\ text' = text
      BY <2>5 DEF vars
    <3> QED
      BY <3>1 DEF DateIsItsDays, IsItsDay
  <2> QED
    BY <2>2, <2>3, <2>4, <2>5 DEF Next
<1>3. Inv => DateIsItsDays
  OBVIOUS
<1> QED
  BY <1>1, <1>2, <1>3, PTL DEF Spec

-----------------------------------------------------------------------------
(* The digits of a number.                                                *)

\* A number of several digits has a tenth with fewer, and its last digit.
LEMMA Tenth ==
  ASSUME NEW k \in Nat, k >= 10
  PROVE  /\ k \div 10 \in Nat /\ k \div 10 >= 1 /\ k \div 10 < k
         /\ k % 10 \in 0 .. 9 /\ k = 10 * (k \div 10) + (k % 10)
<1> DEFINE q == k \div 10
           r == k % 10
<1>1. q \in Int /\ r \in Int /\ 0 <= r /\ r < 10 /\ k = 10 * q + r
  BY DivFacts
<1> HIDE DEF q, r
<1>2. q \in Nat /\ q >= 1 /\ q < k /\ r \in 0 .. 9
  BY <1>1
<1> QED
  BY <1>1, <1>2, Zenon DEF q, r

\* f holds the digits of every number up to m.
Written(f, m) ==
  \A k \in 0 .. m : f[k] = IF k < 10 THEN <<k>> ELSE Append(f[k \div 10], k % 10)

\* The recursion over the numbers up to n has a solution.
LEMMA DigitsExist ==
  ASSUME NEW n \in Nat
  PROVE  \E f \in [0 .. n -> Seq(Nat)] : Written(f, n)
<1> DEFINE H == {m \in 0 .. n : \E f \in [0 .. m -> Seq(Nat)] : Written(f, m)}
<1>1. 0 \in H
  <2> DEFINE f == [k \in 0 .. 0 |-> <<k>>]
  <2>1. f \in [0 .. 0 -> Seq(Nat)]
    OBVIOUS
  <2>2. Written(f, 0)
    BY DEF Written
  <2> HIDE DEF f
  <2>3. 0 \in 0 .. n
    OBVIOUS
  <2> QED
    BY <2>1, <2>2, <2>3
<1>2. ASSUME NEW m \in 1 .. n, m - 1 \in H PROVE m \in H
  <2>1. PICK f \in [0 .. m - 1 -> Seq(Nat)] : Written(f, m - 1)
    BY <1>2
  <2> DEFINE next == IF m < 10 THEN <<m>> ELSE Append(f[m \div 10], m % 10)
             g    == [k \in 0 .. m |-> IF k = m THEN next ELSE f[k]]
  <2>2. next \in Seq(Nat)
    <3>1. CASE m < 10
      BY <3>1
    <3>2. CASE ~(m < 10)
      <4>1. m \div 10 \in 0 .. m - 1 /\ m % 10 \in Nat
        BY <3>2, Tenth
      <4>2. f[m \div 10] \in Seq(Nat)
        BY <4>1
      <4> QED
        BY <3>2, <4>1, <4>2
    <3> QED
      BY <3>1, <3>2
  <2>3. g \in [0 .. m -> Seq(Nat)]
    <3> HIDE DEF next
    <3> QED
      BY <2>2
  <2>4. ASSUME NEW k \in 0 .. m
        PROVE  g[k] = IF k < 10 THEN <<k>> ELSE Append(g[k \div 10], k % 10)
    <3>1. ~(k < 10) => k \div 10 \in 0 .. m /\ k \div 10 # m /\ k \div 10 \in 0 .. m - 1
      BY Tenth
    <3>2. ~(k < 10) => g[k \div 10] = f[k \div 10]
      BY <3>1
    <3>3. CASE k = m
      <4>1. g[k] = next
        BY <3>3
      <4>2. next = IF k < 10 THEN <<k>> ELSE Append(f[k \div 10], k % 10)
        BY <3>3
      <4> HIDE DEF g, next
      <4> QED
        BY <3>2, <4>1, <4>2
    <3>4. CASE k # m
      <4>1. g[k] = f[k] /\ k \in 0 .. m - 1
        BY <3>4
      <4>2. f[k] = IF k < 10 THEN <<k>> ELSE Append(f[k \div 10], k % 10)
        BY <2>1, <4>1 DEF Written
      <4> HIDE DEF g, next
      <4> QED
        BY <3>2, <4>1, <4>2
    <3> QED
      BY <3>3, <3>4
  <2>5. Written(g, m)
    <3> HIDE DEF g
    <3> QED
      BY <2>4, Zenon DEF Written
  <2> HIDE DEF g
  <2>6. m \in 0 .. n
    OBVIOUS
  <2> QED
    BY <2>3, <2>5, <2>6
<1>3. \A m \in 0 .. n : m \in H
  <2> HIDE DEF H
  <2> QED
    BY <1>1, <1>2, Turns
<1>4. n \in 0 .. n
  OBVIOUS
<1> QED
  BY <1>3, <1>4

\* The digits of a number, from those of its tenth.
LEMMA DigitsTurn ==
  ASSUME NEW n \in Nat
  PROVE  Written(DigitsUpTo(n), n)
<1>1. PICK f \in [0 .. n -> Seq(Nat)] : Written(f, n)
  BY DigitsExist
<1>2. f = [k \in 0 .. n |-> IF k < 10 THEN <<k>> ELSE Append(f[k \div 10], k % 10)]
  BY <1>1 DEF Written
<1>3. DigitsUpTo(n)
        = [k \in 0 .. n |->
             IF k < 10 THEN <<k>> ELSE Append(DigitsUpTo(n)[k \div 10], k % 10)]
  BY <1>2, Zenon DEF DigitsUpTo
<1> QED
  BY <1>3, Zenon DEF Written

\* The number that digits stand for, digit by digit.
LEMMA NumberTurns ==
  ASSUME NEW d \in Seq(Nat)
  PROVE  /\ NumberUpTo(d) \in [0 .. Len(d) -> Nat]
         /\ NumberUpTo(d)[0] = 0
         /\ \A k \in 1 .. Len(d) : NumberUpTo(d)[k] = 10 * NumberUpTo(d)[k - 1] + d[k]
<1> DEFINE n == Len(d)
           turn == [k \in 1 .. n |-> [x \in Nat |-> 10 * x + d[k]]]
           start == 0
<1>1. n \in Nat /\ start \in Nat
  OBVIOUS
<1>2. turn \in [1 .. n -> [Nat -> Nat]]
  <2>1. \A k \in 1 .. n : \A x \in Nat : 10 * x + d[k] \in Nat
    OBVIOUS
  <2> QED
    BY <2>1
<1>3. PICK f \in [0 .. n -> Nat] : Runs(f, n, start, turn)
  <2> HIDE DEF n, start, turn
  <2> QED
    BY <1>1, <1>2, LoopExists, Zenon
<1>4. \A k \in 1 .. n : f[k] = 10 * f[k - 1] + d[k]
  <2> TAKE k \in 1 .. n
  <2>1. f[k - 1] \in Nat
    BY <1>1
  <2>2. turn[k][f[k - 1]] = 10 * f[k - 1] + d[k]
    BY <2>1
  <2> HIDE DEF turn
  <2> QED
    BY <1>3, <2>2 DEF Runs
<1>5. f = [k \in 0 .. n |-> IF k = 0 THEN 0 ELSE 10 * f[k - 1] + d[k]]
  <2>1. \A k \in 0 .. n : f[k] = IF k = 0 THEN 0 ELSE 10 * f[k - 1] + d[k]
    <3> TAKE k \in 0 .. n
    <3>1. CASE k = 0
      BY <1>3, <3>1 DEF Runs
    <3>2. CASE k # 0
      BY <1>1, <1>4, <3>2
    <3> QED
      BY <3>1, <3>2
  <2> HIDE DEF turn
  <2> QED
    BY <2>1
<1>6. NumberUpTo(d)
        = [k \in 0 .. Len(d) |-> IF k = 0 THEN 0 ELSE 10 * NumberUpTo(d)[k - 1] + d[k]]
  BY <1>5, Zenon DEF NumberUpTo
<1> DEFINE u == NumberUpTo(d)
<1> HIDE DEF u
<1>7. u = [k \in 0 .. n |-> IF k = 0 THEN 0 ELSE 10 * u[k - 1] + d[k]]
  BY <1>6 DEF u
<1> HIDE DEF n
<1>8. u[0] = 0
  <2>1. 0 \in 0 .. n
    BY <1>1
  <2> QED
    BY <1>7, <2>1
<1>9. \A k \in 1 .. n : u[k] = 10 * u[k - 1] + d[k]
  <2>1. \A k \in 1 .. n : k \in 0 .. n /\ k # 0
    BY <1>1
  <2> QED
    BY <1>7, <2>1
<1>10. u \in [0 .. n -> Nat]
  <2> DEFINE H == {k \in 0 .. n : u[k] \in Nat}
  <2>1. 0 \in H
    BY <1>1, <1>8
  <2>2. ASSUME NEW k \in 1 .. n, k - 1 \in H PROVE k \in H
    <3>1. d[k] \in Nat
      BY DEF n
    <3>2. u[k] = 10 * u[k - 1] + d[k] /\ k \in 0 .. n
      BY <1>1, <1>9
    <3> QED
      BY <2>2, <3>1, <3>2
  <2>3. \A k \in 0 .. n : k \in H
    <3> HIDE DEF H
    <3> QED
      BY <1>1, <2>1, <2>2, Turns
  <2>4. \A k \in 0 .. n : u[k] \in Nat
    BY <2>3
  <2> QED
    BY <1>7, <2>4
<1> QED
  BY <1>8, <1>9, <1>10 DEF u, n

\* Digits that agree stand for the same number.
LEMMA NumbersAgree ==
  ASSUME NEW d \in Seq(Nat), NEW e \in Seq(Nat), NEW n \in Nat,
         n <= Len(d), n <= Len(e), \A k \in 1 .. n : d[k] = e[k]
  PROVE  NumberUpTo(d)[n] = NumberUpTo(e)[n]
<1> DEFINE u == NumberUpTo(d)
           v == NumberUpTo(e)
           H == {k \in 0 .. n : u[k] = v[k]}
<1>1. /\ u[0] = 0 /\ \A k \in 1 .. Len(d) : u[k] = 10 * u[k - 1] + d[k]
      /\ v[0] = 0 /\ \A k \in 1 .. Len(e) : v[k] = 10 * v[k - 1] + e[k]
  BY NumberTurns
<1> HIDE DEF u, v
<1>2. 0 \in H
  BY <1>1
<1>3. ASSUME NEW k \in 1 .. n, k - 1 \in H PROVE k \in H
  <2>1. k \in 1 .. Len(d) /\ k \in 1 .. Len(e) /\ k \in 0 .. n /\ d[k] = e[k]
    <3>1. Len(d) \in Nat /\ Len(e) \in Nat
      OBVIOUS
    <3> HIDE DEF H
    <3>2. k \in 1 .. Len(d) /\ k \in 1 .. Len(e) /\ k \in 0 .. n
      BY <3>1
    <3> QED
      BY <3>2
  <2>2. u[k] = 10 * u[k - 1] + d[k] /\ v[k] = 10 * v[k - 1] + e[k]
    BY <1>1, <2>1
  <2> QED
    BY <1>3, <2>1, <2>2
<1>4. \A k \in 0 .. n : k \in H
  <2> HIDE DEF H
  <2> QED
    BY <1>2, <1>3, Turns
<1>5. u[n] = v[n]
  BY <1>4
<1> QED
  BY <1>5 DEF u, v

\* A digit more.
LEMMA NumberOfAppended ==
  ASSUME NEW d \in Seq(Nat), NEW x \in Nat
  PROVE  Number(Append(d, x)) = 10 * Number(d) + x
<1> DEFINE e == Append(d, x)
           n == Len(d)
<1>1. /\ e \in Seq(Nat) /\ n \in Nat /\ Len(e) = n + 1 /\ e[n + 1] = x
      /\ \A k \in 1 .. n : d[k] = e[k]
  OBVIOUS
<1> HIDE DEF e
<1>2. NumberUpTo(d)[n] = NumberUpTo(e)[n]
  <2>1. n <= Len(d) /\ n <= Len(e)
    BY <1>1
  <2> HIDE DEF n
  <2> QED
    BY <1>1, <2>1, NumbersAgree
<1>3. NumberUpTo(e)[n + 1] = 10 * NumberUpTo(e)[n] + x
  <2>1. n + 1 \in 1 .. Len(e) /\ (n + 1) - 1 = n
    BY <1>1
  <2>2. \A k \in 1 .. Len(e) : NumberUpTo(e)[k] = 10 * NumberUpTo(e)[k - 1] + e[k]
    BY <1>1, NumberTurns
  <2> HIDE DEF n
  <2> QED
    BY <1>1, <2>1, <2>2
<1>4. Number(e) = 10 * Number(d) + x
  BY <1>1, <1>2, <1>3 DEF Number
<1> QED
  BY <1>4 DEF e

\* Zeros in front change nothing.
LEMMA NumberOfPadded ==
  ASSUME NEW z \in Seq(Nat), \A k \in 1 .. Len(z) : z[k] = 0, NEW d \in Seq(Nat)
  PROVE  Number(z \o d) = Number(d)
<1> DEFINE e == z \o d
           m == Len(z)
           n == Len(d)
           u == NumberUpTo(d)
           v == NumberUpTo(e)
<1>1. /\ e \in Seq(Nat) /\ m \in Nat /\ n \in Nat /\ Len(e) = m + n
      /\ \A k \in 1 .. m : e[k] = 0
      /\ \A k \in 1 .. n : e[m + k] = d[k]
  OBVIOUS
<1> HIDE DEF e
<1>2. /\ u[0] = 0 /\ \A k \in 1 .. n : u[k] = 10 * u[k - 1] + d[k]
      /\ v[0] = 0 /\ \A k \in 1 .. m + n : v[k] = 10 * v[k - 1] + e[k]
  <2>1. /\ u[0] = 0 /\ \A k \in 1 .. Len(d) : u[k] = 10 * u[k - 1] + d[k]
        /\ v[0] = 0 /\ \A k \in 1 .. Len(e) : v[k] = 10 * v[k - 1] + e[k]
    BY <1>1, NumberTurns
  <2> QED
    BY <1>1, <2>1
<1> HIDE DEF m, n, u, v
<1>3. v[m] = 0
  <2> DEFINE H == {k \in 0 .. m : v[k] = 0}
  <2>1. 0 \in H
    BY <1>1, <1>2
  <2>2. ASSUME NEW k \in 1 .. m, k - 1 \in H PROVE k \in H
    <3>1. k \in 1 .. m + n /\ k \in 0 .. m /\ e[k] = 0
      BY <1>1
    <3>2. v[k] = 10 * v[k - 1] + e[k]
      BY <1>2, <3>1
    <3> QED
      BY <2>2, <3>1, <3>2
  <2>3. \A k \in 0 .. m : k \in H
    <3> HIDE DEF H
    <3> QED
      BY <1>1, <2>1, <2>2, Turns
  <2>4. m \in 0 .. m
    BY <1>1
  <2> QED
    BY <2>3, <2>4
<1>4. v[m + n] = u[n]
  <2> DEFINE H == {k \in 0 .. n : v[m + k] = u[k]}
  <2>1. 0 \in H
    BY <1>1, <1>2, <1>3
  <2>2. ASSUME NEW k \in 1 .. n, k - 1 \in H PROVE k \in H
    <3>1. /\ m + k \in 1 .. m + n /\ k \in 0 .. n /\ (m + k) - 1 = m + (k - 1)
          /\ e[m + k] = d[k]
      BY <1>1
    <3>2. v[m + k] = 10 * v[m + (k - 1)] + d[k] /\ u[k] = 10 * u[k - 1] + d[k]
      BY <1>2, <3>1
    <3> QED
      BY <2>2, <3>1, <3>2
  <2>3. \A k \in 0 .. n : k \in H
    <3> HIDE DEF H
    <3> QED
      BY <1>1, <2>1, <2>2, Turns
  <2>4. n \in 0 .. n
    BY <1>1
  <2> QED
    BY <2>3, <2>4
<1>5. Number(e) = Number(d)
  BY <1>1, <1>4 DEF Number, m, n, u, v
<1> QED
  BY <1>5 DEF e

\* d is how n is written: not empty, without a leading zero, and it stands for n.
Writes(d, n) ==
  /\ d \in Seq(Nat) /\ Len(d) >= 1 /\ Number(d) = n
  /\ n > 0 => d[1] # 0
  /\ n < 10 => Len(d) = 1

\* One digit stands for itself.
LEMMA NumberOfDigit ==
  ASSUME NEW x \in Nat
  PROVE  Number(<<x>>) = x
<1> DEFINE d == <<x>>
<1>1. d \in Seq(Nat) /\ Len(d) = 1 /\ d[1] = x
  OBVIOUS
<1> HIDE DEF d
<1>2. /\ NumberUpTo(d)[0] = 0
      /\ \A k \in 1 .. Len(d) : NumberUpTo(d)[k] = 10 * NumberUpTo(d)[k - 1] + d[k]
  BY <1>1, NumberTurns
<1>3. NumberUpTo(d)[1] = 10 * NumberUpTo(d)[1 - 1] + d[1]
  BY <1>1, <1>2
<1>4. Number(d) = x
  BY <1>1, <1>2, <1>3 DEF Number
<1> QED
  BY <1>4 DEF d

\* Every number is written so: by induction, from its tenth.
LEMMA DigitsWrite ==
  ASSUME NEW n \in Nat
  PROVE  Writes(Digits(n), n)
<1> DEFINE f == DigitsUpTo(n)
           Good(k) == Writes(f[k], k)
           H == {k \in 0 .. n : \A j \in 0 .. k : Good(j)}
<1>1. \A k \in 0 .. n : f[k] = IF k < 10 THEN <<k>> ELSE Append(f[k \div 10], k % 10)
  BY DigitsTurn, Zenon DEF Written
<1> HIDE DEF f
<1>2. ASSUME NEW k \in 0 .. n, k < 10 PROVE Good(k)
  <2>1. f[k] = <<k>>
    BY <1>1, <1>2
  <2>2. Number(<<k>>) = k
    BY NumberOfDigit
  <2>3. <<k>> \in Seq(Nat) /\ Len(<<k>>) = 1 /\ <<k>>[1] = k
    OBVIOUS
  <2> DEFINE d == <<k>>
  <2> HIDE DEF d
  <2>4. Writes(d, k)
    <3>1. d \in Seq(Nat) /\ Len(d) = 1 /\ d[1] = k /\ Number(d) = k
      BY <2>2, <2>3 DEF d
    <3> QED
      BY <3>1 DEF Writes
  <2> QED
    BY <2>1, <2>4 DEF d
<1>3. ASSUME NEW k \in 0 .. n, ~(k < 10), Good(k \div 10) PROVE Good(k)
  <2> DEFINE t == f[k \div 10]
             q == k \div 10
             r == k % 10
             d == Append(t, r)
  <2>1. f[k] = d
    BY <1>1, <1>3, Zenon
  <2>2. q \in Nat /\ q >= 1 /\ r \in 0 .. 9 /\ k = 10 * q + r
    <3>1. k \in Nat /\ k >= 10
      BY <1>3
    <3> HIDE DEF q, r
    <3> QED
      BY <3>1, Tenth, Zenon DEF q, r
  <2>3. Writes(t, q)
    BY <1>3
  <2> HIDE DEF t, q, r
  <2>4. /\ t \in Seq(Nat) /\ Len(t) >= 1 /\ Number(t) = q /\ t[1] # 0
    BY <2>2, <2>3 DEF Writes
  <2>5. d \in Seq(Nat) /\ Len(d) >= 1 /\ d[1] = t[1]
    BY <2>2, <2>4
  <2>6. Number(d) = 10 * q + r
    <3>1. r \in Nat
      BY <2>2
    <3>2. Number(d) = 10 * Number(t) + r
      BY <2>4, <3>1, NumberOfAppended, Zenon
    <3> QED
      BY <2>4, <3>2, Zenon
  <2> HIDE DEF d
  <2>7. Writes(d, k)
    BY <1>3, <2>2, <2>4, <2>5, <2>6 DEF Writes
  <2> QED
    BY <2>1, <2>7
<1> HIDE DEF Good
<1>4. 0 \in H
  <2>1. 0 \in 0 .. n /\ 0 < 10
    OBVIOUS
  <2>2. Good(0)
    BY <1>2, <2>1
  <2> QED
    BY <2>1, <2>2
<1>5. ASSUME NEW k \in 1 .. n, k - 1 \in H PROVE k \in H
  <2>1. \A j \in 0 .. k - 1 : Good(j)
    BY <1>5
  <2>2. k \in 0 .. n
    OBVIOUS
  <2>3. Good(k)
    <3>1. CASE k < 10
      BY <1>2, <2>2, <3>1
    <3>2. CASE ~(k < 10)
      <4> DEFINE q == k \div 10
      <4>1. q \in 0 .. k - 1
        <5>1. k \in Nat /\ k >= 10
          BY <3>2
        <5>2. q \in Nat /\ q < k
          BY <5>1, Tenth, Zenon
        <5> HIDE DEF q
        <5> QED
          BY <5>2
      <4>2. Good(q)
        <5> HIDE DEF q
        <5> QED
          BY <2>1, <4>1
      <4> QED
        BY <1>3, <2>2, <3>2, <4>2, Zenon
    <3> QED
      BY <3>1, <3>2
  <2>4. \A j \in 0 .. k : j \in 0 .. k - 1 \/ j = k
    OBVIOUS
  <2> QED
    BY <2>1, <2>2, <2>3, <2>4
<1>6. \A k \in 0 .. n : k \in H
  <2> HIDE DEF H
  <2> QED
    BY <1>4, <1>5, Turns
<1>7. n \in 0 .. n
  OBVIOUS
<1>8. Good(n)
  BY <1>6, <1>7
<1> QED
  BY <1>8 DEF Good, f, Digits

-----------------------------------------------------------------------------
(* The decimals.                                                          *)

\* The part of a sequence of numbers from m to n.
LEMMA PartIs ==
  ASSUME NEW s, NEW m \in Int, NEW n \in Int, \A i \in m .. n : s[i] \in Nat
  PROVE  /\ SubSeq(s, m, n) \in Seq(Nat)
         /\ Len(SubSeq(s, m, n)) = IF m <= n THEN n - m + 1 ELSE 0
         /\ \A i \in 1 .. n - m + 1 : SubSeq(s, m, n)[i] = s[m + i - 1]
  BY SubSeqProperties

\* What digits are cut into.
LEMMA Cut ==
  ASSUME NEW d \in Seq(Nat), NEW split \in Nat, split >= 1, split <= Len(d),
         NEW units, units = SubSeq(d, 1, split),
         NEW fraction, fraction = SubSeq(d, split + 1, Len(d))
  PROVE  /\ Len(units) = split /\ units[1] = d[1] /\ Len(fraction) = Len(d) - split
         /\ units \o fraction = d
<1> DEFINE n == Len(d)
           joined == units \o fraction
<1>1. n \in Nat /\ \A k \in 1 .. n : d[k] \in Nat
  OBVIOUS
<1>2. /\ units \in Seq(Nat) /\ Len(units) = split
      /\ \A k \in 1 .. split : units[k] = d[k]
  <2>1. /\ SubSeq(d, 1, split) \in Seq(Nat)
        /\ Len(SubSeq(d, 1, split)) = IF 1 <= split THEN split - 1 + 1 ELSE 0
        /\ \A k \in 1 .. split - 1 + 1 : SubSeq(d, 1, split)[k] = d[1 + k - 1]
    <3>1. \A k \in 1 .. split : d[k] \in Nat
      BY <1>1
    <3> QED
      BY <3>1, PartIs
  <2> QED
    BY <2>1
<1>3. /\ fraction \in Seq(Nat) /\ Len(fraction) = n - split
      /\ \A k \in 1 .. n - split : fraction[k] = d[split + k]
  <2> DEFINE first == split + 1
  <2>1. /\ SubSeq(d, first, n) \in Seq(Nat)
        /\ Len(SubSeq(d, first, n)) = IF first <= n THEN n - first + 1 ELSE 0
        /\ \A k \in 1 .. n - first + 1 : SubSeq(d, first, n)[k] = d[first + k - 1]
    <3>1. first \in Int /\ n \in Int /\ \A k \in first .. n : d[k] \in Nat
      BY <1>1
    <3> HIDE DEF first, n
    <3> QED
      BY <3>1, PartIs
  <2>2. /\ \A k \in Int : first + k - 1 = split + k
        /\ n - first + 1 = n - split /\ (n < first => n - split = 0)
    BY <1>1
  <2> HIDE DEF n, first
  <2>3. fraction = SubSeq(d, first, n)
    BY DEF n, first
  <2>4. Len(fraction) = n - split
    <3>1. Len(fraction) = IF first <= n THEN n - first + 1 ELSE 0
      BY <2>1, <2>3, Zenon
    <3>2. first \in Int
      BY DEF first
    <3> QED
      BY <1>1, <2>2, <3>1, <3>2
  <2>5. fraction \in Seq(Nat) /\ \A k \in 1 .. n - split : fraction[k] = d[first + k - 1]
    BY <2>1, <2>2, <2>3, Zenon
  <2>6. \A k \in 1 .. n - split : fraction[k] = d[split + k]
    <3>1. \A k \in 1 .. n - split : k \in Int
      BY <1>1
    <3> QED
      BY <2>2, <2>5, <3>1, Zenon
  <2> QED
    BY <2>4, <2>5, <2>6
<1>4. /\ joined \in Seq(Nat) /\ Len(joined) = n
      /\ \A k \in 1 .. n : joined[k] = IF k <= split THEN units[k] ELSE fraction[k - split]
  <2>1. /\ joined \in Seq(Nat) /\ Len(joined) = Len(units) + Len(fraction)
        /\ \A k \in 1 .. Len(units) + Len(fraction) :
             joined[k] = IF k <= Len(units) THEN units[k] ELSE fraction[k - Len(units)]
    BY <1>2, <1>3, ConcatProperties
  <2>2. Len(units) = split /\ Len(units) + Len(fraction) = n
    BY <1>1, <1>2, <1>3
  <2> HIDE DEF joined
  <2> QED
    BY <2>1, <2>2
<1> HIDE DEF joined, n
<1>5. ASSUME NEW k \in 1 .. n PROVE joined[k] = d[k]
  <2>1. CASE k <= split
    BY <1>2, <1>4, <2>1
  <2>2. CASE ~(k <= split)
    <3>1. k - split \in 1 .. n - split /\ split + (k - split) = k
      BY <1>1, <2>2
    <3> QED
      BY <1>3, <1>4, <2>2, <3>1
  <2> QED
    BY <2>1, <2>2
<1>6. joined = d
  BY <1>4, <1>5, SeqEqual DEF n
<1>7. Len(units) = split /\ units[1] = d[1] /\ Len(fraction) = n - split
  BY <1>2, <1>3
<1> QED
  BY <1>6, <1>7, Zenon DEF joined, n

\* What digits are filled to.
LEMMA Filled ==
  ASSUME NEW d \in Seq(Nat), NEW m \in Nat
  PROVE  /\ Len(Zeros(m) \o d) = m + Len(d)
         /\ Number(<<0>> \o (Zeros(m) \o d)) = Number(d)
<1> DEFINE z == Zeros(m)
           e == z \o d
           u == <<0>>
<1>1. z \in Seq(Nat) /\ Len(z) = m /\ \A k \in 1 .. Len(z) : z[k] = 0
  BY DEF Zeros
<1>2. u \in Seq(Nat) /\ \A k \in 1 .. Len(u) : u[k] = 0
  OBVIOUS
<1> HIDE DEF z, u
<1>3. e \in Seq(Nat) /\ Len(e) = m + Len(d)
  BY <1>1
<1>4. Number(e) = Number(d)
  BY <1>1, NumberOfPadded
<1> HIDE DEF e
<1>5. Number(u \o e) = Number(e)
  BY <1>2, <1>3, NumberOfPadded
<1> QED
  BY <1>3, <1>4, <1>5, Zenon DEF e, u, z

\* A decimal reads back.
ReadsBack(decimal, whole, scale) ==
  /\ Len(decimal.fraction) = scale
  /\ decimal.units # <<>> /\ (Len(decimal.units) > 1 => decimal.units[1] # 0)
  /\ (IF decimal.negative THEN -1 ELSE 1) * Number(decimal.units \o decimal.fraction)
       = whole

\* What format_decimal writes of any integer at any scale.
LEMMA FormatReadsBack ==
  ASSUME NEW whole \in Int, NEW scale \in Nat
  PROVE  ReadsBack(FormatDecimal(whole, scale), whole, scale)
<1> DEFINE n == IF whole < 0 THEN -whole ELSE whole
           d == Digits(n)
           split == Len(d) - scale
           negative == whole < 0
           decimal == FormatDecimal(whole, scale)
           units == decimal.units
           fraction == decimal.fraction
<1>1. n \in Nat
  OBVIOUS
<1>2. Writes(d, n)
  <2> HIDE DEF n
  <2> QED
    BY <1>1, DigitsWrite
<1> HIDE DEF d
<1>3. decimal = [kind |-> "decimal", negative |-> negative,
                 units    |-> IF split > 0 THEN SubSeq(d, 1, split) ELSE <<0>>,
                 fraction |-> IF split > 0 THEN SubSeq(d, split + 1, Len(d))
                              ELSE Zeros(-split) \o d]
  BY Zenon DEF FormatDecimal, d
<1> HIDE DEF n, split, negative, decimal
<1>4. /\ d \in Seq(Nat) /\ Len(d) \in Nat /\ Len(d) >= 1 /\ Number(d) = n
      /\ (Len(d) > 1 => d[1] # 0)
  BY <1>1, <1>2 DEF Writes
<1>5. split \in Int /\ split <= Len(d) /\ scale = Len(d) - split
  BY <1>4 DEF split
<1>6. decimal.negative = negative
  BY <1>3
<1>7. /\ Len(fraction) = scale /\ units # <<>> /\ (Len(units) > 1 => units[1] # 0)
      /\ Number(units \o fraction) = n
  <2>1. CASE split > 0
    <3>1. units = SubSeq(d, 1, split) /\ fraction = SubSeq(d, split + 1, Len(d))
      BY <1>3, <2>1
    <3>2. split \in Nat /\ split >= 1
      BY <1>5, <2>1
    <3> HIDE DEF units, fraction
    <3>3. /\ Len(units) = split /\ units[1] = d[1] /\ Len(fraction) = Len(d) - split
          /\ units \o fraction = d
      BY <1>4, <1>5, <3>1, <3>2, Cut
    <3>4. units # <<>>
      BY <3>2, <3>3
    <3> QED
      BY <1>4, <1>5, <3>3, <3>4
  <2>2. CASE ~(split > 0)
    <3> DEFINE m == -split
    <3>1. units = <<0>> /\ fraction = Zeros(m) \o d
      BY <1>3, <2>2
    <3>2. m \in Nat /\ scale = m + Len(d)
      BY <1>4, <1>5, <2>2
    <3> HIDE DEF units, fraction, m
    <3>3. Len(fraction) = m + Len(d) /\ Number(units \o fraction) = Number(d)
      BY <1>4, <3>1, <3>2, Filled
    <3>4. Len(units) = 1 /\ units # <<>>
      BY <3>1
    <3> QED
      BY <1>4, <3>2, <3>3, <3>4
  <2> QED
    BY <2>1, <2>2
<1>8. (IF negative THEN -1 ELSE 1) * n = whole
  BY DEF n, negative
<1>9. ReadsBack(decimal, whole, scale)
  BY <1>6, <1>7, <1>8 DEF ReadsBack
<1> QED
  BY <1>9 DEF decimal

\* Every decimal, whatever its integer and its scale, is written with exactly
\* `scale` digits after the point and reads back as itself (format_decimal).
THEOREM DecimalsReadBack == Spec => []DecimalReadsBack
<1> DEFINE Inv == value \in Dates \cup Decimals /\ DecimalReadsBack
<1>1. Init => Inv
  BY DEF Init, DecimalReadsBack, NoText
<1>2. Inv /\ [Next]_vars => Inv'
  <2> SUFFICES ASSUME Inv, [Next]_vars PROVE Inv'
    OBVIOUS
  <2>1. CASE WriteDate
    <3>1. value' = value /\ text' \in CivilFromDays(value.days)
      BY <2>1 DEF WriteDate
    <3>2. text'.kind # "decimal"
      BY <3>1 DEF CivilFromDays, Panic
    <3> QED
      BY <3>1, <3>2 DEF DecimalReadsBack
  <2>2. CASE ReadNaiveDate
    <3>1. PICK date \in CivilFromDays(value.days) : text' = Naive(date)
      BY <2>2 DEF ReadNaiveDate
    <3>2. value' = value
      BY <2>2 DEF ReadNaiveDate
    <3>3. text'.kind # "decimal"
      BY <3>1 DEF CivilFromDays, Naive, Panic, OutOfRange
    <3> QED
      BY <3>2, <3>3 DEF DecimalReadsBack
  <2>3. CASE WriteDecimal
    <3>1. /\ value' = value /\ text' = FormatDecimal(value.whole, value.scale)
          /\ value.whole \in Int /\ value.scale \in Nat
      <4>1. /\ value.type = "DECIMAL" /\ value' = value
            /\ text' = FormatDecimal(value.whole, value.scale)
        BY <2>3 DEF WriteDecimal
      <4>2. value.whole \in Wholes /\ value.scale \in Scales
        BY <4>1 DEF Dates, Decimals
      <4>3. Wholes \subseteq Int /\ Scales \subseteq Nat
        BY LimitsAssumption, SMT
      <4> QED
        BY <4>1, <4>2, <4>3, Zenon
    <3>2. ReadsBack(text', value'.whole, value'.scale)
      BY <3>1, FormatReadsBack
    <3> QED
      BY <3>1, <3>2 DEF DecimalReadsBack, ReadsBack
  <2>4. CASE UNCHANGED vars
    <3>1. value' = value /\ text' = text
      BY <2>4 DEF vars
    <3> QED
      BY <3>1 DEF DecimalReadsBack
  <2> QED
    BY <2>1, <2>2, <2>3, <2>4 DEF Next
<1>3. Inv => DecimalReadsBack
  OBVIOUS
<1> QED
  BY <1>1, <1>2, <1>3, PTL DEF Spec
=============================================================================
