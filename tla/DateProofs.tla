----------------------------- MODULE DateProofs -----------------------------
(***************************************************************************)
(* Proofs about DateUtils and Calendar: what the date library computes for  *)
(* every date it accepts, and that it keeps step with the calendar.         *)
(***************************************************************************)
EXTENDS Calendar, TLAPS

(* The lengths of months and the days before them, as tables of a year with *)
(* e leap days.                                                             *)
LeapDay(y) == IF y % 4 = 0 THEN 1 ELSE 0

MonthLength(e, m) == <<31, 28 + e, 31, 30, 31, 30, 31, 31, 30, 31, 30, 31>>[m]

Before(e, m) ==
  <<0, 31, 59 + e, 90 + e, 120 + e, 151 + e, 181 + e, 212 + e, 243 + e, 273 + e,
    304 + e, 334 + e, 365 + e>>[m]

LEMMA MonthLengths ==
  \A e \in 0..1 : \A m \in 1..12 : MonthLength(e, m) \in 28..31
  BY DEF MonthLength

LEMMA BeforeStep ==
  \A e \in 0..1 : \A m \in 1..12 :
    Before(e, m) \in 0..335 /\ Before(e, m + 1) = Before(e, m) + MonthLength(e, m)
  BY DEF Before, MonthLength

LEMMA BeforeEnds == \A e \in 0..1 : Before(e, 1) = 0 /\ Before(e, 13) = 365 + e
  BY DEF Before

LEMMA BeforeIsNat == \A e \in 0..1 : \A m \in 1..13 : Before(e, m) \in Nat
  BY DEF Before

LEMMA BeforeGrows ==
  \A e \in 0..1 : \A j, k \in 1..13 : j <= k => Before(e, j) <= Before(e, k)
  BY SMTT(30) DEF Before

LEMMA MonthDaysAre ==
  \A leap \in BOOLEAN : \A m \in 1..12 :
    MONTH_DAYS(leap)[m] = MonthLength(IF leap THEN 1 ELSE 0, m)
  BY DEF MONTH_DAYS, MonthLength

(* The recursive function exists: the table is one.                         *)
LEMMA TableIsDefined ==
  DaysOfMonths = [m \in 1..13 |-> [leap \in BOOLEAN |->
    IF m = 1 THEN 0 ELSE DaysOfMonths[m - 1][leap] + MONTH_DAYS(leap)[m - 1]]]
  <1> DEFINE g == [m \in 1..13 |-> [leap \in BOOLEAN |-> Before(IF leap THEN 1 ELSE 0, m)]]
  <1>1. g = [m \in 1..13 |-> [leap \in BOOLEAN |->
              IF m = 1 THEN 0 ELSE g[m - 1][leap] + MONTH_DAYS(leap)[m - 1]]]
    <2>1. ASSUME NEW leap \in BOOLEAN, NEW m \in 1..13
          PROVE  Before(IF leap THEN 1 ELSE 0, m) =
                   IF m = 1 THEN 0 ELSE g[m - 1][leap] + MONTH_DAYS(leap)[m - 1]
      <3> DEFINE e == IF leap THEN 1 ELSE 0
      <3>0. e \in 0..1
        OBVIOUS
      <3>1. CASE m = 1
        BY <3>0, <3>1, BeforeEnds
      <3>2. CASE m # 1
        <4>1. m - 1 \in 1..12 /\ m - 1 \in 1..13 /\ (m - 1) + 1 = m
          BY <3>2
        <4>2. g[m - 1][leap] = Before(e, m - 1)
          BY <4>1
        <4>3. MONTH_DAYS(leap)[m - 1] = MonthLength(e, m - 1)
          BY <4>1, MonthDaysAre
        <4>4. Before(e, (m - 1) + 1) = Before(e, m - 1) + MonthLength(e, m - 1)
          <5> HIDE DEF e, g
          <5> QED
            BY <3>0, <4>1, BeforeStep
        <4> QED
          BY <3>2, <4>1, <4>2, <4>3, <4>4
      <3> QED
        BY <3>1, <3>2
    <2> QED
      BY <2>1
  <1> HIDE DEF g
  <1> QED
    BY <1>1 DEF DaysOfMonths

LEMMA DaysOfMonthsAre ==
  \A leap \in BOOLEAN : \A m \in 1..13 :
    DaysOfMonths[m][leap] = Before(IF leap THEN 1 ELSE 0, m)
  <1> SUFFICES ASSUME NEW leap \in BOOLEAN
               PROVE  \A m \in 1..13 : DaysOfMonths[m][leap] = Before(IF leap THEN 1 ELSE 0, m)
    OBVIOUS
  <1> DEFINE e == IF leap THEN 1 ELSE 0
             f(m) == DaysOfMonths[m][leap]
             b(m) == Before(e, m)
  <1>0. e \in 0..1
    OBVIOUS
  <1>1. \A m \in 1..13 : f(m) = IF m = 1 THEN 0 ELSE f(m - 1) + MONTH_DAYS(leap)[m - 1]
    BY TableIsDefined
  <1>2. f(1) = b(1)
    <2>1. f(1) = 0
      BY <1>1
    <2> HIDE DEF e, f
    <2> QED
      BY <1>0, <2>1, BeforeEnds
  <1>3. \A m \in 1..12 : f(m) = b(m) => f(m + 1) = b(m + 1)
    <2> SUFFICES ASSUME NEW m \in 1..12, f(m) = b(m)
                 PROVE  f(m + 1) = b(m + 1)
      OBVIOUS
    <2>1. m + 1 \in 1..13 /\ m + 1 # 1 /\ (m + 1) - 1 = m
      OBVIOUS
    <2>2. f(m + 1) = f(m) + MONTH_DAYS(leap)[m]
      BY <1>1, <2>1
    <2>3. MONTH_DAYS(leap)[m] = MonthLength(e, m)
      BY MonthDaysAre
    <2> HIDE DEF e, f
    <2>4. b(m + 1) = b(m) + MonthLength(e, m)
      BY <1>0, BeforeStep
    <2> QED
      BY <2>2, <2>3, <2>4
  <1> HIDE DEF f, b
  <1>4. f(2) = b(2) /\ f(3) = b(3) /\ f(4) = b(4)
    BY <1>2, <1>3
  <1>5. f(5) = b(5) /\ f(6) = b(6) /\ f(7) = b(7)
    BY <1>4, <1>3
  <1>6. f(8) = b(8) /\ f(9) = b(9) /\ f(10) = b(10)
    BY <1>5, <1>3
  <1>7. f(11) = b(11) /\ f(12) = b(12) /\ f(13) = b(13)
    BY <1>6, <1>3
  <1>8. \A m \in 1..13 : f(m) = b(m)
    BY <1>2, <1>4, <1>5, <1>6, <1>7
  <1> QED
    BY <1>8 DEF f, b

(* In the code's words: the lengths of the months of year y.                *)
LEMMA YearIs ==
  ASSUME NEW y \in Nat
  PROVE  /\ LeapDay(y) \in 0..1
         /\ isLeapYear(y) <=> LeapDay(y) = 1
         /\ \A m \in 1..12 : MONTH_DAYS(isLeapYear(y))[m] = MonthLength(LeapDay(y), m)
         /\ \A m \in 1..13 : DaysBefore(y, m) = Before(LeapDay(y), m)
  <1>1. isLeapYear(y) \in BOOLEAN /\ LeapDay(y) = IF isLeapYear(y) THEN 1 ELSE 0
    BY DEF isLeapYear, LeapDay
  <1>2. \A m \in 1..12 : MONTH_DAYS(isLeapYear(y))[m] = MonthLength(LeapDay(y), m)
    BY <1>1, MonthDaysAre, Zenon
  <1>3. \A m \in 1..13 : DaysBefore(y, m) = Before(LeapDay(y), m)
    BY <1>1, DaysOfMonthsAre, Zenon DEF DaysBefore
  <1> QED
    BY <1>2, <1>3 DEF LeapDay, isLeapYear
-----------------------------------------------------------------------------
(* A date as a number of days: those of the years before, their leap days,  *)
(* and the day of the year.                                                 *)
DayNumber(y, n) == 365 * y + (y + 3) \div 4 + n

DayOfYear(y, m, d) == Before(LeapDay(y), m) + d

LEMMA SmallRemainder == \A n \in Nat, w \in Nat : n < w => n % w = n
  BY SMT

(* Until 2099 a USHORT holds the number of any day, even one counted on     *)
(* behind the end of its month.                                             *)
AnyDay(y, m, d) == y \in 0..99 /\ m \in 1..12 /\ d \in 1..31

LEMMA EncodeIs ==
  ASSUME NEW y, NEW m, NEW d, AnyDay(y, m, d)
  PROVE  encodeDate(y, m, d) = DayNumber(y, DayOfYear(y, m, d))
  <1> DEFINE b == Before(LeapDay(y), m)
  <1>0. y \in 0..99 /\ m \in 1..12 /\ d \in 1..31
    BY DEF AnyDay
  <1>1. b \in 0..335 /\ DaysBefore(y, m) = b
    <2>1. y \in Nat /\ m \in 1..13 /\ LeapDay(y) \in 0..1
      BY <1>0 DEF LeapDay
    <2>2. b \in 0..335
      BY <1>0, <2>1, BeforeStep
    <2>3. DaysBefore(y, m) = b
      BY <2>1, YearIs
    <2> QED
      BY <2>2, <2>3
  <1> DEFINE n == y * 365 + (y + 3) \div 4 + d + DaysBefore(y, m)
  <1> HIDE DEF b
  <1>2. n \in Nat /\ n < 40000
    BY <1>0, <1>1
  <1>3. 40000 <= TDATE_SPAN /\ TDATE_SPAN \in Nat
    BY DEF TDATE_SPAN
  <1> HIDE DEF n
  <1>4. n % TDATE_SPAN = n
    BY <1>2, <1>3, SmallRemainder
  <1>5. encodeDate(y, m, d) = n
    BY <1>4 DEF encodeDate, n
  <1>6. n = DayNumber(y, b + d)
    BY <1>0, <1>1 DEF n, DayNumber
  <1> QED
    BY <1>5, <1>6 DEF b, DayOfYear

(* decodeDate() takes off periods of four years, then a leap year, then     *)
(* common years: this is the year and the day that the number was made of.  *)
LEMMA YearOfNumber ==
  ASSUME NEW y \in 0..99, NEW n \in 1..366, n <= 365 + LeapDay(y)
  PROVE  YearAndDay(DayNumber(y, n)) = [year |-> y, day |-> n]
  <1> DEFINE q == y \div 4
             r == y % 4
             num == DayNumber(y, n)
  <1>1. q \in 0..24 /\ r \in 0..3 /\ y = 4 * q + r
    OBVIOUS
  <1>2. n <= 365 + (IF r = 0 THEN 1 ELSE 0)
    BY DEF LeapDay
  <1> HIDE DEF q, r
  <1>3. num = 1461 * q + 365 * r + (IF r = 0 THEN 0 ELSE 1) + n
    BY <1>1 DEF DayNumber
  <1> HIDE DEF num
  <1>4. FOUR_YEARS = 1461
    BY DEF FOUR_YEARS
  <1>5. FourYearsBefore(num) = q
    BY <1>1, <1>2, <1>3, <1>4 DEF FourYearsBefore
  <1> DEFINE left == num - FOUR_YEARS * FourYearsBefore(num)
  <1>6. left = 365 * r + (IF r = 0 THEN 0 ELSE 1) + n
    BY <1>1, <1>3, <1>4, <1>5
  <1>7. YearAndDay(num) =
          IF left > 366
          THEN [year |-> 4 * q + 1 + (left - 366 - 1) \div 365,
                day  |-> left - 366 - 365 * ((left - 366 - 1) \div 365)]
          ELSE [year |-> 4 * q, day |-> left]
    BY <1>5 DEF YearAndDay
  <1> HIDE DEF left
  <1>8. CASE r = 0
    BY <1>1, <1>2, <1>6, <1>7, <1>8 DEF num
  <1>9. CASE r # 0
    <2>1. left > 366 /\ (left - 366 - 1) \div 365 = r - 1
      BY <1>1, <1>2, <1>6, <1>9
    <2>2. 4 * q + 1 + (r - 1) = y /\ left - 366 - 365 * (r - 1) = n
      BY <1>1, <1>6, <1>9
    <2> QED
      BY <1>7, <2>1, <2>2 DEF num
  <1> QED
    BY <1>1, <1>8, <1>9

(* The day of the year lies in its month and in no other.                   *)
InMonth(e, k, n) == Before(e, k) < n /\ n <= Before(e, k + 1)

DayFits(e, m, d, n) ==
  /\ d \in 1..31
  /\ n \in 1..366 /\ n <= 365 + e
  /\ \A k \in 1..12 : InMonth(e, k, n) <=> k = m

LEMMA DayInMonth ==
  ASSUME NEW e \in 0..1, NEW m \in 1..12, NEW d \in Nat, 1 <= d, d <= MonthLength(e, m)
  PROVE  DayFits(e, m, d, Before(e, m) + d)
  <1> DEFINE b(j) == Before(e, j)
             len == MonthLength(e, m)
  <1>1. b(m) \in 0..335 /\ b(m + 1) = b(m) + len /\ len \in 28..31
    BY BeforeStep, MonthLengths
  <1>2. \A i, j \in 1..13 : b(i) \in Nat /\ (i <= j => b(i) <= b(j))
    BY BeforeGrows, BeforeIsNat
  <1>3. b(13) = 365 + e
    BY BeforeEnds
  <1>4. d <= len
    OBVIOUS
  <1> HIDE DEF b, len
  <1>5. b(m) + d <= b(m + 1) /\ b(m) < b(m) + d /\ d \in 1..31 /\ b(m) + d \in 1..366
    BY <1>1, <1>4, SMTT(30)
  <1>6. b(m) + d <= 365 + e
    <2>1. m + 1 \in 1..13 /\ 13 \in 1..13 /\ m + 1 <= 13
      OBVIOUS
    <2>2. b(m + 1) \in Nat /\ b(13) \in Nat /\ b(m + 1) <= b(13)
      BY <1>2, <2>1
    <2> QED
      BY <1>1, <1>3, <1>5, <2>2
  <1>7. ASSUME NEW k \in 1..12, b(k) < b(m) + d, b(m) + d <= b(k + 1) PROVE k = m
    <2>1. k \in 1..13 /\ k + 1 \in 1..13 /\ m \in 1..13 /\ m + 1 \in 1..13
      OBVIOUS
    <2>2. b(k) \in Nat /\ b(k + 1) \in Nat /\ b(m) \in Nat /\ b(m + 1) \in Nat
      BY <1>2, <2>1
    <2>3. ~ (k + 1 <= m)
      BY <1>2, <1>5, <1>7, <2>1, <2>2
    <2>4. ~ (m + 1 <= k)
      BY <1>2, <1>5, <1>7, <2>1, <2>2
    <2> QED
      BY <2>3, <2>4
  <1> QED
    BY <1>5, <1>6, <1>7 DEF b, InMonth, DayFits

LEMMA ValidDate ==
  ASSUME NEW y \in Nat, NEW m \in Nat, NEW d \in Nat
  PROVE  isValidDate(y, m, d) <=>
           y \in 0..99 /\ m \in 1..12 /\ 1 <= d /\ d <= MonthLength(LeapDay(y), m)
  <1>1. CASE m \in 1..12
    <2>1. MONTH_DAYS(isLeapYear(y))[m] = MonthLength(LeapDay(y), m)
      BY <1>1, YearIs
    <2>2. LeapDay(y) \in 0..1
      BY DEF LeapDay
    <2>3. MonthLength(LeapDay(y), m) \in 28..31
      BY <1>1, <2>2, MonthLengths
    <2>4. isValidDate(y, m, d) <=> y <= 99 /\ d \in 1 .. MonthLength(LeapDay(y), m)
      BY <1>1, <2>1 DEF isValidDate
    <2> QED
      BY <1>1, <2>3, <2>4
  <1>2. CASE m \notin 1..12
    BY <1>2 DEF isValidDate
  <1> QED
    BY <1>1, <1>2

(* For every date the library accepts, decodeDate() gives back what         *)
(* encodeDate() was given (dateUtils.c:15-76).                              *)
THEOREM DecodeInvertsEncode ==
  ASSUME NEW y \in Nat, NEW m \in Nat, NEW d \in Nat, isValidDate(y, m, d)
  PROVE  decodeDate(encodeDate(y, m, d)) = [year |-> y, month |-> m, day |-> d]
  <1> DEFINE e == LeapDay(y)
             n == DayOfYear(y, m, d)
             In(k) == DaysBefore(y, k) < n /\ n <= DaysBefore(y, k + 1)
             found == CHOOSE k \in 1..12 : In(k)
  <1>1. y \in 0..99 /\ m \in 1..12 /\ 1 <= d /\ d <= MonthLength(e, m)
    BY ValidDate
  <1>2. e \in 0..1 /\ \A k \in 1..13 : DaysBefore(y, k) = Before(e, k)
    BY YearIs
  <1>3. n = Before(e, m) + d
    BY DEF DayOfYear
  <1> HIDE DEF e, n
  <1>4. DayFits(e, m, d, n)
    BY <1>1, <1>2, <1>3, DayInMonth, Zenon
  <1>5. encodeDate(y, m, d) = DayNumber(y, n)
    <2>1. AnyDay(y, m, d)
      BY <1>1, <1>4 DEF DayFits, AnyDay
    <2>2. encodeDate(y, m, d) = DayNumber(y, DayOfYear(y, m, d))
      BY <2>1, EncodeIs
    <2> QED
      BY <2>2 DEF n
  <1>6. YearAndDay(encodeDate(y, m, d)) = [year |-> y, day |-> n]
    BY <1>1, <1>4, <1>5, YearOfNumber DEF e, DayFits
  <1>7. \A k \in 1..12 : In(k) <=> k = m
    <2>1. \A k \in 1..12 : k \in 1..13 /\ k + 1 \in 1..13
      OBVIOUS
    <2> QED
      BY <1>2, <1>4, <2>1 DEF InMonth, DayFits
  <1>8. decodeDate(encodeDate(y, m, d)) =
          [year |-> y, month |-> found, day |-> n - DaysBefore(y, found)]
    BY <1>6 DEF decodeDate
  <1> HIDE DEF In
  <1>9. found = m
    BY <1>1, <1>7
  <1> HIDE DEF found
  <1>10. n - DaysBefore(y, m) = d
    <2>1. m \in 1..13
      BY <1>1
    <2>2. DaysBefore(y, m) = Before(e, m) /\ Before(e, m) \in Nat
      BY <1>2, <2>1, BeforeIsNat
    <2> QED
      BY <1>3, <2>2
  <1> QED
    BY <1>8, <1>9, <1>10

(* Every number of the century is the number of a day of a year, and every  *)
(* day of a year is one of a month.                                         *)
DaysOfCentury == 1..36525

NumberedBy(x, y, n) ==
  y \in 0..99 /\ n \in 1..366 /\ n <= 365 + LeapDay(y) /\ x = DayNumber(y, n)

DatedBy(e, n, m, d) ==
  m \in 1..12 /\ d \in 1..31 /\ d <= MonthLength(e, m) /\ n = Before(e, m) + d

LEMMA NumberIsDay ==
  ASSUME NEW x \in DaysOfCentury
  PROVE  \E y, n : NumberedBy(x, y, n)
  <1> DEFINE q == (x - 1) \div 1461
             left == x - 1461 * q
             r == (left - 2) \div 365
  <1>0. x \in Int /\ 1 <= x /\ x <= 36525
    BY DEF DaysOfCentury
  <1>1. q \in 0..24 /\ left \in 1..1461
    BY <1>0
  <1>2. x = 1461 * q + left
    BY <1>0, <1>1
  <1> HIDE DEF q
  <1>3. CASE left <= 366
    <2> HIDE DEF left
    <2>1. 4 * q \in 0..99 /\ left \in 1..366 /\ left <= 365 + LeapDay(4 * q)
      BY <1>1, <1>3 DEF LeapDay
    <2>2. x = DayNumber(4 * q, left)
      BY <1>1, <1>2 DEF DayNumber
    <2>3. NumberedBy(x, 4 * q, left)
      BY <2>1, <2>2 DEF NumberedBy
    <2> QED
      BY <2>3
  <1>4. CASE left > 366
    <2> HIDE DEF left
    <2>1. r \in 1..3 /\ left - 1 - 365 * r \in 1..365
      BY <1>1, <1>4
    <2> HIDE DEF r
    <2>2. 4 * q + r \in 0..99 /\ left - 1 - 365 * r <= 365 + LeapDay(4 * q + r)
          /\ left - 1 - 365 * r \in 1..366
      BY <1>1, <2>1 DEF LeapDay
    <2>3. (4 * q + r + 3) \div 4 = q + 1
      BY <1>1, <2>1
    <2>4. x = DayNumber(4 * q + r, left - 1 - 365 * r)
      <3>1. x = 365 * (4 * q + r) + (q + 1) + (left - 1 - 365 * r)
        BY <1>1, <1>2, <2>1
      <3> QED
        BY <1>1, <2>1, <2>3, <3>1 DEF DayNumber
    <2>5. NumberedBy(x, 4 * q + r, left - 1 - 365 * r)
      BY <2>2, <2>4 DEF NumberedBy
    <2> QED
      BY <2>5
  <1>5. left <= 366 \/ left > 366
    BY <1>1
  <1> QED
    BY <1>3, <1>4, <1>5

LEMMA DayIsInMonth ==
  ASSUME NEW e \in 0..1, NEW n \in 1..366, n <= 365 + e
  PROVE  \E m, d : DatedBy(e, n, m, d)
  <1> DEFINE b(j) == Before(e, j)
  <1>1. \A j \in 1..13 : b(j) \in Nat
    BY BeforeIsNat
  <1>2. b(1) = 0 /\ b(13) = 365 + e
    BY BeforeEnds
  <1>3. \A m \in 1..12 : b(m + 1) = b(m) + MonthLength(e, m) /\ MonthLength(e, m) \in 28..31
    BY BeforeStep, MonthLengths
  <1> HIDE DEF b
  <1>4. \E m \in 1..12 : b(m) < n /\ n <= b(m + 1)
    <2> DEFINE In(m) == b(m) < n
    <2>1. In(1) /\ ~In(13)
      BY <1>2
    <2>2. \E m \in 1..12 : In(m) /\ ~In(m + 1)
      <3> HIDE DEF In
      <3>1. (\A m \in 1..12 : In(m) => In(m + 1)) => In(13)
        <4> SUFFICES ASSUME \A m \in 1..12 : In(m) => In(m + 1)
                     PROVE  In(13)
          OBVIOUS
        <4>1. In(2) /\ In(3) /\ In(4) /\ In(5)
          BY <2>1
        <4>2. In(6) /\ In(7) /\ In(8) /\ In(9)
          BY <4>1
        <4> QED
          BY <4>2
      <3> QED
        BY <2>1, <3>1, Zenon
    <2> QED
      BY <1>1, <2>2
  <1>5. PICK m \in 1..12 : b(m) < n /\ n <= b(m + 1)
    BY <1>4
  <1>6. b(m) \in Nat /\ MonthLength(e, m) \in 28..31 /\ b(m + 1) = b(m) + MonthLength(e, m)
    BY <1>1, <1>3
  <1>7. n - b(m) \in 1..31 /\ n - b(m) <= MonthLength(e, m) /\ n = b(m) + (n - b(m))
    BY <1>5, <1>6
  <1>8. DatedBy(e, n, m, n - b(m))
    BY <1>7 DEF b, DatedBy
  <1> QED
    BY <1>8

(* Every number from 1 to 36525, the last day of 2099, stands for a date    *)
(* the library accepts, and encodeDate() gives the number back              *)
(* (dateUtils.c:15-76).                                                     *)
THEOREM EncodeInvertsDecode ==
  ASSUME NEW x \in DaysOfCentury
  PROVE  /\ isValidDate(yearOf(x), monthOf(x), dayOf(x))
         /\ encodeDate(yearOf(x), monthOf(x), dayOf(x)) = x
  <1>1. PICK y, n : NumberedBy(x, y, n)
    BY NumberIsDay
  <1>2. y \in 0..99 /\ n \in 1..366 /\ n <= 365 + LeapDay(y) /\ x = DayNumber(y, n)
    BY <1>1 DEF NumberedBy
  <1>3. LeapDay(y) \in 0..1
    BY <1>2 DEF LeapDay
  <1>4. PICK m, d : DatedBy(LeapDay(y), n, m, d)
    BY <1>2, <1>3, DayIsInMonth, Zenon
  <1>5. m \in 1..12 /\ d \in 1..31 /\ d <= MonthLength(LeapDay(y), m)
        /\ n = Before(LeapDay(y), m) + d
    BY <1>4 DEF DatedBy
  <1>6. y \in Nat /\ m \in Nat /\ d \in Nat /\ 1 <= d
    BY <1>2, <1>5
  <1>7. encodeDate(y, m, d) = x
    <2>1. DayOfYear(y, m, d) = n
      BY <1>5 DEF DayOfYear
    <2>2. encodeDate(y, m, d) = DayNumber(y, DayOfYear(y, m, d))
      BY <1>2, <1>5, EncodeIs DEF AnyDay
    <2> QED
      BY <1>2, <2>1, <2>2
  <1>8. isValidDate(y, m, d)
    BY <1>2, <1>5, <1>6, ValidDate
  <1>9. decodeDate(x) = [year |-> y, month |-> m, day |-> d]
    BY <1>6, <1>7, <1>8, DecodeInvertsEncode
  <1>10. yearOf(x) = y /\ monthOf(x) = m /\ dayOf(x) = d
    BY <1>9 DEF yearOf, monthOf, dayOf
  <1> QED
    BY <1>7, <1>8, <1>10

(* A day behind the end of its month is a day of the month after it.        *)
LEMMA DayBehindMonth ==
  ASSUME NEW y \in 0..99, NEW m \in 1..12, NEW d \in 1..31,
         MonthLength(LeapDay(y), m) < d
  PROVE  decodeDate(encodeDate(y, m, d)) =
           [year |-> y, month |-> m + 1, day |-> d - MonthLength(LeapDay(y), m)]
  <1> DEFINE e == LeapDay(y)
             len == MonthLength(e, m)
  <1>1. e \in 0..1
    BY DEF LeapDay
  <1> HIDE DEF e
  <1>2. len \in 28..31 /\ Before(e, m) \in Nat /\ Before(e, m + 1) = Before(e, m) + len
    <2>1. len \in 28..31
      BY <1>1, MonthLengths
    <2>2. Before(e, m) \in 0..335 /\ Before(e, m + 1) = Before(e, m) + len
      BY <1>1, BeforeStep
    <2> QED
      BY <2>1, <2>2
  <1>3. m # 12
    BY <1>1 DEF MonthLength, e
  <1>4. MonthLength(e, m + 1) \in 28..31
    BY <1>1, <1>3, MonthLengths
  <1> HIDE DEF len
  <1>5. m + 1 \in 1..12 /\ d - len \in 1..3
    BY <1>2, <1>3 DEF len, e
  <1>6. Before(e, m) + d = Before(e, m + 1) + (d - len)
    BY <1>2
  <1>7. encodeDate(y, m, d) = DayNumber(y, Before(e, m) + d)
    BY EncodeIs DEF AnyDay, DayOfYear, e
  <1>8. encodeDate(y, m + 1, d - len) = DayNumber(y, Before(e, m + 1) + (d - len))
    <2>1. AnyDay(y, m + 1, d - len)
      BY <1>5 DEF AnyDay
    <2> QED
      BY <2>1, EncodeIs DEF DayOfYear, e
  <1>9. isValidDate(y, m + 1, d - len)
    <2>1. y \in Nat /\ m + 1 \in Nat /\ d - len \in Nat /\ 1 <= d - len /\ d - len <= MonthLength(e, m + 1)
      BY <1>4, <1>5
    <2> QED
      BY <1>5, <2>1, ValidDate DEF e
  <1>10. decodeDate(encodeDate(y, m + 1, d - len)) =
           [year |-> y, month |-> m + 1, day |-> d - len]
    <2>1. y \in Nat /\ m + 1 \in Nat /\ d - len \in Nat
      BY <1>5
    <2> QED
      BY <1>9, <2>1, DecodeInvertsEncode
  <1> QED
    BY <1>6, <1>7, <1>8, <1>10 DEF len, e
-----------------------------------------------------------------------------
(* The calendar's own rules say the same as the library's table.            *)
LEMMA CalendarIs ==
  ASSUME NEW y \in 0..99
  PROVE  /\ Gregorian(y) <=> isLeapYear(y)
         /\ \A m \in 1..12 : LastDay(y, m) = MonthLength(LeapDay(y), m)
  <1>1. Gregorian(y) <=> y % 4 = 0
    BY DEF Gregorian
  <1>2. ASSUME NEW m \in 1..12
        PROVE  LastDay(y, m) = MonthLength(LeapDay(y), m)
    BY <1>1 DEF LastDay, MonthLength, LeapDay
  <1> QED
    BY <1>1, <1>2 DEF isLeapYear

(* What holds of every day of the calendar; the rest follows from it.       *)
CalInv ==
  /\ year \in 0..99 /\ month \in 1..12 /\ day \in 1..31
  /\ day <= MonthLength(LeapDay(year), month)
  /\ date = DayNumber(year, DayOfYear(year, month, day))
  /\ date \in Nat
  /\ weekday = dayOfTheWeek(date)

LEMMA CalInit == Init => CalInv
  BY BeforeEnds DEF Init, CalInv, MonthLength, LeapDay, DayNumber, DayOfYear, dayOfTheWeek,
     Saturday

LEMMA CalNext == CalInv /\ [NextDay]_vars => CalInv'
  <1> SUFFICES ASSUME CalInv, [NextDay]_vars
               PROVE  CalInv'
    OBVIOUS
  <1> DEFINE e == LeapDay(year)
  <1>1. CASE UNCHANGED vars
    BY <1>1 DEF CalInv, vars
  <1>2. CASE NextDay
    <2>0. year \in 0..99 /\ month \in 1..12 /\ e \in 0..1
      BY DEF CalInv, LeapDay
    <2>1. MonthLength(e, month) \in 28..31 /\ LastDay(year, month) = MonthLength(e, month)
      <3>1. LastDay(year, month) = MonthLength(e, month)
        BY <2>0, CalendarIs
      <3> HIDE DEF e
      <3>2. MonthLength(e, month) \in 28..31
        BY <2>0, MonthLengths
      <3> QED
        BY <3>1, <3>2
    <2>2. Before(e, month) \in Nat /\ Before(e, month + 1) = Before(e, month) + MonthLength(e, month)
      <3> HIDE DEF e
      <3>1. Before(e, month) \in 0..335 /\ Before(e, month + 1) = Before(e, month) + MonthLength(e, month)
        BY <2>0, BeforeStep
      <3> QED
        BY <3>1
    <2>3. weekday' = dayOfTheWeek(date')
      BY <1>2 DEF CalInv, NextDay, dayOfTheWeek, Monday
    <2>4. CASE day < LastDay(year, month) /\ day' = day + 1 /\ UNCHANGED <<year, month>>
      BY <1>2, <2>1, <2>2, <2>3, <2>4 DEF CalInv, NextDay, DayNumber, DayOfYear
    <2>5. CASE /\ day = LastDay(year, month) /\ day' = 1
               /\ month < 12 /\ month' = month + 1 /\ UNCHANGED year
      <3>1. month' \in 1..12 /\ year' = year
        BY <2>5 DEF CalInv
      <3>2. MonthLength(e, month') \in 28..31
        <4> HIDE DEF e
        <4> QED
          BY <2>0, <3>1, MonthLengths
      <3> QED
        BY <1>2, <2>1, <2>2, <2>3, <2>5, <3>1, <3>2 DEF CalInv, NextDay, DayNumber, DayOfYear
    <2>6. CASE /\ day = LastDay(year, month) /\ day' = 1
               /\ month = 12 /\ year < 99 /\ month' = 1 /\ year' = year + 1
      <3>1. year' \in 0..99 /\ LeapDay(year') \in 0..1
        BY <2>6 DEF CalInv, LeapDay
      <3>2. MonthLength(LeapDay(year'), 1) \in 28..31 /\ Before(LeapDay(year'), 1) = 0
        BY <3>1, MonthLengths, BeforeEnds
      <3>3. Before(e, month) + day = 365 + e
        <4> HIDE DEF e
        <4>1. Before(e, 12 + 1) = 365 + e
          BY <2>0, BeforeEnds
        <4> QED
          BY <2>1, <2>2, <2>6, <4>1
      <3>4. DayNumber(year + 1, 1) = DayNumber(year, 365 + e) + 1
        BY DEF CalInv, DayNumber, LeapDay
      <3> QED
        BY <1>2, <2>3, <2>6, <3>1, <3>2, <3>3, <3>4 DEF CalInv, NextDay, DayOfYear
    <2> QED
      BY <1>2, <2>4, <2>5, <2>6 DEF NextDay
  <1> QED
    BY <1>1, <1>2

LEMMA CalInvariant == Spec => []CalInv
  BY CalInit, CalNext, PTL DEF Spec

LEMMA TodayIsDate ==
  ASSUME CalInv
  PROVE  /\ encodeDate(year, month, day) = date
         /\ decodeDate(date) = Today
         /\ yearOf(date) = year /\ monthOf(date) = month /\ dayOf(date) = day
  <1>1. encodeDate(year, month, day) = date
    BY EncodeIs DEF AnyDay, CalInv
  <1>2. isValidDate(year, month, day)
    BY ValidDate DEF CalInv
  <1>3. decodeDate(date) = Today
    BY <1>1, <1>2, DecodeInvertsEncode DEF CalInv, Today
  <1> QED
    BY <1>1, <1>3 DEF Today, yearOf, monthOf, dayOf

(* The date library keeps step with the calendar, on every day from         *)
(* 2000-01-01 to 2099-12-31: DatesAreCalendar (dateUtils.c:15-76, 117-120). *)
THEOREM DatesFollowCalendar == Spec => []DatesAreCalendar
  <1>1. CalInv => DatesAreCalendar
    <2> SUFFICES ASSUME CalInv
                 PROVE  DatesAreCalendar
      OBVIOUS
    <2>0. year \in 0..99 /\ month \in 1..12 /\ day \in 1..31 /\ year \in Nat /\ month \in Nat
      BY DEF CalInv
    <2>1. isLeapYear(year) <=> Gregorian(year)
      BY <2>0, CalendarIs
    <2>2. LastDay(year, month) = MonthLength(LeapDay(year), month)
      BY <2>0, CalendarIs
    <2>3. LastDay(year, month) \in 28..31
      <3>1. LeapDay(year) \in 0..1
        BY DEF LeapDay
      <3> QED
        BY <2>0, <2>2, <3>1, MonthLengths
    <2>4. ASSUME NEW d \in 0..40
          PROVE  isValidDate(year, month, d) <=> d \in 1 .. LastDay(year, month)
      <3>1. d \in Nat
        OBVIOUS
      <3>2. isValidDate(year, month, d) <=> 1 <= d /\ d <= LastDay(year, month)
        BY <2>0, <2>2, <3>1, ValidDate
      <3> QED
        BY <2>3, <3>1, <3>2
    <2>5. ~isValidDate(year, 0, day) /\ ~isValidDate(year, 13, day)
          /\ ~isValidDate(100 + year, month, day)
      BY <2>0 DEF isValidDate
    <2>6. isInLeapYear(date) <=> Gregorian(year)
      BY <2>1, TodayIsDate DEF isInLeapYear
    <2>7. dayOfTheWeek(date) = weekday
      BY DEF CalInv
    <2> QED
      BY <2>4, <2>5, <2>6, <2>7, TodayIsDate DEF DatesAreCalendar
  <1> QED
    BY <1>1, CalInvariant, PTL

(* The parts recodeDate() is given, and those it keeps.                     *)
LEMMA RecodeIs ==
  ASSUME CalInv
  PROVE  /\ \A m \in 1..12 : recodeDate(date, -1, m, -1) = encodeDate(year, m, day)
         /\ \A y \in 0..99 : recodeDate(date, y, -1, -1) = encodeDate(y, month, day)
         /\ \A d \in 1..31 : recodeDate(date, -1, -1, d) = encodeDate(year, month, d)
  <1>1. year \in 0..99 /\ month \in 1..12 /\ day \in 1..31
    BY DEF CalInv
  <1>2. UCHAR_SPAN = 256
    BY DEF UCHAR_SPAN
  <1>3. \A n \in 0..99 : n % UCHAR_SPAN = n
    BY <1>2
  <1>4. \A n \in 0..99 : n >= 0
    OBVIOUS
  <1>5. year % UCHAR_SPAN = year /\ month % UCHAR_SPAN = month /\ day % UCHAR_SPAN = day
    BY <1>1, <1>3
  <1>6. ~(-1 >= 0)
    OBVIOUS
  <1>7. 1..12 \subseteq 0..99 /\ 1..31 \subseteq 0..99
    OBVIOUS
  <1> QED
    BY <1>3, <1>4, <1>5, <1>6, <1>7, TodayIsDate DEF recodeDate

(* A day of month m of year y, or behind its end.                           *)
LEMMA DayOfMonthIs ==
  ASSUME NEW y \in 0..99, NEW m \in 1..12, NEW d \in 1..31
  PROVE  decodeDate(encodeDate(y, m, d)) =
           IF d <= LastDay(y, m)
           THEN [year |-> y, month |-> m, day |-> d]
           ELSE [year |-> y, month |-> m + 1, day |-> d - LastDay(y, m)]
  <1>0. y \in Nat /\ m \in Nat /\ d \in Nat /\ 1 <= d
    OBVIOUS
  <1>1. LastDay(y, m) = MonthLength(LeapDay(y), m)
    BY CalendarIs
  <1>2. LastDay(y, m) \in 28..31
    <2>1. LeapDay(y) \in 0..1
      BY DEF LeapDay
    <2> QED
      BY <1>1, <2>1, MonthLengths
  <1>3. CASE d <= LastDay(y, m)
    <2>1. isValidDate(y, m, d)
      BY <1>0, <1>1, <1>3, ValidDate
    <2> QED
      BY <1>0, <1>3, <2>1, DecodeInvertsEncode
  <1>4. CASE ~(d <= LastDay(y, m))
    <2>1. MonthLength(LeapDay(y), m) < d
      BY <1>1, <1>2, <1>4
    <2> QED
      BY <1>1, <1>4, <2>1, DayBehindMonth
  <1> QED
    BY <1>3, <1>4

(* Another month, year or day, for every day of the calendar.               *)
LEMMA OtherMonth ==
  ASSUME CalInv, NEW m \in 1..12
  PROVE  decodeDate(recodeDate(date, -1, m, -1)) =
           IF day <= LastDay(year, m)
           THEN [Today EXCEPT !.month = m]
           ELSE [year |-> year, month |-> m + 1, day |-> day - LastDay(year, m)]
  <1> DEFINE t == Today
  <1>1. year \in 0..99 /\ day \in 1..31
    BY DEF CalInv
  <1>2. recodeDate(date, -1, m, -1) = encodeDate(year, m, day)
    BY RecodeIs
  <1>3. decodeDate(encodeDate(year, m, day)) =
          IF day <= LastDay(year, m)
          THEN [year |-> year, month |-> m, day |-> day]
          ELSE [year |-> year, month |-> m + 1, day |-> day - LastDay(year, m)]
    BY <1>1, DayOfMonthIs
  <1>4. t = [year |-> year, month |-> month, day |-> day]
    BY DEF Today
  <1> HIDE DEF t
  <1>5. [t EXCEPT !.month = m] = [year |-> year, month |-> m, day |-> day]
    BY <1>4
  <1> QED
    BY <1>2, <1>3, <1>5, Zenon DEF t

LEMMA OtherYear ==
  ASSUME CalInv, NEW y \in 0..99
  PROVE  decodeDate(recodeDate(date, y, -1, -1)) =
           IF day <= LastDay(y, month)
           THEN [Today EXCEPT !.year = y]
           ELSE [year |-> y, month |-> month + 1, day |-> 1]
  <1> DEFINE t == Today
  <1>1. year \in 0..99 /\ month \in 1..12 /\ day \in 1..31 /\ day <= LastDay(year, month)
    BY CalendarIs DEF CalInv
  <1>2. recodeDate(date, y, -1, -1) = encodeDate(y, month, day)
    BY RecodeIs
  <1>3. decodeDate(encodeDate(y, month, day)) =
          IF day <= LastDay(y, month)
          THEN [year |-> y, month |-> month, day |-> day]
          ELSE [year |-> y, month |-> month + 1, day |-> day - LastDay(y, month)]
    BY <1>1, DayOfMonthIs
  <1>4. /\ LastDay(y, month) \in Nat /\ LastDay(year, month) \in Nat
        /\ LastDay(year, month) <= LastDay(y, month) + 1
    BY <1>1 DEF LastDay
  <1>5. ~(day <= LastDay(y, month)) => day - LastDay(y, month) = 1
    BY <1>1, <1>4
  <1>6. t = [year |-> year, month |-> month, day |-> day]
    BY DEF Today
  <1> HIDE DEF t
  <1>7. [t EXCEPT !.year = y] = [year |-> y, month |-> month, day |-> day]
    BY <1>6
  <1> QED
    BY <1>2, <1>3, <1>5, <1>7, Zenon DEF t

LEMMA OtherDay ==
  ASSUME CalInv, NEW d \in 1..31
  PROVE  daysBetween(recodeDate(date, -1, -1, d), date) = d - day
  <1>1. year \in 0..99 /\ month \in 1..12 /\ day \in 1..31
    BY DEF CalInv
  <1>2. recodeDate(date, -1, -1, d) = encodeDate(year, month, d)
    BY RecodeIs
  <1>3. encodeDate(year, month, d) = DayNumber(year, DayOfYear(year, month, d))
    BY <1>1, EncodeIs DEF AnyDay
  <1>4. LeapDay(year) \in 0..1 /\ month \in 1..13
    BY <1>1 DEF LeapDay
  <1>5. Before(LeapDay(year), month) \in Nat
    BY <1>4, BeforeIsNat
  <1> QED
    BY <1>1, <1>2, <1>3, <1>5 DEF CalInv, daysBetween, DayNumber, DayOfYear

(* recodeDate() changes the part it is given and keeps the others, and a    *)
(* day that the new month does not have counts on into the month after it:  *)
(* RecodeKeepsTheRest (dateUtils.c:78-91).                                  *)
THEOREM RecodeKeeps == Spec => []RecodeKeepsTheRest
  <1>1. CalInv => RecodeKeepsTheRest
    <2>1. /\ {1, 2, 3, 11, 12} \subseteq 1..12
          /\ {0, 1, 4, 98, 99} \subseteq 0..99
          /\ {1, 28, 29, 30, 31} \subseteq 1..31
      OBVIOUS
    <2> QED
      BY <2>1, OtherMonth, OtherYear, OtherDay, Zenon DEF RecodeKeepsTheRest
  <1> QED
    BY <1>1, CalInvariant, PTL
=============================================================================
