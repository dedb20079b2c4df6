----------------------------- MODULE DateUtils -----------------------------
(***************************************************************************)
(* The date library (src/lib/dateUtils): a TDate numbers the days from      *)
(* 2000-01-01, which is 1; a year is the number of years since 2000.  The   *)
(* functions stand here as operators; Calendar checks them against a        *)
(* calendar that goes on by one day at a time.                              *)
(***************************************************************************)
EXTENDS Integers, Sequences

UCHAR_SPAN == 256
TDATE_SPAN == 65536

Monday == 1
Saturday == 6

FOUR_YEARS == 365 * 4 + 1

isLeapYear(year) == year % 4 = 0

MONTH_DAYS(leap) ==
  <<31, IF leap THEN 29 ELSE 28, 31, 30, 31, 30, 31, 31, 30, 31, 30, 31>>

isValidDate(year, month, day) ==
  /\ year <= 99
  /\ month \in 1..12
  /\ day \in 1 .. MONTH_DAYS(isLeapYear(year))[month]

\* the days of the months before month m
DaysOfMonths[m \in 1..13] ==
  [leap \in BOOLEAN |->
     IF m = 1 THEN 0 ELSE DaysOfMonths[m - 1][leap] + MONTH_DAYS(leap)[m - 1]]

DaysBefore(year, month) == DaysOfMonths[month][isLeapYear(year)]

\* mutant: the leap day of the year itself is counted too
encodeDateLeapTwice(year, month, day) ==
  (year * 365 + (year + 4) \div 4 + day + DaysBefore(year, month)) % TDATE_SPAN

encodeDate(year, month, day) ==
  (year * 365 + (year + 3) \div 4 + day + DaysBefore(year, month)) % TDATE_SPAN

\* the first loop takes off four years while more than four years are left
FourYearsBefore(date) == (date - 1) \div FOUR_YEARS

\* decodeDate() splits the day number into the year and the day in it
YearAndDay(date) ==
  LET temp == 4 * FourYearsBefore(date)
      left == date - FOUR_YEARS * FourYearsBefore(date)
      years == (left - 366 - 1) \div 365
  IN  IF left > 366
      THEN [year |-> temp + 1 + years, day |-> left - 366 - 365 * years]
      ELSE [year |-> temp, day |-> left]

decodeDate(date) ==
  LET y == YearAndDay(date)
      month == CHOOSE m \in 1..12 :
                 DaysBefore(y.year, m) < y.day /\ y.day <= DaysBefore(y.year, m + 1)
  IN  [year |-> y.year, month |-> month, day |-> y.day - DaysBefore(y.year, month)]

yearOf(date) == decodeDate(date).year
monthOf(date) == decodeDate(date).month
dayOf(date) == decodeDate(date).day

\* mutant: the month is set before the date is taken apart, the day is lost
recodeDateDropsDay(date, year, month, day) ==
  encodeDate((IF year >= 0 THEN year ELSE yearOf(date)) % UCHAR_SPAN,
             (IF month >= 0 THEN month ELSE monthOf(date)) % UCHAR_SPAN,
             (IF day > 0 THEN day ELSE 1) % UCHAR_SPAN)

\* a part below 0 is left as it is
recodeDate(date, year, month, day) ==
  encodeDate((IF year >= 0 THEN year ELSE yearOf(date)) % UCHAR_SPAN,
             (IF month >= 0 THEN month ELSE monthOf(date)) % UCHAR_SPAN,
             (IF day >= 0 THEN day ELSE dayOf(date)) % UCHAR_SPAN)

dayOfTheWeek(date) == ((date + 4) % 7) + 1

isInLeapYear(date) == isLeapYear(yearOf(date))
daysBetween(date1, date2) == date1 - date2
=============================================================================
