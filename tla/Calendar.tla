------------------------------ MODULE Calendar ------------------------------
(***************************************************************************)
(* The calendar of the years 2000 to 2099, day by day, by the rules of the  *)
(* Gregorian calendar: what the functions of DateUtils are checked against. *)
(* No step of it is code; `date' is the number the library gives the day.   *)
(***************************************************************************)
EXTENDS DateUtils

VARIABLES year, month, day, weekday, date

vars == <<year, month, day, weekday, date>>
-----------------------------------------------------------------------------
\* the years, as the rule counts them
Gregorian(y) == LET AD == 2000 + y IN AD % 4 = 0 /\ (AD % 100 # 0 \/ AD % 400 = 0)

\* long and short months alternate, and start again in August
LastDay(y, m) ==
  IF m = 2 THEN IF Gregorian(y) THEN 29 ELSE 28 ELSE 30 + ((m + m \div 8) % 2)

Init ==
  /\ year = 0 /\ month = 1 /\ day = 1
  /\ weekday = Saturday
  /\ date = 1

NextDay ==
  /\ date' = date + 1
  /\ weekday' = IF weekday = 7 THEN Monday ELSE weekday + 1
  /\ \/ day < LastDay(year, month) /\ day' = day + 1 /\ UNCHANGED <<year, month>>
     \/ /\ day = LastDay(year, month) /\ day' = 1
        /\ \/ month < 12 /\ month' = month + 1 /\ UNCHANGED year
           \/ month = 12 /\ year < 99 /\ month' = 1 /\ year' = year + 1

Spec == Init /\ [][NextDay]_vars
-----------------------------------------------------------------------------
Today == [year |-> year, month |-> month, day |-> day]

(* decodeDate() and encodeDate() agree with the calendar, and so are each   *)
(* other's inverse, over months, leap years and the ends of the four-year   *)
(* periods decodeDate() counts in; dayOfTheWeek() goes on with the days and *)
(* calls 2000-01-01 a Saturday; isValidDate() takes the days the calendar   *)
(* has, but the years above 99 (dateUtils.c:15-76, 117-120).                *)
DatesAreCalendar ==
  /\ decodeDate(date) = Today
  /\ encodeDate(year, month, day) = date
  /\ isInLeapYear(date) <=> Gregorian(year)
  /\ dayOfTheWeek(date) = weekday
  /\ \A d \in 0..40 : isValidDate(year, month, d) <=> d \in 1 .. LastDay(year, month)
  /\ ~isValidDate(year, 0, day) /\ ~isValidDate(year, 13, day)
  /\ ~isValidDate(100 + year, month, day)

(* recodeDate() changes the parts it is given and keeps the others; a day   *)
(* the new month does not have counts on into the month after it            *)
(* (dateUtils.c:78-91).                                                     *)
RecodeKeepsTheRest ==
  /\ \A m \in {1, 2, 3, 11, 12} :
       decodeDate(recodeDate(date, -1, m, -1)) =
         IF day <= LastDay(year, m)
         THEN [Today EXCEPT !.month = m]
         ELSE [year |-> year, month |-> m + 1, day |-> day - LastDay(year, m)]
  /\ \A y \in {0, 1, 4, 98, 99} :
       decodeDate(recodeDate(date, y, -1, -1)) =
         IF day <= LastDay(y, month)
         THEN [Today EXCEPT !.year = y]
         ELSE [year |-> y, month |-> month + 1, day |-> 1]
  /\ \A d \in {1, 28, 29, 30, 31} :
       daysBetween(recodeDate(date, -1, -1, d), date) = d - day
=============================================================================
