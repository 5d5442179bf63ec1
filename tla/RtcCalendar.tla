----------------------------- MODULE RtcCalendar ----------------------------
(***************************************************************************)
(* The date arithmetic of the DS3231 library, beside a calendar that is    *)
(* simply counted forward, a day a step, from 1 January 2000.              *)
(***************************************************************************)
EXTENDS Integers

CONSTANTS
  LastYear,               \* bound: the year the count stops after
  Hour, Minute, Second    \* the times of day looked at on each day

ASSUME YearAssumption == LastYear \in 2000 .. 2099
ASSUME TimeAssumption ==
  Hour \subseteq 0 .. 23 /\ Minute \subseteq 0 .. 59 /\ Second \subseteq 0 .. 59

VARIABLES
  year, month, day,   \* the calendar
  weekday,            \* 1 for Monday to 7 for Sunday
  elapsed,            \* days since 1 January 2000
  inYear              \* days since 1 January of this year

vars == <<year, month, day, weekday, elapsed, inYear>>

-----------------------------------------------------------------------------
(* The library.                                                            *)

daysArray == <<31, 28, 31, 30, 31, 30, 31, 31, 30, 31, 30, 31>>
dowArray == <<0, 3, 2, 5, 0, 3, 5, 1, 4, 6, 2, 4>>

isLeapYear(y) == y % 4 = 0

\* Slip: February is taken as every year's.
daysInCommonMonth(y, m) == daysArray[m]

daysInMonth(y, m) == daysArray[m] + (IF m = 2 /\ isLeapYear(y) THEN 1 ELSE 0)

\* The loop over the months before m.
daysBefore(m) ==
  LET before[i \in 1 .. m] == IF i = 1 THEN 0 ELSE before[i - 1] + daysArray[i - 1]
  IN  before[m]

\* Slip: the leap day counts from the year after the next.
date2daysLate(y, m, d) ==
  LET since == y - 2000
  IN  d + daysBefore(m) + (IF m = 2 /\ isLeapYear(since) THEN 1 ELSE 0)
        + 365 * since + (since \div 4) - 1

\* Days since 1 January 2000, as unixtime() and dayInYear() use them; the leap
\* day is added within February and in no other month.
date2days(y, m, d) ==
  LET since == y - 2000
  IN  d + daysBefore(m) + (IF m = 2 /\ isLeapYear(since) THEN 1 ELSE 0)
        + 365 * since + ((since + 3) \div 4) - 1

dayInYear(y, m, d) == date2days(y, m, d) - date2days(y, 1, 1)

\* Slip: January and February are not counted with the year before.
dowUnshifted(y, m, d) ==
  LET sum == y + (y \div 4) - (y \div 100) + (y \div 400) + dowArray[m] + d
  IN  IF sum % 7 = 0 THEN 7 ELSE sum % 7

\* The day of the week, for the chip's register.
dow(y, m, d) ==
  LET z == IF m < 3 THEN y - 1 ELSE y
      sum == z + (z \div 4) - (z \div 100) + (z \div 400) + dowArray[m] + d
  IN  IF sum % 7 = 0 THEN 7 ELSE sum % 7

\* Slip: the test of the loop over the years lets day 365 through.
yearLengthShort(y) == 365

\* setDateTime(t), once it has days: the loop over the years, and in the last
\* the one over the months, each taking off the days of what it passes.
yearLength(y) == 365 + (IF y % 4 = 0 THEN 1 ELSE 0)

fromDays(days) ==
  LET afterYears[y \in 0 .. 100] ==
        IF y = 0 THEN days ELSE afterYears[y - 1] - yearLength(y - 1)
      y == CHOOSE z \in 0 .. 99 : afterYears[z] \in 0 .. yearLength(z) - 1
      monthLength(m) == daysArray[m] + (IF y % 4 = 0 /\ m = 2 THEN 1 ELSE 0)
      afterMonths[m \in 1 .. 13] ==
        IF m = 1 THEN afterYears[y] ELSE afterMonths[m - 1] - monthLength(m - 1)
      m == CHOOSE k \in 1 .. 12 : afterMonths[k] \in 0 .. monthLength(k) - 1
  IN  <<y + 2000, m, afterMonths[m] + 1>>

\* The second the driver counts from: 31 December 1999, 23:00 GMT.
Epoch == 946681200

\* setDateTime(t), for t from Epoch on, where the subtraction does not wrap:
\* the date and the time of day that it writes.
fromTimestamp(t) ==
  LET seconds == t - Epoch
      minutes == seconds \div 60
      hours == minutes \div 60
  IN  [date |-> fromDays(hours \div 24),
       time |-> <<hours % 24, minutes % 60, seconds % 60>>]

-----------------------------------------------------------------------------
(* The calendar.                                                           *)

LeapYear == year % 4 = 0 /\ (year % 100 = 0 => year % 400 = 0)
LastDay ==
  CASE month = 2 -> IF LeapYear THEN 29 ELSE 28
    [] month \in {4, 6, 9, 11} -> 30
    [] OTHER -> 31

Init ==
  /\ year = 2000 /\ month = 1 /\ day = 1
  /\ weekday = 6
  /\ elapsed = 0 /\ inYear = 0

Count ==
  /\ weekday' = (weekday % 7) + 1
  /\ elapsed' = elapsed + 1

NextDay ==
  /\ day < LastDay
  /\ day' = day + 1
  /\ inYear' = inYear + 1
  /\ Count /\ UNCHANGED <<year, month>>

NextMonth ==
  /\ day = LastDay /\ month < 12
  /\ month' = month + 1 /\ day' = 1
  /\ inYear' = inYear + 1
  /\ Count /\ UNCHANGED year

NextYear ==
  /\ day = LastDay /\ month = 12 /\ year < LastYear
  /\ year' = year + 1 /\ month' = 1 /\ day' = 1
  /\ inYear' = 0
  /\ Count

Next == NextDay \/ NextMonth \/ NextYear

Spec == Init /\ [][Next]_vars

-----------------------------------------------------------------------------
(* Properties.                                                             *)

(* The day of the week that setDateTime gives the chip, which counts on    *)
(* from it and matches weekly alarms with it, is the calendar's.           *)
WeekdayRight == dow(year, month, day) = weekday

(* The number of days dateFormat prints for a month is the calendar's.     *)
MonthLengthRight == daysInMonth(year, month) = LastDay

\* A Unix timestamp counts from 1970: Y2000 is that of 1 January 2000 in GMT,
\* which the clocks of GMT+1 are Zone ahead of; the one of a time of this day.
Y2000 == 946684800
Zone == 3600
Timestamp(h, m, s) == Y2000 + 86400 * elapsed + (((h * 3600 + m * 60) + s) - Zone)

(* Setting the clock from a Unix timestamp sets the day and the time of    *)
(* day that the timestamp is of in GMT+1, and so in its last hour in GMT   *)
(* the next day's: no leap day is lost or counted twice, on the last day   *)
(* of a year least, and no second is carried into the wrong day.           *)
TimestampRight ==
  \A h \in Hour, m \in Minute, s \in Second :
    fromTimestamp(Timestamp(h, m, s)) = [date |-> <<year, month, day>>, time |-> <<h, m, s>>]

(* The days counted for a date that is read back, from which its timestamp *)
(* is made, and dateFormat's day of the year are right: no leap day before *)
(* the date's year is lost or counted twice. Leap years after January are  *)
(* excepted: there the code adds the leap day in February and takes it     *)
(* back from March on, and is a day wrong.                                 *)
DayOfYearRight ==
  (~LeapYear \/ month = 1) =>
    /\ date2days(year, month, day) = elapsed
    /\ dayInYear(year, month, day) = inYear

=============================================================================
