------------------------------- MODULE Calendar -------------------------------
(***************************************************************************)
(* The time functions of util.c.  A time_t is a day since 1970-01-01 and a *)
(* second of that day; a string of the fixed forms "YYYY-MM-DDThh:mm:ss"   *)
(* and "YYYY-MM-DD hh:mm:ss" is the six numbers read from it, and what an  *)
(* API string has behind them is its zone.                                 *)
(***************************************************************************)
EXTENDS Integers

Instant(day, second) ==
    [day |-> day + second \div 86400, second |-> second % 86400]

Earlier(t, u) == t.day < u.day \/ (t.day = u.day /\ t.second < u.second)

(* The Gregorian calendar of timegm() and gmtime_r(). *)
Leap(year) == year % 4 = 0 /\ (year % 100 # 0 \/ year % 400 = 0)
DaysBeforeYear(year) ==
    LET y == year - 1 IN 365 * (year - 1970) + y \div 4 - y \div 100 + y \div 400 - 477
DaysBeforeMonth(year, mo) ==
    <<0, 31, 59, 90, 120, 151, 181, 212, 243, 273, 304, 334>>[mo]
        + IF mo > 2 /\ Leap(year) THEN 1 ELSE 0
MonthLength(year, mo) ==
    IF mo = 12 THEN 31 ELSE DaysBeforeMonth(year, mo + 1) - DaysBeforeMonth(year, mo)

(* timegm(): a day behind the end of its month is one of the next. *)
timegm(f) ==
    Instant(DaysBeforeYear(f.y) + DaysBeforeMonth(f.y, f.mo) + f.d - 1,
            f.h * 3600 + f.mi * 60 + f.se)

(* gmtime_r(), from 1968 to 2243. *)
FarthestDay == 100000
gmtime(t) ==
    LET guess == 1969 + t.day \div 366
        y == CHOOSE y \in guess..(guess + 3) :
                DaysBeforeYear(y) <= t.day /\ t.day < DaysBeforeYear(y + 1)
        yday == t.day - DaysBeforeYear(y)
        mo == CHOOSE mo \in 1..12 :
                /\ DaysBeforeMonth(y, mo) <= yday
                /\ yday < DaysBeforeMonth(y, mo) + MonthLength(y, mo)
    IN  [y |-> y, mo |-> mo, d |-> yday - DaysBeforeMonth(y, mo) + 1,
         h |-> t.second \div 3600, mi |-> t.second \div 60 % 60, se |-> t.second % 60]

(* The range checks of parse_iso8601(); 60 is a leap second. *)
FieldsInRange(f) ==
    /\ f.mo \in 1..12 /\ f.d \in 1..31
    /\ f.h \in 0..23 /\ f.mi \in 0..59 /\ f.se \in 0..60

(* Its offset in minutes: "+hh:mm" and "+hhmm" are read, "Z", nothing, and  *)
(* an offset of hours only count as UTC.                                    *)
Offset(zone) ==
    IF zone.written \in {"hh:mm", "hhmm"}
    THEN zone.sign * (zone.hours * 60 + zone.minutes) ELSE 0

ShiftedBackwards(t, minutes) == Instant(t.day, t.second + 60 * minutes)

(* UTC is the local time minus its offset. *)
Shifted(t, minutes) == Instant(t.day, t.second - 60 * minutes)

(* parse_iso8601() returns 1 (a timegm() of -1 is its error value) ... *)
Parses(iso) == FieldsInRange(iso.local) /\ timegm(iso.local) # Instant(-1, 86399)

(* ... with this time. *)
parse_iso8601(iso) == Shifted(timegm(iso.local), Offset(iso.zone))

(* format_mysql_datetime(), and parse_mysql_datetime() on what it wrote. *)
format_mysql_datetime(t) == gmtime(t)
parse_mysql_datetime(f) == timegm(f)
===============================================================================
