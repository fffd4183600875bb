---- MODULE CivilTime ----
(***************************************************************************)
(* The calendar arithmetic of normalize.rs: day of the week (Sakamoto) and *)
(* days since 1970 (Hinnant), next to a calendar that counts.              *)
(***************************************************************************)
EXTENDS Integers, FiniteSets

T == <<0, 3, 2, 5, 0, 3, 5, 1, 4, 6, 2, 4>>

\* Monday is 0.
FastWeekday(year, m, d) ==
    LET y == IF m < 3 THEN year - 1 ELSE year
    IN (((y + y \div 4 - y \div 100 + y \div 400 + T[m] + d) % 7) + 6) % 7

\* The days of fast_epoch.  Its year starts in March.
FastDays(year, month, d) ==
    LET y   == IF month <= 2 THEN year - 1 ELSE year
        m   == IF month <= 2 THEN month + 9 ELSE month - 3
        era == y \div 400
        yoe == y - era * 400
        doy == (153 * m + 2) \div 5 + d - 1
        doe == yoe * 365 + yoe \div 4 - yoe \div 100 + doy
    IN era * 146097 + doe - 719468

\* The difference of two fast_epoch.
SecondsFrom(t, u) ==
    (FastDays(u.year, u.month, u.day) - FastDays(t.year, t.month, t.day)) * 86400
        + (u.hour - t.hour) * 3600 + (u.minute - t.minute) * 60 + (u.second - t.second)

---------------------------------------------------------------------------
(* The calendar.                                                           *)

IsLeap(y) == y % 4 = 0 /\ (y % 100 = 0 => y % 400 = 0)
DaysIn(y, m) == IF m = 2 THEN IF IsLeap(y) THEN 29 ELSE 28
                ELSE IF m \in {4, 6, 9, 11} THEN 30 ELSE 31
IsDate(y, m, d) == y \in Nat \ {0} /\ m \in 1..12 /\ d \in 1..DaysIn(y, m)

\* The days from 1 January 1970 to a date after it, counted.
DayNumber(y, m, d) ==
    365 * (y - 1970) + Cardinality({z \in 1970..(y - 1) : IsLeap(z)})
        + Cardinality({x \in (1..(m - 1)) \X (1..31) : x[2] <= DaysIn(y, x[1])})
        + d - 1
\* 1 January 1970 was a Thursday.
Weekday(y, m, d) == (DayNumber(y, m, d) + 3) % 7
====
