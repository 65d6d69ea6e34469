------------------------------ MODULE Gregorian ------------------------------
(***************************************************************************)
(* The Gregorian calendar as people keep it: one day follows another.  It  *)
(* is the abstract specification of the dates that date.h computes from a  *)
(* number of days.                                                         *)
(***************************************************************************)
EXTENDS Integers

CONSTANT Anchor   \* a date that is known: [year, month, day, weekday, ...]

VARIABLE date     \* [year, month, day, weekday, dayOfYear, isoYear, isoWeek]

IsLeapYear(y) == y % 4 = 0 /\ (y % 100 = 0 => y % 400 = 0)

MonthLength(y, m) ==
  CASE m \in {4, 6, 9, 11} -> 30
    [] m = 2 -> IF IsLeapYear(y) THEN 29 ELSE 28
    [] OTHER -> 31

LastOfMonth(d) == d.day = MonthLength(d.year, d.month)

LastOfYear(d) == d.month = 12 /\ d.day = 31

(* Weeks begin on Monday, and belong to the year that has their Thursday:   *)
(* the first week of a year begins between 29 December and 4 January.       *)
BeginsIsoYear(month, day) == (month = 12 /\ day >= 29) \/ (month = 1 /\ day <= 4)

Tomorrow(d) ==
  LET year == IF LastOfYear(d) THEN d.year + 1 ELSE d.year
      month == IF LastOfMonth(d) THEN (d.month % 12) + 1 ELSE d.month
      day == IF LastOfMonth(d) THEN 1 ELSE d.day + 1
      weekday == (d.weekday + 1) % 7
      monday == weekday = 1
  IN  [year |-> year, month |-> month, day |-> day, weekday |-> weekday,
       dayOfYear |-> IF LastOfYear(d) THEN 1 ELSE d.dayOfYear + 1,
       isoYear |-> IF monday /\ BeginsIsoYear(month, day) THEN d.isoYear + 1 ELSE d.isoYear,
       isoWeek |-> CASE ~monday -> d.isoWeek
                     [] monday /\ BeginsIsoYear(month, day) -> 1
                     [] OTHER -> d.isoWeek + 1]

Init == date = Anchor

NextDay == date' = Tomorrow(date)

(* A clock may be set back. *)
PreviousDay == date = Tomorrow(date')

Next == NextDay \/ PreviousDay

Spec == Init /\ [][Next]_date
=============================================================================
