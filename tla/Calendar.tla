------------------------------- MODULE Calendar -------------------------------
(***************************************************************************)
(* The calendar of date.h: what its types can hold, and how dates are      *)
(* computed.  A duration in days, months or years is an integer.           *)
(***************************************************************************)
EXTENDS Integers

(* C++ divides toward zero. *)
Quotient(a, b) == IF a >= 0 THEN a \div b ELSE -((-a) \div b)

(* Mutant: a plain division. *)
TruncQuotient(n, b) == Quotient(n, b)

(* The idiom (n >= 0 ? n : n - (b-1)) / b. *)
FloorQuotient(n, b) == Quotient(IF n >= 0 THEN n ELSE n - (b - 1), b)

-----------------------------------------------------------------------------
(* day, month, year and weekday: unsigned char, short.                      *)

Day(d) == d % 256

Month(m) == m % 256

MonthOk(m) == 1 <= m /\ m <= 12

MonthPlus(m, n) == Month(m + n - 1 - FloorQuotient(m + n - 1, 12) * 12 + 1)

(* An unsigned difference: less than 0 is more than 11. *)
MonthMinus(x, y) == IF x - y \in 0..11 THEN x - y ELSE x - y + 12

Year(y) == ((y + 32768) % 65536) - 32768

YearOk(y) == y # -32768

IsLeap(y) == y % 4 = 0 /\ (y % 100 # 0 \/ y % 400 = 0)

YearPlus(y, n) == Year(y + n)

(* 7 is Sunday too. *)
Weekday(wd) == IF wd # 7 THEN wd % 256 ELSE 0

WeekdayOk(wd) == wd <= 6

(* The count as unsigned; below -4 it is 2^32 too large, which is 4 mod 7.  *)
WeekdayFromDays(z) == IF z >= -4 THEN (z + 4) % 7 ELSE ((z % 7) + 4) % 7

WeekdayPlus(wd, n) == Weekday(wd + n - FloorQuotient(wd + n, 7) * 7)

WeekdayMinus(x, y) == x - y - FloorQuotient(x - y, 7) * 7

IsoEncoding(wd) == IF wd = 0 THEN 7 ELSE wd

(* weekday_indexed has 4 bits for each number. *)
WeekdayIndexed(wd, index) == [weekday |-> wd % 16, index |-> index % 16]

WeekdayIndexedOk(wdi) == WeekdayOk(Weekday(wdi.weekday)) /\ 1 <= wdi.index /\ wdi.index <= 5

-----------------------------------------------------------------------------
(* year_month, month_day, month_day_last, month_weekday, month_weekday_last *)

YearMonth(y, m) == [year |-> y, month |-> m]

YearMonthLess(x, y) == x.year < y.year \/ (~(x.year > y.year) /\ x.month < y.month)

YearMonthPlus(ym, n) ==
  LET dmi == ym.month - 1 + n
      dy == FloorQuotient(dmi, 12)
  IN  YearMonth(YearPlus(ym.year, dy), Month(dmi - dy * 12 + 1))

YearMonthMinus(x, y) == 12 * (x.year - y.year) + (x.month - y.month)

YearMonthPlusYears(ym, n) == YearMonth(YearPlus(ym.year, n), ym.month)

MonthDay(m, d) == [month |-> m, day |-> d]

MonthDayOk(md) ==
  /\ MonthOk(md.month)
  /\ 1 <= md.day /\ md.day <= <<31, 29, 31, 30, 31, 30, 31, 31, 30, 31, 30, 31>>[md.month]

MonthDayLess(x, y) == x.month < y.month \/ (~(x.month > y.month) /\ x.day < y.day)

MonthDayLastOk(m) == MonthOk(m)

MonthWeekdayOk(m, wdi) == MonthOk(m) /\ WeekdayIndexedOk(wdi)

MonthWeekdayLastOk(m, wd) == MonthOk(m) /\ WeekdayOk(wd)

-----------------------------------------------------------------------------
(* year_month_day and year_month_day_last                                   *)

YearMonthDay(ym, d) == [year |-> ym.year, month |-> ym.month, day |-> d]

ToDays(ymd) ==
  LET y == ymd.year - (IF ymd.month <= 2 THEN 1 ELSE 0)
      era == FloorQuotient(y, 400)
      yoe == y - era * 400
      doy == (153 * (IF ymd.month > 2 THEN ymd.month - 3 ELSE ymd.month + 9) + 2) \div 5
               + ymd.day - 1
      doe == yoe * 365 + yoe \div 4 - yoe \div 100 + doy
  IN  era * 146097 + doe - 719468

(* Mutant: the last day of an era is taken for the first of a 401st year.   *)
FromDaysEra(n) ==
  LET z == n + 719468
      era == FloorQuotient(z, 146097)
      doe == z - era * 146097
      yoe == (doe - doe \div 1460 + doe \div 36524) \div 365
      doy == doe - (365 * yoe + yoe \div 4 - yoe \div 100)
      mp == (5 * doy + 2) \div 153
      m == IF mp < 10 THEN mp + 3 ELSE mp - 9
      y == yoe + era * 400 + (IF m <= 2 THEN 1 ELSE 0)
  IN  YearMonthDay(YearMonth(Year(y), Month(m)), Day(doy - (153 * mp + 2) \div 5 + 1))

FromDays(n) ==
  LET z == n + 719468
      era == FloorQuotient(z, 146097)
      doe == z - era * 146097
      yoe == (doe - doe \div 1460 + doe \div 36524 - doe \div 146096) \div 365
      doy == doe - (365 * yoe + yoe \div 4 - yoe \div 100)
      mp == (5 * doy + 2) \div 153
      d == doy - (153 * mp + 2) \div 5 + 1
      m == IF mp < 10 THEN mp + 3 ELSE mp - 9
      y == yoe + era * 400 + (IF m <= 2 THEN 1 ELSE 0)
  IN  YearMonthDay(YearMonth(Year(y), Month(m)), Day(d))

(* year_month_day_last::day.                                                *)
LastDay(ym) ==
  IF (ym.month # 2 \/ ~IsLeap(ym.year)) /\ MonthDayLastOk(ym.month)
  THEN <<31, 28, 31, 30, 31, 30, 31, 31, 30, 31, 30, 31>>[ym.month]
  ELSE 29

YearMonthDayLastOk(ym) == YearOk(ym.year) /\ MonthDayLastOk(ym.month)

YearMonthDayLastToDays(ym) == ToDays(YearMonthDay(ym, LastDay(ym)))

YearMonthDayOk(ymd) ==
  /\ YearOk(ymd.year) /\ MonthOk(ymd.month)
  /\ 1 <= ymd.day /\ ymd.day <= LastDay(ymd)

YearMonthDayLess(x, y) ==
  \/ x.year < y.year
  \/ ~(x.year > y.year) /\ (x.month < y.month \/ (~(x.month > y.month) /\ x.day < y.day))

(* The day stays, also where the month has no such day. *)
YearMonthDayPlus(ymd, n) == YearMonthDay(YearMonthPlus(ymd, n), ymd.day)

YearMonthDayPlusYears(ymd, n) == YearMonthDay(YearMonthPlusYears(ymd, n), ymd.day)

-----------------------------------------------------------------------------
(* year_month_weekday and year_month_weekday_last                           *)

YearMonthWeekday(ym, wdi) == [year |-> ym.year, month |-> ym.month, wdi |-> wdi]

WeekdayToDays(ymwd) ==
  LET d == ToDays(YearMonthDay(ymwd, Day(1)))
  IN  d + WeekdayMinus(ymwd.wdi.weekday, WeekdayFromDays(d)) + (ymwd.wdi.index - 1) * 7

WeekdayOfDays(n) ==
  LET ymd == FromDays(n)
  IN  YearMonthWeekday(ymd, WeekdayIndexed(WeekdayFromDays(n), (ymd.day - 1) \div 7 + 1))

YearMonthWeekdayOk(ymwd) ==
  /\ YearOk(ymwd.year) /\ MonthOk(ymwd.month)
  /\ WeekdayOk(Weekday(ymwd.wdi.weekday)) /\ ymwd.wdi.index >= 1
  /\ \/ ymwd.wdi.index <= 4
     \/ WeekdayMinus(ymwd.wdi.weekday, WeekdayFromDays(ToDays(YearMonthDay(ymwd, Day(1)))))
          + (ymwd.wdi.index - 1) * 7 + 1 <= LastDay(ymwd)

YearMonthWeekdayPlus(ymwd, n) == YearMonthWeekday(YearMonthPlus(ymwd, n), ymwd.wdi)

YearMonthWeekdayPlusYears(ymwd, n) == YearMonthWeekday(YearMonthPlusYears(ymwd, n), ymwd.wdi)

(* Mutant: the difference the other way round. *)
WeekdayLastToDaysAfter(ym, wd) ==
  LET d == YearMonthDayLastToDays(ym)
  IN  d - WeekdayMinus(wd, WeekdayFromDays(d))

WeekdayLastToDays(ym, wd) ==
  LET d == YearMonthDayLastToDays(ym)
  IN  d - WeekdayMinus(WeekdayFromDays(d), wd)

-----------------------------------------------------------------------------
(* The numbers that to_stream computes from a date.                         *)

DayOfYear(ymd) == ToDays(ymd) - ToDays(YearMonthDay(YearMonth(ymd.year, 1), 1)) + 1

(* %U and %W: weeks from the first Sunday or Monday of the year.            *)
WeekOfYear(n, wd) ==
  LET start == WeekdayToDays(YearMonthWeekday(YearMonth(FromDays(n).year, 1),
                                              WeekdayIndexed(wd, 1)))
  IN  IF n < start THEN 0 ELSE Quotient(n - start, 7) + 1

(* The Monday after the last Thursday of the year before.                   *)
IsoStart(y) ==
  WeekdayLastToDays(YearMonth(YearPlus(y, -1), 12), 4) + WeekdayMinus(1, 4)

IsoYear(n) ==
  LET y == FromDays(n + 3).year
  IN  IF n < IsoStart(y) THEN YearPlus(y, -1) ELSE y

IsoWeek(n) == Quotient(n - IsoStart(IsoYear(n)), 7) + 1
=============================================================================
