----------------------------- MODULE SystemClock -----------------------------
(***************************************************************************)
(* The clock that HttpResponse reads for its Date header, from day to day. *)
(* It may be set back.  date.h computes every date from the number of days *)
(* since 1 January 1970; Gregorian counts them one by one.                 *)
(***************************************************************************)
EXTENDS TimeText

CONSTANTS
  FirstDay, FinalDay,   \* bounds: what system_clock can show
  Spans,                \* numbers of months to add to dates
  Times,                \* times of a day, in ticks
  StampDays             \* bound: days from the epoch whose times are formatted

ASSUME BoundsAreDays ==
  /\ FirstDay \in Int /\ FinalDay \in Int /\ FirstDay <= 0 /\ 0 <= FinalDay
  /\ ToDays(YearMonthDay(YearMonth(-32766, 1), 1)) <= FirstDay
  /\ FinalDay <= ToDays(YearMonthDay(YearMonth(32766, 12), 31))

(* The months so far from the clock's are in years that the type holds.     *)
ASSUME SpansFit ==
  \A n \in Spans : /\ n \in Int
                    /\ -32767 <= FromDays(FirstDay).year + n \div 12
                    /\ FromDays(FinalDay).year + (n + 11) \div 12 <= 32767

(* Days whose years have four digits, as those of the next day and of the   *)
(* ISO week do.                                                             *)
HasFourDigits(y) == y \in Int /\ 1000 <= y /\ y <= 9998

FourDigitYear(n) == HasFourDigits(FromDays(n).year)

(* The times of a day, and such days.                                       *)
ASSUME TimesAreShown ==
  /\ Times \subseteq 0..TicksPerDay - 1
  /\ StampDays \in Nat
  /\ \A n \in -StampDays..StampDays : FourDigitYear(n)

(* A tick is a decimal fraction of a second, as a nanosecond is.            *)
ASSUME TicksAreDecimal == Width \in 0..9 /\ StaticPow10(Width) % Ticks = 0

VARIABLES
  now,    \* the number of the day
  shown   \* what date.h computes from it

vars == <<now, shown>>

(* The year, month and day, the day of the week and of the year, and the    *)
(* ISO week.                                                                *)
Shown(n) ==
  LET ymd == FromDays(n)
  IN  [year |-> ymd.year, month |-> ymd.month, day |-> ymd.day,
       weekday |-> WeekdayFromDays(n), dayOfYear |-> DayOfYear(ymd),
       isoYear |-> IsoYear(n), isoWeek |-> IsoWeek(n)]

Init == now = 0 /\ shown = Shown(0)

NextDay == now < FinalDay /\ now' = now + 1 /\ shown' = Shown(now + 1)

PreviousDay == now > FirstDay /\ now' = now - 1 /\ shown' = Shown(now - 1)

Next == NextDay \/ PreviousDay

Spec == Init /\ [][Next]_vars

-----------------------------------------------------------------------------

Epoch == [year |-> 1970, month |-> 1, day |-> 1, weekday |-> 4, dayOfYear |-> 1,
          isoYear |-> 1970, isoWeek |-> 1]

Abstract == INSTANCE Gregorian WITH date <- shown, Anchor <- Epoch

(* ImplementsGregorian: what date.h computes for one day and for the next   *)
(* are two days that follow each other, from the Thursday on which the      *)
(* epoch began: year, month, day, weekday, day of the year and ISO week.    *)
ImplementsGregorian == Abstract!Spec

(* RepresentationsAgree: a day has one value of each type that date.h has   *)
(* for dates, which is valid and leads back to the same day, and the types  *)
(* order days as they follow each other.                                    *)
RepresentationsAgree ==
  LET ymd == YearMonthDay(shown, shown.day)
      ymwd == WeekdayOfDays(now)
      last == ymd.day = LastDay(ymd)
      wd == shown.weekday
  IN  /\ YearMonthDayOk(ymd) /\ ToDays(ymd) = now
      /\ MonthDayOk(MonthDay(ymd.month, ymd.day))
      /\ YearMonthWeekdayOk(ymwd) /\ WeekdayToDays(ymwd) = now
      /\ MonthWeekdayOk(ymwd.month, ymwd.wdi)
      /\ YearMonthDayLastOk(ymd) /\ (YearMonthDayLastToDays(ymd) = now <=> last)
      /\ MonthWeekdayLastOk(ymd.month, wd)
      /\ WeekdayLastToDays(ymd, wd) - now \in {7 * k : k \in 0..4}
      /\ WeekdayLastToDays(ymd, wd) \in YearMonthDayLastToDays(ymd) - 6 .. YearMonthDayLastToDays(ymd)
      /\ ~YearMonthWeekdayOk([ymwd EXCEPT !.wdi.index = @ + 1])
           <=> WeekdayLastToDays(ymd, wd) = now
      /\ YearMonthDayLess(ymd, FromDays(now + 1)) /\ ~YearMonthDayLess(FromDays(now + 1), ymd)
      /\ last <=> YearMonthLess(ymd, FromDays(now + 1))
      /\ MonthDayLess(FromDays(now + 1), ymd) <=> DayOfYear(FromDays(now + 1)) = 1
      /\ WeekdayMinus(WeekdayFromDays(now + 1), wd) = 1
      /\ WeekOfYear(now, 0) = (shown.dayOfYear + 6 - wd) \div 7
      /\ WeekOfYear(now, 1) = (shown.dayOfYear + 6 - ((wd + 6) % 7)) \div 7

(* MonthsAreCounted: months and years are added and subtracted across the   *)
(* ends of years, forward and back, in every type alike; the day of the     *)
(* month stays, and one that the month does not have counts into the next.  *)
MonthsAreCounted ==
  LET ymd == YearMonthDay(shown, shown.day)
  IN  \A n \in Spans :
        LET then == YearMonthDayPlus(ymd, n)
            first == YearMonthDay(then, 1)
        IN  /\ MonthOk(then.month)
            /\ YearMonthMinus(then, ymd) = n
            /\ YearMonthLess(ymd, then) <=> n > 0
            /\ then.month = MonthPlus(ymd.month, n)
            /\ (MonthMinus(then.month, ymd.month) - n) % 12 = 0
            /\ ToDays(then) = ToDays(first) + ymd.day - 1
            /\ YearMonthDayOk(then) <=> FromDays(ToDays(then)) = then
            /\ n % 12 = 0 => YearMonthDayPlusYears(ymd, Quotient(n, 12)) = then
            /\ YearMonthDayPlus(then, -n) = ymd
            /\ WeekdayPlus(WeekdayFromDays(now), n) = WeekdayFromDays(now + n)
            /\ LET ymwd == YearMonthWeekdayPlus(WeekdayOfDays(now), n)
               IN  YearMonthWeekdayOk(ymwd) =>
                     /\ WeekdayFromDays(WeekdayToDays(ymwd)) = WeekdayFromDays(now)
                     /\ WeekdayOfDays(WeekdayToDays(ymwd)) = ymwd

Earlier(s, t) ==
  \E i \in DOMAIN s : s[i] < t[i] /\ \A j \in 1..i - 1 : s[j] = t[j]

(* StampsAreOrdered: the texts of two times are ordered as the times are,   *)
(* before 1970 too, and both ways to write a time, `%F %T` and operator<<,  *)
(* give the same text.  (They do for years of four digits: %F writes more   *)
(* digits than a smaller year has, and operator<< does not.)                *)
StampsAreOrdered ==
  now \in -StampDays..StampDays =>
    \A t \in Times :
      LET stamp == DateValue(now * TicksPerDay + t)
          fields == Fields(now * TicksPerDay + t)
      IN  /\ stamp = StreamedTime(now * TicksPerDay + t)
          /\ InConventionalRange(fields.tod)
          /\ ToDuration(fields.tod) = Subseconds(t)
          /\ \A u \in Times :
               /\ t < u => Earlier(stamp, DateValue(now * TicksPerDay + u))
               /\ Earlier(stamp, DateValue((now + 1) * TicksPerDay + u))

(* Formats of several letters. *)
Formats ==
  {<<"%", "Y", "-", "%", "m", "-", "%", "d">>, <<"%", "m", "/", "%", "d", "/", "%", "y">>,
   <<"%", "H", ":", "%", "M", ":", "%", "S">>, <<"%", "R", ":", "%", "S">>,
   <<"%", "C", "%", "y">>, <<"%", "%", "%", "-">>}

(* The texts of a time, by their format.                                    *)
Texts(time) ==
  [fmt \in {<<"%", c>> : c \in Letters} \cup Formats |-> Format(fmt, time)]

AgreeOnTime(text, hour) ==
  LET hour12 == ((hour + 11) % 12) + 1
  IN  /\ text[<<"%", "T">>] = text[<<"%", "H", ":", "%", "M", ":", "%", "S">>]
      /\ text[<<"%", "R", ":", "%", "S">>] = text[<<"%", "T">>]
      /\ text[<<"%", "I">>] = <<hour12 \div 10, hour12 % 10>>
      /\ Make24(hour12, IsPm(hour)) = hour

AgreeOnDate(text, date) ==
  LET weekday == text[<<"%", "u">>][1]
      week == (date.dayOfYear - weekday + 10) \div 7
  IN  /\ text[<<"%", "F">>] = text[<<"%", "Y", "-", "%", "m", "-", "%", "d">>]
      /\ text[<<"%", "D">>] = text[<<"%", "m", "/", "%", "d", "/", "%", "y">>]
      /\ text[<<"%", "C", "%", "y">>] = text[<<"%", "Y">>]
      /\ text[<<"%", "e">>] = text[<<"%", "d">>] \/ text[<<"%", "d">>][1] = 0
      /\ text[<<"%", "j">>] = Digits(date.dayOfYear, 3)
      /\ text[<<"%", "w">>] = <<weekday % 7>>
      /\ text[<<"%", "U">>] = Digits((date.dayOfYear + 6 - date.weekday) \div 7, 2)
      /\ text[<<"%", "W">>] = Digits((date.dayOfYear + 6 - ((date.weekday + 6) % 7)) \div 7, 2)
      /\ CASE date.isoYear = date.year -> text[<<"%", "V">>] = Digits(week, 2)
           [] date.isoYear < date.year -> week = 0 /\ text[<<"%", "V">>][1] = 5
           [] date.isoYear > date.year -> week = 53 /\ text[<<"%", "V">>] = <<0, 1>>
      /\ text[<<"%", "G">>] = Digits(date.isoYear, 4)
      /\ text[<<"%", "g">>] = Digits(date.isoYear % 100, 2)

(* CommandsAgree: what to_stream writes for each letter agrees with the     *)
(* letters that stand for several, with the 12-hour clock and with the      *)
(* rule for ISO weeks, for every time of a day.                             *)
CommandsAgree ==
  now \in -StampDays..StampDays =>
    \A t \in Times : \A text \in {Texts(now * TicksPerDay + t)} :
      /\ AgreeOnTime(text, t \div (3600 * Ticks))
      /\ AgreeOnDate(text, shown)
      /\ text[<<"%", "%", "%", "-">>] = <<Percent, Percent, Dash>>
=============================================================================
