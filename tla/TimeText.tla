------------------------------- MODULE TimeText -------------------------------
(***************************************************************************)
(* A time of the day in date.h, and the text that date::format makes of a  *)
(* time.  A character is its code minus the code of '0', so that digits    *)
(* are themselves and texts are ordered as their characters are.           *)
(***************************************************************************)
EXTENDS Calendar, SequencesExt

CONSTANT Ticks   \* ticks of the clock in a second (10^9 in libstdc++)

ASSUME TicksArePositive == Ticks \in Nat \ {0}

Dash == -3
Point == -2
Slash == -1
Blank == -16
Colon == 10
Percent == -11

TicksPerDay == 86400 * Ticks

-----------------------------------------------------------------------------
(* hh_mm_ss and decimal_format_seconds                                      *)

(* width<n, d>: the fractional digits of 1/Ticks, 19 if there are more.     *)
TrialWidth ==
  LET width[n \in 0..10 * Ticks, w \in 0..19] ==
        IF n % Ticks # 0 /\ w < 19 THEN 1 + width[(n % Ticks) * 10, w + 1] ELSE 0
  IN  width[1, 0]

Width == IF TrialWidth < 19 THEN TrialWidth ELSE 6

StaticPow10(exp) ==
  LET pow[e \in 0..exp] ==
        IF e = 0 THEN 1 ELSE pow[e \div 2] * pow[e \div 2] * (IF e % 2 = 1 THEN 10 ELSE 1)
  IN  pow[exp]

(* The subseconds of a number of ticks below a second, in the precision of  *)
(* the text.                                                                *)
Subseconds(t) == (t * StaticPow10(Width)) \div Ticks

HhMmSs(t) ==
  LET abs == IF t >= 0 THEN t ELSE -t
      seconds == abs \div Ticks
  IN  [hours |-> seconds \div 3600,
       minutes |-> (seconds \div 60) % 60,
       seconds |-> seconds % 60,
       subseconds |-> Subseconds(abs % Ticks),
       negative |-> t < 0]

(* hh_mm_ss::to_duration, in the precision of the text.                     *)
ToDuration(tod) ==
  ((tod.hours * 3600 + tod.minutes * 60 + tod.seconds) * StaticPow10(Width) + tod.subseconds)
    * (IF tod.negative THEN -1 ELSE 1)

InConventionalRange(tod) ==
  /\ ~tod.negative
  /\ tod.hours < 24 /\ tod.minutes < 60 /\ tod.seconds < 60
  /\ tod.subseconds < StaticPow10(Width)

IsPm(h) == 12 <= h /\ h < 24

(* Mutant: midnight is 0 o'clock. *)
Make12Midnight(h) == IF h <= 12 THEN h ELSE h - 12

Make12(h) == IF h < 12 THEN (IF h = 0 THEN 12 ELSE h) ELSE (IF h # 12 THEN h - 12 ELSE h)

Make24(h, pm) == IF pm THEN (IF h # 12 THEN h + 12 ELSE h) ELSE (IF h = 12 THEN 0 ELSE h)

-----------------------------------------------------------------------------
(* Streams.  Years are from 0 to 9999.                                      *)

(* `n` with `width` digits, or more if it needs them. *)
Digits(n, width) ==
  LET shown == CHOOSE w \in width..9 : /\ n < StaticPow10(w)
                                        /\ \A v \in width..w - 1 : n >= StaticPow10(v)
  IN  [i \in 1..shown |-> (n \div StaticPow10(shown - i)) % 10]

YearText(y) == Digits(y, 4)

(* operator<< of year_month_day, which sets no width for the year.          *)
StreamedDate(ymd) ==
  Digits(ymd.year, 1) \o <<Dash>> \o Digits(ymd.month, 2) \o <<Dash>> \o Digits(ymd.day, 2)

(* The case of %F.                                                          *)
DateDigits(ymd) ==
  YearText(ymd.year) \o <<Dash>> \o Digits(ymd.month, 2) \o <<Dash>> \o Digits(ymd.day, 2)

SecondsText(tod) ==
  Digits(tod.seconds, 2)
    \o IF Width > 0 THEN <<Point>> \o Digits(tod.subseconds, Width) ELSE <<>>

(* operator<< of hh_mm_ss.                                                  *)
TimeDigits(tod) ==
  (IF tod.negative THEN <<Dash>> ELSE <<>>)
    \o Digits(tod.hours, 2) \o <<Colon>> \o Digits(tod.minutes, 2) \o <<Colon>>
    \o SecondsText(tod)

(* operator<< of sys_time, which uses floor<days>.                          *)
StreamedTime(t) ==
  LET dp == t \div TicksPerDay
  IN  StreamedDate(FromDays(dp)) \o <<Blank>> \o TimeDigits(HhMmSs(t - dp * TicksPerDay))

-----------------------------------------------------------------------------
(* to_stream and format                                                     *)

(* Mutant: the day that contains a time before the epoch is not corrected.  *)
FieldsTruncated(t) ==
  LET sd == Quotient(t, TicksPerDay)
  IN  [ymd |-> FromDays(sd), tod |-> HhMmSs(t - sd * TicksPerDay)]

(* to_stream of sys_time: the cast to days is toward zero.                  *)
Fields(t) ==
  LET sd == Quotient(t, TicksPerDay)
  IN  IF sd * TicksPerDay <= t
      THEN [ymd |-> FromDays(sd), tod |-> HhMmSs(t - sd * TicksPerDay)]
      ELSE [ymd |-> FromDays(sd - 1), tod |-> HhMmSs(TicksPerDay - (sd * TicksPerDay - t))]

(* The cases of to_stream, by the letter after '%'.                         *)
Century(f) == Digits(f.ymd.year \div 100, 2)                               \* C
DayOfMonth(f) == Digits(f.ymd.day, 2)                                      \* d
BlankDay(f) == IF f.ymd.day < 10 THEN <<Blank, f.ymd.day>> ELSE DayOfMonth(f)   \* e
ShortYear(y) == Digits(y % 100, 2)                                         \* y, g
MonthNumber(f) == Digits(f.ymd.month, 2)                                   \* m
AmericanDate(f) ==                                                         \* D
  MonthNumber(f) \o <<Slash>> \o DayOfMonth(f) \o <<Slash>> \o ShortYear(f.ymd.year)
IsoDate(f) == DateDigits(f.ymd)                                            \* F
FullYear(f) == YearText(f.ymd.year)                                        \* Y
YearOfWeek(f) == YearText(IsoYear(ToDays(f.ymd)))                          \* G
Hours(h) == Digits(h, 2)                                                   \* H, I
DayNumber(f) == Digits(DayOfYear(f.ymd), 3)                                \* j
Minutes(f) == Digits(f.tod.minutes, 2)                                     \* M
HoursAndMinutes(f) == Hours(f.tod.hours) \o <<Colon>> \o Minutes(f)        \* R
Seconds(f) == SecondsText(f.tod)                                           \* S
Time(f) == TimeDigits(f.tod)                                               \* T
ExtractWeekday(f) == WeekdayFromDays(ToDays(f.ymd))
IsoWeekday(f) == <<IsoEncoding(ExtractWeekday(f))>>                        \* u
SundayWeek(f) == Digits(WeekOfYear(ToDays(f.ymd), 0), 2)                   \* U
WeekNumber(f) == Digits(IsoWeek(ToDays(f.ymd)), 2)                         \* V
WeekdayNumber(f) == <<ExtractWeekday(f)>>                                  \* w
MondayWeek(f) == Digits(WeekOfYear(ToDays(f.ymd), 1), 2)                   \* W

Letters == {"C", "d", "e", "D", "F", "g", "G", "H", "I", "j", "m", "M", "R", "S", "T",
            "u", "U", "V", "w", "W", "y", "Y"}

Command(letter, f) ==
  CASE letter = "C" -> Century(f)
    [] letter = "d" -> DayOfMonth(f)
    [] letter = "e" -> BlankDay(f)
    [] letter = "D" -> AmericanDate(f)
    [] letter = "F" -> IsoDate(f)
    [] letter = "g" -> ShortYear(IsoYear(ToDays(f.ymd)))
    [] letter = "G" -> YearOfWeek(f)
    [] letter = "H" -> Hours(f.tod.hours)
    [] letter = "I" -> Hours(Make12(f.tod.hours))
    [] letter = "j" -> DayNumber(f)
    [] letter = "m" -> MonthNumber(f)
    [] letter = "M" -> Minutes(f)
    [] letter = "R" -> HoursAndMinutes(f)
    [] letter = "S" -> Seconds(f)
    [] letter = "T" -> Time(f)
    [] letter = "u" -> IsoWeekday(f)
    [] letter = "U" -> SundayWeek(f)
    [] letter = "V" -> WeekNumber(f)
    [] letter = "w" -> WeekdayNumber(f)
    [] letter = "W" -> MondayWeek(f)
    [] letter = "y" -> ShortYear(f.ymd.year)
    [] letter = "Y" -> FullYear(f)

(* Characters of a format that have no meaning.                             *)
Plain == [c \in {"SP", "-", ":", "/"} |->
            CASE c = "SP" -> Blank [] c = "-" -> Dash [] c = ":" -> Colon [] c = "/" -> Slash]

(* What is written, and whether a '%' waits for its letter.                 *)
Waiting(s) == IF s.command THEN s.os \o <<Percent>> ELSE s.os

(* A character of a format.  A '%' before a plain character is one too.     *)
Formatted(s, c, f) ==
  CASE c = "%" -> [command |-> ~s.command, os |-> Waiting(s)]
    [] c \in Letters /\ s.command -> [command |-> FALSE, os |-> s.os \o Command(c, f)]
    [] c \in DOMAIN Plain -> [command |-> FALSE, os |-> Waiting(s) \o <<Plain[c]>>]

(* The loop of to_stream over a format.                                     *)
ToStream(fmt, f) ==
  Waiting(FoldLeft(LAMBDA s, c : Formatted(s, c, f), [command |-> FALSE, os |-> <<>>], fmt))

Format(fmt, t) == ToStream(fmt, Fields(t))

(* The value of HttpResponse's header Date. *)
DateValue(t) == Format(<<"%", "F", "SP", "%", "T">>, t)
=============================================================================
