---------------------------- MODULE MessageProofs ----------------------------
(***************************************************************************)
(* The messages of a connection, and the dates that their Date headers are *)
(* made from, for all requests, answers, ways to split them, and days.     *)
(*                                                                         *)
(* date.h, for every day whose year its types can hold: days follow one    *)
(* another as in Gregorian, and every type has one value for each of them. *)
(* The argument goes by years that begin in March, as date.h's algorithms  *)
(* do: leap days are then the last days of years, and the days before a    *)
(* year, and before a month, are sums.                                     *)
(*                                                                         *)
(* Its texts of times, for all days whose years have four digits and every *)
(* decimal length of a tick: a text is a fold over a format, so a function *)
(* that counts its places takes the place of the induction, and the texts  *)
(* are ordered digit by digit as the numbers they are made from.           *)
(*                                                                         *)
(* Peer, for all numbers that bound it: what one side writes is what the   *)
(* other reads.  The argument goes by the places of the marks in a text:   *)
(* the writers' lines put them where the parsers' Find looks for them, and *)
(* what has come so far, whatever the chunks, is the text up to a place.   *)
(***************************************************************************)
EXTENDS SystemClock, Peer, WellFoundedInduction, SequenceTheorems, TLAPS

(* The days before the first of March of the year y, from that of year 0.   *)
Before(y) == 365 * y + y \div 4 - y \div 100 + y \div 400

(* The year and the month, counted from March, of a month.                  *)
MarchYear(y, m) == IF m <= 2 THEN y - 1 ELSE y

MarchMonth(m) == IF m > 2 THEN m - 3 ELSE m + 9

(* The days of the year before a month.                                     *)
MonthStart(mp) == (153 * mp + 2) \div 5

(* The idiom that date.h divides by rounds down, for each of its divisors. *)
LEMMA Floor ==
  /\ \A a \in Int : FloorQuotient(a, 7) = a \div 7
  /\ \A a \in Int : FloorQuotient(a, 12) = a \div 12
  /\ \A a \in Int : FloorQuotient(a, 400) = a \div 400
  /\ \A a \in Int : FloorQuotient(a, 146097) = a \div 146097
BY SMT DEF FloorQuotient, Quotient

(* The year y is the year k of the era e of 400 years. *)
InEra(y, e, k) == y \div 400 = e /\ y = e * 400 + k

(* The days before the year k of the era e.                                 *)
EraDays(e, k) == e * 146097 + (k * 365 + k \div 4 - k \div 100)

(* Every year is in an era. *)
LEMMA EraIs ==
  ASSUME NEW y \in Int
  PROVE  \E e \in Int, k \in Int : InEra(y, e, k)
<1>1. PICK e \in Int : y \div 400 = e
  OBVIOUS
<1>2. PICK k \in Int : k = y - e * 400
  OBVIOUS
<1>. QED
  BY <1>1, <1>2, SMT DEF InEra

(* An era has 400 years, and the days before a year are those before its    *)
(* era and those of the era's years before it.                              *)
LEMMA EraBefore ==
  ASSUME NEW y \in Int, NEW e \in Int, NEW k \in Int, InEra(y, e, k)
  PROVE  /\ 0 <= k /\ k < 400
         /\ Before(y) = EraDays(e, k)
<1>1. k \div 100 = y \div 100 - 4 * e
  BY SMT DEF InEra
<1>2. y \div 4 \in Int /\ y \div 100 \in Int
  OBVIOUS
<1>3. Before(y) = EraDays(e, k)
  BY <1>1, <1>2, SMT DEF InEra, Before, EraDays
<1>. QED
  BY <1>3, SMT DEF InEra

(* What to_days computes is the days before the year that is begun in       *)
(* March, before the month, and before the day.                             *)
LEMMA ToDaysIs ==
  ASSUME NEW ymd, ymd.year \in Int, ymd.month \in 1 .. 12, ymd.day \in Int
  PROVE  ToDays(ymd) = Before(MarchYear(ymd.year, ymd.month)) + MonthStart(MarchMonth(ymd.month))
                         + ymd.day - 1 - 719468
<1>1. PICK m \in 1 .. 12, Y \in Int, d \in Int : ymd.month = m /\ ymd.year = Y /\ ymd.day = d
  OBVIOUS
<1>2. PICK y \in Int : MarchYear(Y, m) = y /\ y = Y - (IF m <= 2 THEN 1 ELSE 0)
  BY DEF MarchYear
<1>3. PICK mp \in Int : MarchMonth(m) = mp /\ mp = IF m > 2 THEN m - 3 ELSE m + 9
  BY DEF MarchMonth
<1>4. PICK s \in Int : s = (153 * mp + 2) \div 5
  OBVIOUS
<1>5. PICK e \in Int, k \in Int : InEra(y, e, k)
  BY EraIs
<1>6. FloorQuotient(y, 400) = e /\ y - e * 400 = k
  <2>1. FloorQuotient(y, 400) = y \div 400
    BY Floor
  <2>2. y - e * 400 = k
    BY <1>5, SMT DEF InEra
  <2>. QED
    BY <1>5, <2>1, <2>2 DEF InEra
<1>7. Before(y) = EraDays(e, k)
  BY <1>5, EraBefore, SMT
<1>8. ToDays(ymd) = EraDays(e, k) + (s + d - 1) - 719468
  BY <1>1, <1>2, <1>3, <1>4, <1>6, SMT DEF ToDays, EraDays
<1>9. MonthStart(MarchMonth(m)) = s
  BY <1>3, <1>4 DEF MonthStart
<1>10. EraDays(e, k) \in Int
  BY SMT DEF EraDays
<1>. QED
  BY <1>1, <1>2, <1>7, <1>8, <1>9, <1>10, SMT

(* A quotient grows by one with the years that are divisible. *)
LEMMA NextQuotient ==
  ASSUME NEW y \in Int
  PROVE  /\ (y + 1) \div 4 = y \div 4 + (IF (y + 1) % 4 = 0 THEN 1 ELSE 0)
         /\ (y + 1) \div 100 = y \div 100 + (IF (y + 1) % 100 = 0 THEN 1 ELSE 0)
         /\ (y + 1) \div 400 = y \div 400 + (IF (y + 1) % 400 = 0 THEN 1 ELSE 0)
         /\ (y + 1) % 400 = 0 => (y + 1) % 100 = 0
         /\ (y + 1) % 100 = 0 => (y + 1) % 4 = 0
<1>1. (y + 1) \div 4 = y \div 4 + (IF (y + 1) % 4 = 0 THEN 1 ELSE 0)
  OBVIOUS
<1>2. (y + 1) \div 100 = y \div 100 + (IF (y + 1) % 100 = 0 THEN 1 ELSE 0)
  OBVIOUS
<1>3. (y + 1) \div 400 = y \div 400 + (IF (y + 1) % 400 = 0 THEN 1 ELSE 0)
  OBVIOUS
<1>. QED
  BY <1>1, <1>2, <1>3

(* A year that begins in March has 366 days if the February at its end is   *)
(* in a leap year.                                                          *)
LEMMA YearLength ==
  ASSUME NEW y \in Int
  PROVE  /\ Before(y) \in Int
         /\ Before(y + 1) = Before(y) + (IF IsLeap(y + 1) THEN 366 ELSE 365)
<1>1. Before(y) \in Int
  BY DEF Before
<1>2. IsLeap(y + 1) <=> (y + 1) % 4 = 0 /\ ((y + 1) % 100 # 0 \/ (y + 1) % 400 = 0)
  BY DEF IsLeap
<1>3. PICK a \in Int, b \in Int, c \in Int :
        y \div 4 = a /\ y \div 100 = b /\ y \div 400 = c
  OBVIOUS
<1>4. Before(y) = 365 * y + a - b + c
  BY <1>3 DEF Before
<1>5. Before(y + 1) = 365 * (y + 1) + (y + 1) \div 4 - (y + 1) \div 100 + (y + 1) \div 400
  BY DEF Before
<1>6. CASE (y + 1) % 4 # 0
  BY <1>1, <1>2, <1>3, <1>4, <1>5, <1>6, NextQuotient
<1>7. CASE (y + 1) % 4 = 0 /\ (y + 1) % 100 # 0
  BY <1>1, <1>2, <1>3, <1>4, <1>5, <1>7, NextQuotient
<1>8. CASE (y + 1) % 100 = 0 /\ (y + 1) % 400 # 0
  BY <1>1, <1>2, <1>3, <1>4, <1>5, <1>8, NextQuotient
<1>9. CASE (y + 1) % 400 = 0
  BY <1>1, <1>2, <1>3, <1>4, <1>5, <1>9, NextQuotient
<1>. QED
  BY <1>6, <1>7, <1>8, <1>9

(* Years do not overlap. *)
LEMMA YearsFollow ==
  ASSUME NEW x \in Int, NEW y \in Int, x < y
  PROVE  Before(x) + 365 <= Before(y)
BY DEF Before

(* What from_days computes from a day of an era.                            *)
YearOfEra(doe) == (doe - doe \div 1460 + doe \div 36524 - doe \div 146096) \div 365

(* from_days finds the year of the era in which a day of the era is; only   *)
(* before a leap day has that year a day 365.                               *)
LEMMA YearOfEraIs ==
  ASSUME NEW doe \in Int, 0 <= doe, doe <= 146096
  PROVE  \E k \in 0 .. 399 :
           /\ YearOfEra(doe) = k
           /\ 365 * k + k \div 4 - k \div 100 <= doe
           /\ doe <= 365 * k + k \div 4 - k \div 100 + 365
           /\ doe = 365 * k + k \div 4 - k \div 100 + 365 =>
                (k + 1) % 4 = 0 /\ ((k + 1) % 100 # 0 \/ (k + 1) % 400 = 0)
<1>1. PICK a \in 0 .. 100 : doe \div 1460 = a /\ 1460 * a <= doe /\ doe <= 1460 * a + 1459
  BY SMT
<1>2. PICK b \in 0 .. 4 : doe \div 36524 = b /\ 36524 * b <= doe /\ doe <= 36524 * b + 36523
  BY SMT
<1>3. PICK c \in 0 .. 1 : doe \div 146096 = c /\ 146096 * c <= doe /\ doe <= 146096 * c + 146095
  BY SMT
<1>4. PICK k \in 0 .. 400 : YearOfEra(doe) = k /\ 365 * k <= doe - a + b - c /\ doe - a + b - c <= 365 * k + 364
  BY <1>1, <1>2, <1>3, SMT DEF YearOfEra
<1>5. PICK p \in 0 .. 100 : k \div 4 = p /\ 4 * p <= k /\ k <= 4 * p + 3
  OBVIOUS
<1>6. PICK q \in 0 .. 4 : k \div 100 = q /\ 100 * q <= k /\ k <= 100 * q + 99
  OBVIOUS
<1>7. k <= 399 /\ 365 * k + p - q <= doe /\ doe <= 365 * k + p - q + 365
  BY <1>1, <1>2, <1>3, <1>4, <1>5, <1>6, SMTT(100)
<1>8. doe = 365 * k + p - q + 365 => k = 4 * p + 3 /\ (k # 100 * q + 99 \/ k = 399)
  BY <1>1, <1>2, <1>3, <1>4, <1>5, <1>6, SMTT(100)
<1>9. k = 4 * p + 3 => (k + 1) % 4 = 0
  BY <1>5, SMT
<1>10. k # 100 * q + 99 => (k + 1) % 100 # 0
  BY <1>6, SMT
<1>11. k = 399 => (k + 1) % 400 = 0
  OBVIOUS
<1>. QED
  BY <1>4, <1>5, <1>6, <1>7, <1>8, <1>9, <1>10, <1>11, SMT

-----------------------------------------------------------------------------
(* Months that begin with March *)

(* The days of the year before each month, from March on. *)
LEMMA MonthStarts ==
  /\ MonthStart(0) = 0 /\ MonthStart(1) = 31 /\ MonthStart(2) = 61 /\ MonthStart(3) = 92
  /\ MonthStart(4) = 122 /\ MonthStart(5) = 153 /\ MonthStart(6) = 184 /\ MonthStart(7) = 214
  /\ MonthStart(8) = 245 /\ MonthStart(9) = 275 /\ MonthStart(10) = 306 /\ MonthStart(11) = 337
BY SMT DEF MonthStart

(* from_days finds the month in which a day of the year is. *)
LEMMA MonthIs ==
  ASSUME NEW r \in Int, 0 <= r, r <= 365
  PROVE  \E mp \in 0 .. 11 :
           /\ (5 * r + 2) \div 153 = mp
           /\ MonthStart(mp) \in Int /\ MonthStart(mp) <= r
           /\ mp < 11 => r < MonthStart(mp + 1) /\ MonthStart(mp + 1) \in Int
           /\ r - MonthStart(mp) + 1 \in 1 .. 31
<1>1. PICK mp \in 0 .. 11 : (5 * r + 2) \div 153 = mp
  BY SMT
<1>2. /\ MonthStart(mp) \in Int /\ MonthStart(mp) <= r
      /\ mp < 11 => r < MonthStart(mp + 1) /\ MonthStart(mp + 1) \in Int
      /\ r - MonthStart(mp) + 1 \in 1 .. 31
  BY <1>1, SMT DEF MonthStart
<1>. QED
  BY <1>1, <1>2

(* The length of a month; February is the last month of its year.           *)
MonthSize(y, mp) ==
  IF mp = 11 THEN Before(y + 1) - Before(y) - 337 ELSE MonthStart(mp + 1) - MonthStart(mp)

(* The table of last days in year_month_day_last::day is the length of the  *)
(* months, counted from March; it depends on the year and the month alone.  *)
LEMMA LastDayIs ==
  ASSUME NEW y \in Int, NEW m \in 1 .. 12, NEW ym, ym.year = y, ym.month = m
  PROVE  /\ LastDay(ym) = MonthSize(MarchYear(y, m), MarchMonth(m))
         /\ LastDay(ym) = LastDay(YearMonth(y, m))
         /\ LastDay(ym) \in 28 .. 31
<1>1. LastDay(ym) = LastDay(YearMonth(y, m))
  BY Zenon DEF LastDay, YearMonth
<1>2. CASE m = 2
  <2>1. LastDay(ym) = IF IsLeap(y) THEN 29 ELSE 28
    BY <1>2 DEF LastDay, MonthDayLastOk, MonthOk
  <2>2. /\ Before(y - 1) \in Int
        /\ Before(y) = Before(y - 1) + (IF IsLeap(y) THEN 366 ELSE 365)
    <3>. QED
      BY YearLength
  <2>3. MonthSize(y - 1, 11) = IF IsLeap(y) THEN 29 ELSE 28
    <3>. QED
      BY <2>2 DEF MonthSize
  <2>. QED
    BY <1>1, <2>1, <1>2, <2>3 DEF MarchYear, MarchMonth
<1>3. CASE m # 2
  <2>1. LastDay(ym) = <<31, 28, 31, 30, 31, 30, 31, 31, 30, 31, 30, 31>>[m]
    BY <1>3 DEF LastDay, MonthDayLastOk, MonthOk
  <2>2. MonthStart(MarchMonth(m) + 1) - MonthStart(MarchMonth(m)) = LastDay(ym)
        /\ LastDay(ym) \in 28 .. 31
    BY <1>3, <2>1, MonthStarts, SMT DEF MarchMonth
  <2>. QED
    BY <1>1, <1>3, <2>2 DEF MarchMonth, MonthSize
<1>. QED
  BY <1>2, <1>3

-----------------------------------------------------------------------------
(* The days from 1 March of the year 0. *)
FromMarch(n) == n + 719468

(* The day n is the day d of the month m of the year y. *)
IsDay(n, y, m, d) ==
  /\ n \in Int /\ y \in Int /\ m \in 1 .. 12 /\ d \in Int
  /\ 1 <= d /\ d <= LastDay(YearMonth(y, m))
  /\ FromMarch(n) = Before(MarchYear(y, m)) + MonthStart(MarchMonth(m)) + d - 1

(* The same in years that begin in March. *)
IsMarchDay(n, y, mp, d) ==
  /\ n \in Int /\ y \in Int /\ mp \in 0 .. 11 /\ d \in Int
  /\ 1 <= d /\ d <= MonthSize(y, mp)
  /\ FromMarch(n) = Before(y) + MonthStart(mp) + d - 1

(* A day of the calendar is a day of the years begun in March. *)
LEMMA MarchDay ==
  ASSUME NEW n, NEW y, NEW m, NEW d
  PROVE  IsDay(n, y, m, d) <=>
           y \in Int /\ m \in 1 .. 12 /\ IsMarchDay(n, MarchYear(y, m), MarchMonth(m), d)
<1>1. ASSUME y \in Int, m \in 1 .. 12
      PROVE  /\ LastDay(YearMonth(y, m)) = MonthSize(MarchYear(y, m), MarchMonth(m))
             /\ MarchYear(y, m) \in Int /\ MarchMonth(m) \in 0 .. 11
  <2>1. YearMonth(y, m).year = y /\ YearMonth(y, m).month = m
    BY DEF YearMonth
  <2>. QED
    BY <1>1, <2>1, LastDayIs, SMT DEF MarchYear, MarchMonth
<1>2. ASSUME y \in Int, m \in 1 .. 12
      PROVE  IsDay(n, y, m, d) <=> IsMarchDay(n, MarchYear(y, m), MarchMonth(m), d)
  BY <1>1, <1>2, SMT DEF IsDay, IsMarchDay
<1>. QED
  BY <1>2 DEF IsDay

(* Every number is that of a day, which is the one from_days computes. *)
LEMMA MarchDayExists ==
  ASSUME NEW n \in Int
  PROVE  \E y \in Int, mp \in 0 .. 11, d \in 1 .. 31 :
           /\ IsMarchDay(n, y, mp, d)
           /\ LET m == IF mp < 10 THEN mp + 3 ELSE mp - 9
              IN  FromDays(n) = YearMonthDay(YearMonth(Year(y + (IF m <= 2 THEN 1 ELSE 0)), Month(m)), Day(d))
<1>1. PICK e \in Int, doe \in Int :
        /\ (n + 719468) \div 146097 = e /\ doe = n + 719468 - e * 146097
        /\ 0 <= doe /\ doe <= 146096
  BY SMT
<1>2. FloorQuotient(n + 719468, 146097) = e
  <2>1. FloorQuotient(n + 719468, 146097) = (n + 719468) \div 146097
    BY Floor, SMT
  <2>. QED
    BY <1>1, <2>1, SMT
<1>3. PICK k \in 0 .. 399 :
        /\ YearOfEra(doe) = k
        /\ 365 * k + k \div 4 - k \div 100 <= doe
        /\ doe <= 365 * k + k \div 4 - k \div 100 + 365
        /\ doe = 365 * k + k \div 4 - k \div 100 + 365 =>
             (k + 1) % 4 = 0 /\ ((k + 1) % 100 # 0 \/ (k + 1) % 400 = 0)
  BY <1>1, YearOfEraIs, SMT
<1>4. PICK b \in Int, r \in Int :
        b = 365 * k + k \div 4 - k \div 100 /\ r = doe - b /\ 0 <= r /\ r <= 365
  BY <1>3, SMT
<1>5. PICK mp \in 0 .. 11 :
           /\ (5 * r + 2) \div 153 = mp
           /\ MonthStart(mp) \in Int /\ MonthStart(mp) <= r
           /\ mp < 11 => r < MonthStart(mp + 1) /\ MonthStart(mp + 1) \in Int
           /\ r - MonthStart(mp) + 1 \in 1 .. 31
  BY <1>4, MonthIs
<1>6. PICK y \in Int : y = e * 400 + k
  OBVIOUS
<1>7. Before(y) = e * 146097 + b
  <2>1. Before(y) = EraDays(e, k)
    BY <1>6, EraBefore, SMT DEF InEra
  <2>. QED
    BY <1>4, <2>1, SMT DEF EraDays
<1>8. r = 365 => IsLeap(y + 1)
  BY <1>3, <1>4, <1>6, SMT DEF IsLeap
<1>9. Before(y + 1) = Before(y) + (IF IsLeap(y + 1) THEN 366 ELSE 365) /\ Before(y) \in Int
  BY YearLength
<1>10. PICK d \in 1 .. 31 : d = r - MonthStart(mp) + 1
  BY <1>5
<1>11. d <= MonthSize(y, mp)
  BY <1>4, <1>5, <1>8, <1>9, <1>10, MonthStarts, SMT DEF MonthSize
<1>12. FromMarch(n) = Before(y) + MonthStart(mp) + d - 1
  BY <1>1, <1>4, <1>5, <1>7, <1>10, SMT DEF FromMarch
<1>13. IsMarchDay(n, y, mp, d)
  BY <1>11, <1>12 DEF IsMarchDay
<1>14. PICK m \in 1 .. 12 : m = IF mp < 10 THEN mp + 3 ELSE mp - 9
  OBVIOUS
<1>15. PICK yy \in Int : yy = y + (IF m <= 2 THEN 1 ELSE 0)
  OBVIOUS
<1>16. /\ n + 719468 - e * 146097 = doe
       /\ doe - (365 * k + k \div 4 - k \div 100) = r
       /\ r - (153 * mp + 2) \div 5 + 1 = d
       /\ k + e * 400 + (IF m <= 2 THEN 1 ELSE 0) = yy
       /\ (doe - doe \div 1460 + doe \div 36524 - doe \div 146096) \div 365 = k
  <2>1. r - (153 * mp + 2) \div 5 + 1 = d
    BY <1>10, SMT DEF MonthStart
  <2>2. (doe - doe \div 1460 + doe \div 36524 - doe \div 146096) \div 365 = k
    BY <1>3, SMT DEF YearOfEra
  <2>. QED
    BY <1>6, <1>15, <1>1, <1>4, <2>1, <2>2, SMT
<1>17. FromDays(n) = YearMonthDay(YearMonth(Year(yy), Month(m)), Day(d))
  <2>. DEFINE z == n + 719468
              era == FloorQuotient(z, 146097)
              doe1 == z - era * 146097
              yoe == (doe1 - doe1 \div 1460 + doe1 \div 36524 - doe1 \div 146096) \div 365
              doy == doe1 - (365 * yoe + yoe \div 4 - yoe \div 100)
              mp1 == (5 * doy + 2) \div 153
              d1 == doy - (153 * mp1 + 2) \div 5 + 1
              m1 == IF mp1 < 10 THEN mp1 + 3 ELSE mp1 - 9
              y1 == yoe + era * 400 + (IF m1 <= 2 THEN 1 ELSE 0)
  <2>1. FromDays(n) = YearMonthDay(YearMonth(Year(y1), Month(m1)), Day(d1))
    BY SMT DEF FromDays
  <2>2. era = e
    BY <1>2, SMT
  <2>. HIDE DEF era
  <2>3. doe1 = doe
    BY <1>16, <2>2, SMT
  <2>. HIDE DEF doe1
  <2>4. yoe = k
    BY <1>16, <2>3, SMT
  <2>. HIDE DEF yoe
  <2>5. doy = r
    BY <1>16, <2>3, <2>4, SMT
  <2>. HIDE DEF doy
  <2>6. mp1 = mp
    BY <1>5, <2>5, SMT
  <2>. HIDE DEF mp1
  <2>7. m1 = m
    BY <1>14, <2>6, SMT
  <2>. HIDE DEF m1
  <2>8. y1 = yy
    BY <1>16, <2>2, <2>4, <2>7, SMT
  <2>. QED
    BY <2>1, <1>16, <2>5, <2>6, <2>7, <2>8, SMT
<1>. QED
  BY <1>13, <1>14, <1>15, <1>17

(* The months of a year that begins in March follow one another up to the   *)
(* next year.                                                               *)
LEMMA MonthSizeIs ==
  ASSUME NEW y \in Int, NEW mp \in 0 .. 11
  PROVE  /\ MonthSize(y, mp) \in 28 .. 31
         /\ Before(y) \in Int /\ Before(y + 1) \in Int
         /\ MonthStart(mp) \in Int
         /\ mp < 11 => MonthStart(mp + 1) = MonthStart(mp) + MonthSize(y, mp)
         /\ mp = 11 => Before(y + 1) = Before(y) + MonthStart(mp) + MonthSize(y, mp)
<1>1. /\ Before(y) \in Int
      /\ Before(y + 1) = Before(y) + (IF IsLeap(y + 1) THEN 366 ELSE 365)
  BY YearLength
<1>2. CASE mp = 11
  <2>. QED
    BY <1>1, <1>2, MonthStarts DEF MonthSize
<1>3. CASE mp # 11
  <2>1. MonthStart(mp) \in Int /\ MonthStart(mp + 1) \in Int /\ MonthStart(mp + 1) - MonthStart(mp) \in 28 .. 31
    BY <1>3, MonthStarts, SMT
  <2>. QED
    BY <1>1, <1>3, <2>1 DEF MonthSize
<1>. QED
  BY <1>2, <1>3

(* A day is between the first day of its year and that of the next. *)
LEMMA InMarchYear ==
  ASSUME NEW n, NEW y, NEW mp, NEW d, IsMarchDay(n, y, mp, d)
  PROVE  Before(y) <= FromMarch(n) /\ FromMarch(n) < Before(y + 1)
<1>1. y \in Int /\ mp \in 0 .. 11 /\ d \in Int /\ n \in Int
  BY DEF IsMarchDay
<1>2. Before(y + 1) >= Before(y) + 365 /\ Before(y) \in Int /\ Before(y + 1) \in Int
  BY <1>1, YearLength
<1>3. MonthSize(y, mp) \in 28 .. 31 /\ (mp = 11 => Before(y + 1) = Before(y) + MonthStart(mp) + MonthSize(y, mp))
  BY <1>1, MonthSizeIs
<1>. QED
  BY <1>1, MonthStarts, <1>2, <1>3, SMT DEF IsMarchDay, FromMarch

(* No number is that of two days of the years begun in March. *)
LEMMA MarchDayIsUnique ==
  ASSUME NEW n, NEW y, NEW mp, NEW d, IsMarchDay(n, y, mp, d),
         NEW yy, NEW mm, NEW dd, IsMarchDay(n, yy, mm, dd)
  PROVE  yy = y /\ mm = mp /\ dd = d
<1>1. /\ y \in Int /\ mp \in 0 .. 11 /\ d \in Int /\ n \in Int
      /\ yy \in Int /\ mm \in 0 .. 11 /\ dd \in Int
  BY DEF IsMarchDay
<1>2. /\ Before(y) \in Int /\ Before(yy) \in Int /\ Before(y + 1) \in Int /\ Before(yy + 1) \in Int
  BY <1>1, MonthSizeIs
<1>3. yy = y
  BY <1>1, <1>2, YearsFollow, InMarchYear, SMT DEF FromMarch
<1>4. PICK r \in Int : r = FromMarch(n) - Before(y)
  BY <1>1, <1>2, SMT DEF FromMarch
<1>5. /\ r = MonthStart(mp) + d - 1 /\ 1 <= d /\ d <= MonthSize(y, mp)
      /\ r = MonthStart(mm) + dd - 1 /\ 1 <= dd /\ dd <= MonthSize(y, mm)
  <2>1. /\ MonthStart(mp) \in Int /\ MonthStart(mm) \in Int
    BY <1>1, MonthSizeIs
  <2>. QED
    BY <1>1, <1>2, <1>3, <1>4, <2>1, SMT DEF IsMarchDay
<1>6. mm = mp
  <2>1. /\ MonthSize(y, mp) \in 28 .. 31 /\ MonthSize(y, mm) \in 28 .. 31
        /\ mp < 11 => MonthStart(mp + 1) = MonthStart(mp) + MonthSize(y, mp)
        /\ mm < 11 => MonthStart(mm + 1) = MonthStart(mm) + MonthSize(y, mm)
    BY <1>1, MonthSizeIs
  <2>. QED
    BY <1>1, <1>5, <2>1, SMT DEF MonthStart
<1>7. dd = d
  <2>1. MonthStart(mp) \in Int
    BY <1>1, MonthSizeIs
  <2>. QED
    BY <1>1, <1>4, <1>5, <1>6, <2>1, SMT
<1>. QED
  BY <1>3, <1>6, <1>7

(* No number is that of two days of the calendar. *)
LEMMA DayIsUnique ==
  ASSUME NEW n, NEW y, NEW m, NEW d, IsDay(n, y, m, d),
         NEW yy, NEW mm, NEW dd, IsDay(n, yy, mm, dd)
  PROVE  yy = y /\ mm = m /\ dd = d
<1>1. /\ y \in Int /\ m \in 1 .. 12 /\ yy \in Int /\ mm \in 1 .. 12
      /\ IsMarchDay(n, MarchYear(y, m), MarchMonth(m), d)
      /\ IsMarchDay(n, MarchYear(yy, mm), MarchMonth(mm), dd)
  BY MarchDay
<1>2. MarchYear(yy, mm) = MarchYear(y, m) /\ MarchMonth(mm) = MarchMonth(m) /\ dd = d
  BY <1>1, MarchDayIsUnique
<1>3. mm = m
  BY <1>1, <1>2, SMT DEF MarchMonth
<1>. QED
  BY <1>2, <1>3, <1>1, SMT DEF MarchYear

Date(y, m, d) == [year |-> y, month |-> m, day |-> d]

(* Years that the type can hold.                                            *)
Fits(y) == -32768 <= y /\ y <= 32767

(* A year that fits the type is not changed by it. *)
LEMMA YearIs ==
  ASSUME NEW y \in Int, Fits(y)
  PROVE  Year(y) = y
BY SMT DEF Fits, Year

(* Every number is that of a day of the calendar, which from_days computes  *)
(* but for the range of the year.                                           *)
LEMMA DayExists ==
  ASSUME NEW n \in Int
  PROVE  \E y \in Int, m \in 1 .. 12, d \in 1 .. 31 :
           IsDay(n, y, m, d) /\ FromDays(n) = Date(Year(y), m, d)
<1>1. PICK y \in Int, mp \in 0 .. 11, d \in 1 .. 31 :
           /\ IsMarchDay(n, y, mp, d)
           /\ LET m == IF mp < 10 THEN mp + 3 ELSE mp - 9
              IN  FromDays(n) = YearMonthDay(YearMonth(Year(y + (IF m <= 2 THEN 1 ELSE 0)), Month(m)), Day(d))
  BY MarchDayExists
<1>2. PICK m \in 1 .. 12 : m = IF mp < 10 THEN mp + 3 ELSE mp - 9
  OBVIOUS
<1>3. PICK yy \in Int : yy = y + (IF m <= 2 THEN 1 ELSE 0)
  OBVIOUS
<1>4. IsDay(n, yy, m, d)
  BY <1>1, <1>2, <1>3, MarchDay, SMT DEF MarchYear, MarchMonth
<1>5. FromDays(n) = YearMonthDay(YearMonth(Year(yy), m), d)
  BY <1>1, <1>2, <1>3, SMT DEF Month, Day
<1>. QED
  BY <1>4, <1>5 DEF YearMonthDay, YearMonth, Date

(* FromDays finds the date, where the year fits. *)
LEMMA FromDaysIs ==
  ASSUME NEW n, NEW y, NEW m, NEW d, IsDay(n, y, m, d), Fits(y)
  PROVE  FromDays(n) = Date(y, m, d)
<1>1. n \in Int /\ y \in Int
  BY DEF IsDay
<1>2. PICK yy \in Int, mm \in 1 .. 12, dd \in 1 .. 31 :
        IsDay(n, yy, mm, dd) /\ FromDays(n) = Date(Year(yy), mm, dd)
  BY <1>1, DayExists
<1>. QED
  BY <1>1, <1>2, DayIsUnique, YearIs

(* to_days gives the number of a day, whatever else is in the record. *)
LEMMA ToDaysOf ==
  ASSUME NEW n, NEW y, NEW m, NEW d, IsDay(n, y, m, d),
         NEW ymd, ymd.year = y, ymd.month = m, ymd.day = d
  PROVE  ToDays(ymd) = n
<1>1. y \in Int /\ m \in 1 .. 12 /\ d \in Int /\ n \in Int
  BY DEF IsDay
<1>2. Before(MarchYear(y, m)) \in Int /\ MonthStart(MarchMonth(m)) \in Int
  <2>1. MarchYear(y, m) \in Int /\ MarchMonth(m) \in 0 .. 11
    BY <1>1, SMT DEF MarchYear, MarchMonth
  <2>. QED
    BY <2>1, MonthSizeIs
<1>. QED
  BY <1>1, ToDaysIs, <1>2, SMT DEF IsDay, FromMarch

(* The day after, in the years begun in March. *)
LEMMA NextMarchDay ==
  ASSUME NEW n, NEW y, NEW mp, NEW d, IsMarchDay(n, y, mp, d)
  PROVE  /\ d < MonthSize(y, mp) => IsMarchDay(n + 1, y, mp, d + 1)
         /\ d >= MonthSize(y, mp) /\ mp < 11 => IsMarchDay(n + 1, y, mp + 1, 1)
         /\ d >= MonthSize(y, mp) /\ mp = 11 => IsMarchDay(n + 1, y + 1, 0, 1)
<1>1. /\ y \in Int /\ mp \in 0 .. 11 /\ d \in Int /\ n \in Int
      /\ 1 <= d /\ d <= MonthSize(y, mp)
      /\ FromMarch(n) = Before(y) + MonthStart(mp) + d - 1
  BY DEF IsMarchDay
<1>2. /\ MonthSize(y, mp) \in 28 .. 31 /\ MonthStart(mp) \in Int
      /\ Before(y) \in Int /\ Before(y + 1) \in Int
      /\ mp < 11 => MonthStart(mp + 1) = MonthStart(mp) + MonthSize(y, mp)
      /\ mp = 11 => Before(y + 1) = Before(y) + MonthStart(mp) + MonthSize(y, mp)
  BY <1>1, MonthSizeIs
<1>3. ASSUME d < MonthSize(y, mp)
      PROVE  IsMarchDay(n + 1, y, mp, d + 1)
  BY <1>1, <1>2, <1>3, SMT DEF IsMarchDay, FromMarch
<1>4. ASSUME d >= MonthSize(y, mp), mp < 11
      PROVE  IsMarchDay(n + 1, y, mp + 1, 1)
  <2>1. mp + 1 \in 0 .. 11
    BY <1>1, <1>4
  <2>2. MonthSize(y, mp + 1) \in 28 .. 31
    BY <1>1, <2>1, MonthSizeIs
  <2>. QED
    BY <1>1, <1>2, <1>4, <2>1, <2>2, SMT DEF IsMarchDay, FromMarch
<1>5. ASSUME d >= MonthSize(y, mp), mp = 11
      PROVE  IsMarchDay(n + 1, y + 1, 0, 1)
  <2>1. y + 1 \in Int
    BY <1>1
  <2>2. MonthSize(y + 1, 0) \in 28 .. 31
    BY <1>1, <2>1, MonthSizeIs
  <2>. QED
    BY <1>1, <1>2, <1>5, <2>1, <2>2, MonthStarts, SMT DEF IsMarchDay, FromMarch
<1>. QED
  BY <1>3, <1>4, <1>5

(* The day after is in the same month, in the next month or in the next     *)
(* year.                                                                    *)
LEMMA NextDayIs ==
  ASSUME NEW n, NEW y, NEW m, NEW d, IsDay(n, y, m, d)
  PROVE  LET last == LastDay(YearMonth(y, m))
         IN  /\ d < last => IsDay(n + 1, y, m, d + 1)
             /\ d = last /\ m < 12 => IsDay(n + 1, y, m + 1, 1)
             /\ d = last /\ m = 12 => IsDay(n + 1, y + 1, 1, 1)
<1>1. /\ y \in Int /\ m \in 1 .. 12 /\ d \in Int
      /\ IsMarchDay(n, MarchYear(y, m), MarchMonth(m), d)
  BY MarchDay DEF IsDay
<1>2. LastDay(YearMonth(y, m)) = MonthSize(MarchYear(y, m), MarchMonth(m))
  <2>1. YearMonth(y, m).year = y /\ YearMonth(y, m).month = m
    BY DEF YearMonth
  <2>. QED
    BY <1>1, <2>1, LastDayIs
<1>3. ASSUME d < LastDay(YearMonth(y, m))
      PROVE  IsDay(n + 1, y, m, d + 1)
  BY <1>1, <1>2, <1>3, NextMarchDay, MarchDay
<1>4. ASSUME d = LastDay(YearMonth(y, m)), m < 12
      PROVE  IsDay(n + 1, y, m + 1, 1)
  <2>1. m + 1 \in 1 .. 12
    BY <1>1, <1>4
  <2>2. CASE m = 2
    <3>1. MarchYear(y, m) = y - 1 /\ MarchMonth(m) = 11 /\ MarchYear(y, m + 1) = y /\ MarchMonth(m + 1) = 0
          /\ (y - 1) + 1 = y
      BY <1>1, <2>2, SMT DEF MarchYear, MarchMonth
    <3>2. IsMarchDay(n + 1, (y - 1) + 1, 0, 1)
      BY <1>1, <1>2, <1>4, <3>1, NextMarchDay
    <3>. QED
      BY <1>1, <2>1, <3>1, <3>2, MarchDay
  <2>3. CASE m # 2
    <3>1. /\ MarchYear(y, m + 1) = MarchYear(y, m)
          /\ MarchMonth(m) < 11 /\ MarchMonth(m + 1) = MarchMonth(m) + 1
      BY <1>1, <1>4, <2>3, SMT DEF MarchYear, MarchMonth
    <3>. QED
      BY <1>1, <2>1, <3>1, <1>2, <1>4, NextMarchDay, MarchDay
  <2>. QED
    BY <2>2, <2>3
<1>5. ASSUME d = LastDay(YearMonth(y, m)), m = 12
      PROVE  IsDay(n + 1, y + 1, 1, 1)
  <2>1. /\ MarchYear(y, m) = y /\ MarchMonth(m) = 9
        /\ MarchYear(y + 1, 1) = y /\ MarchMonth(1) = 10
    BY <1>1, <1>5, SMT DEF MarchYear, MarchMonth
  <2>2. IsMarchDay(n + 1, y, 9 + 1, 1)
    BY <1>1, <1>2, <1>5, <2>1, NextMarchDay
  <2>. QED
    BY <1>1, <2>1, <2>2, MarchDay
<1>. QED
  BY <1>3, <1>4, <1>5

(* The days of one month are numbered one after another. *)
LEMMA SameMonth ==
  ASSUME NEW n, NEW y, NEW m, NEW d, IsDay(n, y, m, d), NEW e \in Int
  PROVE  1 <= e /\ e <= LastDay(YearMonth(y, m)) => IsDay(n + e - d, y, m, e)
<1>1. /\ y \in Int /\ m \in 1 .. 12 /\ d \in Int /\ n \in Int
      /\ FromMarch(n) = Before(MarchYear(y, m)) + MonthStart(MarchMonth(m)) + d - 1
  BY DEF IsDay
<1>2. Before(MarchYear(y, m)) \in Int /\ MonthStart(MarchMonth(m)) \in Int
  <2>1. MarchYear(y, m) \in Int /\ MarchMonth(m) \in 0 .. 11
    BY <1>1, SMT DEF MarchYear, MarchMonth
  <2>. QED
    BY <2>1, MonthSizeIs
<1>. QED
  BY <1>1, <1>2, SMT DEF FromMarch, IsDay

(* No day has two numbers. *)
LEMMA SameDay ==
  ASSUME NEW n, NEW k, NEW y, NEW m, NEW d, IsDay(n, y, m, d), IsDay(k, y, m, d)
  PROVE  n = k
<1>1. n \in Int /\ k \in Int /\ FromMarch(n) = FromMarch(k)
  BY DEF IsDay
<1>. QED
  BY <1>1, SMT DEF FromMarch

-----------------------------------------------------------------------------
(* The number of the first of January.                                      *)
NewYear(y) == ToDays(Date(y, 1, 1))

(* The first of January is a day, 306 days after the first of March before  *)
(* it.                                                                      *)
LEMMA NewYearIs ==
  ASSUME NEW y \in Int
  PROVE  /\ NewYear(y) \in Int
         /\ IsDay(NewYear(y), y, 1, 1)
         /\ FromMarch(NewYear(y)) = Before(y - 1) + 306
<1>1. NewYear(y) = Before(MarchYear(y, 1)) + MonthStart(MarchMonth(1)) + 1 - 1 - 719468
  BY ToDaysIs, SMT DEF Date, NewYear
<1>2. MarchYear(y, 1) = y - 1 /\ MarchMonth(1) = 10 /\ MonthStart(10) = 306
  BY MonthStarts DEF MarchYear, MarchMonth
<1>3. Before(y - 1) \in Int
  BY YearLength
<1>4. LastDay(YearMonth(y, 1)) \in 28 .. 31
  <2>1. YearMonth(y, 1).year = y /\ YearMonth(y, 1).month = 1
    BY DEF YearMonth
  <2>. QED
    BY <2>1, LastDayIs
<1>. QED
  BY <1>1, <1>2, <1>3, <1>4, SMT DEF FromMarch, IsDay

(* The day before the first of January is the last of December. *)
LEMMA NewYearsEve ==
  ASSUME NEW y \in Int
  PROVE  /\ IsDay(NewYear(y + 1) - 1, y, 12, 31)
         /\ LastDay(YearMonth(y, 12)) = 31
<1>1. LastDay(YearMonth(y, 12)) = 31
  BY SMT DEF YearMonth, LastDay, MonthDayLastOk, MonthOk
<1>2. MarchYear(y, 12) = y /\ MarchMonth(12) = 9 /\ MonthStart(9) = 275
  BY MonthStarts DEF MarchYear, MarchMonth
<1>3. /\ NewYear(y + 1) \in Int /\ Before(y) \in Int
      /\ FromMarch(NewYear(y + 1)) = Before(y) + 306
  BY NewYearIs, YearLength
<1>. QED
  BY <1>1, <1>2, <1>3, SMT DEF FromMarch, IsDay

(* Between the first days of two years are 365 days at least. *)
LEMMA NewYearsFollow ==
  ASSUME NEW x \in Int, NEW y \in Int, x < y
  PROVE  NewYear(x) + 365 <= NewYear(y)
<1>1. Before(x - 1) + 365 <= Before(y - 1) /\ Before(x - 1) \in Int /\ Before(y - 1) \in Int
  BY YearsFollow, YearLength, SMT
<1>. QED
  BY <1>1, NewYearIs, SMT DEF FromMarch

(* A day is between the first of January of its year and that of the next. *)
LEMMA InYear ==
  ASSUME NEW n, NEW y, NEW m, NEW d, IsDay(n, y, m, d)
  PROVE  NewYear(y) <= n /\ n < NewYear(y + 1)
<1>1. /\ y \in Int /\ m \in 1 .. 12 /\ d \in Int /\ n \in Int
      /\ IsMarchDay(n, MarchYear(y, m), MarchMonth(m), d)
  BY MarchDay DEF IsDay
<1>2. /\ Before(y) \in Int /\ Before(y - 1) \in Int /\ Before(y - 1) + 365 <= Before(y)
  <2>1. y - 1 \in Int /\ y - 1 < y
    BY <1>1
  <2>. QED
    BY <1>1, <2>1, YearsFollow, YearLength
<1>3. /\ NewYear(y) \in Int /\ FromMarch(NewYear(y)) = Before(y - 1) + 306
      /\ NewYear(y + 1) \in Int /\ FromMarch(NewYear(y + 1)) = Before(y) + 306
  <2>. QED
    BY <1>1, NewYearIs
<1>4. CASE m <= 2
  <2>1. MarchYear(y, m) = y - 1 /\ MarchMonth(m) \in 10 .. 11 /\ (y - 1) + 1 = y
    BY <1>1, <1>4, SMT DEF MarchYear, MarchMonth
  <2>2. Before(y - 1) + 306 <= FromMarch(n)
    BY <1>1, <1>2, <2>1, MonthStarts, SMT DEF IsMarchDay, FromMarch
  <2>. QED
    BY <1>1, <1>2, <1>3, <2>1, InMarchYear, <2>2, SMT DEF FromMarch
<1>5. CASE m > 2
  <2>1. MarchYear(y, m) = y /\ MarchMonth(m) \in 0 .. 9
    BY <1>1, <1>5, SMT DEF MarchYear, MarchMonth
  <2>2. PICK mp \in 0 .. 9 : MarchMonth(m) = mp
    BY <2>1
  <2>3. /\ MonthStart(mp) \in Int /\ MonthSize(y, mp) \in Int
        /\ MonthStart(mp) + MonthSize(y, mp) <= 306
    <3>1. MonthStart(mp) + MonthSize(y, mp) = MonthStart(mp + 1) /\ MonthStart(mp) \in Int /\ MonthSize(y, mp) \in Int
      <4>1. mp \in 0 .. 11 /\ mp < 11
        BY <2>2
      <4>2. /\ MonthSize(y, mp) \in 28 .. 31 /\ MonthStart(mp) \in Int
            /\ MonthStart(mp + 1) = MonthStart(mp) + MonthSize(y, mp)
        BY <1>1, <4>1, MonthSizeIs
      <4>. QED
        BY <4>2
    <3>. QED
      BY <3>1, MonthStarts, SMT
  <2>4. FromMarch(n) < Before(y) + 306
    BY <1>1, <1>2, <2>1, <2>2, <2>3, SMT DEF IsMarchDay, FromMarch
  <2>. QED
    BY <1>1, <1>2, <1>3, <2>1, InMarchYear, <2>4, SMT DEF FromMarch
<1>. QED
  BY <1>1, <1>4, <1>5

(* What %j writes counts the days since the first of January. *)
LEMMA DayOfYearIs ==
  ASSUME NEW n, NEW y, NEW m, NEW d, IsDay(n, y, m, d),
         NEW ymd, ymd.year = y, ymd.month = m, ymd.day = d
  PROVE  DayOfYear(ymd) = n - NewYear(y) + 1
<1>1. YearMonthDay(YearMonth(ymd.year, 1), 1) = Date(y, 1, 1)
  BY DEF YearMonthDay, YearMonth, Date
<1>2. ToDays(ymd) = n
  BY ToDaysOf
<1>. QED
  BY <1>1, <1>2 DEF DayOfYear, NewYear

-----------------------------------------------------------------------------
(* Weeks *)

(* Weekdays follow one another, from a Thursday at day 0, before 1970 too. *)
LEMMA WeekdayIs ==
  ASSUME NEW n \in Int
  PROVE  WeekdayFromDays(n) = (n + 4) % 7 /\ WeekdayFromDays(n) \in 0 .. 6
BY SMT DEF WeekdayFromDays

(* The difference of two weekdays is that of the days, in a week. *)
LEMMA WeekdayMinusIs ==
  ASSUME NEW a \in Int, NEW b \in Int
  PROVE  WeekdayMinus(WeekdayFromDays(a), WeekdayFromDays(b)) = (a - b) % 7
<1>1. PICK x \in 0 .. 6, y \in 0 .. 6 :
        /\ x = (a + 4) % 7 /\ y = (b + 4) % 7
        /\ x = WeekdayFromDays(a) /\ y = WeekdayFromDays(b)
  BY WeekdayIs, SMT
<1>2. FloorQuotient(x - y, 7) = (x - y) \div 7
  BY Floor
<1>3. x - y - ((x - y) \div 7) * 7 = (x - y) % 7
  OBVIOUS
<1>4. (x - y) % 7 = (a - b) % 7
  BY <1>1
<1>. QED
  BY <1>1, <1>2, <1>3, <1>4 DEF WeekdayMinus

(* The Monday with which the ISO year y begins. *)
IsoMonday(y) == 7 * ((NewYear(y) - 1) \div 7) + 4

(* An ISO year begins with the one Monday that is at most three days from   *)
(* the first of January.                                                    *)
LEMMA IsoMondayIs ==
  ASSUME NEW y \in Int
  PROVE  /\ IsoMonday(y) \in Int
         /\ IsoMonday(y) % 7 = 4
         /\ NewYear(y) - 3 <= IsoMonday(y) /\ IsoMonday(y) <= NewYear(y) + 3
         /\ \A k \in Int : k % 7 = 4 /\ NewYear(y) - 3 <= k /\ k <= NewYear(y) + 3 => k = IsoMonday(y)
<1>1. PICK j \in Int : j = NewYear(y)
  BY NewYearIs
<1>2. PICK w \in Int : w = (j - 1) \div 7
  OBVIOUS
<1>3. 7 * w <= j - 1 /\ j - 1 <= 7 * w + 6
  BY <1>2, SMT
<1>4. ASSUME NEW k \in Int, k % 7 = 4, j - 3 <= k, k <= j + 3
      PROVE  k = 7 * w + 4
  <2>1. PICK v \in Int : k = 7 * v + 4
    BY <1>4
  <2>. QED
    BY <1>3, <1>4, <2>1, SMT
<1>. QED
  BY <1>1, <1>3, <1>2, <1>4 DEF IsoMonday

(* ISO years begin one after another. *)
LEMMA IsoMondaysFollow ==
  ASSUME NEW x \in Int, NEW y \in Int, x < y
  PROVE  IsoMonday(x) < IsoMonday(y)
<1>1. NewYear(x) + 365 <= NewYear(y) /\ NewYear(x) \in Int /\ NewYear(y) \in Int
  BY NewYearsFollow, NewYearIs
<1>. QED
  BY <1>1, IsoMondayIs, SMT

(* The Thursday on or before the day n, and the Monday after a Thursday. *)
LEMMA LastThursday ==
  ASSUME NEW n \in Int
  PROVE  /\ n - WeekdayMinus(WeekdayFromDays(n), 4) = 7 * (n \div 7)
         /\ WeekdayMinus(1, 4) = 4
<1>1. WeekdayFromDays(0) = 4 /\ WeekdayFromDays(4) = 1 /\ 0 \in Int /\ 4 \in Int
  BY SMT DEF WeekdayFromDays
<1>2. WeekdayMinus(WeekdayFromDays(n), WeekdayFromDays(0)) = (n - 0) % 7
  BY <1>1, WeekdayMinusIs
<1>3. WeekdayMinus(WeekdayFromDays(4), WeekdayFromDays(0)) = (4 - 0) % 7
  BY <1>1, WeekdayMinusIs
<1>4. PICK k \in Int, r \in Int : k = n \div 7 /\ r = n % 7
  OBVIOUS
<1>. QED
  BY <1>1, <1>2, <1>3, <1>4, SMT

(* What date.h takes for the start of an ISO year is that Monday. *)
LEMMA IsoStartIs ==
  ASSUME NEW y \in Int, Fits(y - 1)
  PROVE  IsoStart(y) = IsoMonday(y)
<1>. DEFINE ym == YearMonth(y - 1, 12)
<1>1. ym.year = y - 1 /\ ym.month = 12 /\ LastDay(ym) = 31
  BY SMT DEF YearMonth, LastDay, MonthDayLastOk, MonthOk
<1>2. PICK n \in Int : IsDay(n, y - 1, 12, 31) /\ n + 1 = NewYear(y)
  <2>1. PICK n \in Int : n = NewYear(y) - 1
    BY NewYearIs
  <2>2. FromMarch(n) = Before(y - 1) + 275 + 31 - 1
    BY <2>1, NewYearIs, YearLength, SMT DEF FromMarch
  <2>3. MarchYear(y - 1, 12) = y - 1 /\ MarchMonth(12) = 9 /\ MonthStart(9) = 275
    BY MonthStarts DEF MarchYear, MarchMonth
  <2>. QED
    BY <2>1, <1>1, <2>2, <2>3, NewYearIs DEF IsDay
<1>3. YearMonthDayLastToDays(ym) = n
  <2>. DEFINE ymd == YearMonthDay(ym, LastDay(ym))
  <2>1. ymd.year = y - 1 /\ ymd.month = 12 /\ ymd.day = 31
    BY <1>1 DEF YearMonthDay
  <2>. QED
    BY <1>2, <2>1, ToDaysOf DEF YearMonthDayLastToDays
<1>4. n - WeekdayMinus(WeekdayFromDays(n), 4) = 7 * (n \div 7) /\ WeekdayMinus(1, 4) = 4
  BY LastThursday
<1>5. IsoStart(y) = 7 * (n \div 7) + 4
  BY YearIs, <1>3, <1>4, SMT DEF YearPlus, IsoStart, WeekdayLastToDays
<1>. QED
  BY <1>5, <1>2, NewYearIs, SMT DEF IsoMonday

(* The day n is in the ISO year y. *)
InIsoYear(n, y) == y \in Int /\ IsoMonday(y) <= n /\ n < IsoMonday(y + 1)

(* No day is in two ISO years. *)
LEMMA IsoYearIsUnique ==
  ASSUME NEW n \in Int, NEW x, NEW y, InIsoYear(n, x), InIsoYear(n, y)
  PROVE  x = y
<1>1. /\ x \in Int /\ y \in Int /\ x + 1 \in Int /\ y + 1 \in Int
      /\ IsoMonday(x) <= n /\ n < IsoMonday(x + 1)
      /\ IsoMonday(y) <= n /\ n < IsoMonday(y + 1)
  BY DEF InIsoYear
<1>2. /\ IsoMonday(x) \in Int /\ IsoMonday(y) \in Int
      /\ IsoMonday(x + 1) \in Int /\ IsoMonday(y + 1) \in Int
  BY <1>1, IsoMondayIs
<1>3. CASE x < y
  <2>. QED
    BY <1>1, <1>2, <1>3, IsoMondaysFollow
<1>4. CASE y < x
  <2>1. y + 1 < x => IsoMonday(y + 1) < IsoMonday(x)
    BY <1>1, IsoMondaysFollow
  <2>. QED
    BY <1>1, <1>2, <1>4, <2>1
<1>. QED
  BY <1>1, <1>3, <1>4

(* Years whose ISO year does not wrap around. *)
FitsIso(y) == y \in Int /\ -32766 <= y /\ y <= 32767

(* %G writes the ISO year that the day is in. *)
LEMMA IsoYearIs ==
  ASSUME NEW n \in Int, NEW y, NEW m, NEW d, IsDay(n + 3, y, m, d), FitsIso(y)
  PROVE  /\ InIsoYear(n, IsoYear(n))
         /\ IsoStart(IsoYear(n)) = IsoMonday(IsoYear(n))
<1>1. /\ y \in Int /\ y - 1 \in Int /\ y + 1 \in Int /\ (y - 1) + 1 = y /\ y - 1 < y
      /\ Fits(y) /\ Fits(y - 1) /\ Fits((y - 1) - 1)
  BY SMT DEF Fits, FitsIso
<1>2. FromDays(n + 3).year = y
  <2>. QED
    BY <1>1, FromDaysIs DEF Date
<1>3. YearPlus(y, -1) = y - 1
  BY <1>1, YearIs, SMT DEF YearPlus
<1>4. IsoStart(y) = IsoMonday(y) /\ IsoStart(y - 1) = IsoMonday(y - 1)
  BY <1>1, IsoStartIs
<1>5. NewYear(y) <= n + 3 /\ n + 3 < NewYear(y + 1)
  BY InYear
<1>6. /\ NewYear(y) \in Int /\ NewYear(y - 1) \in Int /\ NewYear(y + 1) \in Int
      /\ NewYear(y - 1) + 365 <= NewYear(y)
      /\ IsoMonday(y) \in Int
      /\ IsoMonday(y - 1) \in Int /\ IsoMonday(y - 1) <= NewYear(y - 1) + 3
      /\ IsoMonday(y + 1) \in Int /\ NewYear(y + 1) - 3 <= IsoMonday(y + 1)
  <2>1. NewYear(y) \in Int /\ NewYear(y - 1) \in Int /\ NewYear(y + 1) \in Int
    BY <1>1, NewYearIs
  <2>2. /\ IsoMonday(y) \in Int
        /\ IsoMonday(y - 1) \in Int /\ IsoMonday(y - 1) <= NewYear(y - 1) + 3
        /\ IsoMonday(y + 1) \in Int /\ NewYear(y + 1) - 3 <= IsoMonday(y + 1)
    BY <1>1, IsoMondayIs
  <2>. QED
    BY <2>1, <1>1, NewYearsFollow, <2>2
<1>7. CASE n < IsoStart(y)
  <2>. QED
    BY <1>1, <1>4, <1>7, <1>2, <1>3, <1>5, <1>6 DEF IsoYear, InIsoYear
<1>8. CASE ~ (n < IsoStart(y))
  <2>. QED
    BY <1>1, <1>4, <1>2, <1>8, <1>5, <1>6 DEF IsoYear, InIsoYear
<1>. QED
  BY <1>7, <1>8

(* %V counts the weeks since that Monday. *)
LEMMA IsoWeekIs ==
  ASSUME NEW n \in Int, NEW y, NEW m, NEW d, IsDay(n + 3, y, m, d), FitsIso(y)
  PROVE  IsoWeek(n) = (n - IsoMonday(IsoYear(n))) \div 7 + 1
<1>1. /\ IsoYear(n) \in Int /\ IsoMonday(IsoYear(n)) <= n
      /\ IsoStart(IsoYear(n)) = IsoMonday(IsoYear(n))
  BY IsoYearIs DEF InIsoYear
<1>2. IsoMonday(IsoYear(n)) \in Int
  BY <1>1, IsoMondayIs
<1>. QED
  BY <1>1, <1>2 DEF IsoWeek, Quotient

(* Weeks that begin within three days of a new year. *)
LEMMA WeekOfNewYear ==
  ASSUME NEW n, NEW y, NEW m, NEW d, IsDay(n, y, m, d)
  PROVE  /\ m = 12 /\ d >= 29 <=> NewYear(y + 1) - 3 <= n
         /\ m = 1 /\ d <= 4 <=> n <= NewYear(y) + 3
<1>1. /\ n \in Int /\ y \in Int /\ m \in 1 .. 12 /\ d \in Int
      /\ 1 <= d /\ d <= LastDay(YearMonth(y, m))
      /\ y + 1 \in Int
  BY DEF IsDay
<1>2. IsDay(NewYear(y), y, 1, 1) /\ IsDay(NewYear(y + 1), y + 1, 1, 1) /\ NewYear(y) \in Int /\ NewYear(y + 1) \in Int
  BY <1>1, NewYearIs
<1>3. \A k : IsDay(k, y, 12, 31) => k = NewYear(y + 1) - 1
  <2>1. LastDay(YearMonth(y, 12)) = 31
    BY SMT DEF YearMonth, LastDay, MonthDayLastOk, MonthOk
  <2>2. ASSUME NEW k, IsDay(k, y, 12, 31)
        PROVE  k = NewYear(y + 1) - 1
    <3>. QED
      BY <1>2, <2>2, <2>1, NextDayIs, SameDay DEF IsDay
  <2>. QED
    BY <2>2
<1>4. LastDay(YearMonth(y, 12)) = 31 /\ LastDay(YearMonth(y, 1)) = 31
  BY SMT DEF YearMonth, LastDay, MonthDayLastOk, MonthOk
<1>5. ASSUME m = 12
      PROVE  n = NewYear(y + 1) - 32 + d
  <2>1. IsDay(n + 31 - d, y, 12, 31)
    BY <1>4, <1>5, SameMonth
  <2>. QED
    BY <1>1, <1>2, <1>3, <2>1
<1>6. ASSUME m = 1
      PROVE  n = NewYear(y) - 1 + d
  <2>. QED
    BY <1>1, <1>2, <1>4, <1>6, SameMonth, SameDay
<1>7. ASSUME NewYear(y + 1) - 3 <= n
      PROVE  m = 12
  <2>1. PICK e \in 29 .. 31 : n = NewYear(y + 1) - 32 + e
    <3>1. n = NewYear(y + 1) - 32 + (n + 32 - NewYear(y + 1))
      BY <1>1, <1>2
    <3>. QED
      BY <1>1, <1>2, <1>7, InYear, <3>1
  <2>2. IsDay(NewYear(y + 1) - 1, y, 12, 31)
    <3>1. MarchYear(y, 12) = y /\ MarchMonth(12) = 9 /\ MonthStart(9) = 275
      BY MonthStarts DEF MarchYear, MarchMonth
    <3>2. FromMarch(NewYear(y + 1)) = Before(y) + 306 /\ Before(y) \in Int
      BY <1>1, NewYearIs, YearLength
    <3>3. FromMarch(NewYear(y + 1) - 1) = Before(y) + 275 + 31 - 1
      BY <1>2, <3>2, SMT DEF FromMarch
    <3>. QED
      BY <1>1, <1>2, <1>4, <3>1, <3>3, SMT DEF IsDay
  <2>3. IsDay(NewYear(y + 1) - 1 + e - 31, y, 12, e)
    BY <1>4, <2>2, SameMonth
  <2>. QED
    BY <2>3, <1>2, <2>1, DayIsUnique
<1>8. ASSUME n <= NewYear(y) + 3
      PROVE  m = 1
  <2>1. PICK e \in 1 .. 4 : n = NewYear(y) + e - 1
    <3>. QED
      BY <1>1, <1>2, <1>8, InYear
  <2>2. IsDay(NewYear(y) + e - 1, y, 1, e)
    BY <1>2, <1>4, SameMonth
  <2>. QED
    BY <2>1, <2>2, DayIsUnique
<1>. QED
  BY <1>1, <1>2, <1>5, <1>6, <1>7, <1>8

-----------------------------------------------------------------------------
(* What the clock shows *)

(* The day n, with the year that it and its ISO year belong to. *)
IsShown(n, y, m, d, iso) ==
  /\ IsDay(n, y, m, d) /\ Fits(y) /\ YearOk(y)
  /\ InIsoYear(n, iso)
  /\ Shown(n) = [year |-> y, month |-> m, day |-> d,
                 weekday |-> (n + 4) % 7, dayOfYear |-> n - NewYear(y) + 1,
                 isoYear |-> iso, isoWeek |-> (n - IsoMonday(iso)) \div 7 + 1]

(* The days whose years and ISO years date.h can hold. *)
LowYear == -32766

HighYear == 32768

InRange(n) == n \in Int /\ NewYear(LowYear) <= n /\ n + 3 < NewYear(HighYear)

(* The year of a day in the range, and those beside it, fit their type. *)
LEMMA YearFits ==
  ASSUME NEW n, NEW y, NEW m, NEW d, IsDay(n, y, m, d),
         NewYear(LowYear) <= n, n < NewYear(HighYear)
  PROVE  FitsIso(y) /\ Fits(y) /\ YearOk(y)
<1>1. y \in Int /\ y + 1 \in Int /\ n \in Int /\ NewYear(y) <= n /\ n < NewYear(y + 1)
  <2>1. y \in Int /\ n \in Int
    BY DEF IsDay
  <2>. QED
    BY <2>1, InYear
<1>2. PICK low \in Int, high \in Int : low = LowYear /\ high = HighYear
  BY SMT DEF LowYear, HighYear
<1>3. /\ NewYear(y) \in Int /\ NewYear(y + 1) \in Int
      /\ NewYear(low) \in Int /\ NewYear(high) \in Int
  BY <1>1, NewYearIs
<1>4. NewYear(low) <= n /\ n < NewYear(high)
  BY <1>2, SMT
<1>5. low <= y
  <2>1. SUFFICES ASSUME ~ (low <= y)
                 PROVE  FALSE
    OBVIOUS
  <2>. QED
    BY <1>1, <1>3, <1>4, <2>1, NewYearsFollow
<1>6. y < high
  <2>1. SUFFICES ASSUME ~ (y < high)
                 PROVE  FALSE
    OBVIOUS
  <2>. QED
    BY <1>1, <1>3, <1>4, <2>1, NewYearsFollow
<1>. QED
  BY <1>1, <1>2, <1>5, <1>6, SMT DEF FitsIso, Fits, YearOk, LowYear, HighYear

(* What date.h computes for a day in the range, in the words of the         *)
(* calendar.                                                                *)
LEMMA ShownIs ==
  ASSUME NEW n, InRange(n)
  PROVE  \E y, m, d, iso : IsShown(n, y, m, d, iso)
<1>1. /\ n \in Int /\ n + 3 \in Int /\ NewYear(LowYear) <= n /\ n + 3 < NewYear(HighYear)
      /\ NewYear(LowYear) \in Int /\ NewYear(HighYear) \in Int
  <2>1. PICK low \in Int, high \in Int : low = LowYear /\ high = HighYear
    BY SMT DEF LowYear, HighYear
  <2>. QED
    BY <2>1, NewYearIs, SMT DEF InRange
<1>2. NewYear(LowYear) <= n + 3 /\ n < NewYear(HighYear)
  BY <1>1, SMT
<1>3. PICK y \in Int, m \in 1 .. 12, d \in 1 .. 31 : IsDay(n, y, m, d)
  BY <1>1, DayExists
<1>4. PICK y3 \in Int, m3 \in 1 .. 12, d3 \in 1 .. 31 : IsDay(n + 3, y3, m3, d3)
  BY <1>1, DayExists
<1>5. Fits(y) /\ YearOk(y)
  BY <1>1, <1>2, <1>3, YearFits, SMT
<1>6. FromDays(n).year = y /\ FromDays(n).month = m /\ FromDays(n).day = d
  BY <1>3, <1>5, FromDaysIs DEF Date
<1>7. InIsoYear(n, IsoYear(n)) /\ IsoWeek(n) = (n - IsoMonday(IsoYear(n))) \div 7 + 1
  BY <1>1, <1>4, <1>2, YearFits, IsoYearIs, IsoWeekIs, SMT
<1>8. IsShown(n, y, m, d, IsoYear(n))
  BY <1>3, <1>5, <1>1, WeekdayIs, <1>6, DayOfYearIs, <1>7 DEF IsShown, Shown
<1>. QED
  BY <1>8

(* The day after has the next weekday, and is a Monday if the count says    *)
(* so.                                                                      *)
LEMMA NextInWeek ==
  ASSUME NEW n \in Int
  PROVE  /\ (n + 1 + 4) % 7 = (((n + 4) % 7) + 1) % 7
         /\ (n + 1 + 4) % 7 = 1 <=> (n + 1) % 7 = 4
<1>1. PICK k \in Int, r \in 0 .. 6 : k = n \div 7 /\ r = n % 7
  BY SMT
<1>2. /\ (7 * k + r + 1 + 4) % 7 = (r + 5) % 7
      /\ (7 * k + r + 4) % 7 = (r + 4) % 7
      /\ (7 * k + r + 1) % 7 = (r + 1) % 7
  BY SMT
<1>3. /\ (r + 5) % 7 = (((r + 4) % 7) + 1) % 7
      /\ (r + 5) % 7 = 1 <=> (r + 1) % 7 = 4
  BY SMT
<1>. QED
  BY <1>1, <1>2, <1>3, SMT

(* A week ends before a Monday. *)
LEMMA NextWeek ==
  ASSUME NEW n \in Int, NEW w \in Int
  PROVE  ((n + 1) - (7 * w + 4)) \div 7
           = (n - (7 * w + 4)) \div 7 + (IF (n + 1 + 4) % 7 = 1 THEN 1 ELSE 0)
<1>1. PICK k \in Int, r \in 0 .. 6 : k = n \div 7 /\ r = n % 7
  BY SMT
<1>2. n = 7 * k + r
  BY <1>1, SMT
<1>3. PICK v \in Int : v = k - w
  OBVIOUS
<1>4. n - (7 * w + 4) = 7 * v + (r - 4) /\ (n + 1) - (7 * w + 4) = 7 * v + (r - 3)
  BY <1>2, <1>3, SMT
<1>5. (7 * v + (r - 3)) \div 7 = IF r < 3 THEN v - 1 ELSE v
  BY SMT
<1>6. (n + 1 + 4) % 7 = 1 <=> r = 3
  <2>. QED
    BY <1>2, SMT
<1>. QED
  BY <1>4, <1>5, <1>6, SMT

(* A day between the first of January of two years is in the first of them. *)
LEMMA YearIsUnique ==
  ASSUME NEW n, NEW y, NEW m, NEW d, IsDay(n, y, m, d),
         NEW k \in Int, NewYear(k) <= n, n < NewYear(k + 1)
  PROVE  y = k
<1>1. y \in Int /\ y + 1 \in Int /\ n \in Int /\ k + 1 \in Int
  BY DEF IsDay
<1>2. NewYear(y) <= n /\ n < NewYear(y + 1)
  BY InYear
<1>3. NewYear(y) \in Int /\ NewYear(y + 1) \in Int /\ NewYear(k) \in Int /\ NewYear(k + 1) \in Int
  BY <1>1, NewYearIs
<1>4. y + 1 < k => NewYear(y + 1) + 365 <= NewYear(k)
  BY <1>1, NewYearsFollow
<1>5. k + 1 < y => NewYear(k + 1) + 365 <= NewYear(y)
  BY <1>1, NewYearsFollow
<1>. QED
  BY <1>1, <1>2, <1>3, <1>4, <1>5

(* An ISO year begins on a Monday between 29 December and 4 January. *)
IsMonday(n) == (n + 4) % 7 = 1

(* The ISO year changes on the Monday from 29 December to 4 January, as     *)
(* Gregorian has it, and on no other day.                                   *)
LEMMA NextIsoYear ==
  ASSUME NEW n \in Int, NEW y, NEW m, NEW d, IsDay(n + 1, y, m, d),
         NEW iso, InIsoYear(n, iso), NEW next, InIsoYear(n + 1, next)
  PROVE  IF IsMonday(n + 1) /\ Abstract!BeginsIsoYear(m, d)
         THEN next = iso + 1 /\ n + 1 = IsoMonday(next)
         ELSE next = iso
<1>1. /\ y \in Int /\ y + 1 \in Int /\ m \in Int /\ d \in Int /\ n + 1 \in Int
      /\ iso \in Int /\ iso + 1 \in Int /\ (iso + 1) + 1 \in Int /\ iso + 1 < (iso + 1) + 1
      /\ next \in Int /\ next + 1 \in Int
      /\ IsoMonday(iso) <= n /\ n < IsoMonday(iso + 1)
      /\ IsoMonday(next) <= n + 1 /\ n + 1 < IsoMonday(next + 1)
  BY DEF InIsoYear, IsDay
<1>2. /\ IsoMonday(iso) \in Int /\ IsoMonday(iso + 1) \in Int /\ IsoMonday((iso + 1) + 1) \in Int
      /\ NewYear(y) \in Int /\ NewYear(y + 1) \in Int
      /\ IsoMonday(iso + 1) < IsoMonday((iso + 1) + 1)
  <2>1. IsoMonday(iso) \in Int /\ IsoMonday(iso + 1) \in Int /\ IsoMonday((iso + 1) + 1) \in Int
    BY <1>1, IsoMondayIs
  <2>. QED
    BY <1>1, NewYearIs, <2>1, IsoMondaysFollow
<1>3. n + 1 < IsoMonday(iso + 1) => next = iso
  <2>1. ASSUME n + 1 < IsoMonday(iso + 1)
        PROVE  InIsoYear(n + 1, iso)
    BY <1>1, <1>2, <2>1 DEF InIsoYear
  <2>. QED
    BY <1>1, <2>1, IsoYearIsUnique
<1>4. n + 1 = IsoMonday(iso + 1) => next = iso + 1
  <2>1. ASSUME n + 1 = IsoMonday(iso + 1)
        PROVE  InIsoYear(n + 1, iso + 1)
    BY <1>1, <1>2, <2>1 DEF InIsoYear
  <2>. QED
    BY <1>1, <2>1, IsoYearIsUnique
<1>5. IsMonday(n + 1) <=> (n + 1) % 7 = 4
  BY NextInWeek DEF IsMonday
<1>6. Abstract!BeginsIsoYear(m, d) <=>
        NewYear(y + 1) - 3 <= n + 1 \/ n + 1 <= NewYear(y) + 3
  BY <1>1, WeekOfNewYear DEF Abstract!BeginsIsoYear
<1>7. NewYear(y) <= n + 1 /\ n + 1 < NewYear(y + 1)
  BY InYear
<1>8. CASE IsMonday(n + 1) /\ Abstract!BeginsIsoYear(m, d)
  <2>1. PICK k \in Int : n + 1 = IsoMonday(k)
    <3>1. CASE NewYear(y + 1) - 3 <= n + 1
      <4>. QED
        BY <1>1, <1>5, <1>8, <3>1, <1>2, <1>7, IsoMondayIs
    <3>2. CASE n + 1 <= NewYear(y) + 3
      <4>. QED
        BY <1>1, <1>5, <1>8, <3>2, <1>2, <1>7, IsoMondayIs
    <3>. QED
      BY <1>6, <1>8, <3>1, <3>2
  <2>2. k = iso + 1
    <3>1. IsoMonday(k) \in Int
      BY IsoMondayIs
    <3>2. iso < k
      <4>1. SUFFICES ASSUME ~ (iso < k)
                     PROVE  FALSE
        OBVIOUS
      <4>. QED
        BY <1>1, <1>2, <2>1, <3>1, <4>1, IsoMondaysFollow
    <3>3. ~ (iso + 1 < k)
      <4>. QED
        BY <1>1, <1>2, <2>1, <3>1, IsoMondaysFollow
    <3>. QED
      BY <1>1, <3>2, <3>3
  <2>. QED
    BY <1>4, <1>8, <2>1, <2>2
<1>9. CASE ~ (IsMonday(n + 1) /\ Abstract!BeginsIsoYear(m, d))
  <2>1. SUFFICES ASSUME n + 1 = IsoMonday(iso + 1)
                 PROVE  FALSE
    BY <1>3, <1>1, <1>2, <1>9
  <2>2. /\ (n + 1) % 7 = 4
        /\ NewYear(iso + 1) - 3 <= n + 1 /\ n + 1 <= NewYear(iso + 1) + 3
    BY <1>1, <2>1, IsoMondayIs
  <2>3. /\ NewYear(iso) \in Int /\ NewYear(iso + 1) \in Int /\ NewYear((iso + 1) + 1) \in Int
        /\ NewYear(iso) + 365 <= NewYear(iso + 1)
        /\ NewYear(iso + 1) + 365 <= NewYear((iso + 1) + 1)
    <3>1. /\ NewYear(iso) \in Int /\ NewYear(iso + 1) \in Int /\ NewYear((iso + 1) + 1) \in Int
      BY <1>1, NewYearIs
    <3>. QED
      BY <3>1, <1>1, NewYearsFollow
  <2>4. CASE NewYear(iso + 1) <= n + 1
    <3>1. y = iso + 1
      BY <1>1, <2>4, <2>2, <2>3, YearIsUnique
    <3>. QED
      BY <1>5, <1>6, <1>9, <2>2, <3>1
  <2>5. CASE ~ (NewYear(iso + 1) <= n + 1)
    <3>1. NewYear(iso) <= n + 1 /\ n + 1 < NewYear(iso + 1)
      BY <1>1, <2>2, <2>3, <2>5
    <3>. QED
      BY <1>5, <1>6, <1>9, <2>2, <1>1, <3>1, YearIsUnique
  <2>. QED
    BY <2>4, <2>5
<1>. QED
  BY <1>8, <1>9

(* The months of Gregorian are as long as those of date.h. *)
LEMMA MonthLengthIs ==
  ASSUME NEW y \in Int, NEW m \in 1 .. 12
  PROVE  /\ Abstract!MonthLength(y, m) = LastDay(YearMonth(y, m))
         /\ m = 12 => LastDay(YearMonth(y, m)) = 31
<1>1. YearMonth(y, m).year = y /\ YearMonth(y, m).month = m
  BY DEF YearMonth
<1>2. IsLeap(y) <=> Abstract!IsLeapYear(y)
  BY DEF IsLeap, Abstract!IsLeapYear
<1>3. CASE m = 2
  BY <1>1, <1>2, <1>3 DEF LastDay, MonthDayLastOk, MonthOk, Abstract!MonthLength
<1>4. CASE m # 2
  <2>1. Abstract!MonthLength(y, m) = IF m \in {4, 6, 9, 11} THEN 30 ELSE 31
    BY <1>4 DEF Abstract!MonthLength
  <2>. QED
    BY <1>4, <1>1, <2>1, SMT DEF LastDay, MonthDayLastOk, MonthOk
<1>. QED
  BY <1>3, <1>4

(* What the clock shows for a day and for the next, from what it shows.     *)
LEMMA TomorrowIs ==
  ASSUME NEW n, NEW y, NEW m, NEW d, NEW iso, IsShown(n, y, m, d, iso),
         NEW yy, NEW mm, NEW dd, NEW next, IsShown(n + 1, yy, mm, dd, next)
  PROVE  Shown(n + 1) = Abstract!Tomorrow(Shown(n))
<1>. DEFINE last == LastDay(YearMonth(y, m))
            monday == (n + 1 + 4) % 7 = 1
            begins == Abstract!BeginsIsoYear(mm, dd)
<1>1. /\ n \in Int /\ y \in Int /\ m \in 1 .. 12 /\ d \in Int /\ 1 <= d /\ d <= last
      /\ yy \in Int /\ n + 1 \in Int /\ y + 1 \in Int
  BY DEF IsShown, IsDay
<1>2. IsDay(n, y, m, d) /\ InIsoYear(n, iso) /\ IsDay(n + 1, yy, mm, dd) /\ InIsoYear(n + 1, next)
  BY DEF IsShown
<1>3. /\ Abstract!MonthLength(y, m) = last
      /\ m = 12 => last = 31
      /\ last \in 28 .. 31
  <2>1. YearMonth(y, m).year = y /\ YearMonth(y, m).month = m
    BY DEF YearMonth
  <2>. QED
    BY <1>1, <2>1, MonthLengthIs, LastDayIs
<1>4. /\ d < last => yy = y /\ mm = m /\ dd = d + 1
      /\ d = last /\ m < 12 => yy = y /\ mm = m + 1 /\ dd = 1
      /\ d = last /\ m = 12 => yy = y + 1 /\ mm = 1 /\ dd = 1
  BY <1>2, NextDayIs, DayIsUnique
<1>. HIDE DEF last
<1>5. /\ yy = IF m = 12 /\ d = 31 THEN y + 1 ELSE y
      /\ mm = IF d = last THEN (m % 12) + 1 ELSE m
      /\ dd = IF d = last THEN 1 ELSE d + 1
  BY <1>1, <1>3, <1>4, SMT
<1>6. (n + 1 + 4) % 7 = (((n + 4) % 7) + 1) % 7
  BY <1>1, NextInWeek
<1>7. (n + 1) - NewYear(yy) + 1 = IF m = 12 /\ d = 31 THEN 1 ELSE n - NewYear(y) + 1 + 1
  <2>1. NewYear(y) \in Int /\ NewYear(y + 1) \in Int
    BY <1>1, NewYearIs
  <2>2. CASE m = 12 /\ d = 31
    <3>1. yy = y + 1 /\ mm = 1 /\ dd = 1
      BY <1>3, <1>4, <2>2
    <3>. QED
      BY <1>1, <2>1, <2>2, <3>1, <1>2, NewYearIs, SameDay
  <2>3. CASE ~ (m = 12 /\ d = 31)
    BY <1>1, <1>5, <2>1, <2>3
  <2>. QED
    BY <2>2, <2>3
<1>8. IF monday /\ begins THEN next = iso + 1 /\ n + 1 = IsoMonday(next) ELSE next = iso
  <2>1. IF IsMonday(n + 1) /\ begins THEN next = iso + 1 /\ n + 1 = IsoMonday(next) ELSE next = iso
    BY <1>1, <1>2, NextIsoYear
  <2>. QED
    BY <2>1 DEF IsMonday
<1>9. ((n + 1) - IsoMonday(next)) \div 7 + 1
        = CASE ~ monday -> (n - IsoMonday(iso)) \div 7 + 1
            [] monday /\ begins -> 1
            [] OTHER -> (n - IsoMonday(iso)) \div 7 + 1 + 1
  <2>1. /\ IsoMonday(iso) \in Int /\ IsoMonday(iso) % 7 = 4
        /\ IsoMonday(next) \in Int
    BY <1>2, IsoMondayIs DEF InIsoYear
  <2>2. PICK w \in Int : IsoMonday(iso) = 7 * w + 4
    BY <2>1
  <2>3. CASE monday /\ begins
    <3>. QED
      BY <2>3, <1>1, <1>8, <2>1
  <2>4. CASE monday /\ ~ begins
    <3>. QED
      BY <2>2, <2>4, <1>8, <1>1, NextWeek
  <2>5. CASE ~ monday
    <3>1. next = iso
      BY <1>8, <2>5
    <3>2. ((n + 1) - (7 * w + 4)) \div 7 = (n - (7 * w + 4)) \div 7
      <4>. QED
        BY <1>1, <2>5, NextWeek, SMT
    <3>. QED
      BY <2>2, <2>5, <3>1, <3>2
  <2>. QED
    BY <2>3, <2>4, <2>5
<1>10. /\ Shown(n) = [year |-> y, month |-> m, day |-> d,
                      weekday |-> (n + 4) % 7, dayOfYear |-> n - NewYear(y) + 1,
                      isoYear |-> iso, isoWeek |-> (n - IsoMonday(iso)) \div 7 + 1]
       /\ Shown(n + 1) = [year |-> yy, month |-> mm, day |-> dd,
                          weekday |-> (n + 1 + 4) % 7, dayOfYear |-> (n + 1) - NewYear(yy) + 1,
                          isoYear |-> next, isoWeek |-> ((n + 1) - IsoMonday(next)) \div 7 + 1]
  BY Zenon DEF IsShown
<1>. DEFINE today == Shown(n)
<1>11. /\ today.year = y /\ today.month = m /\ today.day = d /\ today.weekday = (n + 4) % 7
       /\ today.dayOfYear = n - NewYear(y) + 1
       /\ today.isoYear = iso /\ today.isoWeek = (n - IsoMonday(iso)) \div 7 + 1
  BY <1>10
<1>12. /\ Abstract!LastOfYear(today) <=> m = 12 /\ d = 31
       /\ Abstract!LastOfMonth(today) <=> d = last
  BY <1>3, <1>11 DEF Abstract!LastOfYear, Abstract!LastOfMonth
<1>13. Abstract!Tomorrow(today)
         = [year |-> yy, month |-> mm, day |-> dd, weekday |-> (n + 1 + 4) % 7,
            dayOfYear |-> (n + 1) - NewYear(yy) + 1,
            isoYear |-> IF monday /\ begins THEN iso + 1 ELSE iso,
            isoWeek |-> CASE ~ monday -> (n - IsoMonday(iso)) \div 7 + 1
                          [] monday /\ begins -> 1
                          [] OTHER -> (n - IsoMonday(iso)) \div 7 + 1 + 1]
  <2>. DEFINE year == IF Abstract!LastOfYear(today) THEN today.year + 1 ELSE today.year
              month == IF Abstract!LastOfMonth(today) THEN (today.month % 12) + 1 ELSE today.month
              day == IF Abstract!LastOfMonth(today) THEN 1 ELSE today.day + 1
              weekday == (today.weekday + 1) % 7
              ofYear == IF Abstract!LastOfYear(today) THEN 1 ELSE today.dayOfYear + 1
  <2>1. Abstract!Tomorrow(today)
          = [year |-> year, month |-> month, day |-> day, weekday |-> weekday, dayOfYear |-> ofYear,
             isoYear |-> IF weekday = 1 /\ Abstract!BeginsIsoYear(month, day)
                         THEN today.isoYear + 1 ELSE today.isoYear,
             isoWeek |-> CASE ~ (weekday = 1) -> today.isoWeek
                           [] weekday = 1 /\ Abstract!BeginsIsoYear(month, day) -> 1
                           [] OTHER -> today.isoWeek + 1]
    BY DEF Abstract!Tomorrow
  <2>2. year = yy /\ month = mm /\ day = dd
    BY <1>5, <1>11, <1>12
  <2>3. weekday = (n + 1 + 4) % 7
    BY <1>6, <1>11
  <2>4. ofYear = (n + 1) - NewYear(yy) + 1
    BY <1>7, <1>11, <1>12
  <2>. HIDE DEF year, month, day, weekday, ofYear
  <2>. QED
    BY <1>11, <2>1, <2>2, <2>3, <2>4, Zenon
<1>. QED
  BY <1>8, <1>9, <1>10, <1>13

-----------------------------------------------------------------------------
(* The clock *)

(* The days that the clock can show, and the day after each, are in the     *)
(* range.                                                                   *)
LEMMA BoundsFit ==
  ASSUME NEW n \in Int, FirstDay <= n, n <= FinalDay
  PROVE  InRange(n) /\ InRange(n + 1)
<1>1. PICK low \in Int, last \in Int, high \in Int :
        /\ low = LowYear /\ last = 32767 /\ high = HighYear
        /\ last - 1 = 32766 /\ (last - 1) + 1 = last /\ last - 1 \in Int /\ last < high
  BY SMT DEF LowYear, HighYear
<1>2. NewYear(low) <= n
  <2>1. ToDays(YearMonthDay(YearMonth(low, 1), 1)) <= FirstDay /\ FirstDay \in Int
    BY <1>1, BoundsAreDays, SMT DEF LowYear
  <2>2. YearMonthDay(YearMonth(low, 1), 1) = Date(low, 1, 1)
    BY DEF YearMonthDay, YearMonth, Date
  <2>. QED
    BY <2>1, <2>2, NewYearIs, SMT DEF NewYear
<1>3. n + 1 <= NewYear(last)
  <2>. DEFINE ymd == YearMonthDay(YearMonth(last - 1, 12), 31)
  <2>1. ymd.year = last - 1 /\ ymd.month = 12 /\ ymd.day = 31
    BY DEF YearMonthDay, YearMonth
  <2>2. IsDay(NewYear((last - 1) + 1) - 1, last - 1, 12, 31)
    BY <1>1, NewYearsEve
  <2>. QED
    BY <1>1, BoundsAreDays, <2>1, <2>2, ToDaysOf, NewYearIs, SMT
<1>4. NewYear(low) \in Int /\ NewYear(last) \in Int /\ NewYear(high) \in Int
  BY NewYearIs
<1>5. /\ NewYear(low) <= n /\ n + 3 < NewYear(high)
      /\ NewYear(low) <= n + 1 /\ n + 1 + 3 < NewYear(high)
  BY <1>2, <1>3, <1>1, NewYearsFollow, <1>4, SMT
<1>. QED
  BY <1>1, <1>5 DEF InRange

(* The epoch is the day that Gregorian begins with. *)
LEMMA ShownEpoch ==
  Shown(0) = Epoch
<1>1. InRange(0)
  BY BoundsAreDays, BoundsFit, SMT
<1>2. PICK y, m, d, iso : IsShown(0, y, m, d, iso)
  BY <1>1, ShownIs
<1>3. PICK e \in Int, b \in Int : e = 1970 /\ b = 1969 /\ b = e - 1 /\ e + 1 = 1971
  BY SMT
<1>4. NewYear(e) = 0
  <2>1. NewYear(e) \in Int /\ FromMarch(NewYear(e)) = Before(e - 1) + 306
    BY NewYearIs
  <2>. QED
    BY <1>3, <2>1, SMT DEF Before, FromMarch
<1>5. NewYear(e + 1) = 365
  <2>. QED
    BY <1>3, NewYearIs, SMT DEF Before, FromMarch
<1>6. IsoMonday(e) = -3 /\ IsoMonday(e + 1) = 368
  <2>1. PICK j \in Int, k \in Int, w \in Int, v \in Int :
          /\ j = NewYear(e) /\ w = (j - 1) \div 7
          /\ k = NewYear(e + 1) /\ v = (k - 1) \div 7
    BY <1>4, <1>5, SMT
  <2>2. 7 * w <= j - 1 /\ j - 1 <= 7 * w + 6 /\ 7 * v <= k - 1 /\ k - 1 <= 7 * v + 6
    BY <2>1, SMT
  <2>3. IsoMonday(e) = 7 * w + 4 /\ IsoMonday(e + 1) = 7 * v + 4
    BY <2>1, Zenon DEF IsoMonday
  <2>. QED
    BY <1>4, <1>5, <2>1, <2>2, <2>3, SMT
<1>7. InIsoYear(0, e)
  BY <1>6, SMT DEF InIsoYear
<1>8. y = e /\ m = 1 /\ d = 1 /\ iso = e
  <2>. QED
    BY <1>7, <1>4, NewYearIs, <1>2, DayIsUnique, IsoYearIsUnique DEF IsShown
<1>9. Shown(0) = [year |-> e, month |-> 1, day |-> 1,
                 weekday |-> (0 + 4) % 7, dayOfYear |-> 0 - NewYear(e) + 1,
                 isoYear |-> e, isoWeek |-> (0 - IsoMonday(e)) \div 7 + 1]
  BY <1>2, <1>8, Zenon DEF IsShown
<1>. QED
  BY <1>3, <1>4, <1>6, <1>9, SMT DEF Epoch

(* The inductive invariant.                                                 *)
IndInv ==
  /\ now \in Int /\ FirstDay <= now /\ now <= FinalDay
  /\ shown = Shown(now)

(* The day stays between the bounds, and what is shown is computed from it. *)
THEOREM Invariance == Spec => []IndInv
<1>1. Init => IndInv
  BY BoundsAreDays, SMT DEF Init, IndInv
<1>2. IndInv /\ [Next]_vars => IndInv'
  BY BoundsAreDays, SMT DEF IndInv, Next, NextDay, PreviousDay, vars
<1>. QED
  BY <1>1, <1>2, PTL DEF Spec

(* What date.h computes for the day after is the tomorrow of what it        *)
(* computes for the day.                                                    *)
LEMMA DaysFollow ==
  ASSUME NEW n \in Int, InRange(n), InRange(n + 1)
  PROVE  Shown(n + 1) = Abstract!Tomorrow(Shown(n))
<1>1. PICK y, m, d, iso : IsShown(n, y, m, d, iso)
  BY ShownIs
<1>2. PICK yy, mm, dd, next : IsShown(n + 1, yy, mm, dd, next)
  BY ShownIs
<1>. QED
  BY <1>1, <1>2, TomorrowIs

(* The dates that date.h computes for days one after another are those of   *)
(* the Gregorian calendar, in any range of days between the years -32766    *)
(* and 32766, where neither a year nor an ISO year wraps around.            *)
THEOREM Implementation == Spec => ImplementsGregorian
<1>1. Init => Abstract!Init
  BY ShownEpoch DEF Init, Abstract!Init
<1>2. IndInv /\ [Next]_vars => [Abstract!Next]_shown
  <2>. SUFFICES ASSUME IndInv, [Next]_vars
                PROVE  [Abstract!Next]_shown
    OBVIOUS
  <2>1. CASE NextDay
    <3>. QED
      BY <2>1, BoundsFit, DaysFollow DEF IndInv, NextDay, Abstract!Next,
           Abstract!NextDay
  <2>2. CASE PreviousDay
    <3>1. now - 1 \in Int /\ FirstDay <= now - 1 /\ now - 1 <= FinalDay /\ (now - 1) + 1 = now
      BY <2>2, BoundsAreDays, SMT DEF IndInv, PreviousDay
    <3>. QED
      BY <2>2, <3>1, BoundsFit, DaysFollow DEF IndInv, PreviousDay, Abstract!Next,
           Abstract!PreviousDay
  <2>3. CASE UNCHANGED vars
    BY <2>3 DEF vars
  <2>. QED
    BY <2>1, <2>2, <2>3 DEF Next
<1>. QED
  BY <1>1, <1>2, Invariance, PTL DEF Spec, ImplementsGregorian, Abstract!Spec

-----------------------------------------------------------------------------
(* The weekdays after the same weekday.                                     *)
InWeek(days) == days % 7

(* The month has an ith such weekday, the first of which is r days from its  *)
(* first day.                                                                *)
InMonth(i, r, size) == i >= 1 /\ (i <= 4 \/ r + (i - 1) * 7 + 1 <= size)

(* The ith weekday of a month is that many weeks after the first one, and   *)
(* exists if that is in the month.                                          *)
LEMMA WeekdayToDaysIs ==
  ASSUME NEW ymwd, NEW first, IsDay(first, ymwd.year, ymwd.month, 1),
         NEW w \in Int, ymwd.wdi.weekday = WeekdayFromDays(w)
  PROVE  /\ WeekdayToDays(ymwd) = first + InWeek(w - first) + (ymwd.wdi.index - 1) * 7
         /\ YearMonthWeekdayOk(ymwd) <=>
              /\ YearOk(ymwd.year)
              /\ InMonth(ymwd.wdi.index, InWeek(w - first), LastDay(YearMonth(ymwd.year, ymwd.month)))
<1>. DEFINE ymd == YearMonthDay(ymwd, Day(1))
<1>1. ymwd.year \in Int /\ ymwd.month \in 1 .. 12 /\ first \in Int
  BY DEF IsDay
<1>2. ToDays(ymd) = first
  BY ToDaysOf, SMT DEF Day, YearMonthDay
<1>3. WeekdayMinus(ymwd.wdi.weekday, WeekdayFromDays(ToDays(ymd))) = InWeek(w - first)
  BY <1>1, <1>2, WeekdayMinusIs DEF InWeek
<1>4. LastDay(ymwd) = LastDay(YearMonth(ymwd.year, ymwd.month))
  BY <1>1, LastDayIs
<1>5. MonthOk(ymwd.month) /\ WeekdayOk(Weekday(WeekdayFromDays(w)))
  <2>1. PICK v \in 0 .. 6 : WeekdayFromDays(w) = v
    BY WeekdayIs
  <2>. QED
    BY <2>1, <1>1, SMT DEF MonthOk, WeekdayOk, Weekday
<1>6. YearMonthWeekdayOk(ymwd) <=>
        /\ YearOk(ymwd.year)
        /\ InMonth(ymwd.wdi.index, InWeek(w - first), LastDay(YearMonth(ymwd.year, ymwd.month)))
  BY <1>3, <1>4, <1>5, Zenon DEF YearMonthWeekdayOk, InMonth
<1>. QED
  BY <1>2, <1>3, <1>6 DEF WeekdayToDays

(* The last such weekday of a month is less than a week before its last     *)
(* day.                                                                     *)
LEMMA WeekdayLastIs ==
  ASSUME NEW n, NEW y, NEW m, NEW d, IsDay(n, y, m, d), NEW w \in Int,
         NEW ym, ym.year = y, ym.month = m
  PROVE  LET last == n + LastDay(YearMonth(y, m)) - d
         IN  /\ YearMonthDayLastToDays(ym) = last
             /\ WeekdayLastToDays(ym, WeekdayFromDays(w)) = last - InWeek(last - w)
<1>. DEFINE size == LastDay(YearMonth(y, m))
            last == n + size - d
            ymd == YearMonthDay(ym, LastDay(ym))
<1>1. y \in Int /\ m \in 1 .. 12 /\ n \in Int /\ d \in Int
  BY DEF IsDay
<1>2. LastDay(ym) = size
  BY <1>1, LastDayIs
<1>3. size \in 28 .. 31
  BY <1>1, <1>2, LastDayIs
<1>4. IsDay(last, y, m, size)
  BY <1>3, SameMonth
<1>5. last \in Int
  BY <1>4 DEF IsDay
<1>6. WeekdayMinus(WeekdayFromDays(last), WeekdayFromDays(w)) = InWeek(last - w)
  BY <1>5, WeekdayMinusIs DEF InWeek
<1>. HIDE DEF last
<1>. QED
  BY <1>2, <1>4, ToDaysOf, <1>6 DEF YearMonthDay, YearMonthDayLastToDays,
       WeekdayLastToDays, last

(* A day is the ith of its weekday in the month, for an i that fits in four *)
(* bits.                                                                    *)
LEMMA WeekdayOfDaysIs ==
  ASSUME NEW n, NEW y, NEW m, NEW d, IsDay(n, y, m, d), Fits(y)
  PROVE  LET ymwd == WeekdayOfDays(n)
         IN  /\ ymwd = [year |-> y, month |-> m,
                        wdi |-> [weekday |-> WeekdayFromDays(n), index |-> (d - 1) \div 7 + 1]]
             /\ d \in 1 .. 31 /\ (d - 1) \div 7 + 1 \in 1 .. 5
<1>1. y \in Int /\ m \in 1 .. 12 /\ n \in Int /\ d \in Int /\ 1 <= d /\ d <= LastDay(YearMonth(y, m))
  BY DEF IsDay
<1>2. LastDay(YearMonth(y, m)) \in 28 .. 31
  <2>. QED
    BY <1>1, LastDayIs DEF YearMonth
<1>3. d \in 1 .. 31
  BY <1>1, <1>2
<1>4. PICK v \in 0 .. 6, i \in 1 .. 5 : v = WeekdayFromDays(n) /\ i = (d - 1) \div 7 + 1
  <2>. QED
    BY <1>1, <1>3, WeekdayIs, SMT
<1>5. WeekdayIndexed(v, i) = [weekday |-> v, index |-> i]
  BY SMT DEF WeekdayIndexed
<1>6. FromDays(n).year = y /\ FromDays(n).month = m /\ FromDays(n).day = d
  BY FromDaysIs DEF Date
<1>7. WeekdayOfDays(n) = YearMonthWeekday(FromDays(n), WeekdayIndexed(v, i))
  BY <1>4, <1>6, Zenon DEF WeekdayOfDays
<1>. QED
  BY <1>3, <1>4, <1>5, <1>6, <1>7 DEF YearMonthWeekday

(* The nth weekday of a month leads back to the day it was taken from. *)
LEMMA WeekdayRoundTrip ==
  ASSUME NEW n, NEW y, NEW m, NEW d, IsDay(n, y, m, d), Fits(y), YearOk(y)
  PROVE  LET ymwd == WeekdayOfDays(n)
         IN  /\ YearMonthWeekdayOk(ymwd) /\ WeekdayToDays(ymwd) = n
             /\ MonthWeekdayOk(ymwd.month, ymwd.wdi)
             /\ YearMonthWeekdayOk([ymwd EXCEPT !.wdi.index = @ + 1]) <=>
                  d + 7 <= LastDay(YearMonth(y, m))
<1>. DEFINE ymwd == WeekdayOfDays(n)
            after == [ymwd EXCEPT !.wdi.index = @ + 1]
<1>1. /\ y \in Int /\ m \in 1 .. 12 /\ n \in Int /\ d \in Int /\ 1 <= d
      /\ d <= LastDay(YearMonth(y, m))
  BY DEF IsDay
<1>2. PICK i \in 1 .. 5 :
        /\ i = (d - 1) \div 7 + 1
        /\ ymwd = [year |-> y, month |-> m, wdi |-> [weekday |-> WeekdayFromDays(n), index |-> i]]
        /\ d \in 1 .. 31
  BY WeekdayOfDaysIs
<1>3. PICK first \in Int, r \in 0 .. 6, last \in 28 .. 31 :
        /\ first = n + 1 - d /\ r = (d - 1) % 7 /\ last = LastDay(YearMonth(y, m))
  <2>1. LastDay(YearMonth(y, m)) \in 28 .. 31
    <3>. QED
      BY <1>1, LastDayIs DEF YearMonth
  <2>. QED
    BY <1>1, <2>1, SMT
<1>4. IsDay(first, y, m, 1)
  <2>. QED
    BY <1>3, <1>1, SameMonth
<1>5. InWeek(n - first) = r /\ d = 7 * (i - 1) + r + 1
  <2>. QED
    BY <1>3, <1>1, <1>2, SMT DEF InWeek
<1>6. /\ ymwd.year = y /\ ymwd.month = m
      /\ ymwd.wdi.weekday = WeekdayFromDays(n) /\ ymwd.wdi.index = i
      /\ after.year = y /\ after.month = m
      /\ after.wdi.weekday = WeekdayFromDays(n) /\ after.wdi.index = i + 1
  BY <1>2
<1>. HIDE DEF ymwd, after
<1>7. WeekdayToDays(ymwd) = n
  <2>1. WeekdayToDays(ymwd) = first + InWeek(n - first) + (i - 1) * 7
    BY <1>1, <1>4, <1>6, WeekdayToDaysIs, Zenon
  <2>. QED
    BY <1>5, <2>1, <1>1, <1>3
<1>8. YearMonthWeekdayOk(ymwd)
  <2>1. YearMonthWeekdayOk(ymwd) <=>
          YearOk(y) /\ InMonth(i, InWeek(n - first), LastDay(YearMonth(y, m)))
    BY <1>1, <1>4, <1>6, WeekdayToDaysIs, Zenon
  <2>. QED
    BY <1>3, <1>5, <2>1, <1>1 DEF InMonth
<1>9. YearMonthWeekdayOk(after) <=> d + 7 <= last
  <2>1. YearMonthWeekdayOk(after) <=>
          YearOk(y) /\ InMonth(i + 1, InWeek(n - first), LastDay(YearMonth(y, m)))
    BY <1>1, <1>4, <1>6, WeekdayToDaysIs, Zenon
  <2>. QED
    BY <1>1, <1>3, <1>5, <2>1 DEF InMonth
<1>10. MonthWeekdayOk(ymwd.month, ymwd.wdi)
  <2>1. PICK v \in 0 .. 6 : WeekdayFromDays(n) = v
    BY <1>1, WeekdayIs
  <2>. QED
    BY <1>1, <1>6, <2>1, SMT DEF MonthWeekdayOk, MonthOk, WeekdayIndexedOk, WeekdayOk, Weekday
<1>. QED
  BY <1>3, <1>7, <1>8, <1>9, <1>10 DEF ymwd, after

(* Weeks that are counted from the first weekday w of a year, for a Sunday   *)
(* and for a Monday.                                                         *)
LEMMA WeekArithmetic ==
  ASSUME NEW n \in Int, NEW j \in Int, j <= n, NEW w \in 3 .. 4
  PROVE  LET start == j + ((w - j) % 7)
         IN  (IF n < start THEN 0 ELSE (n - start) \div 7 + 1)
               = (n - j + 1 + 6 - ((n + 7 - w) % 7)) \div 7
<1>1. PICK k \in Int, r \in 0 .. 6, a \in Int, b \in 0 .. 6 :
        n = 7 * k + r /\ j = 7 * a + b
  <2>1. PICK k \in Int, r \in 0 .. 6, a \in Int, b \in 0 .. 6 :
          k = n \div 7 /\ r = n % 7 /\ a = j \div 7 /\ b = j % 7
    BY SMT
  <2>. QED
    BY <2>1, SMT
<1>2. PICK v \in Int : v = k - a
  OBVIOUS
<1>3. PICK s \in 0 .. 6 : s = (w - b) % 7
  BY SMT
<1>4. PICK u \in 0 .. 6 : u = (r + 7 - w) % 7
  BY SMT
<1>5. (w - j) % 7 = s /\ (n + 7 - w) % 7 = u
  <2>. QED
    BY <1>1, <1>3, <1>4, SMT
<1>6. /\ n - (j + s) = 7 * v + (r - b - s)
      /\ n - j + 1 + 6 - u = 7 * v + (r - b + 7 - u)
      /\ 0 <= 7 * v + (r - b)
  BY <1>1, <1>2, SMT
<1>7. PICK x \in Int : x = (7 * v + (r - b - s)) \div 7
  BY SMT
<1>8. PICK z \in Int : z = (7 * v + (r - b + 7 - u)) \div 7
  BY SMT
<1>9. (n - (j + s)) \div 7 = x /\ (n - j + 1 + 6 - u) \div 7 = z
  BY <1>6, <1>7, <1>8, Zenon
<1>10. (IF n < j + s THEN 0 ELSE (n - (j + s)) \div 7 + 1) = (n - j + 1 + 6 - u) \div 7
  BY <1>6, <1>3, <1>4, <1>7, <1>8, <1>9, SMT
<1>. QED
  BY <1>5, <1>10

(* %U and %W count the Sundays, or the Mondays, of the year up to the day. *)
LEMMA WeekOfYearIs ==
  ASSUME NEW n, NEW y, NEW m, NEW d, IsDay(n, y, m, d), Fits(y)
  PROVE  /\ WeekOfYear(n, 0) = (n - NewYear(y) + 1 + 6 - ((n + 4) % 7)) \div 7
         /\ WeekOfYear(n, 1) = (n - NewYear(y) + 1 + 6 - ((((n + 4) % 7) + 6) % 7)) \div 7
<1>1. n \in Int /\ y \in Int
  BY DEF IsDay
<1>2. PICK j \in Int : j = NewYear(y) /\ j <= n /\ IsDay(j, y, 1, 1)
  BY <1>1, InYear, NewYearIs
<1>3. FromDays(n).year = y
  <2>1. FromDays(n) = Date(y, m, d)
    BY FromDaysIs
  <2>. QED
    BY <2>1 DEF Date
<1>4. ASSUME NEW wd \in 0 .. 1
      PROVE  WeekOfYear(n, wd) = (n - j + 1 + 6 - ((n + 7 - (wd + 3)) % 7)) \div 7
  <2>. DEFINE first == YearMonthWeekday(YearMonth(y, 1), WeekdayIndexed(wd, 1))
              start == j + ((wd + 3 - j) % 7)
  <2>1. first = [year |-> y, month |-> 1, wdi |-> [weekday |-> wd, index |-> 1]]
    <3>1. wd % 16 = wd /\ 1 % 16 = 1
      BY SMT
    <3>. QED
      BY <3>1 DEF YearMonthWeekday, YearMonth, WeekdayIndexed
  <2>2. WeekdayFromDays(wd + 3) = wd
    BY SMT DEF WeekdayFromDays
  <2>3. WeekdayToDays(first) = start
    <3>1. /\ first.year = y /\ first.month = 1
          /\ first.wdi.weekday = wd /\ first.wdi.index = 1
      BY <2>1
    <3>. HIDE DEF first
    <3>2. wd + 3 \in Int
      OBVIOUS
    <3>3. WeekdayToDays(first) = j + InWeek(wd + 3 - j) + (first.wdi.index - 1) * 7
      BY <1>2, <2>2, <3>1, <3>2, WeekdayToDaysIs
    <3>4. PICK r \in Int : r = (wd + 3 - j) % 7
      BY <1>2, SMT
    <3>5. j + r + (1 - 1) * 7 = j + r
      BY SMT
    <3>. QED
      BY <3>4, <3>1, <3>3, <3>5, Zenon DEF InWeek
  <2>4. WeekOfYear(n, wd) = IF n < start THEN 0 ELSE Quotient(n - start, 7) + 1
    BY <1>3, <2>3, Zenon DEF WeekOfYear
  <2>5. start \in Int
    BY <1>2, SMT
  <2>6. WeekOfYear(n, wd) = IF n < start THEN 0 ELSE (n - start) \div 7 + 1
    <3>. HIDE DEF start
    <3>. QED
      BY <1>1, <2>4, <2>5 DEF Quotient
  <2>7. PICK w \in 3 .. 4 : w = wd + 3
    OBVIOUS
  <2>8. (IF n < j + ((w - j) % 7) THEN 0 ELSE (n - (j + ((w - j) % 7))) \div 7 + 1)
          = (n - j + 1 + 6 - ((n + 7 - w) % 7)) \div 7
    BY <1>1, <1>2, WeekArithmetic
  <2>. QED
    BY <2>6, <2>7, <2>8
<1>5. (n + 7 - (0 + 3)) % 7 = (n + 4) % 7 /\ (n + 7 - (1 + 3)) % 7 = (((n + 4) % 7) + 6) % 7
  <2>1. PICK k \in Int, r \in 0 .. 6 : k = n \div 7 /\ r = n % 7
    BY <1>1, SMT
  <2>2. /\ (7 * k + r + 4) % 7 = (r + 4) % 7
        /\ (7 * k + r + 3) % 7 = (r + 3) % 7
        /\ (r + 3) % 7 = (((r + 4) % 7) + 6) % 7
    BY SMT
  <2>. QED
    BY <2>2, <1>1, <2>1, SMT
<1>6. /\ WeekOfYear(n, 0) = (n - j + 1 + 6 - ((n + 7 - (0 + 3)) % 7)) \div 7
      /\ WeekOfYear(n, 1) = (n - j + 1 + 6 - ((n + 7 - (1 + 3)) % 7)) \div 7
  <2>1. 0 \in 0 .. 1 /\ 1 \in 0 .. 1
    OBVIOUS
  <2>. QED
    BY <1>4, <2>1, Zenon
<1>. QED
  BY <1>2, <1>5, <1>6, SMT

-----------------------------------------------------------------------------
(* RepresentationsAgree, one type of date after the other *)

(* What a day shows, in the terms of the lemmas. *)
LEMMA ShownFields ==
  ASSUME NEW n, NEW y, NEW m, NEW d, NEW iso, IsShown(n, y, m, d, iso)
  PROVE  /\ IsDay(n, y, m, d) /\ Fits(y) /\ YearOk(y) /\ n \in Int
         /\ Shown(n).year = y /\ Shown(n).month = m /\ Shown(n).day = d
         /\ Shown(n).weekday = (n + 4) % 7
         /\ Shown(n).dayOfYear = n - NewYear(y) + 1
         /\ YearMonthDay(Shown(n), Shown(n).day) = Date(y, m, d)
         /\ FromDays(n) = Date(y, m, d)
         /\ WeekdayFromDays(n) = (n + 4) % 7
<1>1. IsDay(n, y, m, d) /\ Fits(y) /\ YearOk(y)
  BY DEF IsShown
<1>2. n \in Int
  BY <1>1 DEF IsDay
<1>3. /\ Shown(n).year = y /\ Shown(n).month = m /\ Shown(n).day = d
      /\ Shown(n).weekday = (n + 4) % 7
      /\ Shown(n).dayOfYear = n - NewYear(y) + 1
  BY DEF IsShown
<1>4. YearMonthDay(Shown(n), Shown(n).day) = Date(y, m, d)
  BY <1>3 DEF YearMonthDay, Date
<1>. QED
  BY <1>1, <1>2, <1>3, <1>4, FromDaysIs, WeekdayIs

(* A day is a valid date, and the date leads back to it. *)
LEMMA DateRoundTrip ==
  ASSUME NEW n, NEW y, NEW m, NEW d, IsDay(n, y, m, d), Fits(y), YearOk(y)
  PROVE  /\ YearMonthDayOk(Date(y, m, d)) /\ ToDays(Date(y, m, d)) = n
         /\ MonthDayOk(MonthDay(m, d))
         /\ YearMonthDayLastOk(Date(y, m, d))
         /\ LastDay(Date(y, m, d)) = LastDay(YearMonth(y, m))
<1>1. /\ y \in Int /\ m \in 1 .. 12 /\ d \in Int /\ 1 <= d /\ d <= LastDay(YearMonth(y, m))
  BY DEF IsDay
<1>2. MonthOk(m)
  BY <1>1 DEF MonthOk
<1>3. MonthDayOk(MonthDay(m, d))
  <2>1. d <= <<31, 29, 31, 30, 31, 30, 31, 31, 30, 31, 30, 31>>[m]
    <3>1. YearMonth(y, m).year = y /\ YearMonth(y, m).month = m
      BY DEF YearMonth
    <3>2. CASE m = 2
      <4>. QED
        BY <1>1, <3>2, <3>1 DEF LastDay, MonthDayLastOk, MonthOk
    <3>3. CASE m # 2
      <4>1. LastDay(YearMonth(y, m)) = <<31, 28, 31, 30, 31, 30, 31, 31, 30, 31, 30, 31>>[m]
        BY <3>1, <3>3, <1>1 DEF LastDay, MonthDayLastOk, MonthOk
      <4>2. <<31, 29, 31, 30, 31, 30, 31, 31, 30, 31, 30, 31>>[m]
              = <<31, 28, 31, 30, 31, 30, 31, 31, 30, 31, 30, 31>>[m]
        BY <1>1, <3>3, SMT
      <4>. QED
        BY <1>1, <4>1, <4>2
    <3>. QED
      BY <3>2, <3>3
  <2>. QED
    BY <1>1, <1>2, <2>1 DEF MonthDay, MonthDayOk
<1>. QED
  BY <1>1, LastDayIs, <1>3, <1>2, ToDaysOf DEF Date, YearMonthDayOk,
       YearMonthDayLastOk, MonthDayLastOk

(* The weekdays that are left in a month. *)
LEMMA LastWeekdays ==
  ASSUME NEW n, NEW y, NEW m, NEW d, IsDay(n, y, m, d)
  PROVE  LET ymd == Date(y, m, d)
             end == YearMonthDayLastToDays(ymd)
             lastOne == WeekdayLastToDays(ymd, WeekdayFromDays(n))
             size == LastDay(YearMonth(y, m))
         IN  /\ (end = n) <=> (d = size)
             /\ lastOne - n \in {7 * k : k \in 0 .. 4}
             /\ lastOne \in end - 6 .. end
             /\ (lastOne = n) <=> ~ (d + 7 <= size)
             /\ MonthWeekdayLastOk(m, WeekdayFromDays(n))
<1>. DEFINE ymd == Date(y, m, d)
            end == YearMonthDayLastToDays(ymd)
            lastOne == WeekdayLastToDays(ymd, WeekdayFromDays(n))
<1>1. /\ n \in Int /\ y \in Int /\ m \in 1 .. 12 /\ d \in Int
      /\ 1 <= d /\ d <= LastDay(YearMonth(y, m))
  BY DEF IsDay
<1>2. ymd.year = y /\ ymd.month = m
  BY DEF Date
<1>3. PICK size \in 28 .. 31 : size = LastDay(YearMonth(y, m))
  <2>1. YearMonth(y, m).year = y /\ YearMonth(y, m).month = m
    BY DEF YearMonth
  <2>. QED
    BY <1>1, <2>1, LastDayIs
<1>4. end = n + size - d /\ lastOne = (n + size - d) - InWeek((n + size - d) - n)
  BY <1>1, <1>2, <1>3, WeekdayLastIs
<1>5. PICK e \in 0 .. 30 : e = size - d /\ n + size - d = n + e /\ (n + size - d) - n = e
  <2>1. size - d \in 0 .. 30
    BY <1>1, <1>3
  <2>. QED
    BY <1>1, <2>1, SMT
<1>6. PICK k \in 0 .. 4, r \in 0 .. 6 : e = 7 * k + r /\ InWeek(e) = r
  <2>. QED
    BY SMT DEF InWeek
<1>7. end = n + e /\ lastOne = n + 7 * k /\ lastOne = end - r
  <2>1. end = n + e /\ lastOne = (n + e) - r
    BY <1>4, <1>5, <1>6, Zenon
  <2>. QED
    BY <1>1, <1>6, <2>1, SMT
<1>. HIDE DEF end, lastOne
<1>8. (end = n) <=> (d = size)
  <2>1. (e = 0) <=> (d = size)
    <3>1. size \in Int /\ d \in Int
      BY <1>1, <1>3
    <3>. QED
      BY <1>5, <3>1
  <2>. QED
    BY <1>1, <1>5, <1>7, <2>1
<1>9. lastOne - n \in {7 * i : i \in 0 .. 4}
  <2>. QED
    BY <1>1, <1>7
<1>10. lastOne \in end - 6 .. end
  BY <1>1, <1>6, <1>7
<1>11. (lastOne = n) <=> ~ (d + 7 <= size)
  BY <1>1, <1>3, <1>5, <1>6, <1>7
<1>12. MonthWeekdayLastOk(m, WeekdayFromDays(n))
  <2>. QED
    BY <1>1, WeekdayIs DEF MonthWeekdayLastOk, MonthOk, WeekdayOk
<1>. QED
  BY <1>3, <1>8, <1>9, <1>10, <1>11, <1>12 DEF end, lastOne

(* The day after is later in every type. *)
LEMMA NextIsLater ==
  ASSUME NEW n, NEW y, NEW m, NEW d, IsDay(n, y, m, d),
         NEW yy, NEW mm, NEW dd, IsDay(n + 1, yy, mm, dd)
  PROVE  LET ymd == Date(y, m, d)
             next == Date(yy, mm, dd)
         IN  /\ YearMonthDayLess(ymd, next) /\ ~ YearMonthDayLess(next, ymd)
             /\ (d = LastDay(YearMonth(y, m))) <=> YearMonthLess(ymd, next)
             /\ MonthDayLess(next, ymd) <=> (DayOfYear(next) = 1)
<1>. DEFINE ymd == Date(y, m, d)
            next == Date(yy, mm, dd)
<1>1. /\ n \in Int /\ y \in Int /\ m \in 1 .. 12 /\ d \in Int
      /\ 1 <= d /\ d <= LastDay(YearMonth(y, m)) /\ y + 1 \in Int
  BY DEF IsDay
<1>2. PICK last \in 28 .. 31 : last = LastDay(YearMonth(y, m))
  <2>1. YearMonth(y, m).year = y /\ YearMonth(y, m).month = m
    BY DEF YearMonth
  <2>. QED
    BY <1>1, <2>1, LastDayIs
<1>3. /\ d < last => yy = y /\ mm = m /\ dd = d + 1
      /\ d = last /\ m < 12 => yy = y /\ mm = m + 1 /\ dd = 1
      /\ d = last /\ m = 12 => yy = y + 1 /\ mm = 1 /\ dd = 1
  BY <1>2, NextDayIs, DayIsUnique
<1>4. /\ ymd.year = y /\ ymd.month = m /\ ymd.day = d
      /\ next.year = yy /\ next.month = mm /\ next.day = dd
  BY DEF Date
<1>5. DayOfYear(next) = (n + 1) - NewYear(yy) + 1
  BY <1>4, DayOfYearIs
<1>6. NewYear(y) \in Int /\ NewYear(y + 1) \in Int /\ NewYear(y) <= n
  BY <1>1, InYear, NewYearIs
<1>. HIDE DEF ymd, next
<1>7. CASE d < last
  BY <1>1, <1>2, <1>3, <1>4, <1>5, <1>6, <1>7 DEF YearMonthDayLess, YearMonthLess, MonthDayLess, ymd, next
<1>8. CASE d = last /\ m < 12
  BY <1>1, <1>2, <1>3, <1>4, <1>5, <1>6, <1>8 DEF YearMonthDayLess, YearMonthLess, MonthDayLess, ymd, next
<1>9. CASE d = last /\ m = 12
  <2>1. n + 1 = NewYear(y + 1)
    <3>1. IsDay(n + 1, y + 1, 1, 1)
      BY <1>3, <1>9
    <3>. QED
      BY <1>1, <3>1, NewYearIs, SameDay
  <2>2. DayOfYear(next) = 1
    BY <1>1, <1>3, <1>5, <1>6, <1>9, <2>1
  <2>. QED
    BY <1>1, <1>2, <1>3, <1>4, <1>9, <2>2 DEF YearMonthDayLess, YearMonthLess, MonthDayLess, ymd, next
<1>. QED
  BY <1>1, <1>2, <1>7, <1>8, <1>9

(* What a day is in one type it is in all of them. *)
LEMMA TypesAgree ==
  ASSUME IndInv
  PROVE  RepresentationsAgree
<1>1. InRange(now) /\ InRange(now + 1) /\ shown = Shown(now) /\ now \in Int
  BY BoundsFit DEF IndInv
<1>2. PICK y, m, d, iso : IsShown(now, y, m, d, iso)
  BY <1>1, ShownIs
<1>3. PICK yy, mm, dd, next : IsShown(now + 1, yy, mm, dd, next)
  BY <1>1, ShownIs
<1>. DEFINE ymd == YearMonthDay(shown, shown.day)
            ymwd == WeekdayOfDays(now)
            last == ymd.day = LastDay(ymd)
            wd == shown.weekday
            size == LastDay(YearMonth(y, m))
<1>4. /\ IsDay(now, y, m, d) /\ Fits(y) /\ YearOk(y)
      /\ shown.day = d /\ ymd = Date(y, m, d)
      /\ wd = (now + 4) % 7 /\ wd = WeekdayFromDays(now)
      /\ shown.dayOfYear = now - NewYear(y) + 1
  BY <1>1, <1>2, ShownFields
<1>5. ymd.year = y /\ ymd.month = m /\ ymd.day = d
  BY <1>4 DEF Date
<1>6. ymwd.month = m
  BY <1>4, WeekdayOfDaysIs
<1>. HIDE DEF ymd, ymwd, wd, size
<1>7. /\ YearMonthDayOk(ymd) /\ ToDays(ymd) = now
      /\ MonthDayOk(MonthDay(ymd.month, ymd.day))
      /\ YearMonthDayLastOk(ymd) /\ LastDay(ymd) = size
  BY <1>4, <1>5, DateRoundTrip DEF size
<1>8. /\ YearMonthWeekdayOk(ymwd) /\ WeekdayToDays(ymwd) = now
      /\ MonthWeekdayOk(ymwd.month, ymwd.wdi)
      /\ YearMonthWeekdayOk([ymwd EXCEPT !.wdi.index = @ + 1]) <=> (d + 7 <= size)
  BY <1>4, WeekdayRoundTrip DEF ymwd, size
<1>9. /\ (YearMonthDayLastToDays(ymd) = now) <=> (d = size)
      /\ WeekdayLastToDays(ymd, wd) - now \in {7 * k : k \in 0 .. 4}
      /\ WeekdayLastToDays(ymd, wd) \in YearMonthDayLastToDays(ymd) - 6 .. YearMonthDayLastToDays(ymd)
      /\ (WeekdayLastToDays(ymd, wd) = now) <=> ~ (d + 7 <= size)
      /\ MonthWeekdayLastOk(m, wd)
  BY <1>4, LastWeekdays DEF size
<1>10. /\ YearMonthDayLess(ymd, FromDays(now + 1)) /\ ~ YearMonthDayLess(FromDays(now + 1), ymd)
       /\ (d = size) <=> YearMonthLess(ymd, FromDays(now + 1))
       /\ MonthDayLess(FromDays(now + 1), ymd) <=> (DayOfYear(FromDays(now + 1)) = 1)
  BY <1>4, <1>3, ShownFields, NextIsLater DEF size
<1>11. WeekdayMinus(WeekdayFromDays(now + 1), wd) = 1
  <2>1. now + 1 \in Int /\ ((now + 1 - now) % 7) = 1
    BY <1>1, SMT
  <2>2. WeekdayMinus(WeekdayFromDays(now + 1), WeekdayFromDays(now)) = ((now + 1 - now) % 7)
    BY <1>1, <2>1, WeekdayMinusIs
  <2>. QED
    BY <1>4, <2>1, <2>2
<1>12. /\ WeekOfYear(now, 0) = (shown.dayOfYear + 6 - wd) \div 7
       /\ WeekOfYear(now, 1) = (shown.dayOfYear + 6 - ((wd + 6) % 7)) \div 7
  BY <1>4, WeekOfYearIs
<1>13. last <=> (d = size)
  BY <1>5, <1>7
<1>. HIDE DEF last
<1>14. ~ YearMonthWeekdayOk([ymwd EXCEPT !.wdi.index = @ + 1])
         <=> (WeekdayLastToDays(ymd, wd) = now)
  BY <1>8, <1>9
<1>15. /\ (YearMonthDayLastToDays(ymd) = now) <=> last
       /\ last <=> YearMonthLess(ymd, FromDays(now + 1))
  BY <1>9, <1>10, <1>13
<1>16. MonthWeekdayLastOk(ymd.month, wd)
  BY <1>5, <1>9
<1>. QED
  BY <1>7, <1>8, <1>9, <1>10, <1>11, <1>12, <1>14, <1>15, <1>16
     DEF RepresentationsAgree, ymd, ymwd, last, wd

(* Every day of such a range has one value of each type of date.h, which is *)
(* valid and leads back to the day, and the types order days as they follow *)
(* each other.                                                              *)
THEOREM Agreement == Spec => []RepresentationsAgree
<1>1. IndInv => RepresentationsAgree
  BY TypesAgree
<1>. QED
  BY <1>1, Invariance, PTL

-----------------------------------------------------------------------------
(* Months *)

(* The year and the month that are k months after the month m of y. *)
YearAfter(y, m, k) == y + (m - 1 + k) \div 12

MonthAfter(m, k) == ((m - 1 + k) % 12) + 1

(* Months are counted across the ends of years.                             *)
LEMMA MonthsAdd ==
  ASSUME NEW y \in Int, NEW m \in 1 .. 12, NEW k \in Int
  PROVE  /\ YearAfter(y, m, k) \in Int /\ MonthAfter(m, k) \in 1 .. 12
         /\ 12 * YearAfter(y, m, k) + MonthAfter(m, k) = 12 * y + m + k
<1>1. PICK q \in Int, r \in 0 .. 11 :
        /\ (m - 1 + k) \div 12 = q /\ (m - 1 + k) % 12 = r
        /\ m - 1 + k = 12 * q + r
  <2>1. PICK a \in Int : a = m - 1 + k
    OBVIOUS
  <2>. QED
    BY <2>1, SMT
<1>2. YearAfter(y, m, k) = y + q /\ MonthAfter(m, k) = r + 1
  BY <1>1 DEF YearAfter, MonthAfter
<1>. QED
  BY <1>1, <1>2

(* Adding months to a date counts them so.                                  *)
LEMMA MonthsPlus ==
  ASSUME NEW y \in Int, NEW m \in 1 .. 12, NEW k \in Int,
         NEW ym, ym.year = y, ym.month = m
  PROVE  /\ MonthPlus(m, k) = MonthAfter(m, k)
         /\ YearMonthPlus(ym, k) = YearMonth(Year(YearAfter(y, m, k)), MonthAfter(m, k))
<1>1. PICK a \in Int, q \in Int, r \in 0 .. 11 :
        /\ a = m - 1 + k /\ q = a \div 12 /\ r = a % 12 /\ a = 12 * q + r
  <2>1. PICK a \in Int : a = m - 1 + k
    OBVIOUS
  <2>. QED
    BY <2>1, SMT
<1>2. FloorQuotient(a, 12) = q
  <2>1. FloorQuotient(a, 12) = a \div 12
    BY Floor
  <2>. QED
    BY <1>1, <2>1
<1>3. /\ m + k - 1 = a /\ a - q * 12 + 1 = r + 1 /\ Month(r + 1) = r + 1
  BY <1>1, SMT DEF Month
<1>4. MonthPlus(m, k) = r + 1
  BY <1>2, <1>3, SMT DEF MonthPlus
<1>5. YearMonthPlus(ym, k) = YearMonth(Year(y + q), r + 1)
  <2>. QED
    BY <1>3, <1>2, <1>1, Zenon DEF YearMonthPlus, YearPlus
<1>. QED
  BY <1>1, <1>4, <1>5, Zenon DEF YearAfter, MonthAfter

(* Months subtracted and compared, and added again with the other sign.     *)
LEMMA MonthsSubtract ==
  ASSUME NEW y \in Int, NEW m \in 1 .. 12, NEW k \in Int,
         Fits(y), Fits(YearAfter(y, m, k)), NEW d,
         NEW from, from = Date(y, m, d), NEW to, to = Date(YearAfter(y, m, k), MonthAfter(m, k), d)
  PROVE  /\ YearMonthMinus(to, from) = k
         /\ YearMonthLess(from, to) <=> k > 0
         /\ (MonthMinus(to.month, from.month) - k) % 12 = 0
         /\ YearMonthPlus(to, -k) = YearMonth(y, m)
         /\ k % 12 = 0 => YearMonthPlusYears(from, Quotient(k, 12)) = YearMonth(to.year, to.month)
<1>1. PICK Y \in Int, M \in 1 .. 12 :
        /\ Y = YearAfter(y, m, k) /\ M = MonthAfter(m, k) /\ 12 * Y + M = 12 * y + m + k
  <2>1. 12 * YearAfter(y, m, k) + MonthAfter(m, k) = 12 * y + m + k
    BY MonthsAdd, Zenon
  <2>. QED
    BY MonthsAdd, <2>1, Zenon
<1>2. from.year = y /\ from.month = m /\ to.year = Y /\ to.month = M /\ Fits(Y)
  BY <1>1, Zenon DEF Date
<1>3. (MonthMinus(to.month, from.month) - k) % 12 = 0
  <2>1. MonthMinus(M, m) - k = 12 * (y - Y) \/ MonthMinus(M, m) - k = 12 * (y - Y + 1)
    BY <1>1, SMT DEF MonthMinus
  <2>. QED
    BY <1>1, <1>2, <2>1, SMT
<1>4. YearMonthPlus(to, -k) = YearMonth(y, m)
  <2>1. -k \in Int /\ M - 1 + (-k) = 12 * (y - Y) + (m - 1)
    BY <1>1
  <2>2. (12 * (y - Y) + (m - 1)) \div 12 = y - Y /\ (12 * (y - Y) + (m - 1)) % 12 = m - 1
    BY <1>1, SMT
  <2>3. YearAfter(Y, M, -k) = y /\ MonthAfter(M, -k) = m
    BY <1>1, <2>1, <2>2 DEF YearAfter, MonthAfter
  <2>4. YearMonthPlus(to, -k) = YearMonth(Year(YearAfter(Y, M, -k)), MonthAfter(M, -k))
    <3>1. PICK j \in Int : j = -k
      BY <2>1
    <3>2. YearMonthPlus(to, j) = YearMonth(Year(YearAfter(Y, M, j)), MonthAfter(M, j))
      BY <1>2, MonthsPlus
    <3>. QED
      BY <3>1, <3>2
  <2>. QED
    BY <2>3, <2>4, YearIs
<1>5. ASSUME k % 12 = 0
      PROVE  YearMonthPlusYears(from, Quotient(k, 12)) = YearMonth(Y, M)
  <2>1. PICK j \in Int : k = 12 * j
    <3>. QED
      BY <1>5, SMT
  <2>. QED
    BY <1>2, <2>1, <1>1, YearIs, SMT DEF Quotient, YearMonthPlusYears, YearPlus
<1>. QED
  BY <1>1, <1>2, <1>3, <1>4, <1>5, SMT DEF YearMonthLess, YearMonthMinus

(* A month has a first day, and to_days counts from it, also a day that the *)
(* month does not have.                                                     *)
LEMMA FirstOfMonth ==
  ASSUME NEW y \in Int, NEW m \in 1 .. 12
  PROVE  /\ IsDay(ToDays(Date(y, m, 1)), y, m, 1)
         /\ \A d \in Int : ToDays(Date(y, m, d)) = ToDays(Date(y, m, 1)) + d - 1
<1>1. /\ Before(MarchYear(y, m)) \in Int /\ MonthStart(MarchMonth(m)) \in Int
      /\ LastDay(YearMonth(y, m)) \in 28 .. 31
  <2>1. MarchYear(y, m) \in Int /\ MarchMonth(m) \in 0 .. 11
    BY SMT DEF MarchYear, MarchMonth
  <2>. QED
    BY <2>1, MonthSizeIs, LastDayIs DEF YearMonth
<1>2. ASSUME NEW d \in Int
      PROVE  ToDays(Date(y, m, d)) = Before(MarchYear(y, m)) + MonthStart(MarchMonth(m)) + d - 1 - 719468
  <2>. QED
    BY ToDaysIs DEF Date
<1>3. ToDays(Date(y, m, 1)) = Before(MarchYear(y, m)) + MonthStart(MarchMonth(m)) + 1 - 1 - 719468
  BY <1>2
<1>4. ASSUME NEW d \in Int
      PROVE  ToDays(Date(y, m, d)) = ToDays(Date(y, m, 1)) + d - 1
  BY <1>1, <1>2, <1>3, SMT
<1>. QED
  BY <1>1, <1>3, <1>4, SMT DEF IsDay, FromMarch

(* A date whose month does not have its day is a day of the next month, and *)
(* does not come back.                                                      *)
LEMMA DayOverflows ==
  ASSUME NEW y \in Int, NEW m \in 1 .. 12, NEW d \in 1 .. 31, Fits(y), YearOk(y)
  PROVE  YearMonthDayOk(Date(y, m, d)) <=> FromDays(ToDays(Date(y, m, d))) = Date(y, m, d)
<1>1. PICK first \in Int :
        first = ToDays(Date(y, m, 1)) /\ IsDay(first, y, m, 1) /\ ToDays(Date(y, m, d)) = first + d - 1
  <2>1. d \in Int /\ IsDay(ToDays(Date(y, m, 1)), y, m, 1)
    BY FirstOfMonth
  <2>. QED
    BY <2>1, FirstOfMonth, Zenon DEF IsDay
<1>2. PICK size \in 28 .. 31 : size = LastDay(YearMonth(y, m)) /\ LastDay(Date(y, m, d)) = size
  <2>. QED
    BY LastDayIs DEF Date
<1>3. YearMonthDayOk(Date(y, m, d)) <=> d <= size
  BY <1>2, SMT DEF YearMonthDayOk, Date, MonthOk
<1>4. CASE d <= size
  <2>. QED
    BY <1>1, <1>3, <1>4, <1>2, SameMonth, FromDaysIs
<1>5. CASE d > size
  <2>1. IsDay(first + size - 1, y, m, size)
    BY <1>1, <1>2, SameMonth
  <2>2. PICK mm \in 1 .. 12, yy \in Int : mm # m /\ IsDay(first + size - 1 + 1, yy, mm, 1)
    <3>1. IF m < 12 THEN IsDay(first + size - 1 + 1, y, m + 1, 1)
                    ELSE IsDay(first + size - 1 + 1, y + 1, 1, 1)
      BY <1>2, <2>1, NextDayIs
    <3>2. CASE m < 12
      <4>. QED
        BY <3>1, <3>2
    <3>3. CASE ~ (m < 12)
      <4>. QED
        BY <3>1, <3>3
    <3>. QED
      BY <3>2, <3>3
  <2>3. PICK e \in 1 .. 3 : e = d - size
    BY <1>2, <1>5
  <2>4. e <= LastDay(YearMonth(yy, mm)) /\ e \in Int /\ 1 <= e
    <3>1. YearMonth(yy, mm).year = yy /\ YearMonth(yy, mm).month = mm
      BY DEF YearMonth
    <3>. QED
      BY <3>1, LastDayIs
  <2>5. first + size - 1 + 1 + e - 1 = first + d - 1
    BY <1>1, <1>2, <2>3
  <2>6. PICK y3 \in Int, m3 \in 1 .. 12, d3 \in 1 .. 31 :
          IsDay(first + d - 1, y3, m3, d3) /\ FromDays(first + d - 1) = Date(Year(y3), m3, d3)
    <3>1. first + d - 1 \in Int
      BY <1>1
    <3>. QED
      BY <3>1, DayExists
  <2>7. FromDays(first + d - 1) # Date(y, m, d)
    <3>. QED
      BY <2>6, <2>2, <2>4, SameMonth, <2>5, DayIsUnique DEF Date
  <2>. QED
    BY <1>1, <1>3, <2>7, <1>2, <1>5
<1>. QED
  BY <1>2, <1>4, <1>5

(* Days added to a weekday. *)
LEMMA WeekdayPlusIs ==
  ASSUME NEW n \in Int, NEW k \in Int
  PROVE  WeekdayPlus(WeekdayFromDays(n), k) = WeekdayFromDays(n + k)
<1>1. PICK v \in 0 .. 6 : v = WeekdayFromDays(n) /\ v = (n + 4) % 7
  BY WeekdayIs
<1>2. PICK w \in 0 .. 6 : w = (v + k) % 7 /\ w = v + k - ((v + k) \div 7) * 7
  BY SMT
<1>3. v + k \in Int /\ FloorQuotient(v + k, 7) = (v + k) \div 7
  BY Floor
<1>4. Weekday(w) = w
  BY SMT DEF Weekday
<1>. QED
  BY <1>1, WeekdayIs, <1>2, <1>3, <1>4, SMT DEF WeekdayPlus

(* The ith such weekday of another month, if that has one, is a day of that *)
(* weekday, and leads back.                                                 *)
LEMMA WeekdayElsewhere ==
  ASSUME NEW n \in Int, NEW i \in 1 .. 5, NEW y \in Int, NEW m \in 1 .. 12, Fits(y),
         NEW ymwd, ymwd = [year |-> y, month |-> m, wdi |-> [weekday |-> WeekdayFromDays(n), index |-> i]],
         YearMonthWeekdayOk(ymwd)
  PROVE  /\ WeekdayFromDays(WeekdayToDays(ymwd)) = WeekdayFromDays(n)
         /\ WeekdayOfDays(WeekdayToDays(ymwd)) = ymwd
<1>1. PICK first \in Int : IsDay(first, y, m, 1)
  BY FirstOfMonth DEF IsDay
<1>2. /\ ymwd.year = y /\ ymwd.month = m
      /\ ymwd.wdi.weekday = WeekdayFromDays(n) /\ ymwd.wdi.index = i
  OBVIOUS
<1>3. PICK r \in 0 .. 6 : r = InWeek(n - first) /\ r = (n - first) % 7
  BY SMT DEF InWeek
<1>4. PICK size \in 28 .. 31 : size = LastDay(YearMonth(y, m))
  <2>1. YearMonth(y, m).year = y /\ YearMonth(y, m).month = m
    BY DEF YearMonth
  <2>. QED
    BY <2>1, LastDayIs
<1>5. /\ WeekdayToDays(ymwd) = first + r + (i - 1) * 7
      /\ InMonth(i, r, size)
  BY <1>1, <1>2, <1>3, <1>4, WeekdayToDaysIs, Zenon
<1>6. PICK d \in 1 .. 31 : d = r + (i - 1) * 7 + 1 /\ d <= size /\ first + d - 1 = first + r + (i - 1) * 7
  <2>. QED
    BY <1>5, SMT DEF InMonth
<1>7. IsDay(first + d - 1, y, m, d)
  BY <1>1, <1>4, <1>6, SameMonth
<1>8. (first + d - 1 + 4) % 7 = (n + 4) % 7
  <2>1. PICK q \in Int : n - first = 7 * q + r
    <3>1. PICK a \in Int : a = n - first
      OBVIOUS
    <3>. QED
      BY <1>3, <3>1, SMT
  <2>. QED
    BY <2>1, <1>6, SMT
<1>9. WeekdayFromDays(first + d - 1) = WeekdayFromDays(n)
  <2>. QED
    BY <1>8, <1>1, WeekdayIs
<1>. QED
  BY <1>5, <1>6, <1>9, <1>7, WeekdayOfDaysIs, SMT

(* Later days are in the same year or in later ones. *)
LEMMA YearsInOrder ==
  ASSUME NEW n, NEW y, NEW m, NEW d, IsDay(n, y, m, d),
         NEW k, NEW yy, NEW mm, NEW dd, IsDay(k, yy, mm, dd), n <= k
  PROVE  y <= yy
<1>1. /\ n \in Int /\ k \in Int /\ y \in Int /\ yy \in Int /\ yy + 1 \in Int
      /\ NewYear(y) <= n /\ k < NewYear(yy + 1)
  <2>1. NewYear(y) <= n /\ k < NewYear(yy + 1)
    BY InYear, Zenon
  <2>. QED
    BY <2>1 DEF IsDay
<1>2. NewYear(y) \in Int /\ NewYear(yy + 1) \in Int
  BY <1>1, NewYearIs
<1>. QED
  BY <1>1, <1>2, NewYearsFollow, SMT

(* Months that are so far from the clock's are in years that their type     *)
(* holds.                                                                   *)
LEMMA SpanFits ==
  ASSUME IndInv, NEW y, NEW m, NEW d, IsDay(now, y, m, d), NEW k \in Spans
  PROVE  k \in Int /\ Fits(YearAfter(y, m, k)) /\ YearOk(YearAfter(y, m, k))
<1>1. /\ now \in Int /\ FirstDay <= now /\ now <= FinalDay
      /\ FirstDay \in Int /\ FinalDay \in Int /\ FirstDay <= FinalDay
  BY BoundsAreDays DEF IndInv
<1>2. InRange(FirstDay) /\ InRange(FinalDay)
  BY <1>1, BoundsFit, SMT
<1>3. PICK y1, m1, d1, iso1 : IsShown(FirstDay, y1, m1, d1, iso1)
  BY <1>2, ShownIs
<1>4. PICK y2, m2, d2, iso2 : IsShown(FinalDay, y2, m2, d2, iso2)
  BY <1>2, ShownIs
<1>5. /\ IsDay(FirstDay, y1, m1, d1) /\ IsDay(FinalDay, y2, m2, d2)
      /\ FromDays(FirstDay).year = y1 /\ FromDays(FinalDay).year = y2
  <2>1. Date(y1, m1, d1).year = y1 /\ Date(y2, m2, d2).year = y2
    BY DEF Date
  <2>. QED
    BY <1>3, <1>4, <2>1, ShownFields
<1>6. y1 \in Int /\ y2 \in Int /\ y \in Int /\ m \in 1 .. 12
  BY <1>5 DEF IsDay
<1>7. k \in Int /\ -32767 <= y1 + k \div 12 /\ y2 + (k + 11) \div 12 <= 32767
  BY <1>5, SpansFit
<1>8. PICK q \in Int, lo \in Int, hi \in Int :
        q = (m - 1 + k) \div 12 /\ lo = k \div 12 /\ hi = (k + 11) \div 12
  BY <1>6, <1>7, SMT
<1>9. -32767 <= y + q /\ y + q <= 32767
  BY <1>1, <1>5, YearsInOrder, <1>6, <1>7, <1>8, SMT
<1>. QED
  BY <1>6, <1>7, <1>8, <1>9, SMT DEF YearAfter, Fits, YearOk

(* What adding months to a day of the clock gives in each type.             *)
LEMMA MonthsCounted ==
  ASSUME IndInv
  PROVE  MonthsAreCounted
<1>1. InRange(now) /\ shown = Shown(now) /\ now \in Int
  BY BoundsFit DEF IndInv
<1>2. PICK y, m, d, iso : IsShown(now, y, m, d, iso)
  BY <1>1, ShownIs
<1>3. /\ IsDay(now, y, m, d) /\ Fits(y) /\ YearOk(y) /\ YearMonthDay(shown, shown.day) = Date(y, m, d)
  BY <1>1, <1>2, ShownFields
<1>4. y \in Int /\ m \in 1 .. 12
  BY <1>3 DEF IsDay
<1>5. PICK i \in 1 .. 5 :
        /\ WeekdayOfDays(now) = [year |-> y, month |-> m,
                                 wdi |-> [weekday |-> WeekdayFromDays(now), index |-> i]]
        /\ d \in 1 .. 31
  BY <1>3, WeekdayOfDaysIs
<1>. DEFINE ymd == YearMonthDay(shown, shown.day)
<1>6. ymd.year = y /\ ymd.month = m /\ ymd.day = d
  BY <1>3 DEF Date
<1>. HIDE DEF ymd
<1>. SUFFICES ASSUME NEW n \in Spans
              PROVE  LET then == YearMonthDayPlus(ymd, n)
                         first == YearMonthDay(then, 1)
                     IN  /\ MonthOk(then.month)
                         /\ YearMonthMinus(then, ymd) = n
                         /\ YearMonthLess(ymd, then) <=> n > 0
                         /\ then.month = MonthPlus(ymd.month, n)
                         /\ (MonthMinus(then.month, ymd.month) - n) % 12 = 0
                         /\ ToDays(then) = ToDays(first) + ymd.day - 1
                         /\ YearMonthDayOk(then) <=> FromDays(ToDays(then)) = then
                         /\ n % 12 = 0 => YearMonthDayPlusYears(ymd, Quotient(n, 12)) = then
                         /\ YearMonthDayPlus(then, -n) = ymd
                         /\ WeekdayPlus(WeekdayFromDays(now), n) = WeekdayFromDays(now + n)
                         /\ LET ymwd == YearMonthWeekdayPlus(WeekdayOfDays(now), n)
                            IN  YearMonthWeekdayOk(ymwd) =>
                                  /\ WeekdayFromDays(WeekdayToDays(ymwd)) = WeekdayFromDays(now)
                                  /\ WeekdayOfDays(WeekdayToDays(ymwd)) = ymwd
  BY DEF MonthsAreCounted, ymd
<1>7. PICK Y \in Int, M \in 1 .. 12 :
        /\ Y = YearAfter(y, m, n) /\ M = MonthAfter(m, n) /\ n \in Int /\ Fits(Y) /\ YearOk(Y)
        /\ MonthPlus(m, n) = M /\ YearMonthPlus(ymd, n) = YearMonth(Y, M)
        /\ YearMonthPlus(WeekdayOfDays(now), n) = YearMonth(Y, M)
  <2>1. n \in Int /\ Fits(YearAfter(y, m, n)) /\ YearOk(YearAfter(y, m, n))
    BY <1>3, SpanFits
  <2>2. YearAfter(y, m, n) \in Int /\ MonthAfter(m, n) \in 1 .. 12
    BY <1>4, <2>1, MonthsAdd
  <2>3. Year(YearAfter(y, m, n)) = YearAfter(y, m, n)
    BY <2>1, <2>2, YearIs
  <2>4. MonthPlus(m, n) = MonthAfter(m, n) /\ YearMonthPlus(ymd, n) = YearMonth(YearAfter(y, m, n), MonthAfter(m, n))
    BY <1>4, <1>6, <2>1, <2>3, MonthsPlus
  <2>5. WeekdayOfDays(now).year = y /\ WeekdayOfDays(now).month = m
    BY <1>5
  <2>6. YearMonthPlus(WeekdayOfDays(now), n) = YearMonth(YearAfter(y, m, n), MonthAfter(m, n))
    BY <1>4, <2>1, <2>3, <2>5, MonthsPlus
  <2>. QED
    BY <2>1, <2>2, <2>4, <2>6
<1>. DEFINE then == YearMonthDayPlus(ymd, n)
            first == YearMonthDay(then, 1)
<1>8. then = Date(Y, M, d)
  <2>. QED
    BY <1>6, <1>7 DEF YearMonthDayPlus, YearMonthDay, YearMonth, Date
<1>9. then.year = Y /\ then.month = M /\ then.day = d
  BY <1>8 DEF Date
<1>10. first = Date(Y, M, 1)
  BY <1>9 DEF YearMonthDay, Date
<1>. HIDE DEF then, first
<1>11. MonthOk(then.month) /\ then.month = MonthPlus(ymd.month, n)
  BY <1>6, <1>7, <1>9 DEF MonthOk
<1>12. /\ YearMonthMinus(then, ymd) = n
       /\ YearMonthLess(ymd, then) <=> n > 0
       /\ (MonthMinus(then.month, ymd.month) - n) % 12 = 0
       /\ YearMonthPlus(then, -n) = YearMonth(y, m)
       /\ n % 12 = 0 => YearMonthPlusYears(ymd, Quotient(n, 12)) = YearMonth(then.year, then.month)
  <2>1. /\ then = Date(YearAfter(y, m, n), MonthAfter(m, n), d) /\ ymd = Date(y, m, d)
        /\ Fits(y) /\ Fits(YearAfter(y, m, n)) /\ n \in Int
    BY <1>3, <1>7, <1>8 DEF ymd
  <2>. QED
    BY <1>4, <2>1, MonthsSubtract
<1>13. n % 12 = 0 => YearMonthDayPlusYears(ymd, Quotient(n, 12)) = then
  BY <1>6, <1>8, <1>9, <1>12 DEF YearMonthDayPlusYears, YearMonthDay, YearMonth, Date
<1>14. YearMonthDayPlus(then, -n) = ymd
  BY <1>3, <1>9, <1>12 DEF YearMonthDayPlus, YearMonthDay, YearMonth, Date, ymd
<1>15. ToDays(then) = ToDays(first) + ymd.day - 1
  BY <1>5, <1>6, <1>7, <1>8, <1>10, FirstOfMonth
<1>16. YearMonthDayOk(then) <=> FromDays(ToDays(then)) = then
  BY <1>5, <1>7, <1>8, DayOverflows
<1>17. WeekdayPlus(WeekdayFromDays(now), n) = WeekdayFromDays(now + n)
  BY <1>1, <1>7, WeekdayPlusIs
<1>. DEFINE ymwd == YearMonthWeekdayPlus(WeekdayOfDays(now), n)
<1>18. ymwd = [year |-> Y, month |-> M, wdi |-> [weekday |-> WeekdayFromDays(now), index |-> i]]
  <2>1. /\ WeekdayOfDays(now).year = y /\ WeekdayOfDays(now).month = m
        /\ WeekdayOfDays(now).wdi = [weekday |-> WeekdayFromDays(now), index |-> i]
    BY <1>5
  <2>. QED
    BY <1>7, <2>1 DEF YearMonthWeekdayPlus, YearMonthWeekday, YearMonth
<1>. HIDE DEF ymwd
<1>19. YearMonthWeekdayOk(ymwd) =>
         /\ WeekdayFromDays(WeekdayToDays(ymwd)) = WeekdayFromDays(now)
         /\ WeekdayOfDays(WeekdayToDays(ymwd)) = ymwd
  BY <1>1, <1>7, <1>18, WeekdayElsewhere
<1>. QED
  BY <1>11, <1>12, <1>13, <1>14, <1>15, <1>16, <1>17, <1>19 DEF then, first, ymwd

(* Months and years added to a date of the clock, forward and back, are     *)
(* counted across the ends of years in every type alike, the day of the     *)
(* month stays, and one that the month does not have counts into the next:  *)
(* for every number of months that leaves the year in its type.             *)
THEOREM MonthsCount == Spec => []MonthsAreCounted
<1>1. IndInv => MonthsAreCounted
  BY MonthsCounted
<1>. QED
  BY <1>1, Invariance, PTL

-----------------------------------------------------------------------------
(* The texts of times *)

(* What is at least every member of a set is its Max.                       *)
LEMMA MaxIsGreatest ==
  ASSUME NEW S \in SUBSET Int, NEW x \in S, \A y \in S : x >= y PROVE Max(S) = x
<1>1. x \in Int /\ S \subseteq Int
  OBVIOUS
<1>2. ASSUME NEW m, m \in S, \A y \in S : m >= y PROVE m = x
  <2>1. m >= x /\ x >= m /\ m \in Int
    BY <1>1, <1>2
  <2>. QED BY <2>1, <1>1
<1>3. PICK m : m \in S /\ (\A y \in S : m >= y) /\ m = Max(S)
  BY Zenon DEF Max
<1>. QED BY <1>2, <1>3

(* A set of numbers has a least one.                                        *)
LEMMA LeastNumber ==
  ASSUME NEW N \in SUBSET Nat, N # {}
  PROVE  \E n \in N : \A m \in N : n <= m
<1>. DEFINE Below == {ss \in Nat \X Nat : ss[1] < ss[2]}
<1>1. IsWellFoundedOn(Below, Nat)
  BY NatLessThanWellFounded DEF OpToRel
<1>2. PICK n \in N : \A m \in N : ~ (<<m, n>> \in Below)
  BY <1>1, WFMin
<1>3. ASSUME NEW m \in N
      PROVE  n <= m
  <2>1. n \in Nat /\ m \in Nat
    OBVIOUS
  <2>2. m < n => <<m, n>> \in Below
    BY <2>1
  <2>. QED BY <1>2, <2>1, <2>2
<1>. QED BY <1>3

(* Before the first character, nothing is written and no '%' waits. *)
AtFirst == [command |-> FALSE, os |-> <<>>]

(* What is written of the characters in a set of places.                    *)
WrittenAt(g, fmt, f, s) ==
  IF s = {} THEN AtFirst ELSE LET x == Max(s) IN Formatted(g[s \ {x}], fmt[x], f)

(* FoldLeft computes such a function on the sets of the first n places. *)
IsWriting(g, fmt, f, n) == g = [s \in SUBSET (1 .. n) |-> WrittenAt(g, fmt, f, s)]

(* The greatest place is the last one, and without it those before it are  *)
(* left.                                                                   *)
LEMMA GreatestPlace ==
  ASSUME NEW n \in Nat, NEW s \in SUBSET (1 .. n + 1), n + 1 \in s
  PROVE  Max(s) = n + 1 /\ s \ {n + 1} \in SUBSET (1 .. n)
<1>1. s \in SUBSET Int /\ (\A y \in s : n + 1 >= y)
  OBVIOUS
<1>2. Max(s) = n + 1
  BY <1>1, MaxIsGreatest
<1>. QED
  BY <1>2

(* There is such a function for every number of places. *)
LEMMA WritingExists ==
  ASSUME NEW fmt, NEW f, NEW n \in Nat
  PROVE  \E g : IsWriting(g, fmt, f, n)
<1>. DEFINE None == {m \in Nat : ~ \E g : IsWriting(g, fmt, f, m)}
<1>. SUFFICES None = {}
  OBVIOUS
<1>1. ASSUME None # {}
      PROVE  FALSE
  <2>1. PICK m \in None : \A k \in None : m <= k
    BY <1>1, LeastNumber
  <2>2. m # 0
    <3>. DEFINE g0 == [s \in SUBSET (1 .. 0) |-> AtFirst]
    <3>1. IsWriting(g0, fmt, f, 0)
      BY DEF WrittenAt, IsWriting
    <3>. QED
      BY <3>1
  <2>3. PICK k \in Nat : m = k + 1
    <3>1. m - 1 \in Nat /\ m = (m - 1) + 1
      BY <2>2
    <3>. QED
      BY <3>1
  <2>4. k \notin None
    BY <2>1, <2>3
  <2>5. PICK g : IsWriting(g, fmt, f, k)
    BY <2>4
  <2>. DEFINE h == [s \in SUBSET (1 .. k + 1) |->
                      IF k + 1 \in s THEN Formatted(g[s \ {k + 1}], fmt[k + 1], f) ELSE g[s]]
  <2>6. ASSUME NEW s \in SUBSET (1 .. k)
        PROVE  s \in SUBSET (1 .. k + 1) /\ h[s] = g[s] /\ g[s] = WrittenAt(g, fmt, f, s)
    <3>. QED
      BY <2>5 DEF IsWriting
  <2>7. ASSUME NEW s \in SUBSET (1 .. k + 1)
        PROVE  h[s] = WrittenAt(h, fmt, f, s)
    <3>1. CASE k + 1 \in s
      <4>1. h[s] = Formatted(g[s \ {k + 1}], fmt[k + 1], f)
        BY <3>1
      <4>. HIDE DEF h
      <4>. QED
        BY <3>1, GreatestPlace, <4>1, <2>6, Zenon DEF WrittenAt
    <3>2. CASE k + 1 \notin s
      <4>1. s \in SUBSET (1 .. k)
        BY <3>2
      <4>. HIDE DEF h
      <4>. QED
        BY <2>6, <4>1, Zenon DEF WrittenAt
    <3>. QED
      BY <3>1, <3>2
  <2>8. IsWriting(h, fmt, f, k + 1)
    <3>1. h = [s \in SUBSET (1 .. k + 1) |-> h[s]]
      OBVIOUS
    <3>. HIDE DEF h
    <3>. QED
      BY <2>7, <3>1, Zenon DEF IsWriting
  <2>. QED
    BY <2>1, <2>3, <2>8
<1>. QED
  BY <1>1

(* So a text grows by what each character of the format writes. *)
LEMMA WritesInOrder ==
  ASSUME NEW C, NEW fmt \in Seq(C), NEW f
  PROVE  \E w : /\ w[0] = AtFirst
                /\ \A i \in 1 .. Len(fmt) : w[i] = Formatted(w[i - 1], fmt[i], f)
                /\ ToStream(fmt, f) = Waiting(w[Len(fmt)])
<1>. DEFINE n == Len(fmt)
            g == CHOOSE h : IsWriting(h, fmt, f, n)
            w == [i \in 0 .. n |-> g[1 .. i]]
<1>1. n \in Nat /\ DOMAIN fmt = 1 .. n
  BY LenProperties
<1>2. IsWriting(g, fmt, f, n)
  BY <1>1, WritingExists
<1>3. FoldLeft(LAMBDA s, c : Formatted(s, c, f), AtFirst, fmt) = g[1 .. n]
  BY <1>1, Zenon DEF FoldLeft, MapThenFoldSet, IsWriting, WrittenAt
<1>4. ToStream(fmt, f) = Waiting(g[1 .. n])
  BY <1>3, Zenon DEF ToStream, AtFirst
<1>. HIDE DEF g
<1>5. \A i \in 0 .. n : w[i] = g[1 .. i] /\ g[1 .. i] = WrittenAt(g, fmt, f, 1 .. i)
  BY <1>1, <1>2 DEF IsWriting
<1>. HIDE DEF n, w
<1>6. w[0] = AtFirst
  <2>1. 0 \in 0 .. n /\ 1 .. 0 = {}
    BY <1>1
  <2>. QED
    BY <2>1, <1>5, Zenon DEF WrittenAt
<1>7. ASSUME NEW i \in 1 .. n
      PROVE  w[i] = Formatted(w[i - 1], fmt[i], f)
  <2>1. PICK k \in 0 .. n - 1 : i = k + 1 /\ k = i - 1 /\ k \in Nat /\ k \in 0 .. n
    BY <1>1
  <2>2. 1 .. i # {} /\ Max(1 .. i) = i /\ (1 .. i) \ {i} = 1 .. k
    <3>1. 1 .. i \in SUBSET Int /\ i \in 1 .. i /\ (\A y \in 1 .. i : i >= y)
      BY <1>1
    <3>2. (1 .. i) \ {i} = 1 .. k
      <4>1. \A x : x \in (1 .. i) \ {i} <=> x \in 1 .. k
        BY <2>1, SMT
      <4>. QED
        BY <4>1, Zenon
    <3>. QED
      BY <3>1, MaxIsGreatest, <3>2
  <2>3. g[1 .. i] = Formatted(g[1 .. k], fmt[i], f)
    <3>1. g[1 .. i] = WrittenAt(g, fmt, f, 1 .. i)
      BY <1>1, <1>5
    <3>. QED
      BY <2>2, <3>1, Zenon DEF WrittenAt
  <2>. QED
    BY <1>1, <1>5, <2>1, <2>3
<1>. QED
  BY <1>4, <1>5, <1>6, <1>7, <1>1 DEF n

-----------------------------------------------------------------------------
(* Digits *)

(* The powers of ten. *)
TenTo(e) ==
  <<1, 10, 100, 1000, 10000, 100000, 1000000, 10000000, 100000000, 1000000000>>[e + 1]

(* Each power of ten is ten times the one before it. *)
LEMMA TenToNext ==
  /\ \A e \in 0 .. 9 : TenTo(e) \in Nat /\ TenTo(e) > 0
  /\ \A e \in 0 .. 8 : TenTo(e + 1) = 10 * TenTo(e) /\ TenTo(e) < TenTo(e + 1)
  /\ TenTo(0) = 1 /\ TenTo(1) = 10 /\ TenTo(2) = 100 /\ TenTo(3) = 1000 /\ TenTo(4) = 10000
BY SMT DEF TenTo

(* What is computed by squaring. *)
Squared(h, e) ==
  IF e = 0 THEN 1 ELSE h[e \div 2] * h[e \div 2] * (IF e % 2 = 1 THEN 10 ELSE 1)

(* static_pow10 computes the powers of ten.                                 *)
LEMMA PowersOfTen ==
  ASSUME NEW exp \in 0 .. 9
  PROVE  StaticPow10(exp) = TenTo(exp)
<1>. DEFINE IsPow(h) == h = [e \in 0 .. exp |-> Squared(h, e)]
            pow == CHOOSE h : IsPow(h)
            g == [e \in 0 .. exp |-> TenTo(e)]
<1>1. \A e \in 0 .. exp : g[e] = Squared(g, e)
  <2>. SUFFICES ASSUME NEW e \in 0 .. exp
                PROVE  g[e] = Squared(g, e)
    OBVIOUS
  <2>1. CASE e = 0
    BY <2>1, TenToNext DEF Squared
  <2>2. CASE e # 0
    <3>1. PICK k \in 0 .. 4 : k = e \div 2
      BY SMT
    <3>2. k \in 0 .. exp /\ e \in 0 .. 9 /\ (e = 2 * k \/ e = 2 * k + 1)
      BY <3>1, SMT
    <3>3. g[e] = TenTo(e) /\ g[k] = TenTo(k)
      BY <3>2
    <3>. HIDE DEF g
    <3>. QED
      BY <2>2, <3>1, <3>2, <3>3, SMT DEF TenTo, Squared
  <2>. QED
    BY <2>1, <2>2
<1>2. IsPow(g)
  <2>1. g = [e \in 0 .. exp |-> g[e]]
    OBVIOUS
  <2>. HIDE DEF g
  <2>. QED
    BY <1>1, <2>1, Zenon
<1>3. IsPow(pow)
  BY <1>2
<1>4. StaticPow10(exp) = pow[exp]
  BY Zenon DEF StaticPow10, Squared
<1>. HIDE DEF pow
<1>5. \A e \in 0 .. exp : pow[e] = Squared(pow, e)
  BY <1>3
<1>6. \A e \in 1 .. exp : pow[e] = pow[e \div 2] * pow[e \div 2] * (IF e % 2 = 1 THEN 10 ELSE 1)
  BY <1>5 DEF Squared
<1>7. pow[0] = 1
  BY <1>5 DEF Squared
<1>8. 1 <= exp => pow[1] = 10
  <2>1. 1 \div 2 = 0 /\ 1 % 2 = 1
    BY SMT
  <2>. QED
    BY <1>6, <1>7, <2>1
<1>9. (2 <= exp => pow[2] = 100) /\ (3 <= exp => pow[3] = 1000)
  <2>1. 2 \div 2 = 1 /\ 2 % 2 = 0 /\ 3 \div 2 = 1 /\ 3 % 2 = 1
    BY SMT
  <2>. QED
    BY <1>6, <1>8, <2>1
<1>10. (4 <= exp => pow[4] = 10000) /\ (5 <= exp => pow[5] = 100000)
  <2>1. 4 \div 2 = 2 /\ 4 % 2 = 0 /\ 5 \div 2 = 2 /\ 5 % 2 = 1
    BY SMT
  <2>. QED
    BY <1>6, <1>9, <2>1
<1>11. (6 <= exp => pow[6] = 1000000) /\ (7 <= exp => pow[7] = 10000000)
  <2>1. 6 \div 2 = 3 /\ 6 % 2 = 0 /\ 7 \div 2 = 3 /\ 7 % 2 = 1
    BY SMT
  <2>. QED
    BY <1>6, <1>9, <2>1
<1>12. (8 <= exp => pow[8] = 100000000) /\ (9 <= exp => pow[9] = 1000000000)
  <2>1. 8 \div 2 = 4 /\ 8 % 2 = 0 /\ 9 \div 2 = 4 /\ 9 % 2 = 1
    BY SMT
  <2>. QED
    BY <1>6, <1>10, <2>1
<1>. QED
  BY <1>4, <1>7, <1>8, <1>9, <1>10, <1>11, <1>12, SMT DEF TenTo

(* The digits of a number up to the ith of w. *)
Leading(n, w, i) == n \div TenTo(w - i)

(* Their ith digit. *)
Digit(n, w, i) == Leading(n, w, i) % 10

(* Each digit makes ten times as much of those before it.                   *)
LEMMA LeadingIs ==
  ASSUME NEW w \in 1 .. 9, NEW n \in Nat, n < TenTo(w)
  PROVE  /\ Leading(n, w, 0) = 0 /\ Leading(n, w, w) = n
         /\ \A i \in 0 .. w : Leading(n, w, i) \in Nat
         /\ \A i \in 1 .. w : /\ Digit(n, w, i) \in 0 .. 9
                              /\ Leading(n, w, i) = 10 * Leading(n, w, i - 1) + Digit(n, w, i)
<1>1. TenTo(w) \in Nat /\ TenTo(w) > 0 /\ w - 0 = w /\ w - w = 0 /\ TenTo(0) = 1
  BY TenToNext
<1>2. Leading(n, w, 0) = 0
  <2>. QED
    BY <1>1, SMT DEF Leading
<1>3. ASSUME NEW e \in 0 .. 9
      PROVE  n \div TenTo(e) \in Nat
  <2>. QED
    BY <1>3, SMT DEF TenTo
<1>4. \A i \in 0 .. w : Leading(n, w, i) \in Nat
  <2>. QED
    BY <1>3 DEF Leading
<1>5. ASSUME NEW i \in 1 .. w
      PROVE  /\ Digit(n, w, i) \in 0 .. 9
             /\ Leading(n, w, i) = 10 * Leading(n, w, i - 1) + Digit(n, w, i)
  <2>1. PICK e \in 0 .. 8 : e = w - i /\ w - (i - 1) = e + 1
    BY <1>5
  <2>2. PICK a \in Nat : a = n \div TenTo(e)
    <3>. QED
      BY <1>3
  <2>3. n \div TenTo(e + 1) = a \div 10
    BY <2>2, SMT DEF TenTo
  <2>4. a % 10 \in 0 .. 9 /\ a = 10 * (a \div 10) + (a % 10)
    BY SMT
  <2>. QED
    BY <2>1, <2>2, <2>3, <2>4 DEF Leading, Digit
<1>. QED
  BY <1>2, <1>1, <1>4, <1>5 DEF Leading

(* A number that has w digits at most is written with w digits.             *)
LEMMA DigitsAre ==
  ASSUME NEW w \in 1 .. 9, NEW n \in Nat, n < TenTo(w)
  PROVE  Digits(n, w) = [i \in 1 .. w |-> Digit(n, w, i)]
<1>. DEFINE Fit(x) == n < StaticPow10(x) /\ \A v \in w .. x - 1 : n >= StaticPow10(v)
            long == CHOOSE x \in w .. 9 : Fit(x)
<1>1. StaticPow10(w) = TenTo(w) /\ TenTo(w) \in Nat
  BY PowersOfTen, TenToNext
<1>2. ASSUME NEW x \in w .. 9, Fit(x)
      PROVE  x = w
  <2>. QED
    BY <1>1, <1>2
<1>3. long = w
  BY <1>1, <1>2
<1>4. Digits(n, w) = [i \in 1 .. long |-> (n \div StaticPow10(long - i)) % 10]
  BY Zenon DEF Digits
<1>. HIDE DEF long
<1>5. \A i \in 1 .. w : (n \div StaticPow10(w - i)) % 10 = Digit(n, w, i)
  <2>. QED
    BY PowersOfTen DEF Digit, Leading
<1>. QED
  BY <1>3, <1>4, <1>5

(* Numbers are ordered as their digits.                                     *)
LEMMA DigitsInOrder ==
  ASSUME NEW w \in 1 .. 9, NEW a \in Nat, NEW b \in Nat, a < b, b < TenTo(w)
  PROVE  Earlier(Digits(a, w), Digits(b, w))
<1>1. a < TenTo(w)
  BY TenToNext
<1>2. /\ Digits(a, w) = [i \in 1 .. w |-> Digit(a, w, i)]
      /\ Digits(b, w) = [i \in 1 .. w |-> Digit(b, w, i)]
  BY <1>1, DigitsAre
<1>. DEFINE Differ == {i \in 0 .. w : Leading(a, w, i) # Leading(b, w, i)}
<1>3. /\ Leading(a, w, 0) = 0 /\ Leading(a, w, w) = a
      /\ Leading(b, w, 0) = 0 /\ Leading(b, w, w) = b
      /\ \A i \in 0 .. w : Leading(a, w, i) \in Nat /\ Leading(b, w, i) \in Nat
      /\ \A i \in 1 .. w : /\ Digit(a, w, i) \in 0 .. 9 /\ Digit(b, w, i) \in 0 .. 9
                           /\ Leading(a, w, i) = 10 * Leading(a, w, i - 1) + Digit(a, w, i)
                           /\ Leading(b, w, i) = 10 * Leading(b, w, i - 1) + Digit(b, w, i)
  BY <1>1, LeadingIs
<1>4. Differ \in SUBSET Nat /\ w \in Differ
  BY <1>3
<1>5. PICK i \in Differ : \A j \in Differ : i <= j
  <2>1. Differ # {}
    BY <1>4
  <2>. QED
    BY <1>4, <2>1, LeastNumber
<1>6. i \in 1 .. w
  BY <1>3, <1>5
<1>7. \A j \in 0 .. i - 1 : Leading(a, w, j) = Leading(b, w, j)
  BY <1>5, <1>6
<1>8. \A j \in 1 .. i - 1 : Digit(a, w, j) = Digit(b, w, j)
  <2>. SUFFICES ASSUME NEW j \in 1 .. i - 1
                PROVE  Digit(a, w, j) = Digit(b, w, j)
    OBVIOUS
  <2>. QED
    BY <1>7, <1>6 DEF Digit
<1>9. Leading(a, w, i) < Leading(b, w, i)
  <2>1. Leading(a, w, i) # Leading(b, w, i) /\ w - i \in 0 .. 9
    BY <1>5, <1>6
  <2>2. Leading(a, w, i) <= Leading(b, w, i)
    BY <2>1, SMT DEF TenTo, Leading
  <2>. QED
    BY <1>3, <1>6, <2>1, <2>2
<1>10. Digit(a, w, i) < Digit(b, w, i)
  <2>1. i - 1 \in 0 .. i - 1 /\ i - 1 \in 0 .. w
    BY <1>6
  <2>2. Leading(a, w, i - 1) = Leading(b, w, i - 1)
    BY <1>7, <2>1
  <2>. QED
    BY <1>3, <1>6, <1>9, <2>1, <2>2
<1>. QED
  BY <1>2, <1>6, <1>8, <1>10 DEF Earlier

(* Of two texts of the same length, the first is before the other if `less` *)
(* and they are the same if `same`.                                         *)
Ordered(less, same, s, t) ==
  /\ s \in Seq(Int) /\ t \in Seq(Int) /\ Len(s) = Len(t)
  /\ less => Earlier(s, t)
  /\ same => s = t

(* Texts joined are ordered by their first parts, then by their second.     *)
LEMMA JoinedInOrder ==
  ASSUME NEW l, NEW e, NEW s, NEW t, Ordered(l, e, s, t),
         NEW ll, NEW ee, NEW ss, NEW tt, Ordered(ll, ee, ss, tt)
  PROVE  Ordered(l \/ (e /\ ll), e /\ ee, s \o ss, t \o tt)
<1>1. /\ s \in Seq(Int) /\ t \in Seq(Int) /\ Len(s) = Len(t)
      /\ ss \in Seq(Int) /\ tt \in Seq(Int) /\ Len(ss) = Len(tt)
  BY DEF Ordered
<1>2. PICK n \in Nat, m \in Nat : n = Len(s) /\ m = Len(ss)
  BY <1>1, LenProperties
<1>3. /\ s \o ss \in Seq(Int) /\ Len(s \o ss) = n + m
      /\ \A i \in 1 .. n + m : (s \o ss)[i] = IF i <= n THEN s[i] ELSE ss[i - n]
  <2>1. /\ s \o ss \in Seq(Int) /\ Len(s \o ss) = Len(s) + Len(ss)
        /\ \A i \in 1 .. Len(s) + Len(ss) :
             (s \o ss)[i] = IF i <= Len(s) THEN s[i] ELSE ss[i - Len(s)]
    BY <1>1, ConcatProperties
  <2>. QED
    BY <1>1, <1>2, <2>1
<1>4. /\ t \o tt \in Seq(Int) /\ Len(t \o tt) = n + m
      /\ \A i \in 1 .. n + m : (t \o tt)[i] = IF i <= n THEN t[i] ELSE tt[i - n]
  <2>. QED
    BY <1>1, <1>2, ConcatProperties
<1>5. DOMAIN s = 1 .. n /\ DOMAIN ss = 1 .. m /\ DOMAIN (s \o ss) = 1 .. n + m
  BY <1>1, <1>2, <1>3, LenProperties
<1>6. ASSUME l
      PROVE  Earlier(s \o ss, t \o tt)
  <2>1. PICK i \in 1 .. n : s[i] < t[i] /\ \A j \in 1 .. i - 1 : s[j] = t[j]
    BY <1>5, <1>6 DEF Ordered, Earlier
  <2>2. i \in 1 .. n + m /\ (s \o ss)[i] = s[i] /\ (t \o tt)[i] = t[i]
    BY <1>3, <1>4
  <2>3. \A j \in 1 .. i - 1 : (s \o ss)[j] = s[j] /\ (t \o tt)[j] = t[j]
    BY <1>3, <1>4
  <2>. QED
    BY <1>5, <2>1, <2>2, <2>3 DEF Earlier
<1>7. ASSUME e, ll
      PROVE  Earlier(s \o ss, t \o tt)
  <2>1. PICK i \in 1 .. m : ss[i] < tt[i] /\ \A j \in 1 .. i - 1 : ss[j] = tt[j]
    BY <1>5, <1>7 DEF Ordered, Earlier
  <2>2. s = t
    BY <1>7 DEF Ordered
  <2>3. PICK k \in n + 1 .. n + m : k = n + i /\ k - n = i /\ ~ (k <= n) /\ k \in 1 .. n + m
    BY <1>2
  <2>4. ASSUME NEW j \in 1 .. k - 1
        PROVE  (s \o ss)[j] = (t \o tt)[j]
    <3>1. j \in 1 .. n + m
      BY <2>3
    <3>2. CASE j <= n
      BY <1>3, <1>4, <2>2, <3>1, <3>2
    <3>3. CASE ~ (j <= n)
      <4>1. j - n \in 1 .. i - 1
        BY <2>3, <3>1, <3>3
      <4>. QED
        BY <1>3, <1>4, <2>1, <3>1, <3>3, <4>1
    <3>. QED
      BY <3>2, <3>3
  <2>. QED
    BY <1>5, <2>1, <2>3, <1>3, <1>4, <2>4 DEF Earlier
<1>. QED
  BY <1>3, <1>4, <1>6, <1>7, Zenon DEF Ordered

(* A mark after both. *)
LEMMA MarkAfter ==
  ASSUME NEW l, NEW e, NEW s, NEW t, Ordered(l, e, s, t), NEW c \in Int
  PROVE  Ordered(l, e, s \o <<c>>, t \o <<c>>)
<1>1. Ordered(FALSE, TRUE, <<c>>, <<c>>)
  BY DEF Ordered
<1>2. Ordered(l \/ (e /\ FALSE), e /\ TRUE, s \o <<c>>, t \o <<c>>)
  BY <1>1, JoinedInOrder, Zenon
<1>. QED
  BY <1>2, Zenon DEF Ordered

(* Numbers with the same number of digits.                                  *)
LEMMA DigitsOrdered ==
  ASSUME NEW w \in 1 .. 9, NEW a \in Nat, NEW b \in Nat, a < TenTo(w), b < TenTo(w)
  PROVE  Ordered(a < b, a = b, Digits(a, w), Digits(b, w))
<1>1. /\ Digits(a, w) = [i \in 1 .. w |-> Digit(a, w, i)]
      /\ Digits(b, w) = [i \in 1 .. w |-> Digit(b, w, i)]
      /\ \A i \in 1 .. w : Digit(a, w, i) \in Int /\ Digit(b, w, i) \in Int
  <2>1. /\ \A i \in 1 .. w : Digit(a, w, i) \in 0 .. 9
        /\ \A i \in 1 .. w : Digit(b, w, i) \in 0 .. 9
    BY LeadingIs
  <2>2. /\ Digits(a, w) = [i \in 1 .. w |-> Digit(a, w, i)]
        /\ Digits(b, w) = [i \in 1 .. w |-> Digit(b, w, i)]
    BY DigitsAre, Zenon
  <2>. QED
    BY <2>1, <2>2
<1>2. /\ Digits(a, w) \in Seq(Int) /\ Digits(b, w) \in Seq(Int)
      /\ Len(Digits(a, w)) = w /\ Len(Digits(b, w)) = w
  BY <1>1, IsASeq, LenProperties
<1>. QED
  BY <1>2, DigitsInOrder, Zenon DEF Ordered

(* One date is before the other, and one is the other. *)
DateLess(y, m, d, yy, mm, dd) == y < yy \/ (y = yy /\ (m < mm \/ (m = mm /\ d < dd)))

DateSame(y, m, d, yy, mm, dd) == y = yy /\ m = mm /\ d = dd

(* Dates of years with four digits are ordered as their texts are.          *)
LEMMA DatesOrdered ==
  ASSUME NEW y \in Nat, NEW m \in Nat, NEW d \in Nat,
         NEW yy \in Nat, NEW mm \in Nat, NEW dd \in Nat,
         y < TenTo(4), m < TenTo(2), d < TenTo(2), yy < TenTo(4), mm < TenTo(2), dd < TenTo(2)
  PROVE  Ordered(DateLess(y, m, d, yy, mm, dd), DateSame(y, m, d, yy, mm, dd),
                 DateDigits(Date(y, m, d)), DateDigits(Date(yy, mm, dd)))
<1>. DEFINE ly == y < yy
            ey == y = yy
            lm == m < mm
            em == m = mm
            ld == d < dd
            ed == d = dd
            lym == ly \/ (ey /\ lm)
            eym == ey /\ em
<1>1. Ordered(ly, ey, YearText(y), YearText(yy))
  <2>1. 4 \in 1 .. 9
    OBVIOUS
  <2>. QED
    BY <2>1, DigitsOrdered DEF YearText
<1>2. Dash \in Int
  BY DEF Dash
<1>3. Ordered(lm, em, Digits(m, 2), Digits(mm, 2))
  <2>. QED
    BY DigitsOrdered
<1>4. Ordered(ld, ed, Digits(d, 2), Digits(dd, 2))
  <2>1. 2 \in 1 .. 9
    OBVIOUS
  <2>. QED
    BY <2>1, DigitsOrdered
<1>. HIDE DEF ly, ey, lm, em, ld, ed
<1>5. Ordered(ly, ey, YearText(y) \o <<Dash>>, YearText(yy) \o <<Dash>>)
  BY <1>1, <1>2, MarkAfter, Zenon
<1>6. Ordered(lym, eym, YearText(y) \o <<Dash>> \o Digits(m, 2), YearText(yy) \o <<Dash>> \o Digits(mm, 2))
  BY <1>3, <1>5, JoinedInOrder, Zenon
<1>. HIDE DEF lym, eym
<1>7. Ordered(lym, eym, YearText(y) \o <<Dash>> \o Digits(m, 2) \o <<Dash>>,
              YearText(yy) \o <<Dash>> \o Digits(mm, 2) \o <<Dash>>)
  BY <1>2, <1>6, MarkAfter, Zenon
<1>8. Ordered(lym \/ (eym /\ ld), eym /\ ed,
              YearText(y) \o <<Dash>> \o Digits(m, 2) \o <<Dash>> \o Digits(d, 2),
              YearText(yy) \o <<Dash>> \o Digits(mm, 2) \o <<Dash>> \o Digits(dd, 2))
  <2>. DEFINE s == YearText(y) \o <<Dash>> \o Digits(m, 2) \o <<Dash>>
              t == YearText(yy) \o <<Dash>> \o Digits(mm, 2) \o <<Dash>>
  <2>1. Ordered(lym, eym, s, t)
    BY <1>7
  <2>. HIDE DEF s, t
  <2>2. Ordered(lym \/ (eym /\ ld), eym /\ ed, s \o Digits(d, 2), t \o Digits(dd, 2))
    BY <1>4, <2>1, JoinedInOrder, Zenon
  <2>. QED
    BY <2>2 DEF s, t
<1>9. /\ DateDigits(Date(y, m, d)) = YearText(y) \o <<Dash>> \o Digits(m, 2) \o <<Dash>> \o Digits(d, 2)
      /\ DateDigits(Date(yy, mm, dd))
           = YearText(yy) \o <<Dash>> \o Digits(mm, 2) \o <<Dash>> \o Digits(dd, 2)
  <2>1. /\ Date(y, m, d).year = y /\ Date(y, m, d).month = m /\ Date(y, m, d).day = d
        /\ Date(yy, mm, dd).year = yy /\ Date(yy, mm, dd).month = mm /\ Date(yy, mm, dd).day = dd
    BY DEF Date
  <2>. QED
    BY <2>1, Zenon DEF DateDigits
<1>10. /\ DateLess(y, m, d, yy, mm, dd) => lym \/ (eym /\ ld)
       /\ DateSame(y, m, d, yy, mm, dd) => eym /\ ed
  BY Zenon DEF DateLess, DateSame, lym, eym, ly, ey, lm, em, ld, ed
<1>. QED
  BY <1>8, <1>9, <1>10, Zenon DEF Ordered

-----------------------------------------------------------------------------
(* Times of a day *)

(* A number of ticks is so many seconds and a rest.                         *)
LEMMA SecondsAre ==
  ASSUME NEW t \in Nat
  PROVE  \E s \in Nat, r \in Nat :
           /\ s = t \div Ticks /\ r = t % Ticks /\ r < Ticks /\ t = s * Ticks + r
<1>1. PICK T \in Nat : T = Ticks /\ T > 0
  BY TicksArePositive
<1>2. t \div T \in Nat /\ t % T \in Nat /\ t % T < T /\ t = (t \div T) * T + (t % T)
  BY <1>1, SMT
<1>. QED
  BY <1>1, <1>2

(* A number is so many times Ticks and a rest in one way.                   *)
LEMMA SecondsAreUnique ==
  ASSUME NEW s \in Int, NEW r \in Nat, r < Ticks
  PROVE  (s * Ticks + r) \div Ticks = s /\ (s * Ticks + r) % Ticks = r
<1>1. PICK T \in Nat : T = Ticks /\ T > 0
  BY TicksArePositive
<1>2. (s * T + r) \div T = s
  BY <1>1, SMT
<1>. QED
  BY <1>1, <1>2, SMT

(* The text of a second has all digits of a tick. *)
LEMMA SubsecondsAre ==
  \E k \in Nat :
    /\ k > 0 /\ Width \in 0 .. 9 /\ TenTo(Width) = k * Ticks
    /\ \A r \in Nat : Subseconds(r) = r * k
<1>1. PICK T \in Nat : T = Ticks /\ T > 0
  BY TicksArePositive
<1>2. PICK p \in Nat : p = TenTo(Width) /\ p = StaticPow10(Width) /\ p > 0 /\ p % T = 0 /\ Width \in 0 .. 9
  BY <1>1, TicksAreDecimal, PowersOfTen, TenToNext
<1>3. PICK k \in Nat : p = k * T /\ k > 0
  <2>1. PICK k \in Int : k = p \div T
    BY <1>1, SMT
  <2>2. p = k * T
    BY <1>1, <1>2, <2>1, SMT
  <2>3. k > 0
    BY <1>1, <1>2, <2>2, SMT
  <2>. QED
    BY <2>2, <2>3
<1>4. ASSUME NEW r \in Nat
      PROVE  Subseconds(r) = r * k
  <2>1. PICK x \in Nat : x = r * k
    BY SMT
  <2>2. r * p = x * T
    BY <1>1, <1>3, <2>1, SMT
  <2>3. (x * T) \div T = x
    BY <1>1, SMT
  <2>4. Subseconds(r) = (r * p) \div T
    BY <1>1, <1>2 DEF Subseconds
  <2>. QED
    BY <2>1, <2>2, <2>3, <2>4
<1>. QED
  BY <1>1, <1>2, <1>3, <1>4

(* A second of the day has an hour, a minute and a second. *)
LEMMA SecondsOfDay ==
  ASSUME NEW s \in Nat, s < 86400
  PROVE  /\ s \div 3600 \in 0 .. 23 /\ (s \div 60) % 60 \in 0 .. 59 /\ s % 60 \in 0 .. 59
         /\ s = (s \div 3600) * 3600 + ((s \div 60) % 60) * 60 + (s % 60)
<1>1. s \div 60 \in Nat /\ s \div 60 < 1440 /\ s % 60 \in 0 .. 59 /\ s = (s \div 60) * 60 + (s % 60)
  BY SMT
<1>. DEFINE q == s \div 60
            h == q \div 60
            m == q % 60
            c == s % 60
<1>2. h \in 0 .. 23 /\ m \in 0 .. 59 /\ q = h * 60 + m
  BY <1>1, SMT
<1>3. c \in 0 .. 59 /\ s = q * 60 + c /\ q \in Nat
  BY <1>1
<1>. HIDE DEF q, h, m, c
<1>4. s = h * 3600 + m * 60 + c
  BY <1>2, <1>3
<1>5. s \div 3600 = h
  BY <1>2, <1>3, <1>4, SMT
<1>. QED
  BY <1>2, <1>3, <1>4, <1>5 DEF h, m, q, c

(* A time of the day has its seconds and its ticks.                         *)
LEMMA TicksOfDay ==
  ASSUME NEW t \in Nat, t < TicksPerDay
  PROVE  \E s \in Nat, r \in Nat : s < 86400 /\ r < Ticks /\ t = s * Ticks + r
<1>1. PICK s \in Nat, r \in Nat : r < Ticks /\ t = s * Ticks + r
  BY SecondsAre
<1>2. s < 86400
  <2>1. PICK T \in Nat : T = Ticks /\ T > 0
    BY TicksArePositive
  <2>2. s * T < 86400 * T
    BY <1>1, <2>1 DEF TicksPerDay
  <2>. QED
    BY <2>2, <2>1, SMT
<1>. QED
  BY <1>1, <1>2

(* Two times of a day are as their seconds are, or as their ticks.          *)
LEMMA TicksInOrder ==
  ASSUME NEW s \in Nat, NEW r \in Nat, r < Ticks, NEW ss \in Nat, NEW rr \in Nat, rr < Ticks
  PROVE  s * Ticks + r < ss * Ticks + rr => s < ss \/ (s = ss /\ r < rr)
<1>1. PICK T \in Nat : T = Ticks /\ T > 0
  BY TicksArePositive
<1>2. ss < s => ss * T + T <= s * T
  <2>1. ss < s => ss + 1 <= s /\ (ss + 1) * T <= s * T
    BY SMT
  <2>. QED
    BY <2>1, SMT
<1>. QED
  BY <1>1, <1>2, SMT

(* The text of what is more than the seconds. *)
Fraction(b) == IF Width > 0 THEN <<Point>> \o Digits(b, Width) ELSE <<>>

(* The text of an hour, a minute, a second and what is more. *)
HourText(h, m, s, b) ==
  <<>> \o Digits(h, 2) \o <<Colon>> \o Digits(m, 2) \o <<Colon>> \o (Digits(s, 2) \o Fraction(b))

(* A time of the day that is not negative. *)
IsTimeOfDay(tod, h, m, s, b) ==
  /\ tod.hours = h /\ tod.minutes = m /\ tod.seconds = s
  /\ tod.subseconds = b /\ ~ tod.negative

(* hh_mm_ss takes a time of the day apart.                                  *)
LEMMA TimeOfDay ==
  ASSUME NEW s \in Nat, NEW r \in Nat, r < Ticks
  PROVE  /\ IsTimeOfDay(HhMmSs(s * Ticks + r), s \div 3600, (s \div 60) % 60, s % 60, Subseconds(r))
         /\ TimeDigits(HhMmSs(s * Ticks + r))
              = HourText(s \div 3600, (s \div 60) % 60, s % 60, Subseconds(r))
<1>1. s * Ticks + r >= 0 /\ ~ (s * Ticks + r < 0)
  <2>1. PICK T \in Nat : T = Ticks
    BY TicksArePositive
  <2>2. s * T \in Nat
    BY SMT
  <2>. QED
    BY <2>1, <2>2
<1>. DEFINE t == s * Ticks + r
            tod == HhMmSs(t)
<1>. HIDE DEF t
<1>2. t >= 0 /\ ~ (t < 0) /\ t \div Ticks = s /\ t % Ticks = r
  BY SecondsAreUnique, <1>1 DEF t
<1>3. /\ tod.hours = s \div 3600 /\ tod.minutes = (s \div 60) % 60 /\ tod.seconds = s % 60
      /\ tod.subseconds = Subseconds(r) /\ ~ tod.negative
  <2>. DEFINE abs == IF t >= 0 THEN t ELSE -t
              negative == t < 0
  <2>1. tod = [hours |-> (abs \div Ticks) \div 3600, minutes |-> ((abs \div Ticks) \div 60) % 60,
               seconds |-> (abs \div Ticks) % 60, subseconds |-> Subseconds(abs % Ticks),
               negative |-> negative]
    BY Zenon DEF HhMmSs
  <2>2. abs = t
    BY <1>2
  <2>3. ~ negative
    BY <1>2
  <2>. HIDE DEF abs, negative, tod
  <2>. QED
    BY <1>2, <2>2, <2>1, <2>3
<1>. HIDE DEF tod
<1>4. TimeDigits(tod) = HourText(s \div 3600, (s \div 60) % 60, s % 60, Subseconds(r))
  <2>. DEFINE sign == IF tod.negative THEN <<Dash>> ELSE <<>>
  <2>1. sign = <<>>
    BY <1>3
  <2>2. TimeDigits(tod) = sign \o Digits(tod.hours, 2) \o <<Colon>> \o Digits(tod.minutes, 2) \o <<Colon>>
                            \o (Digits(tod.seconds, 2) \o Fraction(tod.subseconds))
    BY Zenon DEF TimeDigits, SecondsText, Fraction
  <2>. HIDE DEF sign
  <2>. QED
    BY <1>3, <2>1, <2>2 DEF HourText
<1>. QED
  BY <1>3, <1>4 DEF t, tod, IsTimeOfDay

(* What is more than the seconds, with or without a point. *)
LEMMA FractionsOrdered ==
  ASSUME NEW a \in Nat, NEW b \in Nat, a < TenTo(Width), b < TenTo(Width)
  PROVE  Ordered(a < b, a = b, Fraction(a), Fraction(b))
<1>1. CASE Width > 0
  <2>1. Width \in 1 .. 9
    BY <1>1, SubsecondsAre
  <2>2. Ordered(FALSE, TRUE, <<Point>>, <<Point>>)
    BY DEF Ordered, Point
  <2>. DEFINE l == a < b
              e == a = b
  <2>3. Ordered(FALSE \/ (TRUE /\ l), TRUE /\ e, <<Point>> \o Digits(a, Width), <<Point>> \o Digits(b, Width))
    <3>. HIDE DEF l, e
    <3>1. Ordered(l, e, Digits(a, Width), Digits(b, Width))
      BY <2>1, DigitsOrdered DEF l, e
    <3>. QED
      BY <2>2, <3>1, JoinedInOrder, Zenon
  <2>. QED
    BY <1>1, <2>3, Zenon DEF Ordered, Fraction
<1>2. CASE ~ (Width > 0)
  <2>1. a = 0 /\ b = 0
    <3>. QED
      BY <1>2, SubsecondsAre, TenToNext
  <2>2. Ordered(FALSE, TRUE, <<>>, <<>>)
    BY DEF Ordered
  <2>3. ~ (a < b)
    BY <2>1
  <2>. QED
    BY <1>2, <2>2, <2>3, Zenon DEF Fraction, Ordered
<1>. QED
  BY <1>1, <1>2

(* One time of a day is before the other, and one is the other. *)
HourLess(h, m, s, b, hh, mm, ss, bb) ==
  h < hh \/ (h = hh /\ (m < mm \/ (m = mm /\ (s < ss \/ (s = ss /\ b < bb)))))

HourSame(h, m, s, b, hh, mm, ss, bb) == h = hh /\ m = mm /\ s = ss /\ b = bb

(* Times of a day are ordered as their texts are.                           *)
LEMMA TimesOrdered ==
  ASSUME NEW h \in Nat, NEW m \in Nat, NEW s \in Nat, NEW b \in Nat,
         NEW hh \in Nat, NEW mm \in Nat, NEW ss \in Nat, NEW bb \in Nat,
         h < TenTo(2), m < TenTo(2), s < TenTo(2), b < TenTo(Width),
         hh < TenTo(2), mm < TenTo(2), ss < TenTo(2), bb < TenTo(Width)
  PROVE  Ordered(HourLess(h, m, s, b, hh, mm, ss, bb), HourSame(h, m, s, b, hh, mm, ss, bb),
                 HourText(h, m, s, b), HourText(hh, mm, ss, bb))
<1>. DEFINE lh == h < hh
            eh == h = hh
            lm == m < mm
            em == m = mm
            ls == s < ss
            es == s = ss
            lb == b < bb
            eb == b = bb
            lhm == lh \/ (eh /\ lm)
            ehm == eh /\ em
            lsb == ls \/ (es /\ lb)
            esb == es /\ eb
<1>1. /\ Ordered(lh, eh, Digits(h, 2), Digits(hh, 2))
      /\ Ordered(lm, em, Digits(m, 2), Digits(mm, 2))
      /\ Ordered(ls, es, Digits(s, 2), Digits(ss, 2))
  <2>. QED
    BY DigitsOrdered
<1>2. Ordered(lb, eb, Fraction(b), Fraction(bb))
  BY FractionsOrdered
<1>3. Colon \in Int
  BY DEF Colon
<1>. HIDE DEF lh, eh, lm, em, ls, es, lb, eb
<1>4. Ordered(lh, eh, <<>> \o Digits(h, 2), <<>> \o Digits(hh, 2))
  <2>. QED
    BY <1>1, EmptySeq, ConcatEmptySeq DEF Ordered
<1>5. Ordered(lhm, ehm, <<>> \o Digits(h, 2) \o <<Colon>> \o Digits(m, 2),
              <<>> \o Digits(hh, 2) \o <<Colon>> \o Digits(mm, 2))
  <2>. DEFINE x == <<>> \o Digits(h, 2) \o <<Colon>>
              y == <<>> \o Digits(hh, 2) \o <<Colon>>
  <2>1. Ordered(lh, eh, x, y)
    BY <1>3, <1>4, MarkAfter, Zenon
  <2>. HIDE DEF x, y
  <2>2. Ordered(lhm, ehm, x \o Digits(m, 2), y \o Digits(mm, 2))
    BY <1>1, <2>1, JoinedInOrder, Zenon
  <2>. QED
    BY <2>2 DEF x, y
<1>. HIDE DEF lhm, ehm
<1>6. Ordered(lhm, ehm, <<>> \o Digits(h, 2) \o <<Colon>> \o Digits(m, 2) \o <<Colon>>,
              <<>> \o Digits(hh, 2) \o <<Colon>> \o Digits(mm, 2) \o <<Colon>>)
  <2>. DEFINE x == <<>> \o Digits(h, 2) \o <<Colon>> \o Digits(m, 2)
              y == <<>> \o Digits(hh, 2) \o <<Colon>> \o Digits(mm, 2)
  <2>1. Ordered(lhm, ehm, x, y)
    BY <1>5
  <2>. HIDE DEF x, y
  <2>. QED
    BY <1>3, <2>1, MarkAfter, Zenon DEF x, y
<1>7. Ordered(lsb, esb, Digits(s, 2) \o Fraction(b), Digits(ss, 2) \o Fraction(bb))
  BY <1>1, <1>2, JoinedInOrder, Zenon
<1>. HIDE DEF lsb, esb
<1>8. Ordered(lhm \/ (ehm /\ lsb), ehm /\ esb, HourText(h, m, s, b), HourText(hh, mm, ss, bb))
  <2>. DEFINE x == <<>> \o Digits(h, 2) \o <<Colon>> \o Digits(m, 2) \o <<Colon>>
              y == <<>> \o Digits(hh, 2) \o <<Colon>> \o Digits(mm, 2) \o <<Colon>>
              xx == Digits(s, 2) \o Fraction(b)
              yy == Digits(ss, 2) \o Fraction(bb)
  <2>1. Ordered(lhm, ehm, x, y) /\ Ordered(lsb, esb, xx, yy)
    BY <1>6, <1>7
  <2>. HIDE DEF x, y, xx, yy
  <2>2. Ordered(lhm \/ (ehm /\ lsb), ehm /\ esb, x \o xx, y \o yy)
    BY <2>1, JoinedInOrder, Zenon
  <2>. QED
    BY <2>2, Zenon DEF HourText, x, y, xx, yy
<1>9. /\ HourLess(h, m, s, b, hh, mm, ss, bb) => lhm \/ (ehm /\ lsb)
      /\ HourSame(h, m, s, b, hh, mm, ss, bb) => ehm /\ esb
  BY Zenon DEF HourLess, HourSame, lhm, ehm, lsb, esb, lh, eh, lm, em, ls, es, lb, eb
<1>. QED
  BY <1>8, <1>9, Zenon DEF Ordered

(* So two times of a day are ordered as what hh_mm_ss writes.               *)
LEMMA DayTimesOrdered ==
  ASSUME NEW t \in Nat, t < TicksPerDay, NEW u \in Nat, u < TicksPerDay
  PROVE  Ordered(t < u, t = u, TimeDigits(HhMmSs(t)), TimeDigits(HhMmSs(u)))
<1>1. PICK k \in Nat : /\ k > 0 /\ Width \in 0 .. 9 /\ TenTo(Width) = k * Ticks
                       /\ \A r \in Nat : Subseconds(r) = r * k
  BY SubsecondsAre
<1>2. PICK s \in Nat, r \in Nat : s < 86400 /\ r < Ticks /\ t = s * Ticks + r
  BY TicksOfDay
<1>3. PICK ss \in Nat, rr \in Nat : ss < 86400 /\ rr < Ticks /\ u = ss * Ticks + rr
  BY TicksOfDay
<1>. DEFINE h == s \div 3600
            m == (s \div 60) % 60
            c == s % 60
            hh == ss \div 3600
            mm == (ss \div 60) % 60
            cc == ss % 60
            b == r * k
            bb == rr * k
<1>4. h \in 0 .. 23 /\ m \in 0 .. 59 /\ c \in 0 .. 59 /\ s = h * 3600 + m * 60 + c
  BY <1>2, SecondsOfDay
<1>5. hh \in 0 .. 23 /\ mm \in 0 .. 59 /\ cc \in 0 .. 59 /\ ss = hh * 3600 + mm * 60 + cc
  BY <1>3, SecondsOfDay
<1>6. /\ TimeDigits(HhMmSs(t)) = HourText(h, m, c, b)
      /\ TimeDigits(HhMmSs(u)) = HourText(hh, mm, cc, bb)
  BY <1>1, <1>2, <1>3, TimeOfDay
<1>7. b \in Nat /\ bb \in Nat /\ b < TenTo(Width) /\ bb < TenTo(Width) /\ (r < rr => b < bb)
  <2>1. PICK T \in Nat : T = Ticks
    BY TicksArePositive
  <2>. QED
    BY <1>1, <2>1, <1>2, <1>3, SMT
<1>8. t = u => s = ss /\ r = rr
  BY <1>2, <1>3, SecondsAreUnique
<1>. HIDE DEF h, m, c, hh, mm, cc
<1>9. s = ss => h = hh /\ m = mm /\ c = cc
  BY <1>4, <1>5
<1>10. r = rr => b = bb
  OBVIOUS
<1>. HIDE DEF b, bb
<1>11. /\ h \in Nat /\ m \in Nat /\ c \in Nat /\ h < TenTo(2) /\ m < TenTo(2) /\ c < TenTo(2)
       /\ hh \in Nat /\ mm \in Nat /\ cc \in Nat /\ hh < TenTo(2) /\ mm < TenTo(2) /\ cc < TenTo(2)
  BY <1>4, <1>5, TenToNext
<1>. DEFINE less == HourLess(h, m, c, b, hh, mm, cc, bb)
            same == HourSame(h, m, c, b, hh, mm, cc, bb)
<1>12. Ordered(less, same, HourText(h, m, c, b), HourText(hh, mm, cc, bb))
  BY <1>7, <1>11, TimesOrdered
<1>13. t < u => less
  BY <1>7, <1>2, <1>3, TicksInOrder, <1>4, <1>5, <1>9 DEF HourLess
<1>. HIDE DEF less, same
<1>. QED
  BY <1>6, <1>12, <1>13, <1>8, <1>9, <1>10, Zenon DEF HourSame, Ordered

(* hh_mm_ss is a time of the day, and leads back to what it was made of.    *)
LEMMA DayTimesAre ==
  ASSUME NEW t \in Nat, t < TicksPerDay
  PROVE  InConventionalRange(HhMmSs(t)) /\ ToDuration(HhMmSs(t)) = Subseconds(t)
<1>1. PICK k \in Nat : /\ k > 0 /\ Width \in 0 .. 9 /\ TenTo(Width) = k * Ticks
                       /\ \A r \in Nat : Subseconds(r) = r * k
  BY SubsecondsAre
<1>2. PICK s \in Nat, r \in Nat : s < 86400 /\ r < Ticks /\ t = s * Ticks + r
  BY TicksOfDay
<1>3. PICK T \in Nat : T = Ticks
  BY TicksArePositive
<1>. DEFINE h == s \div 3600
            m == (s \div 60) % 60
            c == s % 60
            tod == HhMmSs(t)
<1>4. h \in 0 .. 23 /\ m \in 0 .. 59 /\ c \in 0 .. 59 /\ s = h * 3600 + m * 60 + c
  BY <1>2, SecondsOfDay
<1>5. /\ tod.hours = h /\ tod.minutes = m /\ tod.seconds = c
      /\ tod.subseconds = r * k /\ ~ tod.negative
  <2>1. IsTimeOfDay(HhMmSs(s * Ticks + r), h, m, c, Subseconds(r))
    BY <1>2, TimeOfDay
  <2>2. IsTimeOfDay(tod, h, m, c, r * k)
    BY <1>2, <2>1, <1>1
  <2>. HIDE DEF tod, h, m, c
  <2>. QED
    BY <2>2, Zenon DEF IsTimeOfDay
<1>6. StaticPow10(Width) = k * T
  BY <1>1, <1>3, PowersOfTen
<1>. HIDE DEF h, m, c, tod
<1>7. InConventionalRange(tod)
  <2>. QED
    BY <1>4, <1>5, <1>6, <1>1, <1>2, <1>3, SMT DEF InConventionalRange
<1>8. ToDuration(tod) = Subseconds(t)
  <2>. QED
    BY <1>4, <1>5, <1>6, <1>1, <1>2, <1>3, SMT DEF ToDuration
<1>. QED
  BY <1>7, <1>8 DEF tod

(* A time is a day and a time of that day, before the epoch too.            *)
LEMMA DaysAndTimes ==
  ASSUME NEW n \in Int, NEW t \in Nat, t < TicksPerDay
  PROVE  /\ Fields(n * TicksPerDay + t).ymd = FromDays(n)
         /\ Fields(n * TicksPerDay + t).tod = HhMmSs(t)
         /\ StreamedTime(n * TicksPerDay + t)
              = StreamedDate(FromDays(n)) \o <<Blank>> \o TimeDigits(HhMmSs(t))
<1>1. PICK D \in Nat : D = TicksPerDay /\ D > 0
  BY TicksArePositive DEF TicksPerDay
<1>. DEFINE time == n * D + t
<1>2. time \in Int /\ n * D \in Int
  BY SMT
<1>3. time \div D = n
  BY <1>1, SMT
<1>4. time - n * D = t
  BY <1>2
<1>5. StreamedTime(time) = StreamedDate(FromDays(n)) \o <<Blank>> \o TimeDigits(HhMmSs(t))
  BY <1>1, <1>3, <1>4, Zenon DEF StreamedTime
<1>6. CASE n >= 0
  <2>. HIDE DEF time
  <2>1. Fields(time) = [ymd |-> FromDays(n), tod |-> HhMmSs(t)]
    BY <1>1, <1>4, <1>3, <1>6, <1>2, SMT DEF Quotient, Fields
  <2>. QED
    BY <1>1, <1>5, <2>1 DEF time
<1>7. CASE n < 0
  <2>1. time < 0
    BY <1>1, <1>7, SMT
  <2>2. CASE t = 0
    <3>1. Quotient(time, D) = n
      BY <2>1, <1>1, <2>2, SMT DEF Quotient
    <3>. HIDE DEF time
    <3>2. Fields(time) = [ymd |-> FromDays(n), tod |-> HhMmSs(t)]
      BY <1>1, <1>4, <3>1, <1>2 DEF Fields
    <3>. QED
      BY <1>1, <1>5, <3>2 DEF time
  <2>3. CASE t # 0
    <3>1. Quotient(time, D) = n + 1
      BY <2>1, <1>1, <2>3, SMT DEF Quotient
    <3>2. ~ ((n + 1) * D <= time) /\ D - ((n + 1) * D - time) = t
      BY <1>1, <1>2, SMT
    <3>. HIDE DEF time
    <3>3. Fields(time) = [ymd |-> FromDays(n), tod |-> HhMmSs(t)]
      BY <1>1, <3>1, <3>2 DEF Fields
    <3>. QED
      BY <1>1, <1>5, <3>3 DEF time
  <2>. QED
    BY <2>2, <2>3
<1>. QED
  BY <1>6, <1>7

-----------------------------------------------------------------------------
(* The days n and n + 1, whose dates are written with four digits and two. *)
Today(n, y, m, d, yy, mm, dd) ==
  /\ y \in Nat /\ m \in Nat /\ d \in Nat /\ yy \in Nat /\ mm \in Nat /\ dd \in Nat
  /\ y < TenTo(4) /\ m < TenTo(2) /\ d < TenTo(2) /\ yy < TenTo(4) /\ mm < TenTo(2) /\ dd < TenTo(2)
  /\ FromDays(n) = Date(y, m, d) /\ FromDays(n + 1) = Date(yy, mm, dd)
  /\ DateLess(y, m, d, yy, mm, dd)

(* The years of the days whose times are formatted. *)
LEMMA FourDigitYears ==
  ASSUME NEW n \in -StampDays..StampDays, NEW y, NEW m, NEW d, FromDays(n) = Date(y, m, d)
  PROVE  y \in Int /\ 1000 <= y /\ y <= 9998
<1>1. Date(y, m, d).year = y
  BY DEF Date
<1>2. HasFourDigits(y)
  BY TimesAreShown, <1>1 DEF FourDigitYear
<1>. QED
  BY <1>2 DEF HasFourDigits

(* Both ways to write a date give the same text. *)
LEMMA DatesAreStreamed ==
  ASSUME NEW n \in -StampDays..StampDays, NEW y, NEW m, NEW d, FromDays(n) = Date(y, m, d)
  PROVE  StreamedDate(FromDays(n)) = DateDigits(FromDays(n))
<1>. DEFINE Fit(w, x) == y < StaticPow10(x) /\ \A v \in w .. x - 1 : y >= StaticPow10(v)
<1>1. y \in Int /\ 1000 <= y /\ y <= 9998 /\ FromDays(n).year = y
  BY FourDigitYears DEF Date
<1>2. StaticPow10(1) = 10 /\ StaticPow10(2) = 100 /\ StaticPow10(3) = 1000 /\ StaticPow10(4) = 10000
  BY PowersOfTen DEF TenTo
<1>3. /\ \A x \in 1 .. 9 : Fit(1, x) <=> x = 4
      /\ \A x \in 4 .. 9 : Fit(4, x) <=> x = 4
  BY <1>1, <1>2
<1>. DEFINE long(w) == CHOOSE x \in w .. 9 : Fit(w, x)
<1>4. long(1) = 4 /\ long(4) = 4
  BY <1>3
<1>5. \A w \in {1, 4} : Digits(y, w) = [i \in 1 .. long(w) |-> (y \div StaticPow10(long(w) - i)) % 10]
  BY Zenon DEF Digits
<1>. HIDE DEF long
<1>6. Digits(y, 1) = Digits(y, 4)
  BY <1>4, <1>5
<1>7. Digits(FromDays(n).year, 1) = YearText(FromDays(n).year)
  BY <1>1, <1>6 DEF YearText
<1>. QED
  BY <1>7, Zenon DEF StreamedDate, DateDigits

(* Days one after another have dates one after another, which are written   *)
(* with four digits and two and two.                                        *)
LEMMA DaysInOrder ==
  ASSUME IndInv, now \in -StampDays..StampDays
  PROVE  \E y, m, d, yy, mm, dd : Today(now, y, m, d, yy, mm, dd)
<1>1. InRange(now) /\ InRange(now + 1) /\ now \in Int
  BY BoundsFit DEF IndInv
<1>2. PICK y, m, d, iso : IsShown(now, y, m, d, iso)
  BY <1>1, ShownIs
<1>3. PICK yy, mm, dd, next : IsShown(now + 1, yy, mm, dd, next)
  BY <1>1, ShownIs
<1>4. /\ IsDay(now, y, m, d) /\ FromDays(now) = Date(y, m, d)
      /\ IsDay(now + 1, yy, mm, dd) /\ FromDays(now + 1) = Date(yy, mm, dd)
  BY <1>2, <1>3, ShownFields
<1>5. y \in Int /\ 1 <= y /\ y <= 9998
  BY <1>4, FourDigitYears
<1>6. /\ m \in 1 .. 12 /\ d \in Int /\ 1 <= d /\ d <= LastDay(YearMonth(y, m))
      /\ yy \in Int /\ mm \in 1 .. 12 /\ dd \in Int /\ 1 <= dd /\ dd <= LastDay(YearMonth(yy, mm))
  BY <1>4 DEF IsDay
<1>7. \A a \in Int, b \in 1 .. 12 : LastDay(YearMonth(a, b)) \in 28 .. 31
  <2>1. ASSUME NEW a \in Int, NEW b \in 1 .. 12
        PROVE  LastDay(YearMonth(a, b)) \in 28 .. 31
    <3>. QED
      BY LastDayIs DEF YearMonth
  <2>. QED
    BY <2>1
<1>8. PICK last \in 28 .. 31 : last = LastDay(YearMonth(y, m))
  BY <1>5, <1>6, <1>7
<1>9. dd <= 31
  BY <1>6, <1>7
<1>10. /\ d < last => yy = y /\ mm = m /\ dd = d + 1
       /\ d = last /\ m < 12 => yy = y /\ mm = m + 1 /\ dd = 1
       /\ d = last /\ m = 12 => yy = y + 1 /\ mm = 1 /\ dd = 1
  BY <1>4, <1>8, NextDayIs, DayIsUnique
<1>11. DateLess(y, m, d, yy, mm, dd) /\ yy \in 1 .. 9999
  <2>1. CASE d < last
    BY <1>5, <1>6, <1>10, <2>1 DEF DateLess
  <2>2. CASE d = last /\ m < 12
    BY <1>5, <1>6, <1>10, <2>2 DEF DateLess
  <2>3. CASE d = last /\ m = 12
    BY <1>5, <1>6, <1>10, <2>3 DEF DateLess
  <2>. QED
    BY <1>6, <1>8, <2>1, <2>2, <2>3
<1>12. TenTo(2) = 100 /\ TenTo(4) = 10000
  BY TenToNext
<1>13. Today(now, y, m, d, yy, mm, dd)
  BY <1>4, <1>5, <1>6, <1>8, <1>9, <1>11, <1>12 DEF Today
<1>. QED
  BY <1>13

-----------------------------------------------------------------------------
(* What is written *)

(* What formats consist of. *)
Characters == Letters \cup DOMAIN Plain \cup {"%"}

(* A '%' waits for its letter, or is written if another one waits. *)
LEMMA PercentWrites ==
  ASSUME NEW s, NEW f
  PROVE  /\ ~ s.command => Formatted(s, "%", f).command /\ Formatted(s, "%", f).os = s.os
         /\ s.command => ~ Formatted(s, "%", f).command /\ Formatted(s, "%", f).os = s.os \o <<Percent>>
<1>. DEFINE waits == ~ s.command
<1>1. Formatted(s, "%", f) = [command |-> waits, os |-> Waiting(s)]
  BY DEF Letters, Plain, Formatted
<1>. HIDE DEF waits
<1>2. Formatted(s, "%", f).command = waits /\ Formatted(s, "%", f).os = Waiting(s)
  BY <1>1
<1>. QED
  BY <1>2 DEF waits, Waiting

(* A letter after a '%' writes its text. *)
LEMMA LetterWrites ==
  ASSUME NEW s, NEW f, NEW c \in Letters, s.command
  PROVE  ~ Formatted(s, c, f).command /\ Formatted(s, c, f).os = s.os \o Command(c, f)
<1>1. c # "%" /\ c \notin DOMAIN Plain
  BY DEF Letters, Plain
<1>. QED
  BY <1>1 DEF Formatted

(* Other characters write themselves, after a '%' that waited. *)
LEMMA PlainWrites ==
  ASSUME NEW s, NEW f, NEW c \in DOMAIN Plain
  PROVE  /\ ~ Formatted(s, c, f).command
         /\ ~ s.command => Formatted(s, c, f).os = s.os \o <<Plain[c]>>
         /\ s.command => Formatted(s, c, f).os = s.os \o <<Percent>> \o <<Plain[c]>>
<1>1. c # "%" /\ c \notin Letters
  BY DEF Letters, Plain
<1>. QED
  BY <1>1 DEF Formatted, Waiting

(* The text of the first i characters of a format, of which none waits. *)
LetterAt(w, i, text) == w[i].os = text /\ ~ w[i].command

(* The first letter of a format. *)
LEMMA FirstLetter ==
  ASSUME NEW f, NEW w, w[0] = AtFirst, NEW a \in Letters,
         w[1] = Formatted(w[0], "%", f), w[2] = Formatted(w[1], a, f)
  PROVE  LetterAt(w, 2, <<>> \o Command(a, f))
<1>1. w[1].command /\ w[1].os = <<>>
  BY PercentWrites DEF AtFirst
<1>2. ~ Formatted(w[1], a, f).command /\ Formatted(w[1], a, f).os = w[1].os \o Command(a, f)
  BY <1>1, LetterWrites, Zenon
<1>. QED
  BY <1>1, <1>2 DEF LetterAt

(* A letter after others. *)
LEMMA NextLetter ==
  ASSUME NEW f, NEW w, NEW i \in Nat, NEW text, LetterAt(w, i, text), NEW a \in Letters,
         w[i + 1] = Formatted(w[i], "%", f), w[i + 2] = Formatted(w[i + 1], a, f)
  PROVE  LetterAt(w, i + 2, text \o Command(a, f))
<1>1. w[i + 1].command /\ w[i + 1].os = text
  BY PercentWrites DEF LetterAt
<1>2. /\ ~ Formatted(w[i + 1], a, f).command
      /\ Formatted(w[i + 1], a, f).os = w[i + 1].os \o Command(a, f)
  BY <1>1, LetterWrites, Zenon
<1>. QED
  BY <1>1, <1>2 DEF LetterAt

(* A mark after a letter. *)
LEMMA NextMark ==
  ASSUME NEW f, NEW w, NEW i \in Nat, NEW text, LetterAt(w, i, text), NEW p \in DOMAIN Plain,
         w[i + 1] = Formatted(w[i], p, f)
  PROVE  LetterAt(w, i + 1, text \o <<Plain[p]>>)
BY PlainWrites DEF LetterAt

(* One letter. *)
LEMMA OneLetter ==
  ASSUME NEW f, NEW a \in Letters
  PROVE  ToStream(<<"%", a>>, f) = <<>> \o Command(a, f)
<1>. DEFINE fmt == <<"%", a>>
<1>1. fmt \in Seq(Characters) /\ Len(fmt) = 2 /\ fmt[1] = "%" /\ fmt[2] = a
  BY DEF Characters
<1>. HIDE DEF fmt
<1>2. PICK w : /\ w[0] = AtFirst
               /\ \A i \in 1 .. Len(fmt) : w[i] = Formatted(w[i - 1], fmt[i], f)
               /\ ToStream(fmt, f) = Waiting(w[Len(fmt)])
  BY <1>1, WritesInOrder, Zenon
<1>3. LetterAt(w, 2, <<>> \o Command(a, f))
  BY <1>2, <1>1, FirstLetter
<1>. QED
  BY <1>1, <1>2, <1>3 DEF Waiting, LetterAt, fmt

(* Two letters. *)
LEMMA TwoLetters ==
  ASSUME NEW f, NEW a \in Letters, NEW b \in Letters
  PROVE  ToStream(<<"%", a, "%", b>>, f) = <<>> \o Command(a, f) \o Command(b, f)
<1>. DEFINE fmt == <<"%", a, "%", b>>
<1>1. /\ fmt \in Seq(Characters) /\ Len(fmt) = 4
      /\ fmt[1] = "%" /\ fmt[2] = a /\ fmt[3] = "%" /\ fmt[4] = b
  BY DEF Characters
<1>. HIDE DEF fmt
<1>2. PICK w : /\ w[0] = AtFirst
               /\ \A i \in 1 .. Len(fmt) : w[i] = Formatted(w[i - 1], fmt[i], f)
               /\ ToStream(fmt, f) = Waiting(w[Len(fmt)])
  BY <1>1, WritesInOrder, Zenon
<1>3. /\ w[1] = Formatted(w[0], "%", f) /\ w[2] = Formatted(w[1], a, f)
      /\ w[2 + 1] = Formatted(w[2], "%", f) /\ w[2 + 2] = Formatted(w[2 + 1], b, f)
  BY <1>1, <1>2
<1>4. LetterAt(w, 2, <<>> \o Command(a, f))
  BY <1>2, <1>3, FirstLetter
<1>5. LetterAt(w, 4, <<>> \o Command(a, f) \o Command(b, f))
  BY <1>3, <1>4, NextLetter
<1>. QED
  BY <1>1, <1>2, <1>5 DEF Waiting, LetterAt, fmt

(* Two letters with a mark between them. *)
LEMMA MarkBetween ==
  ASSUME NEW f, NEW a \in Letters, NEW p \in DOMAIN Plain, NEW b \in Letters
  PROVE  ToStream(<<"%", a, p, "%", b>>, f) = <<>> \o Command(a, f) \o <<Plain[p]>> \o Command(b, f)
<1>. DEFINE fmt == <<"%", a, p, "%", b>>
<1>1. /\ fmt \in Seq(Characters) /\ Len(fmt) = 5
      /\ fmt[1] = "%" /\ fmt[2] = a /\ fmt[3] = p /\ fmt[4] = "%" /\ fmt[5] = b
  BY DEF Characters
<1>. HIDE DEF fmt
<1>2. PICK w : /\ w[0] = AtFirst
               /\ \A i \in 1 .. Len(fmt) : w[i] = Formatted(w[i - 1], fmt[i], f)
               /\ ToStream(fmt, f) = Waiting(w[Len(fmt)])
  BY <1>1, WritesInOrder, Zenon
<1>3. /\ w[1] = Formatted(w[0], "%", f) /\ w[2] = Formatted(w[1], a, f)
      /\ w[2 + 1] = Formatted(w[2], p, f)
      /\ w[3 + 1] = Formatted(w[3], "%", f) /\ w[3 + 2] = Formatted(w[3 + 1], b, f)
  BY <1>1, <1>2
<1>4. LetterAt(w, 2, <<>> \o Command(a, f))
  BY <1>2, <1>3, FirstLetter
<1>5. LetterAt(w, 5, <<>> \o Command(a, f) \o <<Plain[p]>> \o Command(b, f))
  BY <1>3, <1>4, NextMark, NextLetter
<1>. QED
  BY <1>1, <1>2, <1>5 DEF Waiting, LetterAt, fmt

(* The empty text adds nothing. *)
LEMMA EmptyBefore ==
  ASSUME NEW s \in Seq(Int)
  PROVE  <<>> \o s = s
BY ConcatEmptySeq DEF EmptySeq

(* The texts of two days, and of two times of a day, are ordered as they   *)
(* are.                                                                    *)
LEMMA TextsAre ==
  ASSUME NEW n, NEW y, NEW m, NEW d, NEW yy, NEW mm, NEW dd, Today(n, y, m, d, yy, mm, dd),
         NEW t \in Nat, t < TicksPerDay, NEW u \in Nat, u < TicksPerDay
  PROVE  /\ Ordered(FALSE, TRUE, DateDigits(FromDays(n)), DateDigits(FromDays(n)))
         /\ Ordered(TRUE, FALSE, DateDigits(FromDays(n)), DateDigits(FromDays(n + 1)))
         /\ Ordered(t < u, FALSE, TimeDigits(HhMmSs(t)), TimeDigits(HhMmSs(u)))
<1>1. /\ Ordered(DateLess(y, m, d, y, m, d), DateSame(y, m, d, y, m, d),
                 DateDigits(Date(y, m, d)), DateDigits(Date(y, m, d)))
      /\ Ordered(DateLess(y, m, d, yy, mm, dd), DateSame(y, m, d, yy, mm, dd),
                 DateDigits(Date(y, m, d)), DateDigits(Date(yy, mm, dd)))
  BY DatesOrdered DEF Today
<1>2. Ordered(t < u, t = u, TimeDigits(HhMmSs(t)), TimeDigits(HhMmSs(u)))
  BY DayTimesOrdered
<1>. QED
  BY <1>1, <1>2, Zenon DEF Ordered, Today, DateSame

(* Both ways to write a time give the text of its day and of its time.      *)
LEMMA StampIs ==
  ASSUME NEW n \in Int, DateDigits(FromDays(n)) \in Seq(Int), NEW t \in Nat, t < TicksPerDay
  PROVE  /\ DateValue(n * TicksPerDay + t)
              = DateDigits(FromDays(n)) \o <<Blank>> \o TimeDigits(HhMmSs(t))
         /\ StreamedDate(FromDays(n)) = DateDigits(FromDays(n)) =>
              StreamedTime(n * TicksPerDay + t) = DateValue(n * TicksPerDay + t)
<1>. DEFINE time == n * TicksPerDay + t
            f == Fields(time)
<1>1. f.ymd = FromDays(n) /\ f.tod = HhMmSs(t)
  BY DaysAndTimes
<1>. HIDE DEF f
<1>2. "F" \in Letters /\ "T" \in Letters /\ "SP" \in DOMAIN Plain /\ Plain["SP"] = Blank
  BY DEF Letters, Plain
<1>3. Command("F", f) = DateDigits(FromDays(n)) /\ Command("T", f) = TimeDigits(HhMmSs(t))
  BY <1>1 DEF Command, IsoDate, Time
<1>4. ToStream(<<"%", "F", "SP", "%", "T">>, f)
        = <<>> \o Command("F", f) \o <<Plain["SP"]>> \o Command("T", f)
  BY <1>2, MarkBetween, Zenon
<1>5. <<>> \o DateDigits(FromDays(n)) = DateDigits(FromDays(n))
  BY EmptyBefore
<1>. QED
  BY DaysAndTimes, <1>2, <1>3, <1>4, <1>5, Zenon DEF DateValue, Format, f

(* Two texts of times, by their parts. *)
LEMMA StampsCompared ==
  ASSUME NEW l, NEW e, NEW s, NEW t, Ordered(l, e, s, t),
         NEW ll, NEW ee, NEW ss, NEW tt, Ordered(ll, ee, ss, tt)
  PROVE  l \/ (e /\ ll) => Earlier(s \o <<Blank>> \o ss, t \o <<Blank>> \o tt)
<1>. DEFINE a == s \o <<Blank>>
            b == t \o <<Blank>>
            lll == l \/ (e /\ ll)
            eee == e /\ ee
<1>1. Ordered(l, e, a, b)
  <2>1. Blank \in Int
    BY DEF Blank
  <2>. QED
    BY <2>1, MarkAfter, Zenon
<1>. HIDE DEF a, b
<1>2. Ordered(lll, eee, a \o ss, b \o tt)
  BY <1>1, JoinedInOrder, Zenon
<1>. HIDE DEF lll, eee
<1>. QED
  BY <1>2, Zenon DEF Ordered, a, b, lll

(* The texts of the times of the clock's day, and of the next day. *)
LEMMA StampsInOrder ==
  ASSUME IndInv
  PROVE  StampsAreOrdered
<1>. SUFFICES ASSUME now \in -StampDays..StampDays, NEW t \in Times
              PROVE  LET stamp == DateValue(now * TicksPerDay + t)
                         fields == Fields(now * TicksPerDay + t)
                     IN  /\ stamp = StreamedTime(now * TicksPerDay + t)
                         /\ InConventionalRange(fields.tod)
                         /\ ToDuration(fields.tod) = Subseconds(t)
                         /\ \A u \in Times :
                              /\ t < u => Earlier(stamp, DateValue(now * TicksPerDay + u))
                              /\ Earlier(stamp, DateValue((now + 1) * TicksPerDay + u))
  BY Zenon DEF StampsAreOrdered
<1>1. PICK y, m, d, yy, mm, dd : Today(now, y, m, d, yy, mm, dd)
  BY DaysInOrder
<1>2. now \in Int /\ now + 1 \in Int
  BY DEF IndInv
<1>3. \A u \in Times : u \in Nat /\ u < TicksPerDay
  <2>. QED
    BY TicksArePositive, TimesAreShown DEF TicksPerDay
<1>. DEFINE date == DateDigits(FromDays(now))
            next == DateDigits(FromDays(now + 1))
            Text(u) == TimeDigits(HhMmSs(u))
<1>4. /\ Ordered(FALSE, TRUE, date, date) /\ Ordered(TRUE, FALSE, date, next)
      /\ \A u \in Times : Ordered(t < u, FALSE, Text(t), Text(u))
  BY <1>1, <1>3, TextsAre
<1>7. StreamedDate(FromDays(now)) = date
  BY <1>1, DatesAreStreamed DEF Today
<1>5. \A u \in Times : /\ DateValue(now * TicksPerDay + u) = date \o <<Blank>> \o Text(u)
                       /\ StreamedTime(now * TicksPerDay + u) = DateValue(now * TicksPerDay + u)
                       /\ DateValue((now + 1) * TicksPerDay + u) = next \o <<Blank>> \o Text(u)
  BY <1>2, <1>3, <1>4, <1>7, StampIs, Zenon DEF Ordered
<1>. HIDE DEF date, next, Text
<1>6. ASSUME NEW u \in Times
      PROVE  /\ t < u => Earlier(date \o <<Blank>> \o Text(t), date \o <<Blank>> \o Text(u))
             /\ Earlier(date \o <<Blank>> \o Text(t), next \o <<Blank>> \o Text(u))
  <2>. DEFINE less == t < u
  <2>. HIDE DEF less
  <2>1. Ordered(less, FALSE, Text(t), Text(u))
    BY <1>4 DEF less
  <2>2. less => Earlier(date \o <<Blank>> \o Text(t), date \o <<Blank>> \o Text(u))
    BY <1>4, <2>1, StampsCompared, Zenon
  <2>. QED
    BY <2>2, <1>4, <2>1, StampsCompared, Zenon DEF less
<1>. QED
  BY <1>5, <1>2, <1>3, DaysAndTimes, DayTimesAre, <1>6

(* The texts of two times are ordered as the times are, before 1970 too,    *)
(* and both ways to write a time give the same text: for every number of    *)
(* ticks in a second and every day whose year has four digits.              *)
THEOREM StampsOrder == Spec => []StampsAreOrdered
<1>1. IndInv => StampsAreOrdered
  BY StampsInOrder
<1>. QED
  BY <1>1, Invariance, PTL

-----------------------------------------------------------------------------
(* The weeks of a year *)

(* The Monday of the week of the day n.                                     *)
WeekMonday(n) == n - (IsoEncoding((n + 4) % 7) - 1)

(* A week begins on a Monday, at most six days before each of its days. *)
LEMMA WeekMondayIs ==
  ASSUME NEW n \in Int
  PROVE  \E v \in Int : /\ WeekMonday(n) = 7 * v + 4
                        /\ WeekMonday(n) <= n /\ n <= WeekMonday(n) + 6
<1>1. PICK u \in Int, w \in 0 .. 6 : w = (n + 4) % 7 /\ n + 4 = 7 * u + w
  <2>. QED
    BY SMT
<1>2. CASE w = 0
  <2>1. WeekMonday(n) = n - 6 /\ n = 7 * u - 4
    BY <1>1, <1>2 DEF WeekMonday, IsoEncoding
  <2>2. PICK v \in Int : v = u - 2
    OBVIOUS
  <2>. QED
    BY <2>1, <2>2
<1>3. CASE w # 0
  <2>1. PICK v \in Int : v = u - 1
    OBVIOUS
  <2>2. WeekMonday(n) = 7 * v + 4 /\ 7 * v + 4 <= n /\ n <= 7 * v + 4 + 6
    BY <1>1, <1>3, <2>1 DEF WeekMonday, IsoEncoding
  <2>. QED
    BY <2>2
<1>. QED
  BY <1>2, <1>3

(* The ISO week by the usual rule, of a year that begins with the day j. *)
WeekRule(n, j) == (WeekMonday(n) - j + 10) \div 7

(* From the Monday 7 * p + 4 on, with which the ISO year begins, the rule  *)
(* counts the weeks as %V does.                                            *)
LEMMA WeekInYear ==
  ASSUME NEW n \in Int, NEW j \in Int, NEW p \in Int, j - 3 <= 7 * p + 4, 7 * p + 4 <= j + 3, 7 * p + 4 <= n
  PROVE  (n - (7 * p + 4)) \div 7 + 1 = WeekRule(n, j)
<1>1. PICK v \in Int : WeekMonday(n) = 7 * v + 4 /\ 7 * v + 4 <= n /\ n <= 7 * v + 4 + 6
  BY WeekMondayIs
<1>2. PICK e \in 0 .. 6 : e = 7 * p + 4 - (j - 3)
  OBVIOUS
<1>3. PICK r \in 0 .. 6 : r = n - (7 * v + 4)
  BY <1>1
<1>4. \A q \in Int, c \in 0 .. 6 : (7 * q + c) \div 7 = q
  BY SMT
<1>5. 7 * v + 4 - j + 10 = 7 * (v - p + 1) + e
  BY <1>2
<1>6. (7 * v + 4 - j + 10) \div 7 = v - p + 1
  <2>. QED
    BY <1>4, <1>5
<1>. QED
  BY <1>1, <1>4, <1>3, <1>6 DEF WeekRule

(* Before that Monday the rule gives no week. *)
LEMMA WeekBefore ==
  ASSUME NEW n \in Int, NEW j \in Int, NEW p \in Int, 7 * p + 4 <= j + 3, j <= n, n < 7 * p + 4
  PROVE  WeekRule(n, j) = 0
<1>1. PICK v \in Int : WeekMonday(n) = 7 * v + 4 /\ 7 * v + 4 <= n /\ n <= 7 * v + 4 + 6
  BY WeekMondayIs
<1>2. 7 * v + 4 <= 7 * p + 4 - 7
  BY <1>1
<1>3. PICK c \in 0 .. 6 : c = 7 * v + 4 - j + 10
  BY <1>1, <1>2
<1>. QED
  BY <1>1, <1>3, SMT DEF WeekRule

(* The last week of the year before is its 52nd or 53rd. *)
LEMMA LongYear ==
  ASSUME NEW n \in Int, NEW i \in Int, NEW j \in Int, NEW o \in Int, NEW p \in Int,
         j - i <= 366, 365 <= j - i, i - 3 <= 7 * o + 4, 7 * o + 4 <= i + 3,
         7 * p + 4 <= j + 3, j <= n, n < 7 * p + 4
  PROVE  (n - (7 * o + 4)) \div 7 + 1 \in 52 .. 53
<1>1. n - (7 * o + 4) < 371 /\ 362 <= n - (7 * o + 4)
  OBVIOUS
<1>2. \A q \in Int : q < 371 /\ 362 <= q => q \div 7 \in 51 .. 52
  BY SMT
<1>. QED
  BY <1>1, <1>2

(* The day n is after the Monday with which the next ISO year begins, in a  *)
(* year that is from the day j to the day k.                                *)
YearEnds(n, j, k, p) ==
  k - j <= 366 /\ 365 <= k - j /\ k - 3 <= 7 * p + 4 /\ 7 * p + 4 <= n /\ n < k

(* It is in the first week of that year, where the rule gives 53. *)
LEMMA WeekAfter ==
  ASSUME NEW n \in Int, NEW j \in Int, NEW k \in Int, NEW p \in Int, YearEnds(n, j, k, p)
  PROVE  WeekRule(n, j) = 53 /\ (n - (7 * p + 4)) \div 7 + 1 = 1
<1>1. PICK v \in Int : WeekMonday(n) = 7 * v + 4 /\ 7 * v + 4 <= n /\ n <= 7 * v + 4 + 6
  BY WeekMondayIs
<1>2. PICK c \in 0 .. 6 : c = n - (7 * p + 4)
  BY DEF YearEnds
<1>3. 7 * p + 4 - j + 10 \in 371 .. 377
  BY DEF YearEnds
<1>4. \A q \in 371 .. 377 : q \div 7 = 53
  BY SMT
<1>. QED
  BY <1>1, <1>2, <1>3, <1>4, SMT DEF YearEnds, WeekRule

(* The rule for ISO weeks, for a day of the years y and iso. *)
IsoRule(n, y, iso) ==
  LET x == n - NewYear(y) + 1
      k == (n - IsoMonday(iso)) \div 7 + 1
  IN  /\ iso \in Int /\ y - 1 <= iso /\ iso <= y + 1
      /\ x \in 1 .. 366 /\ k \in 1 .. 53
      /\ iso = y => k = WeekRule(n, NewYear(y))
      /\ iso < y => WeekRule(n, NewYear(y)) = 0 /\ k \in 52 .. 53
      /\ iso > y => WeekRule(n, NewYear(y)) = 53 /\ k = 1

(* A year has 365 or 366 days.                                              *)
LEMMA DaysOfYear ==
  ASSUME NEW y \in Int
  PROVE  365 <= NewYear(y + 1) - NewYear(y) /\ NewYear(y + 1) - NewYear(y) <= 366
<1>1. y + 1 \in Int /\ (y + 1) - 1 = y /\ y - 1 \in Int /\ (y - 1) + 1 = y
  OBVIOUS
<1>2. /\ NewYear(y) \in Int /\ FromMarch(NewYear(y)) = Before(y - 1) + 306
      /\ NewYear(y + 1) \in Int /\ FromMarch(NewYear(y + 1)) = Before(y) + 306
  BY <1>1, NewYearIs
<1>. QED
  BY <1>2, <1>1, YearLength, SMT DEF FromMarch

(* The days of an ISO year that are in another year are in the week before  *)
(* its first one or after its last one.                                     *)
LEMMA IsoRuleHolds ==
  ASSUME NEW n \in Int, NEW y \in Int, NEW iso, InIsoYear(n, iso),
         NewYear(y) <= n, n < NewYear(y + 1)
  PROVE  IsoRule(n, y, iso)
<1>1. iso \in Int /\ iso + 1 \in Int /\ IsoMonday(iso) <= n /\ n < IsoMonday(iso + 1)
  BY DEF InIsoYear
<1>2. /\ y - 1 \in Int /\ y + 1 \in Int /\ y + 2 \in Int
      /\ (y - 1) + 1 = y /\ (y + 1) + 1 = y + 2
  OBVIOUS
<1>3. PICK i \in Int, j \in Int, k \in Int, l \in Int :
        i = NewYear(y - 1) /\ j = NewYear(y) /\ k = NewYear(y + 1) /\ l = NewYear(y + 2)
  <2>1. /\ NewYear(y - 1) \in Int /\ NewYear(y) \in Int
        /\ NewYear(y + 1) \in Int /\ NewYear(y + 2) \in Int
    BY <1>2, NewYearIs
  <2>. QED
    BY <2>1
<1>4. /\ 365 <= j - i /\ j - i <= 366 /\ 365 <= k - j /\ k - j <= 366 /\ 365 <= l - k
  BY <1>2, <1>3, DaysOfYear
<1>5. \A z \in Int : \E p \in Int : IsoMonday(z) = 7 * p + 4
  <2>1. ASSUME NEW z \in Int
        PROVE  \E p \in Int : IsoMonday(z) = 7 * p + 4
    <3>1. IsoMonday(z) \in Int /\ IsoMonday(z) % 7 = 4
      BY IsoMondayIs
    <3>. QED
      BY <3>1
  <2>. QED
    BY <2>1
<1>6. PICK o \in Int, p \in Int, q \in Int, r \in Int :
        /\ IsoMonday(y - 1) = 7 * o + 4 /\ IsoMonday(y) = 7 * p + 4
        /\ IsoMonday(y + 1) = 7 * q + 4 /\ IsoMonday(y + 2) = 7 * r + 4
  <2>1. (\E o \in Int : IsoMonday(y - 1) = 7 * o + 4) /\ (\E p \in Int : IsoMonday(y) = 7 * p + 4)
    BY <1>2, <1>5
  <2>2. (\E q \in Int : IsoMonday(y + 1) = 7 * q + 4) /\ (\E r \in Int : IsoMonday(y + 2) = 7 * r + 4)
    BY <1>2, <1>5
  <2>. QED
    BY <2>1, <2>2, Zenon
<1>7. /\ i - 3 <= 7 * o + 4 /\ 7 * o + 4 <= i + 3 /\ j - 3 <= 7 * p + 4 /\ 7 * p + 4 <= j + 3
      /\ k - 3 <= 7 * q + 4 /\ 7 * q + 4 <= k + 3 /\ l - 3 <= 7 * r + 4
  BY <1>2, <1>3, <1>6, IsoMondayIs
<1>8. \A a \in Int, b \in Int : a <= b => IsoMonday(a) <= IsoMonday(b)
  <2>1. \A a \in Int : IsoMonday(a) \in Int
    BY IsoMondayIs
  <2>. QED
    BY IsoMondaysFollow, <2>1
<1>9. y - 1 <= iso
  <2>1. SUFFICES ASSUME iso + 1 <= y - 1
                 PROVE  FALSE
    BY <1>1
  <2>2. IsoMonday(iso + 1) <= 7 * o + 4
    BY <1>1, <1>2, <1>6, <1>8, <2>1
  <2>. QED
    BY <1>1, <1>3, <1>4, <1>7, <2>2, IsoMondayIs
<1>10. iso <= y + 1
  <2>1. SUFFICES ASSUME y + 2 <= iso
                 PROVE  FALSE
    BY <1>1
  <2>2. 7 * r + 4 <= IsoMonday(iso)
    BY <1>1, <1>2, <1>6, <1>8, <2>1
  <2>. QED
    BY <1>1, <1>3, <1>4, <1>7, <2>2, IsoMondayIs
<1>. DEFINE x == n - NewYear(y) + 1
            week == (n - IsoMonday(iso)) \div 7 + 1
            rule == WeekRule(n, NewYear(y))
<1>11. x \in 1 .. 366
  BY <1>3, <1>4
<1>12. CASE iso = y
  <2>1. week = rule
    <3>1. j - 3 <= 7 * p + 4 /\ 7 * p + 4 <= j + 3 /\ 7 * p + 4 <= n
      BY <1>1, <1>6, <1>7, <1>12
    <3>2. (n - (7 * p + 4)) \div 7 + 1 = WeekRule(n, j)
      BY <3>1, WeekInYear
    <3>. QED
      BY <1>3, <1>6, <1>12, <3>2
  <2>2. week \in 1 .. 53
    <3>1. PICK u \in Int : u = n - (7 * p + 4)
      OBVIOUS
    <3>2. 0 <= u /\ u <= 370
      <4>. QED
        BY <3>1, <1>1, <1>6, <1>12, <1>4, <1>7
    <3>. QED
      BY <1>6, <1>12, <3>1, <3>2, SMT
  <2>. HIDE DEF x, week, rule
  <2>3. /\ x \in 1 .. 366 /\ week \in 1 .. 53
        /\ iso = y => week = rule
        /\ iso < y => rule = 0 /\ week \in 52 .. 53
        /\ iso > y => rule = 53 /\ week = 1
    BY <1>11, <2>1, <2>2, <1>12
  <2>. QED
    BY <1>1, <1>9, <1>10, <2>3, Zenon DEF IsoRule, x, week, rule
<1>13. CASE iso = y - 1
  <2>1. j <= n /\ n < 7 * p + 4 /\ IsoMonday(iso) = 7 * o + 4
    BY <1>1, <1>2, <1>3, <1>6, <1>13
  <2>2. rule = 0
    BY <1>3, <1>7, <2>1, WeekBefore
  <2>3. week \in 52 .. 53
    <3>. QED
      BY <2>1, <1>4, <1>7, LongYear
  <2>. HIDE DEF x, week, rule
  <2>4. /\ x \in 1 .. 366 /\ week \in 1 .. 53
        /\ iso = y => week = rule
        /\ iso < y => rule = 0 /\ week \in 52 .. 53
        /\ iso > y => rule = 53 /\ week = 1
    BY <1>11, <2>2, <2>3, <1>13
  <2>. QED
    BY <1>1, <1>9, <1>10, <2>4, Zenon DEF IsoRule, x, week, rule
<1>14. CASE iso = y + 1
  <2>1. n < k /\ 7 * q + 4 <= n /\ IsoMonday(iso) = 7 * q + 4
    BY <1>1, <1>3, <1>6, <1>14
  <2>2. WeekRule(n, j) = 53 /\ (n - (7 * q + 4)) \div 7 + 1 = 1
    <3>1. YearEnds(n, j, k, q)
      BY <1>4, <1>7, <2>1 DEF YearEnds
    <3>. QED
      BY <3>1, WeekAfter
  <2>3. rule = 53 /\ week = 1
    BY <1>3, <2>1, <2>2
  <2>. HIDE DEF x, week, rule
  <2>4. /\ x \in 1 .. 366 /\ week \in 1 .. 53
        /\ iso = y => week = rule
        /\ iso < y => rule = 0 /\ week \in 52 .. 53
        /\ iso > y => rule = 53 /\ week = 1
    BY <1>11, <2>3, <1>14
  <2>. QED
    BY <1>1, <1>9, <1>10, <2>4, Zenon DEF IsoRule, x, week, rule
<1>. QED
  BY <1>1, <1>9, <1>10, <1>12, <1>13, <1>14

-----------------------------------------------------------------------------
(* The texts of dates and times *)

(* The numbers that are written of the day n, which is in the year y and in *)
(* the ISO year iso: x is the day of the year, w the weekday, k the ISO     *)
(* week.                                                                    *)
NumbersAre(n, y, m, d, iso, x, w, k) ==
  LET weekday == IsoEncoding(w)
      week == (x - weekday + 10) \div 7
  IN  /\ y \in Int /\ 1 <= y /\ y <= 9998 /\ m \in 1 .. 12 /\ d \in 1 .. 31
      /\ iso \in Nat /\ iso < TenTo(4)
      /\ x \in 1 .. 366 /\ w \in 0 .. 6 /\ k \in 1 .. 53
      /\ FromDays(n) = Date(y, m, d) /\ ToDays(Date(y, m, d)) = n
      /\ DayOfYear(Date(y, m, d)) = x /\ WeekdayFromDays(n) = w
      /\ IsoYear(n) = iso /\ IsoWeek(n) = k
      /\ WeekOfYear(n, 0) = (x + 6 - w) \div 7
      /\ WeekOfYear(n, 1) = (x + 6 - ((w + 6) % 7)) \div 7
      /\ iso = y => k = week
      /\ iso < y => week = 0 /\ k \in 52 .. 53
      /\ iso > y => week = 53 /\ k = 1

(* The clock shows these numbers. *)
IsNumbered(n, s, y, m, d, iso, x, w, k) ==
  /\ s.year = y /\ s.isoYear = iso /\ s.dayOfYear = x /\ s.weekday = w
  /\ NumbersAre(n, y, m, d, iso, x, w, k)

(* What is shown of a day whose times are formatted are such numbers. *)
LEMMA Numbered ==
  ASSUME IndInv, now \in -StampDays..StampDays
  PROVE  \E y, m, d, iso, x, w, k : IsNumbered(now, shown, y, m, d, iso, x, w, k)
<1>1. InRange(now) /\ shown = Shown(now) /\ now \in Int
  BY BoundsFit DEF IndInv
<1>2. PICK y, m, d, iso : IsShown(now, y, m, d, iso)
  BY <1>1, ShownIs
<1>. DEFINE x == now - NewYear(y) + 1
            w == (now + 4) % 7
            k == (now - IsoMonday(iso)) \div 7 + 1
<1>3. /\ IsDay(now, y, m, d) /\ Fits(y) /\ YearOk(y) /\ FromDays(now) = Date(y, m, d)
      /\ WeekdayFromDays(now) = w
      /\ shown.year = y /\ shown.weekday = w /\ shown.dayOfYear = x
  BY <1>1, <1>2, ShownFields
<1>4. InIsoYear(now, iso) /\ shown.isoYear = iso /\ IsoYear(now) = iso /\ IsoWeek(now) = k
  <2>1. InIsoYear(now, iso) /\ Shown(now).isoYear = iso /\ Shown(now).isoWeek = k
    BY <1>2 DEF IsShown
  <2>2. Shown(now).isoYear = IsoYear(now) /\ Shown(now).isoWeek = IsoWeek(now)
    BY DEF Shown
  <2>. QED
    BY <1>1, <2>1, <2>2
<1>5. y \in Int /\ 1 <= y /\ y <= 9998
  BY <1>3, FourDigitYears
<1>6. m \in 1 .. 12 /\ d \in 1 .. 31
  <2>1. m \in 1 .. 12 /\ d \in Int /\ 1 <= d /\ d <= LastDay(YearMonth(y, m)) /\ y \in Int
    BY <1>3 DEF IsDay
  <2>2. LastDay(YearMonth(y, m)) \in 28 .. 31
    BY <2>1, LastDayIs DEF YearMonth
  <2>. QED
    BY <2>1, <2>2
<1>7. ToDays(Date(y, m, d)) = now /\ DayOfYear(Date(y, m, d)) = x
  <2>. QED
    BY <1>3, DateRoundTrip, DayOfYearIs DEF Date
<1>8. /\ WeekOfYear(now, 0) = (x + 6 - w) \div 7
      /\ WeekOfYear(now, 1) = (x + 6 - ((w + 6) % 7)) \div 7
  BY <1>3, WeekOfYearIs
<1>9. IsoRule(now, y, iso)
  BY <1>1, <1>4, <1>5, <1>3, InYear, IsoRuleHolds
<1>10. w \in 0 .. 6
  BY <1>1, SMT
<1>11. (x - IsoEncoding(w) + 10) \div 7 = WeekRule(now, NewYear(y))
  <2>1. WeekMonday(now) = now - (IsoEncoding(w) - 1)
    BY DEF WeekMonday
  <2>. HIDE DEF w
  <2>2. x - IsoEncoding(w) + 10 = WeekMonday(now) - NewYear(y) + 10
    BY <1>1, <1>5, <1>10, NewYearIs, <2>1 DEF IsoEncoding
  <2>. HIDE DEF x
  <2>. QED
    BY <2>2, Zenon DEF WeekRule
<1>12. /\ iso \in Nat /\ iso < TenTo(4) /\ x \in 1 .. 366 /\ k \in 1 .. 53
       /\ iso = y => k = WeekRule(now, NewYear(y))
       /\ iso < y => WeekRule(now, NewYear(y)) = 0 /\ k \in 52 .. 53
       /\ iso > y => WeekRule(now, NewYear(y)) = 53 /\ k = 1
  <2>1. /\ iso \in Int /\ y - 1 <= iso /\ iso <= y + 1
        /\ x \in 1 .. 366 /\ k \in 1 .. 53
        /\ iso = y => k = WeekRule(now, NewYear(y))
        /\ iso < y => WeekRule(now, NewYear(y)) = 0 /\ k \in 52 .. 53
        /\ iso > y => WeekRule(now, NewYear(y)) = 53 /\ k = 1
    BY <1>9 DEF IsoRule
  <2>. HIDE DEF x, k
  <2>2. iso \in Nat /\ iso < TenTo(4)
    <3>. QED
      BY TenToNext, <2>1, <1>5, SMT
  <2>. QED
    BY <2>1, <2>2
<1>. HIDE DEF x, w, k
<1>13. NumbersAre(now, y, m, d, iso, x, w, k)
  BY <1>3, <1>4, <1>5, <1>6, <1>7, <1>8, <1>10, <1>11, <1>12 DEF NumbersAre
<1>14. IsNumbered(now, shown, y, m, d, iso, x, w, k)
  BY <1>3, <1>4, <1>13 DEF IsNumbered
<1>. QED
  BY <1>14

-----------------------------------------------------------------------------
(* A format of three letters with a mark between them, and its text. *)
ThreeLetters(a, b, c, p) == <<"%", a, p, "%", b, p, "%", c>>

ThreeTexts(a, b, c, mark) == <<>> \o a \o <<mark>> \o b \o <<mark>> \o c

(* That format writes that text. *)
LEMMA MarksBetween ==
  ASSUME NEW f, NEW a \in Letters, NEW b \in Letters, NEW c \in Letters, NEW p \in DOMAIN Plain
  PROVE  ToStream(ThreeLetters(a, b, c, p), f)
           = ThreeTexts(Command(a, f), Command(b, f), Command(c, f), Plain[p])
<1>. DEFINE fmt == <<"%", a, p, "%", b, p, "%", c>>
<1>1. /\ fmt \in Seq(Characters) /\ Len(fmt) = 8
      /\ fmt[1] = "%" /\ fmt[2] = a /\ fmt[3] = p /\ fmt[4] = "%"
      /\ fmt[5] = b /\ fmt[6] = p /\ fmt[7] = "%" /\ fmt[8] = c
  BY DEF Characters
<1>. HIDE DEF fmt
<1>2. PICK w : /\ w[0] = AtFirst
               /\ \A i \in 1 .. Len(fmt) : w[i] = Formatted(w[i - 1], fmt[i], f)
               /\ ToStream(fmt, f) = Waiting(w[Len(fmt)])
  BY <1>1, WritesInOrder, Zenon
<1>3. /\ w[1] = Formatted(w[0], "%", f) /\ w[2] = Formatted(w[1], a, f)
      /\ w[2 + 1] = Formatted(w[2], p, f)
      /\ w[3 + 1] = Formatted(w[3], "%", f) /\ w[3 + 2] = Formatted(w[3 + 1], b, f)
      /\ w[5 + 1] = Formatted(w[5], p, f)
      /\ w[6 + 1] = Formatted(w[6], "%", f) /\ w[6 + 2] = Formatted(w[6 + 1], c, f)
  BY <1>1, <1>2
<1>4. LetterAt(w, 2, <<>> \o Command(a, f))
  BY <1>2, <1>3, FirstLetter
<1>5. LetterAt(w, 8, <<>> \o Command(a, f) \o <<Plain[p]>> \o Command(b, f) \o <<Plain[p]>> \o Command(c, f))
  BY <1>3, <1>4, NextMark, NextLetter
<1>. QED
  BY <1>1, <1>2, <1>5 DEF Waiting, LetterAt, fmt, ThreeLetters, ThreeTexts

(* Two texts of two characters. *)
LEMMA PairsJoined ==
  ASSUME NEW a \in Int, NEW b \in Int, NEW c \in Int, NEW d \in Int
  PROVE  <<a, b>> \o <<c, d>> = <<a, b, c, d>>
<1>. DEFINE s == <<a, b>> \o <<c, d>>
            t == <<a, b, c, d>>
<1>1. s \in Seq(Int) /\ Len(s) = 4 /\ s[1] = a /\ s[2] = b /\ s[3] = c /\ s[4] = d
  <2>1. /\ s \in Seq(Int) /\ Len(s) = 2 + 2
        /\ \A i \in 1 .. 2 + 2 : s[i] = IF i <= 2 THEN <<a, b>>[i] ELSE <<c, d>>[i - 2]
    BY ConcatProperties
  <2>. HIDE DEF s
  <2>. QED
    BY <2>1
<1>2. t \in Seq(Int) /\ Len(t) = 4 /\ t[1] = a /\ t[2] = b /\ t[3] = c /\ t[4] = d
  OBVIOUS
<1>. HIDE DEF s, t
<1>3. \A i \in 1 .. Len(s) : s[i] = t[i]
  BY <1>1, <1>2
<1>. QED
  BY <1>1, <1>2, <1>3, SeqEqual DEF s, t

(* Texts with one character more. *)
LEMMA MarkAdded ==
  ASSUME NEW a \in Int, NEW b \in Int, NEW c \in Int
  PROVE  <<a>> \o <<b>> = <<a, b>> /\ <<a, b>> \o <<c>> = <<a, b, c>>
<1>1. /\ <<a>> \o <<b>> \in Seq(Int) /\ Len(<<a>> \o <<b>>) = 1 + 1
      /\ \A i \in 1 .. 1 + 1 : (<<a>> \o <<b>>)[i] = IF i <= 1 THEN <<a>>[i] ELSE <<b>>[i - 1]
  <2>. QED
    BY ConcatProperties
<1>2. /\ <<a, b>> \o <<c>> \in Seq(Int) /\ Len(<<a, b>> \o <<c>>) = 2 + 1
      /\ \A i \in 1 .. 2 + 1 : (<<a, b>> \o <<c>>)[i] = IF i <= 2 THEN <<a, b>>[i] ELSE <<c>>[i - 2]
  <2>. QED
    BY ConcatProperties
<1>. DEFINE s == <<a>> \o <<b>>
            t == <<a, b>>
            ss == <<a, b>> \o <<c>>
            tt == <<a, b, c>>
<1>3. /\ s \in Seq(Int) /\ Len(s) = 2 /\ s[1] = a /\ s[2] = b
      /\ t \in Seq(Int) /\ Len(t) = 2 /\ t[1] = a /\ t[2] = b
  BY <1>1
<1>4. /\ ss \in Seq(Int) /\ Len(ss) = 3 /\ ss[1] = a /\ ss[2] = b /\ ss[3] = c
      /\ tt \in Seq(Int) /\ Len(tt) = 3 /\ tt[1] = a /\ tt[2] = b /\ tt[3] = c
  BY <1>2
<1>. HIDE DEF s, t, ss, tt
<1>5. (\A i \in 1 .. Len(s) : s[i] = t[i]) /\ (\A i \in 1 .. Len(ss) : ss[i] = tt[i])
  BY <1>3, <1>4
<1>6. s = t /\ ss = tt
  BY <1>3, <1>4, <1>5, SeqEqual
<1>. QED
  BY <1>6 DEF s, t, ss, tt

(* Two '%' are one, and one before another mark is one too. *)
LEMMA Percents ==
  ASSUME NEW f
  PROVE  ToStream(<<"%", "%", "%", "-">>, f) = <<Percent, Percent, Dash>>
<1>. DEFINE fmt == <<"%", "%", "%", "-">>
<1>1. /\ fmt \in Seq(Characters) /\ Len(fmt) = 4
      /\ fmt[1] = "%" /\ fmt[2] = "%" /\ fmt[3] = "%" /\ fmt[4] = "-"
  BY DEF Characters, Plain
<1>. HIDE DEF fmt
<1>2. PICK w : /\ w[0] = AtFirst
               /\ \A i \in 1 .. Len(fmt) : w[i] = Formatted(w[i - 1], fmt[i], f)
               /\ ToStream(fmt, f) = Waiting(w[Len(fmt)])
  BY <1>1, WritesInOrder, Zenon
<1>3. /\ w[1] = Formatted(w[0], "%", f) /\ w[2] = Formatted(w[1], "%", f)
      /\ w[3] = Formatted(w[2], "%", f) /\ w[4] = Formatted(w[3], "-", f)
  BY <1>1, <1>2
<1>4. ~ w[2].command /\ w[2].os = <<Percent>>
  <2>. QED
    BY <1>3, <1>2, PercentWrites DEF Percent, AtFirst
<1>5. w[3].command /\ w[3].os = <<Percent>>
  BY <1>3, <1>4, PercentWrites
<1>6. ~ w[4].command /\ w[4].os = <<Percent>> \o <<Percent>> \o <<Dash>>
  <2>1. "-" \in DOMAIN Plain /\ Plain["-"] = Dash
    BY DEF Plain
  <2>2. ~ Formatted(w[3], "-", f).command /\ Formatted(w[3], "-", f).os = w[3].os \o <<Percent>> \o <<Plain["-"]>>
    BY <1>5, <2>1, PlainWrites, Zenon
  <2>. QED
    BY <1>3, <1>5, <2>1, <2>2
<1>7. <<Percent>> \o <<Percent>> \o <<Dash>> = <<Percent, Percent, Dash>>
  <2>1. Percent \in Int /\ Dash \in Int
    BY DEF Percent, Dash
  <2>. QED
    BY <2>1, MarkAdded
<1>. QED
  BY <1>1, <1>2, <1>6, <1>7 DEF Waiting, fmt

(* A number of two digits. *)
LEMMA TwoDigits ==
  ASSUME NEW n \in Nat, n < TenTo(2)
  PROVE  Digits(n, 2) = <<n \div 10, n % 10>>
<1>1. Digits(n, 2) = [i \in 1 .. 2 |-> Digit(n, 2, i)]
  BY DigitsAre
<1>2. Digit(n, 2, 1) = n \div 10 /\ Digit(n, 2, 2) = n % 10
  BY SMT DEF Digit, Leading, TenTo
<1>. QED
  BY <1>1, <1>2

(* Numbers of four digits, as two and two. *)
LEMMA FourDigits ==
  ASSUME NEW n \in Nat, n < TenTo(4)
  PROVE  Digits(n \div 100, 2) \o Digits(n % 100, 2) = Digits(n, 4)
<1>1. Digits(n, 4) = [i \in 1 .. 4 |-> Digit(n, 4, i)]
  BY DigitsAre
<1>2. PICK a \in Nat, b \in Nat : a = n \div 100 /\ b = n % 100 /\ n = 100 * a + b /\ a < 100 /\ b < 100
  BY SMT DEF TenTo
<1>3. PICK u \in Int, v \in Int, x \in Int, z \in Int :
        u = a \div 10 /\ v = a % 10 /\ x = b \div 10 /\ z = b % 10
  BY SMT
<1>4. Digits(a, 2) = <<u, v>> /\ Digits(b, 2) = <<x, z>>
  BY <1>2, <1>3, TwoDigits, TenToNext
<1>5. /\ Digit(n, 4, 1) = u /\ Digit(n, 4, 2) = v
      /\ Digit(n, 4, 3) = x /\ Digit(n, 4, 4) = z
  BY <1>2, <1>3, SMT DEF Digit, Leading, TenTo
<1>6. <<u, v>> \o <<x, z>> = <<u, v, x, z>>
  BY PairsJoined
<1>7. Digits(n, 4) = <<u, v, x, z>>
  BY <1>1, <1>5
<1>. QED
  BY <1>2, <1>4, <1>6, <1>7

(* A number is written with digits. *)
LEMMA DigitsAreText ==
  ASSUME NEW w \in 1 .. 9, NEW n \in Nat, n < TenTo(w)
  PROVE  Digits(n, w) \in Seq(Int)
BY DigitsOrdered DEF Ordered

(* The hour of a time. *)
LEMMA HourIs ==
  ASSUME NEW s \in Nat, NEW r \in Nat, r < Ticks
  PROVE  (s * Ticks + r) \div (3600 * Ticks) = s \div 3600
<1>1. PICK T \in Nat : T = Ticks /\ T > 0
  BY TicksArePositive
<1>2. PICK h \in Nat, c \in Nat : h = s \div 3600 /\ c < 3600 /\ s = 3600 * h + c
  <2>1. s \div 3600 \in Nat /\ s % 3600 \in Nat /\ s % 3600 < 3600 /\ s = 3600 * (s \div 3600) + (s % 3600)
    BY SMT
  <2>. QED
    BY <2>1
<1>3. c * T + r \in Nat /\ c * T + r < 3600 * T
  <2>1. c * T + T <= 3600 * T
    <3>1. (c + 1) * T <= 3600 * T /\ (c + 1) * T = c * T + T
      BY <1>1, <1>2, SMT
    <3>. QED
      BY <3>1
  <2>. QED
    BY <1>1, <2>1, SMT
<1>4. (s * T + r) \div (3600 * T) = h
  <2>. QED
    BY <1>1, <1>2, <1>3, SMT
<1>. QED
  BY <1>1, <1>2, <1>4

(* The 12-hour clock. *)
LEMMA TwelveHours ==
  ASSUME NEW h \in 0 .. 23
  PROVE  LET hour12 == ((h + 11) % 12) + 1
         IN  Make12(h) = hour12 /\ hour12 \in 1 .. 12 /\ Make24(hour12, IsPm(h)) = h
<1>. DEFINE hour12 == ((h + 11) % 12) + 1
<1>1. CASE h = 0
  <2>. QED
    BY <1>1, SMT DEF Make12, Make24, IsPm
<1>2. CASE 1 <= h /\ h < 12
  <2>. QED
    BY <1>2, SMT DEF Make12, Make24, IsPm
<1>3. CASE h = 12
  <2>1. hour12 = 12
    BY <1>3, SMT
  <2>. QED
    BY <1>3, <2>1 DEF Make12, Make24, IsPm
<1>4. CASE 12 < h
  <2>. QED
    BY <1>4, SMT DEF Make12, Make24, IsPm
<1>. QED
  BY <1>1, <1>2, <1>3, <1>4

(* The texts of a time. *)
LEMMA TextIs ==
  ASSUME NEW time
  PROVE  /\ \A c \in Letters : Texts(time)[<<"%", c>>] = <<>> \o Command(c, Fields(time))
         /\ \A fmt \in Formats : Texts(time)[fmt] = ToStream(fmt, Fields(time))
<1>. DEFINE all == {<<"%", c>> : c \in Letters} \cup Formats
<1>1. ASSUME NEW fmt \in all
      PROVE  Texts(time)[fmt] = ToStream(fmt, Fields(time))
  BY <1>1, Zenon DEF Texts, Format
<1>2. \A c \in Letters : <<"%", c>> \in all
  OBVIOUS
<1>3. \A fmt \in Formats : fmt \in all
  OBVIOUS
<1>. HIDE DEF all
<1>. QED
  BY <1>1, <1>2, <1>3, OneLetter

(* The formats of several letters. *)
LEMMA FormatsHave ==
  /\ <<"%", "Y", "-", "%", "m", "-", "%", "d">> \in Formats
  /\ <<"%", "m", "/", "%", "d", "/", "%", "y">> \in Formats
  /\ <<"%", "H", ":", "%", "M", ":", "%", "S">> \in Formats
  /\ <<"%", "R", ":", "%", "S">> \in Formats
  /\ <<"%", "C", "%", "y">> \in Formats
  /\ <<"%", "%", "%", "-">> \in Formats
BY DEF Formats

(* The formats of a time give one text, and both clocks have one hour.      *)
LEMMA TimeAgrees ==
  ASSUME NEW n \in Int, NEW t \in Nat, t < TicksPerDay
  PROVE  AgreeOnTime(Texts(n * TicksPerDay + t), t \div (3600 * Ticks))
<1>. DEFINE time == n * TicksPerDay + t
            text == Texts(time)
            f == Fields(time)
            tod == HhMmSs(t)
<1>1. f.tod = tod
  BY DaysAndTimes
<1>2. PICK s \in Nat, r \in Nat : s < 86400 /\ r < Ticks /\ t = s * Ticks + r
  BY TicksOfDay
<1>. DEFINE h == s \div 3600
            m == (s \div 60) % 60
            c == s % 60
<1>3. h \in 0 .. 23 /\ m \in 0 .. 59 /\ c \in 0 .. 59
  BY <1>2, SecondsOfDay
<1>4. /\ IsTimeOfDay(tod, h, m, c, Subseconds(r))
      /\ TimeDigits(tod) = HourText(h, m, c, Subseconds(r))
  BY <1>2, TimeOfDay
<1>. HIDE DEF h, m, c
<1>5. HourText(h, m, c, Subseconds(r)) \in Seq(Int)
  <2>. QED
    BY <1>4, DayTimesOrdered DEF Ordered
<1>6. Digits(h, 2) \in Seq(Int) /\ Digits(m, 2) \in Seq(Int) /\ h \in Nat /\ h < TenTo(2)
  <2>1. h \in Nat /\ m \in Nat /\ h < TenTo(2) /\ m < TenTo(2) /\ 2 \in 1 .. 9
    BY <1>3, TenToNext
  <2>. QED
    BY <2>1, DigitsAreText
<1>. HIDE DEF f, tod, text
<1>7. /\ Command("H", f) = Digits(h, 2) /\ Command("M", f) = Digits(m, 2)
      /\ Command("S", f) = Digits(c, 2) \o Fraction(Subseconds(r))
      /\ Command("R", f) = Digits(h, 2) \o <<Colon>> \o Digits(m, 2)
      /\ Command("T", f) = HourText(h, m, c, Subseconds(r))
      /\ Command("I", f) = Digits(Make12(h), 2)
  <2>1. tod.hours = h /\ tod.minutes = m /\ tod.seconds = c /\ tod.subseconds = Subseconds(r)
    BY <1>4 DEF IsTimeOfDay
  <2>2. /\ Command("H", f) = Hours(f.tod.hours) /\ Command("M", f) = Minutes(f)
        /\ Command("S", f) = Seconds(f) /\ Command("R", f) = HoursAndMinutes(f)
        /\ Command("T", f) = Time(f) /\ Command("I", f) = Hours(Make12(f.tod.hours))
    BY DEF Command
  <2>. QED
    BY <1>1, <1>4, <2>1, <2>2
       DEF Hours, Minutes, Seconds, HoursAndMinutes, Time, SecondsText, Fraction
<1>8. /\ "H" \in Letters /\ "M" \in Letters /\ "S" \in Letters /\ "R" \in Letters
      /\ "T" \in Letters /\ "I" \in Letters /\ ":" \in DOMAIN Plain
  BY DEF Letters, Plain
<1>9. Plain[":"] = Colon
  BY DEF Plain
<1>10. text[<<"%", "T">>] = HourText(h, m, c, Subseconds(r))
  BY <1>5, <1>7, <1>8, TextIs, EmptyBefore DEF f, text
<1>11. text[<<"%", "H", ":", "%", "M", ":", "%", "S">>] = HourText(h, m, c, Subseconds(r))
  <2>1. text[ThreeLetters("H", "M", "S", ":")] = ToStream(ThreeLetters("H", "M", "S", ":"), f)
    <3>. QED
      BY FormatsHave, TextIs DEF ThreeLetters, f, text
  <2>2. ToStream(ThreeLetters("H", "M", "S", ":"), f)
          = ThreeTexts(Command("H", f), Command("M", f), Command("S", f), Plain[":"])
    BY <1>8, MarksBetween
  <2>. QED
    BY <1>7, <1>9, <2>1, <2>2 DEF HourText, ThreeLetters, ThreeTexts
<1>12. text[<<"%", "R", ":", "%", "S">>] = HourText(h, m, c, Subseconds(r))
  <2>1. ToStream(<<"%", "R", ":", "%", "S">>, f)
          = <<>> \o Command("R", f) \o <<Plain[":"]>> \o Command("S", f)
    BY <1>8, MarkBetween, Zenon
  <2>2. <<>> \o (Digits(h, 2) \o <<Colon>> \o Digits(m, 2)) = <<>> \o Digits(h, 2) \o <<Colon>> \o Digits(m, 2)
    <3>1. Digits(h, 2) \o <<Colon>> \o Digits(m, 2) \in Seq(Int)
      <4>. QED
        BY <1>6, ConcatProperties DEF Colon
    <3>. QED
      BY <1>6, <3>1, EmptyBefore
  <2>. QED
    BY <1>7, <1>9, FormatsHave, TextIs, <2>1, <2>2 DEF f, text, HourText
<1>. DEFINE hour12 == ((h + 11) % 12) + 1
<1>13. Make12(h) = hour12 /\ hour12 \in 1 .. 12 /\ Make24(hour12, IsPm(h)) = h
  BY <1>3, TwelveHours
<1>. HIDE DEF hour12
<1>14. text[<<"%", "I">>] = <<hour12 \div 10, hour12 % 10>>
  <2>1. hour12 \in Nat /\ hour12 < TenTo(2)
    BY <1>13, TenToNext
  <2>2. Digits(hour12, 2) = <<hour12 \div 10, hour12 % 10>> /\ Digits(hour12, 2) \in Seq(Int)
    BY <2>1, TwoDigits, DigitsAreText
  <2>. QED
    BY <2>2, <1>7, <1>8, <1>13, TextIs, EmptyBefore DEF f, text
<1>15. AgreeOnTime(text, h)
  BY <1>10, <1>11, <1>12, <1>13, <1>14 DEF AgreeOnTime, hour12
<1>. QED
  BY <1>2, HourIs, <1>15 DEF text, h

(* What each letter for a date writes, by the numbers of the date. *)
DateWritten(f, y, m, d, iso, x, w, k) ==
  /\ Command("C", f) = Digits(y \div 100, 2) /\ Command("y", f) = Digits(y % 100, 2)
  /\ Command("Y", f) = Digits(y, 4) /\ Command("m", f) = Digits(m, 2)
  /\ Command("d", f) = Digits(d, 2)
  /\ Command("e", f) = IF d < 10 THEN <<Blank, d>> ELSE Digits(d, 2)
  /\ Command("F", f) = Digits(y, 4) \o <<Dash>> \o Digits(m, 2) \o <<Dash>> \o Digits(d, 2)
  /\ Command("D", f) = Digits(m, 2) \o <<Slash>> \o Digits(d, 2) \o <<Slash>> \o Digits(y % 100, 2)
  /\ Command("G", f) = Digits(iso, 4) /\ Command("g", f) = Digits(iso % 100, 2)
  /\ Command("j", f) = Digits(x, 3) /\ Command("V", f) = Digits(k, 2)
  /\ Command("u", f) = <<IsoEncoding(w)>> /\ Command("w", f) = <<w>>
  /\ Command("U", f) = Digits((x + 6 - w) \div 7, 2)
  /\ Command("W", f) = Digits((x + 6 - ((w + 6) % 7)) \div 7, 2)

(* That is what to_stream writes. *)
LEMMA DateTexts ==
  ASSUME NEW n \in Int, NEW y, NEW m, NEW d, NEW iso, NEW x, NEW w, NEW k,
         NumbersAre(n, y, m, d, iso, x, w, k), NEW f, f.ymd = Date(y, m, d)
  PROVE  DateWritten(f, y, m, d, iso, x, w, k)
<1>1. f.ymd.year = y /\ f.ymd.month = m /\ f.ymd.day = d
  BY DEF Date
<1>2. /\ ToDays(f.ymd) = n /\ DayOfYear(f.ymd) = x /\ WeekdayFromDays(n) = w
      /\ IsoYear(n) = iso /\ IsoWeek(n) = k
      /\ WeekOfYear(n, 0) = (x + 6 - w) \div 7
      /\ WeekOfYear(n, 1) = (x + 6 - ((w + 6) % 7)) \div 7
  BY DEF NumbersAre
<1>3. /\ Command("C", f) = Century(f) /\ Command("y", f) = ShortYear(f.ymd.year)
      /\ Command("Y", f) = FullYear(f) /\ Command("m", f) = MonthNumber(f)
      /\ Command("d", f) = DayOfMonth(f) /\ Command("e", f) = BlankDay(f)
      /\ Command("F", f) = IsoDate(f) /\ Command("D", f) = AmericanDate(f)
  BY DEF Command
<1>4. /\ Command("G", f) = YearOfWeek(f) /\ Command("g", f) = ShortYear(IsoYear(ToDays(f.ymd)))
      /\ Command("j", f) = DayNumber(f) /\ Command("V", f) = WeekNumber(f)
      /\ Command("u", f) = IsoWeekday(f) /\ Command("w", f) = WeekdayNumber(f)
      /\ Command("U", f) = SundayWeek(f) /\ Command("W", f) = MondayWeek(f)
  BY DEF Command
<1>5. /\ Century(f) = Digits(y \div 100, 2) /\ ShortYear(f.ymd.year) = Digits(y % 100, 2)
      /\ FullYear(f) = Digits(y, 4) /\ MonthNumber(f) = Digits(m, 2)
      /\ DayOfMonth(f) = Digits(d, 2)
  BY <1>1 DEF Century, ShortYear, FullYear, YearText, MonthNumber, DayOfMonth
<1>6. /\ BlankDay(f) = IF d < 10 THEN <<Blank, d>> ELSE Digits(d, 2)
      /\ IsoDate(f) = Digits(y, 4) \o <<Dash>> \o Digits(m, 2) \o <<Dash>> \o Digits(d, 2)
      /\ AmericanDate(f) = Digits(m, 2) \o <<Slash>> \o Digits(d, 2) \o <<Slash>> \o Digits(y % 100, 2)
  BY <1>1, <1>5 DEF BlankDay, IsoDate, DateDigits, YearText, AmericanDate
<1>7. /\ YearOfWeek(f) = Digits(iso, 4) /\ ShortYear(IsoYear(ToDays(f.ymd))) = Digits(iso % 100, 2)
      /\ DayNumber(f) = Digits(x, 3) /\ WeekNumber(f) = Digits(k, 2)
      /\ IsoWeekday(f) = <<IsoEncoding(w)>> /\ WeekdayNumber(f) = <<w>>
  BY <1>2 DEF YearOfWeek, YearText, ShortYear, DayNumber, WeekNumber, IsoWeekday, WeekdayNumber, ExtractWeekday
<1>8. /\ SundayWeek(f) = Digits((x + 6 - w) \div 7, 2)
      /\ MondayWeek(f) = Digits((x + 6 - ((w + 6) % 7)) \div 7, 2)
  BY <1>2 DEF SundayWeek, MondayWeek
<1>. QED
  BY <1>3, <1>4, <1>5, <1>6, <1>7, <1>8 DEF DateWritten

(* The numbers that are written fit the digits they are written with.       *)
LEMMA NumbersFit ==
  ASSUME NEW n, NEW y, NEW m, NEW d, NEW iso, NEW x, NEW w, NEW k,
         NumbersAre(n, y, m, d, iso, x, w, k)
  PROVE  /\ y \in Nat /\ y < TenTo(4) /\ y \div 100 \in Nat /\ y \div 100 < TenTo(2)
         /\ y % 100 \in Nat /\ y % 100 < TenTo(2)
         /\ m \in Nat /\ m < TenTo(2) /\ d \in Nat /\ d < TenTo(2)
         /\ iso \in Nat /\ iso < TenTo(4) /\ iso % 100 \in Nat /\ iso % 100 < TenTo(2)
         /\ x \in Nat /\ x < TenTo(3) /\ k \in Nat /\ k < TenTo(2)
         /\ (x + 6 - w) \div 7 \in Nat /\ (x + 6 - w) \div 7 < TenTo(2)
         /\ (x + 6 - ((w + 6) % 7)) \div 7 \in Nat /\ (x + 6 - ((w + 6) % 7)) \div 7 < TenTo(2)
         /\ (IsoEncoding(w) % 7) = w /\ IsoEncoding(w) \in Int /\ w \in Int
<1>1. /\ y \in Int /\ 1 <= y /\ y <= 9998 /\ m \in 1 .. 12 /\ d \in 1 .. 31 /\ iso \in Nat /\ iso < TenTo(4)
      /\ x \in 1 .. 366 /\ w \in 0 .. 6 /\ k \in 1 .. 53
  BY DEF NumbersAre
<1>2. /\ y \div 100 \in Nat /\ y \div 100 < 100 /\ y % 100 \in Nat /\ y % 100 < 100
      /\ iso % 100 \in Nat /\ iso % 100 < 100
  <2>1. \A q \in Nat : q < 10000 => q \div 100 \in Nat /\ q \div 100 < 100
    BY SMT
  <2>2. y \in Nat /\ y < 10000
    BY <1>1, SMT
  <2>. QED
    BY <1>1, <2>1, <2>2, SMT
<1>3. (x + 6 - ((w + 6) % 7)) \div 7 \in Nat /\ (x + 6 - ((w + 6) % 7)) \div 7 < 100
  <2>1. PICK v \in 0 .. 6 : v = (w + 6) % 7
    BY <1>1, SMT
  <2>. QED
    BY <2>1, <1>1, SMT
<1>4. (IsoEncoding(w) % 7) = w /\ IsoEncoding(w) \in Int
  BY <1>1, SMT DEF IsoEncoding
<1>. QED
  BY <1>1, TenToNext, <1>2, <1>3, <1>4, SMT

(* Three texts with marks between them. *)
LEMMA ThreeTextsAre ==
  ASSUME NEW a \in Seq(Int), NEW b \in Seq(Int), NEW c \in Seq(Int), NEW mark \in Int
  PROVE  /\ ThreeTexts(a, b, c, mark) = a \o <<mark>> \o b \o <<mark>> \o c
         /\ a \o <<mark>> \o b \o <<mark>> \o c \in Seq(Int)
<1>1. <<mark>> \in Seq(Int)
  OBVIOUS
<1>2. a \o <<mark>> \o b \in Seq(Int)
  BY <1>1, ConcatProperties
<1>3. a \o <<mark>> \o b \o <<mark>> \in Seq(Int)
  BY <1>1, <1>2, ConcatProperties
<1>4. a \o <<mark>> \o b \o <<mark>> \o c \in Seq(Int)
  BY <1>3, ConcatProperties
<1>. QED
  BY EmptyBefore, <1>4 DEF ThreeTexts

(* The formats of a date give one text. *)
LEMMA DateAgrees ==
  ASSUME NEW n \in Int, NEW s, NEW y, NEW m, NEW d, NEW iso, NEW x, NEW w, NEW k,
         IsNumbered(n, s, y, m, d, iso, x, w, k), NEW t \in Nat, t < TicksPerDay
  PROVE  AgreeOnDate(Texts(n * TicksPerDay + t), s)
<1>. DEFINE time == n * TicksPerDay + t
            text == Texts(time)
            f == Fields(time)
            weekday == IsoEncoding(w)
            week == (x - weekday + 10) \div 7
            cc == y \div 100
            yy == y % 100
            gg == iso % 100
            uu == (x + 6 - w) \div 7
            ww == (x + 6 - ((w + 6) % 7)) \div 7
            Ymd == ThreeLetters("Y", "m", "d", "-")
            Mdy == ThreeLetters("m", "d", "y", "/")
<1>1. NumbersAre(n, y, m, d, iso, x, w, k)
  BY DEF IsNumbered
<1>2. f.ymd = Date(y, m, d)
  <2>1. FromDays(n) = Date(y, m, d)
    BY <1>1 DEF NumbersAre
  <2>. QED
    BY DaysAndTimes, <2>1
<1>. HIDE DEF f, text
<1>3. /\ Command("C", f) = Digits(cc, 2) /\ Command("y", f) = Digits(yy, 2)
      /\ Command("Y", f) = Digits(y, 4) /\ Command("m", f) = Digits(m, 2)
      /\ Command("d", f) = Digits(d, 2)
      /\ Command("e", f) = IF d < 10 THEN <<Blank, d>> ELSE Digits(d, 2)
      /\ Command("F", f) = Digits(y, 4) \o <<Dash>> \o Digits(m, 2) \o <<Dash>> \o Digits(d, 2)
      /\ Command("D", f) = Digits(m, 2) \o <<Slash>> \o Digits(d, 2) \o <<Slash>> \o Digits(yy, 2)
      /\ Command("G", f) = Digits(iso, 4) /\ Command("g", f) = Digits(gg, 2)
      /\ Command("j", f) = Digits(x, 3) /\ Command("V", f) = Digits(k, 2)
      /\ Command("u", f) = <<weekday>> /\ Command("w", f) = <<w>>
      /\ Command("U", f) = Digits(uu, 2) /\ Command("W", f) = Digits(ww, 2)
  <2>1. DateWritten(f, y, m, d, iso, x, w, k)
    BY <1>1, <1>2, DateTexts
  <2>. QED
    BY <2>1 DEF DateWritten
<1>4. /\ "C" \in Letters /\ "y" \in Letters /\ "Y" \in Letters /\ "m" \in Letters
      /\ "d" \in Letters /\ "e" \in Letters /\ "F" \in Letters /\ "D" \in Letters
      /\ "G" \in Letters /\ "g" \in Letters /\ "j" \in Letters /\ "V" \in Letters
      /\ "u" \in Letters /\ "w" \in Letters /\ "U" \in Letters /\ "W" \in Letters
      /\ "-" \in DOMAIN Plain /\ "/" \in DOMAIN Plain
  BY DEF Letters, Plain
<1>5. Plain["-"] = Dash /\ Plain["/"] = Slash
  BY DEF Plain
<1>6. \A c \in Letters : Command(c, f) \in Seq(Int) => text[<<"%", c>>] = Command(c, f)
  BY TextIs, EmptyBefore DEF text, f
<1>7. /\ Digits(cc, 2) \in Seq(Int) /\ Digits(yy, 2) \in Seq(Int)
      /\ Digits(y, 4) \in Seq(Int) /\ Digits(m, 2) \in Seq(Int) /\ Digits(d, 2) \in Seq(Int)
      /\ Digits(iso, 4) \in Seq(Int) /\ Digits(gg, 2) \in Seq(Int)
      /\ Digits(x, 3) \in Seq(Int) /\ Digits(k, 2) \in Seq(Int)
      /\ Digits(uu, 2) \in Seq(Int) /\ Digits(ww, 2) \in Seq(Int)
  <2>1. /\ cc \in Nat /\ cc < TenTo(2) /\ yy \in Nat /\ yy < TenTo(2)
        /\ y \in Nat /\ y < TenTo(4) /\ m \in Nat /\ m < TenTo(2) /\ d \in Nat /\ d < TenTo(2)
        /\ iso \in Nat /\ iso < TenTo(4) /\ gg \in Nat /\ gg < TenTo(2)
        /\ x \in Nat /\ x < TenTo(3) /\ k \in Nat /\ k < TenTo(2)
        /\ uu \in Nat /\ uu < TenTo(2) /\ ww \in Nat /\ ww < TenTo(2)
    BY <1>1, NumbersFit
  <2>. HIDE DEF cc, yy, gg, uu, ww
  <2>. QED
    BY <2>1, DigitsAreText
<1>8. Dash \in Int /\ Slash \in Int /\ Blank \in Int /\ weekday \in Int /\ weekday % 7 = w /\ w \in Int
  BY <1>1, NumbersFit DEF Dash, Slash, Blank
<1>9. text[<<"%", "F">>] = text[<<"%", "Y", "-", "%", "m", "-", "%", "d">>]
  <2>1. ToStream(Ymd, f) = ThreeTexts(Command("Y", f), Command("m", f), Command("d", f), Plain["-"])
    BY <1>4, MarksBetween
  <2>. DEFINE one == Digits(y, 4)
              two == Digits(m, 2)
              three == Digits(d, 2)
  <2>2. one \in Seq(Int) /\ two \in Seq(Int) /\ three \in Seq(Int)
    BY <1>7
  <2>3. /\ ToStream(Ymd, f) = ThreeTexts(one, two, three, Dash)
        /\ Command("F", f) = one \o <<Dash>> \o two \o <<Dash>> \o three
    BY <1>3, <1>5, <2>1
  <2>. HIDE DEF one, two, three
  <2>4. /\ ThreeTexts(one, two, three, Dash) = one \o <<Dash>> \o two \o <<Dash>> \o three
        /\ one \o <<Dash>> \o two \o <<Dash>> \o three \in Seq(Int)
    BY <2>2, <1>8, ThreeTextsAre, Zenon
  <2>5. ToStream(Ymd, f) = Command("F", f) /\ Command("F", f) \in Seq(Int)
    BY <2>3, <2>4, Zenon
  <2>. QED
    BY <1>4, <1>6, FormatsHave, TextIs, <2>5, Zenon DEF ThreeLetters, f, text
<1>10. text[<<"%", "D">>] = text[<<"%", "m", "/", "%", "d", "/", "%", "y">>]
  <2>1. ToStream(Mdy, f) = ThreeTexts(Command("m", f), Command("d", f), Command("y", f), Plain["/"])
    BY <1>4, MarksBetween
  <2>. DEFINE one == Digits(m, 2)
              two == Digits(d, 2)
              three == Digits(yy, 2)
  <2>2. one \in Seq(Int) /\ two \in Seq(Int) /\ three \in Seq(Int)
    BY <1>7
  <2>3. /\ ToStream(Mdy, f) = ThreeTexts(one, two, three, Slash)
        /\ Command("D", f) = one \o <<Slash>> \o two \o <<Slash>> \o three
    BY <1>3, <1>5, <2>1
  <2>. HIDE DEF one, two, three
  <2>4. /\ ThreeTexts(one, two, three, Slash) = one \o <<Slash>> \o two \o <<Slash>> \o three
        /\ one \o <<Slash>> \o two \o <<Slash>> \o three \in Seq(Int)
    BY <2>2, <1>8, ThreeTextsAre, Zenon
  <2>5. ToStream(Mdy, f) = Command("D", f) /\ Command("D", f) \in Seq(Int)
    BY <2>3, <2>4, Zenon
  <2>. QED
    BY <1>4, <1>6, FormatsHave, TextIs, <2>5, Zenon DEF ThreeLetters, f, text
<1>11. text[<<"%", "C", "%", "y">>] = text[<<"%", "Y">>]
  <2>1. ToStream(<<"%", "C", "%", "y">>, f) = <<>> \o Command("C", f) \o Command("y", f)
    BY <1>4, TwoLetters, Zenon
  <2>2. y \in Nat /\ y < TenTo(4)
    BY <1>1, NumbersFit
  <2>3. <<>> \o Command("C", f) \o Command("y", f) = Command("Y", f)
    <3>1. Digits(cc, 2) \o Digits(yy, 2) = Digits(y, 4)
      BY <2>2, FourDigits
    <3>. HIDE DEF cc, yy
    <3>. QED
      BY <1>3, <3>1, <1>7, EmptyBefore
  <2>4. text[<<"%", "Y">>] = Command("Y", f)
    BY <1>3, <1>4, <1>6, <1>7
  <2>. QED
    BY FormatsHave, TextIs, <2>1, <2>3, <2>4 DEF f, text
<1>12. text[<<"%", "e">>] = text[<<"%", "d">>] \/ text[<<"%", "d">>][1] = 0
  <2>1. text[<<"%", "d">>] = Digits(d, 2)
    BY <1>3, <1>4, <1>6, <1>7
  <2>2. CASE d < 10
    <3>1. d \in Nat /\ d < TenTo(2) /\ d \div 10 = 0
      <4>1. d \in Nat /\ d < TenTo(2)
        BY <1>1, NumbersFit
      <4>. QED
        BY <2>2, <4>1, SMT
    <3>. QED
      BY <2>1, <3>1, TwoDigits
  <2>3. CASE ~ (d < 10)
    <3>. QED
      BY <1>4, <1>6, <1>7, <2>1, <1>3, <2>3
  <2>. QED
    BY <2>2, <2>3
<1>13. /\ text[<<"%", "j">>] = Digits(x, 3)
       /\ text[<<"%", "G">>] = Digits(iso, 4) /\ text[<<"%", "g">>] = Digits(gg, 2)
       /\ text[<<"%", "V">>] = Digits(k, 2)
  BY <1>3, <1>4, <1>6, <1>7
<1>14. /\ text[<<"%", "U">>] = Digits(uu, 2)
       /\ text[<<"%", "W">>] = Digits(ww, 2)
  BY <1>3, <1>4, <1>6, <1>7
<1>15. text[<<"%", "u">>][1] = weekday /\ text[<<"%", "w">>] = <<w>>
  <2>1. <<weekday>> \in Seq(Int) /\ <<w>> \in Seq(Int)
    BY <1>8
  <2>2. text[<<"%", "u">>] = <<weekday>> /\ text[<<"%", "w">>] = <<w>>
    BY <1>3, <1>4, <1>6, <2>1
  <2>. QED
    BY <2>2
<1>16. /\ iso = y => text[<<"%", "V">>] = Digits(week, 2)
       /\ iso < y => week = 0 /\ text[<<"%", "V">>][1] = 5
       /\ iso > y => week = 53 /\ text[<<"%", "V">>] = <<0, 1>>
  <2>1. /\ iso = y => k = week
        /\ iso < y => week = 0 /\ k \in 52 .. 53
        /\ iso > y => week = 53 /\ k = 1
    BY <1>1 DEF NumbersAre
  <2>2. k \in Nat /\ k < TenTo(2)
    BY <1>1, NumbersFit
  <2>3. Digits(k, 2) = <<k \div 10, k % 10>>
    BY <2>2, TwoDigits
  <2>. HIDE DEF week
  <2>4. iso < y => Digits(k, 2)[1] = 5
    <3>. QED
      BY <2>1, <2>3, SMT
  <2>5. iso > y => Digits(k, 2) = <<0, 1>>
    <3>. QED
      BY <2>1, <2>3, SMT
  <2>. QED
    BY <1>13, <2>1, <2>4, <2>5
<1>17. s.year = y /\ s.isoYear = iso /\ s.dayOfYear = x /\ s.weekday = w
  BY DEF IsNumbered
<1>18. (iso = y \/ iso < y \/ iso > y) /\ ~ (iso < y /\ iso > y)
  BY <1>1, NumbersFit
<1>. HIDE DEF weekday
<1>19. /\ uu = (s.dayOfYear + 6 - s.weekday) \div 7
       /\ ww = (s.dayOfYear + 6 - ((s.weekday + 6) % 7)) \div 7
       /\ gg = s.isoYear % 100
       /\ week = (s.dayOfYear - text[<<"%", "u">>][1] + 10) \div 7
       /\ <<text[<<"%", "u">>][1] % 7>> = <<w>>
  BY <1>15, <1>17, <1>8
<1>. HIDE DEF uu, ww, gg, week, cc, yy
<1>20. CASE iso = y
  BY <1>9, <1>10, <1>11, <1>12, <1>13, <1>14, <1>15, <1>16, <1>17, <1>18, <1>19, <1>20 DEF AgreeOnDate, text
<1>21. CASE iso < y
  BY <1>9, <1>10, <1>11, <1>12, <1>13, <1>14, <1>15, <1>16, <1>17, <1>18, <1>19, <1>21 DEF AgreeOnDate, text
<1>22. CASE iso > y
  BY <1>9, <1>10, <1>11, <1>12, <1>13, <1>14, <1>15, <1>16, <1>17, <1>18, <1>19, <1>22 DEF AgreeOnDate, text
<1>. QED
  BY <1>18, <1>20, <1>21, <1>22

(* What to_stream writes for a time of the clock's day. *)
LEMMA CommandsWritten ==
  ASSUME IndInv
  PROVE  CommandsAgree
<1>. SUFFICES ASSUME now \in -StampDays..StampDays, NEW t \in Times,
                     NEW text \in {Texts(now * TicksPerDay + t)}
              PROVE  /\ AgreeOnTime(text, t \div (3600 * Ticks))
                     /\ AgreeOnDate(text, shown)
                     /\ text[<<"%", "%", "%", "-">>] = <<Percent, Percent, Dash>>
  BY DEF CommandsAgree
<1>1. PICK y, m, d, iso, x, w, k : IsNumbered(now, shown, y, m, d, iso, x, w, k)
  BY Numbered
<1>2. now \in Int
  BY DEF IndInv
<1>3. t \in Nat /\ t < TicksPerDay
  <2>. QED
    BY TicksArePositive, TimesAreShown DEF TicksPerDay
<1>4. text = Texts(now * TicksPerDay + t)
  OBVIOUS
<1>5. text[<<"%", "%", "%", "-">>] = <<Percent, Percent, Dash>>
  BY <1>4, FormatsHave, TextIs, Percents
<1>. QED
  BY <1>2, <1>3, <1>4, TimeAgrees, <1>1, DateAgrees, <1>5

(* What to_stream writes for each letter agrees with the letters that stand *)
(* for several, with the 12-hour clock and with the rule for ISO weeks, at  *)
(* every time of every day whose year has four digits, for every number of  *)
(* ticks in a second that is a decimal fraction.                            *)
THEOREM CommandsAgreement == Spec => []CommandsAgree
<1>1. IndInv => CommandsAgree
  BY CommandsWritten
<1>. QED
  BY <1>1, Invariance, PTL

-----------------------------------------------------------------------------
(* Sequences of symbols *)

(* The words that the code writes. *)
Words ==
  Methods \cup {"UNKNOWN", "Connection", "Keep-Alive", "close", "Content-Length", "Content-type",
               "Date", "now", "Server", "ServerName", "code", "any",
               "text/html", "image/jpeg", "image/png", "image/gif",
               "application/x-shockwave-flash", "text/plain", "text/css", "text/javascript",
               "undefined"}

(* All that texts consist of. *)
Symbols == STRING \cup Marks \cup Words

(* What symbols there are.                                                  *)
LEMMA SymbolsHave == Marks \subseteq Symbols /\ Words \subseteq Symbols /\ STRING \subseteq Symbols
BY Zenon DEF Symbols

(* The marks that the code looks for are symbols.                           *)
LEMMA MarksHave == {"CR", "LF", "NUL", "SP", ":", "HTTP/"} \subseteq Symbols
BY SymbolsHave DEF Marks

(* The symbols of a concatenation. *)
LEMMA Concatenation ==
  ASSUME NEW s \in Seq(Symbols), NEW t \in Seq(Symbols)
  PROVE  /\ s \o t \in Seq(Symbols)
         /\ Len(s \o t) = Len(s) + Len(t)
         /\ \A i \in 1 .. Len(s) : (s \o t)[i] = s[i]
         /\ \A i \in 1 .. Len(t) : (s \o t)[Len(s) + i] = t[i]
<1>1. Len(s) \in Nat /\ Len(t) \in Nat
  BY LenProperties
<1>. QED BY <1>1, ConcatProperties

(* The symbols of a part of a text. *)
LEMMA PartOfText ==
  ASSUME NEW text \in Seq(Symbols), NEW a \in Nat \ {0}, NEW b \in Nat, b <= Len(text)
  PROVE  /\ SubSeq(text, a, b) \in Seq(Symbols)
         /\ Len(SubSeq(text, a, b)) = IF a <= b THEN b - a + 1 ELSE 0
         /\ \A i \in 1 .. b - a + 1 : SubSeq(text, a, b)[i] = text[a + i - 1]
<1>1. \A i \in a .. b : text[i] \in Symbols
  BY LenProperties, ElementOfSeq
<1>. QED BY <1>1, SubSeqProperties

(* A part of one symbol.                                                    *)
LEMMA OneSymbol ==
  ASSUME NEW text \in Seq(Symbols), NEW i \in Nat, 1 <= i, i <= Len(text), NEW c \in Symbols, text[i] = c
  PROVE  SubSeq(text, i, i) = <<c>>
<1>1. SubSeq(text, i, i) \in Seq(Symbols) /\ Len(SubSeq(text, i, i)) = 1 /\ SubSeq(text, i, i)[1] = c
  BY PartOfText
<1>2. <<c>> \in Seq(Symbols) /\ Len(<<c>>) = 1 /\ <<c>>[1] = c
  OBVIOUS
<1>3. \A j \in 1 .. 1 : SubSeq(text, i, i)[j] = <<c>>[j]
  BY <1>1, <1>2
<1>. QED BY <1>1, <1>2, <1>3, SeqEqual

(* Texts with the same symbols are the same text.                           *)
LEMMA SameText ==
  ASSUME NEW s \in Seq(Symbols), NEW t \in Seq(Symbols), Len(s) = Len(t),
         \A i \in 1 .. Len(s) : s[i] = t[i]
  PROVE  s = t
BY SeqEqual

(* The length of a text.                                                    *)
LEMMA LengthIsNat == ASSUME NEW s \in Seq(Symbols) PROVE Len(s) \in Nat
BY LenProperties

(* The least and the greatest of a set. *)
LEMMA MinIsLeast ==
  ASSUME NEW S \in SUBSET Int, NEW x \in S, \A y \in S : x <= y PROVE Min(S) = x
<1>1. x \in Int /\ S \subseteq Int
  OBVIOUS
<1>2. ASSUME NEW m, m \in S, \A y \in S : m <= y PROVE m = x
  <2>1. m <= x /\ x <= m /\ m \in Int
    BY <1>1, <1>2
  <2>. QED BY <2>1, <1>1
<1>3. PICK m : m \in S /\ (\A y \in S : m <= y) /\ m = Min(S)
  BY Zenon DEF Min
<1>. QED BY <1>2, <1>3

-----------------------------------------------------------------------------
(* Find *)

(* The place of the first `symbol`. *)
LEMMA FindSymbol ==
  ASSUME NEW text \in Seq(Symbols), NEW symbol \in Symbols, NEW from \in Nat \ {0}
  PROVE  /\ (\A i \in from .. Len(text) : text[i] # symbol) => Find(text, <<symbol>>, from) = 0
         /\ \A i \in from .. Len(text) :
              /\ text[i] = symbol
              /\ \A j \in from .. i - 1 : text[j] # symbol
              => Find(text, <<symbol>>, from) = i
<1>. DEFINE places == {i \in from .. Len(text) : text[i] = symbol}
<1>1. Len(text) \in Nat /\ Len(<<symbol>>) = 1 /\ <<symbol>> \in Seq(Symbols) /\ <<symbol>>[1] = symbol
  BY LengthIsNat
<1>2. \A i \in from .. Len(text) : SubSeq(text, i, i + 1 - 1) = <<symbol>> <=> text[i] = symbol
  <2>. SUFFICES ASSUME NEW i \in from .. Len(text)
                PROVE SubSeq(text, i, i) = <<symbol>> <=> text[i] = symbol
    BY <1>1
  <2>1. SubSeq(text, i, i) \in Seq(Symbols) /\ Len(SubSeq(text, i, i)) = 1
        /\ SubSeq(text, i, i)[1] = text[i]
    BY <1>1, PartOfText
  <2>2. ASSUME text[i] = symbol PROVE SubSeq(text, i, i) = <<symbol>>
    <3>1. \A j \in 1 .. 1 : SubSeq(text, i, i)[j] = <<symbol>>[j]
      BY <2>1, <2>2
    <3>. QED BY <2>1, <1>1, <3>1, SameText
  <2>. QED BY <2>1, <2>2, <1>1
<1>3. Find(text, <<symbol>>, from) = IF places = {} THEN 0 ELSE Min(places)
  <2>. DEFINE found == {i \in from .. Len(text) - Len(<<symbol>>) + 1 :
                            SubSeq(text, i, i + Len(<<symbol>>) - 1) = <<symbol>>}
  <2>1. found = places
    BY <1>1, <1>2
  <2>2. Find(text, <<symbol>>, from) = IF found = {} THEN 0 ELSE Min(found)
    BY Z3 DEF Find
  <2>. QED BY <2>1, <2>2, Zenon
<1>4. places \in SUBSET Int
  BY <1>1
<1>5. ASSUME NEW i \in from .. Len(text), text[i] = symbol, \A j \in from .. i - 1 : text[j] # symbol
      PROVE  Min(places) = i /\ places # {}
  <2>1. i \in places /\ \A j \in places : i <= j
    BY <1>5, <1>1
  <2>. QED BY <2>1, <1>4, MinIsLeast
<1>. QED BY <1>3, <1>5

(* Find returns the first place of a symbol.                                *)
LEMMA FirstSymbol ==
  ASSUME NEW text \in Seq(Symbols), NEW symbol \in Symbols, NEW from \in Nat, 1 <= from,
         NEW i \in Nat, from <= i, i <= Len(text), text[i] = symbol,
         \A j \in from .. i - 1 : text[j] # symbol
  PROVE  Find(text, <<symbol>>, from) = i
<1>1. from \in Nat \ {0} /\ i \in from .. Len(text)
  BY LengthIsNat
<1>. QED BY <1>1, FindSymbol

(* The symbols of the end of a header.                                      *)
LEMMA MarkSymbols ==
  /\ EmptyLine \in Seq(Symbols) /\ Len(EmptyLine) = 4
  /\ EmptyLine[1] = "CR" /\ EmptyLine[2] = "LF" /\ EmptyLine[3] = "CR" /\ EmptyLine[4] = "LF"
<1>1. NewLine \in Seq(Symbols) /\ Len(NewLine) = 2 /\ NewLine[1] = "CR" /\ NewLine[2] = "LF"
  <2>1. "CR" \in Symbols /\ "LF" \in Symbols
    BY MarksHave
  <2>. QED BY <2>1 DEF NewLine
<1>2. /\ NewLine \o NewLine \in Seq(Symbols)
      /\ Len(NewLine \o NewLine) = 4
      /\ (NewLine \o NewLine)[1] = NewLine[1] /\ (NewLine \o NewLine)[2] = NewLine[2]
      /\ (NewLine \o NewLine)[2 + 1] = NewLine[1] /\ (NewLine \o NewLine)[2 + 2] = NewLine[2]
  <2>1. /\ NewLine \o NewLine \in Seq(Symbols) /\ Len(NewLine \o NewLine) = 2 + 2
        /\ \A i \in 1 .. 2 : (NewLine \o NewLine)[i] = NewLine[i]
        /\ \A i \in 1 .. 2 : (NewLine \o NewLine)[2 + i] = NewLine[i]
    BY <1>1, Concatenation
  <2>. QED BY <2>1
<1>. QED BY <1>1, <1>2 DEF EmptyLine

(* A mark stands where its symbols do. *)
LEMMA MarkPlaces ==
  ASSUME NEW text \in Seq(Symbols), NEW i \in Nat \ {0}
  PROVE  /\ i + 3 <= Len(text) =>
              (SubSeq(text, i, i + 4 - 1) = EmptyLine <=>
                 text[i] = "CR" /\ text[i + 1] = "LF" /\ text[i + 2] = "CR" /\ text[i + 3] = "LF")
         /\ i + 1 <= Len(text) =>
              (SubSeq(text, i, i + 2 - 1) = <<"LF", "LF">> <=> text[i] = "LF" /\ text[i + 1] = "LF")
<1>1. Len(text) \in Nat
  BY LengthIsNat
<1>2. ASSUME i + 3 <= Len(text)
      PROVE  SubSeq(text, i, i + 3) = EmptyLine <=>
               text[i] = "CR" /\ text[i + 1] = "LF" /\ text[i + 2] = "CR" /\ text[i + 3] = "LF"
  <2>. DEFINE s == SubSeq(text, i, i + 3)  t == EmptyLine
  <2>1. s \in Seq(Symbols) /\ Len(s) = 4 /\ \A j \in 1 .. 4 : s[j] = text[i + j - 1]
    BY <1>1, <1>2, PartOfText
  <2>2. t \in Seq(Symbols) /\ Len(t) = 4 /\ t[1] = "CR" /\ t[2] = "LF" /\ t[3] = "CR" /\ t[4] = "LF"
    BY MarkSymbols
  <2>3. s[1] = text[i] /\ s[2] = text[i + 1] /\ s[3] = text[i + 2] /\ s[4] = text[i + 3]
    BY <2>1
  <2>4. (\A j \in 1 .. 4 : s[j] = t[j]) <=> s[1] = t[1] /\ s[2] = t[2] /\ s[3] = t[3] /\ s[4] = t[4]
    OBVIOUS
  <2>5. s = t <=> \A j \in 1 .. 4 : s[j] = t[j]
    BY <2>1, <2>2, SameText
  <2>. QED BY <2>2, <2>3, <2>4, <2>5
<1>3. ASSUME i + 1 <= Len(text)
      PROVE  SubSeq(text, i, i + 1) = <<"LF", "LF">> <=> text[i] = "LF" /\ text[i + 1] = "LF"
  <2>. DEFINE s == SubSeq(text, i, i + 1)  t == <<"LF", "LF">>
  <2>1. s \in Seq(Symbols) /\ Len(s) = 2 /\ \A j \in 1 .. 2 : s[j] = text[i + j - 1]
    BY <1>1, <1>3, PartOfText
  <2>2. t \in Seq(Symbols) /\ Len(t) = 2 /\ t[1] = "LF" /\ t[2] = "LF"
    <3>1. "LF" \in Symbols
      BY MarksHave
    <3>. QED BY <3>1
  <2>3. s[1] = text[i] /\ s[2] = text[i + 1]
    BY <2>1
  <2>4. (\A j \in 1 .. 2 : s[j] = t[j]) <=> s[1] = t[1] /\ s[2] = t[2]
    OBVIOUS
  <2>5. s = t <=> \A j \in 1 .. 2 : s[j] = t[j]
    BY <2>1, <2>2, SameText
  <2>. QED BY <2>2, <2>3, <2>4, <2>5
<1>. QED BY <1>2, <1>3

(* An empty line begins at the place i.                                     *)
EmptyLineAt(text, i) ==
  text[i] = "CR" /\ text[i + 1] = "LF" /\ text[i + 2] = "CR" /\ text[i + 3] = "LF"

(* Two line feeds begin at the place i, the other mark that the code takes. *)
LfLfAt(text, i) == text[i] = "LF" /\ text[i + 1] = "LF"

(* The place of the first mark of each kind. *)
LEMMA FindEmptyLine ==
  ASSUME NEW text \in Seq(Symbols)
  PROVE  /\ (\A i \in 1 .. Len(text) - 3 : ~EmptyLineAt(text, i)) => Find(text, EmptyLine, 1) = 0
         /\ \A i \in 1 .. Len(text) - 3 :
              /\ EmptyLineAt(text, i)
              /\ \A j \in 1 .. i - 1 : ~EmptyLineAt(text, j)
              => Find(text, EmptyLine, 1) = i
<1>. DEFINE places == {i \in 1 .. Len(text) - 3 : EmptyLineAt(text, i)}
            found == {i \in 1 .. Len(text) - Len(EmptyLine) + 1 :
                        SubSeq(text, i, i + Len(EmptyLine) - 1) = EmptyLine}
<1>1. Len(text) \in Nat /\ Len(EmptyLine) = 4
  BY LengthIsNat, MarkSymbols
<1>2. \A i \in 1 .. Len(text) - 3 : SubSeq(text, i, i + 4 - 1) = EmptyLine <=> EmptyLineAt(text, i)
  BY <1>1, MarkPlaces DEF EmptyLineAt
<1>3. found = places
  <2>1. 1 .. Len(text) - Len(EmptyLine) + 1 = 1 .. Len(text) - 3
    BY <1>1
  <2>2. \A i : SubSeq(text, i, i + Len(EmptyLine) - 1) = SubSeq(text, i, i + 4 - 1)
    BY <1>1, Zenon
  <2>. QED BY <2>1, <2>2, <1>2
<1>4. Find(text, EmptyLine, 1) = IF found = {} THEN 0 ELSE Min(found)
  BY DEF Find
<1>5. ASSUME NEW i \in 1 .. Len(text) - 3, EmptyLineAt(text, i),
             \A j \in 1 .. i - 1 : ~EmptyLineAt(text, j)
      PROVE  Min(places) = i /\ places # {}
  <2>1. places \in SUBSET Int /\ i \in places /\ \A j \in places : i <= j
    BY <1>5, <1>1
  <2>. QED BY <2>1, MinIsLeast
<1>. HIDE DEF found
<1>. QED BY <1>3, <1>4, <1>5

(* Find returns no place of two line feeds when there is none.              *)
LEMMA FindLfLf ==
  ASSUME NEW text \in Seq(Symbols), \A i \in 1 .. Len(text) - 1 : ~LfLfAt(text, i)
  PROVE  Find(text, <<"LF", "LF">>, 1) = 0
<1>. DEFINE found == {i \in 1 .. Len(text) - Len(<<"LF", "LF">>) + 1 :
                        SubSeq(text, i, i + Len(<<"LF", "LF">>) - 1) = <<"LF", "LF">>}
<1>1. Len(text) \in Nat /\ Len(<<"LF", "LF">>) = 2
  BY LengthIsNat
<1>2. found = {}
  BY <1>1, MarkPlaces DEF LfLfAt
<1>3. Find(text, <<"LF", "LF">>, 1) = IF found = {} THEN 0 ELSE Min(found)
  BY DEF Find
<1>. HIDE DEF found
<1>. QED BY <1>2, <1>3

-----------------------------------------------------------------------------
(* Marks *)

(* The text has, up to its mark, a line that ends at the place `line`, then  *)
(* n lines of five symbols, and an empty line.                               *)
LineEnd(line, n, j) == \E i \in 0 .. n : j = line + 5 * i

(* A text that begins with a first line, which ends at the place "line", n  *)
(* lines of five symbols each and an empty line, with no other ends of      *)
(* lines in them.                                                           *)
Framed(text, line, n) ==
  /\ text \in Seq(Symbols) /\ line \in Nat \ {0} /\ n \in Nat
  /\ line + 5 * n + 3 <= Len(text)
  /\ \A j \in 1 .. line + 5 * n + 3 :
       /\ text[j] = "CR" <=> (LineEnd(line, n, j) \/ j = line + 5 * n + 2)
       /\ text[j] = "LF" <=> (LineEnd(line, n, j - 1) \/ j = line + 5 * n + 3)
       /\ text[j] # "NUL"

(* The place of its mark. *)
MarkAt(line, n) == line + 5 * n

(* A part of the text that begins before the mark has the mark, if it goes   *)
(* beyond it, and no other.                                                  *)
LEMMA MarkOfPart ==
  ASSUME NEW text, NEW line, NEW n, Framed(text, line, n),
         NEW a \in 0 .. MarkAt(line, n) - 1, NEW b \in a .. Len(text),
         NEW part \in Seq(Symbols), Len(part) = b - a,
         \A i \in 1 .. b - a : part[i] = text[a + i]
  PROVE  /\ b >= MarkAt(line, n) + 3 => EndMark(part) = [at |-> MarkAt(line, n) - a, size |-> 4]
         /\ b < MarkAt(line, n) + 3 => EndMark(part).at = 0
<1>1. PICK at : at = MarkAt(line, n)
  OBVIOUS
<1>2. /\ text \in Seq(Symbols) /\ line \in Nat \ {0} /\ n \in Nat /\ at \in Nat
      /\ at = line + 5 * n /\ at + 3 <= Len(text) /\ Len(text) \in Nat
      /\ a \in Nat /\ b \in Nat /\ a < at /\ b <= Len(text) /\ Len(part) = b - a
  BY <1>1, LengthIsNat DEF Framed, MarkAt
<1>3. \A j \in 1 .. at + 3 :
        /\ text[j] = "CR" <=> (LineEnd(line, n, j) \/ j = at + 2)
        /\ text[j] = "LF" <=> (LineEnd(line, n, j - 1) \/ j = at + 3)
  BY <1>2 DEF Framed
<1>4. ASSUME NEW j \in 1 .. at + 1, text[j] = "CR", text[j + 2] = "CR" PROVE j = at
  <2>1. LineEnd(line, n, j) \/ j = at + 2
    <3>1. j \in 1 .. at + 3
      BY <1>2
    <3>. QED BY <3>1, <1>3, <1>4
  <2>2. PICK i \in 0 .. n : j = line + 5 * i
    BY <2>1, <1>2 DEF LineEnd
  <2>3. LineEnd(line, n, j + 2) \/ j + 2 = at + 2
    <3>1. j + 2 \in 1 .. at + 3
      BY <1>2
    <3>. QED BY <3>1, <1>3, <1>4
  <2>4. ASSUME NEW k \in 0 .. n, j + 2 = line + 5 * k PROVE FALSE
    BY <2>2, <2>4, <1>2
  <2>5. j + 2 = at + 2
    BY <2>3, <2>4, Zenon DEF LineEnd
  <2>. QED BY <2>5, <1>2
<1>5. LineEnd(line, n, at)
  BY <1>2 DEF LineEnd
<1>6. /\ text[at] = "CR" /\ text[at + 1] = "LF" /\ text[at + 2] = "CR" /\ text[at + 3] = "LF"
  <2>1. at \in 1 .. at + 3 /\ at + 1 \in 1 .. at + 3 /\ at + 2 \in 1 .. at + 3 /\ at + 3 \in 1 .. at + 3
        /\ at + 1 - 1 = at
    BY <1>2
  <2>2. LineEnd(line, n, at + 1 - 1)
    BY <2>1, <1>5
  <2>3. text[at] = "CR" /\ text[at + 2] = "CR"
    BY <2>1, <1>3, <1>5
  <2>4. text[at + 1] = "LF" /\ text[at + 3] = "LF"
    BY <2>1, <2>2, <1>3
  <2>. QED BY <2>3, <2>4
<1>7. ASSUME NEW j \in 1 .. at + 2, text[j] = "LF", text[j + 1] = "LF" PROVE FALSE
  <2>1. LineEnd(line, n, j - 1) \/ j = at + 3
    <3>1. j \in 1 .. at + 3
      BY <1>2
    <3>. QED BY <3>1, <1>3, <1>7
  <2>2. PICK i \in 0 .. n : j - 1 = line + 5 * i
    BY <2>1, <1>2 DEF LineEnd
  <2>3. LineEnd(line, n, j + 1 - 1) \/ j + 1 = at + 3
    <3>1. j + 1 \in 1 .. at + 3
      BY <1>2
    <3>. QED BY <3>1, <1>3, <1>7
  <2>4. ASSUME NEW k \in 0 .. n, j + 1 - 1 = line + 5 * k PROVE FALSE
    BY <2>2, <2>4, <1>2
  <2>5. j + 1 = at + 3
    BY <2>3, <2>4 DEF LineEnd
  <2>. QED BY <2>2, <2>5, <1>2
<1>8. ASSUME NEW j \in Nat, 1 <= j, j + 3 <= Len(part), a + j <= at + 1, EmptyLineAt(part, j)
      PROVE  a + j = at
  <2>1. /\ j \in 1 .. b - a /\ j + 2 \in 1 .. b - a /\ a + (j + 2) = (a + j) + 2
        /\ a + j \in 1 .. at + 1
    BY <1>2, <1>8
  <2>2. part[j] = text[a + j] /\ part[j + 2] = text[(a + j) + 2]
    BY <2>1
  <2>. QED BY <2>1, <2>2, <1>4, <1>8 DEF EmptyLineAt
<1>9. ASSUME b >= at + 3 PROVE EndMark(part) = [at |-> at - a, size |-> 4]
  <2>1. PICK x : x = at - a
    OBVIOUS
  <2>2. /\ x \in 1 .. b - a /\ x + 1 \in 1 .. b - a /\ x + 2 \in 1 .. b - a /\ x + 3 \in 1 .. b - a
        /\ a + x = at /\ a + (x + 1) = at + 1 /\ a + (x + 2) = at + 2 /\ a + (x + 3) = at + 3
        /\ x \in 1 .. Len(part) - 3 /\ x # 0
    BY <1>2, <1>9, <2>1
  <2>3. EmptyLineAt(part, x)
    <3>1. /\ part[x] = text[at] /\ part[x + 1] = text[at + 1]
          /\ part[x + 2] = text[at + 2] /\ part[x + 3] = text[at + 3]
      BY <2>2
    <3>. QED BY <3>1, <1>6 DEF EmptyLineAt
  <2>4. ASSUME NEW j \in 1 .. x - 1, EmptyLineAt(part, j) PROVE FALSE
    <3>1. j \in Nat /\ 1 <= j /\ j + 3 <= Len(part) /\ a + j <= at + 1 /\ a + j # at
      BY <2>1, <2>2, <1>2
    <3>. QED BY <3>1, <2>4, <1>8
  <2>5. Find(part, EmptyLine, 1) = x
    BY <2>2, <2>3, <2>4, FindEmptyLine
  <2>. QED BY <2>1, <2>2, <2>5 DEF EndMark
<1>10. ASSUME b < at + 3 PROVE EndMark(part).at = 0
  <2>1. ASSUME NEW j \in 1 .. Len(part) - 3, EmptyLineAt(part, j) PROVE FALSE
    <3>1. j \in Nat /\ 1 <= j /\ j + 3 <= Len(part) /\ a + j <= at + 1 /\ a + j # at
      BY <1>10, <1>2
    <3>. QED BY <3>1, <2>1, <1>8
  <2>2. ASSUME NEW j \in 1 .. Len(part) - 1, LfLfAt(part, j) PROVE FALSE
    <3>1. /\ j \in 1 .. b - a /\ j + 1 \in 1 .. b - a /\ a + (j + 1) = (a + j) + 1
          /\ a + j \in 1 .. at + 2
      BY <1>10, <1>2
    <3>2. part[j] = text[a + j] /\ part[j + 1] = text[(a + j) + 1]
      BY <3>1
    <3>. QED BY <3>1, <3>2, <2>2, <1>7 DEF LfLfAt
  <2>3. Find(part, EmptyLine, 1) = 0 /\ Find(part, <<"LF", "LF">>, 1) = 0
    BY <2>1, <2>2, FindEmptyLine, FindLfLf
  <2>. QED BY <2>3 DEF EndMark
<1>. QED BY <1>1, <1>9, <1>10

-----------------------------------------------------------------------------
(* The headers that parsers find *)

(* Line i, from 0, has a key, ":" and a value. *)
HasLines(text, line, n) ==
  \A i \in 0 .. n - 1 :
    /\ text[line + 5 * i + 2] # ":"
    /\ text[line + 5 * i + 3] = ":"
    /\ text[line + 5 * i + 4] # ":"
    /\ \A k \in 0 .. n - 1 : text[line + 5 * i + 2] = text[line + 5 * k + 2] => i = k

(* The text up to the middle of its mark. *)
IsHead(head, text, line, n) ==
  /\ head \in Seq(Symbols)
  /\ Len(head) = line + 5 * n + 1
  /\ \A j \in 1 .. line + 5 * n + 1 : head[j] = text[j]

(* The places after the first line. *)
LEMMA PlacesInLines ==
  ASSUME NEW line \in Nat, NEW n \in Nat, NEW j \in line + 2 .. line + 5 * n + 1
  PROVE  \E i \in 0 .. n - 1 : j \in line + 5 * i + 2 .. line + 5 * i + 6
<1>1. PICK i \in Int : i = (j - line - 2) \div 5
  OBVIOUS
<1>2. 0 <= i /\ 5 * i <= j - line - 2 /\ j - line - 2 < 5 * i + 5
  BY <1>1
<1>. QED BY <1>2

(* The symbols of the line after the place p. *)
SymbolsAfter(head, text, p) ==
  /\ p \in Nat /\ p >= 1 /\ Len(head) \in Nat /\ p + 6 <= Len(head)
  /\ head[p + 2] = text[p + 2] /\ head[p + 3] = ":" /\ head[p + 4] = text[p + 4]
  /\ head[p + 5] = "CR" /\ head[p + 6] = "LF"
  /\ head[p + 2] \in Symbols \ {"CR", "LF", ":"}
  /\ head[p + 4] \in Symbols \ {"CR", "LF", ":"}

(* The symbols of a header's line are in what is read of the text.          *)
LEMMA SymbolsOfLine ==
  ASSUME NEW text, NEW line, NEW n, Framed(text, line, n), HasLines(text, line, n),
         NEW head, IsHead(head, text, line, n), NEW i \in 0 .. n - 1, NEW p, p = line + 5 * i
  PROVE  SymbolsAfter(head, text, p)
<1>1. /\ line \in Nat /\ line >= 1 /\ n \in Nat /\ head \in Seq(Symbols)
      /\ Len(head) = line + 5 * n + 1
  BY DEF Framed, IsHead
<1>2. p \in Nat /\ p >= 1 /\ i \in Nat /\ i + 1 \in 0 .. n /\ p + 6 <= Len(head) /\ Len(head) \in Nat
  BY <1>1
<1>3. /\ p + 2 \in 1 .. Len(head) /\ p + 3 \in 1 .. Len(head) /\ p + 4 \in 1 .. Len(head)
      /\ p + 5 \in 1 .. Len(head) /\ p + 6 \in 1 .. Len(head)
  BY <1>1, <1>2
<1>4. /\ head[p + 2] = text[p + 2] /\ head[p + 3] = text[p + 3] /\ head[p + 4] = text[p + 4]
      /\ head[p + 5] = text[p + 5] /\ head[p + 6] = text[p + 6]
  BY <1>1, <1>3 DEF IsHead
<1>5. /\ text[p + 2] # ":" /\ text[p + 3] = ":" /\ text[p + 4] # ":"
  BY DEF HasLines
<1>6. ASSUME NEW j \in 1 .. line + 5 * n + 1
      PROVE  /\ text[j] = "CR" => LineEnd(line, n, j)
             /\ LineEnd(line, n, j) => text[j] = "CR"
             /\ text[j] = "LF" => LineEnd(line, n, j - 1)
             /\ LineEnd(line, n, j - 1) => text[j] = "LF"
  <2>1. j \in 1 .. line + 5 * n + 3 /\ j # line + 5 * n + 2 /\ j # line + 5 * n + 3
    BY <1>1
  <2>. QED BY <2>1 DEF Framed
<1>7. LineEnd(line, n, p + 5)
  <2>1. p + 5 = line + 5 * (i + 1)
    BY <1>1
  <2>. QED BY <2>1, <1>2 DEF LineEnd
<1>8. ASSUME NEW x \in {1, 2, 3, 4}, LineEnd(line, n, p + x) PROVE FALSE
  BY <1>1, <1>2, <1>8 DEF LineEnd
<1>9. text[p + 6] = "LF"
  <2>1. p + 6 - 1 = p + 5 /\ p + 6 \in 1 .. line + 5 * n + 1
    BY <1>1, <1>2, <1>3
  <2>. QED BY <2>1, <1>6, <1>7
<1>10. text[p + 2] # "CR" /\ text[p + 4] # "CR"
  <2>1. p + 2 \in 1 .. line + 5 * n + 1 /\ p + 4 \in 1 .. line + 5 * n + 1
    BY <1>1, <1>3
  <2>. QED BY <2>1, <1>6, <1>8
<1>11. text[p + 2] # "LF" /\ text[p + 4] # "LF"
  <2>1. /\ p + 2 \in 1 .. line + 5 * n + 1 /\ p + 4 \in 1 .. line + 5 * n + 1
        /\ p + 2 - 1 = p + 1 /\ p + 4 - 1 = p + 3
    BY <1>1, <1>2, <1>3
  <2>. QED BY <2>1, <1>6, <1>8
<1>12. head[p + 2] \in Symbols \ {"CR", "LF", ":"} /\ head[p + 4] \in Symbols \ {"CR", "LF", ":"}
  BY <1>4, <1>5, <1>10, <1>11, <1>1, <1>3, ElementOfSeq
<1>13. head[p + 3] = ":" /\ head[p + 5] = "CR" /\ head[p + 6] = "LF"
  BY <1>4, <1>5, <1>3, <1>6, <1>7, <1>1, <1>9
<1>. QED BY <1>2, <1>4, <1>12, <1>13 DEF SymbolsAfter

(* The parsers find the colons of the headers' lines and no others.         *)
LEMMA ParsedColons ==
  ASSUME NEW text, NEW line, NEW n, Framed(text, line, n), HasLines(text, line, n),
         NEW head, IsHead(head, text, line, n)
  PROVE  Colons(head, line + 2) = {line + 5 * i + 3 : i \in 0 .. n - 1}
<1>1. line \in Nat /\ line >= 1 /\ n \in Nat /\ Len(head) = line + 5 * n + 1
  BY DEF Framed, IsHead
<1>2. ASSUME NEW c \in Colons(head, line + 2) PROVE \E i \in 0 .. n - 1 : c = line + 5 * i + 3
  <2>1. c \in line + 2 .. line + 5 * n + 1 /\ head[c] = ":"
    BY <1>1 DEF Colons
  <2>2. PICK i \in 0 .. n - 1 : c \in line + 5 * i + 2 .. line + 5 * i + 6
    BY <2>1, <1>1, PlacesInLines
  <2>3. PICK p : p = line + 5 * i
    OBVIOUS
  <2>4. head[p + 2] # ":" /\ head[p + 4] # ":" /\ head[p + 5] # ":" /\ head[p + 6] # ":"
    <3>1. SymbolsAfter(head, text, p)
      BY <2>3, SymbolsOfLine
    <3>. QED BY <3>1 DEF SymbolsAfter
  <2>5. c = p + 2 \/ c = p + 3 \/ c = p + 4 \/ c = p + 5 \/ c = p + 6
    BY <2>2, <2>3, <1>1
  <2>. QED BY <2>1, <2>3, <2>4, <2>5
<1>3. ASSUME NEW i \in 0 .. n - 1 PROVE line + 5 * i + 3 \in Colons(head, line + 2)
  <2>1. PICK c, p : p = line + 5 * i /\ c = p + 3
    OBVIOUS
  <2>2. c \in line + 2 .. Len(head) /\ head[c] = ":"
    <3>1. head[p + 3] = ":" /\ p + 6 <= Len(head) /\ Len(head) \in Nat
      <4>1. SymbolsAfter(head, text, p)
        BY <2>1, SymbolsOfLine
      <4>. QED BY <4>1 DEF SymbolsAfter
    <3>. QED BY <3>1, <2>1, <1>1
  <2>3. ASSUME NEW d \in line + 2 .. c - 1, head[d] = ":" PROVE \E r \in d .. c : head[r] = "CR"
    <3>1. d \in line + 2 .. line + 5 * n + 1
      BY <2>1, <1>1
    <3>2. PICK k \in 0 .. n - 1 : d \in line + 5 * k + 2 .. line + 5 * k + 6
      BY <3>1, <1>1, PlacesInLines
    <3>3. PICK q : q = line + 5 * k
      OBVIOUS
    <3>4. /\ head[q + 2] # ":" /\ head[q + 5] = "CR"
          /\ head[q + 4] # ":" /\ head[q + 5] # ":" /\ head[q + 6] # ":"
      <4>1. SymbolsAfter(head, text, q)
        BY <3>3, SymbolsOfLine
      <4>. QED BY <4>1 DEF SymbolsAfter
    <3>5. q + 5 \in d .. c
      BY <3>3, <3>4, <3>2, <1>1, <2>3, <2>1
    <3>. QED BY <3>4, <3>5
  <2>. QED BY <2>1, <2>2, <2>3 DEF Colons
<1>. QED BY <1>2, <1>3

(* What Value returns, with names for the places that it computes.          *)
LEMMA ValueAt ==
  ASSUME NEW text, NEW colon, NEW end, NEW a, NEW b,
         Find(text, <<"CR">>, colon) = end, colon + 1 = a, end - 1 = b
  PROVE  Value(text, colon) = SubSeq(text, a, b)
BY DEF Value

(* What Key returns, with names for the places that it computes.            *)
LEMMA KeyAt ==
  ASSUME NEW text, NEW start, NEW colon,
         NEW before, before = {c \in Colons(text, start) : c < colon}
  PROVE  Key(text, start, colon) =
           SubSeq(text,
                  IF before = {} THEN start ELSE Find(text, <<"CR">>, Max(before)) + 2,
                  colon - 1)
BY DEF Key

(* Find returns the end of the line.                                        *)
LEMMA EndOfLine ==
  ASSUME NEW text \in Seq(Symbols), NEW from \in Nat, 1 <= from,
         NEW i \in Nat, from <= i, i <= Len(text), text[i] = "CR",
         \A j \in from .. i - 1 : text[j] # "CR"
  PROVE  Find(text, <<"CR">>, from) = i
<1>1. "CR" \in Symbols
  BY MarksHave
<1>. QED BY <1>1, FirstSymbol

(* The key and the value that the parsers find at the colon of a header.    *)
LEMMA ParsedPairs ==
  ASSUME NEW text, NEW line, NEW n, Framed(text, line, n), HasLines(text, line, n),
         NEW head, IsHead(head, text, line, n), NEW i \in 0 .. n - 1
  PROVE  /\ Key(head, line + 2, line + 5 * i + 3) = <<text[line + 5 * i + 2]>>
         /\ Value(head, line + 5 * i + 3) = <<text[line + 5 * i + 4]>>
<1>1. /\ line \in Nat /\ line >= 1 /\ n \in Nat /\ Len(head) = line + 5 * n + 1
      /\ head \in Seq(Symbols) /\ i \in Nat
  BY DEF Framed, IsHead
<1>2. PICK colon, key, value, end, start :
        /\ colon = line + 5 * i + 3 /\ key = line + 5 * i + 2 /\ value = line + 5 * i + 4
        /\ end = line + 5 * i + 5 /\ start = line + 2
  OBVIOUS
<1>3. /\ key \in Nat /\ 1 <= key /\ colon = key + 1 /\ colon \in Nat /\ 1 <= colon
      /\ value = key + 2 /\ value \in Nat /\ 1 <= value
      /\ end = key + 3 /\ end \in Nat /\ end - 1 = value /\ colon <= end
      /\ colon + 1 = value /\ colon - 1 = key
  BY <1>1, <1>2
<1>4. /\ Len(head) \in Nat /\ end <= Len(head) /\ value <= Len(head) /\ key <= Len(head)
      /\ head[key] = text[key] /\ head[colon] # "CR" /\ head[value] = text[value]
      /\ head[value] # "CR" /\ head[end] = "CR" /\ head[key] \in Symbols /\ head[value] \in Symbols
  <2>1. PICK p : p = line + 5 * i
    OBVIOUS
  <2>2. SymbolsAfter(head, text, p)
    BY <2>1, SymbolsOfLine
  <2>3. key = p + 2 /\ colon = p + 3 /\ value = p + 4 /\ end = p + 5
    BY <2>1, <1>1, <1>2
  <2>. QED BY <2>2, <2>3 DEF SymbolsAfter
<1>5. SubSeq(head, key, key) = <<text[key]>>
  BY <1>1, <1>3, <1>4, OneSymbol
<1>6. SubSeq(head, value, value) = <<text[value]>>
  BY <1>1, <1>3, <1>4, OneSymbol
<1>7. Value(head, colon) = <<text[value]>>
  <2>1. Find(head, <<"CR">>, colon) = end
    <3>1. \A j \in colon .. end - 1 : head[j] # "CR"
      <4>1. \A j \in colon .. end - 1 : j = colon \/ j = value
        BY <1>3
      <4>. QED BY <4>1, <1>4
    <3>2. /\ head \in Seq(Symbols) /\ colon \in Nat /\ 1 <= colon /\ end \in Nat /\ colon <= end
          /\ end <= Len(head) /\ head[end] = "CR"
      BY <1>1, <1>3, <1>4
    <3>. QED BY <3>1, <3>2, EndOfLine
  <2>2. Value(head, colon) = SubSeq(head, value, value)
    <3>1. colon + 1 = value /\ end - 1 = value
      BY <1>3
    <3>. QED BY <2>1, <3>1, ValueAt
  <2>. QED BY <2>2, <1>6
<1>8. Key(head, start, colon) = <<text[key]>>
  <2>1. PICK before : before = {c \in Colons(head, start) : c < colon}
    OBVIOUS
  <2>2. before = {line + 5 * k + 3 : k \in 0 .. i - 1}
    <3>1. Colons(head, start) = {line + 5 * k + 3 : k \in 0 .. n - 1}
      BY <1>2, ParsedColons
    <3>2. \A k \in 0 .. n - 1 : line + 5 * k + 3 < colon <=> k \in 0 .. i - 1
      BY <1>2, <1>1
    <3>3. 0 .. i - 1 \subseteq 0 .. n - 1
      BY <1>1
    <3>. QED BY <3>1, <3>2, <3>3, <2>1
  <2>3. Key(head, start, colon) =
          SubSeq(head, IF before = {} THEN start ELSE Find(head, <<"CR">>, Max(before)) + 2, key)
    <3>1. Key(head, start, colon) =
            SubSeq(head, IF before = {} THEN start ELSE Find(head, <<"CR">>, Max(before)) + 2,
                   colon - 1)
      BY <2>1, KeyAt
    <3>2. colon - 1 = key
      BY <1>3
    <3>. QED BY <3>1, <3>2, Zenon
  <2>4. CASE i = 0
    <3>1. before = {} /\ start = key
      BY <2>2, <2>4, <1>1, <1>2
    <3>. QED BY <3>1, <2>3, <1>5
  <2>5. CASE i # 0
    <3>1. PICK k, q, c, d, e :
            k \in 0 .. n - 1 /\ k = i - 1 /\ q = line + 5 * k /\ c = q + 3 /\ d = q + 4 /\ e = q + 5
      BY <2>5, <1>1
    <3>2. /\ c \in Nat /\ 1 <= c /\ d = c + 1 /\ e = c + 2 /\ e \in Nat /\ c <= e /\ e + 2 = key
          /\ e <= Len(head)
      BY <3>1, <2>5, <1>1, <1>2, <1>3, <1>4
    <3>3. Max(before) = c /\ before # {}
      <4>1. before \in SUBSET Int /\ c \in before
        <5>1. k \in 0 .. i - 1 /\ c = line + 5 * k + 3
          BY <3>1, <3>2, <1>1
        <5>. QED BY <5>1, <2>2, <1>1
      <4>2. \A b \in before : c >= b
        BY <2>2, <3>1, <1>1
      <4>. QED BY <4>1, <4>2, MaxIsGreatest
    <3>4. Find(head, <<"CR">>, c) = e
      <4>1. head[c] # "CR" /\ head[d] # "CR" /\ head[e] = "CR"
        <5>1. SymbolsAfter(head, text, q)
          BY <3>1, SymbolsOfLine
        <5>. QED BY <5>1, <3>1 DEF SymbolsAfter
      <4>2. \A j \in c .. e - 1 : head[j] # "CR"
        <5>1. \A j \in c .. e - 1 : j = c \/ j = d
          BY <3>2
        <5>. QED BY <5>1, <4>1
      <4>. QED BY <4>1, <4>2, <3>2, <1>1, EndOfLine
    <3>. QED BY <3>2, <3>3, <3>4, <2>3, <1>5
  <2>. QED BY <2>4, <2>5
<1>. QED BY <1>2, <1>7, <1>8

(* The parsers find the keys of the headers, and for each key the value     *)
(* written with it: whether the first line of a key counts, as in           *)
(* HttpRequest, or the last, as in HttpResponseReader.                      *)
LEMMA ParsedHeaders ==
  ASSUME NEW text, NEW line, NEW n, Framed(text, line, n), HasLines(text, line, n),
         NEW head, IsHead(head, text, line, n)
  PROVE  /\ Keys(head, line + 2) = {<<text[line + 5 * i + 2]>> : i \in 0 .. n - 1}
         /\ \A i \in 0 .. n - 1 :
              LET colons == ColonsOf(head, line + 2, <<text[line + 5 * i + 2]>>)
              IN  /\ Value(head, Min(colons)) = <<text[line + 5 * i + 4]>>
                  /\ Value(head, Max(colons)) = <<text[line + 5 * i + 4]>>
<1>1. PICK start : start = line + 2
  OBVIOUS
<1>2. Colons(head, start) = {line + 5 * k + 3 : k \in 0 .. n - 1}
  BY <1>1, ParsedColons
<1>3. \A k \in 0 .. n - 1 : Key(head, start, line + 5 * k + 3) = <<text[line + 5 * k + 2]>>
  BY <1>1, ParsedPairs
<1>4. Keys(head, start) = {<<text[line + 5 * i + 2]>> : i \in 0 .. n - 1}
  BY <1>2, <1>3 DEF Keys
<1>5. ASSUME NEW i \in 0 .. n - 1
      PROVE  LET colons == ColonsOf(head, start, <<text[line + 5 * i + 2]>>)
             IN  /\ Value(head, Min(colons)) = <<text[line + 5 * i + 4]>>
                 /\ Value(head, Max(colons)) = <<text[line + 5 * i + 4]>>
  <2>1. PICK colon, key : colon = line + 5 * i + 3 /\ key = text[line + 5 * i + 2]
    OBVIOUS
  <2>2. ColonsOf(head, start, <<key>>) = {colon}
    BY <2>1, <1>3, <1>2 DEF HasLines, ColonsOf
  <2>3. Min({colon}) = colon /\ Max({colon}) = colon
    <3>1. {colon} \in SUBSET Int /\ colon \in {colon} /\ colon <= colon /\ colon >= colon
      BY <2>1 DEF Framed
    <3>. QED BY <3>1, MinIsLeast, MaxIsGreatest
  <2>4. /\ Value(head, Min(ColonsOf(head, start, <<key>>))) = <<text[line + 5 * i + 4]>>
        /\ Value(head, Max(ColonsOf(head, start, <<key>>))) = <<text[line + 5 * i + 4]>>
    BY <2>2, <2>3, <2>1, ParsedPairs
  <2>. QED BY <2>4, <2>1
<1>. QED BY <1>1, <1>4, <1>5

-----------------------------------------------------------------------------
(* The lines that writers write *)

(* The text has the m symbols of s and then the n symbols of t. *)
Joins(text, s, m, t, n) ==
  /\ m \in Nat /\ n \in Nat
  /\ text \in Seq(Symbols) /\ Len(text) = m + n
  /\ \A i \in 1 .. m : text[i] = s[i]
  /\ \A i \in 1 .. n : text[m + i] = t[i]

(* What follows of a concatenation.                                         *)
LEMMA Joined ==
  ASSUME NEW s \in Seq(Symbols), NEW t \in Seq(Symbols),
         NEW text, text = s \o t, NEW m, Len(s) = m, NEW n, Len(t) = n
  PROVE  Joins(text, s, m, t, n)
BY LengthIsNat, Concatenation DEF Joins

(* The symbols that are neither a mark of the end of a line or of a string  *)
(* nor a colon: keys and values of headers have no others.                  *)
PlainSymbols == Symbols \ {"CR", "LF", "NUL", ":"}

(* The text has a first line that ends at the place `line`, and for each key *)
(* a line with its value.                                                    *)
Written(text, line, keys, values) ==
  /\ text \in Seq(Symbols) /\ line \in Nat /\ 1 <= line
  /\ keys \in Seq(PlainSymbols) /\ values \in Seq(PlainSymbols) /\ Len(values) = Len(keys)
  /\ Len(text) = line + 5 * Len(keys) + 1
  /\ \A j \in 1 .. Len(text) :
       /\ text[j] = "CR" <=> LineEnd(line, Len(keys), j)
       /\ text[j] = "LF" <=> LineEnd(line, Len(keys), j - 1)
       /\ text[j] # "NUL"
  /\ \A i \in 0 .. Len(keys) - 1 :
       /\ text[line + 5 * i + 2] = keys[i + 1]
       /\ text[line + 5 * i + 3] = ":"
       /\ text[line + 5 * i + 4] = values[i + 1]

(* The symbols of the end of a line.                                        *)
LEMMA SymbolsOfNewLine ==
  NewLine \in Seq(Symbols) /\ Len(NewLine) = 2 /\ NewLine[1] = "CR" /\ NewLine[2] = "LF"
<1>1. "CR" \in Symbols /\ "LF" \in Symbols
  BY MarksHave
<1>. QED BY <1>1 DEF NewLine

(* A first line with no header.                                             *)
LEMMA WrittenFirst ==
  ASSUME NEW first \in Seq(Symbols),
         \A j \in 1 .. Len(first) : first[j] # "CR" /\ first[j] # "LF" /\ first[j] # "NUL"
  PROVE  Written(first \o NewLine, Len(first) + 1, <<>>, <<>>)
<1>1. PICK text, first0 : text = first \o NewLine /\ first0 = Len(first)
  OBVIOUS
<1>2. PICK line : line = Len(first) + 1
  OBVIOUS
<1>3. Len(first) \in Nat /\ line \in Nat /\ 1 <= line
  BY <1>2, LengthIsNat
<1>4. /\ text \in Seq(Symbols) /\ Len(text) = Len(first) + 2
      /\ \A j \in 1 .. Len(first) : text[j] = first[j]
      /\ text[Len(first) + 1] = "CR" /\ text[Len(first) + 2] = "LF"
  <2>1. /\ text \in Seq(Symbols) /\ Len(text) = first0 + 2
        /\ \A j \in 1 .. first0 : text[j] = first[j]
        /\ \A j \in 1 .. 2 : text[first0 + j] = NewLine[j]
    <3>1. Joins(text, first, first0, NewLine, 2)
      BY <1>1, SymbolsOfNewLine, Joined
    <3>. QED BY <3>1 DEF Joins
  <2>. QED BY <2>1, <1>1, SymbolsOfNewLine
<1>5. \A j : LineEnd(line, 0, j) <=> j = line
  BY <1>3 DEF LineEnd
<1>6. <<>> \in Seq(PlainSymbols) /\ Len(<<>>) = 0
  BY EmptySeq
<1>7. \A j \in 1 .. Len(text) : j \in 1 .. Len(first) \/ j = line \/ j = line + 1
  BY <1>2, <1>3, <1>4
<1>8. ASSUME NEW j \in 1 .. Len(text)
      PROVE  /\ text[j] = "CR" <=> LineEnd(line, 0, j)
             /\ text[j] = "LF" <=> LineEnd(line, 0, j - 1)
             /\ text[j] # "NUL"
  <2>1. CASE j \in 1 .. Len(first)
    <3>1. j # line /\ j - 1 # line
      BY <2>1, <1>2, <1>3
    <3>. QED BY <2>1, <3>1, <1>4, <1>5
  <2>2. CASE j = line
    <3>1. j - 1 # line
      BY <2>2, <1>3
    <3>. QED BY <2>2, <3>1, <1>2, <1>4, <1>5
  <2>3. CASE j = line + 1
    <3>1. j # line /\ j - 1 = line /\ text[j] = "LF"
      BY <2>3, <1>2, <1>3, <1>4
    <3>. QED BY <3>1, <1>5
  <2>. QED BY <1>7, <2>1, <2>2, <2>3
<1>9. Len(text) = line + 5 * 0 + 1
  BY <1>2, <1>3, <1>4
<1>10. Written(text, line, <<>>, <<>>)
  BY <1>3, <1>4, <1>6, <1>8, <1>9 DEF Written
<1>. QED BY <1>1, <1>2, <1>10

(* The symbols of the line of a header.                                     *)
LEMMA SymbolsOfHeader ==
  ASSUME NEW key \in PlainSymbols, NEW value \in PlainSymbols
  PROVE  /\ Line(key, value) \in Seq(Symbols) /\ Len(Line(key, value)) = 5
         /\ Line(key, value)[1] = key /\ Line(key, value)[2] = ":" /\ Line(key, value)[3] = value
         /\ Line(key, value)[4] = "CR" /\ Line(key, value)[5] = "LF"
<1>1. PICK s : s = <<key, ":", value>>
  OBVIOUS
<1>2. s \in Seq(Symbols) /\ Len(s) = 3 /\ s[1] = key /\ s[2] = ":" /\ s[3] = value
  <2>1. ":" \in Symbols /\ key \in Symbols /\ value \in Symbols
    BY MarksHave DEF PlainSymbols
  <2>. QED BY <1>1, <2>1
<1>3. PICK t : t = NewLine
  OBVIOUS
<1>4. t \in Seq(Symbols) /\ Len(t) = 2 /\ t[1] = "CR" /\ t[2] = "LF"
  BY <1>3, SymbolsOfNewLine
<1>5. PICK new : new = s \o t
  OBVIOUS
<1>6. /\ new \in Seq(Symbols) /\ Len(new) = 3 + 2
      /\ \A i \in 1 .. 3 : new[i] = s[i]
      /\ \A i \in 1 .. 2 : new[3 + i] = t[i]
  <2>1. Joins(new, s, 3, t, 2)
    BY <1>2, <1>4, <1>5, Joined
  <2>. QED BY <2>1 DEF Joins
<1>7. /\ new[1] = s[1] /\ new[2] = s[2] /\ new[3] = s[3]
      /\ new[3 + 1] = t[1] /\ new[3 + 2] = t[2]
  BY <1>6
<1>8. Line(key, value) = new
  BY <1>1, <1>3, <1>5 DEF Line
<1>. QED BY <1>2, <1>4, <1>6, <1>7, <1>8

(* A line more.                                                             *)
LEMMA WrittenLine ==
  ASSUME NEW text, NEW line, NEW keys, NEW values, Written(text, line, keys, values),
         NEW key \in PlainSymbols, NEW value \in PlainSymbols
  PROVE  Written(text \o Line(key, value), line, Append(keys, key), Append(values, value))
<1>1. PICK n, m : n = Len(keys) /\ m = Len(text)
  OBVIOUS
<1>2. /\ text \in Seq(Symbols) /\ line \in Nat /\ 1 <= line /\ n \in Nat /\ m \in Nat
      /\ m = line + 5 * n + 1 /\ keys \in Seq(PlainSymbols) /\ values \in Seq(PlainSymbols)
       /\ Len(values) = n
  <2>1. Len(keys) \in Nat /\ Len(text) \in Nat
    BY LenProperties DEF Written
  <2>. QED BY <2>1, <1>1 DEF Written
<1>3. PICK new : new = text \o Line(key, value)
  OBVIOUS
<1>4. /\ new \in Seq(Symbols) /\ Len(new) = m + 5
      /\ \A j \in 1 .. m : new[j] = text[j]
      /\ new[m + 1] = key /\ new[m + 2] = ":" /\ new[m + 3] = value
      /\ new[m + 4] = "CR" /\ new[m + 5] = "LF"
  <2>1. PICK s : s = Line(key, value)
    OBVIOUS
  <2>2. /\ s \in Seq(Symbols) /\ Len(s) = 5 /\ s[1] = key /\ s[2] = ":" /\ s[3] = value
        /\ s[4] = "CR" /\ s[5] = "LF"
    BY <2>1, SymbolsOfHeader
  <2>3. /\ new \in Seq(Symbols) /\ Len(new) = m + 5
        /\ \A j \in 1 .. m : new[j] = text[j]
        /\ \A j \in 1 .. 5 : new[m + j] = s[j]
    <3>1. Joins(new, text, m, s, 5)
      BY <1>1, <1>2, <1>3, <2>1, <2>2, Joined
    <3>. QED BY <3>1 DEF Joins
  <2>. QED BY <2>2, <2>3
<1>5. PICK newKeys, newValues : newKeys = Append(keys, key) /\ newValues = Append(values, value)
  OBVIOUS
<1>6. /\ newKeys \in Seq(PlainSymbols) /\ newValues \in Seq(PlainSymbols)
      /\ Len(newKeys) = n + 1 /\ Len(newValues) = n + 1
      /\ \A i \in 1 .. n : newKeys[i] = keys[i] /\ newValues[i] = values[i]
      /\ newKeys[n + 1] = key /\ newValues[n + 1] = value
  BY <1>1, <1>2, <1>5, AppendProperties
<1>7. \A j \in 1 .. m : (LineEnd(line, n + 1, j) <=> LineEnd(line, n, j))
                        /\ (LineEnd(line, n + 1, j - 1) <=> LineEnd(line, n, j - 1))
  <2>. TAKE j \in 1 .. m
  <2>1. ASSUME NEW i \in 0 .. n + 1, j = line + 5 * i \/ j - 1 = line + 5 * i PROVE i \in 0 .. n
    BY <2>1, <1>2
  <2>2. ASSUME NEW i \in 0 .. n PROVE i \in 0 .. n + 1
    BY <1>2
  <2>. QED BY <2>1, <2>2 DEF LineEnd
<1>8. ASSUME NEW x \in 0 .. 5 PROVE LineEnd(line, n + 1, m + x) <=> x = 4
  <2>1. ASSUME NEW i \in 0 .. n + 1, m + x = line + 5 * i PROVE x = 4
    BY <1>2, <2>1
  <2>2. m + 4 = line + 5 * (n + 1) /\ n + 1 \in 0 .. n + 1
    BY <1>2
  <2>. QED BY <2>1, <2>2 DEF LineEnd
<1>9. ASSUME NEW j \in 1 .. m + 5
      PROVE  /\ new[j] = "CR" <=> LineEnd(line, n + 1, j)
             /\ new[j] = "LF" <=> LineEnd(line, n + 1, j - 1)
             /\ new[j] # "NUL"
  <2>1. CASE j \in 1 .. m
    <3>1. /\ text[j] = "CR" <=> LineEnd(line, n, j)
          /\ text[j] = "LF" <=> LineEnd(line, n, j - 1)
          /\ text[j] # "NUL"
      BY <2>1, <1>1 DEF Written
    <3>. QED BY <3>1, <2>1, <1>4, <1>7
  <2>2. CASE j \notin 1 .. m
    <3>1. PICK x \in 1 .. 5 : j = m + x
      <4>1. j - m \in 1 .. 5 /\ j = m + (j - m)
        BY <2>2, <1>2
      <4>. QED BY <4>1
    <3>2. x \in 0 .. 5 /\ x - 1 \in 0 .. 5 /\ j - 1 = m + (x - 1)
      BY <3>1, <1>2
    <3>3. /\ LineEnd(line, n + 1, j) <=> x = 4
          /\ LineEnd(line, n + 1, j - 1) <=> x = 5
      BY <3>1, <3>2, <1>8
    <3>4. x = 1 \/ x = 2 \/ x = 3 \/ x = 4 \/ x = 5
      OBVIOUS
    <3>. QED BY <3>1, <3>3, <3>4, <1>4 DEF PlainSymbols
  <2>. QED BY <2>1, <2>2
<1>10. ASSUME NEW i \in 0 .. n
       PROVE  /\ new[line + 5 * i + 2] = newKeys[i + 1]
              /\ new[line + 5 * i + 3] = ":"
              /\ new[line + 5 * i + 4] = newValues[i + 1]
  <2>1. CASE i = n
    <3>1. line + 5 * i + 2 = m + 1 /\ line + 5 * i + 3 = m + 2 /\ line + 5 * i + 4 = m + 3
      BY <2>1, <1>2
    <3>. QED BY <2>1, <3>1, <1>4, <1>6
  <2>2. CASE i # n
    <3>1. i \in 0 .. n - 1 /\ i + 1 \in 1 .. n
      BY <2>2, <1>2
    <3>2. /\ line + 5 * i + 2 \in 1 .. m /\ line + 5 * i + 3 \in 1 .. m /\ line + 5 * i + 4 \in 1 .. m
      BY <3>1, <1>2
    <3>3. /\ text[line + 5 * i + 2] = keys[i + 1]
          /\ text[line + 5 * i + 3] = ":"
          /\ text[line + 5 * i + 4] = values[i + 1]
      BY <3>1, <1>1 DEF Written
    <3>. QED BY <3>1, <3>2, <3>3, <1>4, <1>6
  <2>. QED BY <2>1, <2>2
<1>11. Written(new, line, newKeys, newValues)
  BY <1>2, <1>4, <1>6, <1>9, <1>10 DEF Written
<1>. QED BY <1>3, <1>5, <1>11

(* The text has the lines, an empty line, and the rest. *)
HasText(text, lines, line, n, keys, values, rest) ==
  /\ Framed(text, line, n) /\ HasLines(text, line, n)
  /\ Len(text) = line + 5 * n + 3 + Len(rest)
  /\ \A j \in 1 .. line + 5 * n + 1 : text[j] = lines[j]
  /\ \A j \in 1 .. Len(rest) : text[line + 5 * n + 3 + j] = rest[j]
  /\ \A i \in 0 .. n - 1 : /\ text[line + 5 * i + 2] = keys[i + 1]
                           /\ text[line + 5 * i + 4] = values[i + 1]

(* Lines with different keys, an empty line and a body are a text whose     *)
(* headers the parsers find.                                                *)
LEMMA WrittenText ==
  ASSUME NEW lines, NEW line, NEW keys, NEW values, Written(lines, line, keys, values),
         \A i, k \in 1 .. Len(keys) : keys[i] = keys[k] => i = k,
         NEW rest \in Seq(Symbols), NEW text, text = (lines \o NewLine) \o rest,
         NEW n, n = Len(keys)
  PROVE  HasText(text, lines, line, n, keys, values, rest)
<1>1. PICK m : m = Len(lines)
  OBVIOUS
<1>2. /\ lines \in Seq(Symbols) /\ line \in Nat /\ 1 <= line /\ n \in Nat /\ m \in Nat
      /\ m = line + 5 * n + 1 /\ keys \in Seq(PlainSymbols) /\ values \in Seq(PlainSymbols)
       /\ Len(values) = n
      /\ Len(rest) \in Nat
  <2>1. Len(keys) \in Nat /\ Len(lines) \in Nat /\ Len(rest) \in Nat
    BY LenProperties DEF Written
  <2>. QED BY <2>1, <1>1 DEF Written
<1>3. PICK head : head = lines \o NewLine
  OBVIOUS
<1>4. /\ head \in Seq(Symbols) /\ Len(head) = m + 2
      /\ \A j \in 1 .. m : head[j] = lines[j]
      /\ head[m + 1] = "CR" /\ head[m + 2] = "LF"
  <2>1. /\ head \in Seq(Symbols) /\ Len(head) = m + 2
        /\ \A j \in 1 .. m : head[j] = lines[j]
        /\ \A j \in 1 .. 2 : head[m + j] = NewLine[j]
    <3>1. Joins(head, lines, m, NewLine, 2)
      BY <1>1, <1>2, <1>3, SymbolsOfNewLine, Joined
    <3>. QED BY <3>1 DEF Joins
  <2>. QED BY <2>1, SymbolsOfNewLine
<1>5. /\ text \in Seq(Symbols) /\ Len(text) = m + 2 + Len(rest)
      /\ \A j \in 1 .. m + 2 : text[j] = head[j]
      /\ \A j \in 1 .. Len(rest) : text[m + 2 + j] = rest[j]
  <2>1. text = head \o rest
    BY <1>3
  <2>2. PICK k, x : k = Len(rest) /\ x = m + 2
    OBVIOUS
  <2>3. /\ text \in Seq(Symbols) /\ Len(text) = x + k
        /\ \A j \in 1 .. x : text[j] = head[j]
        /\ \A j \in 1 .. k : text[x + j] = rest[j]
    <3>1. Joins(text, head, x, rest, k)
      BY <2>1, <2>2, <1>4, Joined
    <3>. QED BY <3>1 DEF Joins
  <2>. QED BY <2>2, <2>3
<1>6. \A j \in 1 .. m : text[j] = lines[j]
  BY <1>2, <1>4, <1>5
<1>7. text[m + 1] = "CR" /\ text[m + 2] = "LF"
  <2>1. m + 1 \in 1 .. m + 2 /\ m + 2 \in 1 .. m + 2
    BY <1>2
  <2>. QED BY <2>1, <1>4, <1>5
<1>8. \A x \in {m, m + 1, m + 2} : ~LineEnd(line, n, x)
  BY <1>2 DEF LineEnd
<1>9. ASSUME NEW j \in 1 .. m + 2
      PROVE  /\ text[j] = "CR" <=> (LineEnd(line, n, j) \/ j = m + 1)
             /\ text[j] = "LF" <=> (LineEnd(line, n, j - 1) \/ j = m + 2)
             /\ text[j] # "NUL"
  <2>1. CASE j \in 1 .. m
    <3>1. /\ lines[j] = "CR" <=> LineEnd(line, n, j)
          /\ lines[j] = "LF" <=> LineEnd(line, n, j - 1)
          /\ lines[j] # "NUL"
      BY <2>1, <1>1 DEF Written
    <3>2. j # m + 1 /\ j # m + 2
      BY <2>1, <1>2
    <3>. QED BY <3>1, <3>2, <2>1, <1>6
  <2>2. CASE j = m + 1
    <3>1. j - 1 = m /\ j # m + 2
      BY <2>2, <1>2
    <3>. QED BY <3>1, <2>2, <1>7, <1>8
  <2>3. CASE j = m + 2
    <3>1. j - 1 = m + 1 /\ j # m + 1
      BY <2>3, <1>2
    <3>. QED BY <3>1, <2>3, <1>7, <1>8
  <2>4. j \in 1 .. m \/ j = m + 1 \/ j = m + 2
    <3>1. m \in Nat
      BY <1>2
    <3>. QED BY <3>1
  <2>. QED BY <2>1, <2>2, <2>3, <2>4
<1>10. m + 2 = line + 5 * n + 3 /\ m + 1 = line + 5 * n + 2 /\ line \in Nat \ {0} /\ m + 2 <= Len(text)
  BY <1>2, <1>5
<1>11. Framed(text, line, n)
  BY <1>2, <1>5, <1>9, <1>10 DEF Framed
<1>12. ASSUME NEW i \in 0 .. n - 1
       PROVE  /\ text[line + 5 * i + 2] = keys[i + 1]
              /\ text[line + 5 * i + 3] = ":"
              /\ text[line + 5 * i + 4] = values[i + 1]
              /\ i + 1 \in 1 .. n /\ keys[i + 1] # ":" /\ values[i + 1] # ":"
  <2>1. /\ line + 5 * i + 2 \in 1 .. m /\ line + 5 * i + 3 \in 1 .. m /\ line + 5 * i + 4 \in 1 .. m
        /\ i + 1 \in 1 .. n
    BY <1>2
  <2>2. /\ lines[line + 5 * i + 2] = keys[i + 1]
        /\ lines[line + 5 * i + 3] = ":"
        /\ lines[line + 5 * i + 4] = values[i + 1]
    BY DEF Written
  <2>3. keys[i + 1] \in PlainSymbols /\ values[i + 1] \in PlainSymbols
    BY <2>1, <1>2, ElementOfSeq
  <2>. QED BY <2>1, <2>2, <2>3, <1>6 DEF PlainSymbols
<1>13. ASSUME NEW i \in 0 .. n - 1, NEW k \in 0 .. n - 1,
              text[line + 5 * i + 2] = text[line + 5 * k + 2]
       PROVE  i = k
  <2>1. i + 1 \in 1 .. Len(keys) /\ k + 1 \in 1 .. Len(keys) /\ keys[i + 1] = keys[k + 1]
    BY <1>12, <1>13
  <2>2. i + 1 = k + 1
    BY <2>1
  <2>. QED BY <2>2, <1>2
<1>14. HasLines(text, line, n)
  BY <1>12, <1>13 DEF HasLines
<1>. QED BY <1>5, <1>6, <1>10, <1>11, <1>12, <1>14, <1>2 DEF HasText

-----------------------------------------------------------------------------
(* Parts of texts *)

(* The symbols after the place a, up to the place b. *)
Part(text, a, b) == SubSeq(text, a + 1, b)

(* The part of a text behind the place a up to the place b, by its symbols. *)
IsPart(part, text, a, b) ==
  /\ part \in Seq(Symbols)
  /\ a \in Nat /\ b \in Nat /\ a <= b
  /\ Len(part) = b - a
  /\ \A i \in 1 .. b - a : part[i] = text[a + i]

(* Part is the part of a text.                                              *)
LEMMA PartIs ==
  ASSUME NEW text \in Seq(Symbols), NEW a \in Nat, NEW b \in Nat, a <= b, b <= Len(text)
  PROVE  IsPart(Part(text, a, b), text, a, b)
<1>1. PICK part, c : part = SubSeq(text, c, b) /\ c = a + 1
  OBVIOUS
<1>2. c \in Nat \ {0} /\ b - c + 1 = b - a
  BY <1>1
<1>3. /\ part \in Seq(Symbols)
      /\ Len(part) = IF c <= b THEN b - c + 1 ELSE 0
      /\ \A i \in 1 .. b - c + 1 : part[i] = text[c + i - 1]
  BY <1>1, <1>2, PartOfText
<1>4. Len(part) = b - a
  BY <1>1, <1>3
<1>5. \A i \in 1 .. b - a : part[i] = text[a + i]
  <2>1. \A i \in 1 .. b - a : c + i - 1 = a + i
    BY <1>1
  <2>. QED BY <2>1, <1>2, <1>3
<1>6. Part(text, a, b) = part
  BY <1>1 DEF Part
<1>. QED BY <1>3, <1>4, <1>5, <1>6 DEF IsPart

(* A text has one part between two places.                                  *)
LEMMA SamePart ==
  ASSUME NEW text, NEW a, NEW b, NEW p, NEW q, IsPart(p, text, a, b), IsPart(q, text, a, b)
  PROVE  p = q
<1>1. /\ p \in Seq(Symbols) /\ q \in Seq(Symbols) /\ Len(p) = Len(q)
      /\ \A i \in 1 .. Len(p) : p[i] = q[i]
  BY DEF IsPart
<1>. QED BY <1>1, SameText

(* What is the part of a text between two places is Part.                   *)
LEMMA IsThePart ==
  ASSUME NEW text \in Seq(Symbols), NEW a, NEW b, NEW p, IsPart(p, text, a, b), b <= Len(text)
  PROVE  p = Part(text, a, b)
<1>1. a \in Nat /\ b \in Nat /\ a <= b
  BY DEF IsPart
<1>2. IsPart(Part(text, a, b), text, a, b)
  BY <1>1, PartIs
<1>. QED BY <1>2, SamePart

(* A text is the part of itself between 0 and its length.                   *)
LEMMA WholePart ==
  ASSUME NEW text \in Seq(Symbols)
  PROVE  /\ Part(text, 0, Len(text)) = text
         /\ IsPart(text, text, 0, Len(text))
<1>1. Len(text) \in Nat
  BY LengthIsNat
<1>2. IsPart(text, text, 0, Len(text))
  BY <1>1 DEF IsPart
<1>. QED BY <1>1, <1>2, IsThePart

(* The part between a place and itself is empty.                            *)
LEMMA NoPart ==
  ASSUME NEW text, NEW a \in Nat
  PROVE  Part(text, a, a) = <<>>
<1>1. a + 1 \in Int /\ a \in Int /\ a < a + 1
  OBVIOUS
<1>2. SubSeq(text, a + 1, a) = <<>>
  BY <1>1, SubSeqEmpty
<1>. QED BY <1>2 DEF Part

(* Two parts that follow one another are a part.                            *)
LEMMA JoinedParts ==
  ASSUME NEW text \in Seq(Symbols), NEW a \in Nat, NEW b \in Nat, NEW c \in Nat,
         a <= b, b <= c, c <= Len(text)
  PROVE  Part(text, a, b) \o Part(text, b, c) = Part(text, a, c)
<1>1. PICK p, q, r, m, n : /\ p = Part(text, a, b) /\ q = Part(text, b, c) /\ r = p \o q
                           /\ m = b - a /\ n = c - b
  OBVIOUS
<1>2. IsPart(p, text, a, b) /\ IsPart(q, text, b, c)
  BY <1>1, PartIs, LengthIsNat
<1>3. /\ p \in Seq(Symbols) /\ q \in Seq(Symbols) /\ Len(p) = m /\ Len(q) = n
      /\ \A i \in 1 .. m : p[i] = text[a + i]
      /\ \A i \in 1 .. n : q[i] = text[b + i]
  BY <1>1, <1>2 DEF IsPart
<1>4. Joins(r, p, m, q, n)
  BY <1>1, <1>3, Joined
<1>5. r \in Seq(Symbols) /\ Len(r) = c - a
  BY <1>1, <1>4 DEF Joins
<1>6. ASSUME NEW i \in 1 .. c - a PROVE r[i] = text[a + i]
  <2>1. CASE i \in 1 .. m
    <3>1. r[i] = p[i]
      BY <2>1, <1>4 DEF Joins
    <3>. QED BY <3>1, <2>1, <1>3
  <2>2. CASE i \notin 1 .. m
    <3>1. PICK k \in 1 .. n : i = m + k /\ a + i = b + k
      <4>1. i - m \in 1 .. n /\ i = m + (i - m) /\ a + i = b + (i - m)
        BY <2>2, <1>1
      <4>. QED BY <4>1
    <3>2. r[m + k] = q[k]
      BY <1>4 DEF Joins
    <3>. QED BY <3>1, <3>2, <1>3
  <2>. QED BY <2>1, <2>2
<1>7. IsPart(r, text, a, c)
  BY <1>5, <1>6 DEF IsPart
<1>. QED BY <1>1, <1>7, IsThePart

(* A part of a part is a part of the text.                                  *)
LEMMA PartOfPart ==
  ASSUME NEW text \in Seq(Symbols), NEW part, NEW a, NEW b, IsPart(part, text, a, b),
         b <= Len(text), NEW c \in Nat, NEW d \in Nat, c <= d, d <= b - a,
         NEW x, x = a + c, NEW y, y = a + d
  PROVE  Part(part, c, d) = Part(text, x, y)
<1>1. a \in Nat /\ b \in Nat /\ x \in Nat /\ y \in Nat /\ x <= y /\ y <= b /\ Len(part) = b - a
      /\ part \in Seq(Symbols) /\ d - c = y - x /\ Len(text) \in Nat
  BY LengthIsNat DEF IsPart
<1>2. PICK p : p = Part(part, c, d)
  OBVIOUS
<1>3. IsPart(p, part, c, d)
  BY <1>1, <1>2, PartIs
<1>4. ASSUME NEW i \in 1 .. y - x PROVE p[i] = text[x + i]
  <2>1. p[i] = part[c + i]
    BY <1>1, <1>3 DEF IsPart
  <2>2. c + i \in 1 .. b - a /\ x + i = a + (c + i)
    BY <1>1
  <2>3. part[c + i] = text[a + (c + i)]
    BY <2>2 DEF IsPart
  <2>. QED BY <2>1, <2>2, <2>3
<1>5. IsPart(p, text, x, y)
  BY <1>1, <1>3, <1>4 DEF IsPart
<1>6. y <= Len(text)
  BY <1>1
<1>. QED BY <1>2, <1>5, <1>6, IsThePart

-----------------------------------------------------------------------------
(* What the parsers of buffers find in the parts of a text *)

(* The end of the header is found in a part that has all of it, at its      *)
(* place, and in no other part that begins before it.                       *)
LEMMA MarkInPart ==
  ASSUME NEW text, NEW line, NEW n, Framed(text, line, n), NEW at, at = MarkAt(line, n),
         NEW part, NEW a, NEW b, IsPart(part, text, a, b), a < at, b <= Len(text)
  PROVE  /\ b >= at + 3 => EndMark(part) = [at |-> at - a, size |-> 4]
         /\ b < at + 3 => EndMark(part).at = 0
<1>1. /\ a \in 0 .. MarkAt(line, n) - 1 /\ b \in a .. Len(text) /\ part \in Seq(Symbols)
      /\ Len(part) = b - a /\ \A i \in 1 .. b - a : part[i] = text[a + i]
  BY LengthIsNat DEF IsPart, MarkAt, Framed
<1>2. /\ b >= MarkAt(line, n) + 3 => EndMark(part) = [at |-> MarkAt(line, n) - a, size |-> 4]
      /\ b < MarkAt(line, n) + 3 => EndMark(part).at = 0
  BY <1>1, MarkOfPart
<1>. QED BY <1>2

(* The part up to a NUL, which is not in the header. *)
LEMMA NulInPart ==
  ASSUME NEW text, NEW line, NEW n, Framed(text, line, n), NEW at, at = MarkAt(line, n),
         NEW part, NEW a, NEW b, IsPart(part, text, a, b), b <= Len(text)
  PROVE  \E e \in Nat :
           /\ a <= e /\ e <= b
           /\ BeforeNul(part) = Part(text, a, e) /\ FromNul(part) = Part(text, e, b)
           /\ e < b => e >= at + 3 /\ text[e + 1] = "NUL"
<1>1. /\ text \in Seq(Symbols) /\ at \in Nat /\ a \in Nat /\ b \in Nat /\ a <= b
      /\ part \in Seq(Symbols) /\ Len(part) = b - a
  BY DEF IsPart, MarkAt, Framed
<1>2. "NUL" \in Symbols
  BY MarksHave
<1>3. CASE \A i \in 1 .. Len(part) : part[i] # "NUL"
  <2>1. BeforeNul(part) = part /\ FromNul(part) = <<>>
    BY <1>1, <1>2, <1>3, FindSymbol DEF BeforeNul, FromNul
  <2>2. part = Part(text, a, b) /\ <<>> = Part(text, b, b)
    BY <1>1, IsThePart, NoPart
  <2>. QED BY <1>1, <2>1, <2>2
<1>4. CASE \E i \in 1 .. Len(part) : part[i] = "NUL"
  <2>1. PICK N : N = {i \in 1 .. Len(part) : part[i] = "NUL"}
    OBVIOUS
  <2>2. N \in SUBSET Nat /\ N # {}
    BY <2>1, <1>1, <1>4
  <2>3. PICK k \in N : \A m \in N : k <= m
    BY <2>2, LeastNumber
  <2>4. /\ k \in Nat /\ 1 <= k /\ k <= Len(part) /\ part[k] = "NUL" /\ k <= b - a /\ k # 0
    BY <2>1, <2>3, <1>1
  <2>5. Find(part, <<"NUL">>, 1) = k
    <3>1. \A j \in 1 .. k - 1 : part[j] # "NUL"
      BY <2>1, <2>3, <2>4, <1>1
    <3>2. 1 \in Nat /\ 1 <= 1
      OBVIOUS
    <3>. QED BY <3>1, <3>2, <2>4, <1>1, <1>2, FirstSymbol
  <2>6. PICK d, e : d = k - 1 /\ e = a + d
    OBVIOUS
  <2>7. /\ d \in Nat /\ k = d + 1 /\ e \in Nat /\ a <= e /\ e < b /\ e + 1 = a + k /\ d <= b - a
        /\ 0 <= d /\ b = a + (b - a) /\ b - a \in Nat /\ a = a + 0 /\ 0 \in Nat
    BY <2>4, <2>6, <1>1
  <2>8. BeforeNul(part) = Part(text, a, e)
    <3>1. BeforeNul(part) = SubSeq(part, 1, d)
      BY <2>4, <2>5, <2>6 DEF BeforeNul
    <3>2. Part(part, 0, d) = SubSeq(part, 1, d)
      BY DEF Part
    <3>3. Part(part, 0, d) = Part(text, a, e)
      BY <1>1, <2>6, <2>7, PartOfPart
    <3>. QED BY <3>1, <3>2, <3>3
  <2>9. FromNul(part) = Part(text, e, b)
    <3>1. PICK f : f = b - a
      OBVIOUS
    <3>2. FromNul(part) = SubSeq(part, k, f)
      BY <3>1, <2>4, <2>5, <1>1 DEF FromNul, From
    <3>3. Part(part, d, f) = SubSeq(part, k, f)
      BY <2>7 DEF Part
    <3>4. Part(part, d, f) = Part(text, e, b)
      <4>1. f \in Nat /\ d <= f /\ f <= b - a /\ b = a + f
        BY <3>1, <2>7, <1>1
      <4>2. d \in Nat /\ e = a + d
        BY <2>6, <2>7
      <4>. QED BY <4>1, <4>2, <1>1, PartOfPart
    <3>. QED BY <3>2, <3>3, <3>4
  <2>10. text[e + 1] = "NUL"
    <3>1. part[k] = text[a + k]
      BY <2>4, <1>1 DEF IsPart
    <3>. QED BY <3>1, <2>4, <2>7
  <2>11. e >= at + 3
    <3>1. ASSUME e < at + 3 PROVE FALSE
      <4>1. text[e + 1] # "NUL"
        BY <3>1, <2>7, <1>1 DEF MarkAt, Framed
      <4>. QED BY <4>1, <2>10
    <3>. QED BY <3>1, <2>7, <1>1
  <2>. QED BY <2>7, <2>8, <2>9, <2>10, <2>11, <1>1
<1>. QED BY <1>3, <1>4

(* A text with one LF has no mark. *)
LEMMA NoMark ==
  ASSUME NEW part \in Seq(Symbols),
         \A i, j \in 1 .. Len(part) : part[i] = "LF" /\ part[j] = "LF" => i = j
  PROVE  EndMark(part).at = 0
<1>1. Len(part) \in Nat
  BY LengthIsNat
<1>2. ASSUME NEW i \in 1 .. Len(part) - 3, EmptyLineAt(part, i) PROVE FALSE
  <2>1. i + 1 \in 1 .. Len(part) /\ i + 3 \in 1 .. Len(part) /\ i + 1 # i + 3
    BY <1>1
  <2>. QED BY <2>1, <1>2 DEF EmptyLineAt
<1>3. ASSUME NEW i \in 1 .. Len(part) - 1, LfLfAt(part, i) PROVE FALSE
  <2>1. i \in 1 .. Len(part) /\ i + 1 \in 1 .. Len(part) /\ i # i + 1
    BY <1>1
  <2>. QED BY <2>1, <1>3 DEF LfLfAt
<1>4. Find(part, EmptyLine, 1) = 0 /\ Find(part, <<"LF", "LF">>, 1) = 0
  BY <1>2, <1>3, FindEmptyLine, FindLfLf
<1>. QED BY <1>4 DEF EndMark

-----------------------------------------------------------------------------
(* Requests *)

(* The keys and values that the code writes are without marks.              *)
LEMMA PlainWords ==
  /\ {"Connection", "Keep-Alive", "close", "Content-Length", "Content-type",
      "Date", "now", "Server", "ServerName", "code"} \subseteq PlainSymbols
  /\ {"text/html", "image/jpeg", "image/png", "image/gif", "application/x-shockwave-flash",
      "text/plain", "text/css", "text/javascript", "undefined"} \subseteq PlainSymbols
BY SymbolsHave DEF PlainSymbols, Words

(* The numbers that the code writes are without marks.                      *)
LEMMA DecimalIsPlain ==
  ASSUME NEW n \in 0 .. MaxLength
  PROVE  Decimal(n) \in PlainSymbols
<1>1. Decimal(n) \in STRING /\ Decimal(n) \notin Marks
  BY DecimalAssumption, Zenon
<1>2. Decimal(n) \in Symbols
  BY <1>1, SymbolsHave, Zenon
<1>3. Decimal(n) \notin {"CR", "LF", "NUL", ":"}
  BY <1>1 DEF Marks
<1>. QED BY <1>2, <1>3, Zenon DEF PlainSymbols

(* The names of methods are without marks.                                  *)
LEMMA MethodNames ==
  ASSUME NEW method
  PROVE  /\ MethodName(method) \in Symbols \ {"SP", "CR", "LF", "NUL"}
         /\ MethodName(method) \in Methods => MethodName(method) = method
<1>1. Methods \subseteq Symbols /\ "UNKNOWN" \in Symbols
  BY SymbolsHave, Zenon DEF Words
<1>2. "UNKNOWN" \notin Methods /\ \A m \in Methods : m # "SP" /\ m # "CR" /\ m # "LF" /\ m # "NUL"
  BY DEF Methods
<1>3. CASE method \in Methods
  BY <1>1, <1>2, <1>3 DEF MethodName
<1>4. CASE method \notin Methods
  BY <1>1, <1>2, <1>4 DEF MethodName
<1>. QED BY <1>3, <1>4

(* A symbol that may stand in a first line. *)
InLine == Symbols \ {"CR", "LF", "NUL"}

(* The fields of a request.                                                 *)
LEMMA RequestTypes ==
  ASSUME NEW r \in Requests
  PROVE  /\ r.url \in Seq(InLine \ {"SP"}) /\ r.version \in Seq(InLine)
         /\ r.body \in Seq(Symbols) /\ Len(r.body) <= MaxLength /\ Len(r.body) \in Nat
<1>1. /\ r.url \in Seq(STRING \ {"CR", "LF", "NUL", "SP"})
      /\ r.version \in Seq(STRING \ {"CR", "LF", "NUL"})
      /\ r.body \in Seq(STRING) /\ Len(r.body) <= MaxLength
  BY RequestsAssumption, Zenon
<1>2. /\ STRING \ {"CR", "LF", "NUL", "SP"} \subseteq InLine \ {"SP"}
      /\ STRING \ {"CR", "LF", "NUL"} \subseteq InLine
      /\ STRING \subseteq Symbols
  BY SymbolsHave, Zenon DEF InLine
<1>3. r.url \in Seq(InLine \ {"SP"}) /\ r.version \in Seq(InLine) /\ r.body \in Seq(Symbols)
  BY <1>1, <1>2, SeqMonotonic, Zenon
<1>4. Len(r.body) \in Nat
  BY <1>3, LengthIsNat
<1>. QED BY <1>1, <1>3, <1>4

(* The place where the first line of a request ends. *)
FirstEnd(r) == Len(r.url) + Len(r.version) + 6

(* The text begins with the first line of the request r.                    *)
HasFirstLine(text, r) ==
  /\ text[1] = MethodName(r.method) /\ text[2] = "SP"
  /\ \A j \in 1 .. Len(r.url) : text[2 + j] = r.url[j]
  /\ text[Len(r.url) + 3] = "SP" /\ text[Len(r.url) + 4] = "HTTP/"
  /\ \A j \in 1 .. Len(r.version) : text[Len(r.url) + 4 + j] = r.version[j]
  /\ text[Len(r.url) + Len(r.version) + 5] = "SP"
  /\ text[FirstEnd(r)] = "CR"

(* The first line of a request without its end.                             *)
First(r) ==
  <<MethodName(r.method), "SP">> \o r.url \o <<"SP", "HTTP/">> \o r.version \o <<"SP">>

(* The symbols of a url.                                                    *)
LEMMA UrlSymbols ==
  ASSUME NEW r \in Requests
  PROVE  /\ r.url \in Seq(Symbols) /\ Len(r.url) \in Nat
         /\ \A j \in 1 .. Len(r.url) : r.url[j] \in Symbols \ {"CR", "LF", "NUL", "SP"}
<1>1. r.url \in Seq(InLine \ {"SP"})
  BY RequestTypes
<1>2. InLine \ {"SP"} \subseteq Symbols
  BY DEF InLine
<1>3. r.url \in Seq(Symbols)
  BY <1>1, <1>2, SeqMonotonic, Zenon
<1>4. Len(r.url) \in Nat
  BY <1>3, LengthIsNat
<1>5. \A j \in 1 .. Len(r.url) : r.url[j] \in InLine \ {"SP"}
  BY <1>1, ElementOfSeq
<1>. QED BY <1>3, <1>4, <1>5 DEF InLine

(* The symbols of a version.                                                *)
LEMMA VersionSymbols ==
  ASSUME NEW r \in Requests
  PROVE  /\ r.version \in Seq(Symbols) /\ Len(r.version) \in Nat
         /\ \A j \in 1 .. Len(r.version) : r.version[j] \in Symbols \ {"CR", "LF", "NUL"}
<1>1. r.version \in Seq(InLine)
  BY RequestTypes
<1>2. InLine \subseteq Symbols
  BY DEF InLine
<1>3. r.version \in Seq(Symbols)
  BY <1>1, <1>2, SeqMonotonic, Zenon
<1>4. Len(r.version) \in Nat
  BY <1>3, LengthIsNat
<1>5. \A j \in 1 .. Len(r.version) : r.version[j] \in InLine
  BY <1>1, ElementOfSeq
<1>. QED BY <1>3, <1>4, <1>5 DEF InLine

(* The symbols of the first line of a request.                              *)
LEMMA FirstSymbols ==
  ASSUME NEW r \in Requests
  PROVE  LET first == First(r)  u == Len(r.url)  v == Len(r.version)
         IN  /\ first \in Seq(Symbols) /\ Len(first) = u + v + 5
             /\ first[1] = MethodName(r.method) /\ first[2] = "SP"
             /\ \A j \in 1 .. u : first[2 + j] = r.url[j]
             /\ first[u + 3] = "SP" /\ first[u + 4] = "HTTP/"
             /\ \A j \in 1 .. v : first[u + 4 + j] = r.version[j]
             /\ first[u + v + 5] = "SP"
             /\ \A j \in 1 .. Len(first) : first[j] # "CR" /\ first[j] # "LF" /\ first[j] # "NUL"
<1>1. PICK u, v, m, url, version :
        /\ u = Len(r.url) /\ v = Len(r.version) /\ m = MethodName(r.method)
        /\ url = r.url /\ version = r.version
  OBVIOUS
<1>2. /\ url \in Seq(Symbols) /\ Len(url) = u /\ u \in Nat
      /\ \A j \in 1 .. u : url[j] \in Symbols \ {"CR", "LF", "NUL"}
  BY <1>1, UrlSymbols
<1>3. /\ version \in Seq(Symbols) /\ Len(version) = v /\ v \in Nat
      /\ \A j \in 1 .. v : version[j] \in Symbols \ {"CR", "LF", "NUL"}
  BY <1>1, VersionSymbols
<1>4. m \in Symbols \ {"CR", "LF", "NUL"}
  BY <1>1, MethodNames
<1>5. PICK p, q, b : p = <<m, "SP">> /\ q = <<"SP", "HTTP/">> /\ b = <<"SP">>
  OBVIOUS
<1>6. /\ p \in Seq(Symbols) /\ Len(p) = 2 /\ p[1] = m /\ p[2] = "SP"
      /\ q \in Seq(Symbols) /\ Len(q) = 2 /\ q[1] = "SP" /\ q[2] = "HTTP/"
      /\ b \in Seq(Symbols) /\ Len(b) = 1 /\ b[1] = "SP"
  <2>1. "SP" \in Symbols /\ "HTTP/" \in Symbols /\ m \in Symbols
    BY <1>4, MarksHave
  <2>. QED BY <2>1, <1>5
<1>7. PICK s1, s2, s3, s4 : s1 = p \o url /\ s2 = s1 \o q /\ s3 = s2 \o version /\ s4 = s3 \o b
  OBVIOUS
<1>8. First(r) = s4
  BY <1>1, <1>5, <1>7 DEF First
<1>9. Joins(s1, p, 2, url, u)
  BY <1>2, <1>6, <1>7, Joined
<1>10. PICK n1, n2, n3 : n1 = 2 + u /\ n2 = u + 4 /\ n3 = u + 4 + v
  OBVIOUS
<1>11. s1 \in Seq(Symbols) /\ Len(s1) = n1
  BY <1>9, <1>10 DEF Joins
<1>12. Joins(s2, s1, n1, q, 2)
  BY <1>6, <1>7, <1>11, Joined
<1>13. s2 \in Seq(Symbols) /\ Len(s2) = n2
  BY <1>2, <1>10, <1>12 DEF Joins
<1>14. Joins(s3, s2, n2, version, v)
  BY <1>3, <1>7, <1>13, Joined
<1>15. s3 \in Seq(Symbols) /\ Len(s3) = n3
  BY <1>2, <1>10, <1>14 DEF Joins
<1>16. Joins(s4, s3, n3, b, 1)
  BY <1>6, <1>7, <1>15, Joined
<1>17. s4 \in Seq(Symbols) /\ Len(s4) = u + v + 5
  BY <1>2, <1>3, <1>10, <1>16 DEF Joins
<1>18. s4[u + v + 5] = "SP"
  <2>1. n3 + 1 = u + v + 5 /\ 1 \in 1 .. 1
    BY <1>2, <1>3, <1>10
  <2>2. s4[n3 + 1] = b[1]
    BY <2>1, <1>16 DEF Joins
  <2>. QED BY <2>1, <2>2, <1>6
<1>19. \A j \in 1 .. n3 : s4[j] = s3[j]
  BY <1>16 DEF Joins
<1>20. \A j \in 1 .. v : s3[n2 + j] = version[j]
  BY <1>14 DEF Joins
<1>21. \A j \in 1 .. n2 : s3[j] = s2[j]
  BY <1>14 DEF Joins
<1>22. s2[n1 + 1] = "SP" /\ s2[n1 + 2] = "HTTP/"
  BY <1>6, <1>12 DEF Joins
<1>23. \A j \in 1 .. n1 : s2[j] = s1[j]
  BY <1>12 DEF Joins
<1>24. \A j \in 1 .. u : s1[2 + j] = url[j]
  BY <1>9 DEF Joins
<1>25. s1[1] = m /\ s1[2] = "SP"
  BY <1>6, <1>9 DEF Joins
<1>26. \A j \in 1 .. v : s4[u + 4 + j] = version[j]
  <2>. TAKE j \in 1 .. v
  <2>1. n2 + j \in 1 .. n3 /\ n2 + j = u + 4 + j
    BY <1>2, <1>3, <1>10
  <2>. QED BY <2>1, <1>19, <1>20
<1>27. s4[u + 3] = "SP" /\ s4[u + 4] = "HTTP/"
  <2>1. /\ n1 + 1 \in 1 .. n2 /\ n1 + 1 \in 1 .. n3 /\ n1 + 1 = u + 3
        /\ n1 + 2 \in 1 .. n2 /\ n1 + 2 \in 1 .. n3 /\ n1 + 2 = u + 4
    BY <1>2, <1>3, <1>10
  <2>. QED BY <2>1, <1>19, <1>21, <1>22
<1>28. \A j \in 1 .. n1 : s4[j] = s1[j]
  <2>. TAKE j \in 1 .. n1
  <2>1. j \in 1 .. n2 /\ j \in 1 .. n3
    BY <1>2, <1>3, <1>10
  <2>. QED BY <2>1, <1>19, <1>21, <1>23
<1>29. \A j \in 1 .. u : s4[2 + j] = url[j]
  <2>. TAKE j \in 1 .. u
  <2>1. 2 + j \in 1 .. n1
    BY <1>2, <1>10
  <2>. QED BY <2>1, <1>24, <1>28
<1>30. s4[1] = m /\ s4[2] = "SP"
  <2>1. 1 \in 1 .. n1 /\ 2 \in 1 .. n1
    BY <1>2, <1>10
  <2>. QED BY <2>1, <1>25, <1>28
<1>31. \A j \in 1 .. Len(s4) : s4[j] # "CR" /\ s4[j] # "LF" /\ s4[j] # "NUL"
  <2>. TAKE j \in 1 .. Len(s4)
  <2>1. CASE j = 1 \/ j = 2
    BY <2>1, <1>4, <1>30
  <2>2. CASE j \in 3 .. u + 2
    <3>1. PICK i \in 1 .. u : j = 2 + i
      <4>1. j - 2 \in 1 .. u /\ j = 2 + (j - 2)
        BY <2>2, <1>2
      <4>. QED BY <4>1
    <3>. QED BY <3>1, <1>2, <1>29
  <2>3. CASE j = u + 3 \/ j = u + 4 \/ j = u + v + 5
    BY <2>3, <1>18, <1>27
  <2>4. CASE j \in u + 5 .. u + v + 4
    <3>1. PICK i \in 1 .. v : j = u + 4 + i
      <4>1. j - (u + 4) \in 1 .. v /\ j = u + 4 + (j - (u + 4))
        BY <2>4, <1>2, <1>3
      <4>. QED BY <4>1
    <3>. QED BY <3>1, <1>3, <1>26
  <2>5. /\ j \in 1 .. u + v + 5
        /\ \/ j = 1 \/ j = 2 \/ j \in 3 .. u + 2 \/ j = u + 3 \/ j = u + 4
           \/ j \in u + 5 .. u + v + 4 \/ j = u + v + 5
    BY <1>2, <1>3, <1>17
  <2>. QED BY <2>1, <2>2, <2>3, <2>4, <2>5
<1>. QED BY <1>1, <1>8, <1>17, <1>18, <1>26, <1>27, <1>29, <1>30, <1>31

-----------------------------------------------------------------------------

(* The request has a Connection header.                                     *)
Kept(r) == r.version = <<"1.0">> /\ r.keepAlive

(* The number of the headers that HttpRequestCreator writes.                *)
HeaderCount(r) == (IF Kept(r) THEN 1 ELSE 0) + (IF r.body # <<>> THEN 1 ELSE 0)

(* The Connection header of a request.                                      *)
IsConnection(key, value, r) == Kept(r) /\ key = "Connection" /\ value = "Keep-Alive"

(* The Content-Length header of a request.                                  *)
IsLength(key, value, r) ==
  r.body # <<>> /\ key = "Content-Length" /\ value = Decimal(Len(r.body))

(* The keys and values of the headers of a request. *)
HasHeaders(keys, values, r) ==
  /\ Len(keys) = HeaderCount(r)
  /\ \A i, k \in 1 .. Len(keys) : keys[i] = keys[k] => i = k
  /\ \A i \in 1 .. Len(keys) : IsConnection(keys[i], values[i], r) \/ IsLength(keys[i], values[i], r)
  /\ Kept(r) => \E i \in 1 .. Len(keys) : keys[i] = "Connection"
  /\ r.body # <<>> => \E i \in 1 .. Len(keys) : keys[i] = "Content-Length"

(* The lines that HttpRequestCreator writes are the first line and the lines *)
(* of the request's headers.                                                *)
LEMMA RequestLinesWritten ==
  ASSUME NEW r \in Requests
  PROVE  \E keys, values :
           /\ Written(RequestLine(r) \o RequestHeaderLines(r), FirstEnd(r), keys, values)
           /\ HasHeaders(keys, values, r)
<1>1. PICK line, s0 : line = FirstEnd(r) /\ s0 = RequestLine(r)
  OBVIOUS
<1>2. Written(s0, line, <<>>, <<>>)
  <2>1. PICK first : first = First(r)
    OBVIOUS
  <2>2. /\ first \in Seq(Symbols) /\ Len(first) = Len(r.url) + Len(r.version) + 5
        /\ \A j \in 1 .. Len(first) : first[j] # "CR" /\ first[j] # "LF" /\ first[j] # "NUL"
    BY <2>1, FirstSymbols
  <2>3. Written(first \o NewLine, Len(first) + 1, <<>>, <<>>)
    BY <2>2, WrittenFirst
  <2>4. s0 = first \o NewLine
    BY <1>1, <2>1 DEF RequestLine, First
  <2>5. line = Len(first) + 1
    BY <1>1, <2>2, UrlSymbols, VersionSymbols DEF FirstEnd
  <2>. QED BY <2>3, <2>4, <2>5
<1>3. PICK a, b : /\ a = IF Kept(r) THEN Line("Connection", "Keep-Alive") ELSE <<>>
                  /\ b = IF r.body # <<>> THEN Line("Content-Length", Decimal(Len(r.body))) ELSE <<>>
  OBVIOUS
<1>4. "Connection" \in PlainSymbols /\ "Keep-Alive" \in PlainSymbols /\ "Content-Length" \in PlainSymbols
  BY PlainWords
<1>5. Decimal(Len(r.body)) \in PlainSymbols
  <2>1. Len(r.body) \in 0 .. MaxLength
    BY RequestTypes, DecimalAssumption
  <2>. QED BY <2>1, DecimalIsPlain
<1>6. a \in Seq(Symbols) /\ b \in Seq(Symbols) /\ s0 \in Seq(Symbols)
  <2>1. <<>> \in Seq(Symbols)
    BY EmptySeq
  <2>2. Line("Connection", "Keep-Alive") \in Seq(Symbols)
    BY <1>4, SymbolsOfHeader
  <2>3. Line("Content-Length", Decimal(Len(r.body))) \in Seq(Symbols)
    BY <1>4, <1>5, SymbolsOfHeader
  <2>4. s0 \in Seq(Symbols)
    BY <1>2 DEF Written
  <2>. QED BY <1>3, <2>1, <2>2, <2>3, <2>4
<1>7. PICK s1 : s1 = s0 \o a
  OBVIOUS
<1>8. \E keys, values :
        /\ Written(s1, line, keys, values)
        /\ Kept(r) => Len(keys) = 1 /\ keys[1] = "Connection" /\ values[1] = "Keep-Alive"
        /\ ~Kept(r) => Len(keys) = 0
  <2>1. CASE Kept(r)
    <3>1. a = Line("Connection", "Keep-Alive")
      BY <2>1, <1>3
    <3>2. Written(s1, line, Append(<<>>, "Connection"), Append(<<>>, "Keep-Alive"))
      BY <3>1, <1>2, <1>4, <1>7, WrittenLine
    <3>3. PICK keys, values : keys = Append(<<>>, "Connection") /\ values = Append(<<>>, "Keep-Alive")
      OBVIOUS
    <3>4. Len(keys) = 1 /\ keys[1] = "Connection" /\ values[1] = "Keep-Alive"
      BY <3>3
    <3>. QED BY <2>1, <3>2, <3>3, <3>4
  <2>2. CASE ~Kept(r)
    <3>1. s1 = s0
      BY <2>2, <1>3, <1>6, <1>7, ConcatEmptySeq
    <3>2. Len(<<>>) = 0
      OBVIOUS
    <3>. QED BY <3>1, <3>2, <2>2, <1>2
  <2>. QED BY <2>1, <2>2
<1>9. PICK keys, values :
        /\ Written(s1, line, keys, values)
        /\ Kept(r) => Len(keys) = 1 /\ keys[1] = "Connection" /\ values[1] = "Keep-Alive"
        /\ ~Kept(r) => Len(keys) = 0
  BY <1>8
<1>10. RequestLine(r) \o RequestHeaderLines(r) = s1 \o b
  <2>1. RequestHeaderLines(r) = a \o b
    BY <1>3 DEF RequestHeaderLines, Kept
  <2>2. (s0 \o a) \o b = s0 \o (a \o b)
    BY <1>6, ConcatAssociative
  <2>. QED BY <2>1, <2>2, <1>1, <1>7
<1>11. CASE r.body # <<>>
  <2>1. PICK n, newKeys, newValues :
          /\ newKeys = Append(keys, "Content-Length") /\ newValues = Append(values, Decimal(Len(r.body)))
          /\ n = Len(keys)
    OBVIOUS
  <2>2. Written(s1 \o b, line, newKeys, newValues)
    BY <1>3, <1>11, <2>1, <1>4, <1>5, <1>9, WrittenLine
  <2>3. /\ Len(newKeys) = n + 1
        /\ \A i \in 1 .. n : newKeys[i] = keys[i] /\ newValues[i] = values[i]
        /\ newKeys[n + 1] = "Content-Length" /\ newValues[n + 1] = Decimal(Len(r.body))
    BY <2>1, <1>9, <1>4, <1>5, AppendProperties DEF Written
  <2>4. IsLength(newKeys[n + 1], newValues[n + 1], r)
    BY <2>3, <1>11 DEF IsLength
  <2>5. CASE Kept(r)
    <3>1. n = 1
      BY <2>1, <2>5, <1>9
    <3>2. newKeys[1] = "Connection" /\ newValues[1] = "Keep-Alive" /\ Len(newKeys) = 2
          /\ newKeys[2] = "Content-Length"
      BY <2>3, <2>5, <3>1, <1>9
    <3>3. \A i \in 1 .. Len(newKeys) : i = 1 \/ i = 2
      BY <3>2
    <3>4. HeaderCount(r) = 2
      BY <2>5, <1>11 DEF HeaderCount
    <3>5. 1 \in 1 .. Len(newKeys) /\ 2 \in 1 .. Len(newKeys) /\ 1 + 1 = 2
      BY <3>2
    <3>6. HasHeaders(newKeys, newValues, r)
      <4>1. \A i \in 1 .. Len(newKeys) :
              IsConnection(newKeys[i], newValues[i], r) \/ IsLength(newKeys[i], newValues[i], r)
        BY <3>1, <3>2, <2>5, <3>3, <3>5, <2>4 DEF IsConnection
      <4>2. \A i, k \in 1 .. Len(newKeys) : newKeys[i] = newKeys[k] => i = k
        BY <3>2, <3>3
      <4>. QED BY <4>1, <4>2, <3>2, <3>4, <3>5 DEF HasHeaders
    <3>. QED BY <3>6, <2>2, <1>1, <1>10
  <2>6. CASE ~Kept(r)
    <3>1. n = 0
      BY <2>1, <2>6, <1>9
    <3>2. Len(newKeys) = 1 /\ newKeys[1] = "Content-Length" /\ 0 + 1 = 1
      BY <2>3, <3>1
    <3>3. \A i \in 1 .. Len(newKeys) : i = 1
      BY <3>2
    <3>4. HeaderCount(r) = 1
      BY <2>6, <1>11 DEF HeaderCount
    <3>5. 1 \in 1 .. Len(newKeys)
      BY <3>2
    <3>6. HasHeaders(newKeys, newValues, r)
      <4>1. \A i \in 1 .. Len(newKeys) :
              IsConnection(newKeys[i], newValues[i], r) \/ IsLength(newKeys[i], newValues[i], r)
        BY <3>1, <3>2, <3>3, <2>4
      <4>. QED BY <4>1, <3>2, <3>3, <3>4, <3>5, <2>6 DEF HasHeaders
    <3>. QED BY <3>6, <2>2, <1>1, <1>10
  <2>. QED BY <2>5, <2>6
<1>12. CASE r.body = <<>>
  <2>1. s1 \in Seq(Symbols)
    BY <1>9 DEF Written
  <2>2. s1 \o b = s1
    BY <2>1, <1>3, <1>12, ConcatEmptySeq
  <2>3. HasHeaders(keys, values, r)
    <3>1. CASE Kept(r)
      <4>1. HeaderCount(r) = 1
        BY <3>1, <1>12 DEF HeaderCount
      <4>2. Len(keys) = 1 /\ keys[1] = "Connection" /\ values[1] = "Keep-Alive"
        BY <3>1, <1>9
      <4>3. \A i \in 1 .. Len(keys) : i = 1
        BY <4>2
      <4>4. 1 \in 1 .. Len(keys)
        BY <4>2
      <4>. QED BY <4>1, <4>2, <4>3, <4>4, <3>1, <1>12 DEF HasHeaders, IsConnection
    <3>2. CASE ~Kept(r)
      <4>1. HeaderCount(r) = 0
        BY <3>2, <1>12 DEF HeaderCount
      <4>2. Len(keys) = 0
        BY <3>2, <1>9
      <4>3. \A i \in 1 .. Len(keys) : FALSE
        BY <4>2
      <4>. QED BY <4>1, <4>2, <4>3, <3>2, <1>12 DEF HasHeaders
    <3>. QED BY <3>1, <3>2
  <2>. QED BY <2>2, <2>3, <1>1, <1>9, <1>10
<1>. QED BY <1>11, <1>12

(* The place of the mark of a request. *)
RequestMark(r) == MarkAt(FirstEnd(r), HeaderCount(r))

(* The text of a request, by its symbols: its first line, its headers, an   *)
(* empty line and its body.                                                 *)
IsRequest(text, r) ==
  /\ Framed(text, FirstEnd(r), HeaderCount(r)) /\ HasLines(text, FirstEnd(r), HeaderCount(r))
  /\ Len(text) = RequestMark(r) + 3 + Len(r.body)
  /\ \A j \in 1 .. Len(r.body) : text[RequestMark(r) + 3 + j] = r.body[j]
  /\ HasFirstLine(text, r)
  /\ \E keys, values :
       /\ HasHeaders(keys, values, r)
       /\ \A i \in 0 .. HeaderCount(r) - 1 :
            /\ text[FirstEnd(r) + 5 * i + 2] = keys[i + 1]
            /\ text[FirstEnd(r) + 5 * i + 4] = values[i + 1]

(* HttpRequestCreator writes the text of the request, if it has a version.  *)
LEMMA RequestShape ==
  ASSUME NEW r \in Requests, r.version # <<>>
  PROVE  IsRequest(RequestText(r), r)
<1>1. PICK keys, values, lines :
        /\ Written(lines, FirstEnd(r), keys, values) /\ HasHeaders(keys, values, r)
        /\ lines = RequestLine(r) \o RequestHeaderLines(r)
  BY RequestLinesWritten
<1>2. PICK line, n, text : line = FirstEnd(r) /\ n = HeaderCount(r) /\ text = RequestText(r)
  OBVIOUS
<1>3. text = (lines \o NewLine) \o r.body
  BY <1>1, <1>2 DEF RequestText
<1>4. r.body \in Seq(Symbols)
  BY RequestTypes
<1>5. Written(lines, line, keys, values)
  BY <1>1, <1>2
<1>6. /\ Framed(text, line, n) /\ HasLines(text, line, n)
      /\ Len(text) = line + 5 * n + 3 + Len(r.body)
      /\ \A j \in 1 .. line + 5 * n + 1 : text[j] = lines[j]
      /\ \A j \in 1 .. Len(r.body) : text[line + 5 * n + 3 + j] = r.body[j]
      /\ \A i \in 0 .. n - 1 : /\ text[line + 5 * i + 2] = keys[i + 1]
                               /\ text[line + 5 * i + 4] = values[i + 1]
  <2>1. HasText(text, lines, line, n, keys, values, r.body)
    BY <1>1, <1>2, <1>3, <1>4, <1>5, WrittenText DEF HasHeaders
  <2>. QED BY <2>1 DEF HasText
<1>7. HasFirstLine(text, r)
  <2>1. PICK u, v, first : u = Len(r.url) /\ v = Len(r.version) /\ first = First(r)
    OBVIOUS
  <2>2. u \in Nat /\ v \in Nat /\ n \in Nat /\ line = u + v + 6
    BY <2>1, <1>2, <1>6, UrlSymbols, VersionSymbols DEF FirstEnd, Framed
  <2>3. /\ first \in Seq(Symbols) /\ Len(first) = u + v + 5
        /\ first[1] = MethodName(r.method) /\ first[2] = "SP"
        /\ \A j \in 1 .. u : first[2 + j] = r.url[j]
        /\ first[u + 3] = "SP" /\ first[u + 4] = "HTTP/"
        /\ \A j \in 1 .. v : first[u + 4 + j] = r.version[j]
        /\ first[u + v + 5] = "SP"
    BY <2>1, FirstSymbols
  <2>4. \A j \in 1 .. u + v + 5 : text[j] = first[j]
    <3>1. PICK m, s0, rest : m = u + v + 5 /\ s0 = RequestLine(r) /\ rest = RequestHeaderLines(r)
      OBVIOUS
    <3>2. Joins(s0, first, m, NewLine, 2)
      BY <2>3, <3>1, <2>1, SymbolsOfNewLine, Joined DEF RequestLine, First
    <3>3. s0 \in Seq(Symbols) /\ Len(s0) = m + 2 /\ \A j \in 1 .. m : s0[j] = first[j]
      BY <3>2 DEF Joins
    <3>4. \A j \in 1 .. m : lines[j] = s0[j]
      <4>1. rest \in Seq(Symbols)
        <5>1. "Connection" \in PlainSymbols /\ "Keep-Alive" \in PlainSymbols /\ "Content-Length" \in PlainSymbols
          BY PlainWords
        <5>2. Decimal(Len(r.body)) \in PlainSymbols
          <6>1. Len(r.body) \in 0 .. MaxLength
            BY RequestTypes, DecimalAssumption
          <6>. QED BY <6>1, DecimalIsPlain
        <5>3. Line("Content-Length", Decimal(Len(r.body))) \in Seq(Symbols)
          BY <5>1, <5>2, SymbolsOfHeader
        <5>4. PICK a, b :
                /\ a = IF r.version = <<"1.0">> /\ r.keepAlive
                       THEN Line("Connection", "Keep-Alive") ELSE <<>>
                /\ b = IF r.body # <<>> THEN Line("Content-Length", Decimal(Len(r.body))) ELSE <<>>
          OBVIOUS
        <5>5. a \in Seq(Symbols) /\ b \in Seq(Symbols)
          BY EmptySeq, <5>1, SymbolsOfHeader, <5>3, <5>4
        <5>6. rest = a \o b
          BY <3>1, <5>4 DEF RequestHeaderLines
        <5>. QED BY <5>5, <5>6, Concatenation
      <4>2. PICK k, x : k = Len(rest) /\ x = m + 2
        OBVIOUS
      <4>3. lines = s0 \o rest
        BY <1>1, <3>1
      <4>4. Joins(lines, s0, x, rest, k)
        BY <4>1, <4>2, <4>3, <3>3, Joined
      <4>5. \A j \in 1 .. x : lines[j] = s0[j]
        BY <4>4 DEF Joins
      <4>. QED BY <4>2, <4>5, <3>1, <2>2
    <3>5. \A j \in 1 .. m : j \in 1 .. line + 5 * n + 1
      BY <3>1, <2>2
    <3>6. \A j \in 1 .. m : text[j] = first[j]
      BY <3>3, <3>4, <3>5, <1>6
    <3>. QED BY <3>1, <3>6
  <2>5. text[line] = "CR"
    <3>1. line \in 1 .. line + 5 * n + 3 /\ LineEnd(line, n, line)
      BY <2>2 DEF LineEnd
    <3>. QED BY <3>1, <1>6 DEF Framed
  <2>6. /\ text[1] = MethodName(r.method) /\ text[2] = "SP"
        /\ text[u + 3] = "SP" /\ text[u + 4] = "HTTP/" /\ text[u + v + 5] = "SP"
    <3>1. /\ 1 \in 1 .. u + v + 5 /\ 2 \in 1 .. u + v + 5 /\ u + 3 \in 1 .. u + v + 5
          /\ u + 4 \in 1 .. u + v + 5 /\ u + v + 5 \in 1 .. u + v + 5
      BY <2>2
    <3>. QED BY <3>1, <2>3, <2>4
  <2>7. \A j \in 1 .. u : text[2 + j] = r.url[j]
    <3>. TAKE j \in 1 .. u
    <3>1. 2 + j \in 1 .. u + v + 5
      BY <2>2
    <3>. QED BY <3>1, <2>3, <2>4
  <2>8. \A j \in 1 .. v : text[u + 4 + j] = r.version[j]
    <3>. TAKE j \in 1 .. v
    <3>1. u + 4 + j \in 1 .. u + v + 5
      BY <2>2
    <3>. QED BY <3>1, <2>3, <2>4
  <2>. QED BY <2>1, <2>5, <2>6, <2>7, <2>8, <1>2 DEF HasFirstLine
<1>8. line + 5 * n = RequestMark(r)
  BY <1>2 DEF RequestMark, MarkAt
<1>9. \E ks, vs :
        /\ HasHeaders(ks, vs, r)
        /\ \A i \in 0 .. n - 1 : text[line + 5 * i + 2] = ks[i + 1] /\ text[line + 5 * i + 4] = vs[i + 1]
  BY <1>1, <1>6
<1>10. IsRequest(text, r)
  BY <1>2, <1>6, <1>7, <1>8, <1>9 DEF IsRequest
<1>. QED BY <1>2, <1>10

-----------------------------------------------------------------------------
(* What HttpRequest reads *)

(* HttpRequest finds the method, the url, the version and the headers'      *)
(* place in a text that begins with the first line of the request r.        *)
LEMMA FirstLineRead ==
  ASSUME NEW r \in Requests, NEW head \in Seq(Symbols), FirstEnd(r) <= Len(head), HasFirstLine(head, r)
  PROVE  /\ Method(head) = <<MethodName(r.method)>>
         /\ Url(head) = r.url
         /\ Version(head) = r.version \o <<"SP">>
         /\ HeadersStart(head) = FirstEnd(r) + 2
<1>1. PICK u, v, line, m, url, version :
        /\ u = Len(r.url) /\ v = Len(r.version) /\ line = FirstEnd(r) /\ m = MethodName(r.method)
        /\ url = r.url /\ version = r.version
  OBVIOUS
<1>2. /\ url \in Seq(Symbols) /\ Len(url) = u /\ u \in Nat
      /\ \A j \in 1 .. u : url[j] \in Symbols \ {"CR", "LF", "NUL", "SP"}
  BY <1>1, UrlSymbols
<1>3. /\ version \in Seq(Symbols) /\ Len(version) = v /\ v \in Nat
      /\ \A j \in 1 .. v : version[j] \in Symbols \ {"CR", "LF", "NUL"}
  BY <1>1, VersionSymbols
<1>4. m \in Symbols \ {"SP", "CR", "LF", "NUL"}
  BY <1>1, MethodNames
<1>5. line = u + v + 6 /\ line \in Nat /\ line <= Len(head) /\ Len(head) \in Nat
  <2>1. Len(head) \in Nat
    BY LengthIsNat
  <2>2. line = u + v + 6 /\ line <= Len(head)
    BY <1>1 DEF FirstEnd
  <2>. QED BY <2>1, <2>2, <1>2, <1>3
<1>6. /\ head[1] = m /\ head[2] = "SP"
      /\ \A j \in 1 .. u : head[2 + j] = url[j]
      /\ head[u + 3] = "SP" /\ head[u + 4] = "HTTP/"
      /\ \A j \in 1 .. v : head[u + 4 + j] = version[j]
      /\ head[u + v + 5] = "SP" /\ head[line] = "CR"
  BY <1>1 DEF HasFirstLine
<1>7. "SP" \in Symbols /\ "HTTP/" \in Symbols
  BY MarksHave
<1>8. PICK blank, http : blank = u + 3 /\ http = u + 4
  OBVIOUS
<1>9. /\ blank \in Nat /\ http \in Nat /\ 3 <= blank /\ blank <= Len(head) /\ http <= Len(head)
      /\ 1 <= http /\ 1 <= blank /\ blank <= http /\ http < line /\ blank < line /\ blank # 0 /\ http # 0
      /\ 1 <= 3 /\ 3 <= line /\ http <= line
  BY <1>2, <1>3, <1>5, <1>8
<1>10. head[blank] = "SP" /\ head[http] = "HTTP/"
  BY <1>6, <1>8
<1>11. \A j \in 3 .. blank - 1 : head[j] # "CR" /\ head[j] # "SP"
  <2>. TAKE j \in 3 .. blank - 1
  <2>1. PICK i \in 1 .. u : j = 2 + i
    <3>1. j - 2 \in 1 .. u /\ j = 2 + (j - 2)
      BY <1>2, <1>8
    <3>. QED BY <3>1
  <2>. QED BY <2>1, <1>2, <1>6
<1>12. \A j \in http .. line - 1 : head[j] # "CR"
  <2>. TAKE j \in http .. line - 1
  <2>1. CASE j = http
    BY <2>1, <1>10
  <2>2. CASE j = u + v + 5
    BY <2>2, <1>6
  <2>3. CASE j # http /\ j # u + v + 5
    <3>1. PICK i \in 1 .. v : j = u + 4 + i
      <4>1. j - (u + 4) \in 1 .. v /\ j = u + 4 + (j - (u + 4))
        BY <2>3, <1>2, <1>3, <1>5, <1>8
      <4>. QED BY <4>1
    <3>. QED BY <3>1, <1>3, <1>6
  <2>. QED BY <2>1, <2>2, <2>3
<1>13. Find(head, <<"SP">>, 1) = 2
  <2>1. \A j \in 1 .. 2 - 1 : head[j] # "SP"
    <3>1. \A j \in 1 .. 2 - 1 : j = 1
      OBVIOUS
    <3>. QED BY <3>1, <1>4, <1>6
  <2>2. 1 \in Nat /\ 2 \in Nat /\ 1 <= 1 /\ 1 <= 2 /\ 2 <= Len(head)
    BY <1>9, <1>5
  <2>. QED BY <2>1, <2>2, <1>6, <1>7, FirstSymbol
<1>14. UrlStart(head) = 3
  BY <1>13 DEF UrlStart
<1>15. Find(head, <<"SP">>, 3) = blank
  <2>1. \A j \in 3 .. blank - 1 : head[j] # "SP"
    BY <1>11
  <2>. QED BY <2>1, <1>7, <1>9, <1>10, FirstSymbol
<1>16. Find(head, <<"CR">>, 3) = line
  <2>1. \A j \in 3 .. line - 1 : head[j] # "CR"
    <3>. TAKE j \in 3 .. line - 1
    <3>1. j \in 3 .. blank - 1 \/ j = blank \/ j \in http .. line - 1
      BY <1>2, <1>5, <1>8
    <3>. QED BY <3>1, <1>10, <1>11, <1>12
  <2>. QED BY <2>1, <1>5, <1>6, <1>9, EndOfLine
<1>17. UrlEnd(head) = blank
  BY <1>9, <1>14, <1>15, <1>16 DEF UrlEnd
<1>18. VersionStart(head) = http
  <2>1. Find(head, <<"HTTP/">>, blank) = http
    <3>1. \A j \in blank .. http - 1 : head[j] # "HTTP/"
      <4>1. \A j \in blank .. http - 1 : j = blank
        BY <1>2, <1>8
      <4>. QED BY <4>1, <1>10
    <3>. QED BY <3>1, <1>7, <1>9, <1>10, FirstSymbol
  <2>. QED BY <2>1, <1>17 DEF VersionStart
<1>19. Find(head, <<"CR">>, http) = line
  BY <1>5, <1>6, <1>9, <1>12, EndOfLine
<1>20. Method(head) = <<m>>
  <2>1. SubSeq(head, 1, 1) = <<m>>
    <3>1. 1 \in Nat /\ 1 <= 1 /\ 1 <= Len(head) /\ m \in Symbols
      BY <1>4, <1>5, <1>9
    <3>. QED BY <3>1, <1>6, OneSymbol
  <2>. QED BY <2>1, <1>13 DEF Method
<1>21. Url(head) = url
  <2>1. PICK a, b : a = 2 /\ b = u + 2
    OBVIOUS
  <2>2. a \in Nat /\ b \in Nat /\ a <= b /\ b <= Len(head) /\ b - a = u
    BY <2>1, <1>2, <1>3, <1>5
  <2>3. IsPart(url, head, a, b)
    <3>1. \A i \in 1 .. b - a : url[i] = head[a + i]
      BY <2>1, <2>2, <1>6
    <3>. QED BY <3>1, <2>2, <1>2 DEF IsPart
  <2>4. url = Part(head, a, b)
    BY <2>2, <2>3, IsThePart
  <2>5. Url(head) = SubSeq(head, 3, blank - 1)
    BY <1>14, <1>17 DEF Url
  <2>6. blank - 1 = b /\ a + 1 = 3
    BY <2>1, <1>2, <1>8
  <2>. QED BY <2>4, <2>5, <2>6 DEF Part
<1>22. Version(head) = version \o <<"SP">>
  <2>1. PICK a, b, w, sp : a = http /\ b = line - 1 /\ w = version \o <<"SP">> /\ sp = <<"SP">>
    OBVIOUS
  <2>2. a \in Nat /\ b \in Nat /\ a <= b /\ b <= Len(head) /\ b - a = v + 1
    BY <2>1, <1>2, <1>3, <1>5, <1>8
  <2>3. sp \in Seq(Symbols) /\ Len(sp) = 1 /\ sp[1] = "SP"
    BY <2>1, <1>7
  <2>4. Joins(w, version, v, sp, 1)
    BY <2>1, <2>3, <1>3, Joined
  <2>5. w \in Seq(Symbols) /\ Len(w) = v + 1
    BY <2>4 DEF Joins
  <2>6. \A i \in 1 .. v + 1 : w[i] = head[a + i]
    <3>. TAKE i \in 1 .. v + 1
    <3>1. CASE i \in 1 .. v
      <4>1. w[i] = version[i] /\ head[u + 4 + i] = version[i]
        BY <3>1, <2>4, <1>6 DEF Joins
      <4>. QED BY <4>1, <2>1, <1>8
    <3>2. CASE i = v + 1
      <4>1. w[v + 1] = sp[1]
        BY <2>4 DEF Joins
      <4>2. a + i = u + v + 5
        BY <3>2, <2>1, <1>2, <1>3, <1>8
      <4>. QED BY <4>1, <4>2, <3>2, <2>3, <1>6
    <3>. QED BY <3>1, <3>2, <1>3
  <2>7. IsPart(w, head, a, b)
    BY <2>2, <2>5, <2>6 DEF IsPart
  <2>8. w = Part(head, a, b)
    BY <2>2, <2>7, IsThePart
  <2>9. Version(head) = SubSeq(head, http + 1, line - 1)
    BY <1>9, <1>18, <1>19 DEF Version
  <2>. QED BY <2>1, <2>8, <2>9 DEF Part
<1>23. HeadersStart(head) = line + 2
  BY <1>9, <1>18, <1>19 DEF HeadersStart
<1>. QED BY <1>1, <1>20, <1>21, <1>22, <1>23

(* A text that begins as a request does. *)
Begins(head, text, r) ==
  /\ head \in Seq(Symbols) /\ RequestMark(r) <= Len(head)
  /\ \A j \in 1 .. RequestMark(r) : head[j] = text[j]

(* The sizes of a request's first line and header.                          *)
LEMMA RequestSizes ==
  ASSUME NEW r \in Requests
  PROVE  /\ FirstEnd(r) \in Nat /\ HeaderCount(r) \in Nat /\ RequestMark(r) \in Nat
         /\ 6 <= FirstEnd(r) /\ FirstEnd(r) <= RequestMark(r)
         /\ RequestMark(r) = FirstEnd(r) + 5 * HeaderCount(r)
<1>1. FirstEnd(r) \in Nat /\ 6 <= FirstEnd(r)
  <2>1. PICK u, v : u = Len(r.url) /\ v = Len(r.version)
    OBVIOUS
  <2>2. u \in Nat /\ v \in Nat
    BY <2>1, UrlSymbols, VersionSymbols
  <2>3. FirstEnd(r) = u + v + 6
    BY <2>1 DEF FirstEnd
  <2>. QED BY <2>2, <2>3
<1>2. HeaderCount(r) \in Nat
  BY DEF HeaderCount
<1>3. RequestMark(r) = FirstEnd(r) + 5 * HeaderCount(r)
  BY DEF RequestMark, MarkAt
<1>. QED BY <1>1, <1>2, <1>3

(* The same for the beginning of the text of a request.                     *)
LEMMA FirstLineOfBeginning ==
  ASSUME NEW r \in Requests, NEW text, IsRequest(text, r), NEW head, Begins(head, text, r)
  PROVE  /\ Method(head) = <<MethodName(r.method)>>
         /\ Url(head) = r.url
         /\ Version(head) = r.version \o <<"SP">>
         /\ HeadersStart(head) = FirstEnd(r) + 2
<1>1. PICK u, v, line, at :
        u = Len(r.url) /\ v = Len(r.version) /\ line = FirstEnd(r) /\ at = RequestMark(r)
  OBVIOUS
<1>2. /\ u \in Nat /\ v \in Nat /\ line = u + v + 6 /\ at \in Nat /\ line <= at
  BY <1>1, UrlSymbols, VersionSymbols, RequestSizes DEF FirstEnd
<1>3. head \in Seq(Symbols) /\ at <= Len(head) /\ \A j \in 1 .. at : head[j] = text[j]
  BY <1>1 DEF Begins
<1>4. /\ text[1] = MethodName(r.method) /\ text[2] = "SP"
      /\ \A j \in 1 .. u : text[2 + j] = r.url[j]
      /\ text[u + 3] = "SP" /\ text[u + 4] = "HTTP/"
      /\ \A j \in 1 .. v : text[u + 4 + j] = r.version[j]
      /\ text[u + v + 5] = "SP" /\ text[line] = "CR"
  BY <1>1 DEF IsRequest, HasFirstLine
<1>5. /\ head[1] = MethodName(r.method) /\ head[2] = "SP"
      /\ head[u + 3] = "SP" /\ head[u + 4] = "HTTP/"
      /\ head[u + v + 5] = "SP" /\ head[line] = "CR"
  BY <1>3, <1>4, <1>2
<1>6. \A j \in 1 .. u : head[2 + j] = r.url[j]
  <2>. TAKE j \in 1 .. u
  <2>1. 2 + j \in 1 .. at
    BY <1>2
  <2>. QED BY <2>1, <1>3, <1>4
<1>7. \A j \in 1 .. v : head[u + 4 + j] = r.version[j]
  <2>. TAKE j \in 1 .. v
  <2>1. u + 4 + j \in 1 .. at
    BY <1>2
  <2>. QED BY <2>1, <1>3, <1>4
<1>8. HasFirstLine(head, r)
  BY <1>1, <1>5, <1>6, <1>7 DEF HasFirstLine
<1>9. FirstEnd(r) <= Len(head)
  <2>1. line <= Len(head)
    BY <1>3, LengthIsNat, <1>2
  <2>. QED BY <2>1, <1>1
<1>. QED BY <1>3, <1>8, <1>9, FirstLineRead

(* The length that GetContentLength returns.                                *)
LEMMA LengthInHeaders ==
  ASSUME NEW headers
  PROVE  /\ ContentLength(headers) \in 0 .. MaxLength
         /\ <<"Content-Length">> \notin DOMAIN headers => ContentLength(headers) = 0
         /\ \A n \in 0 .. MaxLength :
              /\ <<"Content-Length">> \in DOMAIN headers
              /\ headers[<<"Content-Length">>] = <<Decimal(n)>>
              => ContentLength(headers) = n
<1>1. PICK key : key = <<"Content-Length">>
  OBVIOUS
<1>2. PICK lengths : lengths = {n \in 0 .. MaxLength : /\ key \in DOMAIN headers
                                                       /\ headers[key] = <<Decimal(n)>>}
  OBVIOUS
<1>3. ContentLength(headers) = IF lengths = {} THEN 0 ELSE CHOOSE n \in lengths : TRUE
  BY <1>1, <1>2 DEF ContentLength
<1>4. lengths # {} => ContentLength(headers) \in lengths
  BY <1>3
<1>5. ASSUME NEW n \in 0 .. MaxLength, key \in DOMAIN headers, headers[key] = <<Decimal(n)>>
      PROVE  ContentLength(headers) = n
  <2>1. PICK m : m = ContentLength(headers)
    OBVIOUS
  <2>2. m = n
    BY <1>2, <1>5, <2>1, <1>4, DecimalAssumption
  <2>. QED BY <2>1, <2>2
<1>6. key \notin DOMAIN headers => ContentLength(headers) = 0
  BY <1>2, <1>3
<1>7. ContentLength(headers) \in 0 .. MaxLength
  BY <1>2, <1>3, DecimalAssumption, <1>4
<1>. QED BY <1>1, <1>5, <1>6, <1>7

(* HttpRequest finds the headers that HttpRequestCreator wrote, and         *)
(* GetContentLength the length of the body.                                 *)
LEMMA HeadersRead ==
  ASSUME request \in Requests, NEW text, IsRequest(text, request),
         NEW head, IsHead(head, text, FirstEnd(request), HeaderCount(request))
  PROVE  Headers(head) = CreatedHeaders /\ ContentLength(CreatedHeaders) = Len(request.body)
<1>1. PICK line, n : line = FirstEnd(request) /\ n = HeaderCount(request)
  OBVIOUS
<1>2. line \in Nat /\ n \in Nat /\ RequestMark(request) = line + 5 * n
  BY <1>1, RequestSizes
<1>3. Begins(head, text, request)
  <2>1. head \in Seq(Symbols) /\ Len(head) = line + 5 * n + 1 /\ \A j \in 1 .. line + 5 * n + 1 : head[j] = text[j]
    BY <1>1 DEF IsHead
  <2>2. \A j \in 1 .. line + 5 * n : j \in 1 .. line + 5 * n + 1
    BY <1>2
  <2>. QED BY <2>1, <2>2, <1>2 DEF Begins
<1>4. HeadersStart(head) = line + 2
  BY <1>1, <1>3, FirstLineOfBeginning
<1>5. PICK keys, values :
        /\ HasHeaders(keys, values, request)
        /\ \A i \in 0 .. n - 1 : text[line + 5 * i + 2] = keys[i + 1] /\ text[line + 5 * i + 4] = values[i + 1]
  BY <1>1 DEF IsRequest
<1>6. PICK start, all : start = line + 2 /\ all = Keys(head, start)
  OBVIOUS
<1>7. /\ Framed(text, line, n) /\ HasLines(text, line, n) /\ IsHead(head, text, line, n)
  BY <1>1 DEF IsRequest
<1>8. /\ all = {<<text[line + 5 * i + 2]>> : i \in 0 .. n - 1}
      /\ \A i \in 0 .. n - 1 :
           Value(head, Min(ColonsOf(head, start, <<text[line + 5 * i + 2]>>))) = <<text[line + 5 * i + 4]>>
  BY <1>6, <1>7, ParsedHeaders
<1>9. /\ all = {<<keys[i + 1]>> : i \in 0 .. n - 1}
      /\ \A i \in 0 .. n - 1 : Value(head, Min(ColonsOf(head, start, <<keys[i + 1]>>))) = <<values[i + 1]>>
  BY <1>5, <1>8
<1>10. PICK connection, length, kept :
         connection = <<"Connection">> /\ length = <<"Content-Length">> /\ kept = Kept(request)
  OBVIOUS
<1>11. \A i \in 0 .. n - 1 : i + 1 \in 1 .. Len(keys)
  BY <1>1, <1>2, <1>5 DEF HasHeaders
<1>12. \A i \in 0 .. n - 1 :
         \/ IsConnection(keys[i + 1], values[i + 1], request)
         \/ IsLength(keys[i + 1], values[i + 1], request)
  BY <1>5, <1>11 DEF HasHeaders
<1>13. \A key \in all :
         \/ /\ key = connection /\ Kept(request)
            /\ Value(head, Min(ColonsOf(head, start, key))) = <<"Keep-Alive">>
         \/ /\ key = length /\ request.body # <<>>
            /\ Value(head, Min(ColonsOf(head, start, key))) = <<Decimal(Len(request.body))>>
  <2>. TAKE key \in all
  <2>1. PICK i \in 0 .. n - 1 : key = <<keys[i + 1]>>
    BY <1>9
  <2>2. Value(head, Min(ColonsOf(head, start, key))) = <<values[i + 1]>>
    BY <2>1, <1>9
  <2>3. CASE IsConnection(keys[i + 1], values[i + 1], request)
    BY <2>1, <2>2, <2>3, <1>10 DEF IsConnection
  <2>4. CASE IsLength(keys[i + 1], values[i + 1], request)
    BY <2>1, <2>2, <2>4, <1>10 DEF IsLength
  <2>. QED BY <2>3, <2>4, <1>12
<1>14. \A i \in 1 .. Len(keys) : <<keys[i]>> \in all
  <2>. TAKE i \in 1 .. Len(keys)
  <2>1. i - 1 \in 0 .. n - 1 /\ i - 1 + 1 = i
    BY <1>1, <1>2, <1>5 DEF HasHeaders
  <2>2. <<keys[i - 1 + 1]>> \in all
    BY <2>1, <1>9
  <2>. QED BY <2>1, <2>2
<1>15. Kept(request) => connection \in all
  BY <1>5, <1>10, <1>14 DEF HasHeaders
<1>16. request.body # <<>> => length \in all
  BY <1>5, <1>10, <1>14 DEF HasHeaders
<1>17. PICK created : created = (IF Kept(request) THEN {connection} ELSE {})
                                \cup (IF request.body # <<>> THEN {length} ELSE {})
  OBVIOUS
<1>18. all = created
  BY <1>13, <1>15, <1>16, <1>17
<1>19. connection # length
  BY <1>10
<1>20. Headers(head) = [key \in all |-> Value(head, Min(ColonsOf(head, start, key)))]
  BY <1>4, <1>6 DEF Headers
<1>21. CreatedHeaders =
         [key \in created |-> IF key = connection THEN <<"Keep-Alive">> ELSE <<Decimal(Len(request.body))>>]
  BY <1>10, <1>17 DEF CreatedHeaders, Kept
<1>22. \A key \in all : Value(head, Min(ColonsOf(head, start, key))) =
         IF key = connection THEN <<"Keep-Alive">> ELSE <<Decimal(Len(request.body))>>
  BY <1>13, <1>19
<1>23. Headers(head) = CreatedHeaders
  BY <1>18, <1>20, <1>21, <1>22
<1>24. ContentLength(CreatedHeaders) = Len(request.body)
  <2>1. PICK k : k = Len(request.body)
    OBVIOUS
  <2>2. k \in 0 .. MaxLength
    BY <2>1, RequestTypes, DecimalAssumption
  <2>3. CASE request.body # <<>>
    <3>1. length \in DOMAIN CreatedHeaders /\ CreatedHeaders[length] = <<Decimal(k)>>
      BY <2>1, <2>3, <1>17, <1>19, <1>21
    <3>. QED BY <3>1, <2>1, <2>2, <1>10, LengthInHeaders
  <2>4. CASE request.body = <<>>
    <3>1. length \notin DOMAIN CreatedHeaders
      BY <2>4, <1>17, <1>19, <1>21
    <3>2. ContentLength(CreatedHeaders) = 0
      BY <3>1, <1>10, LengthInHeaders
    <3>3. Len(<<>>) = 0
      OBVIOUS
    <3>. QED BY <3>2, <3>3, <2>4
  <2>. QED BY <2>3, <2>4
<1>. QED BY <1>23, <1>24

-----------------------------------------------------------------------------
(* Buffers *)

(* What Find returns is 0 or a place at which the pattern fits into the     *)
(* text.                                                                    *)
LEMMA FindIsPlace ==
  ASSUME NEW text \in Seq(Symbols), NEW pattern \in Seq(Symbols), NEW k, Len(pattern) = k
  PROVE  \/ Find(text, pattern, 1) = 0
         \/ Find(text, pattern, 1) \in 1 .. Len(text) - k + 1
<1>1. PICK places : places = {i \in 1 .. Len(text) - Len(pattern) + 1 :
                               SubSeq(text, i, i + Len(pattern) - 1) = pattern}
  OBVIOUS
<1>2. Find(text, pattern, 1) = IF places = {} THEN 0 ELSE Min(places)
  BY <1>1 DEF Find
<1>3. places \subseteq 1 .. Len(text) - k + 1
  BY <1>1
<1>4. CASE places # {}
  <2>1. places \in SUBSET Nat /\ places \in SUBSET Int
    BY LengthIsNat, <1>3
  <2>2. PICK x \in places : \A y \in places : x <= y
    BY <2>1, <1>4, LeastNumber
  <2>3. Min(places) = x
    BY <2>1, <2>2, MinIsLeast
  <2>. QED BY <2>3, <1>2, <1>3, <1>4
<1>. QED BY <1>2, <1>4

(* What the search for the end of the header returns: 0, or a place at      *)
(* which the mark fits into the text.                                       *)
LEMMA EndMarkIsPlace ==
  ASSUME NEW text \in Seq(Symbols)
  PROVE  /\ EndMark(text).size \in {2, 4}
         /\ EndMark(text).at # 0 =>
              EndMark(text).at \in Nat /\ 1 <= EndMark(text).at
              /\ EndMark(text).at + EndMark(text).size - 1 <= Len(text)
<1>1. Len(text) \in Nat
  BY LengthIsNat
<1>2. PICK x, y : x = Find(text, EmptyLine, 1) /\ y = Find(text, <<"LF", "LF">>, 1)
  OBVIOUS
<1>3. x = 0 \/ x \in 1 .. Len(text) - 4 + 1
  BY <1>2, MarkSymbols, FindIsPlace
<1>4. y = 0 \/ y \in 1 .. Len(text) - 2 + 1
  <2>1. PICK lflf : lflf = <<"LF", "LF">>
    OBVIOUS
  <2>2. lflf \in Seq(Symbols) /\ Len(lflf) = 2
    BY <2>1, MarksHave
  <2>3. y = Find(text, lflf, 1)
    BY <2>1, <1>2
  <2>. QED BY <2>2, <2>3, FindIsPlace
<1>5. EndMark(text) = IF x # 0 THEN [at |-> x, size |-> 4] ELSE [at |-> y, size |-> 2]
  BY <1>2 DEF EndMark
<1>6. CASE x # 0
  <2>1. EndMark(text).at = x /\ EndMark(text).size = 4
    BY <1>5, <1>6
  <2>. QED BY <2>1, <1>1, <1>3, <1>6
<1>7. CASE x = 0
  <2>1. EndMark(text).at = y /\ EndMark(text).size = 2
    BY <1>5, <1>7
  <2>. QED BY <2>1, <1>1, <1>4
<1>. QED BY <1>6, <1>7

(* The halves of the marks.                                                 *)
LEMMA Halves == 2 \div 2 = 1 /\ 4 \div 2 = 2
OBVIOUS

(* What RecvHeaderAsync takes out of a buffer is text.                      *)
LEMMA BufferTypes ==
  ASSUME NEW buffer \in Seq(Symbols)
  PROVE  /\ BeforeNul(buffer) \in Seq(Symbols) /\ FromNul(buffer) \in Seq(Symbols)
         /\ HasMark(buffer) => /\ UpToMark(BeforeNul(buffer)) \in Seq(Symbols)
                               /\ AfterMark(BeforeNul(buffer)) \in Seq(Symbols)
<1>1. Len(buffer) \in Nat
  BY LengthIsNat
<1>2. PICK k, nul : k = Find(buffer, nul, 1) /\ nul = <<"NUL">>
  OBVIOUS
<1>3. k = 0 \/ (k \in Nat /\ 1 <= k /\ k <= Len(buffer))
  <2>1. "NUL" \in Symbols
    BY MarksHave
  <2>2. nul \in Seq(Symbols) /\ Len(nul) = 1
    BY <2>1, <1>2
  <2>3. k = 0 \/ k \in 1 .. Len(buffer) - 1 + 1
    BY <2>2, <1>2, FindIsPlace
  <2>. QED BY <2>3, <1>1
<1>4. BeforeNul(buffer) \in Seq(Symbols)
  <2>1. CASE k = 0
    BY <2>1, <1>2 DEF BeforeNul
  <2>2. CASE k # 0
    <3>1. BeforeNul(buffer) = SubSeq(buffer, 1, k - 1)
      BY <2>2, <1>2 DEF BeforeNul
    <3>2. 1 \in Nat \ {0} /\ k - 1 \in Nat /\ k - 1 <= Len(buffer)
      BY <2>2, <1>1, <1>3
    <3>3. SubSeq(buffer, 1, k - 1) \in Seq(Symbols)
      BY <3>2, PartOfText
    <3>. QED BY <3>1, <3>3
  <2>. QED BY <2>1, <2>2
<1>5. FromNul(buffer) \in Seq(Symbols)
  <2>1. CASE k = 0
    BY <2>1, <1>2, EmptySeq DEF FromNul
  <2>2. CASE k # 0
    <3>1. FromNul(buffer) = SubSeq(buffer, k, Len(buffer))
      BY <2>2, <1>2 DEF FromNul, From
    <3>2. k \in Nat \ {0} /\ Len(buffer) <= Len(buffer)
      BY <2>2, <1>1, <1>3
    <3>3. SubSeq(buffer, k, Len(buffer)) \in Seq(Symbols)
      BY <3>2, <1>1, PartOfText
    <3>. QED BY <3>1, <3>3
  <2>. QED BY <2>1, <2>2
<1>6. ASSUME HasMark(buffer)
      PROVE  /\ UpToMark(BeforeNul(buffer)) \in Seq(Symbols)
             /\ AfterMark(BeforeNul(buffer)) \in Seq(Symbols)
  <2>1. PICK text, at, size, b, c : /\ text = BeforeNul(buffer) /\ at = EndMark(text).at
                                    /\ size = EndMark(text).size
                                    /\ b = at - 1 + size \div 2 /\ c = at + size
    OBVIOUS
  <2>2. text \in Seq(Symbols) /\ Len(text) \in Nat /\ at # 0
    BY <2>1, <1>4, <1>6, LengthIsNat DEF HasMark
  <2>3. size \in {2, 4} /\ at \in Nat /\ 1 <= at /\ at + size - 1 <= Len(text)
    BY <2>1, <2>2, EndMarkIsPlace
  <2>4. b \in Nat /\ b <= Len(text) /\ c \in Nat \ {0} /\ 1 \in Nat \ {0} /\ Len(text) <= Len(text)
    <3>1. CASE size = 2
      <4>1. size \div 2 = 1
        BY <3>1, Halves
      <4>2. b = at - 1 + 1 /\ c = at + 2
        BY <2>1, <3>1, <4>1
      <4>. QED BY <4>2, <3>1, <2>2, <2>3
    <3>2. CASE size = 4
      <4>1. size \div 2 = 2
        BY <3>2, Halves
      <4>2. b = at - 1 + 2 /\ c = at + 4
        BY <2>1, <3>2, <4>1
      <4>. QED BY <4>2, <3>2, <2>2, <2>3
    <3>. QED BY <2>3, <3>1, <3>2
  <2>5. SubSeq(text, 1, b) \in Seq(Symbols) /\ SubSeq(text, c, Len(text)) \in Seq(Symbols)
    BY <2>2, <2>4, PartOfText
  <2>6. UpToMark(text) = SubSeq(text, 1, b) /\ AfterMark(text) = SubSeq(text, c, Len(text))
    BY <2>1 DEF UpToMark, AfterMark, From
  <2>. QED BY <2>1, <2>5, <2>6
<1>. QED BY <1>4, <1>5, <1>6

(* A header begins as the text does, whatever follows. *)
LEMMA BeginsLonger ==
  ASSUME NEW r \in Requests, NEW text, NEW head, Begins(head, text, r), NEW more \in Seq(Symbols)
  PROVE  Begins(head \o more, text, r)
<1>1. PICK at, m, n, new : at = RequestMark(r) /\ m = Len(head) /\ n = Len(more) /\ new = head \o more
  OBVIOUS
<1>2. head \in Seq(Symbols) /\ at <= m /\ (\A j \in 1 .. at : head[j] = text[j]) /\ at \in Nat
  BY <1>1, RequestSizes DEF Begins
<1>3. Joins(new, head, m, more, n)
  BY <1>1, <1>2, Joined
<1>4. m \in Nat /\ n \in Nat /\ new \in Seq(Symbols) /\ Len(new) = m + n /\ \A j \in 1 .. m : new[j] = head[j]
  BY <1>3 DEF Joins
<1>5. Begins(new, text, r)
  BY <1>1, <1>2, <1>4 DEF Begins
<1>. QED BY <1>1, <1>5

(* A part that reaches from the beginning of the text to the end of the     *)
(* header, or further.                                                      *)
LEMMA BeginningOfText ==
  ASSUME NEW r \in Requests, NEW text \in Seq(Symbols), NEW b \in Nat, RequestMark(r) <= b,
         b <= Len(text)
  PROVE  Begins(Part(text, 0, b), text, r)
<1>1. PICK at, head : at = RequestMark(r) /\ head = Part(text, 0, b)
  OBVIOUS
<1>2. at \in Nat /\ at <= b
  BY <1>1, RequestSizes
<1>3. IsPart(head, text, 0, b)
  BY <1>1, PartIs
<1>4. head \in Seq(Symbols) /\ Len(head) = b /\ \A i \in 1 .. b : head[i] = text[0 + i]
  BY <1>3 DEF IsPart
<1>5. Begins(head, text, r)
  BY <1>1, <1>2, <1>4 DEF Begins
<1>. QED BY <1>1, <1>5

(* An HTTP/0.9 request. *)
LEMMA OldRequest ==
  ASSUME NEW r \in Requests, r.version = <<>>, NEW text, text = RequestText(r)
  PROVE  /\ text \in Seq(Symbols)
         /\ \A j \in 1 .. Len(text) : text[j] # "NUL" /\ (text[j] = "LF" => j = Len(text))
<1>1. PICK url, u, get, first, m : /\ url = r.url /\ u = Len(r.url) /\ get = <<"GET", "SP">>
                                   /\ first = get \o url /\ m = 2 + u
  OBVIOUS
<1>2. url \in Seq(Symbols) /\ Len(url) = u /\ u \in Nat /\ m \in Nat
      /\ \A j \in 1 .. u : url[j] # "NUL" /\ url[j] # "LF"
  BY <1>1, UrlSymbols
<1>3. get \in Seq(Symbols) /\ Len(get) = 2 /\ get[1] = "GET" /\ get[2] = "SP"
  <2>1. "SP" \in Symbols
    BY MarksHave
  <2>2. "GET" \in Symbols
    <3>1. "GET" \in Words
      BY DEF Words, Methods
    <3>. QED BY <3>1, SymbolsHave, Zenon
  <2>. QED BY <2>1, <2>2, <1>1
<1>4. Joins(first, get, 2, url, u)
  BY <1>1, <1>2, <1>3, Joined
<1>5. /\ first \in Seq(Symbols) /\ Len(first) = m /\ first[1] = "GET" /\ first[2] = "SP"
      /\ \A j \in 1 .. u : first[2 + j] = url[j]
  BY <1>1, <1>3, <1>4 DEF Joins
<1>6. Joins(text, first, m, NewLine, 2)
  BY <1>5, <1>1, SymbolsOfNewLine, Joined DEF RequestText
<1>7. /\ text \in Seq(Symbols) /\ Len(text) = m + 2
      /\ \A j \in 1 .. m : text[j] = first[j]
      /\ text[m + 1] = "CR" /\ text[m + 2] = "LF"
  BY <1>6, SymbolsOfNewLine DEF Joins
<1>8. ASSUME NEW j \in 1 .. m + 2
      PROVE  text[j] # "NUL" /\ (text[j] = "LF" => j = m + 2)
  <2>1. CASE j = 1 \/ j = 2
    <3>1. j \in 1 .. m
      BY <2>1, <1>1, <1>2
    <3>. QED BY <2>1, <3>1, <1>5, <1>7
  <2>2. CASE j \in 3 .. m
    <3>1. PICK i \in 1 .. u : j = 2 + i
      <4>1. j - 2 \in 1 .. u /\ j = 2 + (j - 2)
        BY <2>2, <1>1, <1>2
      <4>. QED BY <4>1
    <3>2. text[j] = url[i]
      <4>1. j \in 1 .. m
        BY <2>2, <1>2
      <4>. QED BY <4>1, <3>1, <1>5, <1>7
    <3>. QED BY <3>2, <1>2
  <2>3. CASE j = m + 1 \/ j = m + 2
    BY <2>3, <1>7
  <2>4. j = 1 \/ j = 2 \/ j \in 3 .. m \/ j = m + 1 \/ j = m + 2
    <3>1. m \in Nat
      BY <1>2
    <3>. QED BY <3>1
  <2>. QED BY <2>1, <2>2, <2>3, <2>4
<1>. QED BY <1>7, <1>8

(* What the client sends is text.                                           *)
LEMMA MessageSymbols ==
  ASSUME NEW r \in Requests
  PROVE  RequestText(r) \in Seq(Symbols)
<1>1. CASE r.version = <<>>
  BY <1>1, OldRequest
<1>2. CASE r.version # <<>>
  BY <1>2, RequestShape DEF IsRequest, Framed
<1>. QED BY <1>1, <1>2

-----------------------------------------------------------------------------
(* The invariant of receiving a request *)

(* A request without a version has no end of its header anywhere.           *)
LEMMA OldRequestHasNoMark ==
  ASSUME NEW r \in Requests, r.version = <<>>, NEW text, text = RequestText(r),
         NEW part, NEW a, NEW b, IsPart(part, text, a, b), b <= Len(text)
  PROVE  ~HasMark(part)
<1>1. /\ text \in Seq(Symbols)
      /\ \A j \in 1 .. Len(text) : text[j] # "NUL" /\ (text[j] = "LF" => j = Len(text))
  BY OldRequest
<1>2. PICK size : size = b - a
  OBVIOUS
<1>3. /\ part \in Seq(Symbols) /\ a \in Nat /\ b \in Nat /\ a <= b /\ Len(part) = size
      /\ \A i \in 1 .. size : part[i] = text[a + i]
  BY <1>2 DEF IsPart
<1>4. Len(text) \in Nat /\ size \in Nat
  BY <1>1, <1>2, <1>3, LengthIsNat
<1>5. \A i \in 1 .. size : a + i \in 1 .. Len(text)
  BY <1>2, <1>3, <1>4
<1>6. \A i \in 1 .. Len(part) : part[i] # "NUL"
  BY <1>1, <1>3, <1>5
<1>7. \A i, j \in 1 .. Len(part) : part[i] = "LF" /\ part[j] = "LF" => i = j
  <2>. SUFFICES ASSUME NEW i \in 1 .. size, NEW j \in 1 .. size, part[i] = "LF", part[j] = "LF"
                PROVE  i = j
    BY <1>3
  <2>1. a + i = Len(text) /\ a + j = Len(text)
    BY <1>1, <1>3, <1>5
  <2>2. i \in Nat /\ j \in Nat
    BY <1>4
  <2>. QED BY <2>1, <2>2, <1>3, <1>4
<1>8. EndMark(part).at = 0
  BY <1>3, <1>7, NoMark
<1>9. BeforeNul(part) = part
  <2>1. "NUL" \in Symbols
    BY MarksHave
  <2>2. Find(part, <<"NUL">>, 1) = 0
    BY <2>1, <1>3, <1>6, FindSymbol
  <2>. QED BY <2>2 DEF BeforeNul
<1>. QED BY <1>8, <1>9 DEF HasMark

(* A NUL behind the header is one of the request's body.                    *)
LEMMA NulInBody ==
  ASSUME NEW r \in Requests, NEW text, IsRequest(text, r), NEW e \in Nat,
         RequestMark(r) + 3 <= e, e < Len(text), text[e + 1] = "NUL"
  PROVE  Find(r.body, <<"NUL">>, 1) # 0
<1>1. PICK h, size : h = RequestMark(r) + 3 /\ size = Len(r.body)
  OBVIOUS
<1>2. h \in Nat /\ size \in Nat /\ r.body \in Seq(Symbols)
  BY <1>1, RequestSizes, RequestTypes
<1>3. Len(text) = h + size /\ \A j \in 1 .. size : text[h + j] = r.body[j]
  BY <1>1 DEF IsRequest
<1>4. PICK i : i = e + 1 - h
  OBVIOUS
<1>5. i \in 1 .. size /\ h + i = e + 1
  BY <1>1, <1>2, <1>3, <1>4
<1>6. r.body[i] = "NUL"
  BY <1>3, <1>5
<1>7. PICK N : N = {j \in 1 .. size : r.body[j] = "NUL"}
  OBVIOUS
<1>8. N \in SUBSET Nat /\ N # {}
  BY <1>2, <1>5, <1>6, <1>7
<1>9. PICK k \in N : \A m \in N : k <= m
  BY <1>8, LeastNumber
<1>10. k \in Nat /\ 1 <= k /\ k <= Len(r.body) /\ r.body[k] = "NUL" /\ k # 0
  BY <1>1, <1>2, <1>7, <1>9
<1>11. \A j \in 1 .. k - 1 : r.body[j] # "NUL"
  <2>. SUFFICES ASSUME NEW j \in 1 .. k - 1, r.body[j] = "NUL" PROVE FALSE
    OBVIOUS
  <2>1. j \in 1 .. size /\ j < k
    BY <1>1, <1>2, <1>10
  <2>2. k <= j
    BY <2>1, <1>7, <1>9
  <2>. QED BY <2>1, <2>2, <1>2, <1>10
<1>12. Find(r.body, <<"NUL">>, 1) = k
  <2>1. "NUL" \in Symbols
    BY MarksHave
  <2>2. 1 \in Nat /\ 1 <= 1
    OBVIOUS
  <2>. QED BY <2>1, <2>2, <1>2, <1>10, <1>11, FirstSymbol
<1>. QED BY <1>10, <1>12

(* What RecvBodyAsync leaves, with `have` in the body. *)
TakenBody(have, length, place) ==
  /\ taken' \in Nat /\ place <= taken' /\ taken' <= Len(Message)
  /\ body' \in Seq(Symbols)
  /\ body' = have \o Part(Message, place, taken')
  /\ Len(body') = Len(have) + (taken' - place)
  /\ state' \in {"receiving", "complete"}
  /\ state' = "receiving" => Len(body') < length
  /\ state' = "complete" => Len(body') >= length

(* What RecvBodyAsync leaves.                                               *)
LEMMA BodyTaken ==
  ASSUME NEW have \in Seq(Symbols), NEW length \in Nat, NEW place \in Nat, NEW readable \in Nat,
         Message \in Seq(Symbols), place + readable <= Len(Message), state = "receiving",
         RecvBodyAsync(have, length, place, readable)
  PROVE  TakenBody(have, length, place)
<1>1. PICK m, h, missing, count : /\ m = Len(Message) /\ h = Len(have)
                                  /\ missing = (IF h >= length THEN 0 ELSE length - h)
                                  /\ count = (IF readable >= missing THEN missing ELSE readable)
  OBVIOUS
<1>2. h \in Nat /\ m \in Nat
  BY <1>1, LengthIsNat
<1>3. count \in Nat /\ count <= readable /\ (h < length => h + count <= length)
      /\ (h >= length => count = 0)
  BY <1>1, <1>2
<1>4. PICK end, part : end = place + count /\ part = SubSeq(Message, place + 1, end)
  OBVIOUS
<1>5. end \in Nat /\ place <= end /\ end <= m /\ end - place = count
  BY <1>1, <1>2, <1>3, <1>4
<1>6. body' = have \o part /\ taken' = end
      /\ state' = IF h >= length \/ Len(body') = length THEN "complete" ELSE state
  BY <1>1, <1>4 DEF RecvBodyAsync
<1>7. part = Part(Message, place, end)
  BY <1>4 DEF Part
<1>8. IsPart(part, Message, place, end)
  BY <1>1, <1>5, <1>7, PartIs
<1>9. Joins(body', have, h, part, count)
  BY <1>1, <1>6, <1>5, <1>8, Joined DEF IsPart
<1>10. body' \in Seq(Symbols) /\ Len(body') = h + count
  BY <1>9 DEF Joins
<1>11. /\ state' \in {"receiving", "complete"}
       /\ state' = "receiving" => h < length /\ Len(body') # length
       /\ state' = "complete" => h >= length \/ Len(body') = length
  BY <1>2, <1>6
<1>12. /\ state' = "receiving" => Len(body') < length
       /\ state' = "complete" => Len(body') >= length
  BY <1>2, <1>3, <1>10, <1>11
<1>. QED BY <1>1, <1>5, <1>6, <1>7, <1>10, <1>11, <1>12 DEF TakenBody

-----------------------------------------------------------------------------
(* But for a NUL in the body of a request whose header came in pieces, the   *)
(* body is the client's.                                                     *)
Exact == ~(split /\ Find(request.body, <<"NUL">>, 1) # 0)

(* The types of what the server has of a request.                           *)
ReceivedTypes ==
  /\ request \in Requests /\ taken \in Nat /\ taken <= Len(Message)
  /\ header \in Seq(Symbols) /\ body \in Seq(Symbols) /\ contentLength \in Nat
  /\ receivedHeader \in BOOLEAN /\ split \in BOOLEAN /\ cut \in BOOLEAN
  /\ state \in {"receiving", "complete", "failed", "sending", "sent"}

(* The header is the text as far as it came, up to the middle of its mark.   *)
HeaderReceived ==
  /\ receivedHeader => request.version # <<>>
  /\ state \in {"complete", "sending", "sent"} => receivedHeader
  /\ request.version # <<>> /\ cut => Begins(header, Message, request)
  /\ request.version # <<>> /\ ~cut /\ ~receivedHeader =>
       taken < RequestMark(request) /\ header = Part(Message, 0, taken)
  /\ request.version # <<>> /\ ~cut /\ receivedHeader =>
       header = Part(Message, 0, RequestMark(request) + 1)

(* The body is at least as long as what came of it. *)
BodyReceived ==
  /\ ~receivedHeader /\ ~split => body = <<>>
  /\ receivedHeader /\ ~cut /\ state \in {"receiving", "complete"} =>
       /\ contentLength = Len(request.body)
       /\ taken >= RequestMark(request) + 3
       /\ Len(body) >= taken - (RequestMark(request) + 3)
       /\ Exact => body = Part(Message, RequestMark(request) + 3, taken)
       /\ state = "receiving" => Len(body) < contentLength
       /\ state = "complete" /\ Exact => Len(body) >= contentLength

(* The invariant of receiving a request.                                    *)
ReceivedInv == ReceivedTypes /\ HeaderReceived /\ BodyReceived

(* It holds at first.                                                       *)
LEMMA ReceivedInit == ConnectionInit => ReceivedInv
<1>. SUFFICES ASSUME ConnectionInit PROVE ReceivedInv
  OBVIOUS
<1>1. /\ request \in Requests /\ taken = 0 /\ header = <<>> /\ body = <<>>
      /\ receivedHeader = FALSE /\ contentLength = 0 /\ split = FALSE /\ cut = FALSE
      /\ state = "receiving"
  BY DEF ConnectionInit
<1>2. ReceivedTypes
  <2>1. <<>> \in Seq(Symbols)
    BY EmptySeq
  <2>2. taken \in Nat /\ taken <= Len(Message) /\ contentLength \in Nat
    BY <1>1, MessageSymbols, LengthIsNat DEF Message
  <2>. QED BY <1>1, <2>1, <2>2 DEF ReceivedTypes
<1>3. Part(Message, 0, 0) = <<>>
  BY NoPart
<1>4. HeaderReceived
  BY <1>1, <1>3, RequestSizes DEF HeaderReceived
<1>5. BodyReceived
  BY <1>1 DEF BodyReceived
<1>. QED BY <1>2, <1>4, <1>5 DEF ReceivedInv

-----------------------------------------------------------------------------
(* A chunk of a header *)

(* What arrives is a part of the message.                                   *)
LEMMA ChunkTaken ==
  ASSUME ReceivedTypes, NEW n \in ChunkSizes, NEW b, b = taken + n
  PROVE  /\ b \in Nat /\ taken \in Nat /\ taken < b /\ b <= Len(Message) /\ Len(Message) \in Nat
         /\ Message \in Seq(Symbols)
         /\ IsPart(Received(n), Message, taken, b)
<1>1. /\ request \in Requests /\ taken \in Nat /\ taken <= Len(Message)
  BY DEF ReceivedTypes
<1>2. Message \in Seq(Symbols) /\ Len(Message) \in Nat
  BY <1>1, MessageSymbols, LengthIsNat DEF Message
<1>3. Chunk \in Nat
  BY NumbersAreNat
<1>4. n \in Nat /\ 1 <= n /\ taken + n <= Len(Message)
  <2>1. PICK rest : rest = Len(Message) - taken
    OBVIOUS
  <2>2. rest \in Nat /\ taken + rest = Len(Message)
    BY <2>1, <1>1, <1>2
  <2>3. n \in 1 .. (IF rest < Chunk THEN rest ELSE Chunk)
    BY <2>1 DEF ChunkSizes
  <2>. QED BY <2>2, <2>3, <1>1, <1>3
<1>5. b \in Nat /\ taken < b /\ b <= Len(Message)
  BY <1>1, <1>2, <1>4
<1>6. Received(n) = Part(Message, taken, b)
  BY DEF Received, Part
<1>7. IsPart(Part(Message, taken, b), Message, taken, b)
  <2>1. taken <= b
    BY <1>1, <1>5
  <2>. QED BY <2>1, <1>1, <1>2, <1>5, PartIs
<1>. QED BY <1>1, <1>2, <1>5, <1>6, <1>7

(* Concatenations are texts. *)
LEMMA TwoTexts ==
  ASSUME NEW s \in Seq(Symbols), NEW t \in Seq(Symbols)
  PROVE  s \o t \in Seq(Symbols)
BY Concatenation

(* The bytes that are put before the body are text.                         *)
LEMMA BodyAfterType ==
  ASSUME NEW buffer \in Seq(Symbols), body \in Seq(Symbols)
  PROVE  BodyAfter(buffer) \in Seq(Symbols)
<1>1. PICK temp : temp = IF HasMark(buffer) THEN AfterMark(BeforeNul(buffer))
                         ELSE <<"any">> \o BeforeNul(buffer)
  OBVIOUS
<1>2. BeforeNul(buffer) \in Seq(Symbols) /\ FromNul(buffer) \in Seq(Symbols)
  BY BufferTypes
<1>3. temp \in Seq(Symbols)
  <2>1. CASE HasMark(buffer)
    BY <2>1, <1>1, BufferTypes
  <2>2. CASE ~HasMark(buffer)
    <3>1. "any" \in Symbols
      BY SymbolsHave, Zenon DEF Words
    <3>2. <<"any">> \in Seq(Symbols)
      BY <3>1
    <3>. QED BY <2>2, <3>2, <1>1, <1>2, TwoTexts
  <2>. QED BY <2>1, <2>2
<1>4. BodyAfter(buffer) = IF FromNul(buffer) = <<>> THEN temp ELSE temp \o FromNul(buffer) \o body
  BY <1>1 DEF BodyAfter
<1>5. temp \o FromNul(buffer) \o body \in Seq(Symbols)
  BY <1>2, <1>3, TwoTexts
<1>. QED BY <1>3, <1>4, <1>5

(* The mark of the whole request. *)
LEMMA MarkOfMessage ==
  ASSUME request \in Requests, request.version # <<>>, NEW at, at = RequestMark(request)
  PROVE  /\ IsRequest(Message, request) /\ Message \in Seq(Symbols)
         /\ Framed(Message, FirstEnd(request), HeaderCount(request))
         /\ at = MarkAt(FirstEnd(request), HeaderCount(request)) /\ at \in Nat /\ 6 <= at
         /\ Len(Message) = at + 3 + Len(request.body)
         /\ Len(request.body) \in Nat /\ request.body \in Seq(Symbols)
         /\ EndMark(Message) = [at |-> at, size |-> 4]
<1>1. IsRequest(Message, request)
  BY RequestShape DEF Message
<1>2. /\ Framed(Message, FirstEnd(request), HeaderCount(request))
      /\ Len(Message) = at + 3 + Len(request.body)
      /\ Message \in Seq(Symbols)
  BY <1>1 DEF IsRequest, Framed
<1>3. at = MarkAt(FirstEnd(request), HeaderCount(request)) /\ at \in Nat /\ 6 <= at
  <2>1. at = MarkAt(FirstEnd(request), HeaderCount(request))
    BY DEF RequestMark
  <2>2. PICK first : first = FirstEnd(request)
    OBVIOUS
  <2>3. first \in Nat /\ at \in Nat /\ 6 <= first /\ first <= at
    BY <2>2, RequestSizes
  <2>. QED BY <2>1, <2>3
<1>4. Len(request.body) \in Nat /\ request.body \in Seq(Symbols)
  BY RequestTypes
<1>5. EndMark(Message) = [at |-> at, size |-> 4]
  <2>1. PICK b : b = Len(Message)
    OBVIOUS
  <2>2. b <= Len(Message) /\ 0 < at /\ b >= at + 3 /\ at - 0 = at
    BY <2>1, <1>2, <1>3, <1>4
  <2>3. EndMark(Message) = [at |-> at - 0, size |-> 4]
    BY <2>1, <1>2, WholePart, <2>2, <1>3, MarkInPart
  <2>. QED BY <2>2, <2>3
<1>. QED BY <1>1, <1>2, <1>3, <1>4, <1>5

(* The part of a chunk before a NUL goes up to e. *)
Stops(n, b, e) ==
  /\ e \in Nat /\ taken <= e /\ e <= b
  /\ BeforeNul(Received(n)) = Part(Message, taken, e)
  /\ FromNul(Received(n)) = Part(Message, e, b)
  /\ e < b => e >= RequestMark(request) + 3 /\ Message[e + 1] = "NUL"
  /\ e >= RequestMark(request) + 3 =>
       EndMark(BeforeNul(Received(n))) = [at |-> RequestMark(request) - taken, size |-> 4]
  /\ HasMark(Received(n)) <=> e >= RequestMark(request) + 3

(* RecvHeaderAsync stops somewhere in the chunk.                            *)
LEMMA ChunkStops ==
  ASSUME ReceivedTypes, request.version # <<>>, NEW n \in ChunkSizes, NEW b, b = taken + n,
         taken < RequestMark(request)
  PROVE  \E e : Stops(n, b, e)
<1>1. PICK at : at = RequestMark(request)
  OBVIOUS
<1>2. /\ b \in Nat /\ taken \in Nat /\ taken < b /\ b <= Len(Message) /\ Len(Message) \in Nat
      /\ Message \in Seq(Symbols)
      /\ IsPart(Received(n), Message, taken, b)
  BY ChunkTaken
<1>3. /\ Framed(Message, FirstEnd(request), HeaderCount(request))
      /\ at = MarkAt(FirstEnd(request), HeaderCount(request)) /\ at \in Nat
  BY <1>1, MarkOfMessage DEF ReceivedTypes
<1>4. PICK e \in Nat :
        /\ taken <= e /\ e <= b
        /\ BeforeNul(Received(n)) = Part(Message, taken, e)
        /\ FromNul(Received(n)) = Part(Message, e, b)
        /\ e < b => e >= at + 3 /\ Message[e + 1] = "NUL"
  BY <1>2, <1>3, NulInPart
<1>5. taken < at
  BY <1>1
<1>6. /\ e >= at + 3 => EndMark(BeforeNul(Received(n))) = [at |-> at - taken, size |-> 4]
      /\ e < at + 3 => EndMark(BeforeNul(Received(n))).at = 0
  BY <1>3, <1>2, <1>4, PartIs, <1>5, MarkInPart
<1>7. HasMark(Received(n)) <=> e >= at + 3
  <2>1. CASE e >= at + 3
    <3>1. EndMark(BeforeNul(Received(n))).at = at - taken
      BY <2>1, <1>6
    <3>2. at - taken # 0
      BY <1>2, <1>3, <1>5
    <3>. QED BY <2>1, <3>1, <3>2 DEF HasMark
  <2>2. CASE ~(e >= at + 3)
    <3>1. e < at + 3
      BY <2>2, <1>3, <1>4
    <3>2. EndMark(BeforeNul(Received(n))).at = 0
      BY <3>1, <1>6
    <3>. QED BY <2>2, <3>2 DEF HasMark
  <2>. QED BY <2>1, <2>2
<1>8. Stops(n, b, e)
  BY <1>1, <1>4, <1>6, <1>7 DEF Stops
<1>. QED BY <1>8

-----------------------------------------------------------------------------
(* The steps of receiving *)

(* A part of the header keeps the invariant.                                *)
LEMMA ReceivesPartOfHeaderKeeps ==
  ASSUME ReceivedInv, state = "receiving", ~receivedHeader, NEW n \in ChunkSizes,
         ReceivesPartOfHeader(n), request' = request
  PROVE  ReceivedInv'
<1>1. PICK b, buffer, at, v : b = taken + n /\ buffer = Received(n) /\ at = RequestMark(request)
                              /\ v = request.version
  OBVIOUS
<1>2. ReceivedTypes /\ HeaderReceived /\ BodyReceived
  BY DEF ReceivedInv
<1>3. /\ b \in Nat /\ taken \in Nat /\ taken < b /\ b <= Len(Message) /\ Len(Message) \in Nat
      /\ Message \in Seq(Symbols)
      /\ IsPart(buffer, Message, taken, b)
  BY <1>1, <1>2, ChunkTaken
<1>4. /\ ~HasMark(buffer)
      /\ header' = header \o BeforeNul(buffer)
      /\ body' = BodyAfter(buffer)
      /\ taken' = b
      /\ split' = TRUE
      /\ cut' = (cut \/ CutsMark(b))
      /\ receivedHeader' = FALSE /\ contentLength' = contentLength /\ state' = "receiving"
  BY <1>1, <1>2 DEF ReceivesPartOfHeader, ReceivedTypes
<1>5. Message' = Message
  BY DEF Message
<1>6. buffer \in Seq(Symbols)
  BY <1>3 DEF IsPart
<1>7. header \in Seq(Symbols) /\ body \in Seq(Symbols) /\ request \in Requests
      /\ contentLength \in Nat /\ cut \in BOOLEAN
  BY <1>2 DEF ReceivedTypes
<1>8. BeforeNul(buffer) \in Seq(Symbols)
  BY <1>6, BufferTypes
<1>9. ReceivedTypes'
  <2>1. header' \in Seq(Symbols)
    BY <1>4, <1>7, <1>8, TwoTexts
  <2>2. body' \in Seq(Symbols)
    BY <1>4, <1>6, <1>7, BodyAfterType
  <2>3. taken' \in Nat /\ taken' <= Len(Message')
    BY <1>3, <1>4, <1>5
  <2>4. cut' \in BOOLEAN /\ split' \in BOOLEAN /\ receivedHeader' \in BOOLEAN
    BY <1>4, <1>7
  <2>. QED BY <1>4, <1>7, <2>1, <2>2, <2>3, <2>4 DEF ReceivedTypes
<1>10. v # <<>> => IF cut' THEN Begins(header', Message, request)
                   ELSE b < at /\ header' = Part(Message, 0, b)
  <2>. SUFFICES ASSUME v # <<>>
                PROVE  IF cut' THEN Begins(header', Message, request)
                       ELSE b < at /\ header' = Part(Message, 0, b)
    OBVIOUS
  <2>1. CASE cut
    <3>1. Begins(header', Message, request)
      BY <2>1, <1>1, <1>2, <1>4, <1>7, <1>8, BeginsLonger DEF HeaderReceived
    <3>. QED BY <2>1, <3>1, <1>4
  <2>2. CASE ~cut
    <3>1. taken < at /\ header = Part(Message, 0, taken)
      BY <2>2, <1>1, <1>2 DEF HeaderReceived
    <3>2. PICK e : Stops(n, b, e)
      BY <3>1, <1>1, <1>2, ChunkStops
    <3>3. at \in Nat /\ EndMark(Message) = [at |-> at, size |-> 4]
      BY <1>1, <1>7, MarkOfMessage
    <3>4. /\ e \in Nat /\ e <= b /\ ~(e >= at + 3)
          /\ (e < b => e >= at + 3) /\ BeforeNul(buffer) = Part(Message, taken, e)
      BY <3>2, <1>1, <1>4 DEF Stops
    <3>5. e = b /\ b < at + 3
      BY <3>3, <3>4, <1>3
    <3>6. header' = Part(Message, 0, b)
      <4>1. Part(Message, 0, taken) \o Part(Message, taken, b) = Part(Message, 0, b)
        <5>1. 0 \in Nat /\ 0 <= taken /\ taken <= b
          BY <1>3
        <5>. QED BY <5>1, <1>3, JoinedParts
      <4>. QED BY <4>1, <3>1, <3>4, <3>5, <1>4
    <3>7. CutsMark(b) <=> b \in at .. at + 4 - 2
      BY <3>3 DEF CutsMark
    <3>8. CASE CutsMark(b)
      <4>1. at <= b
        BY <3>3, <3>7, <3>8, <1>3
      <4>2. Begins(Part(Message, 0, b), Message, request)
        BY <4>1, <1>1, <1>3, <1>7, BeginningOfText
      <4>. QED BY <4>2, <3>6, <3>8, <1>4
    <3>9. CASE ~CutsMark(b)
      <4>1. b < at
        BY <3>3, <3>5, <3>7, <3>9, <1>3
      <4>. QED BY <4>1, <3>6, <3>9, <2>2, <1>4
    <3>. QED BY <3>8, <3>9
  <2>. QED BY <2>1, <2>2, <1>7
<1>11. HeaderReceived'
  BY <1>1, <1>4, <1>5, <1>10 DEF HeaderReceived
<1>12. BodyReceived'
  BY <1>4 DEF BodyReceived
<1>. QED BY <1>9, <1>11, <1>12 DEF ReceivedInv

-----------------------------------------------------------------------------
(* The chunk with the mark *)

(* What is up to and after the mark of the part of a chunk before a NUL. *)
LEMMA MarkSplits ==
  ASSUME ReceivedTypes, request.version # <<>>, taken < RequestMark(request),
         NEW n \in ChunkSizes, NEW b, b = taken + n, NEW e, Stops(n, b, e), HasMark(Received(n)),
         NEW at, at = RequestMark(request)
  PROVE  /\ at + 3 <= e /\ e <= b
         /\ UpToMark(BeforeNul(Received(n))) = Part(Message, taken, at + 1)
         /\ AfterMark(BeforeNul(Received(n))) = Part(Message, at + 3, e)
<1>1. /\ b \in Nat /\ taken \in Nat /\ taken < b /\ b <= Len(Message) /\ Len(Message) \in Nat
      /\ Message \in Seq(Symbols)
  BY ChunkTaken
<1>2. at \in Nat /\ taken < at
  <2>1. request \in Requests
    BY DEF ReceivedTypes
  <2>. QED BY <2>1, RequestSizes
<1>3. PICK text : text = BeforeNul(Received(n))
  OBVIOUS
<1>4. /\ e \in Nat /\ taken <= e /\ e <= b /\ e >= at + 3
      /\ text = Part(Message, taken, e)
      /\ EndMark(text) = [at |-> at - taken, size |-> 4]
  BY <1>3 DEF Stops
<1>5. e <= Len(Message)
  BY <1>1, <1>4
<1>6. IsPart(text, Message, taken, e)
  BY <1>1, <1>4, <1>5, PartIs
<1>7. PICK d, x, y, z : d = at - taken /\ x = d + 1 /\ y = d + 3 /\ z = e - taken
  OBVIOUS
<1>8. /\ d \in Nat /\ x \in Nat /\ y \in Nat /\ z \in Nat /\ 0 \in Nat
      /\ 0 <= x /\ x <= e - taken /\ y <= z /\ z <= e - taken
      /\ taken = taken + 0 /\ at + 1 = taken + x /\ at + 3 = taken + y /\ e = taken + z
  <2>1. at \in Nat /\ taken \in Nat /\ e \in Nat /\ taken < at /\ at + 3 <= e
    BY <1>1, <1>2, <1>4
  <2>. QED BY <2>1, <1>7
<1>9. UpToMark(text) = Part(Message, taken, at + 1)
  <2>1. EndMark(text).at = d /\ EndMark(text).size = 4
    BY <1>4, <1>7
  <2>2. UpToMark(text) = SubSeq(text, 1, d - 1 + 2)
    <3>1. UpToMark(text) = SubSeq(text, 1, d - 1 + 4 \div 2)
      BY <2>1 DEF UpToMark
    <3>. QED BY <3>1, Halves
  <2>3. d - 1 + 2 = x /\ 0 + 1 = 1
    BY <1>7, <1>8
  <2>4. UpToMark(text) = Part(text, 0, x)
    BY <2>2, <2>3 DEF Part
  <2>5. PICK p : p = at + 1
    OBVIOUS
  <2>6. Part(text, 0, x) = Part(Message, taken, p)
    <3>1. p = taken + x
      BY <2>5, <1>8
    <3>2. IsPart(text, Message, taken, e) /\ e <= Len(Message) /\ Message \in Seq(Symbols)
      BY <1>1, <1>5, <1>6
    <3>. QED BY <3>1, <3>2, <1>8, PartOfPart
  <2>. QED BY <2>4, <2>5, <2>6
<1>10. AfterMark(text) = Part(Message, at + 3, e)
  <2>1. EndMark(text).at = d /\ EndMark(text).size = 4
    BY <1>4, <1>7
  <2>2. d + 4 = y + 1
    BY <1>7, <1>8
  <2>3. AfterMark(text) = Part(text, y, z)
    BY <2>1, <1>6, <1>7, <2>2 DEF IsPart, AfterMark, From, Part
  <2>4. PICK p : p = at + 3
    OBVIOUS
  <2>5. Part(text, y, z) = Part(Message, p, e)
    <3>1. p = taken + y
      BY <2>4, <1>8
    <3>2. IsPart(text, Message, taken, e) /\ e <= Len(Message) /\ Message \in Seq(Symbols)
      BY <1>1, <1>5, <1>6
    <3>. QED BY <3>1, <3>2, <1>8, PartOfPart
  <2>. QED BY <2>3, <2>4, <2>5
<1>. QED BY <1>3, <1>4, <1>9, <1>10

(* What RecvHeaderAsync leaves in `body`. *)
LEMMA BodyAfterChunk ==
  ASSUME ReceivedTypes, request.version # <<>>, taken < RequestMark(request),
         NEW n \in ChunkSizes, NEW b, b = taken + n, NEW e, Stops(n, b, e), HasMark(Received(n)),
         NEW at, at = RequestMark(request)
  PROVE  BodyAfter(Received(n)) =
           IF e = b THEN Part(Message, at + 3, b) ELSE Part(Message, at + 3, b) \o body
<1>1. PICK buffer, temp, h : buffer = Received(n) /\ temp = AfterMark(BeforeNul(buffer)) /\ h = at + 3
  OBVIOUS
<1>2. /\ b \in Nat /\ taken \in Nat /\ taken < b /\ b <= Len(Message) /\ Len(Message) \in Nat
      /\ Message \in Seq(Symbols)
  BY ChunkTaken
<1>3. temp = Part(Message, h, e) /\ h <= e /\ e <= b
  BY <1>1, MarkSplits
<1>4. e \in Nat /\ h \in Nat /\ FromNul(buffer) = Part(Message, e, b)
  <2>1. request \in Requests
    BY DEF ReceivedTypes
  <2>. QED BY <2>1, <1>1, RequestSizes DEF Stops
<1>5. BodyAfter(buffer) = IF FromNul(buffer) = <<>> THEN temp ELSE temp \o FromNul(buffer) \o body
  BY <1>1 DEF BodyAfter
<1>6. CASE e = b
  <2>1. FromNul(buffer) = <<>>
    BY <1>2, <1>4, <1>6, NoPart
  <2>. QED BY <2>1, <1>1, <1>3, <1>5, <1>6
<1>7. CASE e # b
  <2>1. IsPart(Part(Message, e, b), Message, e, b)
    BY <1>2, <1>3, <1>4, PartIs
  <2>2. FromNul(buffer) # <<>>
    BY <2>1, <1>2, <1>4, <1>7 DEF IsPart
  <2>3. Part(Message, h, e) \o Part(Message, e, b) = Part(Message, h, b)
    BY <1>2, <1>3, <1>4, JoinedParts
  <2>. QED BY <2>2, <2>3, <1>1, <1>3, <1>4, <1>5, <1>7
<1>. QED BY <1>6, <1>7

(* The header is complete. *)
HeaderRead ==
  /\ request.version # <<>>
  /\ header' \in Seq(Symbols) /\ receivedHeader' = TRUE /\ split' = split /\ cut' = cut
  /\ cut => Begins(header', Message, request)
  /\ ~cut => taken < RequestMark(request) /\ header' = Part(Message, 0, RequestMark(request) + 1)

(* The chunk with the mark makes the header what the client wrote, if no    *)
(* NUL has cut it.                                                          *)
LEMMA ReadsHeaderReads ==
  ASSUME ReceivedInv, ~receivedHeader, NEW n \in ChunkSizes, ReadsHeader(n)
  PROVE  HeaderRead
<1>1. PICK b, buffer, at : b = taken + n /\ buffer = Received(n) /\ at = RequestMark(request)
  OBVIOUS
<1>2. ReceivedTypes /\ HeaderReceived
  BY DEF ReceivedInv
<1>3. /\ b \in Nat /\ taken \in Nat /\ taken < b /\ b <= Len(Message) /\ Len(Message) \in Nat
      /\ Message \in Seq(Symbols)
      /\ IsPart(buffer, Message, taken, b)
  BY <1>1, <1>2, ChunkTaken
<1>4. /\ HasMark(buffer)
      /\ header' = header \o UpToMark(BeforeNul(buffer))
      /\ receivedHeader' = TRUE /\ split' = split /\ cut' = cut
  BY <1>1 DEF ReadsHeader
<1>5. header \in Seq(Symbols) /\ request \in Requests
  BY <1>2 DEF ReceivedTypes
<1>6. request.version # <<>>
  <2>1. Message = RequestText(request)
    BY DEF Message
  <2>. QED BY <2>1, <1>3, <1>4, <1>5, OldRequestHasNoMark
<1>7. UpToMark(BeforeNul(buffer)) \in Seq(Symbols)
  <2>1. buffer \in Seq(Symbols)
    BY <1>3 DEF IsPart
  <2>. QED BY <2>1, <1>4, BufferTypes
<1>8. header' \in Seq(Symbols)
  BY <1>4, <1>5, <1>7, TwoTexts
<1>9. ASSUME cut PROVE Begins(header', Message, request)
  <2>1. Begins(header, Message, request)
    BY <1>2, <1>6, <1>9 DEF HeaderReceived
  <2>. QED BY <2>1, <1>4, <1>5, <1>7, BeginsLonger
<1>10. ASSUME ~cut PROVE taken < at /\ header' = Part(Message, 0, at + 1)
  <2>1. taken < at /\ header = Part(Message, 0, taken)
    BY <1>1, <1>2, <1>6, <1>10 DEF HeaderReceived
  <2>2. PICK e : Stops(n, b, e)
    BY <2>1, <1>1, <1>2, <1>6, ChunkStops
  <2>3. /\ at + 3 <= e /\ e <= b
        /\ UpToMark(BeforeNul(buffer)) = Part(Message, taken, at + 1)
    BY <2>1, <2>2, <1>1, <1>2, <1>4, <1>6, MarkSplits
  <2>4. PICK p : p = at + 1
    OBVIOUS
  <2>5. e \in Nat /\ at \in Nat
    <3>1. e \in Nat
      BY <2>2 DEF Stops
    <3>. QED BY <3>1, <1>1, <1>5, RequestSizes
  <2>6. 0 \in Nat /\ p \in Nat /\ 0 <= taken /\ taken <= p /\ p <= Len(Message)
    BY <2>1, <2>3, <2>4, <2>5, <1>3
  <2>7. Part(Message, 0, taken) \o Part(Message, taken, p) = Part(Message, 0, p)
    BY <2>6, <1>3, JoinedParts
  <2>. QED BY <2>1, <2>3, <2>4, <2>7, <1>4
<1>. QED BY <1>1, <1>4, <1>6, <1>8, <1>9, <1>10 DEF HeaderRead

-----------------------------------------------------------------------------

(* A header that HttpRequest refuses keeps the invariant.                   *)
LEMMA ReceivesBadHeaderKeeps ==
  ASSUME ReceivedInv, state = "receiving", ~receivedHeader, NEW n \in ChunkSizes,
         ReceivesBadHeader(n), request' = request
  PROVE  ReceivedInv'
<1>1. PICK b : b = taken + n
  OBVIOUS
<1>2. HeaderRead
  BY ReadsHeaderReads DEF ReceivesBadHeader
<1>3. /\ body' = BodyAfter(Received(n)) /\ taken' = b /\ state' = "failed"
      /\ contentLength' = contentLength
  BY <1>1 DEF ReceivesBadHeader
<1>4. ReceivedTypes
  BY DEF ReceivedInv
<1>5. /\ b \in Nat /\ b <= Len(Message) /\ IsPart(Received(n), Message, taken, b)
  BY <1>1, <1>4, ChunkTaken
<1>6. Message' = Message
  BY DEF Message
<1>7. /\ body \in Seq(Symbols) /\ request \in Requests
      /\ contentLength \in Nat /\ cut \in BOOLEAN /\ split \in BOOLEAN
  BY <1>4 DEF ReceivedTypes
<1>8. body' \in Seq(Symbols)
  BY <1>3, <1>5, <1>7, BodyAfterType DEF IsPart
<1>9. ReceivedTypes'
  BY <1>2, <1>3, <1>5, <1>6, <1>7, <1>8 DEF ReceivedTypes, HeaderRead
<1>10. HeaderReceived'
  BY <1>2, <1>3, <1>6 DEF HeaderReceived, HeaderRead
<1>11. BodyReceived'
  BY <1>2, <1>3 DEF BodyReceived, HeaderRead
<1>. QED BY <1>9, <1>10, <1>11 DEF ReceivedInv

(* What HttpRequest finds in a header that was not cut. *)
LEMMA HeadOfMessage ==
  ASSUME request \in Requests, request.version # <<>>,
         NEW head, head = Part(Message, 0, RequestMark(request) + 1)
  PROVE  /\ Headers(head) = CreatedHeaders
         /\ ContentLength(Headers(head)) = Len(request.body)
<1>1. PICK at, p : at = RequestMark(request) /\ p = at + 1
  OBVIOUS
<1>2. /\ IsRequest(Message, request) /\ Message \in Seq(Symbols)
      /\ at = MarkAt(FirstEnd(request), HeaderCount(request)) /\ at \in Nat
      /\ Len(Message) = at + 3 + Len(request.body) /\ Len(request.body) \in Nat
  BY <1>1, MarkOfMessage
<1>3. p \in Nat /\ p <= Len(Message) /\ 0 <= p
  BY <1>1, <1>2
<1>4. IsPart(head, Message, 0, p)
  BY <1>2, <1>3, <1>1, PartIs
<1>5. head \in Seq(Symbols) /\ Len(head) = p /\ \A i \in 1 .. p : head[i] = Message[i]
  <2>1. head \in Seq(Symbols) /\ Len(head) = p - 0 /\ \A i \in 1 .. p - 0 : head[i] = Message[0 + i]
    BY <1>4 DEF IsPart
  <2>2. p - 0 = p /\ \A i \in 1 .. p : 0 + i = i
    BY <1>3
  <2>. QED BY <2>1, <2>2
<1>6. IsHead(head, Message, FirstEnd(request), HeaderCount(request))
  <2>1. p = FirstEnd(request) + 5 * HeaderCount(request) + 1
    BY <1>1, <1>2 DEF MarkAt
  <2>. QED BY <2>1, <1>5 DEF IsHead
<1>. QED BY <1>2, <1>6, HeadersRead

(* What is in `body` when RecvBodyAsync follows RecvHeaderAsync. *)
BodyBegun(have, b) ==
  /\ RequestMark(request) + 3 <= b
  /\ have \in Seq(Symbols) /\ Len(have) >= b - (RequestMark(request) + 3)
  /\ Exact => have = Part(Message, RequestMark(request) + 3, b)

(* The chunk with the mark makes the body the part of the message behind    *)
(* the mark that the chunk has, up to a NUL.                                *)
LEMMA ChunkBeginsBody ==
  ASSUME ReceivedInv, ~receivedHeader, ~cut, NEW n \in ChunkSizes, ReadsHeader(n),
         NEW b, b = taken + n
  PROVE  BodyBegun(BodyAfter(Received(n)), b)
<1>1. PICK at, h, have : at = RequestMark(request) /\ h = at + 3 /\ have = BodyAfter(Received(n))
  OBVIOUS
<1>2. ReceivedTypes /\ BodyReceived
  BY DEF ReceivedInv
<1>3. /\ b \in Nat /\ b <= Len(Message) /\ Len(Message) \in Nat /\ Message \in Seq(Symbols)
      /\ IsPart(Received(n), Message, taken, b)
  BY <1>2, ChunkTaken
<1>4. request.version # <<>> /\ taken < RequestMark(request)
  BY ReadsHeaderReads DEF HeaderRead
<1>5. HasMark(Received(n))
  BY DEF ReadsHeader
<1>6. PICK e : Stops(n, b, e)
  BY <1>2, <1>4, ChunkStops
<1>7. h <= e /\ e <= b
  BY <1>1, <1>2, <1>4, <1>5, <1>6, MarkSplits
<1>8. have = IF e = b THEN Part(Message, h, b) ELSE Part(Message, h, b) \o body
  BY <1>1, <1>2, <1>4, <1>5, <1>6, BodyAfterChunk
<1>9. request \in Requests /\ body \in Seq(Symbols)
  BY <1>2 DEF ReceivedTypes
<1>10. e \in Nat /\ h \in Nat /\ h <= b
  <2>1. e \in Nat
    BY <1>6 DEF Stops
  <2>2. at \in Nat
    BY <1>1, <1>9, RequestSizes
  <2>. QED BY <2>1, <2>2, <1>1, <1>3, <1>7
<1>11. PICK part, k : part = Part(Message, h, b) /\ k = b - h
  OBVIOUS
<1>12. IsPart(part, Message, h, b)
  BY <1>3, <1>10, <1>11, PartIs
<1>13. part \in Seq(Symbols) /\ Len(part) = k /\ k \in Nat
  BY <1>3, <1>10, <1>11, <1>12 DEF IsPart
<1>14. have \in Seq(Symbols) /\ Len(have) >= k
  <2>1. CASE e = b
    BY <2>1, <1>8, <1>11, <1>13
  <2>2. CASE e # b
    <3>1. PICK m : m = Len(body)
      OBVIOUS
    <3>2. m \in Nat
      BY <3>1, <1>9, LengthIsNat
    <3>3. Joins(have, part, k, body, m)
      BY <3>1, <2>2, <1>8, <1>11, <1>9, <1>13, Joined
    <3>4. have \in Seq(Symbols) /\ Len(have) = k + m
      BY <3>3 DEF Joins
    <3>. QED BY <3>2, <3>4, <1>13
  <2>. QED BY <2>1, <2>2
<1>15. ASSUME Exact PROVE have = part
  <2>1. CASE e = b
    BY <2>1, <1>8, <1>11
  <2>2. CASE e # b
    <3>1. e < b
      BY <2>2, <1>3, <1>7, <1>10
    <3>2. IsRequest(Message, request)
      BY <1>4, <1>9, MarkOfMessage
    <3>3. RequestMark(request) + 3 <= e /\ e < Len(Message)
      BY <3>1, <1>1, <1>3, <1>7, <1>10
    <3>4. Find(request.body, <<"NUL">>, 1) # 0
      BY <3>1, <1>6, <3>2, <3>3, <1>9, <1>10, NulInBody DEF Stops
    <3>5. body = <<>>
      BY <3>4, <1>2, <1>15 DEF Exact, BodyReceived
    <3>6. part \o <<>> = part
      BY <1>13, ConcatEmptySeq
    <3>. QED BY <3>5, <3>6, <2>2, <1>8, <1>11
  <2>. QED BY <2>1, <2>2
<1>. QED BY <1>1, <1>10, <1>11, <1>14, <1>15 DEF BodyBegun

-----------------------------------------------------------------------------
(* The body that RecvBodyAsync leaves, when what it had was as it should be. *)
LEMMA BodyGrows ==
  ASSUME request \in Requests, Message \in Seq(Symbols),
         NEW have, NEW b \in Nat, b <= Len(Message), BodyBegun(have, b),
         NEW length, TakenBody(have, length, b)
  PROVE  /\ taken' >= RequestMark(request) + 3
         /\ Len(body') >= taken' - (RequestMark(request) + 3)
         /\ Exact => body' = Part(Message, RequestMark(request) + 3, taken')
<1>1. PICK h, m, end, size, part : /\ h = RequestMark(request) + 3 /\ m = Len(have) /\ end = taken'
                                   /\ size = Len(body') /\ part = Part(Message, b, end)
  OBVIOUS
<1>2. h \in Nat /\ m \in Nat /\ h <= b /\ m >= b - h
  <2>1. RequestMark(request) \in Nat
    BY RequestSizes
  <2>2. m \in Nat
    BY <1>1, LengthIsNat DEF BodyBegun
  <2>3. h <= b /\ m >= b - h
    BY <1>1 DEF BodyBegun
  <2>. QED BY <2>1, <2>2, <2>3, <1>1
<1>3. end \in Nat /\ b <= end /\ end <= Len(Message) /\ body' = have \o part
      /\ size = m + (end - b)
  BY <1>1 DEF TakenBody
<1>4. end >= h /\ size >= end - h
  BY <1>2, <1>3
<1>5. ASSUME Exact PROVE body' = Part(Message, h, end)
  <2>1. have = Part(Message, h, b)
    BY <1>1, <1>5 DEF BodyBegun
  <2>2. Part(Message, h, b) \o Part(Message, b, end) = Part(Message, h, end)
    BY <1>2, <1>3, JoinedParts
  <2>. QED BY <2>1, <2>2, <1>1, <1>3
<1>. QED BY <1>1, <1>4, <1>5

(* The chunk with the mark, and the recv for the body that follows, keep    *)
(* the invariant.                                                           *)
LEMMA ReceivesHeaderKeeps ==
  ASSUME ReceivedInv, state = "receiving", ~receivedHeader, NEW n \in ChunkSizes,
         NEW readable \in 0 .. Len(Message) - taken - n, ReceivesHeader(n, readable),
         request' = request
  PROVE  ReceivedInv'
<1>1. PICK b, have, length, h : /\ b = taken + n /\ have = BodyAfter(Received(n))
                                /\ length = contentLength' /\ h = RequestMark(request) + 3
  OBVIOUS
<1>2. ReceivedTypes
  BY DEF ReceivedInv
<1>3. /\ b \in Nat /\ taken \in Nat /\ b <= Len(Message) /\ Len(Message) \in Nat
      /\ Message \in Seq(Symbols) /\ IsPart(Received(n), Message, taken, b)
  BY <1>1, <1>2, ChunkTaken
<1>4. ReadsHeader(n)
  BY DEF ReceivesHeader
<1>5. HeaderRead
  BY <1>4, ReadsHeaderReads
<1>6. length = ContentLength(Headers(header')) /\ RecvBodyAsync(have, length, b, readable)
  BY <1>1 DEF ReceivesHeader
<1>7. Message' = Message
  BY DEF Message
<1>8. /\ body \in Seq(Symbols) /\ request \in Requests /\ cut \in BOOLEAN /\ split \in BOOLEAN
  BY <1>2 DEF ReceivedTypes
<1>9. length \in Nat
  <2>1. length \in 0 .. MaxLength
    BY <1>6, LengthInHeaders
  <2>. QED BY <2>1, DecimalAssumption
<1>10. have \in Seq(Symbols)
  BY <1>1, <1>3, <1>8, BodyAfterType DEF IsPart
<1>11. TakenBody(have, length, b)
  <2>1. readable \in Nat /\ b + readable <= Len(Message)
    <3>1. b - taken = n
      <4>1. n \in Int
        BY DEF ChunkSizes
      <4>. QED BY <4>1, <1>1, <1>3
    <3>2. Len(Message) - taken - n = Len(Message) - b
      <4>1. n \in Int
        <5>1. n \in 1 .. (IF Len(Message) - taken < Chunk THEN Len(Message) - taken ELSE Chunk)
          BY DEF ChunkSizes
        <5>. QED BY <5>1
      <4>. QED BY <4>1, <1>1, <1>3
    <3>3. readable \in 0 .. Len(Message) - b
      BY <3>2
    <3>. QED BY <3>3, <1>3
  <2>. QED BY <2>1, <1>3, <1>6, <1>9, <1>10, BodyTaken
<1>12. /\ taken' \in Nat /\ taken' <= Len(Message) /\ body' \in Seq(Symbols)
       /\ state' \in {"receiving", "complete"}
       /\ state' = "receiving" => Len(body') < length
       /\ state' = "complete" => Len(body') >= length
  BY <1>11 DEF TakenBody
<1>13. ReceivedTypes'
  BY <1>1, <1>5, <1>7, <1>8, <1>9, <1>12 DEF ReceivedTypes, HeaderRead
<1>14. HeaderReceived'
  BY <1>5, <1>7 DEF HeaderReceived, HeaderRead
<1>15. ASSUME ~cut
       PROVE  /\ length = Len(request.body) /\ taken' >= h /\ Len(body') >= taken' - h
              /\ Exact => body' = Part(Message, h, taken')
  <2>1. BodyBegun(have, b)
    BY <1>1, <1>4, <1>15, ChunkBeginsBody
  <2>2. /\ taken' >= h /\ Len(body') >= taken' - h
        /\ Exact => body' = Part(Message, h, taken')
    BY <2>1, <1>1, <1>3, <1>8, <1>11, BodyGrows
  <2>3. length = Len(request.body)
    BY <1>5, <1>6, <1>8, <1>15, HeadOfMessage DEF HeaderRead
  <2>. QED BY <2>2, <2>3
<1>16. Exact' <=> Exact
  BY <1>5 DEF Exact, HeaderRead
<1>17. BodyReceived'
  <2>1. receivedHeader' = TRUE /\ cut' = cut
    BY <1>5 DEF HeaderRead
  <2>. QED BY <2>1, <1>1, <1>7, <1>12, <1>15, <1>16 DEF BodyReceived
<1>. QED BY <1>13, <1>14, <1>17 DEF ReceivedInv

(* A chunk of the body keeps the invariant.                                 *)
LEMMA ReceivesBodyKeeps ==
  ASSUME ReceivedInv, state = "receiving", receivedHeader,
         NEW readable \in 1 .. Len(Message) - taken, ReceivesBody(readable), request' = request
  PROVE  ReceivedInv'
<1>1. PICK h : h = RequestMark(request) + 3
  OBVIOUS
<1>2. ReceivedTypes /\ HeaderReceived /\ BodyReceived
  BY DEF ReceivedInv
<1>3. /\ request \in Requests /\ taken \in Nat /\ taken <= Len(Message)
      /\ header \in Seq(Symbols) /\ body \in Seq(Symbols) /\ contentLength \in Nat
      /\ cut \in BOOLEAN /\ split \in BOOLEAN
  BY <1>2 DEF ReceivedTypes
<1>4. Message \in Seq(Symbols) /\ Len(Message) \in Nat
  BY <1>3, MessageSymbols, LengthIsNat DEF Message
<1>5. /\ RecvBodyAsync(body, contentLength, taken, readable)
      /\ header' = header /\ receivedHeader' = receivedHeader /\ contentLength' = contentLength
      /\ split' = split /\ cut' = cut
  BY DEF ReceivesBody
<1>6. TakenBody(body, contentLength, taken)
  <2>1. readable \in Nat /\ taken + readable <= Len(Message)
    BY <1>3, <1>4
  <2>. QED BY <2>1, <1>3, <1>4, <1>5, BodyTaken
<1>7. /\ taken' \in Nat /\ taken' <= Len(Message) /\ body' \in Seq(Symbols)
      /\ state' \in {"receiving", "complete"}
      /\ state' = "receiving" => Len(body') < contentLength
      /\ state' = "complete" => Len(body') >= contentLength
  BY <1>6 DEF TakenBody
<1>8. Message' = Message /\ (Exact' <=> Exact)
  BY <1>5 DEF Message, Exact
<1>9. ReceivedTypes'
  BY <1>3, <1>5, <1>7, <1>8 DEF ReceivedTypes
<1>10. HeaderReceived'
  BY <1>2, <1>5, <1>8 DEF HeaderReceived
<1>11. ASSUME ~cut
       PROVE  /\ contentLength = Len(request.body) /\ taken' >= h /\ Len(body') >= taken' - h
              /\ Exact => body' = Part(Message, h, taken')
  <2>1. /\ taken' >= h /\ Len(body') >= taken' - h
        /\ Exact => body' = Part(Message, h, taken')
    BY <1>2, <1>3, <1>11, <1>1, <1>4, <1>6, BodyGrows DEF BodyReceived, BodyBegun
  <2>2. contentLength = Len(request.body)
    BY <1>2, <1>11 DEF BodyReceived
  <2>. QED BY <2>1, <2>2
<1>12. BodyReceived'
  BY <1>1, <1>5, <1>7, <1>8, <1>11 DEF BodyReceived
<1>. QED BY <1>9, <1>10, <1>12 DEF ReceivedInv

(* Once the request is complete or the client removed, nothing is received. *)
LEMMA ReceivedStays ==
  ASSUME ReceivedInv, request' = request, UNCHANGED receiving,
         \/ state' = state \/ state' = "failed"
         \/ state = "complete" /\ state' = "sending"
         \/ state = "sending" /\ state' = "sent"
  PROVE  ReceivedInv'
<1>1. ReceivedTypes /\ HeaderReceived /\ BodyReceived
  BY DEF ReceivedInv
<1>2. /\ taken' = taken /\ header' = header /\ body' = body /\ receivedHeader' = receivedHeader
      /\ contentLength' = contentLength /\ split' = split /\ cut' = cut
  BY DEF receiving
<1>3. Message' = Message /\ (Exact' <=> Exact)
  BY <1>2 DEF Message, Exact
<1>4. ReceivedTypes'
  BY <1>1, <1>2, <1>3 DEF ReceivedTypes
<1>5. HeaderReceived'
  BY <1>1, <1>2, <1>3 DEF HeaderReceived
<1>6. BodyReceived'
  BY <1>1, <1>2, <1>3 DEF BodyReceived
<1>. QED BY <1>4, <1>5, <1>6 DEF ReceivedInv

(* Every step of a connection keeps the invariant.                          *)
LEMMA ReceivedNext == ReceivedInv /\ [ConnectionNext]_connectionVars => ReceivedInv'
<1>. SUFFICES ASSUME ReceivedInv, [ConnectionNext]_connectionVars PROVE ReceivedInv'
  OBVIOUS
<1>1. CASE ReceiveInput
  <2>1. state = "receiving" /\ request' = request
    BY <1>1 DEF ReceiveInput
  <2>2. ASSUME ~receivedHeader, NEW n \in ChunkSizes, ReceivesPartOfHeader(n) PROVE ReceivedInv'
    BY <2>1, <2>2, ReceivesPartOfHeaderKeeps
  <2>3. ASSUME ~receivedHeader, NEW n \in ChunkSizes, ReceivesBadHeader(n) PROVE ReceivedInv'
    BY <2>1, <2>3, ReceivesBadHeaderKeeps
  <2>4. ASSUME ~receivedHeader, NEW n \in ChunkSizes,
               NEW readable \in 0 .. Len(Message) - taken - n, ReceivesHeader(n, readable)
        PROVE  ReceivedInv'
    BY <2>1, <2>4, ReceivesHeaderKeeps
  <2>5. ASSUME receivedHeader, NEW readable \in 1 .. Len(Message) - taken, ReceivesBody(readable)
        PROVE  ReceivedInv'
    BY <2>1, <2>5, ReceivesBodyKeeps
  <2>. QED BY <1>1, <2>2, <2>3, <2>4, <2>5 DEF ReceiveInput
<1>2. CASE Dropped
  BY <1>2, ReceivedStays DEF Dropped
<1>3. CASE PostProcess
  BY <1>3, ReceivedStays DEF PostProcess
<1>4. CASE SendSome
  BY <1>4, ReceivedStays DEF SendSome
<1>5. CASE SendReturns
  BY <1>5, ReceivedStays DEF SendReturns
<1>6. CASE SendThrows
  BY <1>6, ReceivedStays DEF SendThrows
<1>7. CASE UNCHANGED connectionVars
  BY <1>7, ReceivedStays DEF connectionVars
<1>. QED BY <1>1, <1>2, <1>3, <1>4, <1>5, <1>6, <1>7 DEF ConnectionNext

-----------------------------------------------------------------------------
(* What RecvHeader finds in a text that begins with a header. *)
LEMMA HeadSplits ==
  ASSUME NEW text, NEW line, NEW n, Framed(text, line, n), NEW at, at = MarkAt(line, n),
         NEW e \in Nat, at + 3 <= e, e <= Len(text), NEW part, part = Part(text, 0, e)
  PROVE  /\ EndMark(part).at = at
         /\ UpToMark(part) = Part(text, 0, at + 1)
         /\ AfterMark(part) = Part(text, at + 3, e)
<1>1. text \in Seq(Symbols) /\ at \in Nat /\ 1 <= at
  <2>1. text \in Seq(Symbols) /\ line \in Nat /\ 1 <= line /\ n \in Nat
    BY DEF Framed
  <2>. QED BY <2>1 DEF MarkAt
<1>2. 0 \in Nat /\ 0 <= e /\ 0 < at /\ e - 0 = e /\ at - 0 = at
  BY <1>1
<1>3. IsPart(part, text, 0, e)
  BY <1>1, <1>2, PartIs
<1>4. EndMark(part) = [at |-> at, size |-> 4]
  BY <1>2, <1>3, MarkInPart
<1>5. EndMark(part).at = at /\ EndMark(part).size = 4
  BY <1>4
<1>6. PICK x, y : x = at + 1 /\ y = at + 3
  OBVIOUS
<1>7. /\ x \in Nat /\ y \in Nat /\ 0 <= x /\ x <= e /\ y <= e
      /\ x = 0 + x /\ y = 0 + y /\ e = 0 + e
  BY <1>1, <1>6
<1>8. UpToMark(part) = Part(text, 0, x)
  <2>1. UpToMark(part) = SubSeq(part, 1, at - 1 + 2)
    <3>1. UpToMark(part) = SubSeq(part, 1, at - 1 + 4 \div 2)
      BY <1>5 DEF UpToMark
    <3>. QED BY <3>1, Halves
  <2>2. UpToMark(part) = Part(part, 0, x)
    BY <2>1, <1>1, <1>6 DEF Part
  <2>3. Part(part, 0, x) = Part(text, 0, x)
    BY <1>2, <1>7, <1>1, <1>3, PartOfPart
  <2>. QED BY <2>2, <2>3
<1>9. AfterMark(part) = Part(text, y, e)
  <2>1. at + 4 = y + 1
    BY <1>1, <1>6
  <2>2. AfterMark(part) = Part(part, y, e)
    BY <1>5, <1>2, <1>3, <2>1 DEF IsPart, AfterMark, From, Part
  <2>3. Part(part, y, e) = Part(text, y, e)
    BY <1>2, <1>1, <1>3, <1>7, PartOfPart
  <2>. QED BY <2>2, <2>3
<1>. QED BY <1>4, <1>6, <1>8, <1>9

(* RecvHeader, given the whole request. *)
LEMMA WholeHeader ==
  ASSUME request \in Requests, request.version # <<>>
  PROVE  RecvHeader(Message).header = Part(Message, 0, RequestMark(request) + 1)
<1>1. PICK at, b : at = RequestMark(request) /\ b = Len(Message)
  OBVIOUS
<1>2. /\ Message \in Seq(Symbols)
      /\ Framed(Message, FirstEnd(request), HeaderCount(request))
      /\ at = MarkAt(FirstEnd(request), HeaderCount(request)) /\ at \in Nat
      /\ b = at + 3 + Len(request.body) /\ Len(request.body) \in Nat
  BY <1>1, MarkOfMessage
<1>3. b \in Nat /\ b <= Len(Message) /\ at + 3 <= b
  BY <1>1, <1>2
<1>4. IsPart(Message, Message, 0, b)
  BY <1>1, <1>2, WholePart
<1>5. PICK e \in Nat :
        /\ 0 <= e /\ e <= b
        /\ BeforeNul(Message) = Part(Message, 0, e)
        /\ e < b => e >= at + 3
  BY <1>2, <1>3, <1>4, NulInPart
<1>6. at + 3 <= e /\ e <= Len(Message)
  BY <1>1, <1>2, <1>3, <1>5
<1>7. UpToMark(BeforeNul(Message)) = Part(Message, 0, at + 1)
  BY <1>2, <1>5, <1>6, HeadSplits
<1>. QED BY <1>1, <1>7 DEF RecvHeader

(* HttpRequest finds in the header what HttpRequestCreator wrote. *)
LEMMA HeaderIsRead ==
  ReceivedInv => (~cut /\ receivedHeader =>
                   /\ header = RecvHeader(Message).header
                   /\ ~BadFormat(header) => /\ Method(header) = <<request.method>>
                                            /\ Url(header) = request.url
                                            /\ Headers(header) = CreatedHeaders)
<1>. SUFFICES ASSUME ReceivedInv, ~cut, receivedHeader
              PROVE  /\ header = RecvHeader(Message).header
                     /\ ~BadFormat(header) => /\ Method(header) = <<request.method>>
                                              /\ Url(header) = request.url
                                              /\ Headers(header) = CreatedHeaders
  OBVIOUS
<1>1. PICK at, p : at = RequestMark(request) /\ p = at + 1
  OBVIOUS
<1>2. /\ request \in Requests /\ request.version # <<>>
      /\ header = Part(Message, 0, p)
  BY <1>1 DEF ReceivedInv, ReceivedTypes, HeaderReceived
<1>3. header = RecvHeader(Message).header
  BY <1>1, <1>2, WholeHeader
<1>4. Headers(header) = CreatedHeaders
  BY <1>1, <1>2, HeadOfMessage
<1>5. /\ IsRequest(Message, request) /\ Message \in Seq(Symbols) /\ at \in Nat
      /\ Len(Message) = at + 3 + Len(request.body) /\ Len(request.body) \in Nat
  BY <1>1, <1>2, MarkOfMessage
<1>6. Method(header) = <<MethodName(request.method)>> /\ Url(header) = request.url
  BY <1>2, <1>5, <1>1, BeginningOfText, FirstLineOfBeginning
<1>7. ASSUME ~BadFormat(header) PROVE Method(header) = <<request.method>>
  <2>1. PICK m \in Methods : <<m>> = <<MethodName(request.method)>>
    BY <1>7, <1>6 DEF BadFormat
  <2>2. MethodName(request.method) = request.method
    BY <2>1, MethodNames
  <2>. QED BY <2>2, <1>6
<1>. QED BY <1>3, <1>4, <1>6, <1>7

(* A request that is complete has all its body. *)
LEMMA BodyIsRead ==
  ReceivedInv /\ ~cut /\ state = "complete" /\ Exact => body = request.body
<1>. SUFFICES ASSUME ReceivedInv, ~cut, state = "complete", Exact PROVE body = request.body
  OBVIOUS
<1>1. PICK at, h, end, size, m : /\ at = RequestMark(request) /\ h = at + 3 /\ end = Len(Message)
                                 /\ size = Len(request.body) /\ m = Len(body)
  OBVIOUS
<1>2. /\ request \in Requests /\ request.version # <<>> /\ taken \in Nat /\ taken <= end
      /\ receivedHeader
  BY <1>1 DEF ReceivedInv, ReceivedTypes, HeaderReceived
<1>3. taken >= h /\ body = Part(Message, h, taken) /\ m >= size
  <2>1. /\ contentLength = Len(request.body) /\ taken >= RequestMark(request) + 3
        /\ body = Part(Message, RequestMark(request) + 3, taken)
        /\ Len(body) >= contentLength
    BY <1>2 DEF ReceivedInv, BodyReceived
  <2>. QED BY <2>1, <1>1
<1>4. /\ IsRequest(Message, request) /\ Message \in Seq(Symbols) /\ at \in Nat
      /\ end = at + 3 + size /\ size \in Nat /\ request.body \in Seq(Symbols)
  BY <1>1, <1>2, MarkOfMessage
<1>5. h \in Nat /\ end = h + size
  BY <1>1, <1>4
<1>6. IsPart(body, Message, h, taken)
  BY <1>1, <1>2, <1>3, <1>4, <1>5, PartIs
<1>7. m = taken - h
  BY <1>1, <1>6 DEF IsPart
<1>8. taken = end /\ end - h = size
  BY <1>2, <1>3, <1>4, <1>5, <1>7
<1>9. body \in Seq(Symbols) /\ Len(body) = size /\ \A i \in 1 .. size : body[i] = Message[h + i]
  BY <1>6, <1>8 DEF IsPart
<1>10. \A i \in 1 .. size : Message[h + i] = request.body[i]
  BY <1>1, <1>4 DEF IsRequest
<1>. QED BY <1>1, <1>4, <1>9, <1>10, SameText

(* The invariant says that requests are read as they were written.          *)
LEMMA ReceivedIsRead == ReceivedInv => RequestIsRead
BY HeaderIsRead, BodyIsRead DEF RequestIsRead, Exact

(* The invariant says that a whole request is recognised.                   *)
LEMMA ReceivedIsRecognised == ReceivedInv => WholeRequestIsRecognised
<1>. SUFFICES ASSUME ReceivedInv, state = "receiving", taken = Len(Message), ~cut,
                     request.version # <<>>
              PROVE  FALSE
  BY DEF WholeRequestIsRecognised
<1>1. PICK at, size, m : at = RequestMark(request) /\ size = Len(request.body) /\ m = Len(body)
  OBVIOUS
<1>2. request \in Requests /\ body \in Seq(Symbols)
  BY DEF ReceivedInv, ReceivedTypes
<1>3. at \in Nat /\ taken = at + 3 + size /\ size \in Nat
  BY <1>1, <1>2, MarkOfMessage
<1>4. CASE ~receivedHeader
  <2>1. taken < at
    BY <1>1, <1>4 DEF ReceivedInv, HeaderReceived
  <2>. QED BY <2>1, <1>3
<1>5. CASE receivedHeader
  <2>1. contentLength = size /\ m >= taken - (at + 3) /\ m < contentLength
    BY <1>1, <1>5 DEF ReceivedInv, BodyReceived
  <2>2. m \in Nat
    BY <1>1, <1>2, LengthIsNat
  <2>. QED BY <2>1, <2>2, <1>3
<1>. QED BY <1>4, <1>5

-----------------------------------------------------------------------------
(* Responses *)

(* The bytes of bodies.                                                     *)
LEMMA BodyTypes ==
  ASSUME NEW bytes \in Bodies
  PROVE  bytes \in Seq(Symbols) /\ Len(bytes) \in 0 .. MaxLength
<1>1. bytes \in Seq(STRING) /\ Len(bytes) <= MaxLength
  BY BodiesAssumption, Zenon
<1>2. bytes \in Seq(Symbols)
  BY <1>1, SymbolsHave, SeqMonotonic, Zenon
<1>3. Len(bytes) \in Nat /\ MaxLength \in Nat
  BY <1>2, LengthIsNat, DecimalAssumption
<1>. QED BY <1>1, <1>2, <1>3

(* The content types are without marks.                                     *)
LEMMA ContentTypeIsPlain == ASSUME NEW url PROVE ContentType(url) \in PlainSymbols
<1>1. PICK ext : ext = Extension(url)
  OBVIOUS
<1>2. ContentType(url) \in {"text/html", "image/jpeg", "image/png", "image/gif",
        "application/x-shockwave-flash", "text/plain", "text/css", "text/javascript", "undefined"}
  BY DEF ContentType
<1>. QED BY <1>2, PlainWords

(* What a worker answers to the request. *)
IsAnswer(a, r) ==
  /\ a.version = r.version \o <<"SP">> /\ a.url = r.url /\ a.code = <<"code">>
  /\ a.length \in 0 .. MaxLength /\ a.body \in Bodies

(* The length that the header of a response announces.                      *)
LEMMA SentLengthIs ==
  ASSUME NEW r, NEW a, IsAnswer(a, r)
  PROVE  /\ SentLength(a) \in 0 .. MaxLength
         /\ a.body # <<>> => SentLength(a) = Len(a.body)
         /\ a.body = <<>> => SentLength(a) = a.length
BY BodyTypes DEF SentLength, IsAnswer

(* The place where the first line of a response ends. *)
StatusEnd(r) == Len(r.version) + 5

(* The first line of a response without its end.                            *)
StatusLine(a) == <<"HTTP/">> \o a.version \o <<"SP">> \o a.code

(* The symbols of the first line of a response.                             *)
LEMMA StatusLineSymbols ==
  ASSUME NEW r \in Requests, NEW a, IsAnswer(a, r)
  PROVE  /\ StatusLine(a) \in Seq(Symbols) /\ Len(StatusLine(a)) = Len(r.version) + 4
         /\ \A j \in 1 .. Len(StatusLine(a)) :
              /\ StatusLine(a)[j] # "CR" /\ StatusLine(a)[j] # "LF" /\ StatusLine(a)[j] # "NUL"
<1>1. PICK v, w, s0, s1, s2, s3, sp, http, code :
        /\ v = Len(r.version) /\ w = v + 1 /\ sp = <<"SP">> /\ http = <<"HTTP/">> /\ code = <<"code">>
        /\ s0 = r.version \o sp /\ s1 = http \o s0 /\ s2 = s1 \o sp /\ s3 = s2 \o code
  OBVIOUS
<1>2. StatusLine(a) = s3
  BY <1>1 DEF StatusLine, IsAnswer
<1>3. /\ r.version \in Seq(Symbols) /\ v \in Nat
      /\ \A j \in 1 .. v : r.version[j] \in Symbols \ {"CR", "LF", "NUL"}
  BY <1>1, VersionSymbols
<1>4. "SP" \in Symbols /\ "HTTP/" \in Symbols /\ "code" \in Symbols
  <2>1. "SP" \in Symbols /\ "HTTP/" \in Symbols
    BY MarksHave
  <2>2. "code" \in PlainSymbols
    BY PlainWords
  <2>. QED BY <2>1, <2>2 DEF PlainSymbols
<1>5. /\ sp \in Seq(Symbols) /\ Len(sp) = 1 /\ sp[1] = "SP"
      /\ http \in Seq(Symbols) /\ Len(http) = 1 /\ http[1] = "HTTP/"
      /\ code \in Seq(Symbols) /\ Len(code) = 1 /\ code[1] = "code"
  BY <1>1, <1>4
<1>6. PICK x, y, z : x = 1 + w /\ y = x + 1 /\ z = y + 1
  OBVIOUS
<1>7. w \in Nat /\ x \in Nat /\ y \in Nat /\ z = v + 4 /\ z \in Nat
  BY <1>1, <1>3, <1>6
<1>8. /\ s0 \in Seq(Symbols) /\ Len(s0) = w
      /\ \A j \in 1 .. v : s0[j] = r.version[j]
      /\ \A j \in 1 .. 1 : s0[v + j] = sp[j]
  BY <1>1, <1>3, <1>5, Joined DEF Joins
<1>9. \A j \in 1 .. w : s0[j] # "CR" /\ s0[j] # "LF" /\ s0[j] # "NUL"
  <2>. TAKE j \in 1 .. w
  <2>1. CASE j \in 1 .. v
    BY <2>1, <1>3, <1>8
  <2>2. CASE j = v + 1
    <3>1. s0[j] = "SP"
      BY <2>2, <1>5, <1>8
    <3>. QED BY <3>1
  <2>3. j \in 1 .. v \/ j = v + 1
    <3>1. v \in Nat /\ w = v + 1
      BY <1>1, <1>3
    <3>. QED BY <3>1
  <2>. QED BY <2>1, <2>2, <2>3
<1>10. Joins(s1, http, 1, s0, w)
  BY <1>1, <1>5, <1>8, Joined
<1>11. /\ s1 \in Seq(Symbols) /\ Len(s1) = x
       /\ \A j \in 1 .. 1 : s1[j] = http[j]
       /\ \A j \in 1 .. w : s1[1 + j] = s0[j]
  BY <1>6, <1>10 DEF Joins
<1>12. \A j \in 1 .. x : s1[j] # "CR" /\ s1[j] # "LF" /\ s1[j] # "NUL"
  <2>. TAKE j \in 1 .. x
  <2>1. CASE j = 1
    <3>1. s1[j] = "HTTP/"
      BY <2>1, <1>5, <1>11
    <3>. QED BY <3>1
  <2>2. CASE j # 1
    <3>1. PICK i \in 1 .. w : j = 1 + i
      <4>1. j - 1 \in 1 .. w /\ j = 1 + (j - 1)
        BY <2>2, <1>6, <1>7
      <4>. QED BY <4>1
    <3>. QED BY <3>1, <1>9, <1>11
  <2>. QED BY <2>1, <2>2
<1>13. Joins(s2, s1, x, sp, 1)
  BY <1>1, <1>5, <1>11, Joined
<1>14. /\ s2 \in Seq(Symbols) /\ Len(s2) = y
       /\ \A j \in 1 .. x : s2[j] = s1[j]
       /\ \A j \in 1 .. 1 : s2[x + j] = sp[j]
  BY <1>6, <1>13 DEF Joins
<1>15. Joins(s3, s2, y, code, 1)
  BY <1>1, <1>5, <1>14, Joined
<1>16. /\ s3 \in Seq(Symbols) /\ Len(s3) = z
       /\ \A j \in 1 .. y : s3[j] = s2[j]
       /\ \A j \in 1 .. 1 : s3[y + j] = code[j]
  BY <1>6, <1>15 DEF Joins
<1>17. \A j \in 1 .. z : s3[j] # "CR" /\ s3[j] # "LF" /\ s3[j] # "NUL"
  <2>. TAKE j \in 1 .. z
  <2>1. CASE j \in 1 .. x
    <3>1. s3[j] = s1[j]
      BY <2>1, <1>6, <1>7, <1>14, <1>16
    <3>. QED BY <3>1, <2>1, <1>12
  <2>2. CASE j = y
    <3>1. s3[j] = s2[j] /\ s2[j] = "SP"
      <4>1. j \in 1 .. y /\ j = x + 1
        BY <2>2, <1>6, <1>7
      <4>2. s2[x + 1] = "SP"
        BY <1>5, <1>14
      <4>. QED BY <4>1, <4>2, <1>16
    <3>. QED BY <3>1
  <2>3. CASE j = z
    <3>1. s3[j] = "code"
      BY <2>3, <1>5, <1>6, <1>16
    <3>. QED BY <3>1
  <2>4. j \in 1 .. x \/ j = y \/ j = z
    BY <1>6, <1>7
  <2>. QED BY <2>1, <2>2, <2>3, <2>4
<1>. QED BY <1>1, <1>2, <1>7, <1>16, <1>17

-----------------------------------------------------------------------------
(* Concatenation, with no more known of it than the next lemma says. *)
Followed(s, t) == s \o t

(* Concatenation is associative.                                            *)
LEMMA Regrouped ==
  /\ \A s, t \in Seq(Symbols) : Followed(s, t) \in Seq(Symbols)
  /\ \A s, t, u \in Seq(Symbols) : Followed(s, Followed(t, u)) = Followed(Followed(s, t), u)
<1>1. ASSUME NEW s \in Seq(Symbols), NEW t \in Seq(Symbols) PROVE Followed(s, t) \in Seq(Symbols)
  BY Concatenation DEF Followed
<1>2. ASSUME NEW s \in Seq(Symbols), NEW t \in Seq(Symbols), NEW u \in Seq(Symbols)
      PROVE  Followed(s, Followed(t, u)) = Followed(Followed(s, t), u)
  BY ConcatAssociative DEF Followed
<1>. QED BY <1>1, <1>2

(* Five texts may be put behind a text together or one by one.              *)
Regroups(s, a, b, c, d, e) == s \o (a \o b \o c \o d \o e) = s \o a \o b \o c \o d \o e

(* They always may.                                                         *)
LEMMA FiveTexts ==
  ASSUME NEW s \in Seq(Symbols), NEW a \in Seq(Symbols), NEW b \in Seq(Symbols),
         NEW c \in Seq(Symbols), NEW d \in Seq(Symbols), NEW e \in Seq(Symbols)
  PROVE  Regroups(s, a, b, c, d, e)
<1>1. PICK ab, abc, abcd : /\ ab = Followed(a, b) /\ abc = Followed(ab, c)
                           /\ abcd = Followed(abc, d)
  OBVIOUS
<1>2. ab \in Seq(Symbols) /\ abc \in Seq(Symbols) /\ abcd \in Seq(Symbols)
  BY <1>1, Regrouped
<1>3. Followed(s, Followed(abcd, e)) = Followed(Followed(s, abcd), e)
  BY <1>2, Regrouped
<1>4. Followed(s, abcd) = Followed(Followed(s, abc), d)
  BY <1>1, <1>2, Regrouped
<1>5. Followed(s, abc) = Followed(Followed(s, ab), c)
  BY <1>1, <1>2, Regrouped
<1>6. Followed(s, ab) = Followed(Followed(s, a), b)
  BY <1>1, Regrouped
<1>7. Followed(s, Followed(Followed(Followed(Followed(a, b), c), d), e)) =
        Followed(Followed(Followed(Followed(Followed(s, a), b), c), d), e)
  BY <1>1, <1>3, <1>4, <1>5, <1>6, Zenon
<1>. QED BY <1>7, Zenon DEF Followed, Regroups

(* A sequence of five.                                                      *)
HasFive(s, a, b, c, d, e) ==
  Len(s) = 5 /\ s[1] = a /\ s[2] = b /\ s[3] = c /\ s[4] = d /\ s[5] = e

(* Five symbols that are appended one by one.                               *)
LEMMA FiveSymbols ==
  ASSUME NEW a \in PlainSymbols, NEW b \in PlainSymbols, NEW c \in PlainSymbols,
         NEW d \in PlainSymbols, NEW e \in PlainSymbols
  PROVE  HasFive(Append(Append(Append(Append(Append(<<>>, a), b), c), d), e), a, b, c, d, e)
<1>1. PICK s1, s2, s3, s4, s5 :
        /\ s1 = Append(<<>>, a) /\ s2 = Append(s1, b) /\ s3 = Append(s2, c)
        /\ s4 = Append(s3, d) /\ s5 = Append(s4, e)
  OBVIOUS
<1>2. s3 \in Seq(PlainSymbols) /\ Len(s3) = 3 /\ s3[1] = a /\ s3[2] = b /\ s3[3] = c
  BY <1>1
<1>3. s4 \in Seq(PlainSymbols) /\ Len(s4) = 4 /\ s4[1] = a /\ s4[2] = b /\ s4[3] = c /\ s4[4] = d
  BY <1>1, <1>2
<1>4. s5 \in Seq(PlainSymbols) /\ Len(s5) = 5 /\ s5[1] = a /\ s5[2] = b /\ s5[3] = c /\ s5[4] = d
      /\ s5[5] = e
  BY <1>1, <1>3
<1>. QED BY <1>1, <1>4 DEF HasFive

(* The place of the mark of a response. *)
ResponseMark(r) == MarkAt(StatusEnd(r), 5)

(* The text of a response, by its symbols: a first line, five headers with  *)
(* the length and the type of the content, an empty line and the body.      *)
IsResponse(text, a, r) ==
  /\ Framed(text, StatusEnd(r), 5) /\ HasLines(text, StatusEnd(r), 5)
  /\ Len(text) = ResponseMark(r) + 3 + Len(a.body)
  /\ \A j \in 1 .. Len(a.body) : text[ResponseMark(r) + 3 + j] = a.body[j]
  /\ text[StatusEnd(r) + 5 * 1 + 2] = "Content-Length"
  /\ text[StatusEnd(r) + 5 * 1 + 4] = Decimal(SentLength(a))
  /\ text[StatusEnd(r) + 5 * 2 + 2] = "Content-type"
  /\ text[StatusEnd(r) + 5 * 2 + 4] = ContentType(a.url)

(* The text that the server sends is the text of the response.              *)
LEMMA ResponseShape ==
  ASSUME NEW r \in Requests, NEW a, IsAnswer(a, r)
  PROVE  IsResponse(ResponseText(a), a, r)
<1>1. PICK first, line, kept, length, type :
        /\ first = StatusLine(a) /\ line = StatusEnd(r)
        /\ kept = (IF a.version = <<"1.0">> /\ a.keepAlive THEN "Keep-Alive" ELSE "close")
        /\ length = Decimal(SentLength(a)) /\ type = ContentType(a.url)
  OBVIOUS
<1>2. PICK l1, l2, l3, l4, l5 :
        /\ l1 = Line("Connection", kept) /\ l2 = Line("Content-Length", length)
        /\ l3 = Line("Content-type", type) /\ l4 = Line("Date", "now")
        /\ l5 = Line("Server", "ServerName")
  OBVIOUS
<1>3. PICK s0, s1, s2, s3, s4, s5 :
        /\ s0 = first \o NewLine /\ s1 = s0 \o l1 /\ s2 = s1 \o l2
        /\ s3 = s2 \o l3 /\ s4 = s3 \o l4 /\ s5 = s4 \o l5
  OBVIOUS
<1>4. /\ "Connection" \in PlainSymbols /\ "Content-Length" \in PlainSymbols
       /\ "Content-type" \in PlainSymbols
      /\ "Date" \in PlainSymbols /\ "now" \in PlainSymbols /\ "Server" \in PlainSymbols
       /\ "ServerName" \in PlainSymbols
      /\ kept \in PlainSymbols
  BY <1>1, PlainWords
<1>5. length \in PlainSymbols /\ type \in PlainSymbols
  BY <1>1, SentLengthIs, DecimalIsPlain, ContentTypeIsPlain
<1>6. Written(s0, line, <<>>, <<>>)
  <2>1. /\ first \in Seq(Symbols) /\ Len(first) = Len(r.version) + 4
        /\ \A j \in 1 .. Len(first) : first[j] # "CR" /\ first[j] # "LF" /\ first[j] # "NUL"
    BY <1>1, StatusLineSymbols
  <2>2. Written(first \o NewLine, Len(first) + 1, <<>>, <<>>)
    BY <2>1, WrittenFirst
  <2>3. line = Len(first) + 1
    BY <2>1, <1>1, VersionSymbols DEF StatusEnd
  <2>. QED BY <2>2, <2>3, <1>3
<1>7. PICK k1, k2, k3, k4, k5 :
        /\ k1 = Append(<<>>, "Connection") /\ k2 = Append(k1, "Content-Length")
        /\ k3 = Append(k2, "Content-type") /\ k4 = Append(k3, "Date") /\ k5 = Append(k4, "Server")
  OBVIOUS
<1>8. PICK v1, v2, v3, v4, v5 :
        /\ v1 = Append(<<>>, kept) /\ v2 = Append(v1, length)
        /\ v3 = Append(v2, type) /\ v4 = Append(v3, "now") /\ v5 = Append(v4, "ServerName")
  OBVIOUS
<1>9. Written(s1, line, k1, v1)
  BY <1>2, <1>3, <1>4, <1>6, <1>7, <1>8, WrittenLine
<1>10. Written(s2, line, k2, v2)
  BY <1>2, <1>3, <1>4, <1>5, <1>7, <1>8, <1>9, WrittenLine
<1>11. Written(s3, line, k3, v3)
  BY <1>2, <1>3, <1>4, <1>5, <1>7, <1>8, <1>10, WrittenLine
<1>12. Written(s4, line, k4, v4)
  BY <1>2, <1>3, <1>4, <1>7, <1>8, <1>11, WrittenLine
<1>13. Written(s5, line, k5, v5)
  BY <1>2, <1>3, <1>4, <1>7, <1>8, <1>12, WrittenLine
<1>14. HasFive(k5, "Connection", "Content-Length", "Content-type", "Date", "Server")
  BY <1>4, <1>7, FiveSymbols
<1>15. HasFive(v5, kept, length, type, "now", "ServerName")
  BY <1>4, <1>5, <1>8, FiveSymbols
<1>16. \A i, k \in 1 .. Len(k5) : k5[i] = k5[k] => i = k
  <2>1. Len(k5) = 5 /\ k5[1] = "Connection" /\ k5[2] = "Content-Length" /\ k5[3] = "Content-type"
        /\ k5[4] = "Date" /\ k5[5] = "Server"
    BY <1>14 DEF HasFive
  <2>2. \A i \in 1 .. Len(k5) : i = 1 \/ i = 2 \/ i = 3 \/ i = 4 \/ i = 5
    BY <2>1
  <2>. QED BY <2>1, <2>2
<1>17. a.body \in Seq(Symbols)
  BY BodyTypes DEF IsAnswer
<1>18. PICK text : text = ResponseText(a)
  OBVIOUS
<1>19. text = (s5 \o NewLine) \o a.body
  <2>1. a.version # <<>>
    <3>1. /\ r.version \in Seq(Symbols) /\ <<"SP">> \in Seq(Symbols)
      <4>1. "SP" \in Symbols
        BY MarksHave
      <4>. QED BY <4>1, VersionSymbols
    <3>2. Len(r.version \o <<"SP">>) = Len(r.version) + 1
      BY <3>1, Concatenation
    <3>3. Len(r.version) \in Nat
      BY <3>1, LengthIsNat
    <3>4. a.version = r.version \o <<"SP">>
      BY DEF IsAnswer
    <3>. QED BY <3>2, <3>3, <3>4, EmptySeq
  <2>2. s0 \in Seq(Symbols)
    BY <1>6 DEF Written
  <2>3. /\ l1 \in Seq(Symbols) /\ l2 \in Seq(Symbols) /\ l3 \in Seq(Symbols)
        /\ l4 \in Seq(Symbols) /\ l5 \in Seq(Symbols)
    BY <1>2, <1>4, <1>5, SymbolsOfHeader
  <2>4. s0 \o (l1 \o l2 \o l3 \o l4 \o l5) = s5
    <3>1. Regroups(s0, l1, l2, l3, l4, l5)
      BY <2>2, <2>3, FiveTexts
    <3>. QED BY <3>1, <1>3, Zenon DEF Regroups
  <2>5. ResponseHeaderLines(a) = l1 \o l2 \o l3 \o l4 \o l5
    BY <1>1, <1>2 DEF ResponseHeaderLines
  <2>6. ResponseHeaderText(a) = s5 \o NewLine
    <3>1. ResponseHeaderText(a) = (s0 \o ResponseHeaderLines(a)) \o NewLine
      BY <1>1, <1>3 DEF ResponseHeaderText, StatusLine
    <3>. QED BY <3>1, <2>4, <2>5
  <2>. QED BY <2>1, <2>6, <1>18 DEF ResponseText
<1>20. HasText(text, s5, line, 5, k5, v5, a.body)
  <2>1. 5 = Len(k5)
    BY <1>14 DEF HasFive
  <2>. QED BY <2>1, <1>13, <1>16, <1>17, <1>19, WrittenText
<1>21. /\ Framed(text, line, 5) /\ HasLines(text, line, 5)
       /\ Len(text) = line + 5 * 5 + 3 + Len(a.body)
       /\ \A j \in 1 .. Len(a.body) : text[line + 5 * 5 + 3 + j] = a.body[j]
       /\ \A i \in 0 .. 5 - 1 : /\ text[line + 5 * i + 2] = k5[i + 1]
                                /\ text[line + 5 * i + 4] = v5[i + 1]
  BY <1>20 DEF HasText
<1>22. /\ text[line + 5 * 1 + 2] = "Content-Length" /\ text[line + 5 * 1 + 4] = length
       /\ text[line + 5 * 2 + 2] = "Content-type" /\ text[line + 5 * 2 + 4] = type
  <2>1. 1 \in 0 .. 5 - 1 /\ 2 \in 0 .. 5 - 1 /\ 1 + 1 = 2 /\ 2 + 1 = 3
    OBVIOUS
  <2>2. /\ text[line + 5 * 1 + 2] = k5[1 + 1] /\ text[line + 5 * 1 + 4] = v5[1 + 1]
        /\ text[line + 5 * 2 + 2] = k5[2 + 1] /\ text[line + 5 * 2 + 4] = v5[2 + 1]
    BY <2>1, <1>21
  <2>3. k5[2] = "Content-Length" /\ v5[2] = length /\ k5[3] = "Content-type" /\ v5[3] = type
    BY <1>14, <1>15 DEF HasFive
  <2>. QED BY <2>1, <2>2, <2>3
<1>23. line + 5 * 5 = ResponseMark(r)
  BY <1>1 DEF ResponseMark, MarkAt
<1>. QED BY <1>1, <1>18, <1>21, <1>22, <1>23 DEF IsResponse

-----------------------------------------------------------------------------

(* The sizes of a response and its parts.                                   *)
LEMMA ResponseSizes ==
  ASSUME NEW r \in Requests, NEW a, IsAnswer(a, r), NEW text, text = ResponseText(a),
         NEW at, at = ResponseMark(r)
  PROVE  /\ text \in Seq(Symbols) /\ Framed(text, StatusEnd(r), 5) /\ at = MarkAt(StatusEnd(r), 5)
         /\ at \in Nat /\ 1 <= at /\ Len(a.body) \in 0 .. MaxLength /\ Len(text) \in Nat
         /\ Len(text) = at + 3 + Len(a.body) /\ Len(text) < SizeT /\ SizeT \in Nat
<1>1. PICK v : v = Len(r.version)
  OBVIOUS
<1>2. v \in Nat
  BY <1>1, VersionSymbols
<1>3. at = MarkAt(StatusEnd(r), 5)
  BY DEF ResponseMark
<1>4. at = v + 30
  <2>1. at = v + 5 + 5 * 5
    BY <1>1, <1>3 DEF MarkAt, StatusEnd
  <2>. QED BY <2>1, <1>2
<1>5. IsResponse(text, a, r)
  BY ResponseShape
<1>6. text \in Seq(Symbols) /\ Framed(text, StatusEnd(r), 5) /\ Len(text) = at + 3 + Len(a.body)
  BY <1>5 DEF IsResponse, Framed
<1>7. Len(a.body) \in 0 .. MaxLength
  BY BodyTypes DEF IsAnswer
<1>8. v + 33 + MaxLength < SizeT /\ SizeT \in Nat /\ MaxLength \in Nat
  BY <1>1, ResponsesFit, NumbersAreNat, DecimalAssumption
<1>9. Len(text) < SizeT
  <2>1. PICK k, m : k = Len(a.body) /\ m = Len(text)
    OBVIOUS
  <2>2. k \in 0 .. MaxLength /\ m = at + 3 + k
    BY <2>1, <1>6, <1>7
  <2>3. m < SizeT
    BY <2>2, <1>2, <1>4, <1>8
  <2>. QED BY <2>1, <2>3
<1>10. Len(text) \in Nat
  BY <1>6, LengthIsNat
<1>11. at \in Nat /\ 1 <= at
  BY <1>2, <1>4
<1>12. SizeT \in Nat
  BY <1>8
<1>. QED BY <1>3, <1>6, <1>7, <1>9, <1>10, <1>11, <1>12

(* What HttpResponseReader finds in the header of a response. *)
LEMMA ResponseHeadIsRead ==
  ASSUME NEW r \in Requests, NEW a, IsAnswer(a, r), NEW text, text = ResponseText(a),
         NEW head, head = Part(text, 0, ResponseMark(r) + 1)
  PROVE  /\ ContentLength(ExtractHeaders(head)) = SentLength(a)
         /\ ExtractHeaders(head)[<<"Content-type">>] = <<ContentType(a.url)>>
<1>1. PICK at, p, line, start : /\ at = ResponseMark(r) /\ p = at + 1 /\ line = StatusEnd(r)
                                /\ start = line + 2
  OBVIOUS
<1>2. /\ text \in Seq(Symbols) /\ Framed(text, line, 5) /\ at = MarkAt(line, 5)
      /\ at \in Nat /\ Len(a.body) \in Nat /\ Len(text) \in Nat
      /\ Len(text) = at + 3 + Len(a.body)
  BY <1>1, ResponseSizes, DecimalAssumption
<1>3. /\ HasLines(text, line, 5)
      /\ text[line + 5 * 1 + 2] = "Content-Length" /\ text[line + 5 * 1 + 4] = Decimal(SentLength(a))
      /\ text[line + 5 * 2 + 2] = "Content-type" /\ text[line + 5 * 2 + 4] = ContentType(a.url)
  BY <1>1, ResponseShape DEF IsResponse
<1>4. p \in Nat /\ p <= Len(text) /\ 0 <= p /\ p = line + 5 * 5 + 1
  <2>1. at = line + 5 * 5
    BY <1>2 DEF MarkAt
  <2>. QED BY <2>1, <1>1, <1>2
<1>5. line \in Nat /\ 1 <= line /\ line < p
  <2>1. line \in Nat /\ 1 <= line
    BY <1>2 DEF Framed
  <2>. QED BY <2>1, <1>4
<1>6. IsPart(head, text, 0, p)
  BY <1>1, <1>2, <1>4, PartIs
<1>7. head \in Seq(Symbols) /\ Len(head) = p /\ \A i \in 1 .. p : head[i] = text[i]
  <2>1. head \in Seq(Symbols) /\ Len(head) = p - 0 /\ \A i \in 1 .. p - 0 : head[i] = text[0 + i]
    BY <1>6 DEF IsPart
  <2>2. p - 0 = p /\ \A i \in 1 .. p : 0 + i = i
    BY <1>4
  <2>. QED BY <2>1, <2>2
<1>8. Find(head, <<"CR">>, 1) = line
  <2>1. head[line] = "CR"
    <3>1. line \in 1 .. p /\ line \in 1 .. line + 5 * 5 + 3 /\ LineEnd(line, 5, line)
      BY <1>4, <1>5 DEF LineEnd
    <3>2. text[line] = "CR"
      BY <3>1, <1>2 DEF Framed
    <3>. QED BY <3>1, <3>2, <1>7
  <2>2. \A j \in 1 .. line - 1 : head[j] # "CR"
    <3>. TAKE j \in 1 .. line - 1
    <3>1. j \in 1 .. p /\ j \in 1 .. line + 5 * 5 + 3 /\ j # line + 5 * 5 + 2 /\ ~LineEnd(line, 5, j)
      BY <1>4, <1>5 DEF LineEnd
    <3>2. text[j] # "CR"
      BY <3>1, <1>2 DEF Framed
    <3>. QED BY <3>1, <3>2, <1>7
  <2>3. 1 \in Nat /\ 1 <= 1 /\ line <= Len(head)
    BY <1>5, <1>7
  <2>. QED BY <2>1, <2>2, <2>3, <1>5, <1>7, EndOfLine
<1>9. /\ DOMAIN ExtractHeaders(head) = Keys(head, start)
      /\ \A key \in Keys(head, start) :
           ExtractHeaders(head)[key] = Value(head, Max(ColonsOf(head, start, key)))
  BY <1>1, <1>8 DEF ExtractHeaders
<1>10. /\ Keys(head, start) = {<<text[line + 5 * i + 2]>> : i \in 0 .. 5 - 1}
       /\ \A i \in 0 .. 5 - 1 :
            Value(head, Max(ColonsOf(head, start, <<text[line + 5 * i + 2]>>)))
              = <<text[line + 5 * i + 4]>>
  <2>1. /\ Keys(head, line + 2) = {<<text[line + 5 * i + 2]>> : i \in 0 .. 5 - 1}
        /\ \A i \in 0 .. 5 - 1 :
             LET colons == ColonsOf(head, line + 2, <<text[line + 5 * i + 2]>>)
             IN  /\ Value(head, Min(colons)) = <<text[line + 5 * i + 4]>>
                 /\ Value(head, Max(colons)) = <<text[line + 5 * i + 4]>>
    <3>1. PICK n : n = 5
      OBVIOUS
    <3>2. Framed(text, line, n) /\ HasLines(text, line, n) /\ IsHead(head, text, line, n)
      BY <3>1, <1>2, <1>3, <1>4, <1>7 DEF IsHead
    <3>3. /\ Keys(head, line + 2) = {<<text[line + 5 * i + 2]>> : i \in 0 .. n - 1}
          /\ \A i \in 0 .. n - 1 :
               LET colons == ColonsOf(head, line + 2, <<text[line + 5 * i + 2]>>)
               IN  /\ Value(head, Min(colons)) = <<text[line + 5 * i + 4]>>
                   /\ Value(head, Max(colons)) = <<text[line + 5 * i + 4]>>
      BY <3>2, ParsedHeaders
    <3>. QED BY <3>1, <3>3, Zenon
  <2>2. start = line + 2
    BY <1>1
  <2>. QED BY <2>1, <2>2
<1>11. ASSUME NEW i \in 0 .. 5 - 1, NEW key, key = <<text[line + 5 * i + 2]>>
       PROVE  /\ key \in DOMAIN ExtractHeaders(head)
              /\ ExtractHeaders(head)[key] = <<text[line + 5 * i + 4]>>
  <2>1. key \in Keys(head, start)
    BY <1>10, <1>11
  <2>2. Value(head, Max(ColonsOf(head, start, key))) = <<text[line + 5 * i + 4]>>
    BY <1>10, <1>11
  <2>. QED BY <2>1, <2>2, <1>9
<1>12. 1 \in 0 .. 5 - 1 /\ 2 \in 0 .. 5 - 1
  OBVIOUS
<1>13. PICK headers : headers = ExtractHeaders(head)
  OBVIOUS
<1>14. /\ <<"Content-Length">> \in DOMAIN headers
       /\ headers[<<"Content-Length">>] = <<Decimal(SentLength(a))>>
  <2>1. PICK key : key = <<text[line + 5 * 1 + 2]>>
    OBVIOUS
  <2>2. key \in DOMAIN headers /\ headers[key] = <<text[line + 5 * 1 + 4]>>
    BY <2>1, <1>11, <1>12, <1>13
  <2>. QED BY <2>1, <2>2, <1>3
<1>15. headers[<<"Content-type">>] = <<ContentType(a.url)>>
  <2>1. PICK key : key = <<text[line + 5 * 2 + 2]>>
    OBVIOUS
  <2>2. headers[key] = <<text[line + 5 * 2 + 4]>>
    BY <2>1, <1>11, <1>12, <1>13
  <2>. QED BY <2>1, <2>2, <1>3
<1>16. ContentLength(headers) = SentLength(a)
  <2>1. SentLength(a) \in 0 .. MaxLength
    BY SentLengthIs
  <2>. QED BY <2>1, <1>14, LengthInHeaders
<1>. QED BY <1>13, <1>15, <1>16

-----------------------------------------------------------------------------
(* The invariant of sending a response *)

(* The text that the connection sends.                                      *)
Response == ResponseText(answer)

(* The invariant of sending a response: what the client has been sent is    *)
(* the beginning of the response that is not left to be sent.               *)
ResponseSent ==
  /\ state \in {"receiving", "complete"} => delivered = <<>>
  /\ state \in {"sending", "sent"} =>
       /\ IsAnswer(answer, request)
       /\ parts \in Nat
       /\ parts = 0 => sent = 0 /\ left = Len(Response) /\ delivered = <<>>
       /\ parts = 1 => /\ sent \in 1 .. Len(Response) /\ left = Len(Response) - sent
                       /\ delivered = Part(Response, 0, sent)
       /\ parts = 2 => /\ left \in 0 .. Len(Response)
                       /\ delivered = Part(Response, 0, Len(Response) - left)
  /\ state = "sent" => left = 0

(* The answer of a worker keeps the invariant of sending.                   *)
LEMMA PostProcessAnswers ==
  ASSUME ReceivedInv, ResponseSent, PostProcess
  PROVE  ResponseSent'
<1>1. state = "complete" /\ request' = request /\ delivered' = delivered /\ state' = "sending"
      /\ left' = Len(ResponseText(answer')) /\ sent' = 0 /\ parts' = 0
  BY DEF PostProcess
<1>2. /\ request \in Requests /\ request.version # <<>> /\ receivedHeader
      /\ cut => Begins(header, Message, request)
      /\ ~cut => header = Part(Message, 0, RequestMark(request) + 1)
  BY <1>1 DEF ReceivedInv, ReceivedTypes, HeaderReceived
<1>3. Begins(header, Message, request)
  <2>1. ASSUME ~cut PROVE Begins(header, Message, request)
    <3>1. PICK at, p : at = RequestMark(request) /\ p = at + 1
      OBVIOUS
    <3>2. /\ Message \in Seq(Symbols) /\ at \in Nat
          /\ Len(Message) = at + 3 + Len(request.body) /\ Len(request.body) \in Nat
      BY <3>1, <1>2, MarkOfMessage
    <3>3. p \in Nat /\ at <= p /\ p <= Len(Message)
      BY <3>1, <3>2
    <3>4. header = Part(Message, 0, p)
      BY <3>1, <2>1, <1>2
    <3>. QED BY <3>1, <3>2, <3>3, <3>4, <1>2, BeginningOfText
  <2>. QED BY <2>1, <1>2
<1>4. Url(header) = request.url /\ Version(header) = request.version \o <<"SP">>
  BY <1>2, MarkOfMessage, <1>3, FirstLineOfBeginning
<1>5. PICK told \in Bodies, bytes \in Bodies :
        answer' = [version |-> Version(header), url |-> Url(header), code |-> <<"code">>,
                   keepAlive |-> KeepAlive(Headers(header)),
                   length |-> Len(told), body |-> bytes]
  BY DEF PostProcess
<1>6. IsAnswer(answer', request')
  <2>1. Len(told) \in 0 .. MaxLength
    BY BodyTypes
  <2>. QED BY <2>1, <1>1, <1>4, <1>5 DEF IsAnswer
<1>7. delivered = <<>>
  BY <1>1 DEF ResponseSent
<1>. QED BY <1>1, <1>6, <1>7 DEF ResponseSent, Response

(* A send keeps the invariant of sending.                                   *)
LEMMA SendSomeSends ==
  ASSUME request \in Requests, ResponseSent, SendSome
  PROVE  ResponseSent'
<1>1. /\ state = "sending" /\ left > 0 /\ request' = request /\ state' = state /\ answer' = answer
  BY DEF SendSome
<1>2. PICK n \in PartSizes : SendPart(n)
  BY DEF SendSome
<1>3. PICK text, m, rest : text = Response /\ m = Len(text) /\ rest = m - sent
  OBVIOUS
<1>4. /\ IsAnswer(answer, request) /\ parts \in Nat
      /\ parts = 0 => sent = 0 /\ left = m /\ delivered = <<>>
      /\ parts = 1 => sent \in 1 .. m /\ left = m - sent /\ delivered = Part(text, 0, sent)
  BY <1>1, <1>3 DEF ResponseSent
<1>5. text \in Seq(Symbols) /\ m \in Nat /\ m < SizeT /\ SizeT \in Nat
  BY <1>3, <1>4, ResponseSizes DEF Response
<1>6. /\ delivered' = delivered \o SubSeq(text, sent + 1, sent + n)
      /\ sent' = n /\ left' = (left - n) % SizeT /\ parts' = parts + 1
  BY <1>2, <1>3 DEF SendPart, Response
<1>7. Response' = text
  BY <1>1, <1>3 DEF Response
<1>8. ASSUME sent \in Nat, sent < m PROVE n \in Nat /\ 1 <= n /\ n <= rest
  <2>1. rest \in Nat /\ 1 <= rest
    BY <1>3, <1>5, <1>8
  <2>2. n \in {i \in Parts : i < rest} \cup {rest}
    BY <1>2, <1>3 DEF PartSizes, Response
  <2>3. Parts \subseteq Nat \ {0}
    BY NumbersAreNat
  <2>. QED BY <2>1, <2>2, <2>3
<1>9. CASE parts = 0
  <2>1. sent = 0 /\ left = m /\ delivered = <<>> /\ sent \in Nat /\ sent < m
    BY <1>1, <1>4, <1>5, <1>9
  <2>2. n \in Nat /\ 1 <= n /\ n <= m
    BY <2>1, <1>3, <1>5, <1>8
  <2>3. left' = m - n
    <3>1. m - n \in 0 .. SizeT - 1
      BY <2>2, <1>5
    <3>. QED BY <3>1, <2>1, <1>5, <1>6
  <2>4. delivered' = Part(text, 0, n)
    <3>1. Part(text, 0, n) \in Seq(Symbols)
      BY <2>2, <1>3, <1>5, PartIs DEF IsPart
    <3>2. SubSeq(text, sent + 1, sent + n) = Part(text, 0, n)
      <4>1. sent + 1 = 0 + 1 /\ sent + n = n
        BY <2>1, <2>2
      <4>. QED BY <4>1 DEF Part
    <3>3. <<>> \o Part(text, 0, n) = Part(text, 0, n)
      BY <3>1, ConcatEmptySeq
    <3>. QED BY <3>2, <3>3, <2>1, <1>6
  <2>5. parts' = 1 /\ sent' \in 1 .. m
    BY <2>2, <1>5, <1>6, <1>9
  <2>. QED BY <2>3, <2>4, <2>5, <1>1, <1>3, <1>4, <1>6, <1>7 DEF ResponseSent
<1>10. CASE parts = 1
  <2>1. sent \in 1 .. m /\ left = m - sent /\ delivered = Part(text, 0, sent)
        /\ sent \in Nat /\ sent < m
    BY <1>1, <1>4, <1>5, <1>10
  <2>2. n \in Nat /\ 1 <= n /\ n <= m - sent
    BY <2>1, <1>3, <1>8
  <2>3. PICK end : end = sent + n
    OBVIOUS
  <2>4. end \in Nat /\ sent <= end /\ end <= m /\ 0 <= sent /\ m - (m - end) = end
        /\ m - end \in 0 .. m
    BY <2>1, <2>2, <2>3, <1>5
  <2>5. left' = m - end
    <3>1. PICK d : d = left - n
      OBVIOUS
    <3>2. d = m - end
      <4>1. left = m - sent
        BY <2>1
      <4>2. n \in Nat /\ sent \in Nat
        BY <2>1, <2>2
      <4>. QED BY <4>1, <4>2, <3>1, <2>3, <1>5
    <3>3. d \in 0 .. SizeT - 1
      BY <3>2, <2>4, <1>5
    <3>4. left' = d % SizeT
      BY <3>1, <1>6
    <3>. QED BY <3>2, <3>3, <3>4, <1>5
  <2>6. delivered' = Part(text, 0, end)
    <3>1. delivered' = delivered \o Part(text, sent, end)
      BY <2>3, <1>6, Zenon DEF Part
    <3>2. Part(text, 0, sent) \o Part(text, sent, end) = Part(text, 0, end)
      <4>1. sent \in Nat /\ end \in Nat /\ 0 <= sent /\ sent <= end /\ 0 \in Nat
        BY <2>1, <2>4
      <4>2. end <= Len(text) /\ text \in Seq(Symbols)
        BY <2>4, <1>3, <1>5
      <4>. QED BY <4>1, <4>2, JoinedParts
    <3>3. delivered = Part(text, 0, sent)
      BY <2>1
    <3>. QED BY <3>1, <3>2, <3>3, Zenon
  <2>7. parts' = 2
    BY <1>6, <1>10
  <2>. QED BY <2>4, <2>5, <2>6, <2>7, <1>1, <1>3, <1>4, <1>7 DEF ResponseSent
<1>11. CASE parts # 0 /\ parts # 1
  <2>1. parts' \in Nat /\ parts' # 0 /\ parts' # 1 /\ parts' # 2
    BY <1>4, <1>6, <1>11
  <2>. QED BY <2>1, <1>1, <1>4 DEF ResponseSent
<1>. QED BY <1>9, <1>10, <1>11

(* So does a step that leaves the response alone.                           *)
LEMMA SentStays ==
  ASSUME ResponseSent, request' = request, UNCHANGED sending,
         \/ state' = state \/ state' = "failed"
         \/ state = "receiving" /\ state' = "complete"
         \/ state = "sending" /\ left = 0 /\ state' = "sent"
  PROVE  ResponseSent'
<1>1. /\ answer' = answer /\ left' = left /\ sent' = sent /\ parts' = parts
      /\ delivered' = delivered
  BY DEF sending
<1>2. Response' = Response
  BY <1>1 DEF Response
<1>. QED BY <1>1, <1>2 DEF ResponseSent

(* Receiving leaves the request and the response alone.                     *)
LEMMA ReceivingState ==
  ASSUME ReceiveInput
  PROVE  request' = request /\ UNCHANGED sending /\ state' \in {"receiving", "complete", "failed"}
         /\ state = "receiving"
<1>1. state = "receiving" /\ request' = request /\ UNCHANGED sending
  BY DEF ReceiveInput
<1>2. state' \in {"receiving", "complete", "failed"}
  <2>1. ASSUME NEW n, ReceivesPartOfHeader(n) PROVE state' = state
    BY <2>1 DEF ReceivesPartOfHeader
  <2>2. ASSUME NEW n, ReceivesBadHeader(n) PROVE state' = "failed"
    BY <2>2 DEF ReceivesBadHeader
  <2>3. ASSUME NEW n, NEW readable, ReceivesHeader(n, readable) PROVE state' \in {"complete", state}
    BY <2>3 DEF ReceivesHeader, RecvBodyAsync
  <2>4. ASSUME NEW readable, ReceivesBody(readable) PROVE state' \in {"complete", state}
    BY <2>4 DEF ReceivesBody, RecvBodyAsync
  <2>. QED BY <2>1, <2>2, <2>3, <2>4, <1>1 DEF ReceiveInput
<1>. QED BY <1>1, <1>2

(* Every step of a connection keeps the invariant of sending.               *)
LEMMA SentNext ==
  ReceivedInv /\ ResponseSent /\ [ConnectionNext]_connectionVars => ResponseSent'
<1>. SUFFICES ASSUME ReceivedInv, ResponseSent, [ConnectionNext]_connectionVars
              PROVE  ResponseSent'
  OBVIOUS
<1>1. CASE ReceiveInput
  BY <1>1, ReceivingState, SentStays
<1>2. CASE Dropped
  BY <1>2, SentStays DEF Dropped
<1>3. CASE PostProcess
  BY <1>3, PostProcessAnswers
<1>4. CASE SendSome
  <2>1. request \in Requests
    BY DEF ReceivedInv, ReceivedTypes
  <2>. QED BY <2>1, <1>4, SendSomeSends
<1>5. CASE SendReturns
  BY <1>5, SentStays DEF SendReturns
<1>6. CASE SendThrows
  BY <1>6, SentStays DEF SendThrows
<1>7. CASE UNCHANGED connectionVars
  BY <1>7, SentStays DEF connectionVars
<1>. QED BY <1>1, <1>2, <1>3, <1>4, <1>5, <1>6, <1>7 DEF ConnectionNext

(* A response that was sent in one or two parts has been delivered. *)
LEMMA SentIsDelivered ==
  request \in Requests /\ ResponseSent /\ state = "sent" /\ parts <= 2
    => IsAnswer(answer, request) /\ delivered = Response
<1>. SUFFICES ASSUME request \in Requests, ResponseSent, state = "sent", parts <= 2
              PROVE  IsAnswer(answer, request) /\ delivered = Response
  OBVIOUS
<1>1. PICK text, m : text = Response /\ m = Len(text)
  OBVIOUS
<1>2. /\ IsAnswer(answer, request) /\ parts \in Nat /\ left = 0
      /\ parts = 0 => left = m
      /\ parts = 1 => sent \in 1 .. m /\ left = m - sent /\ delivered = Part(text, 0, sent)
      /\ parts = 2 => delivered = Part(text, 0, m - left)
  BY <1>1 DEF ResponseSent
<1>3. text \in Seq(Symbols) /\ m \in Nat /\ m > 0
  <2>1. PICK at, k : at = ResponseMark(request) /\ k = Len(answer.body)
    OBVIOUS
  <2>2. text \in Seq(Symbols) /\ at \in Nat /\ k \in Nat /\ m = at + 3 + k
    BY <2>1, <1>1, <1>2, ResponseSizes, DecimalAssumption DEF Response
  <2>. QED BY <2>2
<1>4. parts = 1 \/ parts = 2
  BY <1>2, <1>3
<1>5. delivered = Part(text, 0, m)
  <2>1. CASE parts = 1
    <3>1. sent = m
      BY <2>1, <1>2, <1>3
    <3>. QED BY <3>1, <2>1, <1>2
  <2>2. CASE parts = 2
    <3>1. m - left = m
      BY <1>2, <1>3
    <3>. QED BY <3>1, <2>2, <1>2
  <2>. QED BY <2>1, <2>2, <1>4
<1>. QED BY <1>1, <1>2, <1>3, <1>5, WholePart

-----------------------------------------------------------------------------
(* The invariant of reading a response *)

(* What RecvHeader has read up to the place e, which is behind the mark.     *)
FoundAt(e) ==
  /\ e \in Nat /\ ResponseMark(request) + 3 <= e /\ e <= consumed
  /\ result = Part(Response, 0, e) /\ peerBody = Part(Response, e, consumed)

(* The client has read the response as far as it came. *)
ReadSoFar ==
  /\ peerPc \in {"header", "found", "body", "done", "failed"}
  /\ consumed \in Nat /\ consumed <= Len(Response)
  /\ peerPc = "header" =>
       consumed < ResponseMark(request) + 3 /\ result = Part(Response, 0, consumed)
  /\ peerPc = "found" => \E e : FoundAt(e)
  /\ peerPc \in {"body", "done"} =>
       /\ ResponseMark(request) + 3 <= consumed
       /\ peerHeader = Part(Response, 0, ResponseMark(request) + 1)
       /\ peerBody = Part(Response, ResponseMark(request) + 3, consumed)
       /\ peerLength = SentLength(answer)
  /\ peerPc = "done" => consumed = Len(Response) /\ peerLength = Len(answer.body)
  /\ peerPc = "failed" => answer.body = <<>> /\ answer.length > 0

(* The invariant of reading a response; nothing is read before it is sent.  *)
ResponseReading ==
  /\ state # "sent" => peerPc = "header" /\ consumed = 0 /\ result = <<>>
  /\ state = "sent" /\ parts <= 2 => ReadSoFar

(* The response is there to be read. *)
Readable == request \in Requests /\ IsAnswer(answer, request) /\ delivered = Response

(* The response that is there to be read, by its sizes.                     *)
LEMMA ReadableText ==
  ASSUME Readable, NEW at, at = ResponseMark(request)
  PROVE  /\ Response \in Seq(Symbols) /\ Framed(Response, StatusEnd(request), 5)
         /\ at = MarkAt(StatusEnd(request), 5)
         /\ at \in Nat /\ 1 <= at /\ Len(answer.body) \in 0 .. MaxLength /\ Len(Response) \in Nat
         /\ Len(Response) = at + 3 + Len(answer.body) /\ Len(Response) < SizeT /\ SizeT \in Nat
BY ResponseSizes DEF Readable, Response

(* A piece of the header keeps the invariant of reading.                    *)
LEMMA ReceivesPieceReads ==
  ASSUME Readable, ReadSoFar, NEW n \in PieceSizes, ReceivesPiece(n), UNCHANGED connectionVars
  PROVE  ReadSoFar'
<1>1. PICK text, m, at, c, d, line, h :
        /\ text = Response /\ m = Len(text) /\ at = ResponseMark(request) /\ c = consumed
        /\ d = c + n /\ line = StatusEnd(request) /\ h = at + 3
  OBVIOUS
<1>2. /\ text \in Seq(Symbols) /\ Framed(text, line, 5) /\ at = MarkAt(line, 5)
      /\ at \in Nat /\ 1 <= at /\ m \in Nat
  BY <1>1, ReadableText
<1>3. h \in Nat /\ h = at + 3
  BY <1>1, <1>2
<1>4. /\ c \in Nat /\ c <= m /\ c < h /\ result = Part(text, 0, c)
  BY <1>1 DEF ReadSoFar, ReceivesPiece
<1>5. n \in Nat /\ 1 <= n /\ c + n <= m
  <2>1. PICK u : u = m - c
    OBVIOUS
  <2>2. Pieces \subseteq 1 .. Chunk /\ Chunk \in Nat
    BY PiecesAreChunks, NumbersAreNat
  <2>3. n \in {i \in Pieces : i < u} \cup (1 .. Chunk \cap {u})
    BY <2>1, <1>1 DEF Unread, Readable, PieceSizes
  <2>4. n \in 1 .. Chunk /\ n <= u
    BY <2>1, <1>2, <1>4, <2>2, <2>3
  <2>. QED BY <2>1, <2>2, <2>4, <1>2, <1>4
<1>6. d \in Nat /\ c <= d /\ d <= m
  BY <1>1, <1>4, <1>5
<1>7. PICK buffer : buffer = SubSeq(delivered, c + 1, c + n)
  OBVIOUS
<1>8. /\ peerPc = "header" /\ consumed' = d
      /\ result' = result \o BeforeNul(buffer)
      /\ peerBody' = FromNul(buffer)
      /\ peerPc' = IF FromNul(buffer) # <<>> \/ EndMark(result').at # 0 THEN "found" ELSE "header"
  BY <1>1, <1>7 DEF ReceivesPiece, Searches
<1>9. d <= Len(text)
  BY <1>1, <1>6
<1>10. IsPart(buffer, text, c, d)
  BY <1>2, <1>4, <1>6, <1>1, <1>7, <1>9, PartIs DEF Part, Readable
<1>11. PICK e \in Nat :
         /\ c <= e /\ e <= d
         /\ BeforeNul(buffer) = Part(text, c, e) /\ FromNul(buffer) = Part(text, e, d)
         /\ e < d => e >= at + 3
  BY <1>2, <1>9, <1>10, NulInPart
<1>12. e <= Len(text) /\ 0 \in Nat /\ 0 <= c /\ 0 <= e /\ 0 < at
  BY <1>2, <1>4, <1>6, <1>9, <1>11
<1>13. result' = Part(text, 0, e)
  <2>1. Part(text, 0, c) \o Part(text, c, e) = Part(text, 0, e)
    BY <1>2, <1>4, <1>11, <1>12, JoinedParts
  <2>. QED BY <2>1, <1>4, <1>8, <1>11
<1>14. /\ Response' = text /\ ResponseMark(request)' = at /\ Len(text) = m
  BY <1>1 DEF connectionVars, sending, Response
<1>15. CASE e >= at + 3
  <2>1. EndMark(result').at = at
    <3>1. at + 3 <= e
      BY <1>2, <1>11, <1>15
    <3>. QED BY <3>1, <1>2, <1>11, <1>12, <1>13, HeadSplits
  <2>2. peerPc' = "found"
    BY <2>1, <1>2, <1>8
  <2>3. \E x : FoundAt(x)'
    BY <1>2, <1>8, <1>11, <1>13, <1>14, <1>15 DEF FoundAt
  <2>. QED BY <2>2, <2>3, <1>6, <1>8, <1>14 DEF ReadSoFar
<1>16. CASE ~(e >= at + 3)
  <2>1. e = d
    BY <1>6, <1>11, <1>16
  <2>2. EndMark(result').at = 0
    <3>1. e < at + 3
      BY <1>2, <1>11, <1>16
    <3>2. IsPart(result', text, 0, e)
      BY <1>2, <1>11, <1>12, <1>13, PartIs
    <3>. QED BY <3>1, <3>2, <1>2, <1>12, MarkInPart
  <2>3. peerPc' = "header"
    BY <2>1, <1>6, <1>11, NoPart, <2>2, <1>8
  <2>4. d < at + 3 /\ result' = Part(text, 0, d)
    BY <2>1, <1>2, <1>6, <1>13, <1>16
  <2>. QED BY <2>3, <2>4, <1>6, <1>8, <1>14 DEF ReadSoFar
<1>. QED BY <1>15, <1>16

(* The header that RecvHeader returns. *)
LEMMA FindsHeaderReads ==
  ASSUME Readable, ReadSoFar, FindsHeader, UNCHANGED connectionVars
  PROVE  ReadSoFar'
<1>1. PICK text, at, h, c :
        text = Response /\ at = ResponseMark(request) /\ h = at + 3 /\ c = consumed
  OBVIOUS
<1>2. /\ text \in Seq(Symbols) /\ Framed(text, StatusEnd(request), 5)
      /\ at = MarkAt(StatusEnd(request), 5) /\ at \in Nat
  BY <1>1, ReadableText
<1>3. /\ peerPc = "found" /\ peerPc' = "body" /\ consumed' = c
      /\ peerHeader' = UpToMark(result)
      /\ peerBody' = AfterMark(result) \o peerBody
      /\ peerLength' = ContentLength(ExtractHeaders(peerHeader'))
  BY <1>1 DEF FindsHeader
<1>4. PICK e : FoundAt(e)
  BY <1>3 DEF ReadSoFar
<1>5. /\ e \in Nat /\ h <= e /\ e <= c /\ result = Part(text, 0, e) /\ peerBody = Part(text, e, c)
  BY <1>1, <1>4 DEF FoundAt
<1>6. c \in Nat /\ c <= Len(text) /\ e <= Len(text) /\ h \in Nat /\ h <= c
  <2>1. c \in Nat /\ c <= Len(text)
    BY <1>1 DEF ReadSoFar
  <2>2. Len(text) \in Nat
    BY <1>2, LengthIsNat
  <2>. QED BY <2>1, <2>2, <1>1, <1>2, <1>5
<1>7. UpToMark(result) = Part(text, 0, at + 1) /\ AfterMark(result) = Part(text, h, e)
  <2>1. at + 3 <= e
    BY <1>1, <1>5
  <2>. QED BY <2>1, <1>1, <1>2, <1>5, <1>6, HeadSplits
<1>8. peerBody' = Part(text, h, c)
  <2>1. Part(text, h, e) \o Part(text, e, c) = Part(text, h, c)
    BY <1>2, <1>5, <1>6, JoinedParts
  <2>. QED BY <2>1, <1>3, <1>5, <1>7
<1>9. peerHeader' = Part(text, 0, ResponseMark(request) + 1)
  BY <1>1, <1>3, <1>7
<1>10. peerLength' = SentLength(answer)
  <2>1. request \in Requests /\ IsAnswer(answer, request) /\ text = ResponseText(answer)
    BY <1>1 DEF Readable, Response
  <2>. QED BY <2>1, <1>3, <1>9, ResponseHeadIsRead
<1>11. Response' = text /\ ResponseMark(request)' = at /\ answer' = answer
  BY <1>1 DEF connectionVars, sending, Response
<1>. QED BY <1>1, <1>3, <1>6, <1>8, <1>9, <1>10, <1>11 DEF ReadSoFar

(* The client finds no NUL in a header.                                     *)
LEMMA FoundIsInHeader ==
  ASSUME Readable, ReadSoFar, FindsNulInHeader
  PROVE  FALSE
<1>1. PICK text, at : text = Response /\ at = ResponseMark(request)
  OBVIOUS
<1>2. /\ text \in Seq(Symbols) /\ Framed(text, StatusEnd(request), 5)
      /\ at = MarkAt(StatusEnd(request), 5) /\ at \in Nat /\ 1 <= at
  BY <1>1, ReadableText
<1>3. peerPc = "found" /\ EndMark(result).at = 0
  BY DEF FindsNulInHeader
<1>4. PICK e : FoundAt(e)
  BY <1>3 DEF ReadSoFar
<1>5. /\ e \in Nat /\ at + 3 <= e /\ e <= consumed /\ result = Part(text, 0, e)
  BY <1>1, <1>4 DEF FoundAt
<1>6. e <= Len(text)
  <2>1. consumed \in Nat /\ consumed <= Len(text)
    BY <1>1 DEF ReadSoFar
  <2>2. Len(text) \in Nat
    BY <1>2, LengthIsNat
  <2>. QED BY <2>1, <2>2, <1>5
<1>7. EndMark(result).at = at
  BY <1>2, <1>5, <1>6, HeadSplits
<1>. QED BY <1>2, <1>3, <1>7

-----------------------------------------------------------------------------
(* What RecvBody misses, when there is a body, is what is left to be read. *)
LEMMA MissingIs ==
  ASSUME Readable, ReadSoFar, peerPc = "body"
  PROVE  /\ Unread = Len(Response) - consumed /\ Unread \in Nat
         /\ answer.body # <<>> => Missing = Unread
         /\ answer.body = <<>> => Unread = 0 /\ Missing = answer.length /\ answer.length \in Nat
<1>1. PICK text, m, at, h, c, k :
        /\ text = Response /\ m = Len(text) /\ at = ResponseMark(request) /\ h = at + 3
        /\ c = consumed /\ k = Len(answer.body)
  OBVIOUS
<1>2. /\ text \in Seq(Symbols) /\ m \in Nat /\ at \in Nat /\ k \in Nat
      /\ m = at + 3 + k /\ m < SizeT /\ SizeT \in Nat
  BY <1>1, ReadableText, DecimalAssumption
<1>3. h \in Nat /\ m = h + k
  BY <1>1, <1>2
<1>4. c \in Nat /\ c <= m /\ h <= c /\ peerBody = Part(text, h, c) /\ peerLength = SentLength(answer)
  BY <1>1 DEF ReadSoFar
<1>5. Unread = m - c
  BY <1>1 DEF Unread, Readable
<1>6. Len(peerBody) = c - h
  <2>1. IsPart(peerBody, text, h, c)
    BY <1>1, <1>4, <1>2, <1>3, PartIs
  <2>. QED BY <2>1 DEF IsPart
<1>7. Missing = (SentLength(answer) - (c - h)) % SizeT
  BY <1>4, <1>6 DEF Missing
<1>8. CASE answer.body # <<>>
  <2>1. SentLength(answer) = k
    BY <1>1, <1>8, SentLengthIs DEF Readable
  <2>2. PICK d : d = m - c
    OBVIOUS
  <2>3. Missing = d /\ d \in Nat
    BY <2>1, <1>2, <1>3, <1>4, <2>2, <1>7
  <2>. QED BY <2>2, <2>3, <1>1, <1>5, <1>8
<1>9. CASE answer.body = <<>>
  <2>1. SentLength(answer) = answer.length /\ answer.length \in 0 .. MaxLength
    BY <1>9, SentLengthIs DEF Readable, IsAnswer
  <2>2. c = h /\ c = m
    BY <1>1, <1>9, <1>3, <1>4
  <2>3. MaxLength < SizeT /\ MaxLength \in Nat
    <3>1. request \in Requests
      BY DEF Readable
    <3>2. Len(request.version) \in Nat
      BY <3>1, VersionSymbols
    <3>3. Len(request.version) + 33 + MaxLength < SizeT
      BY <3>1, ResponsesFit
    <3>. QED BY <3>2, <3>3, DecimalAssumption, <1>2
  <2>4. PICK d : d = answer.length
    OBVIOUS
  <2>5. d \in 0 .. SizeT - 1 /\ Missing = (d - (c - h)) % SizeT
    BY <2>1, <2>3, <2>4, <1>2, <1>7
  <2>6. Missing = d /\ d \in Nat
    BY <2>5, <2>2, <1>2, <1>3
  <2>7. m - c = 0
    BY <2>2, <1>2
  <2>. QED BY <2>4, <2>6, <2>7, <1>1, <1>5, <1>9
<1>. QED BY <1>8, <1>9

(* RecvBody keeps the invariant of reading.                                 *)
LEMMA RecvBodyReads ==
  ASSUME Readable, ReadSoFar, RecvBody, UNCHANGED connectionVars
  PROVE  ReadSoFar'
<1>1. PICK text, m, at, h, c, k :
        /\ text = Response /\ m = Len(text) /\ at = ResponseMark(request) /\ h = at + 3
        /\ c = consumed /\ k = Missing
  OBVIOUS
<1>2. /\ text \in Seq(Symbols) /\ m \in Nat /\ at \in Nat
  BY <1>1, ReadableText
<1>3. /\ peerPc = "body" /\ k <= Unread /\ peerPc' = "done"
      /\ peerBody' = peerBody \o SubSeq(delivered, c + 1, c + k)
      /\ consumed' = c + k /\ result' = result /\ peerHeader' = peerHeader
      /\ peerLength' = peerLength
  BY <1>1 DEF RecvBody
<1>4. /\ c \in Nat /\ c <= m /\ h <= c /\ peerBody = Part(text, h, c)
      /\ peerLength = SentLength(answer) /\ peerHeader = Part(text, 0, at + 1)
  BY <1>1, <1>3 DEF ReadSoFar
<1>5. /\ Unread = m - c /\ Unread \in Nat
      /\ answer.body # <<>> => k = Unread
      /\ answer.body = <<>> => Unread = 0 /\ k = answer.length /\ answer.length \in Nat
  BY <1>1, <1>3, MissingIs
<1>6. k = m - c /\ peerLength = Len(answer.body)
  <2>1. CASE answer.body # <<>>
    BY <2>1, <1>4, <1>5, SentLengthIs DEF Readable
  <2>2. CASE answer.body = <<>>
    <3>1. k = 0 /\ answer.length = 0 /\ m - c = 0
      BY <2>2, <1>3, <1>5
    <3>2. SentLength(answer) = answer.length
      BY <2>2, SentLengthIs DEF Readable
    <3>3. Len(answer.body) = 0
      BY <2>2
    <3>. QED BY <3>1, <3>2, <3>3, <1>4
  <2>. QED BY <2>1, <2>2
<1>7. consumed' = m /\ h \in Nat /\ h <= m /\ m <= Len(text)
  BY <1>1, <1>2, <1>3, <1>4, <1>6
<1>8. peerBody' = Part(text, h, m)
  <2>1. c + k = m
    BY <1>3, <1>7
  <2>2. peerBody' = Part(text, h, c) \o Part(text, c, m)
    <3>1. SubSeq(delivered, c + 1, m) = Part(text, c, m)
      BY <1>1 DEF Part, Readable
    <3>. QED BY <3>1, <2>1, <1>3, <1>4
  <2>. QED BY <2>2, <1>2, <1>4, <1>7, JoinedParts
<1>9. Response' = text /\ ResponseMark(request)' = at /\ answer' = answer
  BY <1>1 DEF connectionVars, sending, Response
<1>. QED BY <1>1, <1>2, <1>3, <1>4, <1>6, <1>7, <1>8, <1>9 DEF ReadSoFar

(* A recv that fails keeps the invariant of reading.                        *)
LEMMA RecvFailsReads ==
  ASSUME Readable, ReadSoFar, RecvFails, UNCHANGED connectionVars
  PROVE  ReadSoFar'
<1>1. CASE peerPc = "header" /\ Unread = 0
  <2>1. PICK m, at, k, c : /\ m = Len(Response) /\ at = ResponseMark(request)
                           /\ k = Len(answer.body) /\ c = consumed
    OBVIOUS
  <2>2. m = at + 3 + k /\ k \in Nat /\ at \in Nat
    BY <2>1, ReadableText, DecimalAssumption
  <2>3. c \in Nat /\ c < at + 3
    BY <2>1, <1>1 DEF ReadSoFar
  <2>4. m - c = 0
    BY <2>1, <1>1 DEF Unread, Readable
  <2>. QED BY <2>2, <2>3, <2>4
<1>2. CASE peerPc = "body" /\ Missing > Unread
  <2>1. peerPc' = "failed" /\ consumed' = consumed
    BY DEF RecvFails
  <2>2. answer.body = <<>> /\ answer.length > 0
    BY <1>2, MissingIs
  <2>3. Response' = Response /\ answer' = answer
    BY DEF connectionVars, sending, Response
  <2>4. consumed \in Nat /\ consumed <= Len(Response)
    BY DEF ReadSoFar
  <2>. QED BY <2>1, <2>2, <2>3, <2>4 DEF ReadSoFar
<1>. QED BY <1>1, <1>2 DEF RecvFails

(* Nothing has been read of a response that has just been sent. *)
LEMMA ReadingBegins ==
  ASSUME Readable', peerPc' = "header", consumed' = 0, result' = <<>>
  PROVE  ReadSoFar'
<1>1. PICK text, at : text = Response' /\ at = ResponseMark(request')
  OBVIOUS
<1>2. Len(text) \in Nat /\ Part(text, 0, 0) = <<>> /\ 0 < at + 3
  BY <1>1, ResponseSizes, LengthIsNat, NoPart DEF Readable, Response
<1>. QED BY <1>1, <1>2 DEF ReadSoFar

-----------------------------------------------------------------------------
(* The connection and its client *)

(* The invariant of a connection and its client.                            *)
PeerInv == ReceivedInv /\ ResponseSent /\ ResponseReading

(* It holds at first.                                                       *)
LEMMA PeerInitInv == PeerInit => PeerInv
<1>. SUFFICES ASSUME PeerInit PROVE PeerInv
  OBVIOUS
<1>1. ConnectionInit /\ peerPc = "header" /\ consumed = 0 /\ result = <<>>
  BY DEF PeerInit
<1>2. ReceivedInv
  BY <1>1, ReceivedInit
<1>3. state = "receiving" /\ delivered = <<>>
  BY <1>1 DEF ConnectionInit
<1>4. ResponseSent
  BY <1>3 DEF ResponseSent
<1>5. ResponseReading
  BY <1>1, <1>3 DEF ResponseReading
<1>. QED BY <1>2, <1>4, <1>5 DEF PeerInv

(* The steps of the server: only the last of them lets the client read. *)
LEMMA ConnectionKeepsReading ==
  ASSUME PeerInv, ResponseSent', ReceivedInv', ConnectionNext, UNCHANGED reading
  PROVE  ResponseReading'
<1>1. state # "sent" /\ (state' = "sent" => request' = request)
  <2>1. CASE ReceiveInput
    BY <2>1, ReceivingState
  <2>2. CASE Dropped
    BY <2>2 DEF Dropped
  <2>3. CASE PostProcess
    BY <2>3 DEF PostProcess
  <2>4. CASE SendSome
    BY <2>4 DEF SendSome
  <2>5. CASE SendReturns
    BY <2>5 DEF SendReturns
  <2>6. CASE SendThrows
    BY <2>6 DEF SendThrows
  <2>. QED BY <2>1, <2>2, <2>3, <2>4, <2>5, <2>6 DEF ConnectionNext
<1>2. peerPc' = "header" /\ consumed' = 0 /\ result' = <<>>
  BY <1>1 DEF reading, PeerInv, ResponseReading
<1>3. ASSUME state' = "sent", parts' <= 2 PROVE ReadSoFar'
  <2>1. request' \in Requests
    BY DEF ReceivedInv, ReceivedTypes
  <2>2. Readable'
    <3>1. (request \in Requests /\ ResponseSent /\ state = "sent" /\ parts <= 2)'
      BY <2>1, <1>3
    <3>2. (IsAnswer(answer, request) /\ delivered = Response)'
      BY <3>1, SentIsDelivered, PTL
    <3>. QED BY <2>1, <3>2 DEF Readable
  <2>. QED BY <2>2, <1>2, ReadingBegins
<1>. QED BY <1>2, <1>3 DEF ResponseReading

(* The steps of the client keep the invariant of reading.                   *)
LEMMA PeerKeepsReading ==
  ASSUME PeerInv, PeerReads
  PROVE  ResponseReading'
<1>1. state = "sent" /\ UNCHANGED connectionVars
  BY DEF PeerReads
<1>2. state' = "sent" /\ parts' = parts
  BY <1>1 DEF connectionVars, sending
<1>3. ASSUME parts <= 2 PROVE ReadSoFar'
  <2>1. request \in Requests /\ ResponseSent /\ ReadSoFar
    BY <1>1, <1>3 DEF PeerInv, ReceivedInv, ReceivedTypes, ResponseReading
  <2>2. Readable
    BY <2>1, <1>1, <1>3, SentIsDelivered DEF Readable
  <2>3. ASSUME NEW n \in PieceSizes, ReceivesPiece(n) PROVE ReadSoFar'
    BY <2>1, <2>2, <2>3, <1>1, ReceivesPieceReads
  <2>4. CASE FindsHeader
    BY <2>1, <2>2, <2>4, <1>1, FindsHeaderReads
  <2>5. CASE FindsNulInHeader
    BY <2>1, <2>2, <2>5, FoundIsInHeader
  <2>6. CASE RecvBody
    BY <2>1, <2>2, <2>6, <1>1, RecvBodyReads
  <2>7. CASE RecvFails
    BY <2>1, <2>2, <2>7, <1>1, RecvFailsReads
  <2>. QED BY <2>3, <2>4, <2>5, <2>6, <2>7 DEF PeerReads
<1>. QED BY <1>2, <1>3 DEF ResponseReading

(* Every step of the connection and its client keeps their invariant.       *)
LEMMA PeerNextInv == PeerInv /\ [PeerNext]_peerVars => PeerInv'
<1>. SUFFICES ASSUME PeerInv, [PeerNext]_peerVars PROVE PeerInv'
  OBVIOUS
<1>1. ReceivedInv' /\ ResponseSent'
  BY ReceivedNext, SentNext DEF PeerNext, PeerReads, peerVars, PeerInv
<1>2. CASE ConnectionNext /\ UNCHANGED reading
  BY <1>1, <1>2, ConnectionKeepsReading DEF PeerInv
<1>3. CASE PeerReads
  BY <1>1, <1>3, PeerKeepsReading DEF PeerInv
<1>4. CASE UNCHANGED peerVars
  <2>1. /\ request' = request /\ state' = state /\ answer' = answer /\ parts' = parts
        /\ UNCHANGED reading
    BY <1>4 DEF peerVars, connectionVars, sending
  <2>2. /\ peerPc' = peerPc /\ consumed' = consumed /\ result' = result
        /\ peerHeader' = peerHeader /\ peerBody' = peerBody /\ peerLength' = peerLength
    BY <2>1 DEF reading
  <2>3. ResponseReading'
    BY <2>1, <2>2 DEF PeerInv, ResponseReading, ReadSoFar, FoundAt, Response
  <2>. QED BY <2>3, <1>1 DEF PeerInv
<1>. QED BY <1>2, <1>3, <1>4 DEF PeerNext

(* The invariant says that responses are read as they were written.         *)
LEMMA ReadingIsRead == PeerInv => ResponseIsRead
<1>. SUFFICES ASSUME PeerInv, state = "sent", parts <= 2
              PROVE  /\ delivered = ResponseText(answer)
                     /\ peerPc = "done" =>
                          /\ peerBody = answer.body
                          /\ peerLength = Len(answer.body)
                          /\ ExtractHeaders(peerHeader)[<<"Content-type">>] = <<ContentType(answer.url)>>
                          /\ Unread = 0
                     /\ peerPc = "failed" =>
                          answer.version = <<>> \/ (answer.body = <<>> /\ answer.length > 0)
  BY DEF ResponseIsRead
<1>1. request \in Requests /\ ResponseSent /\ ReadSoFar
  BY DEF PeerInv, ReceivedInv, ReceivedTypes, ResponseReading
<1>2. Readable
  BY <1>1, SentIsDelivered DEF Readable
<1>3. delivered = ResponseText(answer)
  BY <1>2 DEF Readable, Response
<1>4. ASSUME peerPc = "done"
      PROVE  /\ peerBody = answer.body
             /\ peerLength = Len(answer.body)
             /\ ExtractHeaders(peerHeader)[<<"Content-type">>] = <<ContentType(answer.url)>>
             /\ Unread = 0
  <2>1. PICK text, m, at, h, k :
          /\ text = Response /\ m = Len(text) /\ at = ResponseMark(request) /\ h = at + 3
          /\ k = Len(answer.body)
    OBVIOUS
  <2>2. /\ text \in Seq(Symbols) /\ m \in Nat /\ at \in Nat /\ k \in Nat /\ m = at + 3 + k
    BY <2>1, <1>2, ReadableText, DecimalAssumption
  <2>3. /\ peerHeader = Part(text, 0, ResponseMark(request) + 1)
        /\ peerBody = Part(text, h, m) /\ consumed = m /\ peerLength = k
    BY <2>1, <1>1, <1>4 DEF ReadSoFar
  <2>4. peerBody = answer.body
    <3>1. h \in Nat /\ h <= m /\ m <= Len(text) /\ m - h = k
      BY <2>1, <2>2
    <3>2. IsPart(peerBody, text, h, m)
      BY <2>2, <2>3, <3>1, PartIs
    <3>3. peerBody \in Seq(Symbols) /\ Len(peerBody) = k /\ \A i \in 1 .. k : peerBody[i] = text[h + i]
      BY <3>1, <3>2 DEF IsPart
    <3>4. IsResponse(text, answer, request)
      BY <2>1, <1>2, ResponseShape DEF Readable, Response
    <3>5. \A i \in 1 .. k : text[h + i] = answer.body[i]
      BY <2>1, <3>4 DEF IsResponse
    <3>6. answer.body \in Seq(Symbols)
      BY <1>2, BodyTypes DEF Readable, IsAnswer
    <3>. QED BY <2>1, <3>3, <3>5, <3>6, SameText
  <2>5. ExtractHeaders(peerHeader)[<<"Content-type">>] = <<ContentType(answer.url)>>
    <3>1. request \in Requests /\ IsAnswer(answer, request) /\ text = ResponseText(answer)
      BY <2>1, <1>2 DEF Readable, Response
    <3>. QED BY <3>1, <2>3, ResponseHeadIsRead
  <2>6. Unread = 0
    <3>1. Unread = m - consumed
      BY <2>1, <1>2 DEF Unread, Readable
    <3>. QED BY <3>1, <2>2, <2>3
  <2>. QED BY <2>1, <2>3, <2>4, <2>5, <2>6
<1>5. peerPc = "failed" => answer.body = <<>> /\ answer.length > 0
  BY <1>1 DEF ReadSoFar
<1>. QED BY <1>3, <1>4, <1>5

(* For every request, body and split into chunks and pieces: the server has *)
(* of the request what came, as far as no NUL cut it, the client of the     *)
(* response what it was sent, and both have read it so far                  *)
(* (RecvHeaderAsync, RecvBodyAsync, SendResponse; RecvHeader, RecvBody).    *)
THEOREM ConnectionInvariance == PeerSpec => []PeerInv
BY PeerInitInv, PeerNextInv, PTL DEF PeerSpec

(* HttpRequest reads the request that HttpRequestCreator wrote and          *)
(* HTTPClient's receiving calls took apart, for every request.              *)
THEOREM RequestsAreRead == PeerSpec => []RequestIsRead
<1>1. PeerInv => RequestIsRead
  BY ReceivedIsRead DEF PeerInv
<1>. QED BY <1>1, ConnectionInvariance, PTL

(* A request that has come as a whole is complete: the connection waits for *)
(* nothing more, for every request.                                         *)
THEOREM RequestsAreRecognised == PeerSpec => []WholeRequestIsRecognised
<1>1. PeerInv => WholeRequestIsRecognised
  BY ReceivedIsRecognised DEF PeerInv
<1>. QED BY <1>1, ConnectionInvariance, PTL

(* HTTPClient's RecvHeader and RecvBody and HttpResponseReader read the     *)
(* response that HttpResponse wrote, for every answer.                      *)
THEOREM ResponsesAreRead == PeerSpec => []ResponseIsRead
BY ReadingIsRead, ConnectionInvariance, PTL

=============================================================================
