---------------------------- MODULE ParsingProofs ---------------------------
(***************************************************************************)
(* Theorems about what a line is read with: the time it is given           *)
(* (TimeResolver) and the library of its patterns (PatternLibrary).        *)
(*                                                                         *)
(* For the resolver, the parts of a time come first: Composed and          *)
(* WholeYears put it together again.  A line is then dated as it was       *)
(* written, or by the year or the day before (AsWritten), and the roll     *)
(* over finds the time.                                                    *)
(*                                                                         *)
(* For the library, the first part says what becomes of the requests when  *)
(* one is sent, goes on or ends; the rest needs only that.                 *)
(***************************************************************************)
EXTENDS TimeResolver, PatternLibrary, SequenceTheorems, TLAPS

-----------------------------------------------------------------------------
(* Whole numbers.                                                          *)

LEMMA Division ==
    ASSUME NEW a \in Nat, NEW n \in Nat, n > 0
    PROVE  /\ a \div n \in Nat /\ a % n \in Nat /\ a % n < n
           /\ a = (a \div n) * n + (a % n)
<1>1. a = n * (a \div n) + (a % n) /\ a % n \in 0 .. (n - 1)
  OBVIOUS
<1>2. a \div n \in Nat
  OBVIOUS
<1>3. n * (a \div n) = (a \div n) * n
  OBVIOUS
<1> QED
  BY <1>1, <1>2, <1>3

(* A quotient and a remainder are the only ones.                           *)
LEMMA OneQuotient ==
    ASSUME NEW n \in Nat, NEW q \in Int, NEW p \in Int, NEW r \in Nat, NEW s \in Nat,
           n > 0, r < n, s < n, q * n + r = p * n + s
    PROVE  q = p /\ r = s
<1>1. \A x \in Int, y \in Int : x < y => x * n + n <= y * n
  <2>1. SUFFICES ASSUME NEW x \in Int, NEW y \in Int, x < y
                 PROVE  x * n + n <= y * n
    OBVIOUS
  <2>2. PICK z \in Nat : y = (x + 1) + z
    <3>1. (y - (x + 1)) \in Nat /\ y = (x + 1) + (y - (x + 1))
      BY <2>1
    <3> QED
      BY <3>1
  <2>3. y * n = x * n + n + z * n
    BY <2>2
  <2>4. z * n \in Nat /\ x * n \in Int
    OBVIOUS
  <2> QED
    BY <2>3, <2>4
<1>2. PICK u \in Int, v \in Int : u = q * n /\ v = p * n
  OBVIOUS
<1>3. ~(q < p)
  <2>1. q < p => u + n <= v
    BY <1>1, <1>2
  <2> QED
    BY <1>2, <2>1
<1>4. ~(p < q)
  <2>1. p < q => v + n <= u
    BY <1>1, <1>2
  <2> QED
    BY <1>2, <2>1
<1>5. q = p
  BY <1>3, <1>4
<1> QED
  BY <1>2, <1>5

(* Quotients are in the order of the numbers, and close if these are.      *)
LEMMA CloseQuotients ==
    ASSUME NEW n \in Nat, n > 0, NEW a \in Nat, NEW b \in Nat, a <= b
    PROVE  /\ a \div n <= b \div n
           /\ b - a < n => b \div n \in {a \div n, (a \div n) + 1}
<1>1. PICK q \in Nat, r \in Nat, p \in Nat, s \in Nat :
        /\ q = a \div n /\ r = a % n /\ p = b \div n /\ s = b % n
        /\ r < n /\ s < n /\ a = q * n + r /\ b = p * n + s
  BY Division
<1>2. \A x \in Nat, y \in Nat : x < y => x * n + n <= y * n
  <2>1. SUFFICES ASSUME NEW x \in Nat, NEW y \in Nat, x < y
                 PROVE  x * n + n <= y * n
    OBVIOUS
  <2>2. PICK z \in Nat : y = (x + 1) + z
    <3>1. (y - (x + 1)) \in Nat /\ y = (x + 1) + (y - (x + 1))
      BY <2>1
    <3> QED
      BY <3>1
  <2>3. y * n = x * n + n + z * n
    BY <2>2
  <2>4. z * n \in Nat /\ x * n \in Nat
    OBVIOUS
  <2> QED
    BY <2>3, <2>4
<1>3. PICK u \in Nat, v \in Nat, w \in Nat : u = q * n /\ v = p * n /\ w = (q + 1) * n
  OBVIOUS
<1>4. w = u + n
  BY <1>3
<1>5. q <= p
  <2>1. p < q => v + n <= u
    BY <1>2, <1>3
  <2> QED
    BY <1>1, <1>3, <2>1
<1>6. b - a < n => p \in {q, q + 1}
  <2>1. q + 1 < p => w + n <= v
    BY <1>2, <1>3
  <2> QED
    BY <1>1, <1>3, <1>4, <1>5, <2>1
<1> QED
  BY <1>1, <1>5, <1>6

-----------------------------------------------------------------------------
(* Times.                                                                  *)

LEMMA Calendar ==
    /\ HoursPerDay \in Nat /\ HoursPerYear \in Nat /\ Century \in Nat
    /\ DayGap \in Nat /\ YearGap \in Nat /\ FutureSlack \in Nat /\ MaxTime \in Nat
    /\ HoursPerDay > 0 /\ HoursPerYear > 0 /\ Century > 0
    /\ DayGap < HoursPerDay /\ HoursPerDay <= YearGap
    /\ HoursPerYear % HoursPerDay = 0
BY CalendarAssumption, SettingsAssumption

(* A year holds whole days.                                                *)
LEMMA DaysOfAYear ==
    \E days \in Nat : HoursPerYear = days * HoursPerDay
<1>1. PICK days \in Nat : days = HoursPerYear \div HoursPerDay
  BY Calendar, Division
<1>2. HoursPerYear = days * HoursPerDay + 0
  BY <1>1, Calendar, Division
<1>3. days * HoursPerDay \in Nat
  BY Calendar
<1> QED
  BY <1>2, <1>3

(* A time is that of its day, and of its year, date and clock.             *)
LEMMA PartsOfATime ==
    ASSUME NEW t \in Nat
    PROVE  /\ Year(t) \in Nat /\ Date(t) \in Nat /\ Day(t) \in Nat /\ Clock(t) \in Nat
           /\ t = Day(t) * HoursPerDay + Clock(t)
           /\ Year(t) * HoursPerYear + Date(t) * HoursPerDay = Day(t) * HoursPerDay
<1>1. PICK H \in Nat, D \in Nat, days \in Nat :
        /\ H = HoursPerYear /\ D = HoursPerDay /\ H = days * D /\ H > 0 /\ D > 0
  BY Calendar, DaysOfAYear
<1>2. PICK y \in Nat, rest \in Nat : /\ y = t \div H /\ rest = t % H /\ t = y * H + rest
  BY <1>1, Division
<1>3. PICK d \in Nat, c \in Nat :
        d = rest \div D /\ c = rest % D /\ rest = d * D + c /\ c < D
  BY <1>1, Division
<1>4. PICK day \in Nat, clock \in Nat :
        day = t \div D /\ clock = t % D /\ t = day * D + clock /\ clock < D
  BY <1>1, Division
<1>5. PICK q \in Nat : q = y * days + d
  <2>1. y * days \in Nat
    OBVIOUS
  <2> QED
    BY <2>1
<1>6. q * D = y * H + d * D
  <2>1. q * D = (y * days) * D + d * D
    BY <1>5
  <2>2. (y * days) * D = y * (days * D)
    OBVIOUS
  <2> QED
    BY <1>1, <2>1, <2>2
<1>7. q * D + c = day * D + clock
  <2>1. PICK u \in Nat, v \in Nat, w \in Nat, x \in Nat :
          u = y * H /\ v = d * D /\ w = q * D /\ x = day * D
    OBVIOUS
  <2>2. t = u + rest /\ rest = v + c /\ t = x + clock /\ w = u + v
    BY <1>2, <1>3, <1>4, <1>6, <2>1
  <2>3. w + c = x + clock
    BY <2>2
  <2> QED
    BY <2>1, <2>3
<1>8. q = day /\ c = clock
  BY <1>1, <1>3, <1>4, <1>7, OneQuotient
<1>9. /\ Year(t) = y /\ Date(t) = d /\ Day(t) = day /\ Clock(t) = clock
  BY <1>1, <1>2, <1>3, <1>4 DEF Year, Date, Day, Clock
<1> QED
  BY <1>1, <1>4, <1>6, <1>8, <1>9

(* Putting a time together from its parts.                                 *)
LEMMA Composed ==
    ASSUME NEW t \in Nat
    PROVE  /\ Compose(Year(t), Date(t), Clock(t)) = t
           /\ \A clock \in Nat : Compose(Year(t), Date(t), clock) = Day(t) * HoursPerDay + clock
<1>1. PICK a \in Nat, b \in Nat, e \in Nat, clock \in Nat :
        /\ a = Year(t) * HoursPerYear /\ b = Date(t) * HoursPerDay
        /\ e = Day(t) * HoursPerDay /\ clock = Clock(t)
        /\ t = e + clock /\ a + b = e
  <2>1. /\ Year(t) \in Nat /\ Date(t) \in Nat /\ Day(t) \in Nat /\ Clock(t) \in Nat
        /\ t = Day(t) * HoursPerDay + Clock(t)
        /\ Year(t) * HoursPerYear + Date(t) * HoursPerDay = Day(t) * HoursPerDay
    BY PartsOfATime
  <2>2. /\ Year(t) * HoursPerYear \in Nat /\ Date(t) * HoursPerDay \in Nat
        /\ Day(t) * HoursPerDay \in Nat
    BY <2>1, Calendar
  <2> QED
    BY <2>1, <2>2
<1> QED
  BY <1>1 DEF Compose

(* Whole years and days later.                                             *)
LEMMA WholeYears ==
    ASSUME NEW t \in Nat, NEW years \in Int
    PROVE  Compose(Year(t) + years, Date(t), Clock(t)) = t + years * HoursPerYear
<1>1. PICK y \in Nat, H \in Nat, b \in Nat, clock \in Nat :
        y = Year(t) /\ H = HoursPerYear /\ b = Date(t) * HoursPerDay /\ clock = Clock(t)
  <2>1. /\ Year(t) \in Nat /\ Date(t) \in Nat /\ Clock(t) \in Nat
    BY PartsOfATime
  <2>2. Date(t) * HoursPerDay \in Nat
    BY <2>1, Calendar
  <2> QED
    BY <2>1, <2>2, Calendar
<1>2. PICK a \in Nat, k \in Int : a = y * H /\ k = years * H
  OBVIOUS
<1>3. (y + years) * H = a + k
  BY <1>2
<1>4. t = a + b + clock
  BY <1>1, <1>2, Composed DEF Compose
<1>5. Compose(Year(t) + years, Date(t), Clock(t)) = a + k + b + clock
  BY <1>1, <1>3 DEF Compose
<1> QED
  BY <1>1, <1>2, <1>4, <1>5

-----------------------------------------------------------------------------
(* Resolving a line.                                                       *)

(* What a resolver, and the times it holds, stay true to.                  *)
Settled ==
    /\ ResolverTypeOK
    /\ hint = "look" => resolution.rollover
    /\ hint = "never" => ~resolution.rollover
    /\ truth # Unset => stamp = truth /\ prev = truth
    /\ (synthetic /\ truth # Unset) => truth = Anchored

LEMMA TimesAreNumbers ==
    ASSUME NEW t \in Time
    PROVE  t \in Nat /\ t \in 0 .. MaxTime /\ Century <= Year(t)
<1>1. PICK H \in Nat, m \in Nat : H = HoursPerYear /\ m = Century * H /\ H > 0
  <2>1. Century * HoursPerYear \in Nat
    BY Calendar
  <2> QED
    BY <2>1, Calendar
<1>2. t \in Nat /\ m <= t /\ t <= MaxTime
  BY <1>1, Calendar DEF Time
<1>3. m \div H = Century
  <2>1. m = (m \div H) * H + (m % H) /\ m \div H \in Nat /\ m % H \in Nat /\ m % H < H
    BY <1>1, Division
  <2>2. (m \div H) * H + (m % H) = Century * H + 0
    BY <1>1, <2>1
  <2> QED
    BY <1>1, <2>1, <2>2, Calendar, OneQuotient
<1>4. m \div H <= t \div H
  BY <1>1, <1>2, CloseQuotients
<1> QED
  BY <1>1, <1>2, <1>3, <1>4, Calendar DEF Year

LEMMA SettledTypes ==
    ASSUME Settled
    PROVE  /\ resolution \in Resolution /\ Anchored \in Time /\ Anchored \in Nat
           /\ resolution.rollover \in BOOLEAN /\ resolution.pinned \in BOOLEAN
           /\ resolution.overwrite \in BOOLEAN
           /\ prev # Unset => prev \in Nat
           /\ Carry \in Nat
           /\ RollsOverIsAsked => resolution.rollover
           /\ resolution.rollover => ~StepsBackAreKept
<1>1. resolution \in Resolution /\ prev \in 0 .. MaxTime \union {Unset}
  BY DEF Settled, ResolverTypeOK
<1>2. Anchored \in Time
  BY <1>1, SettingsAssumption DEF Resolution, Anchored
<1>3. /\ resolution.rollover \in BOOLEAN /\ resolution.pinned \in BOOLEAN
      /\ resolution.overwrite \in BOOLEAN
  BY <1>1 DEF Resolution
<1>4. Anchored \in Nat
  BY <1>2, TimesAreNumbers
<1>5. prev # Unset => prev \in Nat
  BY <1>1, Calendar
<1>6. Carry \in Nat
  BY <1>4, <1>5 DEF Carry
<1>7. RollsOverIsAsked => resolution.rollover
  BY DEF Settled, RollsOverIsAsked
<1>8. resolution.rollover => ~StepsBackAreKept
  BY DEF Settled, StepsBackAreKept
<1> QED
  BY <1>1, <1>2, <1>3, <1>4, <1>5, <1>6, <1>7, <1>8

(* The year of two digits is found among the anchor's last hundred.        *)
LEMMA ExpandingFindsTheYear ==
    ASSUME Settled, NEW year \in Nat, ~PinnedYear,
           year <= Year(Anchored), Year(Anchored) - year < Century
    PROVE  ExpandTwoDigitYear(year % Century) = year
<1>1. PICK last \in Nat, C \in Nat : last = Year(Anchored) /\ C = Century /\ C > 0
  BY SettledTypes, PartsOfATime, Calendar
<1>2. PICK q \in Nat, p \in Nat, digits \in Nat :
        /\ q = last \div C /\ p = year \div C /\ digits = year % C
        /\ year = p * C + digits
  BY <1>1, Division
<1>3. PICK candidate \in Nat : candidate = q * C + digits
  <2>1. q * C \in Nat
    OBVIOUS
  <2> QED
    BY <2>1
<1>4. ExpandTwoDigitYear(year % Century)
        = IF candidate > last THEN candidate - C ELSE candidate
  <2>1. (Year(Anchored) \div Century) * Century + (year % Century) = candidate
    BY <1>1, <1>2, <1>3
  <2> QED
    BY <1>1, <2>1, Zenon DEF ExpandTwoDigitYear
<1>5. q \in {p, p + 1}
  BY <1>1, <1>2, CloseQuotients
<1>6. CASE q = p
  <2>1. candidate = year
    BY <1>2, <1>3, <1>6
  <2> QED
    BY <1>1, <1>4, <2>1
<1>7. CASE q = p + 1
  <2>1. q * C = p * C + C
    BY <1>7
  <2>2. PICK u \in Nat : u = p * C
    OBVIOUS
  <2>3. candidate = year + C
    BY <1>1, <1>2, <1>3, <2>1, <2>2
  <2> QED
    BY <1>1, <1>4, <2>3
<1> QED
  BY <1>5, <1>6, <1>7

(* A time that was put together as it was, or a year or a day too early,   *)
(* is found by the roll over.                                              *)
LEMMA RollingOverFindsTheTime ==
    ASSUME Settled, NEW time \in Nat, prev # Unset, InOrder(time), NEW composed \in Int,
           \/ composed = time
           \/ /\ composed = time - HoursPerYear
              /\ RollsOver(time, HoursPerYear - YearGap)
           \/ /\ composed = time - HoursPerDay
              /\ RollsOver(time, HoursPerDay - DayGap)
    PROVE  (IF resolution.rollover /\ prev # Unset THEN ApplyRollover(composed)
                                                   ELSE composed) = time
<1>1. /\ RollsOverIsAsked => resolution.rollover
      /\ resolution.rollover => ~StepsBackAreKept
      /\ prev \in Nat /\ resolution.rollover \in BOOLEAN
  BY SettledTypes
<1>2. CASE ~resolution.rollover
  BY <1>1, <1>2 DEF RollsOver
<1>3. CASE resolution.rollover
  <2>1. prev - time <= DayGap
    BY <1>1, <1>3 DEF InOrder
  <2>2. PICK p \in Nat, D \in Nat, H \in Nat, d \in Nat, y \in Nat :
          /\ p = prev /\ D = HoursPerDay /\ H = HoursPerYear /\ d = DayGap /\ y = YearGap
          /\ d < D /\ D <= y
    BY <1>1, Calendar
  <2>3. ApplyRollover(composed) = time
    <3>1. CASE composed = time
      BY <2>1, <2>2, <3>1 DEF ApplyRollover
    <3>2. CASE composed = time - H /\ p < time /\ time - p < H - y
      BY <2>2, <3>2 DEF ApplyRollover
    <3>3. CASE composed = time - D /\ p < time /\ time - p < D - d
      BY <2>2, <3>3 DEF ApplyRollover
    <3> QED
      BY <2>2, <3>1, <3>2, <3>3 DEF RollsOver
  <2> QED
    BY <1>3, <2>3
<1> QED
  BY <1>1, <1>2, <1>3

(* The time of the line, or the year or the day of the line before.        *)
AsWritten(time, composed) ==
    \/ composed = time
    \/ /\ prev # Unset
       /\ composed = time - HoursPerYear
       /\ RollsOver(time, HoursPerYear - YearGap)
    \/ /\ prev # Unset
       /\ composed = time - HoursPerDay
       /\ RollsOver(time, HoursPerDay - DayGap)

(* The year, and the date, that a line is taken for.                       *)
TakenYear(format, time) ==
    IF ForcesYear(format, time) THEN resolution.year ELSE FillYear(format, time)

TakenDate(format, time) ==
    IF ForcesDate(format) THEN resolution.date ELSE FillDate(format, time)

LEMMA ComposedOfTheTaken ==
    ASSUME NEW format, NEW time
    PROVE  ComposeTime(format, time)
             = IF InferredFromAnchor(format, time)
               THEN ClampFuture(Compose(TakenYear(format, time), TakenDate(format, time),
                                        Clock(time)))
               ELSE Compose(TakenYear(format, time), TakenDate(format, time), Clock(time))
BY Zenon DEF ComposeTime, TakenYear, TakenDate

(* A line with four digits of a year has one.                              *)
LEMMA FourDigitsAreAYear ==
    ASSUME NEW format \in Format, NEW time \in Time
    PROVE  /\ format.year \in {0, 2, 4} /\ format.date \in BOOLEAN /\ format.time \in BOOLEAN
           /\ format.year = 4 => HasYear(format, time) /\ YearFromLine(format, time) = Year(time)
           /\ format.year = 2 => YearFromLine(format, time) = Year(time) % Century
           /\ HasYear(format, time) => format.date /\ format.year \in {2, 4}
<1>1. /\ format.year \in {0, 2, 4} /\ format.date \in BOOLEAN /\ format.time \in BOOLEAN
      /\ format.year # 0 => format.date
  BY FormatAssumption
<1>2. Year(time) \in Nat /\ Year(time) > 0
  BY TimesAreNumbers, PartsOfATime, Calendar
<1>3. /\ format.year = 4 => YearFromLine(format, time) = Year(time)
      /\ format.year = 2 => YearFromLine(format, time) = Year(time) % Century
      /\ format.year = 0 => YearFromLine(format, time) = 0
  BY DEF YearFromLine
<1> QED
  BY <1>1, <1>2, <1>3 DEF HasYear

(* The year that the line, or the user, gives is the right one.            *)
LEMMA GivenYearIsRight ==
    ASSUME Settled, NEW format \in Format, NEW time \in Time, YearIsKnown(format, time),
           ForcesYear(format, time) \/ HasYear(format, time)
    PROVE  /\ TakenYear(format, time) = Year(time)
           /\ InferredFromAnchor(format, time) => BelowAnchor(time)
<1>1. CASE ForcesYear(format, time)
  BY <1>1 DEF YearIsKnown, TakenYear
<1>2. CASE ~ForcesYear(format, time) /\ HasYear(format, time)
  <2>1. /\ format.year \in {2, 4}
        /\ \/ format.year = 4
           \/ /\ BelowAnchor(time)
              /\ IF PinnedYear THEN Year(time) = resolution.year
                               ELSE Year(Anchored) - Year(time) < Century
    BY <1>2, FourDigitsAreAYear DEF YearIsKnown
  <2>2. TakenYear(format, time) = FillYear(format, time)
    BY <1>2 DEF TakenYear
  <2>3. CASE format.year = 4
    <3>1. YearFromLine(format, time) = Year(time) /\ YearFromLine(format, time) # 0
      BY <1>2, <2>3, FourDigitsAreAYear DEF HasYear
    <3>2. FillYear(format, time) = Year(time)
      BY <2>3, <3>1 DEF FillYear
    <3>3. ~InferredFromAnchor(format, time)
      BY <1>2, <2>3 DEF InferredFromAnchor
    <3> QED
      BY <2>2, <3>2, <3>3
  <2>4. CASE format.year = 2
    <3>1. YearFromLine(format, time) = Year(time) % Century /\ YearFromLine(format, time) # 0
      BY <1>2, <2>4, FourDigitsAreAYear DEF HasYear
    <3>2. FillYear(format, time) = ExpandTwoDigitYear(Year(time) % Century)
      BY <2>4, <3>1 DEF FillYear
    <3>3. ExpandTwoDigitYear(Year(time) % Century) = Year(time)
      <4>1. CASE PinnedYear
        BY <2>1, <2>4, <4>1 DEF ExpandTwoDigitYear
      <4>2. CASE ~PinnedYear
        <5>1. /\ Year(time) \in Nat /\ Year(time) <= Year(Anchored)
              /\ Year(Anchored) - Year(time) < Century
          BY <2>1, <2>4, <4>2, TimesAreNumbers, PartsOfATime DEF BelowAnchor
        <5> QED
          BY <4>2, <5>1, ExpandingFindsTheYear
      <4> QED
        BY <4>1, <4>2
    <3> QED
      BY <2>1, <2>2, <2>4, <3>2, <3>3
  <2> QED
    BY <2>1, <2>3, <2>4
<1> QED
  BY <1>1, <1>2

LEMMA NotClamped ==
    ASSUME Settled, NEW time \in Time, BelowAnchor(time)
    PROVE  ClampFuture(time) = time
<1>1. time \in Nat /\ Anchored \in Nat /\ FutureSlack \in Nat
  BY TimesAreNumbers, SettledTypes, Calendar
<1> QED
  BY <1>1 DEF BelowAnchor, ClampFuture

(* A year that is the anchor's, or the one before.                         *)
LEMMA AnchorYearIsFound ==
    ASSUME Settled, NEW time \in Time, BelowAnchor(time),
           Anchored + FutureSlack - time < HoursPerYear
    PROVE  ClampFuture(Compose(Year(Anchored), Date(time), Clock(time))) = time
<1>1. PICK t \in Nat, a \in Nat, slack \in Nat, H \in Nat, y \in Nat, last \in Nat :
        /\ t = time /\ a = Anchored /\ slack = FutureSlack /\ H = HoursPerYear /\ H > 0
        /\ y = Year(time) /\ last = Year(Anchored)
  BY TimesAreNumbers, SettledTypes, PartsOfATime, Calendar
<1>2. t <= a + slack /\ y <= last /\ (a + slack) - t < H
  BY <1>1 DEF BelowAnchor
<1>3. last \in {y, y + 1}
  <2>1. CASE t <= a
    <3>1. a - t < H
      BY <1>1, <1>2
    <3>2. a \div H \in {t \div H, (t \div H) + 1}
      BY <1>1, <2>1, <3>1, CloseQuotients
    <3> QED
      BY <1>1, <3>2 DEF Year
  <2>2. CASE a <= t
    <3>1. a \div H <= t \div H
      BY <1>1, <2>2, CloseQuotients
    <3> QED
      BY <1>1, <1>2, <3>1 DEF Year
  <2> QED
    BY <1>1, <2>1, <2>2
<1>4. CASE last = y
  <2>1. Compose(last, Date(time), Clock(time)) = t
    BY <1>1, <1>4, Composed
  <2> QED
    BY <1>1, <2>1, NotClamped
<1>5. CASE last = y + 1
  <2>1. Compose(Year(time) + 1, Date(time), Clock(time)) = t + 1 * H
    BY <1>1, WholeYears
  <2>2. Compose(last, Date(time), Clock(time)) = t + H
    BY <1>1, <1>5, <2>1
  <2>3. ClampFuture(t + H) = t
    BY <1>1, <1>2 DEF ClampFuture
  <2> QED
    BY <1>1, <2>2, <2>3
<1> QED
  BY <1>3, <1>4, <1>5

(* A day lies in one year.                                                 *)
LEMMA SameDay ==
    ASSUME NEW a \in Nat, NEW b \in Nat, Day(a) = Day(b)
    PROVE  Year(a) = Year(b) /\ Date(a) = Date(b)
<1>1. PICK H \in Nat, D \in Nat, days \in Nat :
        /\ H = HoursPerYear /\ D = HoursPerDay /\ H = days * D /\ H > 0 /\ D > 0
  BY Calendar, DaysOfAYear
<1>2. \A t \in Nat : \E rest \in Nat :
        /\ rest < H /\ rest = t % H /\ Year(t) \in Nat /\ Day(t) \in Nat /\ Date(t) \in Nat
        /\ Year(t) * H + rest = t /\ Date(t) * D <= rest /\ rest < Date(t) * D + D
        /\ Year(t) * H + Date(t) * D = Day(t) * D
  <2>1. SUFFICES ASSUME NEW t \in Nat
                 PROVE  \E rest \in Nat :
                          /\ rest < H /\ rest = t % H
                          /\ Year(t) \in Nat /\ Day(t) \in Nat /\ Date(t) \in Nat
                          /\ Year(t) * H + rest = t
                          /\ Date(t) * D <= rest /\ rest < Date(t) * D + D
                          /\ Year(t) * H + Date(t) * D = Day(t) * D
    OBVIOUS
  <2>2. PICK rest \in Nat : rest = t % H /\ rest < H /\ t = (t \div H) * H + rest
    BY <1>1, Division
  <2>3. PICK d \in Nat, c \in Nat, v \in Nat :
          d = rest \div D /\ c < D /\ rest = v + c /\ v = d * D
    <3>1. /\ rest \div D \in Nat /\ rest % D \in Nat /\ rest % D < D
          /\ rest = (rest \div D) * D + (rest % D)
      BY <1>1, Division
    <3>2. (rest \div D) * D \in Nat
      BY <3>1
    <3> QED
      BY <3>1, <3>2
  <2>4. Year(t) = t \div H /\ Date(t) = d
    BY <1>1, <2>2, <2>3 DEF Year, Date
  <2>5. /\ Year(t) \in Nat /\ Day(t) \in Nat /\ Date(t) \in Nat
        /\ Year(t) * H + Date(t) * D = Day(t) * D
    BY <1>1, PartsOfATime
  <2>6. v <= rest /\ rest < v + D
    BY <2>3
  <2>7. Year(t) * H + rest = t
    BY <2>2, <2>4
  <2> QED
    BY <2>2, <2>3, <2>4, <2>5, <2>6, <2>7
<1>3. PICK r \in Nat, s \in Nat :
        /\ r < H /\ s < H
        /\ Date(a) * D <= r /\ Date(b) * D <= s
        /\ Year(a) * H + Date(a) * D = Day(a) * D
        /\ Year(b) * H + Date(b) * D = Day(b) * D
        /\ Year(a) \in Nat /\ Year(b) \in Nat /\ Date(a) \in Nat /\ Date(b) \in Nat
  BY <1>2
<1>4. PICK x \in Nat, y \in Nat, d \in Nat, e \in Nat, u \in Nat, v \in Nat :
        /\ x = Year(a) /\ y = Year(b) /\ d = Date(a) /\ e = Date(b)
        /\ u = d * D /\ v = e * D
  BY <1>3
<1>5. x * H + u = y * H + v /\ u < H /\ v < H
  <2>1. x * H + u = Day(a) * D /\ y * H + v = Day(b) * D
    BY <1>3, <1>4
  <2>2. u < H /\ v < H
    BY <1>3, <1>4
  <2> QED
    BY <2>1, <2>2
<1>6. x = y /\ u = v
  BY <1>1, <1>5, OneQuotient
<1>7. d * D + 0 = e * D + 0
  BY <1>4, <1>6
<1>8. d = e
  BY <1>1, <1>7, OneQuotient
<1> QED
  BY <1>4, <1>6, <1>8

(* A year that nobody gave is not pinned, and is that of the line before.  *)
LEMMA CarriedYear ==
    ASSUME NEW format \in Format, NEW time \in Time,
           ~ForcesYear(format, time), ~HasYear(format, time)
    PROVE  /\ TakenYear(format, time) = Year(Carry)
           /\ InferredFromAnchor(format, time) = (prev = Unset)
<1>1. ~PinnedYear
  BY DEF PinnedYear, ForcesYear
<1>2. YearFromLine(format, time) = 0
  BY DEF HasYear
<1>3. FillYear(format, time) = Year(Carry)
  BY <1>1, <1>2, Zenon DEF FillYear
<1>4. TakenYear(format, time) = Year(Carry)
  BY <1>3, Zenon DEF TakenYear
<1>5. InferredFromAnchor(format, time) = (prev = Unset)
  BY <1>1, Zenon DEF InferredFromAnchor
<1> QED
  BY <1>4, <1>5

(* The date is that of the line, or that of the day before.                *)
LEMMA DateIsFound ==
    ASSUME Settled, NEW format \in Format, NEW time \in Time, DateIsKnown(format, time)
    PROVE  \/ TakenDate(format, time) = Date(time)
           \/ /\ prev # Unset /\ prev \in Nat /\ ~HasYear(format, time)
              /\ TakenDate(format, time) = Date(prev)
              /\ Day(time) = Day(prev) + 1
              /\ RollsOver(time, HoursPerDay - DayGap)
              /\ ForcesYear(format, time) => Year(time) = Year(prev)
<1>1. CASE ForcesDate(format)
  BY <1>1 DEF DateIsKnown, TakenDate
<1>2. CASE ~ForcesDate(format) /\ format.date
  BY <1>2 DEF FillDate, TakenDate
<1>3. CASE ~ForcesDate(format) /\ ~format.date
  <2>1. /\ TakenDate(format, time) = Date(Carry) /\ ~HasYear(format, time)
        /\ IF prev = Unset THEN Date(time) = Date(Anchored)
           ELSE \/ Day(time) = Day(prev)
                \/ /\ RollsOver(time, HoursPerDay - DayGap)
                   /\ ForcesYear(format, time) => Year(time) = Year(prev)
    BY <1>3, FourDigitsAreAYear DEF DateIsKnown, FillDate, TakenDate
  <2>2. CASE prev = Unset
    BY <2>1, <2>2 DEF Carry
  <2>3. CASE prev # Unset
    <3>1. prev \in Nat /\ time \in Nat /\ Carry = prev
      BY <2>3, SettledTypes, TimesAreNumbers DEF Carry
    <3>2. CASE Day(time) = Day(prev)
      BY <2>1, <3>1, <3>2, SameDay
    <3>3. CASE /\ Day(time) # Day(prev)
               /\ RollsOver(time, HoursPerDay - DayGap)
               /\ ForcesYear(format, time) => Year(time) = Year(prev)
      <4>1. prev < time /\ time - prev < HoursPerDay
        <5>1. prev < time /\ time - prev < HoursPerDay - DayGap
          BY <3>3 DEF RollsOver
        <5> QED
          BY <3>1, <5>1, Calendar
      <4>2. Day(time) \in {Day(prev), Day(prev) + 1}
        <5>1. HoursPerDay \in Nat /\ HoursPerDay > 0 /\ prev <= time
          BY <3>1, <4>1, Calendar
        <5> QED
          BY <3>1, <4>1, <5>1, CloseQuotients DEF Day
      <4> QED
        BY <2>1, <2>3, <3>1, <3>3, <4>2
    <3> QED
      BY <2>1, <2>3, <3>2, <3>3
  <2> QED
    BY <2>2, <2>3
<1> QED
  BY <1>1, <1>2, <1>3, FourDigitsAreAYear

(* With its date, a line is dated rightly, or by the year of the line      *)
(* before.                                                                 *)
LEMMA DatedLineIsAsWritten ==
    ASSUME Settled, NEW format \in Format, NEW time \in Time,
           YearIsKnown(format, time), TakenDate(format, time) = Date(time)
    PROVE  AsWritten(time, ComposeTime(format, time))
<1>1. time \in Nat
  BY TimesAreNumbers
<1>2. CASE ForcesYear(format, time) \/ HasYear(format, time)
  <2>1. /\ TakenYear(format, time) = Year(time)
        /\ InferredFromAnchor(format, time) => BelowAnchor(time)
    BY <1>2, GivenYearIsRight
  <2>2. Compose(TakenYear(format, time), TakenDate(format, time), Clock(time)) = time
    BY <1>1, <2>1, Composed
  <2>3. InferredFromAnchor(format, time) => ClampFuture(time) = time
    BY <2>1, NotClamped
  <2>4. ComposeTime(format, time) = time
    BY <2>2, <2>3, ComposedOfTheTaken
  <2> QED
    BY <2>4 DEF AsWritten
<1>3. CASE ~ForcesYear(format, time) /\ ~HasYear(format, time) /\ prev = Unset
  <2>1. BelowAnchor(time) /\ Anchored + FutureSlack - time < HoursPerYear
    BY <1>3 DEF YearIsKnown
  <2>2. TakenYear(format, time) = Year(Anchored) /\ InferredFromAnchor(format, time)
    <3>1. Carry = Anchored
      BY <1>3 DEF Carry
    <3> QED
      BY <1>3, <3>1, CarriedYear
  <2>3. ComposeTime(format, time)
          = ClampFuture(Compose(Year(Anchored), Date(time), Clock(time)))
    BY <2>2, ComposedOfTheTaken
  <2>4. ComposeTime(format, time) = time
    BY <2>1, <2>3, AnchorYearIsFound
  <2> QED
    BY <2>4 DEF AsWritten
<1>4. CASE ~ForcesYear(format, time) /\ ~HasYear(format, time) /\ prev # Unset
  <2>1. prev \in Nat /\ Carry = prev
    BY <1>4, SettledTypes DEF Carry
  <2>2. TakenYear(format, time) = Year(prev) /\ ~InferredFromAnchor(format, time)
    BY <1>4, <2>1, CarriedYear
  <2>3. ComposeTime(format, time) = Compose(Year(prev), Date(time), Clock(time))
    BY <2>2, ComposedOfTheTaken
  <2>4. CASE Year(time) = Year(prev)
    <3>1. ComposeTime(format, time) = time
      BY <1>1, <2>3, <2>4, Composed
    <3> QED
      BY <3>1 DEF AsWritten
  <2>5. CASE Year(time) # Year(prev)
    <3>1. RollsOver(time, HoursPerYear - YearGap)
      BY <1>4, <2>5 DEF YearIsKnown
    <3>2. prev <= time /\ time - prev < HoursPerYear
      <4>1. prev < time /\ time - prev < HoursPerYear - YearGap
        BY <3>1 DEF RollsOver
      <4> QED
        BY <1>1, <2>1, <4>1, Calendar
    <3>3. Year(time) = Year(prev) + 1
      BY <1>1, <2>1, <2>5, <3>2, Calendar, CloseQuotients DEF Year
    <3>4. Year(prev) = Year(time) + (-1)
      BY <2>1, <3>3, PartsOfATime
    <3>5. Compose(Year(time) + (-1), Date(time), Clock(time)) = time + (-1) * HoursPerYear
      BY <1>1, WholeYears
    <3>6. ComposeTime(format, time) = time - HoursPerYear
      <4>1. ComposeTime(format, time) = time + (-1) * HoursPerYear
        BY <2>3, <3>4, <3>5
      <4> QED
        BY <1>1, <4>1, Calendar
    <3> QED
      BY <1>4, <3>1, <3>6 DEF AsWritten
  <2> QED
    BY <2>4, <2>5
<1> QED
  BY <1>2, <1>3, <1>4

(* With the date of the line before, it is dated a day early.              *)
LEMMA NextDayIsAsWritten ==
    ASSUME Settled, NEW format \in Format, NEW time \in Time,
           prev # Unset, prev \in Nat, ~HasYear(format, time), YearIsKnown(format, time),
           TakenDate(format, time) = Date(prev), Day(time) = Day(prev) + 1,
           RollsOver(time, HoursPerDay - DayGap),
           ForcesYear(format, time) => Year(time) = Year(prev)
    PROVE  AsWritten(time, ComposeTime(format, time))
<1>1. time \in Nat
  BY TimesAreNumbers
<1>2. TakenYear(format, time) = Year(prev) /\ ~InferredFromAnchor(format, time)
  <2>1. CASE ForcesYear(format, time)
    BY <2>1 DEF YearIsKnown, TakenYear, InferredFromAnchor
  <2>2. CASE ~ForcesYear(format, time)
    BY <2>2, CarriedYear DEF Carry
  <2> QED
    BY <2>1, <2>2
<1>3. ComposeTime(format, time) = Compose(Year(prev), Date(prev), Clock(time))
  BY <1>2, ComposedOfTheTaken
<1>4. PICK day \in Nat, clock \in Nat, D \in Nat :
        /\ day = Day(prev) /\ clock = Clock(time) /\ D = HoursPerDay
        /\ time = Day(time) * D + clock
  BY <1>1, PartsOfATime, Calendar
<1>5. ComposeTime(format, time) = day * D + clock
  BY <1>3, <1>4, Composed
<1>6. time = day * D + D + clock
  <2>1. (day + 1) * D = day * D + D
    OBVIOUS
  <2> QED
    BY <1>4, <2>1
<1>7. ComposeTime(format, time) = time - HoursPerDay
  <2>1. PICK u \in Nat : u = day * D
    OBVIOUS
  <2> QED
    BY <1>4, <1>5, <1>6, <2>1
<1> QED
  BY <1>7 DEF AsWritten

(* A line within the limits of the resolver is dated as it was written.    *)
LEMMA PromiseIsKept ==
    ASSUME Settled, NEW format \in Format, NEW time \in Time,
           format.time, Promised(format, time)
    PROVE  Resolved(format, time) = time
<1>1. YearIsKnown(format, time) /\ DateIsKnown(format, time) /\ InOrder(time)
  BY DEF Promised
<1>2. AsWritten(time, ComposeTime(format, time))
  BY <1>1, DateIsFound, DatedLineIsAsWritten, NextDayIsAsWritten
<1>3. time \in Nat
  BY TimesAreNumbers
<1>4. Resolved(format, time)
        = IF resolution.rollover /\ prev # Unset THEN ApplyRollover(ComposeTime(format, time))
                                                 ELSE ComposeTime(format, time)
  BY Zenon DEF Resolved
<1>5. CASE prev = Unset
  BY <1>2, <1>4, <1>5 DEF AsWritten
<1>6. CASE prev # Unset
  <2>1. ComposeTime(format, time) \in Int
    BY <1>2, <1>3, Calendar DEF AsWritten
  <2>2. \/ ComposeTime(format, time) = time
        \/ /\ ComposeTime(format, time) = time - HoursPerYear
           /\ RollsOver(time, HoursPerYear - YearGap)
        \/ /\ ComposeTime(format, time) = time - HoursPerDay
           /\ RollsOver(time, HoursPerDay - DayGap)
    BY <1>2 DEF AsWritten
  <2> QED
    BY <1>1, <1>3, <1>4, <1>6, <2>1, <2>2, RollingOverFindsTheTime
<1> QED
  BY <1>5, <1>6

-----------------------------------------------------------------------------
(* The steps.                                                              *)

LEMMA SettledAtFirst == ResolverInit => Settled
BY DEF ResolverInit, ResolverTypeOK, Settled

(* A resolver looks for roll overs where its sample calls for them.        *)
LEMMA HintIsHeeded ==
    ASSUME NEW sample
    PROVE  /\ HintOf(sample) = "look" => SniffRollover(sample)
           /\ HintOf(sample) = "never" => ~SniffRollover(sample)
           /\ HintOf(sample) \in {"look", "never", "mixed"}
<1>1. CASE sample # {} /\ \A format \in sample : format.year = 4 /\ format.whole
  <2>1. HintOf(sample) # "look" /\ HintOf(sample) \in {"look", "never", "mixed"}
    <3>1. ~ \A format \in sample : format.year # 4
      BY <1>1
    <3> QED
      BY <1>1, <3>1 DEF HintOf
  <2>2. ~SniffRollover(sample)
    BY <1>1 DEF SniffRollover
  <2> QED
    BY <2>1, <2>2
<1>2. CASE \A format \in sample : format.year # 4
  <2>1. HintOf(sample) = "look"
    <3>1. ~(sample # {} /\ \A format \in sample : format.year = 4 /\ format.whole)
      BY <1>2
    <3> QED
      BY <1>2, <3>1 DEF HintOf
  <2>2. SniffRollover(sample)
    BY <1>2 DEF SniffRollover
  <2> QED
    BY <2>1, <2>2
<1>3. CASE /\ ~(sample # {} /\ \A format \in sample : format.year = 4 /\ format.whole)
           /\ ~ \A format \in sample : format.year # 4
  BY <1>3 DEF HintOf
<1> QED
  BY <1>1, <1>2, <1>3

LEMMA NewResolverKeeps ==
    ASSUME NEW sample, NewResolver(sample)
    PROVE  Settled'
<1>1. /\ prev' = Unset /\ stamp' = Unset /\ truth' = Unset /\ synthetic' \in BOOLEAN
  BY DEF NewResolver
<1>2. /\ resolution' \in Resolution /\ hint' \in {"look", "never", "mixed", "user"}
      /\ hint' = "look" => resolution'.rollover
      /\ hint' = "never" => ~resolution'.rollover
  <2>1. CASE /\ \E anchor \in Anchor, year \in ForcedYear \union {Unset},
                   date \in ForcedDate \union {Unset} :
                   resolution' = ApplyLegacyOverrides(Sniffed(sample, anchor), year, date)
             /\ hint' = HintOf(sample)
    <3>1. PICK anchor \in Anchor, year \in ForcedYear \union {Unset},
               date \in ForcedDate \union {Unset} :
            resolution' = ApplyLegacyOverrides(Sniffed(sample, anchor), year, date)
      BY <2>1
    <3>2. SniffRollover(sample) \in BOOLEAN
      BY DEF SniffRollover
    <3>3. resolution' = [anchor |-> anchor, rollover |-> SniffRollover(sample),
                         pinned |-> (year # Unset), year |-> year, date |-> date,
                         overwrite |-> (year # Unset \/ date # Unset)]
      BY <3>1 DEF ApplyLegacyOverrides, Sniffed
    <3>4. resolution' \in Resolution /\ resolution'.rollover = SniffRollover(sample)
      BY <3>2, <3>3 DEF Resolution
    <3> QED
      BY <2>1, <3>4, HintIsHeeded
  <2>2. CASE resolution' \in Resolution /\ hint' = "user"
    BY <2>2
  <2> QED
    BY <2>1, <2>2 DEF NewResolver
<1> QED
  BY <1>1, <1>2 DEF Settled, ResolverTypeOK

LEMMA ResolveKeeps ==
    ASSUME Settled, NEW format \in Format, NEW time \in Time, Resolve(format, time)
    PROVE  Settled'
<1>1. PICK resolved \in 0 .. MaxTime :
        /\ resolved = Resolved(format, time) /\ prev' = resolved
        /\ stamp' = IF synthetic THEN Anchored ELSE resolved
        /\ UNCHANGED <<resolution, synthetic, hint>>
  BY DEF Resolve
<1>2. /\ resolution \in Resolution /\ synthetic \in BOOLEAN
      /\ prev \in 0 .. MaxTime \union {Unset} /\ truth \in 0 .. MaxTime \union {Unset}
      /\ hint \in {"look", "never", "mixed", "user"}
      /\ hint = "look" => resolution.rollover
      /\ hint = "never" => ~resolution.rollover
      /\ truth # Unset => stamp = truth /\ prev = truth
      /\ (synthetic /\ truth # Unset) => truth = Anchored
  BY DEF Settled, ResolverTypeOK
<1>3. Anchored \in 0 .. MaxTime /\ time \in 0 .. MaxTime
  BY SettledTypes, TimesAreNumbers
<1>4. Anchored' = Anchored
  BY <1>1 DEF Anchored
<1>5. stamp' \in 0 .. MaxTime \union {Unset}
  BY <1>1, <1>3
<1>6. /\ truth' \in 0 .. MaxTime \union {Unset}
      /\ truth' # Unset => stamp' = truth' /\ prev' = truth'
      /\ (synthetic /\ truth' # Unset) => truth' = Anchored
  <2>1. CASE format.time /\ Promised(format, time)
    <3>1. truth' = time
      BY <2>1 DEF Resolve
    <3>2. ~synthetic
      BY <2>1 DEF Promised
    <3>3. resolved = time
      BY <1>1, <2>1, PromiseIsKept
    <3> QED
      BY <1>1, <1>3, <3>1, <3>2, <3>3
  <2>2. CASE format.time /\ ~Promised(format, time)
    <3>1. truth' = Unset
      BY <2>2 DEF Resolve
    <3> QED
      BY <3>1
  <2>3. CASE ~format.time /\ prev = Unset
    <3>1. truth' = Anchored
      BY <2>3 DEF Resolve
    <3>2. resolved = Anchored
      BY <1>1, <2>3 DEF Resolved, Carry
    <3> QED
      BY <1>1, <1>3, <3>1, <3>2
  <2>4. CASE ~format.time /\ prev # Unset
    <3>1. truth' = truth
      BY <2>4 DEF Resolve
    <3>2. resolved = prev
      BY <1>1, <2>4 DEF Resolved, Carry
    <3> QED
      BY <1>1, <1>2, <3>1, <3>2
  <2> QED
    BY <2>1, <2>2, <2>3, <2>4
<1> QED
  BY <1>1, <1>2, <1>4, <1>5, <1>6 DEF Settled, ResolverTypeOK

LEMMA CarryLineKeeps ==
    ASSUME Settled, CarryLine
    PROVE  Settled'
<1>1. /\ stamp' = IF synthetic THEN Anchored ELSE Carry
      /\ UNCHANGED <<resolution, synthetic, prev, truth, hint>>
  BY DEF CarryLine
<1>2. Anchored \in 0 .. MaxTime /\ prev \in 0 .. MaxTime \union {Unset} /\ Anchored' = Anchored
  BY <1>1, SettledTypes, TimesAreNumbers DEF Anchored, Settled, ResolverTypeOK
<1>3. stamp' \in 0 .. MaxTime \union {Unset}
  BY <1>1, <1>2 DEF Carry
<1>4. truth # Unset => stamp' = truth
  <2>1. truth # Unset => prev = truth /\ Carry = prev
    BY DEF Settled, Carry
  <2>2. (synthetic /\ truth # Unset) => truth = Anchored
    BY DEF Settled
  <2> QED
    BY <1>1, <2>1, <2>2
<1> QED
  BY <1>1, <1>2, <1>3, <1>4 DEF Settled, ResolverTypeOK

(* Every line that is in order, within the limits of the resolver, is      *)
(* dated as it was written (ResolverConsistent: Resolve and applyRollover  *)
(* of package timeresolve), whatever the calendar, the samples and the     *)
(* settings.                                                               *)
THEOREM LinesInOrderAreDated == ResolverSpec => []ResolverConsistent
<1>1. Settled /\ [ResolverNext]_resolverVars => Settled'
  <2>1. SUFFICES ASSUME Settled, [ResolverNext]_resolverVars
                 PROVE  Settled'
    OBVIOUS
  <2>2. CASE \E sample \in Sample : NewResolver(sample)
    BY <2>2, NewResolverKeeps
  <2>3. CASE \E format \in Format, time \in Time : Resolve(format, time)
    BY <2>1, <2>3, ResolveKeeps
  <2>4. CASE CarryLine
    BY <2>1, <2>4, CarryLineKeeps
  <2>5. CASE UNCHANGED resolverVars
    BY <2>1, <2>5 DEF resolverVars, Settled, ResolverTypeOK, Anchored
  <2> QED
    BY <2>1, <2>2, <2>3, <2>4, <2>5 DEF ResolverNext
<1>2. Settled => ResolverConsistent
  BY DEF Settled, ResolverConsistent, InOrderIsTrue
<1> QED
  BY <1>1, <1>2, SettledAtFirst, PTL DEF ResolverSpec

-----------------------------------------------------------------------------
USE NoneAssumption, LowerAssumption, FileAssumption, RequestAssumption

-----------------------------------------------------------------------------
(* Requests.                                                               *)

Calls == [Slot -> InFlight \union {None}]

(* The step a request is at says what it may be and what it has listed.    *)
Shape(r) ==
    /\ r.op \in {"POST", "PUT"} => r.pattern \in Pattern
    /\ r.op = "DELETE" => r.pattern.name \in Name
    /\ r.op = "GET" /\ r.at = "listed" => r.list \in Bodies
    /\ r.op = "GET" /\ r.at = "ok" => r.list \in List
    /\ r.at \in {"checked", "stored"} => r.op \in {"POST", "PUT"}
    /\ r.at = "removed" => r.op = "DELETE"
    /\ r.at = "listed" => r.op = "GET"

Alone == \A k \in Slot : ~Idle(k) /\ requests[k].alone => OthersIdle(k)

Shaped ==
    /\ requests \in Calls
    /\ \A k \in Slot : ~Idle(k) => Shape(requests[k])
    /\ Alone

(* What the server keeps.                                                  *)
Stored ==
    /\ library \in Bodies
    /\ configs \in Configs /\ sideFile \in Configs \union {Garbage}

(* A handler that has come to change the library or the side file.         *)
Stands(k, at, n) == ~Idle(k) /\ requests[k].at = at /\ Pat(k).name = n

(* Nobody's handler has come, or gone, in a step that only sends, answers  *)
(* or reads.                                                               *)
Unmoved ==
    \A k \in Slot : \A n \in Name : \A at \in {"stored", "removed"} :
        /\ Stands(k, at, n)' <=> Stands(k, at, n)
        /\ Stands(k, at, n) => Pat(k)' = Pat(k)

(* The requests after a step that changes none but k, which becomes r.     *)
Becomes(k, r) ==
    /\ requests' \in Calls
    /\ requests'[k] = r
    /\ \A j \in Slot \ {k} : requests'[j] = requests[j]

LEMMA CallTyped ==
    ASSUME Shaped, NEW k \in Slot, ~Idle(k)
    PROVE  requests[k] \in InFlight /\ requests[k] # None /\ Shape(requests[k])
  BY DEF Shaped, Calls, Idle

LEMMA GoneOn ==
    ASSUME Shaped, NEW k \in Slot, ~Idle(k), NEW at, GoOn(k, at),
           at \in {"checked", "stored", "removed", "ok", "refused", "failed"}
    PROVE  LET r == requests'[k]
           IN  /\ requests' \in Calls
               /\ r \in InFlight /\ r # None
               /\ r.op = requests[k].op /\ r.pattern = requests[k].pattern /\ r.at = at
               /\ r.list = requests[k].list /\ r.alone = requests[k].alone
               /\ \A j \in Slot \ {k} : requests'[j] = requests[j]
<1>1. requests[k] \in InFlight /\ requests \in Calls
  BY CallTyped DEF Shaped
<1> DEFINE r == [requests[k] EXCEPT !.at = at]
<1>2. r \in InFlight /\ r # None
  BY <1>1 DEF InFlight
<1>3. /\ r.op = requests[k].op /\ r.pattern = requests[k].pattern /\ r.at = at
      /\ r.list = requests[k].list /\ r.alone = requests[k].alone
  BY <1>1 DEF InFlight
<1>4. requests' = [requests EXCEPT ![k] = r]
  BY DEF GoOn
<1> HIDE DEF r
<1>5. requests'[k] = r /\ requests' \in Calls
      /\ \A j \in Slot \ {k} : requests'[j] = requests[j]
  BY <1>1, <1>2, <1>4 DEF Calls
<1> QED
  BY <1>2, <1>3, <1>5

(* A request that goes on in a way its operation allows keeps the shape.   *)
LEMMA OnwardShaped ==
    ASSUME Shaped, NEW k \in Slot, ~Idle(k),
           requests' \in Calls, ~Idle(k)', Shape(requests'[k]),
           requests'[k].alone = requests[k].alone,
           \A j \in Slot \ {k} : requests'[j] = requests[j]
    PROVE  Shaped'
<1>1. \A j \in Slot : Idle(j)' <=> Idle(j)
  BY DEF Idle
<1>2. \A j \in Slot : OthersIdle(j)' <=> OthersIdle(j)
  BY <1>1 DEF OthersIdle
<1>3. Alone'
  BY <1>1, <1>2 DEF Shaped, Alone
<1>4. ASSUME NEW j \in Slot, ~Idle(j)' PROVE Shape(requests[j])'
  BY <1>1, <1>4 DEF Shaped, Shape
<1> QED
  BY <1>3, <1>4 DEF Shaped

LEMMA DoneShaped ==
    ASSUME Shaped, NEW k \in Slot, Done(k)
    PROVE  Shaped' /\ Idle(k)' /\ \A j \in Slot \ {k} : requests'[j] = requests[j]
<1>1. requests' \in Calls /\ requests'[k] = None
      /\ \A j \in Slot \ {k} : requests'[j] = requests[j]
  BY DEF Shaped, Done, Calls
<1>2. Idle(k)' /\ \A j \in Slot : ~Idle(j)' => ~Idle(j) /\ requests'[j] = requests[j]
  BY <1>1 DEF Idle
<1>3. \A j \in Slot : OthersIdle(j) => OthersIdle(j)'
  BY <1>1 DEF OthersIdle, Idle
<1>4. Alone'
  BY <1>2, <1>3 DEF Shaped, Alone
<1>5. ASSUME NEW j \in Slot, ~Idle(j)' PROVE Shape(requests[j])'
  BY <1>2, <1>5 DEF Shaped, Shape
<1> QED
  BY <1>1, <1>2, <1>4, <1>5 DEF Shaped

LEMMA SentShaped ==
    ASSUME Shaped, NEW k \in Slot, NEW op \in {"GET", "POST", "PUT", "DELETE"}, NEW p,
           \/ op = "GET" /\ p = Nameless
           \/ op \in {"POST", "PUT"} /\ p \in Pattern
           \/ op = "DELETE" /\ \E n \in Name : p = Named(n),
           Send(k, op, p)
    PROVE  /\ Shaped'
           /\ ~Idle(k)' /\ requests'[k].op = op /\ requests'[k].at = "sent"
           /\ \A j \in Slot \ {k} :
                 /\ Idle(j)' <=> Idle(j)
                 /\ ~Idle(j) => /\ requests'[j].at = requests[j].at
                                /\ requests'[j].op = requests[j].op
                                /\ requests'[j].pattern = requests[j].pattern
<1> DEFINE r == Request(k, op, p)
           weak(j) == [requests[j] EXCEPT !.alone = FALSE]
<1>1. p \in [name : Name \union {None}, body : Body \union {None},
             config : Config \union {None}]
      /\ (op \in {"POST", "PUT"} => p \in Pattern) /\ (op = "DELETE" => p.name \in Name)
  BY DEF Nameless, Named, Pattern
<1>2. r \in InFlight /\ r.op = op /\ r.at = "sent" /\ r.pattern = p
      /\ (r.alone => OthersIdle(k))
  <2> DEFINE a == OthersIdle(k) /\ (Idle(k) \/ requests[k].alone)
  <2>1. a \in BOOLEAN /\ (a => OthersIdle(k))
    OBVIOUS
  <2>2. r = [op |-> op, pattern |-> p, at |-> "sent", list |-> None, alone |-> a]
    BY DEF Request
  <2> HIDE DEF a
  <2> QED
    BY <1>1, <2>1, <2>2 DEF InFlight
<1>3. Shape(r)
  BY <1>1, <1>2 DEF Shape
<1>4. ASSUME NEW j \in Slot \ {k}, ~Idle(j)
      PROVE  /\ weak(j) \in InFlight /\ weak(j) # None /\ ~weak(j).alone
             /\ weak(j).at = requests[j].at /\ weak(j).op = requests[j].op
             /\ weak(j).pattern = requests[j].pattern /\ weak(j).list = requests[j].list
  <2>1. requests[j] \in InFlight
    BY <1>4, CallTyped
  <2> QED
    BY <2>1 DEF InFlight
<1>5. requests' = [j \in Slot |-> IF j = k THEN r ELSE IF Idle(j) THEN None ELSE weak(j)]
  BY DEF Send
<1> HIDE DEF r, weak
<1>6. requests' \in Calls
  BY <1>2, <1>4, <1>5 DEF Calls
<1>7. requests'[k] = r /\ ~Idle(k)'
  BY <1>2, <1>5 DEF Idle
<1>8. \A j \in Slot \ {k} : requests'[j] = IF Idle(j) THEN None ELSE weak(j)
  BY <1>5
<1>9. \A j \in Slot \ {k} : Idle(j)' <=> Idle(j)
  BY <1>4, <1>8 DEF Idle
<1>10. Alone'
  <2>1. ASSUME NEW j \in Slot, ~Idle(j)', requests'[j].alone PROVE OthersIdle(j)'
    <3>1. j = k
      BY <1>4, <1>8, <1>9, <2>1
    <3> QED
      BY <1>2, <1>7, <1>9, <2>1, <3>1 DEF OthersIdle
  <2> QED
    BY <2>1 DEF Alone
<1>11. ASSUME NEW j \in Slot, ~Idle(j)' PROVE Shape(requests[j])'
  <2>1. CASE j = k
    BY <1>3, <1>7, <2>1 DEF Shape
  <2>2. CASE j # k
    BY <1>4, <1>8, <1>9, <1>11, <2>2, CallTyped DEF Shape
  <2> QED
    BY <2>1, <2>2
<1> QED
  BY <1>2, <1>4, <1>6, <1>7, <1>8, <1>9, <1>10, <1>11 DEF Shaped

(* An import that is under way was under way before.                       *)
ImportRuns == ~Idle("import") /\ requests["import"].op \in {"POST", "PUT"}

Kept == Shaped' /\ (ImportRuns' => ImportRuns) /\ (Idle("import") => Idle("import")')

LEMMA SameIsStill ==
    ASSUME Shaped, UNCHANGED requests
    PROVE  Kept /\ Unmoved
<1>1. \A k \in Slot : (Idle(k)' <=> Idle(k)) /\ (OthersIdle(k)' <=> OthersIdle(k))
  BY DEF Idle, OthersIdle
<1>2. Alone'
  BY <1>1 DEF Shaped, Alone
<1>3. Shaped'
  <2>1. ASSUME NEW k \in Slot, ~Idle(k)' PROVE Shape(requests[k])'
    BY <1>1, <2>1 DEF Shaped, Shape
  <2> QED
    BY <1>2, <2>1 DEF Shaped
<1>4. (ImportRuns' => ImportRuns) /\ (Idle("import") => Idle("import")')
  BY <1>1 DEF ImportRuns, Slot
<1>5. Unmoved
  BY <1>1 DEF Unmoved, Stands, Pat
<1> QED
  BY <1>3, <1>4, <1>5 DEF Kept

(* A handler that goes on, and where it has come.                          *)
LEMMA HandlerGoesOn ==
    ASSUME Shaped, NEW k \in Slot, ~Idle(k), NEW at, GoOn(k, at),
           at \in {"checked", "stored", "removed", "ok", "refused", "failed"},
           at \in {"checked", "stored"} => requests[k].op \in {"POST", "PUT"},
           at = "removed" => requests[k].op = "DELETE",
           at = "ok" => requests[k].op # "GET"
    PROVE  /\ Kept
           /\ \A n : Stands(k, at, n)' <=> Pat(k).name = n
           /\ \A n, s : s # at => ~Stands(k, s, n)'
           /\ \A j \in Slot \ {k} : requests'[j] = requests[j]
           /\ requests'[k].pattern = requests[k].pattern
<1>1. Shape(requests[k])
  BY CallTyped
<1>2. /\ requests' \in Calls /\ requests'[k] # None
      /\ requests'[k].op = requests[k].op /\ requests'[k].pattern = requests[k].pattern
      /\ requests'[k].at = at /\ requests'[k].alone = requests[k].alone
      /\ \A j \in Slot \ {k} : requests'[j] = requests[j]
  BY GoneOn
<1>3. ~Idle(k)' /\ Shape(requests'[k])
  BY <1>1, <1>2 DEF Shape, Idle
<1>4. Shaped'
  BY <1>2, <1>3, OnwardShaped
<1>5. (ImportRuns' => ImportRuns) /\ (Idle("import") => Idle("import")')
  BY <1>2 DEF ImportRuns, Idle, Slot
<1> QED
  BY <1>2, <1>3, <1>4, <1>5 DEF Kept, Stands, Pat

(* One that answers, or that only looks, has changed nothing to come.      *)
LEMMA HandlerIsStill ==
    ASSUME Shaped, NEW k \in Slot, ~Idle(k), NEW at, GoOn(k, at),
           at \in {"checked", "ok", "refused", "failed"},
           requests[k].at \notin {"stored", "removed"},
           at = "checked" => requests[k].op \in {"POST", "PUT"},
           at = "ok" => requests[k].op # "GET"
    PROVE  Kept /\ Unmoved
<1>1. /\ Kept
      /\ \A n, s : s # at => ~Stands(k, s, n)'
      /\ \A j \in Slot \ {k} : requests'[j] = requests[j]
  BY HandlerGoesOn
<1>2. \A n, s : s \in {"stored", "removed"} => ~Stands(k, s, n)
  BY DEF Stands
<1>3. \A j \in Slot \ {k} : \A n, s :
        /\ Stands(j, s, n)' <=> Stands(j, s, n)
        /\ Stands(j, s, n) => Pat(j)' = Pat(j)
  BY <1>1 DEF Stands, Idle, Pat
<1> QED
  BY <1>1, <1>2, <1>3 DEF Unmoved

LEMMA DoneIsStill ==
    ASSUME Shaped, NEW k \in Slot, Done(k),
           Idle(k) \/ requests[k].at \notin {"stored", "removed"}
    PROVE  Kept /\ Unmoved
<1>1. Shaped' /\ Idle(k)' /\ \A j \in Slot \ {k} : requests'[j] = requests[j]
  BY DoneShaped
<1>2. \A j \in Slot \ {k} : \A n, s :
        /\ Stands(j, s, n)' <=> Stands(j, s, n)
        /\ Stands(j, s, n) => Pat(j)' = Pat(j)
  BY <1>1 DEF Stands, Idle, Pat
<1>3. \A n, s : s \in {"stored", "removed"} => ~Stands(k, s, n) /\ ~Stands(k, s, n)'
  BY <1>1 DEF Stands
<1>4. (ImportRuns' => ImportRuns) /\ (Idle("import") => Idle("import")')
  BY <1>1 DEF ImportRuns, Idle, Slot
<1> QED
  BY <1>1, <1>2, <1>3, <1>4 DEF Kept, Unmoved

LEMMA SentIsStill ==
    ASSUME Shaped, NEW k \in Slot, NEW op \in {"GET", "POST", "PUT", "DELETE"}, NEW p,
           \/ op = "GET" /\ p = Nameless
           \/ op \in {"POST", "PUT"} /\ p \in Pattern
           \/ op = "DELETE" /\ \E n \in Name : p = Named(n),
           Send(k, op, p),
           Idle(k) \/ requests[k].at \notin {"stored", "removed"}
    PROVE  /\ Shaped' /\ Unmoved
           /\ k # "import" => Kept
<1>1. /\ Shaped'
      /\ ~Idle(k)' /\ requests'[k].op = op /\ requests'[k].at = "sent"
      /\ \A j \in Slot \ {k} :
            /\ Idle(j)' <=> Idle(j)
            /\ ~Idle(j) => /\ requests'[j].at = requests[j].at
                           /\ requests'[j].op = requests[j].op
                           /\ requests'[j].pattern = requests[j].pattern
  BY SentShaped
<1>2. \A j \in Slot \ {k} : \A n, s :
        /\ Stands(j, s, n)' <=> Stands(j, s, n)
        /\ Stands(j, s, n) => Pat(j)' = Pat(j)
  BY <1>1 DEF Stands, Pat
<1>3. \A n, s : s \in {"stored", "removed"} => ~Stands(k, s, n) /\ ~Stands(k, s, n)'
  BY <1>1 DEF Stands
<1>4. k # "import" => (ImportRuns' => ImportRuns) /\ (Idle("import") => Idle("import")')
  BY <1>1 DEF ImportRuns, Slot
<1> QED
  BY <1>1, <1>2, <1>3, <1>4 DEF Kept, Unmoved

(* The two steps of a GET.                                                 *)
LEMMA ListingIsStill ==
    ASSUME Shaped, Stored, NEW k \in Slot, ListLibrary(k) \/ Snapshot(k)
    PROVE  Kept /\ Unmoved
<1>1. ~Idle(k) /\ requests[k].op = "GET" /\ requests[k].at \in {"sent", "listed"}
  BY DEF ListLibrary, Snapshot, Pending
<1>2. requests[k] \in InFlight /\ Shape(requests[k]) /\ requests \in Calls
  BY <1>1, CallTyped DEF Shaped
<1>3. PICK at \in {"listed", "ok"}, list \in Bodies \union List :
         /\ requests' = [requests EXCEPT ![k] = [requests[k] EXCEPT !.at = at, !.list = list]]
         /\ at = "listed" => list \in Bodies
         /\ at = "ok" => list \in List
  <2>1. CASE ListLibrary(k)
    BY <2>1 DEF ListLibrary, Stored
  <2>2. CASE Snapshot(k)
    <3>1. requests[k].list \in Bodies
      BY <1>2, <2>2 DEF Snapshot, Pending, Shape
    <3>2. View(requests[k].list) \in List
      BY <3>1 DEF View, List, Entry, Bodies, Stored, Configs
    <3> QED
      BY <2>2, <3>2 DEF Snapshot
  <2> QED
    BY <2>1, <2>2
<1> DEFINE r == [requests[k] EXCEPT !.at = at, !.list = list]
<1>4. /\ r \in InFlight /\ r # None /\ r.op = "GET" /\ r.at = at /\ r.list = list
      /\ r.alone = requests[k].alone
  BY <1>1, <1>2, <1>3 DEF InFlight
<1> HIDE DEF r
<1>5. /\ requests' \in Calls /\ requests'[k] = r /\ ~Idle(k)'
      /\ \A j \in Slot \ {k} : requests'[j] = requests[j]
  BY <1>2, <1>3, <1>4 DEF Calls, Idle, r
<1>6. Shape(r)
  BY <1>3, <1>4 DEF Shape
<1>7. Shaped'
  BY <1>1, <1>4, <1>5, <1>6, OnwardShaped
<1>8. (ImportRuns' => ImportRuns) /\ (Idle("import") => Idle("import")')
  BY <1>1, <1>4, <1>5 DEF ImportRuns, Idle, Slot
<1>9. Unmoved
  <2>1. \A n, s : s \in {"stored", "removed"} => ~Stands(k, s, n) /\ ~Stands(k, s, n)'
    BY <1>1, <1>3, <1>4, <1>5 DEF Stands
  <2>2. \A j \in Slot \ {k} : \A n, s :
        /\ Stands(j, s, n)' <=> Stands(j, s, n)
        /\ Stands(j, s, n) => Pat(j)' = Pat(j)
    BY <1>5 DEF Stands, Idle, Pat
  <2> QED
    BY <2>1, <2>2 DEF Unmoved
<1> QED
  BY <1>7, <1>8, <1>9 DEF Kept

(* A restart fails every request whose handler has not answered.           *)
LEMMA RestartShaped ==
    ASSUME Shaped, NEW found, Restart(found)
    PROVE  /\ Kept
           /\ \A k \in Slot : \A n, s : s \in {"stored", "removed"} => ~Stands(k, s, n)'
<1> DEFINE down(k) ==
             [requests[k] EXCEPT !.alone = FALSE,
                                 !.at = IF @ \in Errors \union {"ok"} THEN @ ELSE "failed"]
<1>1. ASSUME NEW k \in Slot, ~Idle(k)
      PROVE  /\ down(k) \in InFlight /\ down(k) # None /\ ~down(k).alone
             /\ down(k).op = requests[k].op /\ down(k).pattern = requests[k].pattern
             /\ down(k).list = requests[k].list
             /\ down(k).at \in Errors \union {"ok"}
             /\ down(k).at = "ok" => requests[k].at = "ok"
  <2>1. requests[k] \in InFlight
    BY <1>1, CallTyped
  <2> DEFINE at == IF requests[k].at \in Errors \union {"ok"} THEN requests[k].at ELSE "failed"
  <2>2. at \in Errors \union {"ok"} /\ (at = "ok" => requests[k].at = "ok")
    BY DEF Errors
  <2>3. [requests[k] EXCEPT !.alone = FALSE].at = requests[k].at
    BY <2>1 DEF InFlight
  <2>4. down(k) = [requests[k] EXCEPT !.alone = FALSE, !.at = at]
    BY <2>3
  <2> HIDE DEF at, down
  <2> QED
    BY <2>1, <2>2, <2>4 DEF InFlight, Errors
<1>2. requests' = [k \in Slot |-> IF Idle(k) THEN None ELSE down(k)]
  BY DEF Restart
<1> HIDE DEF down
<1>3. requests' \in Calls /\ \A k \in Slot : requests'[k] = IF Idle(k) THEN None ELSE down(k)
  BY <1>1, <1>2 DEF Calls
<1>4. \A k \in Slot : Idle(k)' <=> Idle(k)
  BY <1>1, <1>3 DEF Idle
<1>5. Alone'
  BY <1>1, <1>3, <1>4 DEF Alone
<1>6. ASSUME NEW k \in Slot, ~Idle(k)' PROVE Shape(requests[k])'
  BY <1>1, <1>3, <1>4, <1>6, CallTyped DEF Shape, Errors
<1>7. (ImportRuns' => ImportRuns) /\ (Idle("import") => Idle("import")')
  BY <1>1, <1>3, <1>4 DEF ImportRuns, Slot
<1>8. \A k \in Slot : \A n, s : s \in {"stored", "removed"} => ~Stands(k, s, n)'
  BY <1>1, <1>3, <1>4 DEF Stands, Errors
<1> QED
  BY <1>3, <1>5, <1>6, <1>7, <1>8 DEF Kept, Shaped

-----------------------------------------------------------------------------
(* Configurations.                                                         *)

(* What ConfigIsItsOwn rests on: a configuration outlives its pattern only *)
(* while a handler stands between the two halves of the deletion; and one  *)
(* that is about to be written is of the pattern that is there.            *)
Owned(n) ==
    /\ library[n] # None /\ configs[n] # None => configs[n] \in given[n]
    /\ library[n] = None /\ configs[n] # None => \E k \in Slot : Stands(k, "removed", n)
    /\ \A k \in Slot : Stands(k, "stored", n) => library[n] # None /\ Pat(k).config \in given[n]

Own == \A n \in Name \ torn : Owned(n)

LEMMA OwnedStays ==
    ASSUME NEW n \in Name, Owned(n),
           library'[n] = library[n], configs'[n] = configs[n], given'[n] = given[n],
           \A k \in Slot : Stands(k, "removed", n) => Stands(k, "removed", n)',
           \A k \in Slot : Stands(k, "stored", n)' =>
               Stands(k, "stored", n) /\ Pat(k)' = Pat(k)
    PROVE  Owned(n)'
  BY DEF Owned

LEMMA OwnStays ==
    ASSUME Own, Unmoved,
           UNCHANGED <<library, configs, given, torn>>
    PROVE  Own'
  BY DEF Own, Owned, Unmoved

LEMMA OwnUpsert ==
    ASSUME Shaped, Stored, given \in [Name -> SUBSET Config], Own, NEW k \in Slot, Upsert(k)
    PROVE  Own'
<1>1. ~Idle(k) /\ requests[k].op \in {"POST", "PUT"} /\ requests[k].at = "checked"
  BY DEF Upsert, Pending
<1>2. Pat(k) \in Pattern /\ Pat(k).name \in Name /\ Pat(k).body # None
  BY <1>1, CallTyped DEF Shape, Pat, Pattern
<1>3. CASE GoOn(k, "failed") /\ UNCHANGED <<library, given, torn>>
  <2>1. Unmoved
    BY <1>1, <1>3, HandlerIsStill
  <2> QED
    BY <1>3, <2>1, OwnStays DEF Upsert
<1>4. CASE ~(GoOn(k, "failed") /\ UNCHANGED <<library, given, torn>>)
  <2> DEFINE p == Pat(k)
             at == IF p.config = None THEN "ok" ELSE "stored"
  <2>1. /\ library' = [library EXCEPT ![p.name] = p.body]
        /\ given' = [given EXCEPT ![p.name] =
                        (IF library[p.name] = None THEN {} ELSE @) \union ({p.config} \ {None})]
        /\ torn' = IF AnotherAt(k, "removed") THEN torn \union {p.name} ELSE torn
        /\ GoOn(k, at)
        /\ configs' = configs
    BY <1>4 DEF Upsert
  <2>2. /\ \A n : Stands(k, at, n)' <=> Pat(k).name = n
        /\ \A n, s : s # at => ~Stands(k, s, n)'
        /\ \A j \in Slot \ {k} : requests'[j] = requests[j]
        /\ Pat(k)' = Pat(k)
    BY <1>1, <2>1, HandlerGoesOn DEF Pat
  <2>3. \A j \in Slot \ {k} : \A n, s :
           /\ Stands(j, s, n)' <=> Stands(j, s, n)
           /\ Stands(j, s, n) => Pat(j)' = Pat(j)
    BY <2>2 DEF Stands, Idle, Pat
  <2>4. ASSUME NEW n \in Name \ torn' PROVE Owned(n)'
    <3>1. n \notin torn /\ Owned(n)
      BY <2>1, <2>4 DEF Own
    <3>2. CASE n # p.name
      <4>1. library'[n] = library[n] /\ given'[n] = given[n]
        BY <2>1, <3>2 DEF Stored, Bodies
      <4>2. \A s \in {"stored", "removed"} : ~Stands(k, s, n) /\ ~Stands(k, s, n)'
        BY <1>1, <2>2, <3>2 DEF Stands
      <4> QED
        BY <2>1, <2>3, <3>1, <4>1, <4>2, OwnedStays
    <3>3. CASE n = p.name
      <4>1. library'[n] # None
        BY <1>2, <2>1, <3>3 DEF Stored, Bodies
      <4>2. ~\E j \in Slot : Stands(j, "removed", n)
        BY <1>1, <2>1, <2>4, <3>3 DEF AnotherAt, Stands, Pat
      <4>3. library[n] = None => configs[n] = None
        BY <3>1, <4>2 DEF Owned
      <4>4. library[n] # None => given[n] \subseteq given'[n]
        BY <2>1, <3>3
      <4>5. p.config # None => p.config \in given'[n]
        BY <2>1, <3>3
      <4>6. ASSUME NEW j \in Slot, Stands(j, "stored", n)' PROVE (Pat(j).config \in given[n])'
        <5>1. CASE j = k
          BY <2>2, <4>5, <4>6, <5>1
        <5>2. CASE j # k
          BY <2>3, <3>1, <4>4, <4>6, <5>2 DEF Owned
        <5> QED
          BY <5>1, <5>2
      <4> QED
        BY <2>1, <3>1, <4>1, <4>3, <4>4, <4>6 DEF Owned
    <3> QED
      BY <3>2, <3>3
  <2> QED
    BY <2>4 DEF Own
<1> QED
  BY <1>3, <1>4

LEMMA OwnSetConfig ==
    ASSUME Shaped, Stored, Own, NEW k \in Slot, NEW flushed, SetConfig(k, flushed)
    PROVE  Own'
<1> DEFINE p == Pat(k)
<1>1. /\ Stands(k, "stored", p.name) /\ ~Idle(k) /\ requests[k].op \in {"POST", "PUT"}
      /\ requests[k].at = "stored" /\ GoOn(k, "ok")
  BY DEF SetConfig, Pending, Stands
<1>2. p.name \in Name
  BY <1>1, CallTyped DEF Shape, Pat, Pattern
<1>3. /\ configs' = [configs EXCEPT ![p.name] = p.config]
      /\ UNCHANGED <<library, given, torn>>
  BY DEF SetConfig, SetConfigs
<1>4. /\ \A n, s : s # "ok" => ~Stands(k, s, n)'
      /\ \A j \in Slot \ {k} : requests'[j] = requests[j]
  BY <1>1, HandlerGoesOn
<1>5. \A j \in Slot \ {k} : \A n, s :
        /\ Stands(j, s, n)' <=> Stands(j, s, n)
        /\ Stands(j, s, n) => Pat(j)' = Pat(j)
  BY <1>4 DEF Stands, Idle, Pat
<1>6. ASSUME NEW n \in Name \ torn PROVE Owned(n)'
  <2>1. Owned(n)
    BY DEF Own
  <2>2. ~Stands(k, "removed", n)
    BY <1>1 DEF Stands
  <2>3. CASE n # p.name
    BY <1>3, <1>4, <1>5, <2>1, <2>2, <2>3, OwnedStays DEF Stored, Configs
  <2>4. CASE n = p.name
    <3>1. library'[n] # None /\ p.config \in given'[n]
      BY <1>1, <1>3, <2>1, <2>4 DEF Owned
    <3>2. configs'[n] = p.config
      BY <1>3, <2>4 DEF Stored, Configs
    <3>3. ASSUME NEW j \in Slot, Stands(j, "stored", n)' PROVE (Pat(j).config \in given[n])'
      BY <1>3, <1>4, <1>5, <2>1, <3>3 DEF Owned
    <3> QED
      BY <3>1, <3>2, <3>3 DEF Owned
  <2> QED
    BY <2>3, <2>4
<1> QED
  BY <1>3, <1>6 DEF Own

LEMMA OwnRemove ==
    ASSUME Shaped, Stored, Own, NEW k \in Slot, Remove(k)
    PROVE  Own'
<1> DEFINE name == Pat(k).name
<1>1. ~Idle(k) /\ requests[k].op = "DELETE" /\ requests[k].at = "sent"
  BY DEF Remove, Pending
<1>2. name \in Name
  BY <1>1, CallTyped DEF Shape, Pat
<1>3. CASE /\ GoOn(k, IF library[name] = None THEN "refused" ELSE "failed")
           /\ UNCHANGED <<library, torn>>
  <2>1. Unmoved
    BY <1>1, <1>3, HandlerIsStill
  <2> QED
    BY <1>3, <2>1, OwnStays DEF Remove
<1>4. CASE /\ library[name] # None
           /\ library' = [library EXCEPT ![name] = None]
           /\ torn' = IF AnotherAt(k, "stored") THEN torn \union {name} ELSE torn
           /\ GoOn(k, "removed")
  <2>1. configs' = configs /\ given' = given
    BY DEF Remove
  <2>2. /\ \A n : Stands(k, "removed", n)' <=> name = n
        /\ \A n, s : s # "removed" => ~Stands(k, s, n)'
        /\ \A j \in Slot \ {k} : requests'[j] = requests[j]
    BY <1>1, <1>4, HandlerGoesOn
  <2>3. \A j \in Slot \ {k} : \A n, s :
           /\ Stands(j, s, n)' <=> Stands(j, s, n)
           /\ Stands(j, s, n) => Pat(j)' = Pat(j)
    BY <2>2 DEF Stands, Idle, Pat
  <2>4. ASSUME NEW n \in Name \ torn' PROVE Owned(n)'
    <3>1. n \notin torn /\ Owned(n)
      BY <1>4, <2>4 DEF Own
    <3>2. CASE n # name
      <4>1. library'[n] = library[n]
        BY <1>4, <3>2 DEF Stored, Bodies
      <4>2. \A s \in {"stored", "removed"} : ~Stands(k, s, n) /\ ~Stands(k, s, n)'
        BY <1>1, <2>2, <3>2 DEF Stands
      <4> QED
        BY <2>1, <2>3, <3>1, <4>1, <4>2, OwnedStays
    <3>3. CASE n = name
      <4>1. library'[n] = None
        BY <1>4, <3>3 DEF Stored, Bodies
      <4>2. Stands(k, "removed", n)'
        BY <2>2, <3>3
      <4>3. ~\E j \in Slot \ {k} : Stands(j, "stored", n)
        BY <1>4, <2>4, <3>3 DEF AnotherAt, Stands
      <4>4. ~\E j \in Slot : Stands(j, "stored", n)'
        BY <2>2, <2>3, <4>3
      <4> QED
        BY <4>1, <4>2, <4>4 DEF Owned
    <3> QED
      BY <3>2, <3>3
  <2> QED
    BY <2>4 DEF Own
<1> QED
  BY <1>3, <1>4 DEF Remove

LEMMA OwnDropConfig ==
    ASSUME Shaped, Stored, Own, NEW k \in Slot, NEW flushed, DropConfig(k, flushed)
    PROVE  Own'
<1> DEFINE name == Pat(k).name
<1>1. /\ ~Idle(k) /\ requests[k].op = "DELETE" /\ requests[k].at = "removed"
      /\ GoOn(k, "ok") /\ UNCHANGED <<library, given, torn>>
  BY DEF DropConfig, Pending
<1>2. name \in Name
  BY <1>1, CallTyped DEF Shape, Pat
<1>3. \A n \in Name : configs'[n] = IF n = name THEN None ELSE configs[n]
  BY <1>2 DEF DropConfig, SetConfigs, Stored, Configs
<1>4. /\ \A n, s : s # "ok" => ~Stands(k, s, n)'
      /\ \A j \in Slot \ {k} : requests'[j] = requests[j]
  <2>1. "ok" = "ok" => requests[k].op # "GET"
    BY <1>1
  <2> QED
    BY <1>1, <2>1, HandlerGoesOn
<1>5. \A j \in Slot \ {k} : \A n, s :
        /\ Stands(j, s, n)' <=> Stands(j, s, n)
        /\ Stands(j, s, n) => Pat(j)' = Pat(j)
  BY <1>4 DEF Stands, Idle, Pat
<1>6. ASSUME NEW n \in Name \ torn PROVE Owned(n)'
  <2>1. Owned(n)
    BY DEF Own
  <2>2. CASE n # name
    <3>1. \A s \in {"stored", "removed"} : ~Stands(k, s, n) /\ ~Stands(k, s, n)'
      BY <1>4, <2>2 DEF Stands
    <3> QED
      BY <1>1, <1>3, <1>5, <2>1, <2>2, <3>1, OwnedStays
  <2>3. CASE n = name
    <3>1. configs'[n] = None
      BY <1>3, <2>3
    <3>2. \A j \in Slot : Stands(j, "stored", n)' => Stands(j, "stored", n) /\ Pat(j)' = Pat(j)
      BY <1>4, <1>5
    <3> QED
      BY <1>1, <2>1, <3>1, <3>2 DEF Owned
  <2> QED
    BY <2>2, <2>3
<1> QED
  BY <1>1, <1>6 DEF Own

LEMMA OwnRestart ==
    ASSUME Shaped, Own, NEW found, Restart(found)
    PROVE  Own'
<1>1. \A k \in Slot : \A n, s : s \in {"stored", "removed"} => ~Stands(k, s, n)'
  BY RestartShaped
<1>2. /\ library' = library /\ given' = given
      /\ torn' = torn \union {n \in Name : configs'[n] \notin {None, configs[n]}}
                      \union {Pat(k).name : k \in {j \in Slot : Pending(j, {"DELETE"}, "removed")}}
  BY DEF Restart
<1>3. ASSUME NEW n \in Name \ torn' PROVE Owned(n)'
  <2>1. Owned(n) /\ configs'[n] \in {None, configs[n]}
    BY <1>2, <1>3 DEF Own
  <2>2. ~\E k \in Slot : Stands(k, "removed", n)
    BY <1>2, <1>3, CallTyped DEF Stands, Pending, Shape
  <2>3. configs'[n] # None => configs'[n] = configs[n]
    BY <2>1
  <2> QED
    BY <1>1, <1>2, <2>1, <2>2, <2>3 DEF Owned
<1> QED
  BY <1>3 DEF Own

-----------------------------------------------------------------------------
(* The inductive invariant.                                                *)

Shown ==
    /\ patterns \in List
    /\ loading \in BOOLEAN /\ loadError \in BOOLEAN
    /\ draft \in [create : BOOLEAN, name : Name \union {None}] \union {None}
    /\ pendingDelete \in Name \union {None}

History ==
    /\ given \in [Name -> SUBSET Config] /\ torn \subseteq Name
    /\ mixed \in BOOLEAN
    /\ work \in 0 .. MaxWork /\ failures \in 0 .. MaxFailures

(* While an import runs, what is left of its file are patterns; while its  *)
(* file is read, nothing is in flight.                                     *)
Importing == [file : File, reading : BOOLEAN, todo : Seq(Pattern),
              existing : SUBSET Lowered(Name), clean : BOOLEAN]
ImportTyped ==
    /\ ImportRuns => import \in Importing /\ ~import.reading
    /\ Reading => import \in Importing /\ import.todo = import.file /\ Idle("import")

IInv == Stored /\ Shown /\ History /\ Shaped /\ ImportTyped /\ Own

LEMMA StillKeeps ==
    ASSUME IInv, Kept, Unmoved, UNCHANGED <<serverVars, import, given, torn>>, Shown', History'
    PROVE  IInv'
<1>1. UNCHANGED <<library, configs, sideFile, import, given, torn>>
  BY DEF serverVars
<1>2. Own'
  BY <1>1, OwnStays DEF IInv
<1>3. Stored' /\ ImportTyped'
  BY <1>1 DEF IInv, Kept, Stored, ImportTyped, Reading
<1> QED
  BY <1>2, <1>3 DEF IInv, Kept

LEMMA InitHolds == Init => IInv
<1> SUFFICES ASSUME Init PROVE IInv
  OBVIOUS
<1> DEFINE r == [op |-> "GET", pattern |-> Nameless, at |-> "sent", list |-> None, alone |-> TRUE]
<1>1. r \in InFlight /\ r # None /\ r.op = "GET" /\ r.at = "sent"
  <2>1. Nameless \in [name : Name \union {None}, body : Body \union {None},
                      config : Config \union {None}]
    BY DEF Nameless
  <2>2. r \in InFlight
    BY <2>1 DEF InFlight
  <2> QED
    BY <2>2
<1> HIDE DEF r
<1>2. /\ requests \in Calls /\ requests["mount"] = r
      /\ \A k \in Slot \ {"mount"} : requests[k] = None
  BY <1>1 DEF Init, Calls, Slot, r
<1>3. Shaped
  <2>1. \A k \in Slot : ~Idle(k) => k = "mount"
    BY <1>2 DEF Idle
  <2>2. Shape(r)
    BY <1>1 DEF Shape
  <2> QED
    BY <1>2, <2>1, <2>2 DEF Shaped, Alone, OthersIdle, Idle
<1>4. ~ImportRuns /\ \A k \in Slot : \A n, s : s \in {"stored", "removed"} => ~Stands(k, s, n)
  BY <1>1, <1>2 DEF ImportRuns, Idle, Stands, Slot
<1>5. Stored /\ Shown /\ History
  <2>1. Stored /\ patterns \in List
    BY DEF Init, Stored, Bodies, Configs, NoConfigs, Nothing, List
  <2>2. Shown
    BY <2>1 DEF Init, Shown
  <2>3. History
    BY BoundAssumption DEF Init, History
  <2> QED
    BY <2>1, <2>2, <2>3
<1>6. \A n \in Name : library[n] = None /\ configs[n] = None
  BY DEF Init, NoConfigs, Nothing
<1>7. Own
  BY <1>4, <1>6 DEF Own, Owned
<1> QED
  BY <1>3, <1>4, <1>5, <1>7 DEF IInv, ImportTyped, Reading, Init

LEMMA HandleHolds == ASSUME IInv, Handle PROVE IInv'
<1>0. PICK k \in Slot :
         \/ LookUp(k) \/ Upsert(k) \/ Remove(k) \/ ListLibrary(k) \/ Snapshot(k)
         \/ \E flushed \in BOOLEAN : SetConfig(k, flushed) \/ DropConfig(k, flushed)
  BY DEF Handle
<1> USE DEF IInv
<1>1. CASE LookUp(k)
  <2>1. ~Idle(k) /\ requests[k].op \in {"POST", "PUT"} /\ requests[k].at = "sent"
    BY <1>1 DEF LookUp, Pending
  <2>2. GoOn(k, "checked") \/ GoOn(k, "refused")
    BY <1>1 DEF LookUp
  <2>3. Kept /\ Unmoved
    BY <2>1, <2>2, HandlerIsStill
  <2>4. Shown' /\ History'
    BY <1>1 DEF LookUp, pageVars, listVars, historyVars, Shown, History
  <2> QED
    BY <1>1, <2>3, <2>4, StillKeeps DEF LookUp, pageVars, historyVars
<1>2. CASE Upsert(k)
  <2>1. ~Idle(k) /\ requests[k].op \in {"POST", "PUT"} /\ requests[k].at = "checked"
    BY <1>2 DEF Upsert, Pending
  <2>2. Pat(k) \in Pattern
    BY <2>1, CallTyped DEF Shape, Pat
  <2>3. PICK at \in {"ok", "stored", "failed"} : GoOn(k, at)
    BY <1>2 DEF Upsert
  <2>4. Kept
    BY <2>1, <2>3, HandlerGoesOn
  <2>5. Own'
    BY <1>2, OwnUpsert DEF History
  <2>6. Stored'
    BY <1>2, <2>2 DEF Upsert, Stored, Bodies, Pattern
  <2>7. Shown'
    BY <1>2 DEF Upsert, pageVars, listVars, Shown
  <2>8. History'
    BY <1>2, <2>2 DEF Upsert, History, Pattern
  <2>9. ImportTyped'
    BY <1>2, <2>4 DEF Upsert, pageVars, ImportTyped, Kept, Reading
  <2> QED
    BY <2>4, <2>5, <2>6, <2>7, <2>8, <2>9 DEF Kept
<1>3. CASE Remove(k)
  <2>1. ~Idle(k) /\ requests[k].op = "DELETE" /\ requests[k].at = "sent"
    BY <1>3 DEF Remove, Pending
  <2>2. Pat(k).name \in Name
    BY <2>1, CallTyped DEF Shape, Pat
  <2>3. PICK at \in {"removed", "refused", "failed"} : GoOn(k, at)
    BY <1>3 DEF Remove
  <2>4. Kept
    BY <2>1, <2>3, HandlerGoesOn
  <2>5. Own'
    BY <1>3, OwnRemove
  <2>6. Stored'
    BY <1>3, <2>2 DEF Remove, Stored, Bodies
  <2>7. Shown'
    BY <1>3 DEF Remove, pageVars, listVars, Shown
  <2>8. History'
    BY <1>3, <2>2 DEF Remove, History
  <2>9. ImportTyped'
    BY <1>3, <2>4 DEF Remove, pageVars, ImportTyped, Kept, Reading
  <2> QED
    BY <2>4, <2>5, <2>6, <2>7, <2>8, <2>9 DEF Kept
<1>4. CASE ListLibrary(k) \/ Snapshot(k)
  <2>1. Kept /\ Unmoved
    BY <1>4, ListingIsStill
  <2>2. UNCHANGED <<serverVars, pageVars, historyVars>>
    BY <1>4 DEF ListLibrary, Snapshot
  <2>3. Shown' /\ History'
    BY <2>2 DEF pageVars, listVars, historyVars, Shown, History
  <2> QED
    BY <2>1, <2>2, <2>3, StillKeeps DEF pageVars, historyVars
<1>5. ASSUME NEW flushed \in BOOLEAN, SetConfig(k, flushed) PROVE IInv'
  <2>1. ~Idle(k) /\ requests[k].op \in {"POST", "PUT"} /\ requests[k].at = "stored" /\ GoOn(k, "ok")
    BY <1>5 DEF SetConfig, Pending
  <2>2. Pat(k) \in Pattern
    BY <2>1, CallTyped DEF Shape, Pat
  <2>3. Kept
    BY <2>1, HandlerGoesOn
  <2>4. Own'
    BY <1>5, OwnSetConfig
  <2>5. Stored'
    BY <1>5, <2>2 DEF SetConfig, SetConfigs, Stored, Configs, Pattern
  <2>6. Shown'
    BY <1>5 DEF SetConfig, pageVars, listVars, Shown
  <2>7. History'
    BY <1>5, BoundAssumption DEF SetConfig, SetConfigs, FaultIf, History
  <2>8. ImportTyped'
    BY <1>5, <2>3 DEF SetConfig, pageVars, ImportTyped, Kept, Reading
  <2> QED
    BY <2>3, <2>4, <2>5, <2>6, <2>7, <2>8 DEF Kept
<1>6. ASSUME NEW flushed \in BOOLEAN, DropConfig(k, flushed) PROVE IInv'
  <2>1. ~Idle(k) /\ requests[k].op = "DELETE" /\ requests[k].at = "removed" /\ GoOn(k, "ok")
    BY <1>6 DEF DropConfig, Pending
  <2>2. Kept
    <3>1. "ok" = "ok" => requests[k].op # "GET"
      BY <2>1
    <3> QED
      BY <2>1, <3>1, HandlerGoesOn
  <2>3. Own'
    BY <1>6, OwnDropConfig
  <2>4. Stored'
    BY <1>6 DEF DropConfig, SetConfigs, Stored, Configs
  <2>5. Shown'
    BY <1>6 DEF DropConfig, pageVars, listVars, Shown
  <2>6. History'
    BY <1>6, BoundAssumption DEF DropConfig, SetConfigs, FaultIf, History
  <2>7. ImportTyped'
    BY <1>6, <2>2 DEF DropConfig, pageVars, ImportTyped, Kept, Reading
  <2> QED
    BY <2>2, <2>3, <2>4, <2>5, <2>6, <2>7 DEF Kept
<1> QED
  BY <1>0, <1>1, <1>2, <1>3, <1>4, <1>5, <1>6

LEMMA FaultHolds ==
    ASSUME IInv, \/ \E k \in Slot : Lose(k)
                 \/ \E found \in {sideFile, Garbage} : Restart(found)
    PROVE  IInv'
<1> USE DEF IInv
<1>1. ASSUME NEW k \in Slot, Lose(k) PROVE IInv'
  <2>1. ~Idle(k) /\ requests[k].at \in {"sent", "ok"} /\ GoOn(k, "failed")
    BY <1>1 DEF Lose
  <2>2. Kept /\ Unmoved
    BY <2>1, HandlerIsStill
  <2>3. Shown' /\ History'
    BY <1>1, BoundAssumption DEF Lose, Fault, pageVars, listVars, Shown, History
  <2> QED
    BY <1>1, <2>2, <2>3, StillKeeps DEF Lose, pageVars
<1>2. ASSUME NEW found \in {sideFile, Garbage}, Restart(found) PROVE IInv'
  <2>1. Kept
    BY <1>2, RestartShaped
  <2>2. Own'
    BY <1>2, OwnRestart
  <2>3. Stored'
    BY <1>2 DEF Restart, Stored, Configs, NoConfigs
  <2>4. Shown'
    BY <1>2 DEF Restart, pageVars, listVars, Shown
  <2>5. History'
    <3>1. \A k \in Slot : Pending(k, {"DELETE"}, "removed") => Pat(k).name \in Name
      BY CallTyped DEF Pending, Shape, Pat
    <3>2. torn' \subseteq Name
      <4> DEFINE cut == {Pat(k).name : k \in {j \in Slot : Pending(j, {"DELETE"}, "removed")}}
                 revived == {n \in Name : configs'[n] \notin {None, configs[n]}}
      <4>1. cut \subseteq Name /\ revived \subseteq Name /\ torn \subseteq Name
        BY <3>1 DEF History
      <4>2. torn' = torn \union revived \union cut
        BY <1>2 DEF Restart
      <4> HIDE DEF cut, revived
      <4> QED
        BY <4>1, <4>2
    <3>3. given' = given /\ work' = work /\ mixed' = TRUE
      BY <1>2 DEF Restart
    <3>4. failures < MaxFailures /\ failures' = failures + 1
      BY <1>2 DEF Restart, Fault
    <3> QED
      BY <3>2, <3>3, <3>4, BoundAssumption DEF History
  <2>6. ImportTyped'
    BY <1>2, <2>1 DEF Restart, pageVars, ImportTyped, Kept, Reading
  <2> QED
    BY <2>1, <2>2, <2>3, <2>4, <2>5, <2>6 DEF Kept
<1> QED
  BY <1>1, <1>2

LEMMA PageHolds == ASSUME IInv, Page PROVE IInv'
<1> USE DEF IInv
<1>1. ASSUME NEW k \in Slot, Listed(k) PROVE IInv'
  <2>1. ~Idle(k) /\ requests[k].op = "GET" /\ requests[k].at = "ok" /\ Done(k)
    BY <1>1 DEF Listed, Pending
  <2>2. requests[k].list \in List /\ requests[k].alone \in BOOLEAN
    BY <2>1, CallTyped DEF Shape, InFlight
  <2>3. Shown' /\ History'
    BY <1>1, <2>2 DEF Listed, Shown, History
  <2> QED
    BY <1>1, <2>1, <2>3, DoneIsStill, StillKeeps DEF Listed
<1>2. ASSUME NEW k \in Slot, ListFails(k) PROVE IInv'
  <2>1. ~Idle(k) /\ requests[k].at = "failed" /\ Done(k)
    BY <1>2 DEF ListFails, Pending
  <2>2. Shown' /\ History'
    BY <1>2 DEF ListFails, Shown, History
  <2> QED
    BY <1>2, <2>1, <2>2, DoneIsStill, StillKeeps DEF ListFails
<1>3. CASE Retry
  <2>1. Idle("mount") /\ Send("mount", "GET", Nameless) /\ "mount" \in Slot
    BY <1>3 DEF Retry, LoadPatterns, Slot
  <2>2. Kept /\ Unmoved
    BY <2>1, SentIsStill
  <2>3. Shown' /\ History'
    <3>1. work < MaxWork /\ work' = work + 1
      BY <1>3 DEF Retry, Work
    <3>2. loading' = TRUE /\ loadError' = FALSE
      BY <1>3 DEF Retry, LoadPatterns
    <3>3. UNCHANGED <<patterns, draft, pendingDelete, given, torn, mixed, failures>>
      BY <1>3 DEF Retry
    <3>4. Shown'
      BY <3>2, <3>3 DEF Shown
    <3>5. History'
      BY <3>1, <3>3, BoundAssumption DEF History
    <3> QED
      BY <3>4, <3>5
  <2> QED
    BY <1>3, <2>2, <2>3, StillKeeps DEF Retry
<1>4. ASSUME \/ OpenCreate \/ CloseDialog \/ \E n \in Name : OpenEdit(n) \/ AskDelete(n)
      PROVE  IInv'
  <2>1. UNCHANGED <<serverVars, requests, listVars, import, given, torn, mixed, failures>>
    BY <1>4 DEF OpenCreate, CloseDialog, OpenEdit, AskDelete, historyVars
  <2>2. Kept /\ Unmoved
    BY <2>1, SameIsStill
  <2> DEFINE Draft == [create : BOOLEAN, name : Name \union {None}] \union {None}
             Asked == Name \union {None}
  <2>3. draft' \in Draft /\ pendingDelete' \in Asked
    <3>1. draft \in Draft /\ pendingDelete \in Asked
      BY DEF Shown
    <3>2. None \in Draft /\ None \in Asked /\ [create |-> TRUE, name |-> None] \in Draft
          /\ \A n \in Name : [create |-> FALSE, name |-> n] \in Draft /\ n \in Asked
      OBVIOUS
    <3> HIDE DEF Draft, Asked
    <3>3. CASE OpenCreate \/ CloseDialog
      BY <3>1, <3>2, <3>3 DEF OpenCreate, CloseDialog
    <3>4. ASSUME NEW n \in Name, OpenEdit(n) \/ AskDelete(n)
          PROVE  draft' \in Draft /\ pendingDelete' \in Asked
      BY <3>1, <3>2, <3>4 DEF OpenEdit, AskDelete
    <3> QED
      BY <1>4, <3>3, <3>4
  <2>4. work' \in 0 .. MaxWork
    BY <1>4, BoundAssumption DEF OpenCreate, CloseDialog, OpenEdit, AskDelete, Work, historyVars,
                                 History
  <2>5. Shown' /\ History'
    BY <2>1, <2>3, <2>4 DEF listVars, Shown, History
  <2> QED
    BY <2>1, <2>2, <2>5, StillKeeps
<1>5. ASSUME NEW p \in Pattern, HandleSave(p) PROVE IInv'
  <2>1. PICK op \in {"POST", "PUT"} : Send("save", op, p)
    BY <1>5 DEF HandleSave
  <2>2. Idle("save") /\ "save" \in Slot /\ "save" # "import"
    BY <1>5 DEF HandleSave, Slot
  <2>3. Kept /\ Unmoved
    BY <2>1, <2>2, SentIsStill
  <2>4. Shown' /\ History'
    BY <1>5, BoundAssumption DEF HandleSave, Work, pageVars, listVars, Shown, History
  <2> QED
    BY <1>5, <2>3, <2>4, StillKeeps DEF HandleSave, pageVars
<1>6. CASE SaveAnswered
  <2>1. Send("save", "GET", Nameless) /\ "save" \in Slot /\ requests["save"].at = "ok"
    BY <1>6 DEF SaveAnswered, LoadPatterns, Pending, Slot
  <2>2. Kept /\ Unmoved
    BY <2>1, SentIsStill
  <2>3. Shown' /\ History'
    BY <1>6 DEF SaveAnswered, LoadPatterns, historyVars, Shown, History
  <2> QED
    BY <1>6, <2>2, <2>3, StillKeeps DEF SaveAnswered, historyVars
<1>7. CASE SaveFails
  <2>1. Done("save") /\ "save" \in Slot /\ requests["save"].at \in Errors
    BY <1>7 DEF SaveFails, Fails, Pending, Slot
  <2>2. Shown' /\ History'
    BY <1>7 DEF SaveFails, pageVars, listVars, historyVars, Shown, History
  <2> QED
    BY <1>7, <2>1, <2>2, DoneIsStill, StillKeeps DEF SaveFails, pageVars, historyVars, Errors
<1>8. CASE HandleDelete
  <2>1. Idle("delete") /\ Send("delete", "DELETE", Named(pendingDelete)) /\ "delete" \in Slot
    BY <1>8 DEF HandleDelete, Slot
  <2>2. pendingDelete \in Name
    BY <1>8 DEF HandleDelete, Shown
  <2>3. Kept /\ Unmoved
    BY <2>1, <2>2, SentIsStill
  <2>4. Shown' /\ History'
    BY <1>8, BoundAssumption DEF HandleDelete, Work, pageVars, listVars, Shown, History
  <2> QED
    BY <1>8, <2>3, <2>4, StillKeeps DEF HandleDelete, pageVars
<1>9. CASE DeleteAnswered
  <2>1. Send("delete", "GET", Nameless) /\ "delete" \in Slot /\ requests["delete"].at = "ok"
    BY <1>9 DEF DeleteAnswered, LoadPatterns, Pending, Slot
  <2>2. Kept /\ Unmoved
    BY <2>1, SentIsStill
  <2>3. Shown' /\ History'
    BY <1>9 DEF DeleteAnswered, LoadPatterns, historyVars, Shown, History
  <2> QED
    BY <1>9, <2>2, <2>3, StillKeeps DEF DeleteAnswered, historyVars
<1>10. CASE DeleteFails
  <2>1. Done("delete") /\ "delete" \in Slot /\ requests["delete"].at \in Errors
    BY <1>10 DEF DeleteFails, Fails, Pending, Slot
  <2>2. Shown' /\ History'
    BY <1>10 DEF DeleteFails, pageVars, listVars, historyVars, Shown, History
  <2> QED
    BY <1>10, <2>1, <2>2, DoneIsStill, StillKeeps DEF DeleteFails, pageVars, historyVars, Errors
<1>11. ASSUME NEW file \in File, OnImportFile(file) PROVE IInv'
  <2>1. file \in Seq(Pattern)
    OBVIOUS
  <2>2. Known \subseteq Name /\ Lowered(Known) \in SUBSET Lowered(Name)
    BY DEF Known, Lowered
  <2>3. PICK old : old = Lowered(Known)
    OBVIOUS
  <2>4. /\ import' = [file |-> file, reading |-> TRUE, todo |-> file,
                      existing |-> old, clean |-> FALSE]
        /\ Idle("import")
        /\ UNCHANGED <<library, configs, sideFile, requests, patterns, loading, loadError, draft,
                       pendingDelete, given, torn, mixed, failures>>
    BY <1>11, <2>3 DEF OnImportFile, serverVars, listVars
  <2>5. import' \in Importing /\ import'.todo = import'.file
    BY <2>1, <2>2, <2>3, <2>4 DEF Importing
  <2>6. Kept /\ Unmoved
    BY <2>4, SameIsStill
  <2>7. Stored' /\ Shown' /\ History'
    BY <1>11, <2>4, BoundAssumption DEF OnImportFile, Work, Stored, Shown, History
  <2>8. Own'
    BY <2>4, <2>6, OwnStays DEF Kept
  <2>9. ImportTyped'
    BY <2>4, <2>5, <2>6 DEF ImportTyped, ImportRuns, Kept
  <2> QED
    BY <2>6, <2>7, <2>8, <2>9 DEF Kept
<1>12. CASE FileRead
  <2>1. /\ import \in Importing /\ import.todo = import.file /\ Idle("import")
        /\ "import" \in Slot
    BY <1>12 DEF FileRead, ImportTyped, Slot
  <2>2. import.file \in Seq(Pattern) /\ import.file[1] \in Pattern
    BY <2>1 DEF Importing
  <2>3. PICK op \in {"POST", "PUT"} : Send("import", op, import.file[1])
    BY <1>12 DEF FileRead, SendPattern
  <2>4. Shaped' /\ Unmoved
    BY <2>1, <2>2, <2>3, SentIsStill
  <2>5. PICK clean \in BOOLEAN : import' = [import EXCEPT !.reading = FALSE, !.clean = clean]
    BY <1>12 DEF FileRead
  <2>6. import' \in Importing /\ ~import'.reading
    BY <2>1, <2>5 DEF Importing
  <2>7. UNCHANGED <<library, configs, sideFile, patterns, loading, loadError, draft,
                    pendingDelete, given, torn, mixed, work, failures>>
    BY <1>12 DEF FileRead, serverVars, listVars, historyVars
  <2>8. Stored' /\ Shown' /\ History'
    BY <2>7 DEF Stored, Shown, History
  <2>9. Own'
    BY <2>4, <2>7, OwnStays
  <2> QED
    BY <2>4, <2>6, <2>8, <2>9 DEF ImportTyped, Reading
<1>13. CASE FileReadFails
  <2>1. /\ Idle("import") /\ import' = None
        /\ UNCHANGED <<library, configs, sideFile, requests, patterns, loading, loadError, draft,
                       pendingDelete, given, torn, mixed, work, failures>>
    BY <1>13 DEF FileReadFails, ImportTyped, serverVars, listVars, historyVars
  <2>2. Kept /\ Unmoved
    BY <2>1, SameIsStill
  <2>3. Stored' /\ Shown' /\ History'
    BY <2>1 DEF Stored, Shown, History
  <2>4. Own'
    BY <2>1, <2>2, OwnStays DEF Kept
  <2>5. ImportTyped'
    BY <2>1, <2>2 DEF ImportTyped, ImportRuns, Kept, Reading
  <2> QED
    BY <2>2, <2>3, <2>4, <2>5 DEF Kept
<1>14. CASE ImportAnswered
  <2>1. /\ ~Idle("import") /\ requests["import"].op \in {"POST", "PUT"}
        /\ requests["import"].at \in Errors \union {"ok"} /\ "import" \in Slot
    BY <1>14 DEF ImportAnswered, Fails, Pending, Slot
  <2>2. import \in Importing /\ ~import.reading /\ Pat("import") \in Pattern
    BY <2>1, CallTyped DEF ImportTyped, ImportRuns, Shape, Pat
  <2>3. PICK existing \in SUBSET Lowered(Name) :
           IF Len(import.todo) > 1
           THEN /\ import' = [import EXCEPT !.todo = Tail(@), !.existing = existing]
                /\ SendPattern(import.todo[2], existing)
                /\ UNCHANGED <<loading, loadError>>
           ELSE import' = None /\ LoadPatterns("import")
    <3> DEFINE ok == requests["import"].at = "ok"
               existing == IF ok THEN Existing(Pat("import")) ELSE import.existing
    <3>1. existing \in SUBSET Lowered(Name)
      BY <2>2 DEF Existing, Importing, Lowered, Pattern
    <3> QED
      BY <1>14, <3>1 DEF ImportAnswered
  <2>4. UNCHANGED <<library, configs, sideFile, patterns, draft, pendingDelete, given, torn,
                    mixed, work, failures>>
    BY <1>14 DEF ImportAnswered, serverVars, historyVars
  <2>5. CASE Len(import.todo) > 1
    <3>1. import.todo \in Seq(Pattern) /\ import.todo[2] \in Pattern
      BY <2>2, <2>5 DEF Importing
    <3>2. PICK op \in {"POST", "PUT"} : Send("import", op, import.todo[2])
      BY <2>3, <2>5 DEF SendPattern
    <3>3. Shaped' /\ Unmoved
      BY <2>1, <3>1, <3>2, SentIsStill DEF Errors
    <3>4. PICK rest : rest = Tail(import.todo)
      OBVIOUS
    <3>5. rest \in Seq(Pattern) /\ import' = [import EXCEPT !.todo = rest, !.existing = existing]
      BY <2>3, <2>5, <3>1, <3>4
    <3>6. import' \in Importing /\ ~import'.reading
      BY <2>2, <3>5 DEF Importing
    <3>7. Shown'
      BY <2>3, <2>4, <2>5 DEF Shown
    <3> QED
      BY <2>4, <3>3, <3>6, <3>7, OwnStays DEF Stored, History, ImportTyped, Reading
  <2>6. CASE ~(Len(import.todo) > 1)
    <3>1. /\ Send("import", "GET", Nameless) /\ loading' = TRUE /\ loadError' = FALSE
          /\ import' = None
      BY <2>3, <2>6 DEF LoadPatterns
    <3>2. Shaped' /\ Unmoved
      BY <2>1, <3>1, SentIsStill DEF Errors
    <3>3. ~ImportRuns' /\ ~Reading'
      BY <2>1, <3>1, SentShaped DEF ImportRuns, Reading
    <3>4. Shown'
      BY <2>4, <3>1 DEF Shown
    <3> QED
      BY <2>4, <3>2, <3>3, <3>4, OwnStays DEF Stored, History, ImportTyped
  <2> QED
    BY <2>5, <2>6
<1> QED
  BY <1>1, <1>2, <1>3, <1>4, <1>5, <1>6, <1>7, <1>8, <1>9, <1>10, <1>11, <1>12, <1>13, <1>14
  DEF Page

LEMMA OtherHolds ==
    ASSUME IInv, \/ \E op \in {"POST", "PUT"}, p \in Pattern : OtherSends(op, p)
                 \/ \E n \in Name : OtherSends("DELETE", Named(n))
                 \/ OtherAnswered
    PROVE  IInv'
<1> USE DEF IInv
<1>1. ASSUME NEW op \in {"POST", "PUT", "DELETE"}, NEW p, OtherSends(op, p),
             \/ op \in {"POST", "PUT"} /\ p \in Pattern
             \/ op = "DELETE" /\ \E n \in Name : p = Named(n)
      PROVE  IInv'
  <2>1. Idle("other") /\ Send("other", op, p) /\ "other" \in Slot /\ "other" # "import"
    BY <1>1 DEF OtherSends, Slot
  <2>2. Kept /\ Unmoved
    BY <1>1, <2>1, SentIsStill
  <2>3. Shown' /\ History'
    BY <1>1, BoundAssumption DEF OtherSends, Work, pageVars, listVars, Shown, History
  <2> QED
    BY <1>1, <2>2, <2>3, StillKeeps DEF OtherSends, pageVars
<1>2. CASE OtherAnswered
  <2>1. Done("other") /\ "other" \in Slot /\ requests["other"].at \in Errors \union {"ok"}
    BY <1>2 DEF OtherAnswered, Slot
  <2>2. Shown' /\ History'
    BY <1>2 DEF OtherAnswered, pageVars, listVars, historyVars, Shown, History
  <2> QED
    BY <1>2, <2>1, <2>2, DoneIsStill, StillKeeps DEF OtherAnswered, pageVars, historyVars, Errors
<1> QED
  BY <1>1, <1>2

LEMMA StutterHolds == ASSUME IInv, UNCHANGED vars PROVE IInv'
<1>1. UNCHANGED <<library, configs, sideFile, requests, patterns, loading, loadError, draft,
                  pendingDelete, import, given, torn, mixed, work, failures>>
  BY DEF vars, serverVars, pageVars, listVars, historyVars
<1>2. Shaped' /\ Unmoved /\ Kept
  BY <1>1, SameIsStill DEF IInv, Kept
<1>3. Shown' /\ History'
  BY <1>1 DEF IInv, Shown, History
<1> QED
  BY <1>1, <1>2, <1>3, StillKeeps DEF serverVars

LEMMA NextHolds == IInv /\ [Next]_vars => IInv'
  BY HandleHolds, FaultHolds, PageHolds, OtherHolds, StutterHolds DEF Next

LEMMA InvImplies == IInv => Consistent
<1> SUFFICES ASSUME IInv PROVE Consistent
  OBVIOUS
<1>1. TypeOK
  BY DEF IInv, Stored, Shown, History, Shaped, Alone, Calls, TypeOK
<1>2. ConfigIsItsOwn
  BY DEF IInv, Own, Owned, ConfigIsItsOwn
<1> QED
  BY <1>1, <1>2 DEF Consistent

(* The library, its side file and the page keep their types, and a pattern *)
(* has no timestamp configuration but one it was given itself: whatever    *)
(* requests overlap, writes fail or servers restart, for any number of     *)
(* names, patterns and files, but for the names whose requests crossed.    *)
THEOREM PatternsKeepTheirConfigs == Spec => []Consistent
  BY InitHolds, NextHolds, InvImplies, PTL DEF Spec

-----------------------------------------------------------------------------
(* The list of the page.                                                   *)

(* A request of the page that has changed nothing; what one of the others  *)
(* has changed, the page will list.                                        *)
Quiet(k) ==
    \/ Idle(k)
    \/ /\ k \in {"save", "delete"}
       /\ requests[k].op # "GET"
       /\ requests[k].at \in {"sent", "checked", "refused", "failed"}

(* An answer on its way to the page, if nothing else is.                   *)
Lists(k) ==
    (~Idle(k) /\ requests[k].alone /\ requests[k].op = "GET") =>
        /\ ~loadError
        /\ requests[k].at = "listed" => requests[k].list = library
        /\ requests[k].at = "ok" => requests[k].list = View(library)

ShowsLibrary ==
    IF library = Nothing THEN loadError ELSE patterns = View(library) /\ ~loadError

ListInv ==
    /\ ~mixed => Idle("other")
    /\ \A k \in Slot : Lists(k)
    /\ (~mixed /\ \A k \in Slot : Quiet(k)) => ShowsLibrary

-----------------------------------------------------------------------------
(* An import that nothing comes between.                                   *)
LibraryNames == {n \in Name : library[n] # None}
FileNames == {import.file[i].name : i \in DOMAIN import.file}

Takes == /\ ImportRuns /\ requests["import"].alone
         /\ import.clean /\ ~mixed

ImportKnows(name, r) ==
    /\ name \in FileNames
    /\ \A i \in DOMAIN import.todo : import.todo[i].name \in FileNames
    /\ LibraryNames \subseteq Known \union FileNames
    /\ r.op = "PUT" <=> Lower[name] \in import.existing
    /\ r.at \notin {"stored", "ok"} => Lowered(LibraryNames) = import.existing
    /\ r.at \in {"stored", "ok"} => Lowered(LibraryNames) = import.existing \union {Lower[name]}
    /\ r.at = "refused" => (library[name] = None <=> r.op = "PUT")

(* What an import sends, and the GET after it, which is never refused.     *)
ImportSends ==
    ~Idle("import") =>
        \/ requests["import"].op \in {"POST", "PUT"}
        \/ requests["import"].op = "GET" /\ requests["import"].at # "refused"

ImportInv ==
    /\ ImportSends
    /\ Takes => ImportKnows(Pat("import").name, requests["import"])

PageInv == ListInv /\ ImportInv

(* A request that is sent leaves no other alone, and is alone if none was  *)
(* in flight, but for the one it continues.                                *)
LEMMA SentAlone ==
    ASSUME Shaped, NEW k \in Slot, NEW op \in {"GET", "POST", "PUT", "DELETE"}, NEW p,
           \/ op = "GET" /\ p = Nameless
           \/ op \in {"POST", "PUT"} /\ p \in Pattern
           \/ op = "DELETE" /\ \E n \in Name : p = Named(n),
           Send(k, op, p)
    PROVE  /\ \A j \in Slot \ {k} : ~Idle(j)' => ~requests'[j].alone
           /\ requests'[k].pattern = p
           /\ requests'[k].alone => OthersIdle(k) /\ (Idle(k) \/ requests[k].alone)
<1> DEFINE r == Request(k, op, p)
           weak(j) == [requests[j] EXCEPT !.alone = FALSE]
<1>1. r.pattern = p /\ (r.alone => OthersIdle(k) /\ (Idle(k) \/ requests[k].alone))
  BY DEF Request
<1>2. \A j \in Slot : ~Idle(j) => ~weak(j).alone
  BY CallTyped DEF InFlight
<1>3. requests' = [j \in Slot |-> IF j = k THEN r ELSE IF Idle(j) THEN None ELSE weak(j)]
  BY DEF Send
<1> HIDE DEF r, weak
<1>4. requests'[k] = r
  BY <1>3
<1>5. \A j \in Slot \ {k} : requests'[j] = IF Idle(j) THEN None ELSE weak(j)
  BY <1>3
<1> QED
  BY <1>1, <1>2, <1>4, <1>5 DEF Idle

(* Nobody is alone while another request is in flight.                     *)
LEMMA NobodyAlone ==
    ASSUME Shaped, NEW k \in Slot, ~Idle(k), NEW j \in Slot \ {k}, ~Idle(j)
    PROVE  ~requests[j].alone
BY DEF Shaped, Alone, OthersIdle

-----------------------------------------------------------------------------
(* The list: each step keeps ListInv.                                      *)

LEMMA SentList ==
    ASSUME Shaped, ListInv, NEW k \in Slot, NEW op \in {"GET", "POST", "PUT", "DELETE"}, NEW p,
           \/ op = "GET" /\ p = Nameless
           \/ op \in {"POST", "PUT"} /\ p \in Pattern
           \/ op = "DELETE" /\ \E n \in Name : p = Named(n),
           Send(k, op, p),
           UNCHANGED <<library, configs, patterns>>,
           IF op = "GET" THEN loadError' = FALSE ELSE loadError' = loadError,
           mixed' \/ (mixed' = mixed /\ k # "other"),
           op = "GET" \/ k \notin {"save", "delete"} \/ Quiet(k)
    PROVE  ListInv'
<1>1. /\ ~Idle(k)' /\ requests'[k].op = op /\ requests'[k].at = "sent"
      /\ \A j \in Slot \ {k} :
            /\ Idle(j)' <=> Idle(j)
            /\ ~Idle(j) => /\ requests'[j].at = requests[j].at
                           /\ requests'[j].op = requests[j].op
  BY SentShaped
<1>2. \A j \in Slot \ {k} : ~Idle(j)' => ~requests'[j].alone
  BY SentAlone
<1>3. ASSUME NEW j \in Slot PROVE Lists(j)'
  BY <1>1, <1>2 DEF Lists
<1>4. ~mixed' => Idle("other")'
  BY <1>1 DEF ListInv, Slot
<1>5. ASSUME ~mixed', \A j \in Slot : Quiet(j)' PROVE ShowsLibrary'
  <2>1. \A j \in Slot \ {k} : Quiet(j)
    BY <1>1, <1>5 DEF Quiet
  <2>2. Quiet(k)
    BY <1>1, <1>5 DEF Quiet
  <2>3. ShowsLibrary /\ op # "GET"
    BY <1>1, <1>5, <2>1, <2>2 DEF ListInv, Quiet
  <2> QED
    BY <2>3 DEF ShowsLibrary, View
<1> QED
  BY <1>3, <1>4, <1>5 DEF ListInv

(* A handler but of a GET.  If it changes anything, it is quiet no more.   *)
LEMMA OnwardList ==
    ASSUME Shaped, ListInv, NEW k \in Slot, ~Idle(k), requests[k].op # "GET",
           NEW at, GoOn(k, at),
           at \in {"checked", "stored", "removed", "ok", "refused", "failed"},
           UNCHANGED <<patterns, loadError, mixed>>,
           \/ at \in {"stored", "removed", "ok"}
           \/ requests[k].at \in {"sent", "checked"} /\ UNCHANGED <<library, configs>>
    PROVE  ListInv'
<1>1. /\ requests'[k].op = requests[k].op /\ requests'[k].at = at
      /\ requests'[k] # None
      /\ \A j \in Slot \ {k} : requests'[j] = requests[j]
  BY GoneOn
<1>2. \A j \in Slot \ {k} : ~Idle(j) => ~requests[j].alone
  BY NobodyAlone
<1>3. ASSUME NEW j \in Slot PROVE Lists(j)'
  BY <1>1, <1>2 DEF Lists, Idle
<1>4. ~mixed' => Idle("other")'
  BY <1>1 DEF ListInv, Slot, Idle
<1>5. ASSUME ~mixed', \A j \in Slot : Quiet(j)' PROVE ShowsLibrary'
  <2>1. \A j \in Slot \ {k} : Quiet(j)
    BY <1>1, <1>5 DEF Quiet, Idle
  <2>2. Quiet(k)' /\ ~Idle(k)'
    BY <1>1, <1>5 DEF Idle
  <2>3. at \notin {"stored", "removed", "ok"} /\ k \in {"save", "delete"}
    BY <1>1, <2>2 DEF Quiet
  <2>4. Quiet(k) /\ UNCHANGED <<library, configs>>
    BY <2>3 DEF Quiet
  <2>5. ShowsLibrary
    BY <1>5, <2>1, <2>4 DEF ListInv
  <2> QED
    BY <2>4, <2>5 DEF ShowsLibrary, View
<1> QED
  BY <1>3, <1>4, <1>5 DEF ListInv

LEMMA ListingList ==
    ASSUME Shaped, Stored, ListInv, NEW k \in Slot, ListLibrary(k) \/ Snapshot(k)
    PROVE  ListInv'
<1>1. /\ ~Idle(k) /\ requests[k].op = "GET" /\ requests[k] \in InFlight /\ requests \in Calls
      /\ Shape(requests[k])
  BY CallTyped DEF ListLibrary, Snapshot, Pending, Shaped
<1>2. UNCHANGED <<library, configs, patterns, loadError, mixed>>
  BY DEF ListLibrary, Snapshot, serverVars, pageVars, listVars, historyVars
<1>3. PICK at \in {"listed", "ok"}, list \in Bodies \union List :
         /\ requests' = [requests EXCEPT ![k] = [requests[k] EXCEPT !.at = at, !.list = list]]
         /\ at = "listed" => list = library
         /\ at = "ok" => requests[k].at = "listed" /\ list = View(requests[k].list)
  <2>1. CASE ListLibrary(k)
    BY <2>1 DEF ListLibrary, Stored
  <2>2. CASE Snapshot(k)
    <3>1. requests[k].list \in Bodies
      BY <1>1, <2>2 DEF Snapshot, Pending, Shape
    <3>2. View(requests[k].list) \in List
      BY <3>1 DEF View, List, Entry, Bodies, Stored, Configs
    <3> QED
      BY <2>2, <3>2 DEF Snapshot, Pending
  <2> QED
    BY <2>1, <2>2
<1> DEFINE r == [requests[k] EXCEPT !.at = at, !.list = list]
<1>4. /\ r.op = "GET" /\ r.at = at /\ r.list = list /\ r.alone = requests[k].alone
      /\ r \in InFlight /\ r # None
  BY <1>1 DEF InFlight
<1> HIDE DEF r
<1>5. requests'[k] = r /\ \A j \in Slot \ {k} : requests'[j] = requests[j]
  BY <1>1, <1>3 DEF Calls, r
<1>6. ~Quiet(k)'
  BY <1>4, <1>5 DEF Quiet, Idle
<1>7. ASSUME NEW j \in Slot PROVE Lists(j)'
  <2>1. CASE j = k
    <3>1. r.alone => ~loadError /\ (at = "ok" => list = View(library))
      BY <1>1, <1>3, <1>4 DEF ListInv, Lists
    <3>2. View(library)' = View(library)
      BY <1>2 DEF View
    <3> QED
      BY <1>2, <1>3, <1>4, <1>5, <2>1, <3>1, <3>2 DEF Lists
  <2>2. CASE j # k
    <3>1. ~Idle(j) => ~requests[j].alone
      BY <1>1, <2>2, NobodyAlone
    <3> QED
      BY <1>5, <2>2, <3>1 DEF Lists, Idle
  <2> QED
    BY <2>1, <2>2
<1>8. ~mixed' => Idle("other")'
  BY <1>1, <1>2, <1>5 DEF ListInv, Slot, Idle
<1> QED
  BY <1>6, <1>7, <1>8 DEF ListInv

(* A list names what the library has, and says that it is empty.           *)
LEMMA SeenIsThere ==
    ASSUME Stored, NEW n \in Name
    PROVE  View(library)[n] = None <=> library[n] = None
<1>1. CASE library[n] = None
  BY <1>1 DEF View
<1>2. CASE library[n] # None
  <2>1. library[n] \in Body /\ configs[n] \in Config \union {None}
    BY <1>2 DEF Stored, Bodies, Configs
  <2>2. [body |-> library[n], config |-> configs[n]] \in Entry
    BY <2>1 DEF Entry
  <2>3. View(library)[n] = [body |-> library[n], config |-> configs[n]]
    BY <1>2 DEF View
  <2> QED
    BY <1>2, <2>2, <2>3, EntryAssumption
<1> QED
  BY <1>1, <1>2

LEMMA EmptyIsSeen ==
    ASSUME Stored
    PROVE  View(library) = Nothing <=> library = Nothing
<1>1. library = [n \in Name |-> library[n]]
  BY DEF Stored, Bodies
<1>2. View(library) = [n \in Name |-> View(library)[n]]
  BY DEF View
<1>3. \A n \in Name : View(library)[n] = None <=> library[n] = None
  BY SeenIsThere
<1>4. \A n \in Name : Nothing[n] = None
  BY DEF Nothing
<1>5. ASSUME library = Nothing PROVE View(library) = Nothing
  BY <1>2, <1>3, <1>4, <1>5 DEF Nothing
<1>6. ASSUME View(library) = Nothing PROVE library = Nothing
  BY <1>1, <1>3, <1>4, <1>6 DEF Nothing
<1> QED
  BY <1>5, <1>6

(* A request ends; the list may be old, or its slot was quiet.             *)
LEMMA DoneList ==
    ASSUME Shaped, ListInv, NEW k \in Slot, ~Idle(k), Done(k),
           UNCHANGED <<library, configs, patterns>>,
           mixed' \/ (mixed' = mixed /\ loadError' = loadError /\ Quiet(k))
    PROVE  ListInv'
<1>1. Idle(k)' /\ \A j \in Slot \ {k} : requests'[j] = requests[j]
  BY DoneShaped
<1>2. View(library)' = View(library)
  BY DEF View
<1>3. ASSUME NEW j \in Slot PROVE Lists(j)'
  <2>1. CASE j = k
    BY <1>1, <2>1 DEF Lists
  <2>2. CASE j # k
    BY <1>1, <2>2, NobodyAlone DEF Lists, Idle
  <2> QED
    BY <2>1, <2>2
<1>4. ~mixed' => Idle("other")'
  BY <1>1 DEF ListInv, Slot, Idle
<1>5. ASSUME ~mixed', \A j \in Slot : Quiet(j)' PROVE ShowsLibrary'
  <2>1. \A j \in Slot \ {k} : Quiet(j)
    BY <1>1, <1>5 DEF Quiet, Idle
  <2> QED
    BY <1>2, <1>5, <2>1 DEF ListInv, ShowsLibrary
<1> QED
  BY <1>3, <1>4, <1>5 DEF ListInv

LEMMA ListedList ==
    ASSUME Shaped, Stored, ListInv, NEW k \in Slot, Listed(k)
    PROVE  ListInv'
<1>1. /\ ~Idle(k) /\ requests[k].op = "GET" /\ requests[k].at = "ok" /\ Done(k)
      /\ IF requests[k].list = Nothing
         THEN loadError' = TRUE
         ELSE patterns' = requests[k].list /\ UNCHANGED loadError
      /\ mixed' = ~requests[k].alone
      /\ UNCHANGED <<library, configs>>
  BY DEF Listed, Pending, serverVars
<1>2. Idle(k)' /\ \A j \in Slot \ {k} : requests'[j] = requests[j]
  BY <1>1, DoneShaped
<1>3. View(library)' = View(library)
  BY <1>1 DEF View
<1>4. ASSUME NEW j \in Slot PROVE Lists(j)'
  <2>1. CASE j = k
    BY <1>2, <2>1 DEF Lists
  <2>2. CASE j # k
    BY <1>1, <1>2, <2>2, NobodyAlone DEF Lists, Idle
  <2> QED
    BY <2>1, <2>2
<1>5. ASSUME ~mixed' PROVE Idle("other")' /\ ShowsLibrary'
  <2>1. requests[k].alone
    BY <1>1, <1>5
  <2>2. \A j \in Slot \ {k} : Idle(j)
    BY <1>1, <2>1 DEF Shaped, Alone, OthersIdle
  <2>3. Idle("other")'
    BY <1>2, <2>2 DEF Slot, Idle
  <2>4. requests[k].list = View(library) /\ ~loadError
    BY <1>1, <2>1 DEF ListInv, Lists
  <2>5. View(library) = Nothing <=> library = Nothing
    BY EmptyIsSeen
  <2> QED
    BY <1>1, <1>3, <2>3, <2>4, <2>5 DEF ShowsLibrary
<1> QED
  BY <1>4, <1>5 DEF ListInv

(* When a fault has made the list old.                                     *)
LEMMA LoseList ==
    ASSUME Shaped, ListInv, NEW k \in Slot, Lose(k)
    PROVE  ListInv'
<1>1. /\ ~Idle(k) /\ GoOn(k, "failed") /\ mixed' = TRUE /\ UNCHANGED <<library, configs, loadError>>
  BY DEF Lose, serverVars, pageVars, listVars
<1>2. /\ requests'[k].at = "failed" /\ requests'[k].op = requests[k].op
      /\ requests'[k].alone = requests[k].alone
      /\ \A j \in Slot \ {k} : requests'[j] = requests[j]
  BY <1>1, GoneOn
<1>3. View(library)' = View(library)
  BY <1>1 DEF View
<1>4. ASSUME NEW j \in Slot PROVE Lists(j)'
  <2>1. CASE j = k
    BY <1>1, <1>2, <2>1 DEF ListInv, Lists
  <2>2. CASE j # k
    BY <1>1, <1>2, <1>3, <2>2 DEF ListInv, Lists, Idle
  <2> QED
    BY <2>1, <2>2
<1> QED
  BY <1>1, <1>4 DEF ListInv

LEMMA RestartIsNotAlone ==
    ASSUME Shaped, NEW found, Restart(found)
    PROVE  \A k \in Slot : ~Idle(k)' => ~requests'[k].alone
<1> DEFINE down(k) ==
             [requests[k] EXCEPT !.alone = FALSE,
                                 !.at = IF @ \in Errors \union {"ok"} THEN @ ELSE "failed"]
<1>1. \A k \in Slot : ~Idle(k) => ~down(k).alone
  BY CallTyped DEF InFlight
<1>2. requests' = [k \in Slot |-> IF Idle(k) THEN None ELSE down(k)]
  BY DEF Restart
<1> HIDE DEF down
<1> QED
  BY <1>1, <1>2 DEF Idle

LEMMA RestartList ==
    ASSUME Shaped, NEW found, Restart(found)
    PROVE  ListInv'
<1>1. \A k \in Slot : Lists(k)'
  BY RestartIsNotAlone DEF Lists
<1>2. mixed' = TRUE
  BY DEF Restart
<1> QED
  BY <1>1, <1>2 DEF ListInv

LEMMA SameList ==
    ASSUME ListInv, UNCHANGED <<library, configs, requests, patterns, loadError, mixed>>
    PROVE  ListInv'
<1>1. View(library)' = View(library)
  BY DEF View
<1>2. \A k \in Slot : (Lists(k)' <=> Lists(k)) /\ (Quiet(k)' <=> Quiet(k))
  BY <1>1 DEF Lists, Quiet, Idle
<1> QED
  BY <1>1, <1>2 DEF ListInv, ShowsLibrary, Idle

LEMMA HandleList == ASSUME IInv, ListInv, Handle PROVE ListInv'
<1>0. PICK k \in Slot :
         \/ LookUp(k) \/ Upsert(k) \/ Remove(k) \/ ListLibrary(k) \/ Snapshot(k)
         \/ \E flushed \in BOOLEAN : SetConfig(k, flushed) \/ DropConfig(k, flushed)
  BY DEF Handle
<1> USE DEF IInv
<1>1. CASE LookUp(k)
  <2>1. ~Idle(k) /\ requests[k].op # "GET" /\ requests[k].at = "sent"
    BY <1>1 DEF LookUp, Pending
  <2>2. GoOn(k, "checked") \/ GoOn(k, "refused")
    BY <1>1 DEF LookUp
  <2>3. UNCHANGED <<library, configs, patterns, loadError, mixed>>
    BY <1>1 DEF LookUp, serverVars, pageVars, listVars, historyVars
  <2> QED
    BY <2>1, <2>2, <2>3, OnwardList
<1>2. CASE Upsert(k)
  <2>1. ~Idle(k) /\ requests[k].op # "GET" /\ requests[k].at = "checked"
    BY <1>2 DEF Upsert, Pending
  <2>2. UNCHANGED <<configs, patterns, loadError, mixed>>
    BY <1>2 DEF Upsert, pageVars, listVars
  <2>3. CASE GoOn(k, "ok") \/ GoOn(k, "stored")
    BY <2>1, <2>2, <2>3, OnwardList
  <2>4. CASE GoOn(k, "failed") /\ UNCHANGED library
    BY <2>1, <2>2, <2>4, OnwardList
  <2> QED
    BY <1>2, <2>3, <2>4 DEF Upsert
<1>3. CASE Remove(k)
  <2>1. ~Idle(k) /\ requests[k].op # "GET" /\ requests[k].at = "sent"
    BY <1>3 DEF Remove, Pending
  <2>2. UNCHANGED <<configs, patterns, loadError, mixed>>
    BY <1>3 DEF Remove, pageVars, listVars
  <2>3. CASE GoOn(k, "removed")
    BY <2>1, <2>2, <2>3, OnwardList
  <2>4. CASE (GoOn(k, "refused") \/ GoOn(k, "failed")) /\ UNCHANGED library
    BY <2>1, <2>2, <2>4, OnwardList
  <2> QED
    BY <1>3, <2>3, <2>4 DEF Remove
<1>4. CASE ListLibrary(k) \/ Snapshot(k)
  BY <1>4, ListingList
<1>5. ASSUME NEW flushed \in BOOLEAN, SetConfig(k, flushed) \/ DropConfig(k, flushed)
      PROVE  ListInv'
  <2>1. ~Idle(k) /\ requests[k].op # "GET" /\ GoOn(k, "ok")
    BY <1>5 DEF SetConfig, DropConfig, Pending
  <2>2. UNCHANGED <<patterns, loadError, mixed>>
    BY <1>5 DEF SetConfig, DropConfig, pageVars, listVars
  <2> QED
    BY <2>1, <2>2, OnwardList
<1> QED
  BY <1>0, <1>1, <1>2, <1>3, <1>4, <1>5

LEMMA PageList == ASSUME IInv, ListInv, Page PROVE ListInv'
<1> USE DEF IInv
<1>1. ASSUME NEW k \in Slot, Listed(k) PROVE ListInv'
  BY <1>1, ListedList
<1>2. ASSUME NEW k \in Slot, ListFails(k) PROVE ListInv'
  <2>1. ~Idle(k) /\ Done(k) /\ mixed' = TRUE /\ UNCHANGED <<library, configs, patterns>>
    BY <1>2 DEF ListFails, Pending, serverVars
  <2> QED
    BY <2>1, DoneList
<1>3. CASE Retry
  <2>1. /\ Send("mount", "GET", Nameless) /\ loadError' = FALSE
        /\ "mount" \in Slot /\ "mount" # "other"
    BY <1>3 DEF Retry, LoadPatterns, Slot
  <2>2. UNCHANGED <<library, configs, patterns, mixed>>
    BY <1>3 DEF Retry, serverVars
  <2> QED
    BY <2>1, <2>2, SentList
<1>4. ASSUME \/ OpenCreate \/ CloseDialog \/ \E n \in Name : OpenEdit(n) \/ AskDelete(n)
      PROVE  ListInv'
  <2>1. UNCHANGED <<library, configs, requests, patterns, loadError, mixed>>
    BY <1>4 DEF OpenCreate, CloseDialog, OpenEdit, AskDelete, serverVars, listVars, historyVars
  <2> QED
    BY <2>1, SameList
<1>5. ASSUME NEW p \in Pattern, HandleSave(p) PROVE ListInv'
  <2>1. PICK op \in {"POST", "PUT"} : Send("save", op, p)
    BY <1>5 DEF HandleSave
  <2>2. Quiet("save") /\ "save" \in Slot /\ "save" # "other"
    BY <1>5 DEF HandleSave, Slot, Quiet
  <2>3. UNCHANGED <<library, configs, patterns, loadError, mixed>>
    BY <1>5 DEF HandleSave, serverVars, pageVars, listVars
  <2> QED
    BY <2>1, <2>2, <2>3, SentList
<1>6. CASE SaveAnswered
  <2>1. /\ Send("save", "GET", Nameless) /\ loadError' = FALSE
        /\ "save" \in Slot /\ "save" # "other"
    BY <1>6 DEF SaveAnswered, LoadPatterns, Slot
  <2>2. UNCHANGED <<library, configs, patterns, mixed>>
    BY <1>6 DEF SaveAnswered, serverVars, historyVars
  <2> QED
    BY <2>1, <2>2, SentList
<1>7. CASE SaveFails
  <2>1. ~Idle("save") /\ Done("save") /\ "save" \in Slot /\ Quiet("save")
    BY <1>7 DEF SaveFails, Fails, Pending, Slot, Errors, Quiet
  <2>2. UNCHANGED <<library, configs, patterns, loadError, mixed>>
    BY <1>7 DEF SaveFails, serverVars, pageVars, listVars, historyVars
  <2> QED
    BY <2>1, <2>2, DoneList
<1>8. CASE HandleDelete
  <2>1. Send("delete", "DELETE", Named(pendingDelete)) /\ pendingDelete \in Name
    BY <1>8 DEF HandleDelete, Shown
  <2>2. Quiet("delete") /\ "delete" \in Slot /\ "delete" # "other"
    BY <1>8 DEF HandleDelete, Slot, Quiet
  <2>3. UNCHANGED <<library, configs, patterns, loadError, mixed>>
    BY <1>8 DEF HandleDelete, serverVars, pageVars, listVars
  <2> QED
    BY <2>1, <2>2, <2>3, SentList
<1>9. CASE DeleteAnswered
  <2>1. /\ Send("delete", "GET", Nameless) /\ loadError' = FALSE
        /\ "delete" \in Slot /\ "delete" # "other"
    BY <1>9 DEF DeleteAnswered, LoadPatterns, Slot
  <2>2. UNCHANGED <<library, configs, patterns, mixed>>
    BY <1>9 DEF DeleteAnswered, serverVars, historyVars
  <2> QED
    BY <2>1, <2>2, SentList
<1>10. CASE DeleteFails
  <2>1. ~Idle("delete") /\ Done("delete") /\ "delete" \in Slot /\ Quiet("delete")
    BY <1>10 DEF DeleteFails, Fails, Pending, Slot, Errors, Quiet
  <2>2. UNCHANGED <<library, configs, patterns, loadError, mixed>>
    BY <1>10 DEF DeleteFails, serverVars, pageVars, listVars, historyVars
  <2> QED
    BY <2>1, <2>2, DoneList
<1>11. ASSUME \/ \E file \in File : OnImportFile(file)
              \/ FileReadFails
       PROVE  ListInv'
  <2>1. UNCHANGED <<library, configs, requests, patterns, loadError, mixed>>
    BY <1>11 DEF OnImportFile, FileReadFails, serverVars, listVars, historyVars
  <2> QED
    BY <2>1, SameList
<1>12. CASE FileRead
  <2>1. import.file \in Seq(Pattern) /\ import.file[1] \in Pattern
    BY <1>12 DEF FileRead, ImportTyped, Importing
  <2>2. PICK op \in {"POST", "PUT"} : Send("import", op, import.file[1])
    BY <1>12 DEF FileRead, SendPattern
  <2>3. UNCHANGED <<library, configs, patterns, loadError, mixed>>
    BY <1>12 DEF FileRead, serverVars, listVars, historyVars
  <2>4. "import" \in Slot /\ "import" \notin {"other", "save", "delete"}
    BY DEF Slot
  <2> QED
    BY <2>1, <2>2, <2>3, <2>4, SentList
<1>13. CASE ImportAnswered
  <2>1. UNCHANGED <<library, configs, patterns, mixed>>
    BY <1>13 DEF ImportAnswered, serverVars, historyVars
  <2>2. ImportRuns /\ import.todo \in Seq(Pattern)
    BY <1>13 DEF ImportAnswered, Fails, Pending, ImportRuns, ImportTyped, Importing
  <2>3. \/ Send("import", "GET", Nameless) /\ loadError' = FALSE
        \/ \E op \in {"POST", "PUT"} : /\ Send("import", op, import.todo[2])
                                       /\ import.todo[2] \in Pattern /\ loadError' = loadError
    BY <1>13, <2>2 DEF ImportAnswered, SendPattern, LoadPatterns
  <2>4. "import" \in Slot /\ "import" \notin {"other", "save", "delete"}
    BY DEF Slot
  <2> QED
    BY <2>1, <2>3, <2>4, SentList
<1> QED
  BY <1>1, <1>2, <1>3, <1>4, <1>5, <1>6, <1>7, <1>8, <1>9, <1>10, <1>11, <1>12, <1>13 DEF Page

LEMMA NextList == ASSUME IInv, ListInv, [Next]_vars PROVE ListInv'
<1> USE DEF IInv
<1>1. ASSUME NEW op \in {"POST", "PUT", "DELETE"}, NEW p, OtherSends(op, p),
             \/ op \in {"POST", "PUT"} /\ p \in Pattern
             \/ op = "DELETE" /\ \E n \in Name : p = Named(n)
      PROVE  ListInv'
  <2>1. /\ Send("other", op, p) /\ mixed' = TRUE
        /\ UNCHANGED <<library, configs, patterns, loadError>>
    BY <1>1 DEF OtherSends, serverVars, pageVars, listVars
  <2>2. "other" \in Slot /\ "other" \notin {"save", "delete"}
    BY DEF Slot
  <2> QED
    BY <1>1, <2>1, <2>2, SentList
<1>2. CASE OtherAnswered
  <2>1. /\ ~Idle("other") /\ Done("other")
        /\ UNCHANGED <<library, configs, patterns, mixed>>
    BY <1>2 DEF OtherAnswered, serverVars, pageVars, listVars, historyVars
  <2>2. mixed' /\ "other" \in Slot
    BY <2>1 DEF ListInv, Slot
  <2> QED
    BY <2>1, <2>2, DoneList
<1>3. CASE UNCHANGED vars
  BY <1>3, SameList DEF vars, serverVars, pageVars, listVars, historyVars
<1> QED
  BY <1>1, <1>2, <1>3, HandleList, PageList, LoseList, RestartList DEF Next

-----------------------------------------------------------------------------
(* The import: each step keeps ImportInv.                                  *)

(* A step of another request keeps no import apart from it.                *)
LEMMA ImportAside ==
    ASSUME Shaped, ImportSends, NEW k \in Slot \ {"import"}, ~Idle(k),
           requests'["import"] = requests["import"]
    PROVE  ImportInv'
<1>1. ~Idle("import") => ~requests["import"].alone
  BY NobodyAlone DEF Slot
<1>2. ~Takes'
  BY <1>1 DEF Takes, ImportRuns, Idle
<1>3. ImportSends'
  BY DEF ImportSends, Idle
<1> QED
  BY <1>2, <1>3 DEF ImportInv

LEMMA ImportOvertaken ==
    ASSUME Shaped, ImportSends, NEW k \in Slot \ {"import"},
           NEW op \in {"GET", "POST", "PUT", "DELETE"}, NEW p,
           \/ op = "GET" /\ p = Nameless
           \/ op \in {"POST", "PUT"} /\ p \in Pattern
           \/ op = "DELETE" /\ \E n \in Name : p = Named(n),
           Send(k, op, p)
    PROVE  ImportInv'
<1>1. "import" \in Slot \ {k}
  BY DEF Slot
<1>2. ~Idle("import")' => ~requests'["import"].alone
  BY <1>1, SentAlone
<1>3. /\ Idle("import")' <=> Idle("import")
      /\ ~Idle("import") => /\ requests'["import"].at = requests["import"].at
                            /\ requests'["import"].op = requests["import"].op
  BY <1>1, SentShaped
<1>4. ~Takes'
  BY <1>2 DEF Takes, ImportRuns
<1>5. ImportSends'
  BY <1>3 DEF ImportSends
<1> QED
  BY <1>4, <1>5 DEF ImportInv

(* A handler of another request goes on.                                   *)
LEMMA ImportUntouched ==
    ASSUME Shaped, ImportSends, NEW k \in Slot \ {"import"}, ~Idle(k), NEW at, GoOn(k, at),
           at \in {"checked", "stored", "removed", "ok", "refused", "failed"}
    PROVE  ImportInv'
<1>1. requests'["import"] = requests["import"]
  BY GoneOn DEF Slot
<1> QED
  BY <1>1, ImportAside

(* What the import knows depends on the library, the list and the file.    *)
LEMMA SameImport ==
    ASSUME ImportInv, UNCHANGED <<library, requests, patterns, mixed, import>>
    PROVE  ImportInv'
<1>1. ImportSends' /\ (Takes' => Takes)
  BY DEF ImportInv, ImportSends, Takes, ImportRuns, Idle
<1>2. ASSUME Takes' PROVE ImportKnows(Pat("import").name, requests["import"])'
  <2>1. ImportKnows(Pat("import").name, requests["import"])
    BY <1>1, <1>2 DEF ImportInv
  <2> QED
    BY <2>1 DEF ImportKnows, FileNames, LibraryNames, Known, Lowered, Pat
<1> QED
  BY <1>1, <1>2 DEF ImportInv

(* The import itself goes on: it is alone only if it was.                  *)
LEMMA ImportGone ==
    ASSUME Shaped, ImportSends, ~Idle("import"), requests["import"].op \in {"POST", "PUT"},
           NEW at, GoOn("import", at),
           at \in {"checked", "stored", "ok", "refused", "failed"},
           UNCHANGED <<import, mixed>>
    PROVE  /\ ImportSends' /\ (Takes' => Takes)
           /\ requests'["import"].at = at
           /\ requests'["import"].op = requests["import"].op
           /\ requests'["import"].pattern = requests["import"].pattern
<1>1. /\ requests'["import"] # None /\ requests'["import"].op = requests["import"].op
      /\ requests'["import"].at = at /\ requests'["import"].alone = requests["import"].alone
      /\ requests'["import"].pattern = requests["import"].pattern
  BY GoneOn DEF Slot
<1>2. ImportSends'
  BY <1>1 DEF ImportSends
<1>3. Takes' => Takes
  BY <1>1 DEF Takes, ImportRuns
<1> QED
  BY <1>1, <1>2, <1>3

LEMMA ImportLooksUp == ASSUME Shaped, ImportInv, LookUp("import") PROVE ImportInv'
<1> DEFINE r == requests["import"]
<1>1. ~Idle("import") /\ r.op \in {"POST", "PUT"} /\ r.at = "sent"
  BY DEF LookUp, Pending
<1>2. UNCHANGED <<library, patterns, import, mixed>>
  BY DEF LookUp, serverVars, pageVars, listVars, historyVars
<1>3. PICK at \in {"checked", "refused"} :
         /\ GoOn("import", at)
         /\ at = "refused" => (library[r.pattern.name] = None <=> r.op = "PUT")
  BY <1>1 DEF LookUp, Pat
<1>4. /\ ImportSends' /\ (Takes' => Takes)
      /\ r'.at = at /\ r'.op = r.op /\ r'.pattern = r.pattern
  BY <1>1, <1>2, <1>3, ImportGone DEF ImportInv
<1>5. ASSUME Takes' PROVE ImportKnows(r.pattern.name, r)'
  <2>1. ImportKnows(r.pattern.name, r)
    BY <1>4, <1>5 DEF ImportInv, Pat
  <2> HIDE DEF r
  <2> QED
    BY <1>1, <1>2, <1>3, <1>4, <2>1 DEF ImportKnows, FileNames, LibraryNames, Known, Lowered
<1> QED
  BY <1>4, <1>5 DEF ImportInv, Pat

(* The pattern it stores is one of its file.                               *)
LEMMA ImportStores == ASSUME Stored, Shaped, ImportInv, Upsert("import") PROVE ImportInv'
<1> DEFINE r == requests["import"]
           n == r.pattern.name
<1>1. ~Idle("import") /\ r.op \in {"POST", "PUT"} /\ r.at = "checked"
  BY DEF Upsert, Pending
<1>2. r.pattern \in Pattern
  BY <1>1, CallTyped DEF Shape, Slot
<1>3. UNCHANGED <<patterns, import, mixed>>
  BY DEF Upsert, pageVars, listVars
<1>4. PICK at \in {"stored", "ok", "failed"} :
         /\ GoOn("import", at)
         /\ \/ at # "failed" /\ library' = [library EXCEPT ![n] = r.pattern.body]
            \/ at = "failed" /\ library' = library
  BY DEF Upsert, Pat
<1>5. /\ ImportSends' /\ (Takes' => Takes)
      /\ r'.at = at /\ r'.op = r.op /\ r'.pattern = r.pattern
  BY <1>1, <1>3, <1>4, ImportGone DEF ImportInv
<1>6. ASSUME Takes' PROVE ImportKnows(r.pattern.name, r)'
  <2>1. ImportKnows(n, r)
    BY <1>5, <1>6 DEF ImportInv, Pat
  <2>2. n \in Name /\ r.pattern.body \in Body /\ library \in [Name -> Body \union {None}]
    BY <1>2 DEF Pattern, Stored, Bodies
  <2> HIDE DEF r
  <2>3. CASE at # "failed"
    <3>1. LibraryNames' = LibraryNames \union {n}
      BY <1>4, <2>2, <2>3 DEF LibraryNames
    <3>2. Lowered(LibraryNames)' = Lowered(LibraryNames) \union {Lower[n]}
      BY <3>1 DEF Lowered
    <3>3. /\ n \in FileNames /\ LibraryNames \subseteq Known \union FileNames
          /\ Lowered(LibraryNames) = import.existing
      BY <1>1, <2>1 DEF ImportKnows
    <3>4. FileNames' = FileNames /\ Known' = Known
      BY <1>3 DEF FileNames, Known
    <3>5. /\ (n \in FileNames)' /\ (LibraryNames \subseteq Known \union FileNames)'
          /\ (Lowered(LibraryNames) = import.existing \union {Lower[n]})'
      BY <1>3, <1>5, <3>1, <3>2, <3>3, <3>4
    <3>6. /\ (\A i \in DOMAIN import.todo : import.todo[i].name \in FileNames)'
          /\ (r.op = "PUT" <=> Lower[n] \in import.existing)'
      BY <1>3, <1>5, <2>1, <3>4 DEF ImportKnows
    <3>7. (r.at \in {"stored", "ok"})'
      BY <1>4, <1>5, <2>3
    <3> QED
      BY <3>5, <3>6, <3>7 DEF ImportKnows
  <2>4. CASE at = "failed"
    <3>1. LibraryNames' = LibraryNames
      BY <1>4, <2>4 DEF LibraryNames
    <3> QED
      BY <1>1, <1>3, <1>4, <1>5, <2>1, <2>4, <3>1 DEF ImportKnows, FileNames, Known, Lowered
  <2> QED
    BY <2>3, <2>4
<1> QED
  BY <1>5, <1>6 DEF ImportInv, Pat

LEMMA ImportConfigures ==
    ASSUME Shaped, ImportInv, NEW flushed, SetConfig("import", flushed)
    PROVE  ImportInv'
<1> DEFINE r == requests["import"]
<1>1. ~Idle("import") /\ r.op \in {"POST", "PUT"} /\ r.at = "stored" /\ GoOn("import", "ok")
  BY DEF SetConfig, Pending
<1>2. UNCHANGED <<library, patterns, import, mixed>>
  BY DEF SetConfig, pageVars, listVars
<1>3. /\ ImportSends' /\ (Takes' => Takes)
      /\ r'.at = "ok" /\ r'.op = r.op /\ r'.pattern = r.pattern
  BY <1>1, <1>2, ImportGone DEF ImportInv
<1>4. ASSUME Takes' PROVE ImportKnows(r.pattern.name, r)'
  <2>1. ImportKnows(r.pattern.name, r)
    BY <1>3, <1>4 DEF ImportInv, Pat
  <2> HIDE DEF r
  <2> QED
    BY <1>1, <1>2, <1>3, <2>1 DEF ImportKnows, FileNames, LibraryNames, Known, Lowered
<1> QED
  BY <1>3, <1>4 DEF ImportInv, Pat

(* A page that rests knows the names of the library.                       *)
LEMMA RestingKnows ==
    ASSUME Stored, ListInv, ~mixed, ~Stale, \A k \in Slot : Idle(k)
    PROVE  Known = LibraryNames
<1>1. ShowsLibrary
  BY DEF ListInv, Quiet
<1>2. CASE library = Nothing
  <2>1. LibraryNames = {}
    BY <1>2 DEF LibraryNames, Nothing
  <2> QED
    BY <1>1, <1>2, <2>1 DEF ShowsLibrary, Stale
<1>3. CASE library # Nothing
  BY <1>1, <1>3, SeenIsThere DEF ShowsLibrary, Known, LibraryNames
<1> QED
  BY <1>2, <1>3

(* While the file is read nothing is sent.                                 *)
LEMMA ImportReads ==
    ASSUME ImportInv, Idle("import"), UNCHANGED requests
    PROVE  ImportInv'
BY DEF ImportInv, ImportSends, Takes, ImportRuns, Idle

LEMMA ImportBegins ==
    ASSUME IInv, PageInv, FileRead
    PROVE  ImportInv'
<1> DEFINE r == requests["import"]
<1> USE DEF IInv
<1>1. PICK file \in File : file = import.file
  BY DEF FileRead, ImportTyped, Importing
<1>2. /\ Idle("import") /\ "import" \in Slot /\ import \in Importing
      /\ import.todo = file
  BY <1>1 DEF FileRead, ImportTyped, Slot
<1>3. file \in Seq(Pattern) /\ file # << >> /\ file[1] \in Pattern /\ 1 \in DOMAIN file
  OBVIOUS
<1>4. PICK op \in {"POST", "PUT"} :
         /\ op = "PUT" <=> Lower[file[1].name] \in import.existing
         /\ Send("import", op, file[1])
  BY <1>1 DEF FileRead, SendPattern
<1>5. PICK clean \in BOOLEAN :
         /\ clean => ~mixed /\ ~Stale /\ import.existing = Lowered(Known)
         /\ import' = [import EXCEPT !.reading = FALSE, !.clean = clean]
  BY DEF FileRead
<1>6. /\ import'.file = file /\ import'.todo = file /\ import'.existing = import.existing
      /\ import'.clean = clean
  BY <1>1, <1>2, <1>5 DEF Importing
<1>7. UNCHANGED <<library, patterns, mixed>>
  BY DEF FileRead, serverVars, listVars, historyVars
<1>8. ~Idle("import")' /\ r'.op = op /\ r'.at = "sent"
  BY <1>2, <1>3, <1>4, SentShaped
<1>9. r'.pattern = file[1] /\ (r'.alone => OthersIdle("import"))
  BY <1>2, <1>3, <1>4, SentAlone
<1>10. ImportSends'
  BY <1>8 DEF ImportSends
<1>11. ASSUME Takes' PROVE ImportKnows(r.pattern.name, r)'
  <2>1. ~mixed /\ ~Stale /\ import.existing = Lowered(Known) /\ \A k \in Slot : Idle(k)
    BY <1>2, <1>5, <1>6, <1>9, <1>11 DEF Takes, OthersIdle
  <2>2. Known = LibraryNames
    BY <2>1, RestingKnows DEF PageInv
  <2>3. Known' = Known /\ LibraryNames' = LibraryNames
    BY <1>7 DEF Known, LibraryNames
  <2>4. import'.existing = Lowered(Known)
    BY <1>6, <2>1
  <2>5. FileNames' = {file[i].name : i \in DOMAIN file}
    BY <1>6 DEF FileNames
  <2>6. file[1].name \in FileNames' /\ \A i \in DOMAIN file : file[i].name \in FileNames'
    BY <1>3, <2>5
  <2>7. Lowered(LibraryNames)' = Lowered(Known)
    BY <2>2, <2>3 DEF Lowered
  <2>8. (r.op = "PUT" <=> Lower[r.pattern.name] \in import.existing)'
    BY <1>4, <1>6, <1>8, <1>9
  <2>9. /\ (r.pattern.name \in FileNames)'
        /\ (\A i \in DOMAIN import.todo : import.todo[i].name \in FileNames)'
        /\ (LibraryNames \subseteq Known \union FileNames)'
    BY <1>6, <1>9, <2>2, <2>3, <2>6
  <2>10. r'.at = "sent" /\ (Lowered(LibraryNames) = import.existing)'
    BY <1>8, <2>4, <2>7
  <2> QED
    BY <2>8, <2>9, <2>10 DEF ImportKnows
<1> QED
  BY <1>10, <1>11 DEF ImportInv, Pat

(* The next pattern of the file, or the list.                              *)
LEMMA ImportGoesOn == ASSUME IInv, ImportInv, ImportAnswered PROVE ImportInv'
<1> DEFINE r == requests["import"]
<1> USE DEF IInv
<1>1. /\ ~Idle("import") /\ r.op \in {"POST", "PUT"} /\ "import" \in Slot
      /\ r.at = "ok" \/ r.at \in {"refused", "failed"}
  BY DEF ImportAnswered, Fails, Pending, Slot, Errors
<1>2. import \in Importing /\ ImportRuns
  BY <1>1 DEF ImportTyped, ImportRuns
<1>3. PICK existing :
         /\ existing = IF r.at = "ok" THEN Existing(r.pattern) ELSE import.existing
         /\ IF Len(import.todo) > 1
            THEN /\ import' = [import EXCEPT !.todo = Tail(@), !.existing = existing]
                 /\ SendPattern(import.todo[2], existing)
            ELSE LoadPatterns("import")
  BY DEF ImportAnswered, Pat
<1>4. UNCHANGED <<library, patterns, mixed>>
  BY DEF ImportAnswered, serverVars, historyVars
<1>5. CASE Len(import.todo) > 1
  <2>1. import.todo \in Seq(Pattern) /\ import.todo[2] \in Pattern
    BY <1>2, <1>5 DEF Importing
  <2>2. PICK op \in {"POST", "PUT"} :
           /\ op = "PUT" <=> Lower[import.todo[2].name] \in existing
           /\ Send("import", op, import.todo[2])
    BY <1>3, <1>5 DEF SendPattern
  <2>3. ~Idle("import")' /\ r'.op = op /\ r'.at = "sent"
    BY <1>1, <2>1, <2>2, SentShaped
  <2>4. r'.pattern = import.todo[2] /\ (r'.alone => r.alone)
    BY <1>1, <2>1, <2>2, SentAlone
  <2>5. ImportSends'
    BY <2>3 DEF ImportSends
  <2>6. /\ import'.file = import.file /\ import'.todo = Tail(import.todo)
        /\ import'.existing = existing /\ import'.clean = import.clean
    BY <1>2, <1>3, <1>5 DEF Importing
  <2>7. ASSUME Takes' PROVE ImportKnows(r.pattern.name, r)'
    <3>1. ImportKnows(r.pattern.name, r)
      BY <1>2, <1>4, <2>4, <2>6, <2>7 DEF Takes, ImportInv, Pat
    <3>2. existing = Lowered(LibraryNames)
      BY <1>1, <1>3, <3>1 DEF ImportKnows, Existing
    <3>3. Known' = Known /\ LibraryNames' = LibraryNames /\ FileNames' = FileNames
      BY <1>4, <2>6 DEF Known, LibraryNames, FileNames
    <3>4. Lowered(LibraryNames)' = Lowered(LibraryNames)
      BY <3>3 DEF Lowered
    <3>5. \A i \in DOMAIN import.todo : import.todo[i].name \in FileNames
      BY <3>1 DEF ImportKnows
    <3>6. \A i \in DOMAIN Tail(import.todo) : /\ i + 1 \in DOMAIN import.todo
                                              /\ Tail(import.todo)[i] = import.todo[i + 1]
      BY <1>5, <2>1
    <3>7. 2 \in DOMAIN import.todo
      BY <1>5, <2>1
    <3>8. /\ (r.pattern.name \in FileNames)'
          /\ (\A i \in DOMAIN import.todo : import.todo[i].name \in FileNames)'
      BY <2>4, <2>6, <3>3, <3>5, <3>6, <3>7
    <3>9. (LibraryNames \subseteq Known \union FileNames)'
      BY <3>1, <3>3 DEF ImportKnows
    <3>10. (r.op = "PUT" <=> Lower[r.pattern.name] \in import.existing)'
      BY <2>2, <2>3, <2>4, <2>6
    <3>11. r'.at = "sent" /\ (Lowered(LibraryNames) = import.existing)'
      BY <2>3, <2>6, <3>2, <3>4
    <3> QED
      BY <3>8, <3>9, <3>10, <3>11 DEF ImportKnows
  <2> QED
    BY <2>5, <2>7 DEF ImportInv, Pat
<1>6. CASE ~(Len(import.todo) > 1)
  <2>1. Send("import", "GET", Nameless)
    BY <1>3, <1>6 DEF LoadPatterns
  <2>2. ~Idle("import")' /\ r'.op = "GET" /\ r'.at = "sent"
    BY <1>1, <2>1, SentShaped
  <2> QED
    BY <2>2 DEF ImportInv, ImportSends, Takes, ImportRuns
<1> QED
  BY <1>5, <1>6

LEMMA ImportHandled == ASSUME IInv, ImportInv, Handle PROVE ImportInv'
<1> USE DEF IInv
<1>1. PICK k \in Slot :
         \/ LookUp(k) \/ Upsert(k) \/ Remove(k) \/ ListLibrary(k) \/ Snapshot(k)
         \/ \E flushed \in BOOLEAN : SetConfig(k, flushed) \/ DropConfig(k, flushed)
  BY DEF Handle
<1>2. ~Idle(k) /\ ImportSends
  BY <1>1 DEF LookUp, Upsert, Remove, ListLibrary, Snapshot, SetConfig, DropConfig, Pending,
              ImportInv
<1>3. CASE k # "import"
  <2>1. CASE ListLibrary(k) \/ Snapshot(k)
    <3>1. requests'["import"] = requests["import"]
      <4>1. requests \in Calls /\ "import" \in Slot \ {k}
        BY <1>3 DEF Shaped, Slot
      <4> QED
        BY <2>1, <4>1 DEF ListLibrary, Snapshot, Calls
    <3> QED
      BY <1>2, <1>3, <3>1, ImportAside
  <2>2. CASE ~(ListLibrary(k) \/ Snapshot(k))
    <3>1. PICK at \in {"checked", "stored", "removed", "ok", "refused", "failed"} : GoOn(k, at)
      BY <1>1, <2>2 DEF LookUp, Upsert, Remove, SetConfig, DropConfig
    <3> QED
      BY <1>2, <1>3, <3>1, ImportUntouched
  <2> QED
    BY <2>1, <2>2
<1>4. CASE k = "import"
  <2>1. CASE LookUp(k)
    BY <1>4, <2>1, ImportLooksUp
  <2>2. CASE Upsert(k)
    BY <1>4, <2>2, ImportStores
  <2>3. CASE \E flushed \in BOOLEAN : SetConfig(k, flushed)
    BY <1>4, <2>3, ImportConfigures
  <2>4. CASE Remove(k) \/ \E flushed \in BOOLEAN : DropConfig(k, flushed)
    BY <1>2, <1>4, <2>4 DEF Remove, DropConfig, Pending, ImportSends
  <2>5. CASE ListLibrary(k) \/ Snapshot(k)
    <3>1. requests["import"].op = "GET" /\ requests["import"] \in InFlight
          /\ requests \in Calls /\ "import" \in Slot
      BY <1>2, <1>4, <2>5, CallTyped DEF ListLibrary, Snapshot, Pending, Shaped, Slot
    <3>2. Kept
      BY <2>5, ListingIsStill
    <3>3. ~Takes'
      BY <3>1, <3>2 DEF Kept, Takes, ImportRuns
    <3>4. PICK at \in {"listed", "ok"} : requests'["import"].op = "GET"
                                         /\ requests'["import"].at = at
      BY <1>4, <2>5, <3>1 DEF ListLibrary, Snapshot, Calls, InFlight
    <3> QED
      BY <3>3, <3>4 DEF ImportInv, ImportSends
  <2> QED
    BY <1>1, <2>1, <2>2, <2>3, <2>4, <2>5
<1> QED
  BY <1>3, <1>4

(* After a fault the list may be old, and no import is known to be taken.  *)
LEMMA ImportFaults ==
    ASSUME Shaped, ImportSends, \/ \E k \in Slot : Lose(k)
                                \/ \E found \in {sideFile, Garbage} : Restart(found)
    PROVE  ImportInv'
<1>1. ~Takes'
  BY DEF Lose, Restart, Takes
<1>2. "import" \in Slot
  BY DEF Slot
<1>3. ASSUME NEW k \in Slot, Lose(k) PROVE ImportSends'
  <2>1. ~Idle(k) /\ GoOn(k, "failed")
    BY <1>3 DEF Lose
  <2>2. /\ requests'[k] # None /\ requests'[k].op = requests[k].op
        /\ requests'[k].at = "failed"
        /\ \A j \in Slot \ {k} : requests'[j] = requests[j]
    BY <2>1, GoneOn
  <2> QED
    BY <1>2, <2>1, <2>2 DEF ImportSends, Idle
<1>4. ASSUME NEW found, Restart(found) PROVE ImportSends'
  <2> DEFINE down(k) ==
               [requests[k] EXCEPT !.alone = FALSE,
                                   !.at = IF @ \in Errors \union {"ok"} THEN @ ELSE "failed"]
  <2>1. \A k \in Slot : ~Idle(k) => /\ down(k).op = requests[k].op
                                    /\ down(k).at = "refused" => requests[k].at = "refused"
    BY CallTyped DEF InFlight, Errors
  <2>2. requests' = [k \in Slot |-> IF Idle(k) THEN None ELSE down(k)]
    BY <1>4 DEF Restart
  <2> HIDE DEF down
  <2>3. requests'["import"] = IF Idle("import") THEN None ELSE down("import")
    BY <1>2, <2>2
  <2> QED
    BY <1>2, <2>1, <2>3 DEF ImportSends, Idle
<1> QED
  BY <1>1, <1>3, <1>4 DEF ImportInv

(* A request of the page, or of somebody else, ends.                       *)
LEMMA ImportAfterDone ==
    ASSUME Shaped, ImportSends, NEW k \in Slot, ~Idle(k), Done(k)
    PROVE  ImportInv'
<1>1. Idle(k)' /\ \A j \in Slot \ {k} : requests'[j] = requests[j]
  BY DoneShaped
<1>2. CASE k = "import"
  BY <1>1, <1>2 DEF ImportInv, ImportSends, Takes, ImportRuns
<1>3. CASE k # "import"
  BY <1>1, <1>3, ImportAside DEF Slot
<1> QED
  BY <1>2, <1>3

LEMMA ImportOnPage == ASSUME IInv, PageInv, Page PROVE ImportInv'
<1> USE DEF IInv, PageInv
<1>0. ImportSends
  BY DEF ImportInv
<1>1. ASSUME NEW k \in Slot, Listed(k) \/ ListFails(k) PROVE ImportInv'
  <2>1. ~Idle(k) /\ Done(k)
    BY <1>1 DEF Listed, ListFails, Pending
  <2> QED
    BY <1>0, <2>1, ImportAfterDone
<1>2. CASE Retry \/ SaveAnswered \/ DeleteAnswered
  <2>1. PICK k \in {"mount", "save", "delete"} : Send(k, "GET", Nameless)
    BY <1>2 DEF Retry, SaveAnswered, DeleteAnswered, LoadPatterns
  <2>2. k \in Slot \ {"import"}
    BY DEF Slot
  <2> QED
    BY <1>0, <2>1, <2>2, ImportOvertaken
<1>3. ASSUME \/ OpenCreate \/ CloseDialog \/ \E n \in Name : OpenEdit(n) \/ AskDelete(n)
      PROVE  ImportInv'
  <2>1. UNCHANGED <<library, requests, patterns, mixed, import>>
    BY <1>3 DEF OpenCreate, CloseDialog, OpenEdit, AskDelete, serverVars, listVars, historyVars
  <2> QED
    BY <2>1, SameImport
<1>4. ASSUME NEW p \in Pattern, HandleSave(p) PROVE ImportInv'
  <2>1. PICK op \in {"POST", "PUT"} : Send("save", op, p)
    BY <1>4 DEF HandleSave
  <2>2. "save" \in Slot \ {"import"}
    BY DEF Slot
  <2> QED
    BY <1>0, <2>1, <2>2, ImportOvertaken
<1>5. CASE HandleDelete
  <2>1. Send("delete", "DELETE", Named(pendingDelete)) /\ pendingDelete \in Name
    BY <1>5 DEF HandleDelete, Shown
  <2>2. "delete" \in Slot \ {"import"}
    BY DEF Slot
  <2> QED
    BY <1>0, <2>1, <2>2, ImportOvertaken
<1>6. CASE SaveFails \/ DeleteFails
  <2>1. PICK k \in {"save", "delete"} : ~Idle(k) /\ Done(k)
    BY <1>6 DEF SaveFails, DeleteFails, Fails, Pending
  <2>2. k \in Slot
    BY DEF Slot
  <2> QED
    BY <1>0, <2>1, <2>2, ImportAfterDone
<1>7. ASSUME \/ \E file \in File : OnImportFile(file)
             \/ FileReadFails
      PROVE  ImportInv'
  <2>1. Idle("import") /\ UNCHANGED requests
    BY <1>7 DEF OnImportFile, FileReadFails, ImportTyped
  <2> QED
    BY <2>1, ImportReads
<1>8. CASE FileRead
  BY <1>8, ImportBegins
<1>9. CASE ImportAnswered
  BY <1>9, ImportGoesOn
<1> QED
  BY <1>1, <1>2, <1>3, <1>4, <1>5, <1>6, <1>7, <1>8, <1>9 DEF Page

LEMMA NextImport == ASSUME IInv, PageInv, [Next]_vars PROVE ImportInv'
<1> USE DEF IInv, PageInv
<1>0. ImportSends /\ "other" \in Slot \ {"import"}
  BY DEF ImportInv, Slot
<1>1. ASSUME NEW op \in {"POST", "PUT", "DELETE"}, NEW p, OtherSends(op, p),
             \/ op \in {"POST", "PUT"} /\ p \in Pattern
             \/ op = "DELETE" /\ \E n \in Name : p = Named(n)
      PROVE  ImportInv'
  <2>1. Send("other", op, p)
    BY <1>1 DEF OtherSends
  <2> QED
    BY <1>0, <1>1, <2>1, ImportOvertaken
<1>2. CASE OtherAnswered
  BY <1>0, <1>2, ImportAfterDone DEF OtherAnswered
<1>3. CASE UNCHANGED vars
  BY <1>3, SameImport DEF vars, serverVars, pageVars, listVars, historyVars
<1> QED
  BY <1>0, <1>1, <1>2, <1>3, ImportHandled, ImportOnPage, ImportFaults DEF Next

LEMMA InitPage == Init => PageInv
<1> SUFFICES ASSUME Init PROVE PageInv
  OBVIOUS
<1>1. mixed = TRUE /\ requests["import"] = None
  BY DEF Init, Slot
<1>2. \A k \in Slot : ~Idle(k) => requests[k].at = "sent"
  BY DEF Init, Idle
<1>3. ListInv
  BY <1>1, <1>2 DEF ListInv, Lists, Init
<1>4. ImportInv
  BY <1>1 DEF ImportInv, ImportSends, Takes, Idle
<1> QED
  BY <1>3, <1>4 DEF PageInv

(* What the page knows at every step, with the types it rests on.          *)
LEMMA PageHoldsOn == Spec => [](IInv /\ PageInv)
<1>1. Init => IInv /\ PageInv
  BY InitHolds, InitPage
<1>2. IInv /\ PageInv /\ [Next]_vars => (IInv /\ PageInv)'
  BY NextHolds, NextList, NextImport DEF PageInv
<1> QED
  BY <1>1, <1>2, PTL DEF Spec

(* A page that rests shows the library as it is, with the configurations   *)
(* that an edit sends back: after what it created, changed, deleted or     *)
(* imported itself it has loaded the list again, however many patterns and *)
(* names there are, and in whatever order its requests were handled.  If   *)
(* the library is empty it shows an error.                                 *)
THEOREM PageShowsLibrary == Spec => []ListIsLibrary
<1>1. PageInv => ListIsLibrary
  BY DEF PageInv, ListInv, Quiet, ShowsLibrary, ListIsLibrary
<1> QED
  BY <1>1, PageHoldsOn, PTL

(* No pattern of an imported file is refused, of whatever files: the page  *)
(* knows what to create and what to update, from the list it had and from  *)
(* what of the file the server has taken so far, if the list was still its *)
(* own when the file was read; but for names that differ in case only, of  *)
(* which there are then two.                                               *)
THEOREM ImportsAreTaken == Spec => []ImportIsTaken
<1>1. IInv /\ PageInv => ImportIsTaken
  <2> DEFINE r == requests["import"]
             name == r.pattern.name
  <2> SUFFICES ASSUME Shaped, PageInv, ~Idle("import"), import.clean, ~mixed, r.alone,
                      r.at = "refused"
               PROVE  \E n \in Known \union FileNames : n # name /\ Lower[n] = Lower[name]
    BY DEF IInv, ImportIsTaken, FileNames
  <2>1. ImportKnows(name, r) /\ r.op \in {"POST", "PUT"}
    BY DEF PageInv, ImportInv, ImportSends, Takes, ImportRuns, Pat
  <2>2. name \in Name
    BY <2>1, CallTyped DEF Shape, Pattern, Slot
  <2>3. /\ LibraryNames \subseteq Known \union FileNames
        /\ r.op = "PUT" <=> Lower[name] \in Lowered(LibraryNames)
        /\ library[name] = None <=> r.op = "PUT"
    BY <2>1 DEF ImportKnows
  <2> HIDE DEF r, name
  <2>4. r.op = "PUT" /\ library[name] = None
    BY <2>1, <2>2, <2>3 DEF LibraryNames, Lowered
  <2>5. PICK n \in LibraryNames : Lower[n] = Lower[name]
    BY <2>3, <2>4 DEF Lowered
  <2>6. n # name
    BY <2>4, <2>5 DEF LibraryNames
  <2> QED
    BY <2>3, <2>5, <2>6
<1> QED
  BY <1>1, PageHoldsOn, PTL

=============================================================================
