---------------------------- MODULE TimeResolver ----------------------------
(***************************************************************************)
(* Package timeresolve: the time of a line is put together from what the   *)
(* line says, the time of the line before it and the settings of the       *)
(* resolver, which Sniff finds in a sample of the lines and the user may   *)
(* override.  An upload makes a resolver for every chunk, a live source    *)
(* one for its first batch.                                                *)
(*                                                                         *)
(* A time is a number of hours.  Months and days are a day of the year,    *)
(* years have one length, and time zones are left out.                     *)
(***************************************************************************)
EXTENDS Integers, FiniteSets

CONSTANTS
    Format,         \* what the lines of a log say of their time
    Sample,         \* the formats found together in a chunk or first batch
    Anchor,         \* anchors: the file's date, its first full time, now
    ForcedYear,     \* years and days of the year a user may prescribe
    ForcedDate,
    MaxTime,        \* bound of the model: the latest time
    Unset,
    HoursPerDay,
    HoursPerYear,
    Century,        \* years
    DayGap,         \* 12 h: further back is the next day (applyRollover)
    YearGap,        \* 180 days: further back is the next year
    FutureSlack     \* 1 h: further after the anchor is the year before

ASSUME CalendarAssumption ==
    /\ {HoursPerDay, HoursPerYear, Century, DayGap, YearGap} \subseteq Nat \ {0}
    /\ FutureSlack \in Nat
    /\ HoursPerYear % HoursPerDay = 0
    /\ DayGap < HoursPerDay /\ HoursPerDay <= YearGap
    /\ HoursPerDay - DayGap <= HoursPerYear - YearGap

Time == Century * HoursPerYear .. MaxTime

ASSUME SettingsAssumption ==
    /\ MaxTime \in Nat
    /\ Anchor \subseteq Time
    /\ ForcedYear \subseteq Nat /\ ForcedDate \subseteq Nat
    /\ Unset \notin Nat

\* `year' counts the digits of the year; `whole' is a date in one capture,
\* "timestamp" or "date", and not a capture for each of its parts.
ASSUME FormatAssumption ==
    /\ Format \subseteq [year: {0, 2, 4}, date: BOOLEAN, time: BOOLEAN, whole: BOOLEAN]
    /\ \A format \in Format : format.year # 0 => format.date
    /\ Sample \subseteq SUBSET Format

VARIABLES
    resolution,     \* Resolver.res
    synthetic,      \* syntheticMode: the sample had no time at all
    prev,           \* Resolver.prev, Unset while prevSet is false
    stamp,          \* the timestamp of the last row, Unset before the first
    truth,          \* history: when the last line with a time was written, or
                    \* Unset when the promise of InOrderIsTrue did not cover it
    hint            \* history: what the sample alone says of roll overs, or
                    \* "user" where a user decided

resolverVars == <<resolution, synthetic, prev, stamp, truth, hint>>

Year(time) == time \div HoursPerYear
Date(time) == (time % HoursPerYear) \div HoursPerDay
Day(time) == time \div HoursPerDay
Clock(time) == time % HoursPerDay
Compose(year, date, clock) == year * HoursPerYear + date * HoursPerDay + clock

Resolution ==
    [anchor: Anchor, rollover: BOOLEAN, pinned: BOOLEAN,
     year: ForcedYear \cup {Unset}, date: ForcedDate \cup {Unset}, overwrite: BOOLEAN]

ResolverTypeOK ==
    /\ resolution \in Resolution
    /\ synthetic \in BOOLEAN
    /\ {prev, stamp, truth} \subseteq 0 .. MaxTime \cup {Unset}
    /\ hint \in {"look", "never", "mixed", "user"}

-----------------------------------------------------------------------------
(* What Sniff finds in a sample, the formats of its lines, and what a user  *)
(* makes of it: `pinned' is YearStrategy "forced".                          *)

\* Sniff: a year of four digits somewhere and a date in one capture somewhere
\* are taken for a full date on every line.
SniffRollover(sample) ==
    ~ /\ \E format \in sample : format.year = 4
      /\ \E format \in sample : format.whole

Sniffed(sample, anchor) ==
    [anchor |-> anchor, rollover |-> SniffRollover(sample), pinned |-> FALSE,
     year |-> Unset, date |-> Unset, overwrite |-> FALSE]

\* The options ForceStartYear, ForceStartMonth and ForceStartDay.
ApplyLegacyOverrides(sniffed, year, date) ==
    [sniffed EXCEPT !.year = year, !.date = date, !.pinned = year # Unset,
                    !.overwrite = year # Unset \/ date # Unset]

\* What the sample alone says of roll overs.
HintOf(sample) ==
    CASE sample # {} /\ \A format \in sample : format.year = 4 /\ format.whole -> "never"
      [] \A format \in sample : format.year # 4 -> "look"
      [] OTHER -> "mixed"

\* The configuration of the wizard may leave anything out but the roll over,
\* and what it leaves out is as sniffed.
NewResolver(sample) ==
    /\ \/ /\ \E anchor \in Anchor, year \in ForcedYear \cup {Unset},
               date \in ForcedDate \cup {Unset} :
               resolution' = ApplyLegacyOverrides(Sniffed(sample, anchor), year, date)
          /\ hint' = HintOf(sample)
       \/ /\ resolution' \in Resolution
          /\ hint' = "user"
    /\ synthetic' = \A format \in sample : ~format.time
    /\ prev' = Unset /\ stamp' = Unset /\ truth' = Unset

ResolverInit ==
    /\ resolution \in Resolution
    /\ synthetic = FALSE
    /\ prev = Unset /\ stamp = Unset /\ truth = Unset /\ hint = "user"

-----------------------------------------------------------------------------
(* Resolve, for a line of some format that was written at `time'.           *)

Anchored == resolution.anchor

\* A year of two digits that are zero reads as no year.
YearFromLine(format, time) ==
    CASE format.year = 4 -> Year(time)
      [] format.year = 2 -> Year(time) % Century
      [] OTHER -> 0

HasYear(format, time) == YearFromLine(format, time) # 0

ForcesYear(format, time) ==
    resolution.year # Unset /\ (resolution.overwrite \/ ~HasYear(format, time))

ForcesDate(format) ==
    resolution.date # Unset /\ (resolution.overwrite \/ ~format.date)

PinnedYear == resolution.pinned /\ resolution.year # Unset

\* The latest year with these two digits that is not after the anchor's.
ExpandTwoDigitYear(digits) ==
    LET candidate == (Year(Anchored) \div Century) * Century + digits
    IN IF PinnedYear THEN resolution.year
       ELSE IF candidate > Year(Anchored) THEN candidate - Century ELSE candidate

Carry == IF prev # Unset THEN prev ELSE Anchored

\* Faulty variant: the year of the anchor goes before that of the last line.
FillYearFromAnchor(format, time) ==
    LET read == YearFromLine(format, time)
    IN IF read # 0 THEN IF format.year = 2 THEN ExpandTwoDigitYear(read) ELSE read
       ELSE IF PinnedYear THEN resolution.year ELSE Year(Anchored)

FillYear(format, time) ==
    LET read == YearFromLine(format, time)
    IN IF read # 0 THEN IF format.year = 2 THEN ExpandTwoDigitYear(read) ELSE read
       ELSE IF PinnedYear THEN resolution.year ELSE Year(Carry)

FillDate(format, time) == Date(IF format.date THEN time ELSE Carry)

\* Only a year that came from the anchor is held below it.
InferredFromAnchor(format, time) ==
    IF HasYear(format, time) THEN format.year = 2 ELSE ~PinnedYear /\ prev = Unset

ClampFuture(time) ==
    IF time > Anchored + FutureSlack THEN time - HoursPerYear ELSE time

ComposeTime(format, time) ==
    LET year == IF ForcesYear(format, time) THEN resolution.year
                                            ELSE FillYear(format, time)
        date == IF ForcesDate(format) THEN resolution.date ELSE FillDate(format, time)
        composed == Compose(year, date, Clock(time))
    IN IF InferredFromAnchor(format, time) THEN ClampFuture(composed) ELSE composed

ApplyRollover(time) ==
    CASE prev - time > YearGap -> time + HoursPerYear
      [] prev - time > DayGap /\ prev - time <= YearGap -> time + HoursPerDay
      [] OTHER -> time

Resolved(format, time) ==
    IF ~format.time THEN Carry
    ELSE LET composed == ComposeTime(format, time)
         IN IF resolution.rollover /\ prev # Unset THEN ApplyRollover(composed)
                                                  ELSE composed

-----------------------------------------------------------------------------
(* Which lines the resolver promises to date: those that follow each other  *)
(* within its limits, of which the first is dated by the anchor.            *)

\* For a sample with a year of four digits but not a full date on every line
\* Sniff decides once for all lines: no roll over is promised, and no step back.
RollsOverIsAsked == hint = "look" \/ (hint = "user" /\ resolution.rollover)
StepsBackAreKept == hint = "never" \/ (hint = "user" /\ ~resolution.rollover)

\* A roll over is told from a line out of order by how far it steps back.
InOrder(time) ==
    prev # Unset /\ ~StepsBackAreKept => prev - time <= DayGap

\* Whether `time' is later than the line before by less than `limit'.
RollsOver(time, limit) ==
    /\ RollsOverIsAsked
    /\ prev # Unset
    /\ prev < time /\ time - prev < limit

BelowAnchor(time) == time <= Anchored + FutureSlack /\ Year(time) <= Year(Anchored)

\* Two digits of a year name it if it is one of the anchor's last hundred.
YearIsKnown(format, time) ==
    IF ForcesYear(format, time)
    THEN /\ Year(time) = resolution.year
         /\ InferredFromAnchor(format, time) => BelowAnchor(time)
    ELSE IF HasYear(format, time)
    THEN \/ format.year = 4
         \/ /\ BelowAnchor(time)
            /\ IF PinnedYear THEN Year(time) = resolution.year
                             ELSE Year(Anchored) - Year(time) < Century
    ELSE IF prev # Unset
    THEN \/ Year(time) = Year(prev)
         \/ RollsOver(time, HoursPerYear - YearGap)
    ELSE BelowAnchor(time) /\ Anchored + FutureSlack - time < HoursPerYear

DateIsKnown(format, time) ==
    IF ForcesDate(format) THEN Date(time) = resolution.date
    ELSE \/ format.date
         \/ IF prev = Unset THEN Date(time) = Date(Anchored)
            ELSE \/ Day(time) = Day(prev)
                 \/ /\ RollsOver(time, HoursPerDay - DayGap)
                    /\ ForcesYear(format, time) => Year(time) = Year(prev)

Promised(format, time) ==
    /\ ~synthetic
    /\ prev # Unset => truth # Unset
    /\ InOrder(time)
    /\ YearIsKnown(format, time)
    /\ DateIsKnown(format, time)

\* Nothing is promised of the lines after one that was not dated rightly.  A
\* line without a time stands for the one before it.
Resolve(format, time) ==
    LET resolved == Resolved(format, time)
    IN /\ resolved \in 0 .. MaxTime
       /\ prev' = resolved
       /\ stamp' = IF synthetic THEN Anchored ELSE resolved
       /\ truth' = CASE format.time -> IF Promised(format, time) THEN time ELSE Unset
                     [] ~format.time /\ prev = Unset -> Anchored
                     [] OTHER -> truth
       /\ UNCHANGED <<resolution, synthetic, hint>>

\* A line that no pattern matches is stamped like the one before it.
CarryLine ==
    /\ stamp' = IF synthetic THEN Anchored ELSE Carry
    /\ UNCHANGED <<resolution, synthetic, prev, truth, hint>>

ResolverNext ==
    \/ \E sample \in Sample : NewResolver(sample)
    \/ \E format \in Format, time \in Time : Resolve(format, time)
    \/ CarryLine

ResolverSpec == ResolverInit /\ [][ResolverNext]_resolverVars

-----------------------------------------------------------------------------
\* While the lines are in order, step back by twelve hours at most, and leave
\* out less of a day, or of a year, than it takes to tell a roll over, every
\* row has the time its line was written.  Midnight and New Year are promised
\* where no line of the sample has a year of four digits, or where the user
\* asked for roll overs: not for the clock-only lines after a full date.
InOrderIsTrue == truth # Unset => stamp = truth

(* The types, and the promise above.                                       *)
ResolverConsistent == ResolverTypeOK /\ InOrderIsTrue
=============================================================================
