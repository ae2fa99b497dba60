SPECIFICATION ResolverSpec
CONSTANTS
    Format <- MCFormat
    Sample <- MCSample
    Anchor = {37, 40, 47}
    ForcedYear = {3}
    ForcedDate = {1}
    MaxTime = 59
    Unset = Unset
    HoursPerDay = 4
    HoursPerYear = 12
    Century = 2
    DayGap = 2
    YearGap = 6
    FutureSlack = 1
INVARIANTS ResolverConsistent
CHECK_DEADLOCK FALSE
