SPECIFICATION ViewSpec
CONSTANTS
    Word = {w}
    Empty = Empty
    Absolute = {day}
    Initial = day
    Relative = Relative
    Source = {s, t}
    Sizes = {1, 2}
    DefaultSize = 2
    Saved <- MCSaved
    None = None
    MaxRows = 3
    MaxUrls = 3
    MaxWork = 3
INVARIANTS ViewConsistent ShownIsAsked UrlDescribesView AllSourcesStay
SYMMETRY SourceSymmetry
CHECK_DEADLOCK FALSE
