SPECIFICATION Spec
CONSTANTS
    Name = {x, X}
    Lower <- MCLower
    Body = {b}
    Config = {c}
    File <- MCFile
    Garbage = Garbage
    None = None
    MaxWork = 3
    MaxFailures = 1
INVARIANTS Consistent ListIsLibrary ImportIsTaken
SYMMETRY NameSymmetry
CHECK_DEADLOCK FALSE
