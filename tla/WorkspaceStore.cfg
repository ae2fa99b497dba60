SPECIFICATION Spec
CONSTANTS
    Id = {i1, i2, i3}
    Content = {c1, c2}
    None = None
    Garbage = Garbage
    MaxWorkspaces = 2
    MaxFailures = 2
SYMMETRY Symmetry
INVARIANT DiskIsSafe
PROPERTY ImplementsWorkspaceMap
CHECK_DEADLOCK FALSE
