SPECIFICATION Spec
CONSTANTS
    a = a
    x = x
    y = y
    big = big
    c1 = c1
    c2 = c2
    c3 = c3
    c4 = c4
    Process = {p1, p2}
    Path = {a}
    Content = {x, y, big}
    Commit = {c1, c2, c3, c4}
    Tree <- MCTree
    Indexable = {x, y}
    Version = {1, 2}
    MaxCheckouts = 2
    MaxFaults = 1
    Overview = Overview
    Missing = Missing
    Lost = Lost
    None = None
INVARIANTS
    ProjectionInv
    SnapshotIsTrue
SYMMETRY Symmetry
