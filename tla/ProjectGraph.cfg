CONSTANTS
    p1 = p1
    p2 = p2
    a = a
    b = b
    x = x
    y = y
    big = big
    c1 = c1
    c2 = c2
    None = None
    Process = {p1, p2}
    Path = {a, b}
    Content = {x, y, big}
    Indexable = {x, y}
    Commit = {c1, c2}
    Tree <- MCTree
    Source <- MCSource
    ModuleName <- MCModuleName
    Packages = {b}
    Tests = {a}
    Start = c1
    MaxChanges = 2
SPECIFICATION GraphSpec
INVARIANTS
    GraphInv
PROPERTIES
    GraphGoesForward
    CallsAreBound
SYMMETRY MCSymmetry
CHECK_DEADLOCK FALSE
