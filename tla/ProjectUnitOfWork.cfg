SPECIFICATION Spec
CONSTANTS
    Session = {s1, s2}
    Run = {r1, r2}
    Identity = {i1}
    MaxGeneration = 3
    Absent = Absent
    Reserved = Reserved
    None = None
INVARIANTS
    StoresAgree
    NoCircularWait
PROPERTIES
    IdentitiesAreKept
SYMMETRY Symmetry
