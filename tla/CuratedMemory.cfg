CONSTANTS
    s1 = s1
    s2 = s2
    m1 = m1
    m2 = m2
    m3 = m3
    p1 = p1
    p2 = p2
    p3 = p3
    t1 = t1
    None = None
    Session = {s1, s2}
    Id = {m1, m2, m3}
    Proposal = {p1, p2, p3}
    Task = {t1}
    AutoApprove = TRUE
    MaxSource = 1
SPECIFICATION Spec
INVARIANTS
    MemoryInv
    ProposedOnce
PROPERTIES
    ActiveIsReplaced
SYMMETRY MCSymmetry
CHECK_DEADLOCK FALSE
