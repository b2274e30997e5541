CONSTANTS
    t1 = t1
    t2 = t2
    t3 = t3
    other = other
    service = service
    command = command
    s1 = s1
    s2 = s2
    s3 = s3
    s4 = s4
    s5 = s5
    None = None
    Thread = {t1, t2, t3, other}
    Process = {service, command}
    Session = {s1, s2, s3, s4, s5}
    ProcessOf <- MCProcessOf
    ThreadOf <- MCThreadOf
    MaxDepth = 2
SPECIFICATION MCSpec
INVARIANTS
    MutualExclusion
    OneController
    LockFollowsLease
PROPERTIES
    FirstComeFirstServed
    WaitersServed
    ImplementsReentrantLock
