SPECIFICATION Spec
CONSTANTS
    s1 = s1
    s2 = s2
    s3 = s3
    main = main
    other = other
    service = service
    command = command
    t1 = t1
    t2 = t2
    Session = {s1, s2, s3}
    Thread = {main, other}
    Process = {service, command}
    ThreadOf <- MCThreadOf
    ProcessOf <- MCProcessOf
    Tx = {t1, t2}
    NDocs = 3
    TaskDoc = 2
    MaxTail = 2
    MaxGen = 2
INVARIANTS
    CleanCapsuleOpens
    AckedCommitsSurvive
    EventsExactlyOnce
PROPERTIES
    ImplementsAtomicCapsule
SYMMETRY TxSymmetry
CHECK_DEADLOCK FALSE
