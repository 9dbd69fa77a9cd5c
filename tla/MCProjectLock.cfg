SPECIFICATION Spec
CONSTANTS
    p1 = p1
    p2 = p2
    a = a
    b = b
    c = c
    n1 = n1
    n2 = n2
    n3 = n3
    Procs <- MCProcs
    Locks <- MCLocks
    ProcOf <- MCProcOf
    Nonces <- MCNonces
    MayTamper = TRUE
    None = None
    Garbage = Garbage
SYMMETRY Symmetry
INVARIANTS
    TypeOK
    MutualExclusion
    OwnerHasGate
    OrphanHasCause
    NoLeakedLock
PROPERTIES
    RemovalAuthorised
    ImplementsOwnership
CHECK_DEADLOCK FALSE
