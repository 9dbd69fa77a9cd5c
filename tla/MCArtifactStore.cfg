SPECIFICATION Spec
CONSTANTS
    p1 = p1
    p2 = p2
    p3 = p3
    s1 = s1
    s2 = s2
    d1 = d1
    d2 = d2
    x1 = x1
    x2 = x2
    t1 = t1
    t2 = t2
    t3 = t3
    Publishers <- MCPublishers
    Stores <- MCStores
    StoreOf <- MCStoreOf
    Digests <- MCDigests
    Prefixes <- MCPrefixes
    PrefixOf <- MCPrefixOf
    Tokens <- MCTokens
    Prepared <- MCPrepared
    MaxBlackouts = 1
    None = None
SYMMETRY Symmetry
INVARIANTS
    TypeOK
    RecordedIsThere
PROPERTIES
    ImplementsCatalog
    NoTornObject
CHECK_DEADLOCK FALSE
