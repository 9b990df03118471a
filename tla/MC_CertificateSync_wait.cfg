CONSTANTS
    h1 = h1
    h2 = h2
    h3 = h3
    g1 = g1
    g2 = g2
    NoCert = NoCert
    Headers <- MCHeaders
    Genesis <- MCGenesis
    Parents <- MCParents
    MaxCopies = 2
    Capacity = 1
SPECIFICATION Spec
INVARIANT NoCircularWait

CHECK_DEADLOCK FALSE
