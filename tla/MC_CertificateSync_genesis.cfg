CONSTANTS
    h1 = h1
    h2 = h2
    h3 = h3
    g1 = g1
    g2 = g2
    NoCert = NoCert
    Headers <- MCHeaders
    Genesis <- MCGenesis
    Parents <- MCParents
    MaxCopies = 1
    Capacity = 3
SPECIFICATION Spec
PROPERTY CertificateAccepted
CHECK_DEADLOCK FALSE
