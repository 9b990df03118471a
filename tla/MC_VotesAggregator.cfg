CONSTANTS
    a1 = a1
    a2 = a2
    a3 = a3
    a4 = a4
    a5 = a5
    Authority <- MCAuthority
    Stake <- MCStake
    Clan <- MCClan
    BlsIndex <- MCBlsIndex
    LeaderOrder <- MCLeaderOrder
    LeadersPerRound = 1
    WordBits = 2
SPECIFICATION Spec
INVARIANTS
    CertificateValid
    BitmapAgreesWithVotes
PROPERTIES
    ImplementsQuorumCertificate
