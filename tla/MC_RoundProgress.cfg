CONSTANTS
    a1 = a1
    a2 = a2
    a3 = a3
    a4 = a4
    Authority <- MCAuthority
    Stake <- MCStake
    Clan = {a1, a2}
    BlsIndex <- MCBlsIndex
    LeaderOrder <- MCLeaderOrder
    LeadersPerRound = 1
    MaxRound = 3
    GcDepth = 3
SPECIFICATION Spec
PROPERTY RoundMonotonic
CHECK_DEADLOCK FALSE
