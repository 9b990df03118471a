CONSTANTS
    a1 = a1
    a2 = a2
    a3 = a3
    Authority <- MCAuthority
    Stake <- MCStake
    Clan = {a1, a2}
    BlsIndex <- MCBlsIndex
    LeaderOrder <- MCLeaderOrder
    LeadersPerRound = 1
    Byzantine = {a3}
    Rounds = {1, 2}
SPECIFICATION Spec
INVARIANT TimeoutCertAuthentic
CHECK_DEADLOCK FALSE
