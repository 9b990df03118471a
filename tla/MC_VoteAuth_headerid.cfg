CONSTANTS
    a1 = a1
    a2 = a2
    b1 = b1
    Authority <- MCAuthority
    Stake <- MCStake
    Clan = {a1}
    BlsIndex <- MCBlsIndex
    LeaderOrder <- MCLeaderOrder
    LeadersPerRound = 1
    Byzantine = {a2}
    Rounds = {2}
    Payloads <- MCPayloads
SPECIFICATION Spec
INVARIANT VotesCertifyStoredHeader
CHECK_DEADLOCK FALSE
