----------------------------- MODULE Committee -----------------------------
(***************************************************************************)
(* The committee and clan model shared by every component of the primary.  *)
(*                                                                         *)
(* The committee (crate config, not part of this repository's sources) is  *)
(* immutable after construction (node/src/main.rs builds it once and every *)
(* task receives a copy), so it is a set of CONSTANTS here.  Stakes are    *)
(* integers; thresholds are computed over stake, never over counts.        *)
(***************************************************************************)
EXTENDS Naturals, FiniteSets, FiniteSetsExt

CONSTANTS
    Authority,      \* the committee members (identity keys)
    Stake,          \* Stake[a]: the stake of authority a
    Clan,           \* the clan of this node (main.rs: create_clan_from_committee)
    BlsIndex,       \* position of a's BLS G2 key in the sorted key list
    LeaderOrder,    \* the canonical authority order of the leader schedule
    LeadersPerRound \* parameters.leaders_per_round

N == Cardinality(Authority)

(* The committee is a non-empty finite set with natural stakes; the clan is *)
(* a non-empty part of it; main.rs sorts all BLS keys of the committee, so  *)
(* BlsIndex is a bijection onto 0..N-1; the leader order is a bijection     *)
(* from positions to authorities and at least one leader is designated.     *)
ASSUME CommitteeAssumption ==
    /\ IsFiniteSet(Authority)
    /\ Authority # {}
    /\ Stake \in [Authority -> Nat]
    /\ Clan \subseteq Authority
    /\ Clan # {}
    /\ BlsIndex \in [Authority -> 0..(N - 1)]
    /\ \A a, b \in Authority : BlsIndex[a] = BlsIndex[b] => a = b
    /\ LeaderOrder \in [0..(N - 1) -> Authority]
    /\ LeadersPerRound \in 1..N

(* Total stake of a set of authorities. *)
StakeOf(S) == MapThenSumSet(LAMBDA a : Stake[a], S)

TotalStake == StakeOf(Authority)

(* committee.quorum_threshold(): strictly more than two thirds of the stake *)
(* (2T/3 + 1 in integer arithmetic, as scenario S1 of the spec fixes it).  *)
QuorumThreshold == (2 * TotalStake) \div 3 + 1

(* committee.validity_threshold(): strictly more than one third. *)
ValidityThreshold == TotalStake \div 3 + 1

(* clan.validity_threshold(): one third of the clan's own stake, plus one. *)
ClanValidityThreshold == StakeOf(Clan) \div 3 + 1

(* committee.leader_list(leaders_per_round, round): round-robin over the   *)
(* canonical order, LeadersPerRound consecutive authorities per round.     *)
LeaderList(k, r) == { LeaderOrder[(r + i) % N] : i \in 0..(k - 1) }

=============================================================================
