------------------------ MODULE CertificatesAggregator ------------------------
(***************************************************************************)
(* CertificatesAggregator (primary/src/aggregators.rs): collects the       *)
(* certificates of one round, one per origin, and returns the batch that   *)
(* lets the node advance once every leader of the round has a certificate  *)
(* and the origins carry a quorum of stake.  One aggregator exists per     *)
(* round, owned by the Core task, so appends are sequential.               *)
(*                                                                         *)
(* A certificate is its origin: the aggregator looks at nothing else, and  *)
(* a second certificate of an origin (a re-delivery by the waiter, or the  *)
(* node's own certificate received back) is ignored whatever it holds.    *)
(***************************************************************************)
EXTENDS Committee, Sequences, SequencesExt

CONSTANT Round  \* the round of the aggregator (certificate.round)

ASSUME RoundAssumption == Round \in Nat

VARIABLES
    weight,       \* stake of the distinct origins appended so far
    certificates, \* certificates pushed and not yet drained, in order
    used,         \* origins already appended
    batches,      \* the batches append has returned, in order
    result        \* outcome of the last append: "none", "ignored", "batch"

vars == <<weight, certificates, used, batches, result>>

TypeOK ==
    /\ weight \in Nat
    /\ certificates \in Seq(Authority)
    /\ used \in SUBSET Authority
    /\ batches \in Seq(Seq(Authority))
    /\ result \in {"none", "ignored", "batch"}

(* CertificatesAggregator::new. *)
Init ==
    /\ weight = 0
    /\ certificates = << >>
    /\ used = {}
    /\ batches = << >>
    /\ result = "none"

(* Mutant: the leaders of the previous round are looked up. *)
AllLeadersInPrevRound(S, r) == \A l \in LeaderList(LeadersPerRound, r - 1) : l \in S

(* The loop over committee.leader_list(leaders_per_round, round): every    *)
(* leader of round r has contributed a certificate.                        *)
AllLeadersIn(S, r) == \A l \in LeaderList(LeadersPerRound, r) : l \in S

(* Mutant: the quorum is compared one short. *)
QuorateOneShort(w) == w + 1 >= QuorumThreshold

(* self.weight >= committee.quorum_threshold(). *)
Quorate(w) == w >= QuorumThreshold

(* Mutant: the batch is cloned out and the pushed certificates kept. *)
DrainKeep(cs, fire) == cs

(* certificates after the check: drain(..) empties them once they fire. *)
Drain(cs, fire) == IF fire THEN << >> ELSE cs

(* append of a certificate whose origin was seen: Ok(None), nothing kept. *)
AppendDuplicate(o) ==
    /\ o \in used
    /\ result' = "ignored"
    /\ UNCHANGED <<weight, certificates, used, batches>>

(* append of a certificate from a new origin: push it and add the stake;   *)
(* with every leader present and a quorum, drain the pushed certificates   *)
(* into the returned batch.  weight and used are left as they are.         *)
AppendNew(o) ==
    LET cs == Append(certificates, o)
        w == weight + Stake[o]
        fire == AllLeadersIn(used \cup {o}, Round) /\ Quorate(w)
    IN  /\ o \notin used
        /\ used' = used \cup {o}
        /\ weight' = w
        /\ certificates' = Drain(cs, fire)
        /\ batches' = IF fire THEN Append(batches, cs) ELSE batches
        /\ result' = IF fire THEN "batch" ELSE "none"

Next == \E o \in Authority : AppendDuplicate(o) \/ AppendNew(o)

Spec == Init /\ [][Next]_vars

-----------------------------------------------------------------------------
(* The origins of the i-th returned batch. *)
BatchSet(i) == ToSet(batches[i])

(* No certificate is lost or returned twice: each appended origin is in    *)
(* exactly one place, one of the returned batches or the certificates      *)
(* still pending, and appears there once.  So the drain hands each         *)
(* certificate to the Core once and keeps nothing it has handed out.       *)
EveryCertificateOnce ==
    /\ \A i \in 1..Len(batches) : IsInjective(batches[i])
    /\ IsInjective(certificates)
    /\ \A i, j \in 1..Len(batches) : i # j => BatchSet(i) \cap BatchSet(j) = {}
    /\ \A i \in 1..Len(batches) : BatchSet(i) \cap ToSet(certificates) = {}
    /\ (UNION {BatchSet(i) : i \in 1..Len(batches)}) \cup ToSet(certificates) = used

(* The batch that advances the round (the first one) holds a certificate   *)
(* of every leader of the round, looked up for the certificate's round.    *)
FirstBatchHasLeaders ==
    batches # << >> => LeaderList(LeadersPerRound, Round) \subseteq BatchSet(1)

(* The first batch's origins carry a quorum of stake: the weight compared  *)
(* is the stake of exactly the certificates drained into it.               *)
FirstBatchQuorum ==
    batches # << >> => StakeOf(BatchSet(1)) >= QuorumThreshold

(* Spec 4.4 and 4.8: a batch is returned only when the round has every     *)
(* leader and a quorum, and the Proposer takes the returned certificates   *)
(* as parents that satisfy the quorum.  So every batch, not only the       *)
(* first, should carry a quorum of stake.                                  *)
EveryBatchQuorum ==
    \A i \in 1..Len(batches) : StakeOf(BatchSet(i)) >= QuorumThreshold

=============================================================================
