---------------------------- MODULE RoundProgress ----------------------------
(***************************************************************************)
(* The Core's round advancement (spec 4.7) composed with one               *)
(* CertificatesAggregator per round (primary/src/aggregators.rs).  Every   *)
(* certificate the Synchronizer reports ready is appended to the           *)
(* aggregator of its round; when that aggregator returns a batch at round  *)
(* r the Core moves to current_round = r + 1 and resets the aggregators    *)
(* of the rounds at or below gc_round = current_round - gc_depth.          *)
(*                                                                         *)
(* The Core is not in this repository's sources and follows the spec; the *)
(* append is the code's.  A certificate is its round and origin.  The      *)
(* drained certificates go to the Proposer as parents and are not kept:    *)
(* nothing here reads them.  A repeated origin is ignored by append and   *)
(* leaves every variable as it is, so it is not among the inputs.          *)
(***************************************************************************)
EXTENDS Committee

CONSTANTS
    MaxRound, \* the highest round certificates are received for (> 0)
    GcDepth   \* parameters.gc_depth (> 0)

Rounds == 1..MaxRound

VARIABLES
    current_round, \* the Core's current round
    weight,        \* weight[r]: the stake the round-r aggregator has summed
    used           \* used[r]: the origins the round-r aggregator has seen

vars == <<current_round, weight, used>>

TypeOK ==
    /\ current_round \in 1..(MaxRound + 1)
    /\ weight \in [Rounds -> Nat]
    /\ used \in [Rounds -> SUBSET Authority]

Init ==
    /\ current_round = 1
    /\ weight = [r \in Rounds |-> 0]
    /\ used = [r \in Rounds |-> {}]

(* CertificatesAggregator::append returns a batch: the origin is new, every *)
(* leader of the round has been seen, and the summed stake is a quorum.    *)
Fires(r, o) ==
    /\ \A l \in LeaderList(LeadersPerRound, r) : l \in used[r] \cup {o}
    /\ weight[r] + Stake[o] >= QuorumThreshold

(* The rounds whose aggregators the Core resets after moving to round nr. *)
Collected(nr) == {r \in Rounds : r <= nr - GcDepth}

(* The Core feeds a ready certificate of round r from origin o to the      *)
(* round's aggregator (append pushes it and adds the stake); on a batch it *)
(* moves to round r + 1 and resets the collected rounds' aggregators.      *)
ProcessCertificate(r, o) ==
    LET w == [weight EXCEPT ![r] = @ + Stake[o]]
        u == [used EXCEPT ![r] = @ \cup {o}]
    IN  /\ o \notin used[r]
        /\ IF Fires(r, o)
           THEN /\ current_round' = r + 1
                /\ weight' = [x \in Rounds |-> IF x \in Collected(r + 1) THEN 0 ELSE w[x]]
                /\ used' = [x \in Rounds |-> IF x \in Collected(r + 1) THEN {} ELSE u[x]]
           ELSE /\ weight' = w
                /\ used' = u
                /\ UNCHANGED current_round

Next == \E r \in Rounds, o \in Authority : ProcessCertificate(r, o)

Spec == Init /\ [][Next]_vars

-----------------------------------------------------------------------------
(* Spec 4.7 calls a batch of round r the signal to advance to r + 1, and   *)
(* the Proposer builds the header of current_round on it: the round only   *)
(* advances.  A late certificate of an old round whose aggregator has not  *)
(* been collected must not move current_round back.                       *)
RoundMonotonic == [][current_round' >= current_round]_vars

=============================================================================
