------------------------- MODULE QuorumCertificate -------------------------
(***************************************************************************)
(* What a vote aggregator promises (spec 4.4, 8.2 and 8.5), with no        *)
(* weights, bitmaps or signatures: distinct authorities vote for one       *)
(* header, a vote already counted is refused, and the vote after which the *)
(* voters first carry a committee quorum and a clan validity share yields  *)
(* the one certificate, made of exactly those voters.  Later votes are     *)
(* counted and yield nothing.                                              *)
(***************************************************************************)
EXTENDS Committee, Sequences

VARIABLES
    voters,  \* the authorities whose votes were counted
    qcerts   \* the certificates yielded, as the sets of their voters

(* The voters carry a quorum of the committee and a validity share of     *)
(* the clan.                                                               *)
QuorumOf(S) ==
    StakeOf(S) >= QuorumThreshold /\ StakeOf(S \cap Clan) >= ClanValidityThreshold

Init == voters = {} /\ qcerts = << >>

(* Authority a's vote is counted; it completes the certificate if it is   *)
(* the first vote after which the voters carry a quorum.                   *)
Vote(a) ==
    /\ a \notin voters
    /\ voters' = voters \cup {a}
    /\ qcerts' = IF qcerts = << >> /\ QuorumOf(voters')
                 THEN << voters' >>
                 ELSE qcerts

Next == \E a \in Authority : Vote(a)

Spec == Init /\ [][Next]_<<voters, qcerts>>

=============================================================================
