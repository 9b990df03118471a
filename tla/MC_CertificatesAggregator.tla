--------------------- MODULE MC_CertificatesAggregator ---------------------
(* Four equal-stake authorities (quorum 3) and two leaders in round 1:     *)
(* the two leaders alone are not a quorum, and a fourth certificate        *)
(* arrives after the quorum was met.                                       *)
EXTENDS CertificatesAggregator, TLC

CONSTANTS a1, a2, a3, a4

MCAuthority == {a1, a2, a3, a4}
MCStake == [a \in MCAuthority |-> 1]
MCBlsIndex == (a1 :> 0) @@ (a2 :> 1) @@ (a3 :> 2) @@ (a4 :> 3)
MCLeaderOrder == (0 :> a1) @@ (1 :> a2) @@ (2 :> a3) @@ (3 :> a4)
=============================================================================
