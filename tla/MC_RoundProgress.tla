------------------------- MODULE MC_RoundProgress -------------------------
(* Four authorities of equal stake (quorum 3), one leader per round in     *)
(* round-robin order, three rounds, and a gc_depth of 3, so that a round's *)
(* aggregator survives two round advances.                                 *)
EXTENDS RoundProgress, TLC

CONSTANTS a1, a2, a3, a4

MCAuthority == {a1, a2, a3, a4}
MCStake == [a \in MCAuthority |-> 1]
MCBlsIndex == (a1 :> 0) @@ (a2 :> 1) @@ (a3 :> 2) @@ (a4 :> 3)
MCLeaderOrder == (0 :> a1) @@ (1 :> a2) @@ (2 :> a3) @@ (3 :> a4)
=============================================================================
