------------------------- MODULE MC_RoundAggregators -------------------------
(* Four authorities with unequal stakes (quorum 4 of 5): the quorum is met *)
(* by three light authors or by the heavy one with one light one.          *)
EXTENDS RoundAggregators, TLC

CONSTANTS a1, a2, a3, a4

MCAuthority == {a1, a2, a3, a4}
MCStake == [a \in MCAuthority |-> IF a = a4 THEN 2 ELSE 1]
MCBlsIndex == (a1 :> 0) @@ (a2 :> 1) @@ (a3 :> 2) @@ (a4 :> 3)
MCLeaderOrder == (0 :> a1) @@ (1 :> a2) @@ (2 :> a3) @@ (3 :> a4)
=============================================================================
