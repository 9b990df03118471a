--------------------------- MODULE MC_RoundMsgAuth ---------------------------
(* Three authorities, a3 faulty, and two rounds. *)
EXTENDS RoundMsgAuth, TLC

CONSTANTS a1, a2, a3

MCAuthority == {a1, a2, a3}
MCStake == [a \in MCAuthority |-> 1]
MCBlsIndex == (a1 :> 0) @@ (a2 :> 1) @@ (a3 :> 2)
MCLeaderOrder == (0 :> a1) @@ (1 :> a2) @@ (2 :> a3)
=============================================================================
