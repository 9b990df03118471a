----------------------------- MODULE MC_VoteAuth -----------------------------
(* Two authorities, a2 faulty; headers of round 2 with no payload or one *)
(* batch, and with or without a timeout certificate for round 1.         *)
EXTENDS VoteAuth, TLC

CONSTANTS a1, a2, b1

MCAuthority == {a1, a2}
MCStake == [a \in MCAuthority |-> 1]
MCBlsIndex == (a1 :> 0) @@ (a2 :> 1)
MCLeaderOrder == (0 :> a1) @@ (1 :> a2)
MCPayloads == {{}, {<<b1, 0>>}}
=============================================================================
