------------------------- MODULE MC_VotesAggregator -------------------------
(* Five authorities, one of them heavy, and a clan of three light ones:    *)
(* the committee quorum (5 of 7) can be met with a single clan vote, so    *)
(* the clan gate (2 of 3) delays emission past the first quorum.  Words of *)
(* two bits make the five BLS positions span three words.                  *)
EXTENDS VotesAggregator, TLC

CONSTANTS a1, a2, a3, a4, a5

MCAuthority == {a1, a2, a3, a4, a5}
MCStake == [a \in MCAuthority |-> IF a = a4 THEN 3 ELSE 1]
MCClan == {a1, a2, a3}
MCBlsIndex == (a1 :> 3) @@ (a2 :> 0) @@ (a3 :> 4) @@ (a4 :> 1) @@ (a5 :> 2)
MCLeaderOrder == (0 :> a1) @@ (1 :> a2) @@ (2 :> a3) @@ (3 :> a4) @@ (4 :> a5)
=============================================================================
