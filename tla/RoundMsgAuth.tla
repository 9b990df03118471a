---------------------------- MODULE RoundMsgAuth ----------------------------
(***************************************************************************)
(* What the signatures over Timeout::digest and NoVoteMsg::digest          *)
(* authenticate.  An honest authority may vote for the leader's header of  *)
(* a round, times out at most once per round, and sends a no-vote for a    *)
(* round only after timing out without having voted for its leader (spec  *)
(* 3 and 4.7, the Sailfish no-vote rule).  The Byzantine authorities sign  *)
(* anything.  One honest receiving Core folds every Timeout and NoVoteMsg  *)
(* whose author's signature on its digest has been made, whichever message *)
(* it was made for, into the round's TimeoutCert or NoVoteCert with        *)
(* add_timeout and add_no_vote.                                             *)
(*                                                                         *)
(* Signing, verification and the Core's handlers are not in this           *)
(* repository's sources and follow the spec; the messages, digests and     *)
(* builders are those of Messages.                                         *)
(***************************************************************************)
EXTENDS Messages

CONSTANTS
    Byzantine, \* the faulty authorities
    Rounds     \* the rounds timeouts and no-votes are made for

ASSUME RoundMsgAuthAssumption ==
    /\ Byzantine \subseteq Authority
    /\ Rounds \subseteq Nat \ {0}

Honest == Authority \ Byzantine

VARIABLES
    signed,       \* <<signer, digest>>: the signatures honest authorities made
    votedLeader,  \* votedLeader[a]: rounds whose leader's header honest a voted for
    timedOut,     \* timedOut[a]: the rounds in which honest a timed out
    noVoted,      \* noVoted[a]: the rounds for which honest a sent a no-vote
    tcert,        \* tcert[r]: the receiver's TimeoutCert of round r
    ncert         \* ncert[r]: the receiver's NoVoteCert of round r

vars == <<signed, votedLeader, timedOut, noVoted, tcert, ncert>>

TypeOK ==
    /\ signed \subseteq Honest \X {TimeoutDigest(NewTimeout(r, a)) : r \in Rounds, a \in Authority}
    /\ votedLeader \in [Honest -> SUBSET Rounds]
    /\ timedOut \in [Honest -> SUBSET Rounds]
    /\ noVoted \in [Honest -> SUBSET Rounds]
    /\ tcert \in [Rounds -> [round : Rounds, timeouts : Seq(Authority)]]
    /\ ncert \in [Rounds -> [round : Rounds, no_votes : Seq(Authority)]]

Init ==
    /\ signed = {}
    /\ votedLeader = [a \in Honest |-> {}]
    /\ timedOut = [a \in Honest |-> {}]
    /\ noVoted = [a \in Honest |-> {}]
    /\ tcert = [r \in Rounds |-> NewTimeoutCert(r)]
    /\ ncert = [r \in Rounds |-> NewNoVoteCert(r)]

(* A signature of author a on digest d verifies: a made it, or a is faulty. *)
Verify(a, d) == a \in Byzantine \/ <<a, d>> \in signed

-----------------------------------------------------------------------------
(* Honest a votes for the leader's header of round r (the vote itself and  *)
(* its signature are those of VoteAuth).                                    *)
VoteForLeader(a, r) ==
    /\ r \notin votedLeader[a]
    /\ votedLeader' = [votedLeader EXCEPT ![a] = @ \cup {r}]
    /\ UNCHANGED <<signed, timedOut, noVoted, tcert, ncert>>

(* The round timer of honest a fires: it signs Timeout::new(r, a)'s digest. *)
SendTimeout(a, r) ==
    /\ r \notin timedOut[a]
    /\ timedOut' = [timedOut EXCEPT ![a] = @ \cup {r}]
    /\ signed' = signed \cup {<<a, TimeoutDigest(NewTimeout(r, a))>>}
    /\ UNCHANGED <<votedLeader, noVoted, tcert, ncert>>

(* Having timed out in round r without voting for its leader, honest a    *)
(* signs NoVoteMsg::new(r, a)'s digest.                                    *)
SendNoVote(a, r) ==
    /\ r \in timedOut[a] \ (noVoted[a] \cup votedLeader[a])
    /\ noVoted' = [noVoted EXCEPT ![a] = @ \cup {r}]
    /\ signed' = signed \cup {<<a, NoVoteDigest(NewNoVote(r, a))>>}
    /\ UNCHANGED <<votedLeader, timedOut, tcert, ncert>>

(* The receiver folds a verified Timeout into its round's TimeoutCert;     *)
(* add_timeout's AuthorityReuse leaves the certificate as it is.           *)
ReceiveTimeout(t) ==
    /\ Verify(t.author, TimeoutDigest(t))
    /\ ~TimeoutReuse(tcert[t.round], t.author)
    /\ tcert' = [tcert EXCEPT ![t.round] = AddTimeout(@, t.author)]
    /\ UNCHANGED <<signed, votedLeader, timedOut, noVoted, ncert>>

(* The same for a verified NoVoteMsg and the round's NoVoteCert. *)
ReceiveNoVote(m) ==
    /\ Verify(m.author, NoVoteDigest(m))
    /\ ~NoVoteReuse(ncert[m.round], m.author)
    /\ ncert' = [ncert EXCEPT ![m.round] = AddNoVote(@, m.author)]
    /\ UNCHANGED <<signed, votedLeader, timedOut, noVoted, tcert>>

(* Messages of faulty authors are left out of the receiver's inputs:      *)
(* they only take their authors' places in the certificates.               *)
Next ==
    \/ \E a \in Honest, r \in Rounds :
          VoteForLeader(a, r) \/ SendTimeout(a, r) \/ SendNoVote(a, r)
    \/ \E a \in Honest, r \in Rounds :
          ReceiveTimeout(NewTimeout(r, a)) \/ ReceiveNoVote(NewNoVote(r, a))

Spec == Init /\ [][Next]_vars

-----------------------------------------------------------------------------
(* Every honest author listed in the receiver's TimeoutCert of round r     *)
(* timed out in round r: no timeout of another round is replayed into it. *)
TimeoutCertAuthentic ==
    \A r \in Rounds : \A i \in 1..Len(tcert[r].timeouts) :
        tcert[r].timeouts[i] \in Honest => r \in timedOut[tcert[r].timeouts[i]]

(* Spec 3 and 4.7: a no-vote says that its author did not vote for the    *)
(* leader of the round, which is what a NoVoteCert certifies.  No honest   *)
(* author listed in the receiver's NoVoteCert of round r voted for the     *)
(* leader of round r.                                                      *)
NoVoteCertExcludesVoters ==
    \A r \in Rounds : \A i \in 1..Len(ncert[r].no_votes) :
        ncert[r].no_votes[i] \in Honest => r \notin votedLeader[ncert[r].no_votes[i]]

=============================================================================
