------------------------- MODULE RoundMsgAuthProofs -------------------------
(***************************************************************************)
(* Proofs about the authentication of timeouts by Timeout::digest, for    *)
(* every committee, set of faulty authorities and set of rounds.           *)
(*                                                                         *)
(* TimeoutCertAuthentic is not inductive by itself: a timeout is folded   *)
(* in when some signature of its author verifies, so the invariant must    *)
(* say what the honest signatures are.  SignedByTimedOut says that every   *)
(* honest signature hashes a round the signer timed out in, together with  *)
(* the signer: SendTimeout signs such a digest, and SendNoVote signs the   *)
(* same bytes for a round in which the signer already timed out.           *)
(***************************************************************************)
EXTENDS RoundMsgAuth, SequenceTheorems, TLAPS

(* Every honest signature is over (round, signer) for a round the signer  *)
(* timed out in.                                                           *)
SignedByTimedOut ==
    \A s \in signed : \E r \in timedOut[s[1]] : s[2] = Hash(<<r, s[1]>>)

IInv == TypeOK /\ SignedByTimedOut /\ TimeoutCertAuthentic

(* The digests of round and author determine the round. *)
LEMMA HashRoundInjective ==
    ASSUME NEW r1, NEW r2, NEW a, Hash(<<r1, a>>) = Hash(<<r2, a>>)
    PROVE  r1 = r2
<1>1. <<r1, a>> = <<r2, a>>
    BY DEF Hash
<1>2. QED BY <1>1

(* Appending x to s keeps the old positions and puts x last. *)
LEMMA AppendElements ==
    ASSUME NEW S, NEW s \in Seq(S), NEW x \in S,
           NEW i \in 1..Len(Append(s, x))
    PROVE  \/ i \in 1..Len(s) /\ Append(s, x)[i] = s[i]
           \/ i = Len(s) + 1 /\ Append(s, x)[i] = x
BY AppendProperties

LEMMA InitIInv == Init => IInv
<1> SUFFICES ASSUME Init PROVE IInv
    OBVIOUS
<1>1. TypeOK
    BY RoundMsgAuthAssumption DEF Init, TypeOK, NewTimeoutCert, NewNoVoteCert
<1>2. SignedByTimedOut
    BY DEF Init, SignedByTimedOut
<1>3. TimeoutCertAuthentic
    BY DEF Init, TimeoutCertAuthentic, NewTimeoutCert
<1>4. QED BY <1>1, <1>2, <1>3 DEF IInv

LEMMA NextIInv == IInv /\ [Next]_vars => IInv'
<1> SUFFICES ASSUME IInv, [Next]_vars PROVE IInv'
    OBVIOUS
<1> USE DEF IInv
<1>1. CASE \E a \in Honest, r \in Rounds : VoteForLeader(a, r)
    <2> PICK a \in Honest, r \in Rounds : VoteForLeader(a, r)
        BY <1>1
    <2>1. TypeOK'
        <3>1. votedLeader' \in [Honest -> SUBSET Rounds]
            BY DEF VoteForLeader, TypeOK
        <3>2. UNCHANGED <<signed, timedOut, noVoted, tcert, ncert>>
            BY DEF VoteForLeader
        <3>3. QED BY <3>1, <3>2 DEF TypeOK
    <2>2. QED
        BY <2>1 DEF VoteForLeader, SignedByTimedOut, TimeoutCertAuthentic
<1>2. CASE \E a \in Honest, r \in Rounds : SendTimeout(a, r)
    <2> PICK a \in Honest, r \in Rounds : SendTimeout(a, r)
        BY <1>2
    <2>1. TypeOK'
        <3>1. <<a, TimeoutDigest(NewTimeout(r, a))>>
                \in Honest \X {TimeoutDigest(NewTimeout(r1, a1)) : r1 \in Rounds, a1 \in Authority}
            BY DEF Honest
        <3>2. timedOut' \in [Honest -> SUBSET Rounds]
            BY DEF SendTimeout, TypeOK
        <3>3. QED BY <3>1, <3>2 DEF SendTimeout, TypeOK
    <2>2. SignedByTimedOut'
        BY DEF SendTimeout, TypeOK, SignedByTimedOut, TimeoutDigest, NewTimeout
    <2>3. TimeoutCertAuthentic'
        BY DEF SendTimeout, TypeOK, TimeoutCertAuthentic
    <2>4. QED BY <2>1, <2>2, <2>3
<1>3. CASE \E a \in Honest, r \in Rounds : SendNoVote(a, r)
    <2> PICK a \in Honest, r \in Rounds : SendNoVote(a, r)
        BY <1>3
    <2>0. NoVoteDigest(NewNoVote(r, a)) = TimeoutDigest(NewTimeout(r, a))
        BY DEF NoVoteDigest, NewNoVote, TimeoutDigest, NewTimeout
    <2>1. TypeOK'
        <3>1. <<a, TimeoutDigest(NewTimeout(r, a))>>
                \in Honest \X {TimeoutDigest(NewTimeout(r1, a1)) : r1 \in Rounds, a1 \in Authority}
            BY DEF Honest
        <3>2. noVoted' \in [Honest -> SUBSET Rounds]
            BY DEF SendNoVote, TypeOK
        <3>3. QED BY <2>0, <3>1, <3>2 DEF SendNoVote, TypeOK
    <2>2. SignedByTimedOut'
        <3> SUFFICES ASSUME NEW s \in signed'
                     PROVE  \E r1 \in timedOut'[s[1]] : s[2] = Hash(<<r1, s[1]>>)
            BY DEF SignedByTimedOut
        <3>1. CASE s \in signed
            BY <3>1 DEF SendNoVote, SignedByTimedOut
        <3>2. CASE s = <<a, Hash(<<r, a>>)>>
            BY <3>2 DEF SendNoVote
        <3>3. QED BY <2>0, <3>1, <3>2 DEF SendNoVote, TimeoutDigest, NewTimeout
    <2>3. TimeoutCertAuthentic'
        BY DEF SendNoVote, TimeoutCertAuthentic
    <2>4. QED BY <2>1, <2>2, <2>3
<1>4. CASE \E a \in Honest, r \in Rounds : ReceiveTimeout(NewTimeout(r, a))
    <2> PICK a \in Honest, r \in Rounds : ReceiveTimeout(NewTimeout(r, a))
        BY <1>4
    <2> DEFINE old == tcert[r].timeouts
    <2>1. old \in Seq(Authority) /\ a \in Authority
        BY DEF TypeOK, Honest
    <2>2. tcert' = [tcert EXCEPT ![r] = [tcert[r] EXCEPT !.timeouts = Append(old, a)]]
        BY DEF ReceiveTimeout, NewTimeout, AddTimeout
    <2>3. r \in timedOut[a]
        <3>1. <<a, Hash(<<r, a>>)>> \in signed
            BY DEF ReceiveTimeout, NewTimeout, TimeoutDigest, Verify, Honest
        <3>2. PICK r2 \in timedOut[a] : Hash(<<r, a>>) = Hash(<<r2, a>>)
            BY <3>1 DEF SignedByTimedOut
        <3>3. QED BY <3>2, HashRoundInjective
    <2>4. TypeOK'
        <3>1. Append(old, a) \in Seq(Authority)
            BY <2>1, AppendProperties
        <3>2. tcert[r] \in [round : Rounds, timeouts : Seq(Authority)]
            BY DEF TypeOK
        <3>3. [tcert[r] EXCEPT !.timeouts = Append(old, a)] \in [round : Rounds, timeouts : Seq(Authority)]
            BY <3>1, <3>2
        <3>4. tcert' \in [Rounds -> [round : Rounds, timeouts : Seq(Authority)]]
            BY <2>2, <3>3 DEF TypeOK
        <3>5. QED BY <3>4 DEF ReceiveTimeout, TypeOK
    <2>5. SignedByTimedOut'
        BY DEF ReceiveTimeout, SignedByTimedOut
    <2>6. TimeoutCertAuthentic'
        <3> SUFFICES ASSUME NEW r1 \in Rounds, NEW i \in 1..Len(tcert'[r1].timeouts),
                            tcert'[r1].timeouts[i] \in Honest
                     PROVE  r1 \in timedOut'[tcert'[r1].timeouts[i]]
            BY DEF TimeoutCertAuthentic
        <3>1. timedOut' = timedOut
            BY DEF ReceiveTimeout
        <3>2. CASE r1 # r
            BY <3>1, <3>2, <2>2 DEF TypeOK, TimeoutCertAuthentic
        <3>3. CASE r1 = r
            <4>1. tcert'[r1].timeouts = Append(old, a)
                BY <3>3, <2>2 DEF TypeOK
            <4>2. \/ i \in 1..Len(old) /\ tcert'[r1].timeouts[i] = old[i]
                  \/ i = Len(old) + 1 /\ tcert'[r1].timeouts[i] = a
                BY <4>1, <2>1, AppendElements
            <4>3. QED BY <4>2, <3>1, <3>3, <2>3 DEF TimeoutCertAuthentic
        <3>4. QED BY <3>2, <3>3
    <2>7. QED BY <2>4, <2>5, <2>6
<1>5. CASE \E a \in Honest, r \in Rounds : ReceiveNoVote(NewNoVote(r, a))
    <2> PICK a \in Honest, r \in Rounds : ReceiveNoVote(NewNoVote(r, a))
        BY <1>5
    <2> DEFINE old == ncert[r].no_votes
    <2>1. old \in Seq(Authority) /\ a \in Authority
        BY DEF TypeOK, Honest
    <2>2. ncert' = [ncert EXCEPT ![r] = [ncert[r] EXCEPT !.no_votes = Append(old, a)]]
        BY DEF ReceiveNoVote, NewNoVote, AddNoVote
    <2>3. TypeOK'
        <3>1. Append(old, a) \in Seq(Authority)
            BY <2>1, AppendProperties
        <3>2. ncert[r] \in [round : Rounds, no_votes : Seq(Authority)]
            BY DEF TypeOK
        <3>3. [ncert[r] EXCEPT !.no_votes = Append(old, a)] \in [round : Rounds, no_votes : Seq(Authority)]
            BY <3>1, <3>2
        <3>4. ncert' \in [Rounds -> [round : Rounds, no_votes : Seq(Authority)]]
            BY <2>2, <3>3 DEF TypeOK
        <3>5. QED BY <3>4 DEF ReceiveNoVote, TypeOK
    <2>4. QED
        BY <2>3 DEF ReceiveNoVote, SignedByTimedOut, TimeoutCertAuthentic
<1>6. CASE UNCHANGED vars
    BY <1>6 DEF vars, TypeOK, SignedByTimedOut, TimeoutCertAuthentic
<1>7. QED BY <1>1, <1>2, <1>3, <1>4, <1>5, <1>6 DEF Next

(* Every reachable state is well typed: the certificates hold sequences of *)
(* authorities and the honest signatures are over timeout digests.         *)
THEOREM TypeCorrect == Spec => []TypeOK
<1>1. IInv => TypeOK
    BY DEF IInv
<1>2. QED BY <1>1, InitIInv, NextIInv, PTL DEF Spec

(* TimeoutCert::add_timeout, fed only timeouts whose signature over        *)
(* Timeout::digest verifies, lists an honest author in the certificate of  *)
(* round r only if that author timed out in round r, whatever signatures   *)
(* of other rounds and of no-votes are replayed.                            *)
THEOREM TimeoutCertAuthenticity == Spec => []TimeoutCertAuthentic
<1>1. IInv => TimeoutCertAuthentic
    BY DEF IInv
<1>2. QED BY <1>1, InitIInv, NextIInv, PTL DEF Spec

=============================================================================
