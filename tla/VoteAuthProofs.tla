--------------------------- MODULE VoteAuthProofs ---------------------------
(***************************************************************************)
(* Proofs about the authentication of votes by Vote::digest, for every    *)
(* committee, set of faulty authorities, set of rounds and of payloads.    *)
(*                                                                         *)
(* A vote is accepted when some signature of its voter verifies, so the    *)
(* inductive invariant says which digests honest authorities sign:         *)
(* header ids, which hash four fields starting with the signer, and vote  *)
(* digests of the headers the signer voted for, which hash three.  A      *)
(* header id is never a vote digest, and a vote digest fixes the id, the   *)
(* round and the origin, which is all of the vote but its author.          *)
(***************************************************************************)
EXTENDS VoteAuth, TLAPS

(* Every honest signature is over the id of a header the signer made or   *)
(* over the vote digest of a header the signer voted for.                  *)
SignedShape ==
    \A s \in signed :
        \/ \E x1, x2, x3 : s[2] = Hash(<<s[1], x1, x2, x3>>)
        \/ \E h \in voted[s[1]] : s[2] = VoteDigest(NewVote(h, s[1]))

IInv == TypeOK /\ SignedShape /\ VoteAuthentic

(* A header id is never a vote digest: they hash field sequences of       *)
(* different lengths.                                                      *)
LEMMA HeaderIdNotVoteDigest ==
    ASSUME NEW a, NEW x1, NEW x2, NEW x3, NEW y1, NEW y2, NEW y3
    PROVE  Hash(<<a, x1, x2, x3>>) # Hash(<<y1, y2, y3>>)
<1>1. <<a, x1, x2, x3>> # <<y1, y2, y3>>
    OBVIOUS
<1>2. QED BY <1>1 DEF Hash

(* Equal vote digests of one voter are equal votes. *)
LEMMA VoteDigestInjective ==
    ASSUME NEW h1, NEW h2, NEW a,
           VoteDigest(NewVote(h1, a)) = VoteDigest(NewVote(h2, a))
    PROVE  NewVote(h1, a) = NewVote(h2, a)
<1>1. <<h1.id, h1.round, h1.author>> = <<h2.id, h2.round, h2.author>>
    BY DEF VoteDigest, NewVote, Hash
<1>2. QED BY <1>1 DEF NewVote

(* Header::new sets the id to the digest of author, round, payload and     *)
(* parents.                                                                *)
LEMMA NewHeaderId ==
    ASSUME NEW a, NEW r, NEW p, NEW q, NEW tc, NEW nvc
    PROVE  NewHeader(a, r, p, q, tc, nvc).id = Hash(<<a, r, p, q>>)
BY DEF NewHeader, HeaderDigest

(* The header an honest Proposer makes is one of AllHeaders. *)
LEMMA ProposedInAll ==
    ASSUME NEW a \in Authority, NEW r \in Rounds, NEW p \in Payloads
    PROVE  NewHeader(a, r, p, {}, NewTimeoutCert(0), NewNoVoteCert(0)) \in AllHeaders
<1>1. NewTimeoutCert(0) \in TimeoutCertChoices(r)
    BY DEF TimeoutCertChoices
<1>2. QED BY <1>1 DEF AllHeaders

LEMMA InitIInv == Init => IInv
BY DEF Init, IInv, TypeOK, SignedShape, VoteAuthentic

LEMMA NextIInv == IInv /\ [Next]_vars => IInv'
<1> SUFFICES ASSUME IInv, [Next]_vars PROVE IInv'
    OBVIOUS
<1> USE DEF IInv
<1>1. CASE \E a \in Honest, r \in Rounds, p \in Payloads : Propose(a, r, p)
    <2> PICK a \in Honest, r \in Rounds, p \in Payloads : Propose(a, r, p)
        BY <1>1
    <2> DEFINE h == NewHeader(a, r, p, {}, NewTimeoutCert(0), NewNoVoteCert(0))
    <2>1. a \in Authority /\ h \in AllHeaders
        BY ProposedInAll DEF Honest
    <2>2. h.id = Hash(<<a, r, p, {}>>)
        BY NewHeaderId
    <2>3. TypeOK'
        <3>1. <<a, h.id>> \in Honest \X {x.id : x \in AllHeaders}
            BY <2>1
        <3>2. QED BY <2>1, <3>1 DEF Propose, TypeOK
    <2>4. SignedShape'
        <3> SUFFICES ASSUME NEW s \in signed'
                     PROVE  \/ \E x1, x2, x3 : s[2] = Hash(<<s[1], x1, x2, x3>>)
                            \/ \E x \in voted'[s[1]] : s[2] = VoteDigest(NewVote(x, s[1]))
            BY DEF SignedShape
        <3>1. CASE s \in signed
            BY <3>1 DEF Propose, SignedShape
        <3>2. CASE s = <<a, h.id>>
            BY <3>2, <2>2
        <3>3. QED BY <3>1, <3>2 DEF Propose
    <2>5. VoteAuthentic'
        BY DEF Propose, VoteAuthentic
    <2>6. QED BY <2>3, <2>4, <2>5
<1>2. CASE \E a \in Honest, h \in AllHeaders : CastVote(a, h)
    <2> PICK a \in Honest, h \in AllHeaders : CastVote(a, h)
        BY <1>2
    <2>1. voted' = [voted EXCEPT ![a] = voted[a] \cup {h}]
        BY DEF CastVote
    <2>2. \A b \in Honest : voted[b] \subseteq voted'[b]
        BY <2>1 DEF TypeOK
    <2>3. TypeOK'
        <3>1. <<a, VoteDigest(NewVote(h, a))>>
                \in Honest \X {VoteDigest(NewVote(x, b)) : x \in AllHeaders, b \in Authority}
            BY DEF Honest
        <3>2. voted' \in [Honest -> SUBSET AllHeaders]
            BY <2>1 DEF TypeOK
        <3>3. QED BY <3>1, <3>2 DEF CastVote, TypeOK
    <2>4. SignedShape'
        <3> SUFFICES ASSUME NEW s \in signed'
                     PROVE  \/ \E x1, x2, x3 : s[2] = Hash(<<s[1], x1, x2, x3>>)
                            \/ \E x \in voted'[s[1]] : s[2] = VoteDigest(NewVote(x, s[1]))
            BY DEF SignedShape
        <3>1. CASE s \in signed
            <4>1. s[1] \in Honest
                BY <3>1 DEF TypeOK
            <4>2. QED BY <3>1, <4>1, <2>2 DEF SignedShape
        <3>2. CASE s = <<a, VoteDigest(NewVote(h, a))>>
            <4>1. h \in voted'[a]
                BY <2>1 DEF TypeOK
            <4>2. QED BY <3>2, <4>1
        <3>3. QED BY <3>1, <3>2 DEF CastVote
    <2>5. VoteAuthentic'
        <3> SUFFICES ASSUME NEW v \in votes', v.author \in Honest
                     PROVE  \E x \in voted'[v.author] : NewVote(x, v.author) = v
            BY DEF VoteAuthentic
        <3>1. \E x \in voted[v.author] : NewVote(x, v.author) = v
            BY DEF CastVote, VoteAuthentic
        <3>2. QED BY <3>1, <2>2
    <2>6. QED BY <2>3, <2>4, <2>5
<1>3. CASE \E h \in AllHeaders : ReceiveHeader(h)
    <2> PICK h \in AllHeaders : ReceiveHeader(h)
        BY <1>3
    <2>1. TypeOK'
        <3>1. stored' \subseteq AllHeaders
            BY DEF ReceiveHeader, TypeOK
        <3>2. UNCHANGED <<signed, proposed, voted, votes>>
            BY DEF ReceiveHeader
        <3>3. QED BY <3>1, <3>2 DEF TypeOK
    <2>2. QED BY <2>1 DEF ReceiveHeader, SignedShape, VoteAuthentic
<1>4. CASE \E h \in AllHeaders, a \in Honest : ReceiveVote(NewVote(h, a))
    <2> PICK h \in AllHeaders, a \in Honest : ReceiveVote(NewVote(h, a))
        BY <1>4
    <2>1. <<a, VoteDigest(NewVote(h, a))>> \in signed
        BY DEF ReceiveVote, Verify, Honest, NewVote
    <2>2. \E x \in voted[a] : NewVote(x, a) = NewVote(h, a)
        <3>1. ~\E x1, x2, x3 : VoteDigest(NewVote(h, a)) = Hash(<<a, x1, x2, x3>>)
            BY HeaderIdNotVoteDigest DEF VoteDigest
        <3>2. PICK x \in voted[a] : VoteDigest(NewVote(h, a)) = VoteDigest(NewVote(x, a))
            BY <2>1, <3>1 DEF SignedShape
        <3>3. QED BY <3>2, VoteDigestInjective
    <2>3. NewVote(h, a).author = a
        BY DEF NewVote
    <2>4. TypeOK'
        <3>1. NewVote(h, a) \in {NewVote(x, b) : x \in AllHeaders, b \in Authority}
            BY DEF Honest
        <3>2. QED BY <3>1 DEF ReceiveVote, TypeOK
    <2>5. VoteAuthentic'
        BY <2>2, <2>3 DEF ReceiveVote, VoteAuthentic
    <2>6. QED BY <2>4, <2>5 DEF ReceiveVote, SignedShape
<1>5. CASE UNCHANGED vars
    <2>1. UNCHANGED <<signed, proposed, voted, stored, votes>>
        BY <1>5 DEF vars
    <2>2. TypeOK'
        BY <2>1 DEF TypeOK
    <2>3. SignedShape'
        BY <2>1 DEF SignedShape
    <2>4. VoteAuthentic'
        BY <2>1 DEF VoteAuthentic
    <2>5. QED BY <2>2, <2>3, <2>4
<1>6. QED BY <1>1, <1>2, <1>3, <1>4, <1>5 DEF Next

(* Every reachable state is well typed: honest signatures are over header  *)
(* ids and vote digests, and the Store holds headers Header::new can make. *)
THEOREM TypeCorrect == Spec => []TypeOK
<1>1. IInv => TypeOK
    BY DEF IInv
<1>2. QED BY <1>1, InitIInv, NextIInv, PTL DEF Spec

(* Vote::digest authenticates a vote: a vote the receiver accepts from an  *)
(* honest voter, with a signature over Vote::digest, is one the voter cast *)
(* with Vote::new, whatever headers, ids and signatures an equivocating    *)
(* origin and the network produce.                                          *)
THEOREM VoteAuthenticity == Spec => []VoteAuthentic
<1>1. IInv => VoteAuthentic
    BY DEF IInv
<1>2. QED BY <1>1, InitIInv, NextIInv, PTL DEF Spec

=============================================================================
