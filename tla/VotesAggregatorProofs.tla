------------------------ MODULE VotesAggregatorProofs ------------------------
(***************************************************************************)
(* Proofs about the VotesAggregator for every committee, clan, stake       *)
(* assignment, BLS key order and word width allowed by the assumptions.    *)
(***************************************************************************)
EXTENDS VotesAggregator, FiniteSetTheorems, TLAPS

(* The committee has at least one member. *)
LEMMA NType == N \in Nat \ {0}
<1>1. N \in Nat
    BY CommitteeAssumption, FS_CardinalityType DEF N
<1>2. N # 0
    BY CommitteeAssumption, FS_EmptySet DEF N
<1>3. QED BY <1>1, <1>2

(* Facts of integer division by the word width. *)
LEMMA DivMonotone ==
    ASSUME NEW x \in Nat, NEW y \in Nat, x <= y
    PROVE  x \div WordBits <= y \div WordBits
BY WordBitsAssumption

LEMMA DivShift ==
    ASSUME NEW x \in Nat
    PROVE  (x + WordBits) \div WordBits = x \div WordBits + 1
BY WordBitsAssumption

LEMMA DivModRange ==
    ASSUME NEW x \in Nat
    PROVE  x \div WordBits \in Nat /\ x % WordBits \in 0..(WordBits - 1)
BY WordBitsAssumption

LEMMA DivModInjective ==
    ASSUME NEW x \in Nat, NEW y \in Nat,
           x \div WordBits = y \div WordBits, x % WordBits = y % WordBits
    PROVE  x = y
BY WordBitsAssumption, SMTT(60)

(* binary_search(..).unwrap() yields a position whose word exists in the   *)
(* vector of (N + 127) / 128 words, and whose bit is below the width.      *)
LEMMA IndexInRange ==
    ASSUME NEW a \in Authority
    PROVE  Chunk(a) \in Words /\ Bit(a) \in Bits
<1> DEFINE i == BlsIndex[a]
<1>1. i \in 0..(N - 1) /\ N - 1 \in Nat
    BY CommitteeAssumption, NType
<1>2. (N + WordBits - 1) \div WordBits = (N - 1) \div WordBits + 1
    <2>1. N + WordBits - 1 = (N - 1) + WordBits
        BY NType, WordBitsAssumption
    <2>2. QED BY <1>1, <2>1, DivShift
<1>3. i \div WordBits <= (N - 1) \div WordBits
    BY <1>1, DivMonotone
<1>4. i \div WordBits \in Nat /\ (N - 1) \div WordBits \in Nat
    BY <1>1, DivModRange
<1>5. Chunk(a) \in Words
    BY <1>2, <1>3, <1>4 DEF Chunk, Words, NWords
<1>6. Bit(a) \in Bits
    BY <1>1, DivModRange DEF Bit, Bits
<1>7. QED BY <1>5, <1>6

(* Two authorities with the same word and bit are the same authority:     *)
(* the position is word * 128 + bit and the sorted keys are distinct.      *)
LEMMA IndexInjective ==
    ASSUME NEW a \in Authority, NEW b \in Authority,
           Chunk(a) = Chunk(b), Bit(a) = Bit(b)
    PROVE  a = b
<1>1. BlsIndex[a] \in Nat /\ BlsIndex[b] \in Nat
    BY CommitteeAssumption, NType
<1>2. BlsIndex[a] = BlsIndex[b]
    BY <1>1, DivModInjective DEF Chunk, Bit
<1>3. QED BY <1>2, CommitteeAssumption

(* Clearing a voter's bit keeps the bitmap well formed. *)
LEMMA ClearBitType ==
    ASSUME NEW bv \in [Words -> SUBSET Bits], NEW a \in Authority
    PROVE  ClearBit(bv, a) \in [Words -> SUBSET Bits]
BY IndexInRange DEF ClearBit

(* Clearing a's bit adds exactly a to the authorities the bitmap names. *)
LEMMA ClearBitContributors ==
    ASSUME NEW bv \in [Words -> SUBSET Bits], NEW a \in Authority
    PROVE  Contributors(ClearBit(bv, a)) = Contributors(bv) \cup {a}
<1>1. ASSUME NEW b \in Authority
      PROVE  Bit(b) \notin ClearBit(bv, a)[Chunk(b)]
             <=> (Bit(b) \notin bv[Chunk(b)] \/ b = a)
    <2>1. CASE Chunk(b) = Chunk(a)
        <3>1. ClearBit(bv, a)[Chunk(b)] = bv[Chunk(b)] \ {Bit(a)}
            BY <2>1, IndexInRange DEF ClearBit
        <3>2. Bit(b) = Bit(a) <=> b = a
            BY <2>1, IndexInjective
        <3>3. QED BY <3>1, <3>2
    <2>2. CASE Chunk(b) # Chunk(a)
        <3>1. ClearBit(bv, a)[Chunk(b)] = bv[Chunk(b)]
            BY <2>2, IndexInRange DEF ClearBit
        <3>2. b # a
            BY <2>2
        <3>3. QED BY <3>1, <3>2
    <2>3. QED BY <2>1, <2>2
<1>2. QED BY <1>1 DEF Contributors

-----------------------------------------------------------------------------
(* The inductive invariant: the type, and the agreement of the bitmap, the *)
(* aggregate, the vote list and the used set.                              *)
IInv == TypeOK /\ BitmapAgreesWithVotes

LEMMA InitIInv == Init => IInv
<1> SUFFICES ASSUME Init PROVE IInv
    OBVIOUS
<1>1. TypeOK
    BY DEF Init, TypeOK
<1>2. Contributors(pk_bit_vec) = {}
    BY IndexInRange DEF Init, Contributors
<1>3. QED BY <1>1, <1>2, FS_EmptySet DEF Init, BitmapAgreesWithVotes, IInv

LEMMA NextIInv == IInv /\ [Next]_vars => IInv'
<1> SUFFICES ASSUME IInv, [Next]_vars PROVE IInv'
    OBVIOUS
<1>0. IsFiniteSet(used)
    BY CommitteeAssumption, FS_Subset DEF IInv, TypeOK
<1>1. ASSUME NEW a \in Authority, AppendReuse(a) PROVE IInv'
    BY <1>1 DEF AppendReuse, IInv, TypeOK, BitmapAgreesWithVotes, Contributors
<1>2. ASSUME NEW a \in Authority, AppendNew(a) PROVE IInv'
    <2> DEFINE cw == committee_weight + Stake[a]
               kw == clan_weight + ClanShare(a)
               vs == Append(votes, a)
               bv == ClearBit(pk_bit_vec, a)
               ag == FoldShare(agg_sign, Len(vs), a)
               quorum == cw >= QuorumThreshold /\ kw >= ClanValidityThreshold
    <2>1. /\ a \notin used
          /\ used' = used \cup {a}
          /\ votes' = vs
          /\ clan_weight' = kw
          /\ pk_bit_vec' = bv
          /\ agg_sign' = ag
          /\ committee_weight' = Latch(cw, quorum)
          /\ certs' = IF quorum THEN Append(certs, [bitmap |-> bv, sig |-> ag])
                                ELSE certs
          /\ result' = IF quorum THEN "cert" ELSE "none"
        BY <1>2 DEF AppendNew
    <2>2. Len(vs) = Cardinality(used) + 1
        BY DEF IInv, TypeOK, BitmapAgreesWithVotes
    <2>3. ag = used \cup {a}
        <3>1. CASE used = {}
            BY <3>1, <2>2, FS_EmptySet DEF FoldShare
        <3>2. CASE used # {}
            <4>1. Cardinality(used) # 0
                BY <3>2, <1>0, FS_EmptySet
            <4>2. QED BY <4>1, <2>2, <1>0, FS_CardinalityType
                  DEF FoldShare, IInv, BitmapAgreesWithVotes
        <3>3. QED BY <3>1, <3>2
    <2>4. Contributors(bv) = used \cup {a}
        BY ClearBitContributors DEF IInv, TypeOK, BitmapAgreesWithVotes
    <2>5. bv \in [Words -> SUBSET Bits]
        BY ClearBitType DEF IInv, TypeOK
    <2>6. Cardinality(used') = Cardinality(used) + 1
        BY <2>1, <1>0, FS_AddElement
    <2>7. TypeOK'
        <3>1. Stake[a] \in Nat /\ ClanShare(a) \in Nat
            BY CommitteeAssumption DEF ClanShare
        <3>2. Latch(cw, quorum) \in Nat
            BY <3>1 DEF IInv, TypeOK, Latch
        <3>3. [bitmap |-> bv, sig |-> ag] \in Certificate
            BY <2>3, <2>5 DEF Certificate, IInv, TypeOK
        <3>4. QED BY <2>1, <2>3, <2>5, <3>1, <3>2, <3>3 DEF IInv, TypeOK
    <2>8. BitmapAgreesWithVotes'
        <3>1. \A i \in 1..Len(certs') : certs'[i].sig = Contributors(certs'[i].bitmap)
            <4>1. CASE quorum
                <5>1. certs' = Append(certs, [bitmap |-> bv, sig |-> ag])
                    BY <2>1, <4>1
                <5>2. ASSUME NEW i \in 1..Len(certs') PROVE
                        certs'[i].sig = Contributors(certs'[i].bitmap)
                    <6>1. certs \in Seq(Certificate)
                        BY DEF IInv, TypeOK
                    <6>2. CASE i \in 1..Len(certs)
                        <7>1. certs'[i] = certs[i]
                            BY <5>1, <6>1, <6>2
                        <7>2. QED BY <7>1, <6>2 DEF IInv, BitmapAgreesWithVotes
                    <6>3. CASE i = Len(certs) + 1
                        <7>1. certs'[i] = [bitmap |-> bv, sig |-> ag]
                            BY <5>1, <6>1, <6>3
                        <7>2. QED BY <7>1, <2>3, <2>4
                    <6>4. QED BY <5>1, <6>1, <6>2, <6>3
                <5>3. QED BY <5>2
            <4>2. CASE ~quorum
                BY <2>1, <4>2 DEF IInv, BitmapAgreesWithVotes
            <4>3. QED BY <4>1, <4>2
        <3>2. Len(votes') = Cardinality(used')
            BY <2>1, <2>2, <2>6
        <3>3. QED BY <2>1, <2>3, <2>4, <3>1, <3>2 DEF BitmapAgreesWithVotes
    <2>9. QED BY <2>7, <2>8 DEF IInv
<1>3. CASE UNCHANGED vars
    BY <1>3 DEF vars, IInv, TypeOK, BitmapAgreesWithVotes, Contributors
<1>4. QED BY <1>1, <1>2, <1>3 DEF Next

(* Type correctness of the aggregator. *)
THEOREM TypeCorrect == Spec => []TypeOK
BY InitIInv, NextIInv, PTL DEF Spec, IInv

(* The bitmap of every certificate the aggregator returns names exactly    *)
(* the authorities whose shares its aggregate signature combines, and the  *)
(* running bitmap, aggregate and vote list always agree with the used set. *)
THEOREM BitmapAgreement == Spec => []BitmapAgreesWithVotes
BY InitIInv, NextIInv, PTL DEF Spec, IInv

=============================================================================
