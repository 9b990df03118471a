--------------------------- MODULE VotesAggregator ---------------------------
(***************************************************************************)
(* VotesAggregator (primary/src/aggregators.rs): folds the votes for one   *)
(* header of this node into a certificate.  One aggregator exists per      *)
(* proposed header, owned by the Core task, so appends are sequential.     *)
(*                                                                         *)
(* Abstractions.  A vote is its author (id, round and origin are those of  *)
(* the one header).  A BLS signature share or aggregate is the set of      *)
(* authors whose shares it combines: aggregation is commutative and        *)
(* associative, so a set is what tells aggregates apart.  The default      *)
(* SignatureShareG1 is the empty aggregate.  A u128 word of pk_bit_vec is  *)
(* the set of its bit positions that are 1, WordBits standing for 128.     *)
(***************************************************************************)
EXTENDS Committee, Sequences

CONSTANT WordBits   \* width of one word of pk_bit_vec (128 in the code)

ASSUME WordBitsAssumption == WordBits \in Nat \ {0}

(* (total_nodes + 127) / 128 words. *)
NWords == (N + WordBits - 1) \div WordBits

Words == 0..(NWords - 1)
Bits == 0..(WordBits - 1)

VARIABLES
    committee_weight, \* stake of the votes counted since the last latch
    clan_weight,      \* stake of the votes from the clan
    votes,            \* the (key, share) pairs pushed, as their authors
    used,             \* authors that already voted
    agg_sign,         \* the running aggregate signature
    pk_bit_vec,       \* the bitmap: a bit is cleared for each voter
    certs,            \* the certificates append has returned, in order
    result            \* outcome of the last append: "none", "reuse", "cert"

vars == <<committee_weight, clan_weight, votes, used, agg_sign, pk_bit_vec,
          certs, result>>

(* A certificate carries the bitmap and the aggregate signature. *)
Certificate == [bitmap : [Words -> SUBSET Bits], sig : SUBSET Authority]

TypeOK ==
    /\ committee_weight \in Nat
    /\ clan_weight \in Nat
    /\ votes \in Seq(Authority)
    /\ used \in SUBSET Authority
    /\ agg_sign \in SUBSET Authority
    /\ pk_bit_vec \in [Words -> SUBSET Bits]
    /\ certs \in Seq(Certificate)
    /\ result \in {"none", "reuse", "cert"}

(* VotesAggregator::new: weights 0, no votes, default signature, all bits 1. *)
Init ==
    /\ committee_weight = 0
    /\ clan_weight = 0
    /\ votes = << >>
    /\ used = {}
    /\ agg_sign = {}
    /\ pk_bit_vec = [w \in Words |-> Bits]
    /\ certs = << >>
    /\ result = "none"

(* Mutants: word and bit swapped; clan stake counted for every voter;     *)
(* the latch that never resets.                                            *)
ClearBitSwapped(bv, a) ==
    [bv EXCEPT ![(BlsIndex[a] % WordBits) % NWords] =
                   @ \ {(BlsIndex[a] \div WordBits) % WordBits}]
ClanShareUnguarded(a) == Stake[a]
LatchNoReset(cw, quorum) == cw

(* The word and the bit that BlsIndex[a] selects (id / 128, id % 128). *)
Chunk(a) == BlsIndex[a] \div WordBits
Bit(a) == BlsIndex[a] % WordBits

(* pk_bit_vec[chunk] &= !(1 << bit). *)
ClearBit(bv, a) == [bv EXCEPT ![Chunk(a)] = @ \ {Bit(a)}]

(* The first share becomes the aggregate; later ones are aggregate_sign'd. *)
FoldShare(agg, nvotes, a) == IF nvotes = 1 THEN {a} ELSE agg \cup {a}

(* The clan weight a vote adds: clan.stake(author) if a clan member. *)
ClanShare(a) == IF a \in Clan THEN Stake[a] ELSE 0

(* committee_weight after a quorum check: 0 once a certificate is out. *)
Latch(cw, quorum) == IF quorum THEN 0 ELSE cw

(* append(vote) by an author that already voted: ensure! returns           *)
(* AuthorityReuse before any field is touched.                             *)
AppendReuse(a) ==
    /\ a \in used
    /\ result' = "reuse"
    /\ UNCHANGED <<committee_weight, clan_weight, votes, used, agg_sign,
                   pk_bit_vec, certs>>

(* append(vote) by a new author: record it, add its stakes, clear its bit, *)
(* fold its share; once both thresholds are met return a certificate and   *)
(* latch by resetting committee_weight to 0.                               *)
AppendNew(a) ==
    LET cw == committee_weight + Stake[a]
        kw == clan_weight + ClanShare(a)
        vs == Append(votes, a)
        bv == ClearBit(pk_bit_vec, a)
        ag == FoldShare(agg_sign, Len(vs), a)
        quorum == cw >= QuorumThreshold /\ kw >= ClanValidityThreshold
    IN  /\ a \notin used
        /\ used' = used \cup {a}
        /\ votes' = vs
        /\ clan_weight' = kw
        /\ pk_bit_vec' = bv
        /\ agg_sign' = ag
        /\ committee_weight' = Latch(cw, quorum)
        /\ certs' = IF quorum THEN Append(certs, [bitmap |-> bv, sig |-> ag])
                              ELSE certs
        /\ result' = IF quorum THEN "cert" ELSE "none"

Next == \E a \in Authority : AppendReuse(a) \/ AppendNew(a)

Spec == Init /\ [][Next]_vars

-----------------------------------------------------------------------------
(* The authorities whose bit is cleared in a bitmap, read back the way a   *)
(* verifier does (map bit positions back to the sorted BLS keys).          *)
Contributors(bv) == { a \in Authority : Bit(a) \notin bv[Chunk(a)] }

(* Certificate validity closure (spec 8.5) together with the signature     *)
(* check: every certificate append returns has contributors carrying a     *)
(* quorum of the committee stake and a clan validity share, and its        *)
(* aggregate signature combines exactly the shares of the contributors its *)
(* bitmap names.  It fails if a vote lands on the wrong bit, if a share is *)
(* lost in the fold, or if a weight counts a vote that is not there.       *)
CertificateValid ==
    \A i \in 1..Len(certs) :
        LET c == certs[i]
            who == Contributors(c.bitmap)
        IN  /\ StakeOf(who) >= QuorumThreshold
            /\ StakeOf(who \cap Clan) >= ClanValidityThreshold
            /\ c.sig = who

(* The aggregator seen through its promise: the voters are the used set,  *)
(* and a certificate is the set of authorities its bitmap names.           *)
QC == INSTANCE QuorumCertificate
        WITH voters <- used,
             qcerts <- [i \in 1..Len(certs) |-> Contributors(certs[i].bitmap)]

(* append implements the quorum certificate of spec 8.2 and 8.5: every     *)
(* append either refuses a repeated voter and changes nothing the promise  *)
(* sees, or counts a new voter; the certificate is returned on the very    *)
(* append after which the distinct voters first carry both thresholds,     *)
(* its bitmap names exactly those voters, and no second one follows, with  *)
(* the latch, the bitmap words and the running weights in between.         *)
ImplementsQuorumCertificate == QC!Spec

-----------------------------------------------------------------------------
(* The invariant the proofs are about: the bitmap, the aggregate and the   *)
(* used set always describe the same voters, and every certificate's       *)
(* aggregate agrees with its bitmap.                                       *)
BitmapAgreesWithVotes ==
    /\ Contributors(pk_bit_vec) = used
    /\ agg_sign = used
    /\ Len(votes) = Cardinality(used)
    /\ \A i \in 1..Len(certs) : certs[i].sig = Contributors(certs[i].bitmap)

=============================================================================
