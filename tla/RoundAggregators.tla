--------------------------- MODULE RoundAggregators ---------------------------
(***************************************************************************)
(* TimeoutAggregator and NoVoteAggregator (primary/src/aggregators.rs):    *)
(* the per-round aggregators that turn signed timeouts, and signed no-vote *)
(* messages, into a TimeoutCert or a NoVoteCert once their authors carry a *)
(* quorum of stake.  The two have the same code; the state of each is a    *)
(* component of a function over Kinds.  A (PublicKey, Signature) entry is *)
(* its author: the signature is verified before append and not read by it. *)
(***************************************************************************)
EXTENDS Committee, Sequences, SequencesExt

Kinds == {"timeout", "novote"}

VARIABLES
    weight,   \* weight[k]: stake of the entries of aggregator k
    entries,  \* entries[k]: the pushed (author, signature) pairs, in order
    used,     \* used[k]: authors seen by aggregator k
    certs,    \* certs[k]: the certificates aggregator k has returned
    result    \* outcome of the last append: "none", "reuse", "cert"

vars == <<weight, entries, used, certs, result>>

TypeOK ==
    /\ weight \in [Kinds -> Nat]
    /\ entries \in [Kinds -> Seq(Authority)]
    /\ used \in [Kinds -> SUBSET Authority]
    /\ certs \in [Kinds -> Seq(Seq(Authority))]
    /\ result \in {"none", "reuse", "cert"}

(* TimeoutAggregator::new and NoVoteAggregator::new. *)
Init ==
    /\ weight = [k \in Kinds |-> 0]
    /\ entries = [k \in Kinds |-> << >>]
    /\ used = [k \in Kinds |-> {}]
    /\ certs = [k \in Kinds |-> << >>]
    /\ result = "none"

(* Mutant: the ensure! on used.insert is lost, so a repeat author pushes   *)
(* a second entry and adds its stake again.                                *)
FirstUseUnchecked(k, a) == TRUE

(* ensure!(self.used.insert(author), AuthorityReuse(author)). *)
FirstUse(k, a) == a \notin used[k]

(* append by an author aggregator k has already seen: AuthorityReuse. *)
AppendReuse(k, a) ==
    /\ ~FirstUse(k, a)
    /\ result' = "reuse"
    /\ UNCHANGED <<weight, entries, used, certs>>

(* Mutant: the certificate takes the entries (std::mem::take) instead of  *)
(* cloning them, and the next certificate starts from an empty list.      *)
AppendSignedTaken(k, a) ==
    LET es == Append(entries[k], a)
        w == weight[k] + Stake[a]
    IN  /\ FirstUse(k, a)
        /\ used' = [used EXCEPT ![k] = @ \cup {a}]
        /\ entries' = [entries EXCEPT ![k] = IF w >= QuorumThreshold THEN << >> ELSE es]
        /\ weight' = [weight EXCEPT ![k] = w]
        /\ certs' = IF w >= QuorumThreshold
                    THEN [certs EXCEPT ![k] = Append(@, es)]
                    ELSE certs
        /\ result' = IF w >= QuorumThreshold THEN "cert" ELSE "none"

(* append by a new author: push its entry, add its stake, and once the     *)
(* stake reaches the quorum return a certificate holding a clone of every *)
(* entry.  Nothing is reset, so each later author returns a larger one.    *)
AppendSigned(k, a) ==
    LET es == Append(entries[k], a)
        w == weight[k] + Stake[a]
    IN  /\ FirstUse(k, a)
        /\ used' = [used EXCEPT ![k] = @ \cup {a}]
        /\ entries' = [entries EXCEPT ![k] = es]
        /\ weight' = [weight EXCEPT ![k] = w]
        /\ certs' = IF w >= QuorumThreshold
                    THEN [certs EXCEPT ![k] = Append(@, es)]
                    ELSE certs
        /\ result' = IF w >= QuorumThreshold THEN "cert" ELSE "none"

(* TimeoutAggregator::append. *)
AppendTimeout(a) == AppendSigned("timeout", a)

(* NoVoteAggregator::append. *)
AppendNoVote(a) == AppendSigned("novote", a)

Next ==
    \E a \in Authority :
        \/ AppendTimeout(a)
        \/ AppendNoVote(a)
        \/ \E k \in Kinds : AppendReuse(k, a)

Spec == Init /\ [][Next]_vars

-----------------------------------------------------------------------------
(* Every TimeoutCert and NoVoteCert returned lists each author once.  The *)
(* certificates are not verified against the committee on receipt (spec   *)
(* 9, open question c), so this rests on the ensure! on used alone: a      *)
(* repeated author that got through would be listed twice.                 *)
CertDistinctAuthors ==
    \A k \in Kinds : \A i \in 1..Len(certs[k]) : IsInjective(certs[k][i])

(* The distinct authors of every TimeoutCert and NoVoteCert carry a quorum *)
(* of stake: the weight compared is the stake of exactly the authors       *)
(* listed, with no author's stake counted twice.                           *)
CertQuorum ==
    \A k \in Kinds : \A i \in 1..Len(certs[k]) :
        StakeOf(ToSet(certs[k][i])) >= QuorumThreshold

(* Nothing is reset once the quorum is reached (line 162), so every       *)
(* TimeoutCert and NoVoteCert append returns is a prefix of the pushed     *)
(* entries, and each is longer than the ones returned before it: a later  *)
(* certificate extends every earlier one, and a Core that acts on any of  *)
(* them sees a subset of the authors of the latest.                        *)
CertsExtend ==
    \A k \in Kinds :
        /\ \A i \in 1..Len(certs[k]) : IsPrefix(certs[k][i], entries[k])
        /\ \A i, j \in 1..Len(certs[k]) : i < j => Len(certs[k][i]) < Len(certs[k][j])

=============================================================================
