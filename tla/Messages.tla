------------------------------ MODULE Messages ------------------------------
(***************************************************************************)
(* The message model of primary/src/messages.rs: the constructors, the    *)
(* digests that signatures are made over, and the builders of TimeoutCert *)
(* and NoVoteCert.                                                         *)
(*                                                                         *)
(* A digest is the truncated Sha512 of the bytes a digest() feeds the     *)
(* hasher.  The hash is taken to be collision free, so a digest is        *)
(* represented by the sequence of fields it hashes, in the order they are *)
(* hashed: two digests are equal exactly when the hashed fields are.  A   *)
(* public key, a digest and a round encode to fixed widths, so field      *)
(* sequences of the same layout are equal exactly when their bytes are.   *)
(* Payload and parents are BTreeMap and BTreeSet, hashed in their sorted  *)
(* order, which the set determines; they are kept as sets.                 *)
(***************************************************************************)
EXTENDS Committee, Sequences

(* Digest(hasher.finalize()[..32]) over the hashed fields. *)
Hash(fields) == [sha512 |-> fields]

(* Digest::default(): the all-zero digest, the hash of no message. *)
ZeroDigest == [zero |-> 0]

(* TimeoutCert::new(round) and TimeoutCert::default (round 0). *)
NewTimeoutCert(r) == [round |-> r, timeouts |-> << >>]

(* NoVoteCert::new(round) and NoVoteCert::default (round 0). *)
NewNoVoteCert(r) == [round |-> r, no_votes |-> << >>]

(* Header::digest: author, round, the payload pairs, the parents.  The    *)
(* id, timeout_cert and no_vote_cert are not hashed.                       *)
HeaderDigest(h) == Hash(<<h.author, h.round, h.payload, h.parents>>)

(* Header::new: build the header with a default id, then set id to its    *)
(* digest.                                                                 *)
NewHeader(author, r, payload, parents, tc, nvc) ==
    LET h == [author |-> author, round |-> r, payload |-> payload,
              parents |-> parents, id |-> ZeroDigest,
              timeout_cert |-> tc, no_vote_cert |-> nvc]
    IN  [h EXCEPT !.id = HeaderDigest(h)]

(* Mutant: the round is left out of the timeout digest. *)
TimeoutDigestNoRound(t) == Hash(<<t.author>>)

(* Timeout::new and Timeout::digest: round, then author. *)
NewTimeout(r, author) == [round |-> r, author |-> author]
TimeoutDigest(t) == Hash(<<t.round, t.author>>)

(* NoVoteMsg::new and NoVoteMsg::digest: round, then author. *)
NewNoVote(r, author) == [round |-> r, author |-> author]
NoVoteDigest(m) == Hash(<<m.round, m.author>>)

(* Vote::new: the header's id, round and author, signed by author. *)
NewVote(h, author) ==
    [id |-> h.id, round |-> h.round, origin |-> h.author, author |-> author]

(* Mutant: the header id is left out of the vote digest. *)
VoteDigestNoId(v) == Hash(<<v.round, v.origin>>)

(* Vote::digest: id, round, origin; the voter is not hashed. *)
VoteDigest(v) == Hash(<<v.id, v.round, v.origin>>)

(* TimeoutCert::add_timeout: AuthorityReuse if the key is listed, else    *)
(* push it.                                                                *)
TimeoutReuse(tc, a) == \E i \in 1..Len(tc.timeouts) : tc.timeouts[i] = a
AddTimeout(tc, a) == [tc EXCEPT !.timeouts = Append(@, a)]

(* NoVoteCert::add_no_vote: the same check on no_votes. *)
NoVoteReuse(nc, a) == \E i \in 1..Len(nc.no_votes) : nc.no_votes[i] = a
AddNoVote(nc, a) == [nc EXCEPT !.no_votes = Append(@, a)]

=============================================================================
