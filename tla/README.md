# TLA+ models of the Sailfish primary

This directory holds TLA+ specifications of the primary in `src/primary/src`:
- the vote, certificate, timeout and no-vote aggregators;
- the Synchronizer;
- the CertificateWaiter;
- the messages and digests of `messages.rs`, with what their signatures
  authenticate;
- the Core's round advance on certificate batches.

It also holds the TLC configurations that model-check them. The TLAPS proofs
cover all four aggregators (all but their stake sums), the Synchronizer and
CertificateWaiter (including a refinement of what they promise the Core), and
header, vote and timeout authentication. `PROJECT.json` maps every definition to the lines it
translates, and lists the runs, the mutants, the findings and the hazards.

## The system and its parts

A primary runs several tokio tasks that talk over bounded channels (capacity
1000):
- **Core** (not in `src/`). It handles headers, votes and certificates. It owns
  one `VotesAggregator` per header it proposed, one `CertificatesAggregator` per
  round, and the timeout and no-vote aggregators. It calls the Synchronizer
  inline.
- **Synchronizer** (`synchronizer.rs`).
  - `get_parents` resolves a header's parents. A genesis parent is substituted;
    any other parent is read from the Store. If any is missing, the header is
    parked with the HeaderWaiter.
  - `deliver_certificate` accepts a certificate whose header and non-genesis
    parents are stored. Otherwise it *awaits* a send to the CertificateWaiter.
- **CertificateWaiter** (`certificate_waiter.rs`). It parks a certificate as a
  future on `notify_read` of:
  - the header's parents, when the header is stored;
  - otherwise the header id itself.

  When the future resolves, the waiter *awaits* a send back to the Core.
- **HeaderWaiter**, **Proposer**, **Store** and the **committee and clan**
  (crate `config`). None of these are in `src/`.

## Modules

| Module | Models | State / actions |
|---|---|---|
| `Committee` | committee and clan (spec-modelled) | constants `Authority`, `Stake`, `Clan`, `BlsIndex`, `LeaderOrder`, `LeadersPerRound`; `StakeOf`, `QuorumThreshold` = 2T/3+1 (as scenario S1 fixes it), `ClanValidityThreshold`, `LeaderList` |
| `VotesAggregator` | `VotesAggregator::new/append` | the struct's fields. A BLS share or aggregate is the set of authors it combines. A u128 word is the set of its 1-bits, and `WordBits` stands for 128. Actions: `AppendReuse` (the `ensure!` error), `AppendNew` (the whole rest of `append`). |
| `QuorumCertificate` | what a vote aggregator promises (spec 8.2, 8.5) | `voters`, `qcerts`. Action `Vote(a)`: a new voter is counted, and the certificate is issued once, when the voters first reach both thresholds. |
| `CertificatesAggregator` | `CertificatesAggregator::new/append` | `weight`, `certificates`, `used`, plus the history of returned `batches`. Actions: `AppendDuplicate`, `AppendNew`. |
| `RoundAggregators` | `TimeoutAggregator`, `NoVoteAggregator` | the same code for both, as functions over the two kinds. Actions: `AppendTimeout`, `AppendNoVote`, `AppendReuse`. |
| `RoundProgress` | one `CertificatesAggregator::append` per round, composed with the Core's round advance (spec 4.7) | `current_round`, and each round's `weight` and `used`. Action `ProcessCertificate(r, o)`: the append, then, on a batch, `current_round = r + 1` and the reset of the rounds at or below `gc_round`. |
| `CertificateSync` | Synchronizer + CertificateWaiter + the Core's use of them | `store`, the two channels, the tasks blocked on a send (`coreSend`, `waiterSend`), the waiter's pool `pending`, and the headers parked in the HeaderWaiter. |
| `CertificateDelivery` | what the Synchronizer and CertificateWaiter promise the Core (spec 4.6, 5) | `stored`, `delivered`, `taken`. Actions: `StoreHeader(h)` on stored parents, `Receive(c)` (the Core may take `c` at once if it is complete), and `Accept(c)` of a delivered, complete certificate. |
| `Messages` | `messages.rs`: `Header::new`, `Vote::new`, `Timeout`, `NoVoteMsg`, `TimeoutCert::add_timeout`, `NoVoteCert::add_no_vote`, and every `digest` | operators only. A digest is `Hash(fields)`, the record of exactly the fields the code feeds to SHA-512, so it is collision free and tells apart exactly what the code's bytes tell apart. |
| `VoteAuth` | signing and verifying headers and votes (spec 4.7, 4.8, 8.3) over the digests of `Messages` | `signed`, `proposed`, `voted`, `stored`, `votes`. Actions: `Propose`, `CastVote`, `ReceiveHeader`, `ReceiveVote`. A Byzantine author signs anything, and any seen signature can be re-attached to any message. |
| `RoundMsgAuth` | signing and verifying timeouts and no-votes, folded into `TimeoutCert`/`NoVoteCert` | `signed`, `votedLeader`, `timedOut`, `noVoted`, `tcert`, `ncert`. Actions: `VoteForLeader`, `SendTimeout`, `SendNoVote`, `ReceiveTimeout`, `ReceiveNoVote`. |
| `*Proofs` | TLAPS proofs | see below |

`VoteAuth`, `RoundMsgAuth` and the Core half of `RoundProgress` model code that
is not in `src/` (signing, the Core's handlers) from the spec. Everything they
hash, build or fold is the code of `messages.rs` and `aggregators.rs`, through
`Messages` and the same definitions as the aggregator modules.

In `CertificateSync`:
- A handler that reads the Store across several awaits is one atomic step.
  Nothing is ever deleted from the Store, so a key read present stays present.
  The outcome is therefore the one given by an atomic read at the last await.
- A blocked `send(..).await` is modelled as its own step, which fires once the
  bounded channel has room. While it is blocked, the task does nothing else.
  This is what `tokio::select!` inside one task gives.

Each `MC_*` module gives the constants concrete values:
- `MC_VotesAggregator`: five authorities with unequal stakes and a three-member
  clan. `WordBits = 2`, so the bitmap has three words and the word and bit
  arithmetic is exercised.
- `MC_CertificatesAggregator` and `MC_RoundAggregators`: four authorities.
- `MC_RoundProgress`: four authorities of unit stake, round-robin leaders, three
  rounds and `gc_depth = 3`, so an old round's aggregator outlives two advances.
- `MC_CertificateSync`: two round-1 headers on two genesis digests, and a
  round-2 header on both.
- `MC_VoteAuth`: one honest and one Byzantine authority, round 2, an empty
  payload or one batch, and both timeout certificates a round-2 header can
  carry (the default one and one for round 1).
- `MC_RoundMsgAuth`: two honest authorities and a Byzantine one, rounds 1 and 2.

## Runs

| Run | Property | Result | Shows |
|---|---|---|---|
| votes | `CertificateValid`, `BitmapAgreesWithVotes`, `ImplementsQuorumCertificate` | pass | Every certificate's bitmap and aggregate name the same voters, who carry a quorum and a clan share. `append` refines `QuorumCertificate`: it issues exactly one certificate, at the first quorum. |
| certs | `EveryCertificateOnce`, `FirstBatchHasLeaders`, `FirstBatchQuorum` | pass | The drain hands each origin to the Core once. The first batch has every leader of the round, and its authors carry a quorum. |
| certs_quorum | `EveryBatchQuorum` | violation | Weight is never reset (line 127 is commented out), so later certificates come back as batches of one. |
| round_regress | `RoundMonotonic` | violation | A round's aggregator can fire after a later round's has. With spec 4.7's `current_round = r + 1`, the Core's round then moves back. |
| round_aggs | `CertDistinctAuthors`, `CertQuorum`, `CertsExtend` | pass | Timeout and no-vote certificates list each author once, and their authors carry a quorum. Nothing is reset after the quorum, so each later certificate extends the earlier ones. |
| sync_safety | `NoLostCertificate`, `DagClosed`, `ImplementsCertificateDelivery`, `LaterRoundCertificateAccepted` | pass | With duplicate deliveries and any arrival order, no certificate is dropped between the tasks. Every stored header has its parents stored, and every accepted certificate has its header stored. The path refines `CertificateDelivery`. Under fair task scheduling, a certificate whose header has no genesis parent is accepted once its header is stored, unless the Core and the waiter end in the circular wait of `sync_wait`. With channels of 2 that wait is reachable in this run, so the property does not rest on channels that never fill. |
| sync_genesis | `CertificateAccepted` | violation | A round-1 certificate parked after its header is stored waits on genesis digests that are never written. |
| sync_wait | `NoCircularWait` | violation | With both channels full, the Core and the CertificateWaiter wait on each other forever. |
| vote_auth | `VoteAuthentic` | pass | With a faulty origin that equivocates and re-attaches any signature it has seen, no accepted vote of an honest voter is one that voter did not cast. |
| header_id | `VotesCertifyStoredHeader` | violation | `Header::digest` leaves out `timeout_cert` and `no_vote_cert`, so an honest vote for one header certifies another header, stored under the same id. |
| round_msg_auth | `TimeoutCertAuthentic` | pass | No honest timeout of another round can be replayed into a round's `TimeoutCert`. |
| novote_auth | `NoVoteCertExcludesVoters` | violation | `NoVoteMsg::digest` hashes the bytes `Timeout::digest` does. An honest timeout's signature therefore verifies as a no-vote, and it puts an author who voted for the leader into the `NoVoteCert`. |

Every property of a passing run is broken by a mutant of the code (PROJECT.json,
"mutants"):
- a swapped word and bit;
- the clan guard dropped;
- the latch never resetting (it breaks the refinement);
- the drain keeping its certificates;
- the leaders of the wrong round;
- the quorum compared one short;
- the `used` check dropped;
- the timeout entries moved into the certificate (`std::mem::take`) instead of cloned;
- the wrong future removed from the pool;
- `get_parents` reporting a header ready once any parent is at hand;
- a hand-off that drops the certificate;
- `deliver_certificate` reading a missing header as one with no parents;
- `Vote::digest` without the header id;
- `Timeout::digest` without the round.

## Findings

- `aggregators.rs:127`: the weight reset is commented out, against spec 4.4
  (certs_quorum).
- `aggregators.rs:126`, with spec 4.7: batches reach the Core out of round order,
  and the round moves back (round_regress). The spec has no guard
  `r + 1 > current_round`. The missing reset makes it worse, because an old
  round's aggregator keeps firing.
- `certificate_waiter.rs:83`: a round-1 certificate waits on genesis digests
  forever (sync_genesis).
- `synchronizer.rs:155`, with `certificate_waiter.rs:99`: the circular wait on
  the two bounded channels (sync_wait).
- `messages.rs:156`: the timeout and no-vote digests collide (novote_auth).
- `messages.rs:51`: the header id does not bind the header's certificates
  (header_id).

**Bounds.** The aggregator runs enumerate every order of every author's append,
repeats included, because each author appends at most once with effect. Five
authorities with unequal stakes are enough for a quorum to be reached:
- with and without the clan share;
- by a heavy voter;
- with votes arriving after the latch.

`sync_safety` allows two copies of each certificate and channels of 2. Both
channels can fill and the circular wait is reachable there too (TLC finds
`NoCircularWait` violated on that instance), so `LaterRoundCertificateAccepted`
states it as the one way a certificate may fail to be accepted. `sync_wait` uses channels of 1 so that both can fill; the
code's capacity of 1000 only makes the wait take longer to reach.
`round_regress` needs three rounds and a `gc_depth` of at least 3, so that
round 1's aggregator is still live when round 3 is reached.
The authentication runs need one faulty author and a single round (two for
the timeouts, so that a timeout can be replayed into another round).

`CHECK_DEADLOCK FALSE` is used in the sync runs because the network's deliveries
are bounded, and once they are done the system really stops. It is also used in the
authentication and round runs, whose inputs run out in the same way.

**Fairness.** Weak fairness is assumed only for the task steps:
- header processing;
- the HeaderWaiter firing;
- the Core's loop-back;
- both blocked sends;
- the waiter receiving;
- a future resolving.

tokio schedules every runnable task, and `select!` polls every ready branch.
Nothing is assumed of the network.

## Proofs

Six modules hold TLAPS proofs, and `SequenceLemmas` holds the lemmas about
`ToSet` and `IsInjective` that two of them share. Each theorem holds for every value of the
constants that the module's named assumptions allow (`CommitteeAssumption` and
the module's own). Each invariant is proved the same way:
- `Init => IInv`;
- `IInv /\ [Next]_vars => IInv'`, with one step per action, and under it one
  step per variable that the action changes;
- `IInv => Inv`;
- then `Spec => []Inv` by PTL.

TLC checks every `IInv` as an invariant before it is proved.

**`VotesAggregatorProofs`**
- `TypeCorrect`: the word that `binary_search` selects always exists.
- `BitmapAgreement`: `Spec => []BitmapAgreesWithVotes`.
- The inductive invariant is `TypeOK /\ BitmapAgreesWithVotes`.
- Lemmas:
  - `IndexInRange`: the word and bit of a position lie in range.
  - `IndexInjective`: distinct keys have distinct positions.
  - `ClearBitContributors`: clearing a's bit adds exactly a to the bitmap's
    contributors.

**`VoteAuthProofs`**
- `TypeCorrect`.
- `VoteAuthenticity`: `Spec => []VoteAuthentic`, for every committee and set
  of faulty authorities.
- `VoteAuthentic` is not inductive. A signature honest a made might verify a
  vote a never cast. The strengthening `SignedShape` says that every honest
  signature is either a header id signed by its author, or the digest of a vote
  the signer cast.
- Lemmas:
  - `HeaderIdNotVoteDigest`: the two digests hash sequences of different
    lengths.
  - `VoteDigestInjective`: the vote digest determines the id, the round and the
    origin.

**`RoundMsgAuthProofs`**
- `TypeCorrect`.
- `TimeoutCertAuthenticity`: `Spec => []TimeoutCertAuthentic`.
- The strengthening `SignedByTimedOut` says that every honest signature is the
  digest of a timeout of a round in which its signer timed out.
- Lemma `HashRoundInjective`: the timeout digest determines the round.
- The no-vote half has no such theorem, because TLC shows it false
  (novote_auth).

**`CertificateSyncProofs`**
- `TypeCorrect`.
- `NoLoss`: `Spec => []NoLostCertificate`, for every capacity, header set,
  parent relation and delivery bound.
- `NoLostCertificate` is itself inductive together with `TypeOK`. The work is in
  showing, for each step, two things:
  - the step keeps every certificate on its path (the channels, the blocked
    sends, the pool and the accepted set);
  - each path's new content includes the old.
- `DagIntegrity`: `Spec => []DagClosed`. `DagClosed` is inductive on its
  own. The Store grows only in `ProcessHeader`, under the check that no
  parent is missing. The accepted set grows only in `deliver_certificate`,
  under the check that the header is stored.
- `Refinement`: `Spec => ImplementsCertificateDelivery`, that is
  `CD!Spec`, with `stored <- store`, `delivered <- {c : copies[c] > 0}` and
  `taken <- accepted`. The proof is step by step:
  - `InitRefines`: the initial state maps to the abstract one.
  - `StepRefines`: `ProcessHeader` with no parent missing is `StoreHeader`.
    `ReceiveCertificate` is `Receive`, taking the certificate if
    `deliver_certificate` found it ready. `CoreLoopBack` is `Accept` when it
    takes the certificate. Every other step is a stutter.
  - `StepRefines` needs the invariant `RInv == IInv /\ DagClosed /\
    InFlightDelivered`. `InFlightDelivered` says that every certificate on the
    path was delivered by the network. Without it, a loop-back could not be
    shown to take a delivered certificate. It holds because each step only
    moves what it took from a channel, the pool or a blocked send. TLC checked
    `RInv` on the sync_safety instance before it was proved.
- It uses the lemmas of `SequenceLemmas`: `ToSet` of `Append`, `Tail`, `\o`,
  prefixes, suffixes and `RemoveAt`, and `RemoveAtSubset`.

**`CertificatesAggregatorProofs`**
- `TypeCorrect`.
- `CertificateOnce`: `Spec => []EveryCertificateOnce`. Each accepted origin is
  pending or in exactly one drained batch, once, and nothing else is.
- `FirstBatchLeaders`: `Spec => []FirstBatchHasLeaders`.
- The inductive invariant is `TypeOK /\ EveryCertificateOnce /\
  FirstBatchHasLeaders`. `EveryCertificateOnce` is inductive together with
  `TypeOK`. The `used` check keeps a new origin out of every batch and out of
  the pending list. `FirstBatchHasLeaders` needs nothing more: the first batch
  never changes after it is drained, and it is drained only when the leader
  check passes on it.
- Lemma `UnionAppend`: the union of the batches' sets after a drain is the old
  union plus the drained list's set.
- The proof found an error in the first statement of `EveryCertificateOnce`.
  `UNION {...} \cup ToSet(certificates)` parses as
  `UNION ({...} \cup ToSet(certificates))`. TLC had passed it, because on the
  runs both readings agree whenever the state is correct. The statement now
  has parentheses.

**`RoundAggregatorsProofs`**
- `TypeCorrect`.
- `DistinctAuthors`: `Spec => []CertDistinctAuthors`, for every committee.
- `CertDistinctAuthors` is not inductive. A certificate is a clone of the
  pushed entries, so the entries themselves must be free of repeats. The
  strengthening `EntriesAreUsed` says that each aggregator's entries list its
  `used` set, each author once. With it, the `ensure!` on `used.insert` is what
  keeps a new entry from repeating an old one.
- `CertificatesExtend`: `Spec => []CertsExtend`. Each certificate is a prefix
  of the pushed entries and longer than every earlier one. `CertsExtend` is a
  conjunct of the same inductive invariant. A certificate already returned
  stays a prefix of the entries, which only grow. It is not longer than the
  entries were, so it is shorter than the new certificate.

**`SequenceLemmas`**
- `ToSet` of the empty sequence, `Append`, `Tail`, `\o`, `SubSeq` prefixes and
  suffixes, and `RemoveAt`.
- `AppendKeepsInjective`: appending an element not yet in an injective
  sequence keeps it injective.
- `PrefixDef`, `PrefixAppend`, `PrefixSelf`: `IsPrefix` read position by
  position, preserved by `Append` on the longer sequence, and reflexive.
- `RemoveAtSubset` and `ToSetType`: `RemoveAt` adds no element, and the
  elements of a sequence over `S` are in `S`.

## Only model-checked

The following are checked by TLC on the small instances above and not proved:
- The liveness properties (`LaterRoundCertificateAccepted`). TLAPS does not
  handle fairness.
- The properties over stake sums:
  - `CertificateValid`;
  - `CertQuorum`;
  - `FirstBatchQuorum`;
  - the refinement `ImplementsQuorumCertificate`.

  These rest on `StakeOf`, a `MapThenSumSet` fold. Reasoning about it needs the
  library's induction theorems, which take an operator parameter that the
  installed provers cannot instantiate. What each certificate and batch is
  made of (its authors, each once, and the leaders) is proved above; only the
  sum of their stake is not.
- The violation runs (`EveryBatchQuorum`, `RoundMonotonic`,
  `CertificateAccepted`, `NoCircularWait`, `VotesCertifyStoredHeader`,
  `NoVoteCertExcludesVoters`): TLC shows them false.

## Not modelled

- `node/src/main.rs`: CLI and file I/O.
- These are not in `src/` and appear only where the modules above need them:
  - the Core's voting, proposing and timeout handling;
  - the Proposer;
  - the workers;
  - the HeaderWaiter.
- Storage failures. The panic at `certificate_waiter.rs:103` is not modelled.
- The byte layout of the digests. The missing length prefix between
  `payload` and `parents` (`messages.rs:55`) is a hazard with no property:
  `Hash` keeps the fields apart.

Note that `messages.rs` and `aggregators.rs` disagree on the shape of
`Certificate` (`header` and `votes` against `header_id` and a bitmap). The
aggregator model follows `aggregators.rs`, which is the code the aggregation
runs.

## Plan for later sittings

1. Model the Proposer and the Core's header handler from the spec, composed
   with `RoundProgress`. Check that a header is proposed on a quorum of parents.
2. Model a storage failure at `certificate_waiter.rs:103` (the panic that loses
   the parked certificates).
