------------------------------ MODULE VoteAuth ------------------------------
(***************************************************************************)
(* What the signatures over Header::digest and Vote::digest authenticate.  *)
(* The honest authorities propose one header per round and vote for the    *)
(* first header of each origin and round (spec 4.7, 4.8, 8.3), signing the *)
(* id or the vote digest; the Byzantine authorities sign anything.  One    *)
(* honest receiving Core accepts a header or a vote when its author's      *)
(* signature on its digest has been made, whichever message it was made    *)
(* for: the network, or a Byzantine relay, may re-attach any signature it  *)
(* has seen.  Accepted headers are persisted under their id.               *)
(*                                                                         *)
(* Signing, verification and the Core's handlers are not in this           *)
(* repository's sources and follow the spec; the messages and digests are  *)
(* those of Messages.                                                      *)
(***************************************************************************)
EXTENDS Messages

CONSTANTS
    Byzantine, \* the faulty authorities
    Rounds,    \* the rounds headers are made for
    Payloads   \* the payload maps a header can carry (sets of pairs)

ASSUME VoteAuthAssumption ==
    /\ Byzantine \subseteq Authority
    /\ Rounds \subseteq Nat \ {0}
    /\ Payloads # {}

Honest == Authority \ Byzantine

(* The timeout certificates a header of round r can carry: the default    *)
(* one, or one made for round r - 1.                                       *)
TimeoutCertChoices(r) == {NewTimeoutCert(0), NewTimeoutCert(r - 1)}

(* Every header an author could sign: Header::new over the inputs. *)
AllHeaders ==
    UNION { { NewHeader(a, r, p, {}, tc, NewNoVoteCert(0)) :
                a \in Authority, p \in Payloads, tc \in TimeoutCertChoices(r) } :
            r \in Rounds }

VARIABLES
    signed,   \* <<signer, digest>>: the signatures honest authorities made
    proposed, \* the headers honest authorities proposed
    voted,    \* voted[a]: the headers honest a voted for
    stored,   \* the receiver's Store: headers under their id
    votes     \* the votes the receiver accepted

vars == <<signed, proposed, voted, stored, votes>>

TypeOK ==
    /\ signed \subseteq Honest \X ({h.id : h \in AllHeaders}
                           \cup {VoteDigest(NewVote(h, a)) : h \in AllHeaders, a \in Authority})
    /\ proposed \subseteq AllHeaders
    /\ voted \in [Honest -> SUBSET AllHeaders]
    /\ stored \subseteq AllHeaders
    /\ votes \subseteq {NewVote(h, a) : h \in AllHeaders, a \in Authority}

Init ==
    /\ signed = {}
    /\ proposed = {}
    /\ voted = [a \in Honest |-> {}]
    /\ stored = {}
    /\ votes = {}

(* A signature of author a on digest d verifies: a made it, or a is faulty. *)
Verify(a, d) == a \in Byzantine \/ <<a, d>> \in signed

-----------------------------------------------------------------------------
(* The Proposer of honest a makes one header per round and signs its id. *)
Propose(a, r, p) ==
    LET h == NewHeader(a, r, p, {}, NewTimeoutCert(0), NewNoVoteCert(0))
    IN  /\ ~\E x \in proposed : x.author = a /\ x.round = r
        /\ proposed' = proposed \cup {h}
        /\ signed' = signed \cup {<<a, h.id>>}
        /\ UNCHANGED <<voted, stored, votes>>

(* Honest a votes for a header it received with a valid signature, the    *)
(* first of its origin at its round; it signs Vote::new's digest.         *)
CastVote(a, h) ==
    /\ Verify(h.author, h.id)
    /\ ~\E x \in voted[a] : x.author = h.author /\ x.round = h.round
    /\ voted' = [voted EXCEPT ![a] = @ \cup {h}]
    /\ signed' = signed \cup {<<a, VoteDigest(NewVote(h, a))>>}
    /\ UNCHANGED <<proposed, stored, votes>>

(* The receiver persists a header with a valid signature under its id     *)
(* (store.write overwrites what the key held).                             *)
ReceiveHeader(h) ==
    /\ Verify(h.author, h.id)
    /\ stored' = {x \in stored : x.id # h.id} \cup {h}
    /\ UNCHANGED <<signed, proposed, voted, votes>>

(* The receiver accepts a vote whose voter signed its digest. *)
ReceiveVote(v) ==
    /\ v \notin votes
    /\ Verify(v.author, VoteDigest(v))
    /\ votes' = votes \cup {v}
    /\ UNCHANGED <<signed, proposed, voted, stored>>

(* Votes of faulty voters are left out of the receiver's inputs: nothing   *)
(* below is about them.                                                    *)
Next ==
    \/ \E a \in Honest, r \in Rounds, p \in Payloads : Propose(a, r, p)
    \/ \E a \in Honest, h \in AllHeaders : CastVote(a, h)
    \/ \E h \in AllHeaders : ReceiveHeader(h)
    \/ \E h \in AllHeaders, a \in Honest : ReceiveVote(NewVote(h, a))

Spec == Init /\ [][Next]_vars

-----------------------------------------------------------------------------
(* A vote the receiver accepts from an honest voter is one that voter     *)
(* cast: a vote for one header of an equivocating origin cannot be passed *)
(* off as a vote for another header of that origin and round.              *)
VoteAuthentic ==
    \A v \in votes :
        v.author \in Honest => \E h \in voted[v.author] : NewVote(h, v.author) = v

(* Spec 4.1 and 4.7: headers are kept under the key h.id, and a vote for   *)
(* an id is a vote for the header held under it.  Every honest vote the    *)
(* receiver accepts is for the very header the receiver stores under the   *)
(* vote's id, when it stores one.                                           *)
VotesCertifyStoredHeader ==
    \A v \in votes, h \in stored :
        v.author \in Honest /\ h.id = v.id => h \in voted[v.author]

=============================================================================
