--------------------------- MODULE CertificateSync ---------------------------
(***************************************************************************)
(* The certificate path of one primary: the Core task receives headers and *)
(* certificates, the Synchronizer (run inside the Core task) decides with  *)
(* reads of the Store whether their ancestors are there, the               *)
(* CertificateWaiter task parks the certificates that are not ready and    *)
(* loops them back to the Core once the Store holds what they wait for,    *)
(* and the HeaderWaiter parks headers whose parents are missing.           *)
(*                                                                         *)
(*   network --cert--> Core --tx_certificate_waiter--> CertificateWaiter   *)
(*      ^                ^ <--------------tx_core----------------'         *)
(*      '--header--> Core --SyncParents--> HeaderWaiter --header--> Core   *)
(*                                                                         *)
(* Sources: synchronizer.rs (get_parents, deliver_certificate) and         *)
(* certificate_waiter.rs (run, waiter).  The Core's handlers and the       *)
(* HeaderWaiter are not in this repository's sources; they are modelled    *)
(* from spec 4.6 and 4.7.                                                  *)
(*                                                                         *)
(* Abstractions.  A header is its id; a certificate is the id of its       *)
(* header (certificate.header_id), so Certs = Headers.  The Store is the   *)
(* set of header ids written; nothing is deleted.  A step that reads the   *)
(* Store several times across awaits is one atomic step: the Store only    *)
(* grows, so a key read present stays present and one read missing was    *)
(* missing at every earlier read, and the outcome is the one an atomic     *)
(* read at the last await gives.  The genesis headers are substituted by   *)
(* the Synchronizer and never written to the Store.                        *)
(***************************************************************************)
EXTENDS Naturals, Sequences, SequencesExt, FiniteSets

CONSTANTS
    Headers,     \* ids of the non-genesis headers that can be created
    Genesis,     \* ids of the genesis headers (Header::genesis)
    Parents,     \* Parents[h]: the parent ids of header h
    MaxCopies,   \* times the network may deliver one certificate
    Capacity,    \* capacity of each channel (CHANNEL_CAPACITY = 1000)
    NoCert       \* no certificate: a task is not blocked on a send

ASSUME SyncAssumption ==
    /\ Headers \cap Genesis = {}
    /\ Parents \in [Headers -> SUBSET (Headers \cup Genesis)]
    /\ MaxCopies \in Nat \ {0}
    /\ Capacity \in Nat \ {0}
    /\ NoCert \notin Headers

VARIABLES
    store,      \* ids of the headers written to the Store
    hdrIn,      \* headers waiting to be processed by the Core
    hdrSent,    \* headers the network has delivered
    hwait,      \* HeaderWaiter: parked headers and the parents they miss
    copies,     \* copies[c]: deliveries of certificate c by the network
    toWaiter,   \* channel Synchronizer -> CertificateWaiter
    coreSend,   \* the certificate the Core is blocked sending, or NoCert
    pending,    \* CertificateWaiter: futures as [cert, deps] records
    waiterSend, \* the certificate the waiter is blocked sending, or NoCert
    toCore,     \* channel CertificateWaiter -> Core
    accepted    \* certificates deliver_certificate reported ready

vars == <<store, hdrIn, hdrSent, hwait, copies, toWaiter, coreSend, pending,
          waiterSend, toCore, accepted>>

Future == [cert : Headers, deps : SUBSET (Headers \cup Genesis)]

TypeOK ==
    /\ store \in SUBSET Headers
    /\ hdrIn \in SUBSET Headers
    /\ hdrSent \in SUBSET Headers
    /\ hwait \in SUBSET [header : Headers, missing : SUBSET Headers]
    /\ copies \in [Headers -> 0..MaxCopies]
    /\ toWaiter \in Seq(Headers)
    /\ coreSend \in Headers \cup {NoCert}
    /\ pending \in Seq(Future)
    /\ waiterSend \in Headers \cup {NoCert}
    /\ toCore \in Seq(Headers)
    /\ accepted \in SUBSET Headers

Init ==
    /\ store = {}
    /\ hdrIn = {}
    /\ hdrSent = {}
    /\ hwait = {}
    /\ copies = [c \in Headers |-> 0]
    /\ toWaiter = << >>
    /\ coreSend = NoCert
    /\ pending = << >>
    /\ waiterSend = NoCert
    /\ toCore = << >>
    /\ accepted = {}

-----------------------------------------------------------------------------
(* Mutant: get_parents tests the parents it found instead of the missing  *)
(* ones, and so reports a header ready once any parent is at hand.        *)
MissingParentsPartial(h) ==
    IF \E p \in Parents[h] : p \in Genesis \/ p \in store
    THEN {}
    ELSE { p \in Parents[h] : p \notin Genesis /\ p \notin store }

(* Synchronizer::get_parents: the parents that are neither genesis nor in *)
(* the Store.  The header is ready when there are none.                   *)
MissingParents(h) == { p \in Parents[h] : p \notin Genesis /\ p \notin store }

(* Mutant: the certificate that is not ready is dropped, not handed off. *)
HandOffDropped(c) == NoCert

(* The send to tx_certificate_waiter that deliver_certificate awaits. *)
HandOff(c) == c

(* Mutant: deliver_certificate reads a header missing from the Store as a *)
(* header with no parents to wait for.                                     *)
ReadyParentsOnly(c) == MissingParents(c) = {}

(* Synchronizer::deliver_certificate: the header is in the Store and each *)
(* of its parents is genesis or in the Store.                             *)
Ready(c) == c \in store /\ MissingParents(c) = {}

(* What the Core does with a certificate: deliver_certificate returns     *)
(* true and the Core takes it, or it is handed to the CertificateWaiter    *)
(* (the Core task then blocks until the channel takes it).                *)
DeliverCertificate(c) ==
    IF Ready(c)
    THEN /\ accepted' = accepted \cup {c}
         /\ coreSend' = NoCert
    ELSE /\ coreSend' = HandOff(c)
         /\ UNCHANGED accepted

(* The network delivers header h to the Core. *)
ReceiveHeader(h) ==
    /\ h \notin hdrSent
    /\ hdrSent' = hdrSent \cup {h}
    /\ hdrIn' = hdrIn \cup {h}
    /\ UNCHANGED <<store, hwait, copies, toWaiter, coreSend, pending,
                   waiterSend, toCore, accepted>>

(* The Core processes header h: get_parents; with every parent at hand the *)
(* header is persisted, otherwise SyncParents(missing, h) parks it.         *)
ProcessHeader(h) ==
    /\ coreSend = NoCert
    /\ h \in hdrIn
    /\ hdrIn' = hdrIn \ {h}
    /\ IF MissingParents(h) = {}
       THEN /\ store' = store \cup {h}
            /\ UNCHANGED hwait
       ELSE /\ hwait' = hwait \cup {[header |-> h, missing |-> MissingParents(h)]}
            /\ UNCHANGED store
    /\ UNCHANGED <<hdrSent, copies, toWaiter, coreSend, pending, waiterSend,
                   toCore, accepted>>

(* HeaderWaiter: once the missing parents are stored, the header goes back *)
(* to the Core.                                                            *)
HeaderWaiterFire(w) ==
    /\ w \in hwait
    /\ w.missing \subseteq store
    /\ hwait' = hwait \ {w}
    /\ hdrIn' = hdrIn \cup {w.header}
    /\ UNCHANGED <<store, hdrSent, copies, toWaiter, coreSend, pending,
                   waiterSend, toCore, accepted>>

(* The network delivers certificate c (at most MaxCopies times) and the   *)
(* Core hands it to deliver_certificate.                                   *)
ReceiveCertificate(c) ==
    /\ coreSend = NoCert
    /\ copies[c] < MaxCopies
    /\ copies' = [copies EXCEPT ![c] = @ + 1]
    /\ DeliverCertificate(c)
    /\ UNCHANGED <<store, hdrIn, hdrSent, hwait, toWaiter, pending,
                   waiterSend, toCore>>

(* The Core takes a certificate the waiter looped back and hands it to    *)
(* deliver_certificate again.                                              *)
CoreLoopBack ==
    /\ coreSend = NoCert
    /\ toCore # << >>
    /\ toCore' = Tail(toCore)
    /\ DeliverCertificate(Head(toCore))
    /\ UNCHANGED <<store, hdrIn, hdrSent, hwait, copies, toWaiter, pending,
                   waiterSend>>

(* tx_certificate_waiter.send(..).await completes once there is room. *)
CoreSendToWaiter ==
    /\ coreSend # NoCert
    /\ Len(toWaiter) < Capacity
    /\ toWaiter' = Append(toWaiter, coreSend)
    /\ coreSend' = NoCert
    /\ UNCHANGED <<store, hdrIn, hdrSent, hwait, copies, pending, waiterSend,
                   toCore, accepted>>

(* The keys the CertificateWaiter waits for: the header's parents when the *)
(* header is stored (genesis ids included), else the header id itself.     *)
WaitFor(c) == IF c \in store THEN Parents[c] ELSE {c}

(* CertificateWaiter::run, the rx_synchronizer branch: read the header and *)
(* push a waiter future on the keys it needs.                               *)
WaiterReceive ==
    /\ waiterSend = NoCert
    /\ toWaiter # << >>
    /\ toWaiter' = Tail(toWaiter)
    /\ pending' = Append(pending, [cert |-> Head(toWaiter), deps |-> WaitFor(Head(toWaiter))])
    /\ UNCHANGED <<store, hdrIn, hdrSent, hwait, copies, coreSend, waiterSend,
                   toCore, accepted>>

(* Mutant: the resolved future is taken from the head of the pool. *)
TakeFutureHead(s, i) == Tail(s)

(* FuturesUnordered yields future i and forgets it. *)
TakeFuture(s, i) == RemoveAt(s, i)

(* The waiting.next() branch: a future whose notify_reads have all         *)
(* resolved (try_join_all) yields its certificate; the task then awaits    *)
(* tx_core.send.                                                            *)
WaiterResolve(i) ==
    /\ waiterSend = NoCert
    /\ pending[i].deps \subseteq store
    /\ waiterSend' = pending[i].cert
    /\ pending' = TakeFuture(pending, i)
    /\ UNCHANGED <<store, hdrIn, hdrSent, hwait, copies, toWaiter, coreSend,
                   toCore, accepted>>

(* tx_core.send(certificate).await completes once there is room. *)
WaiterSendToCore ==
    /\ waiterSend # NoCert
    /\ Len(toCore) < Capacity
    /\ toCore' = Append(toCore, waiterSend)
    /\ waiterSend' = NoCert
    /\ UNCHANGED <<store, hdrIn, hdrSent, hwait, copies, toWaiter, coreSend,
                   pending, accepted>>

Next ==
    \/ \E h \in Headers : ReceiveHeader(h) \/ ProcessHeader(h)
    \/ \E w \in hwait : HeaderWaiterFire(w)
    \/ \E c \in Headers : ReceiveCertificate(c)
    \/ CoreLoopBack
    \/ CoreSendToWaiter
    \/ WaiterReceive
    \/ \E i \in 1..Len(pending) : WaiterResolve(i)
    \/ WaiterSendToCore

(* The tasks are scheduled fairly (tokio), and tokio::select! polls every *)
(* ready branch; nothing is assumed of the network.                        *)
Fairness ==
    /\ \A h \in Headers : WF_vars(ProcessHeader(h))
    /\ \A w \in [header : Headers, missing : SUBSET Headers] :
           WF_vars(HeaderWaiterFire(w))
    /\ WF_vars(CoreLoopBack)
    /\ WF_vars(CoreSendToWaiter)
    /\ WF_vars(WaiterReceive)
    /\ WF_vars(\E i \in 1..Len(pending) : WaiterResolve(i))
    /\ WF_vars(WaiterSendToCore)

Spec == Init /\ [][Next]_vars /\ Fairness

-----------------------------------------------------------------------------
(* Every copy of a certificate somewhere on the path. *)
InFlight ==
    ToSet(toWaiter) \cup ToSet(toCore) \cup { f.cert : f \in ToSet(pending) }
        \cup ({coreSend, waiterSend} \ {NoCert})

(* No certificate is lost between the tasks: each one the network has     *)
(* delivered has been accepted, or is in a channel, parked in the waiter,  *)
(* or held by a task blocked on a send.                                    *)
NoLostCertificate ==
    \A c \in Headers : copies[c] > 0 => c \in accepted \cup InFlight

(* The Core's DAG has no dangling reference: process_header writes a     *)
(* header to the Store only when get_parents found all its parents, and   *)
(* the Core takes a certificate only when deliver_certificate found its   *)
(* header stored.  So every accepted certificate has its whole ancestry,  *)
(* down to genesis, in the Store.                                          *)
DagClosed ==
    /\ accepted \subseteq store
    /\ \A h \in store : Parents[h] \subseteq store \cup Genesis

(* The path seen through its promise: the Store, the certificates the     *)
(* network delivered, and the ones the Core took.                          *)
CD == INSTANCE CertificateDelivery
        WITH stored <- store,
             delivered <- {c \in Headers : copies[c] > 0},
             taken <- accepted

(* The Synchronizer, the CertificateWaiter and the Core's use of them      *)
(* implement CertificateDelivery: whatever the channel capacity, the order *)
(* the futures resolve in and the loop-backs through the waiter, the Core  *)
(* takes a certificate only after the network delivered it and only once   *)
(* its header and parents are stored, and headers are stored only on      *)
(* stored parents.                                                         *)
ImplementsCertificateDelivery == CD!Spec

(* The Core blocked on tx_certificate_waiter.send and the waiter blocked  *)
(* on tx_core.send, each channel full and drained only by the other task   *)
(* (synchronizer.rs:155, certificate_waiter.rs:99): neither ever moves.    *)
CircularWait ==
    /\ coreSend # NoCert /\ Len(toWaiter) = Capacity
    /\ waiterSend # NoCert /\ Len(toCore) = Capacity

(* A certificate of a header of round 2 or later (no genesis parent) that  *)
(* the network delivered is accepted once its header is stored, unless    *)
(* the two bounded channels fill and the Core and the waiter end in the   *)
(* circular wait (sync_wait shows it is reachable).  Nothing else, with   *)
(* any channel capacity, delays a stored certificate forever.              *)
LaterRoundCertificateAccepted ==
    \A c \in Headers :
        Parents[c] \cap Genesis = {} =>
            ((copies[c] > 0 /\ c \in store) ~> (c \in accepted \/ CircularWait))

(* Spec 4.6: a parked certificate is replayed to the Core when its         *)
(* dependencies materialise.  Every certificate the network delivered is   *)
(* accepted once its header is stored.                                     *)
CertificateAccepted ==
    \A c \in Headers : [](copies[c] > 0 /\ c \in store => <>(c \in accepted))

(* The Core and the CertificateWaiter are never blocked on each other: the *)
(* Core waiting for room in the waiter's full channel while the waiter     *)
(* waits for room in the Core's full channel.                              *)
NoCircularWait == ~CircularWait

=============================================================================
