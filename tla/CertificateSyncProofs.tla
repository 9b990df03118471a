------------------------ MODULE CertificateSyncProofs ------------------------
(***************************************************************************)
(* Proofs about the certificate path through the Synchronizer and the      *)
(* CertificateWaiter, for every set of headers, parent relation, channel   *)
(* capacity and number of network deliveries allowed by SyncAssumption.    *)
(*                                                                         *)
(* NoLostCertificate is inductive together with TypeOK: every step moves  *)
(* a certificate from one place on the path to the next (a channel, the    *)
(* waiter's pool, a task blocked on a send, the accepted set), and the two *)
(* steps that overwrite a blocked task's slot, the Core's receive and the *)
(* waiter's resolve, are taken only when that slot is empty.               *)
(***************************************************************************)
EXTENDS CertificateSync, SequenceLemmas, TLAPS

IInv == TypeOK /\ NoLostCertificate

-----------------------------------------------------------------------------
LEMMA InitIInv == Init => IInv
<1> SUFFICES ASSUME Init PROVE IInv
    OBVIOUS
<1>1. TypeOK
    BY EmptySeq, SyncAssumption DEF Init, TypeOK
<1>2. NoLostCertificate
    BY DEF Init, NoLostCertificate
<1>3. QED BY <1>1, <1>2 DEF IInv

(* The types of the sets a step may add to. *)
LEMMA MissingParentsType ==
    ASSUME NEW h \in Headers
    PROVE  MissingParents(h) \in SUBSET Headers
BY SyncAssumption DEF MissingParents

LEMMA WaitForType ==
    ASSUME NEW c \in Headers
    PROVE  WaitFor(c) \in SUBSET (Headers \cup Genesis)
BY SyncAssumption DEF WaitFor

(* deliver_certificate either accepts c or leaves the Core blocked        *)
(* handing c off; nothing else it touches.                                *)
LEMMA DeliverCases ==
    ASSUME NEW c \in Headers, DeliverCertificate(c)
    PROVE  /\ accepted \subseteq accepted'
           /\ accepted' \subseteq Headers \cup accepted
           /\ \/ c \in accepted' /\ coreSend' = NoCert
              \/ coreSend' = c /\ accepted' = accepted
BY DEF DeliverCertificate, HandOff

LEMMA NextIInv == IInv /\ [Next]_vars => IInv'
<1> SUFFICES ASSUME TypeOK, NoLostCertificate, [Next]_vars PROVE IInv'
    BY DEF IInv
(* A step keeps the invariant if it keeps the types, adds deliveries only *)
(* of certificates it puts on the path, and keeps what was on the path.    *)
<1>1. ASSUME TypeOK',
             \A d \in Headers : copies'[d] > 0 => copies[d] > 0 \/ d \in accepted' \cup InFlight',
             accepted \cup InFlight \subseteq accepted' \cup InFlight'
      PROVE  IInv'
    BY <1>1 DEF IInv, NoLostCertificate, TypeOK
<1>2. CASE \E h \in Headers : ReceiveHeader(h)
    <2> PICK h \in Headers : ReceiveHeader(h)
        BY <1>2
    <2>1. TypeOK'
        BY DEF ReceiveHeader, TypeOK
    <2>2. QED BY <2>1, <1>1 DEF ReceiveHeader, InFlight
<1>3. CASE \E h \in Headers : ProcessHeader(h)
    <2> PICK h \in Headers : ProcessHeader(h)
        BY <1>3
    <2>1. TypeOK'
        BY MissingParentsType DEF ProcessHeader, TypeOK
    <2>2. QED BY <2>1, <1>1 DEF ProcessHeader, InFlight
<1>4. CASE \E w \in hwait : HeaderWaiterFire(w)
    <2> PICK w \in hwait : HeaderWaiterFire(w)
        BY <1>4
    <2>1. TypeOK'
        BY DEF HeaderWaiterFire, TypeOK
    <2>2. QED BY <2>1, <1>1 DEF HeaderWaiterFire, InFlight
<1>5. CASE \E c \in Headers : ReceiveCertificate(c)
    <2> PICK c \in Headers : ReceiveCertificate(c)
        BY <1>5
    <2>1. /\ accepted \subseteq accepted'
          /\ accepted' \subseteq Headers \cup accepted
          /\ \/ c \in accepted' /\ coreSend' = NoCert
             \/ coreSend' = c /\ accepted' = accepted
        BY DeliverCases DEF ReceiveCertificate
    <2>2. copies' = [copies EXCEPT ![c] = copies[c] + 1] /\ copies[c] < MaxCopies
        BY DEF ReceiveCertificate
    <2>3. TypeOK'
        <3>1. copies' \in [Headers -> 0..MaxCopies]
            BY <2>2, SyncAssumption DEF TypeOK
        <3>2. QED BY <3>1, <2>1, SyncAssumption DEF ReceiveCertificate, TypeOK
    <2>4. coreSend = NoCert
        BY DEF ReceiveCertificate
    <2>5. c \in accepted' \cup InFlight'
        BY <2>1, SyncAssumption DEF InFlight
    <2>6. \A d \in Headers : copies'[d] > 0 => copies[d] > 0 \/ d \in accepted' \cup InFlight'
        BY <2>2, <2>5 DEF TypeOK
    <2>7. accepted \cup InFlight \subseteq accepted' \cup InFlight'
        BY <2>1, <2>4 DEF ReceiveCertificate, InFlight
    <2>8. QED BY <2>3, <2>6, <2>7, <1>1
<1>6. CASE CoreLoopBack
    <2> DEFINE c == Head(toCore)
    <2>1. c \in Headers /\ Tail(toCore) \in Seq(Headers)
          /\ ToSet(toCore) = ToSet(Tail(toCore)) \cup {c}
        BY <1>6, TailToSet DEF CoreLoopBack, TypeOK
    <2>2. /\ accepted \subseteq accepted'
          /\ accepted' \subseteq Headers \cup accepted
          /\ \/ c \in accepted' /\ coreSend' = NoCert
             \/ coreSend' = c /\ accepted' = accepted
        BY <1>6, <2>1, DeliverCases DEF CoreLoopBack
    <2>3. TypeOK'
        BY <1>6, <2>1, <2>2 DEF CoreLoopBack, TypeOK
    <2>4. accepted \cup InFlight \subseteq accepted' \cup InFlight'
        <3>1. coreSend = NoCert /\ c # NoCert /\ toCore' = Tail(toCore)
            BY <1>6, <2>1, SyncAssumption DEF CoreLoopBack
        <3>2. UNCHANGED <<toWaiter, pending, waiterSend>>
            BY <1>6 DEF CoreLoopBack
        <3>3. QED BY <3>1, <3>2, <2>1, <2>2 DEF InFlight
    <2>5. QED BY <1>6, <2>3, <2>4, <1>1 DEF CoreLoopBack
<1>7. CASE CoreSendToWaiter
    <2>1. coreSend \in Headers
        BY <1>7 DEF CoreSendToWaiter, TypeOK
    <2>2. toWaiter' \in Seq(Headers) /\ ToSet(toWaiter') = ToSet(toWaiter) \cup {coreSend}
        BY <1>7, <2>1, AppendToSet DEF CoreSendToWaiter, TypeOK
    <2>3. TypeOK'
        BY <1>7, <2>2 DEF CoreSendToWaiter, TypeOK
    <2>4. accepted \cup InFlight \subseteq accepted' \cup InFlight'
        BY <1>7, <2>2 DEF CoreSendToWaiter, InFlight
    <2>5. QED BY <1>7, <2>3, <2>4, <1>1 DEF CoreSendToWaiter
<1>8. CASE WaiterReceive
    <2> DEFINE c == Head(toWaiter)
               f == [cert |-> c, deps |-> WaitFor(c)]
    <2>1. c \in Headers /\ Tail(toWaiter) \in Seq(Headers)
          /\ ToSet(toWaiter) = ToSet(Tail(toWaiter)) \cup {c}
        BY <1>8, TailToSet DEF WaiterReceive, TypeOK
    <2>2. f \in Future
        BY <2>1, WaitForType DEF Future
    <2>3. pending' \in Seq(Future) /\ ToSet(pending') = ToSet(pending) \cup {f}
        BY <1>8, <2>2, AppendToSet DEF WaiterReceive, TypeOK
    <2>4. TypeOK'
        BY <1>8, <2>1, <2>3 DEF WaiterReceive, TypeOK
    <2>5. accepted \cup InFlight \subseteq accepted' \cup InFlight'
        BY <1>8, <2>1, <2>3 DEF WaiterReceive, InFlight
    <2>6. QED BY <1>8, <2>4, <2>5, <1>1 DEF WaiterReceive
<1>9. CASE \E i \in 1..Len(pending) : WaiterResolve(i)
    <2> PICK i \in 1..Len(pending) : WaiterResolve(i)
        BY <1>9
    <2>1. pending[i] \in Future
        BY LenProperties DEF TypeOK
    <2>2. pending' \in Seq(Future)
          /\ ToSet(pending) \subseteq ToSet(pending') \cup {pending[i]}
        BY RemoveAtToSet DEF WaiterResolve, TakeFuture, TypeOK
    <2>3. waiterSend = NoCert /\ waiterSend' = pending[i].cert
        BY DEF WaiterResolve
    <2>4. TypeOK'
        BY <2>1, <2>2, <2>3 DEF WaiterResolve, TypeOK, Future
    <2>5. accepted \cup InFlight \subseteq accepted' \cup InFlight'
        <3>1. pending[i].cert # NoCert
            BY <2>1, SyncAssumption DEF Future
        <3>2. UNCHANGED <<accepted, toWaiter, toCore, coreSend>>
            BY DEF WaiterResolve
        <3>3. QED BY <2>2, <2>3, <3>1, <3>2 DEF InFlight
    <2>6. QED BY <2>4, <2>5, <1>1 DEF WaiterResolve
<1>10. CASE WaiterSendToCore
    <2>1. waiterSend \in Headers
        BY <1>10 DEF WaiterSendToCore, TypeOK
    <2>2. toCore' \in Seq(Headers) /\ ToSet(toCore') = ToSet(toCore) \cup {waiterSend}
        BY <1>10, <2>1, AppendToSet DEF WaiterSendToCore, TypeOK
    <2>3. TypeOK'
        BY <1>10, <2>2 DEF WaiterSendToCore, TypeOK
    <2>4. accepted \cup InFlight \subseteq accepted' \cup InFlight'
        BY <1>10, <2>2 DEF WaiterSendToCore, InFlight
    <2>5. QED BY <1>10, <2>3, <2>4, <1>1 DEF WaiterSendToCore
<1>11. CASE UNCHANGED vars
    BY <1>11 DEF vars, IInv, TypeOK, NoLostCertificate, InFlight
<1>12. QED BY <1>2, <1>3, <1>4, <1>5, <1>6, <1>7, <1>8, <1>9, <1>10, <1>11 DEF Next

-----------------------------------------------------------------------------
(* DagClosed is inductive on its own: the Store and the accepted set only  *)
(* grow, and each grows only under the check that keeps it closed.         *)
LEMMA InitDag == Init => DagClosed
BY DEF Init, DagClosed

(* deliver_certificate accepts a certificate only when its header is       *)
(* stored.                                                                 *)
LEMMA DeliverStored ==
    ASSUME NEW c, DeliverCertificate(c)
    PROVE  accepted' \subseteq accepted \cup (store \cap {c})
BY DEF DeliverCertificate, Ready

LEMMA NextDag == DagClosed /\ [Next]_vars => DagClosed'
<1> SUFFICES ASSUME DagClosed, [Next]_vars PROVE DagClosed'
    OBVIOUS
(* A step that leaves the Store alone and accepts only stored certificates. *)
<1>1. ASSUME store' = store, accepted' \subseteq accepted \cup store
      PROVE  DagClosed'
    BY <1>1 DEF DagClosed
<1>2. ASSUME NEW h \in Headers, ProcessHeader(h) PROVE DagClosed'
    <2>1. CASE MissingParents(h) = {}
        <3>1. store' = store \cup {h} /\ accepted' = accepted
            BY <2>1, <1>2 DEF ProcessHeader
        <3>2. Parents[h] \subseteq store \cup Genesis
            BY <2>1 DEF MissingParents
        <3>3. QED BY <3>1, <3>2 DEF DagClosed
    <2>2. CASE MissingParents(h) # {}
        BY <2>2, <1>2, <1>1 DEF ProcessHeader
    <2>3. QED BY <2>1, <2>2
<1>3. ASSUME NEW c \in Headers, ReceiveCertificate(c) PROVE DagClosed'
    BY <1>3, <1>1, DeliverStored DEF ReceiveCertificate
<1>4. ASSUME CoreLoopBack PROVE DagClosed'
    BY <1>4, <1>1, DeliverStored DEF CoreLoopBack
(* The other steps touch neither the Store nor the accepted set. *)
<1>5. ASSUME \/ \E h \in Headers : ReceiveHeader(h)
             \/ \E w \in hwait : HeaderWaiterFire(w)
             \/ CoreSendToWaiter \/ WaiterReceive
             \/ \E i \in 1..Len(pending) : WaiterResolve(i)
             \/ WaiterSendToCore \/ UNCHANGED vars
      PROVE  DagClosed'
    <2>1. store' = store /\ accepted' = accepted
        BY <1>5 DEF ReceiveHeader, HeaderWaiterFire, CoreSendToWaiter,
                    WaiterReceive, WaiterResolve, WaiterSendToCore, vars
    <2>2. QED BY <2>1, <1>1
<1>6. QED BY <1>2, <1>3, <1>4, <1>5 DEF Next

-----------------------------------------------------------------------------
(* For the refinement: every certificate on the path was delivered by the  *)
(* network.  No task makes one up; each step only moves what it took from  *)
(* a channel, the pool or a blocked send.                                  *)
InFlightDelivered == \A c \in InFlight : copies[c] > 0

LEMMA InFlightType ==
    ASSUME TypeOK PROVE InFlight \subseteq Headers
<1>1. ToSet(toWaiter) \subseteq Headers /\ ToSet(toCore) \subseteq Headers
      /\ ToSet(pending) \subseteq Future
    BY ToSetType DEF TypeOK
<1>2. QED BY <1>1 DEF InFlight, TypeOK, Future

LEMMA InitDelivered == Init => InFlightDelivered
BY EmptyToSet DEF Init, InFlightDelivered, InFlight

LEMMA NextDelivered ==
    IInv /\ InFlightDelivered /\ [Next]_vars => InFlightDelivered'
<1> SUFFICES ASSUME IInv, InFlightDelivered, [Next]_vars
             PROVE  InFlightDelivered'
    OBVIOUS
<1>0. TypeOK /\ TypeOK'
    BY NextIInv DEF IInv
(* A step keeps it if it adds to the path only certificates now delivered *)
(* and never forgets a delivery.                                           *)
<1>1. ASSUME InFlight' \subseteq InFlight \cup {d \in Headers : copies'[d] > 0},
             \A d \in Headers : copies[d] > 0 => copies'[d] > 0
      PROVE  InFlightDelivered'
    BY <1>1, <1>0, InFlightType DEF InFlightDelivered
<1>2. ASSUME UNCHANGED <<copies, toWaiter, coreSend, pending, waiterSend, toCore>>
      PROVE  InFlightDelivered'
    BY <1>2, <1>1 DEF InFlight
<1>3. ASSUME NEW c \in Headers, ReceiveCertificate(c) PROVE InFlightDelivered'
    <2>1. coreSend = NoCert /\ (coreSend' = NoCert \/ coreSend' = c)
        BY <1>3, DeliverCases DEF ReceiveCertificate
    <2>2. copies' = [copies EXCEPT ![c] = copies[c] + 1]
        BY <1>3 DEF ReceiveCertificate
    <2>3. copies'[c] > 0 /\ \A d \in Headers : copies'[d] >= copies[d]
        BY <2>2, <1>0 DEF TypeOK
    <2>4. InFlight' \subseteq InFlight \cup {c}
        BY <1>3, <2>1 DEF ReceiveCertificate, InFlight
    <2>5. \A d \in Headers : copies[d] > 0 => copies'[d] > 0
        BY <2>3, <1>0 DEF TypeOK
    <2>6. InFlight' \subseteq InFlight \cup {d \in Headers : copies'[d] > 0}
        BY <2>3, <2>4
    <2>7. QED BY <2>5, <2>6, <1>1
<1>4. ASSUME CoreLoopBack PROVE InFlightDelivered'
    <2> DEFINE c == Head(toCore)
    <2>1. ToSet(toCore) = ToSet(Tail(toCore)) \cup {c}
        BY <1>4, <1>0, TailToSet DEF CoreLoopBack, TypeOK
    <2>2. coreSend = NoCert /\ (coreSend' = NoCert \/ coreSend' = c)
        BY <1>4, <1>0, DeliverCases DEF CoreLoopBack, TypeOK
    <2>3. InFlight' \subseteq InFlight
        BY <1>4, <2>1, <2>2 DEF CoreLoopBack, InFlight
    <2>4. QED BY <1>4, <2>3, <1>1 DEF CoreLoopBack
<1>5. ASSUME CoreSendToWaiter PROVE InFlightDelivered'
    <2>1. ToSet(toWaiter') = ToSet(toWaiter) \cup {coreSend}
        BY <1>5, <1>0, AppendToSet DEF CoreSendToWaiter, TypeOK
    <2>2. InFlight' \subseteq InFlight
        BY <1>5, <2>1 DEF CoreSendToWaiter, InFlight
    <2>3. QED BY <1>5, <2>2, <1>1 DEF CoreSendToWaiter
<1>6. ASSUME WaiterReceive PROVE InFlightDelivered'
    <2> DEFINE c == Head(toWaiter)
               f == [cert |-> c, deps |-> WaitFor(c)]
    <2>1. c \in Headers /\ ToSet(toWaiter) = ToSet(Tail(toWaiter)) \cup {c}
        BY <1>6, <1>0, TailToSet DEF WaiterReceive, TypeOK
    <2>2. f \in Future
        BY <2>1, WaitForType DEF Future
    <2>3. ToSet(pending') = ToSet(pending) \cup {f}
        BY <1>6, <1>0, <2>2, AppendToSet DEF WaiterReceive, TypeOK
    <2>4. InFlight' \subseteq InFlight
        BY <1>6, <2>1, <2>3 DEF WaiterReceive, InFlight
    <2>5. QED BY <1>6, <2>4, <1>1 DEF WaiterReceive
<1>7. ASSUME NEW i \in 1..Len(pending), WaiterResolve(i) PROVE InFlightDelivered'
    <2>1. ToSet(pending') \subseteq ToSet(pending)
        BY <1>7, <1>0, RemoveAtSubset DEF WaiterResolve, TakeFuture, TypeOK
    <2>2. pending[i] \in ToSet(pending)
        BY <1>0, LenProperties DEF ToSet, TypeOK
    <2>3. waiterSend' = pending[i].cert /\ waiterSend = NoCert
        BY <1>7 DEF WaiterResolve
    <2>4. InFlight' \subseteq InFlight
        BY <1>7, <2>1, <2>2, <2>3 DEF WaiterResolve, InFlight
    <2>5. QED BY <1>7, <2>4, <1>1 DEF WaiterResolve
<1>8. ASSUME WaiterSendToCore PROVE InFlightDelivered'
    <2>1. ToSet(toCore') = ToSet(toCore) \cup {waiterSend}
        BY <1>8, <1>0, AppendToSet DEF WaiterSendToCore, TypeOK
    <2>2. InFlight' \subseteq InFlight
        BY <1>8, <2>1 DEF WaiterSendToCore, InFlight
    <2>3. QED BY <1>8, <2>2, <1>1 DEF WaiterSendToCore
<1>9. QED
    BY <1>2, <1>3, <1>4, <1>5, <1>6, <1>7, <1>8
    DEF Next, ReceiveHeader, ProcessHeader, HeaderWaiterFire, vars

-----------------------------------------------------------------------------
(* The refinement: each step of the path is a step of CertificateDelivery *)
(* or leaves the Store, the deliveries and the accepted set alone.         *)
RInv == IInv /\ DagClosed /\ InFlightDelivered

Delivered == {c \in Headers : copies[c] > 0}

LEMMA InitRefines == Init => CD!Init
BY DEF Init, CD!Init

LEMMA InitRInv == Init => RInv
BY InitIInv, InitDag, InitDelivered DEF RInv

LEMMA NextRInv == RInv /\ [Next]_vars => RInv'
BY NextIInv, NextDag, NextDelivered DEF RInv

(* deliver_certificate takes c only when CertificateDelivery calls it    *)
(* complete.                                                               *)
LEMMA DeliverComplete ==
    ASSUME NEW c, DeliverCertificate(c)
    PROVE  \/ accepted' = accepted
           \/ CD!Complete(c) /\ accepted' = accepted \cup {c}
BY DEF DeliverCertificate, Ready, MissingParents, CD!Complete

LEMMA StepRefines == RInv /\ [Next]_vars => [CD!Next]_CD!avars
<1> SUFFICES ASSUME RInv, [Next]_vars PROVE [CD!Next]_CD!avars
    OBVIOUS
<1>0. TypeOK
    BY DEF RInv, IInv
(* A step that touches neither the Store, the deliveries nor the accepted *)
(* set is a stutter of the promise.                                        *)
<1>1. ASSUME UNCHANGED <<store, copies, accepted>> PROVE [CD!Next]_CD!avars
    BY <1>1 DEF CD!avars
<1>2. ASSUME NEW h \in Headers, ProcessHeader(h) PROVE [CD!Next]_CD!avars
    <2>1. CASE MissingParents(h) = {}
        <3>1. CD!StoreHeader(h)
            BY <1>2, <2>1 DEF ProcessHeader, MissingParents, CD!StoreHeader
        <3>2. QED BY <3>1 DEF CD!Next
    <2>2. CASE MissingParents(h) # {}
        BY <1>2, <2>2, <1>1 DEF ProcessHeader
    <2>3. QED BY <2>1, <2>2
<1>3. ASSUME NEW c \in Headers, ReceiveCertificate(c) PROVE [CD!Next]_CD!avars
    <2>1. copies' = [copies EXCEPT ![c] = copies[c] + 1]
        BY <1>3 DEF ReceiveCertificate
    <2>2. {d \in Headers : copies'[d] > 0} = Delivered \cup {c}
        BY <2>1, <1>0 DEF TypeOK, Delivered
    <2>3. \/ accepted' = accepted
          \/ CD!Complete(c) /\ accepted' = accepted \cup {c}
        BY <1>3, DeliverComplete DEF ReceiveCertificate
    <2>4. CD!Receive(c)
        BY <1>3, <2>2, <2>3 DEF ReceiveCertificate, CD!Receive, Delivered
    <2>5. QED BY <2>4 DEF CD!Next
<1>4. ASSUME CoreLoopBack PROVE [CD!Next]_CD!avars
    <2> DEFINE c == Head(toCore)
    <2>1. c \in Headers /\ c \in ToSet(toCore)
        BY <1>4, <1>0, TailToSet DEF CoreLoopBack, TypeOK
    <2>2. copies[c] > 0
        BY <2>1 DEF RInv, InFlightDelivered, InFlight
    <2>3. \/ accepted' = accepted
          \/ CD!Complete(c) /\ accepted' = accepted \cup {c}
        BY <1>4, DeliverComplete DEF CoreLoopBack
    <2>4. CASE accepted' = accepted
        BY <1>4, <2>4, <1>1 DEF CoreLoopBack
    <2>5. CASE CD!Complete(c) /\ accepted' = accepted \cup {c}
        <3>1. CD!Accept(c)
            BY <1>4, <2>1, <2>2, <2>5 DEF CoreLoopBack, CD!Accept
        <3>2. QED BY <3>1, <2>1 DEF CD!Next
    <2>6. QED BY <2>3, <2>4, <2>5
<1>5. QED
    BY <1>1, <1>2, <1>3, <1>4
    DEF Next, ReceiveHeader, HeaderWaiterFire, CoreSendToWaiter, WaiterReceive,
        WaiterResolve, WaiterSendToCore, vars

-----------------------------------------------------------------------------
(* Every reachable state is well typed: the channels and the waiter's      *)
(* pool hold certificates of known headers, the futures wait on header     *)
(* ids, and no certificate is delivered more than MaxCopies times.         *)
THEOREM TypeCorrect == Spec => []TypeOK
<1>1. IInv => TypeOK
    BY DEF IInv
<1>2. QED BY <1>1, InitIInv, NextIInv, PTL DEF Spec

(* No certificate is lost between the Core, the Synchronizer and the       *)
(* CertificateWaiter: each one the network delivered is accepted, in a     *)
(* channel, parked in the waiter's pool or held by a task blocked on a     *)
(* send, for every channel capacity, parent relation and number of copies. *)
THEOREM NoLoss == Spec => []NoLostCertificate
<1>1. IInv => NoLostCertificate
    BY DEF IInv
<1>2. QED BY <1>1, InitIInv, NextIInv, PTL DEF Spec


(* The Core's DAG has no dangling reference, for every parent relation:    *)
(* every header in the Store has each parent stored or genesis, and every *)
(* certificate the Core accepted has its header stored, so its whole       *)
(* ancestry is in the Store.                                               *)
THEOREM DagIntegrity == Spec => []DagClosed
BY InitDag, NextDag, PTL DEF Spec


(* The certificate path implements CertificateDelivery, for every header  *)
(* set, parent relation, channel capacity and number of deliveries: the   *)
(* Core takes a certificate only after the network delivered it and once  *)
(* its header and parents are stored, and headers are stored only on      *)
(* stored parents, whatever the waiter's loop-backs and resolution order.  *)
THEOREM Refinement == Spec => ImplementsCertificateDelivery
<1>1. Spec => []RInv
    BY InitRInv, NextRInv, PTL DEF Spec
<1>2. QED BY <1>1, InitRefines, StepRefines, PTL
       DEF Spec, ImplementsCertificateDelivery, CD!Spec

=============================================================================
