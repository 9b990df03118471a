------------------------ MODULE CertificateDelivery ------------------------
(***************************************************************************)
(* What the Synchronizer and the CertificateWaiter promise the Core (spec  *)
(* 4.6 and 5), with no channels, tasks or futures: headers are stored only *)
(* on stored parents, and a certificate is taken by the Core only after    *)
(* the network delivered it and only once its header and every parent of  *)
(* that header are stored.  Nothing stored or taken is ever given up.     *)
(***************************************************************************)
CONSTANTS
    Headers, \* header ids; a certificate is named by its header's id
    Genesis, \* the genesis digests, never stored
    Parents  \* Parents[h]: the parent digests of header h

VARIABLES
    stored,    \* the headers written to the Store
    delivered, \* the certificates the network has delivered
    taken      \* the certificates the Core has taken

avars == <<stored, delivered, taken>>

(* The header of c and all its parents are at hand. *)
Complete(c) == c \in stored /\ Parents[c] \subseteq stored \cup Genesis

Init == stored = {} /\ delivered = {} /\ taken = {}

(* A header is stored once each of its parents is genesis or stored. *)
StoreHeader(h) ==
    /\ Parents[h] \subseteq stored \cup Genesis
    /\ stored' = stored \cup {h}
    /\ UNCHANGED <<delivered, taken>>

(* The network delivers c; the Core may take it at once if it is complete. *)
Receive(c) ==
    /\ delivered' = delivered \cup {c}
    /\ \/ taken' = taken
       \/ Complete(c) /\ taken' = taken \cup {c}
    /\ UNCHANGED stored

(* A delivered certificate that has become complete is taken. *)
Accept(c) ==
    /\ c \in delivered
    /\ Complete(c)
    /\ taken' = taken \cup {c}
    /\ UNCHANGED <<stored, delivered>>

Next == \E h \in Headers : StoreHeader(h) \/ Receive(h) \/ Accept(h)

Spec == Init /\ [][Next]_avars

=============================================================================
