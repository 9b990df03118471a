----------------------- MODULE RoundAggregatorsProofs -----------------------
(***************************************************************************)
(* Proofs about TimeoutAggregator::append and NoVoteAggregator::append,    *)
(* for every committee allowed by CommitteeAssumption.                     *)
(*                                                                         *)
(* CertDistinctAuthors is not inductive as it stands: a certificate is a   *)
(* clone of the pushed entries, so the entries themselves must be free of  *)
(* repeats.  EntriesAreUsed says that each aggregator's entries list its   *)
(* used set, each author once; with it the ensure! on used.insert is what  *)
(* keeps a new entry from repeating an old one.                            *)
(***************************************************************************)
EXTENDS RoundAggregators, SequenceLemmas, TLAPS

(* The pushed entries of each aggregator are its used authors, each once. *)
EntriesAreUsed ==
    \A k \in Kinds : IsInjective(entries[k]) /\ ToSet(entries[k]) = used[k]

IInv == TypeOK /\ EntriesAreUsed /\ CertDistinctAuthors /\ CertsExtend

-----------------------------------------------------------------------------
LEMMA InitIInv == Init => IInv
<1> SUFFICES ASSUME Init PROVE IInv
    OBVIOUS
<1>1. TypeOK
    BY DEF Init, TypeOK
<1>2. EntriesAreUsed
    BY EmptyToSet DEF Init, EntriesAreUsed
<1>3. CertDistinctAuthors
    BY DEF Init, CertDistinctAuthors
<1>4. CertsExtend
    BY DEF Init, CertsExtend
<1>5. QED BY <1>1, <1>2, <1>3, <1>4 DEF IInv

(* A repeated author changes nothing the invariant reads. *)
LEMMA ReuseIInv ==
    ASSUME IInv, NEW k \in Kinds, NEW a \in Authority, AppendReuse(k, a)
    PROVE  IInv'
<1>1. /\ weight' = weight /\ entries' = entries /\ used' = used
      /\ certs' = certs /\ result' = "reuse"
    BY DEF AppendReuse
<1>2. TypeOK'
    BY <1>1 DEF IInv, TypeOK
<1>3. QED BY <1>1, <1>2, Zenon DEF IInv, EntriesAreUsed, CertDistinctAuthors, CertsExtend

(* A new author: its entry is not among the pushed ones, so the entries,   *)
(* and the clone of them a certificate takes, stay free of repeats; the    *)
(* other kind's aggregator is not touched.                                 *)
LEMMA SignedIInv ==
    ASSUME IInv, NEW k \in Kinds, NEW a \in Authority, AppendSigned(k, a)
    PROVE  IInv'
<1> DEFINE es == Append(entries[k], a)
           w == weight[k] + Stake[a]
<1>1. /\ a \notin used[k]
      /\ used' = [used EXCEPT ![k] = @ \cup {a}]
      /\ entries' = [entries EXCEPT ![k] = es]
      /\ weight' = [weight EXCEPT ![k] = w]
      /\ certs' = IF w >= QuorumThreshold
                  THEN [certs EXCEPT ![k] = Append(@, es)]
                  ELSE certs
      /\ result' \in {"none", "reuse", "cert"}
    BY DEF AppendSigned, FirstUse
<1>2. /\ weight \in [Kinds -> Nat]
      /\ entries \in [Kinds -> Seq(Authority)]
      /\ used \in [Kinds -> SUBSET Authority]
      /\ certs \in [Kinds -> Seq(Seq(Authority))]
    BY DEF IInv, TypeOK
<1>20. Stake[a] \in Nat
    BY CommitteeAssumption
<1>3. IsInjective(entries[k]) /\ ToSet(entries[k]) = used[k]
    BY DEF IInv, EntriesAreUsed
<1>4. /\ es \in Seq(Authority)
      /\ ToSet(es) = used[k] \cup {a}
    BY <1>2, <1>3, AppendToSet
<1>5. IsInjective(es)
    <2>1. entries[k] \in Seq(Authority) /\ a \notin ToSet(entries[k])
        BY <1>1, <1>2, <1>3
    <2>2. QED BY <2>1, <1>3, AppendKeepsInjective
<1>6. TypeOK'
    <2>1. weight' \in [Kinds -> Nat]
        BY <1>1, <1>2, <1>20
    <2>2. entries' \in [Kinds -> Seq(Authority)]
        BY <1>1, <1>2, <1>4
    <2>3. used' \in [Kinds -> SUBSET Authority]
        BY <1>1, <1>2
    <2>4. certs' \in [Kinds -> Seq(Seq(Authority))]
        BY <1>1, <1>2, <1>4, AppendProperties
    <2>5. QED BY <1>1, <2>1, <2>2, <2>3, <2>4 DEF TypeOK
<1>7. EntriesAreUsed'
    <2>1. ASSUME NEW x \in Kinds
          PROVE  IsInjective(entries'[x]) /\ ToSet(entries'[x]) = used'[x]
        <3>1. CASE x = k
            BY <3>1, <1>1, <1>2, <1>4, <1>5
        <3>2. CASE x # k
            <4>1. entries'[x] = entries[x] /\ used'[x] = used[x]
                BY <3>2, <1>1, <1>2
            <4>2. QED BY <4>1 DEF IInv, EntriesAreUsed
        <3>3. QED BY <3>1, <3>2
    <2>2. QED BY <2>1 DEF EntriesAreUsed
<1>8. CertDistinctAuthors'
    <2>1. ASSUME NEW x \in Kinds, NEW i \in 1..Len(certs'[x])
          PROVE  IsInjective(certs'[x][i])
        <3>1. CASE w >= QuorumThreshold /\ x = k
            <4>1. /\ certs'[x] = Append(certs[k], es)
                  /\ Len(certs'[x]) = Len(certs[k]) + 1
                  /\ \A j \in 1..Len(certs[k]) : certs'[x][j] = certs[k][j]
                  /\ certs'[x][Len(certs[k]) + 1] = es
                BY <3>1, <1>1, <1>2, <1>4, AppendProperties
            <4>2. CASE i = Len(certs[k]) + 1
                BY <4>1, <4>2, <1>5
            <4>3. CASE i # Len(certs[k]) + 1
                <5>1. i \in 1..Len(certs[k]) /\ certs'[x][i] = certs[k][i]
                    BY <4>1, <4>3, <2>1, <1>2
                <5>2. QED BY <5>1 DEF IInv, CertDistinctAuthors
            <4>4. QED BY <4>2, <4>3
        <3>2. CASE ~(w >= QuorumThreshold /\ x = k)
            <4>1. certs'[x] = certs[x]
                BY <3>2, <1>1, <1>2
            <4>2. QED BY <4>1, <2>1 DEF IInv, CertDistinctAuthors
        <3>3. QED BY <3>1, <3>2
    <2>2. QED BY <2>1 DEF CertDistinctAuthors
<1>9. CertsExtend'
    <2>1. ASSUME NEW x \in Kinds
          PROVE  /\ \A i \in 1..Len(certs'[x]) : IsPrefix(certs'[x][i], entries'[x])
                 /\ \A i, j \in 1..Len(certs'[x]) :
                        i < j => Len(certs'[x][i]) < Len(certs'[x][j])
        <3>1. /\ \A i \in 1..Len(certs[x]) : IsPrefix(certs[x][i], entries[x])
              /\ \A i, j \in 1..Len(certs[x]) :
                     i < j => Len(certs[x][i]) < Len(certs[x][j])
            BY Zenon DEF IInv, CertsExtend
        <3>2. certs[x] \in Seq(Seq(Authority)) /\ entries[x] \in Seq(Authority)
            BY <1>2
        <3>3. CASE x # k
            <4>1. certs'[x] = certs[x] /\ entries'[x] = entries[x]
                BY <3>3, <1>1, <1>2
            <4>2. QED BY <4>1, <3>1
        (* The certificates already returned stay prefixes of the longer  *)
        (* entries, and none is longer than the entries were.             *)
        <3>4. ASSUME x = k
              PROVE  /\ entries'[x] = es
                     /\ \A i \in 1..Len(certs[x]) : IsPrefix(certs[x][i], es)
                     /\ \A i \in 1..Len(certs[x]) : Len(certs[x][i]) < Len(es)
            <4>1. entries'[x] = es
                BY <3>4, <1>1, <1>2
            <4>2. ASSUME NEW i \in 1..Len(certs[x])
                  PROVE  IsPrefix(certs[x][i], es) /\ Len(certs[x][i]) < Len(es)
                <5>1. certs[x][i] \in Seq(Authority)
                    BY <3>2, ElementOfSeq
                <5>2. IsPrefix(certs[x][i], entries[x])
                    BY <3>1
                <5>3. IsPrefix(certs[x][i], es)
                    BY <5>1, <5>2, <3>2, <3>4, PrefixAppend
                <5>4. Len(certs[x][i]) <= Len(entries[x])
                    BY <5>1, <5>2, <3>2, PrefixDef
                <5>5. Len(es) = Len(entries[x]) + 1 /\ Len(certs[x][i]) \in Nat
                    BY <5>1, <3>2, <3>4, AppendProperties, LenProperties
                <5>6. QED BY <5>3, <5>4, <5>5
            <4>3. QED BY <4>1, <4>2
        <3>5. CASE x = k /\ ~(w >= QuorumThreshold)
            <4>1. certs'[x] = certs[x]
                BY <3>5, <1>1, <1>2
            <4>2. QED BY <4>1, <3>1, <3>4, <3>5, Zenon
        <3>6. CASE x = k /\ w >= QuorumThreshold
            <4> DEFINE n == Len(certs[k])
            <4>1. /\ certs'[x] = Append(certs[k], es)
                  /\ Len(certs'[x]) = n + 1
                  /\ \A j \in 1..n : certs'[x][j] = certs[k][j]
                  /\ certs'[x][n + 1] = es
                  /\ n \in Nat
                BY <3>6, <1>1, <1>2, <1>4, AppendProperties, LenProperties
            <4>2. IsPrefix(es, es)
                BY <1>4, PrefixSelf, Zenon
            <4>0. /\ entries'[x] = es
                  /\ \A i \in 1..n : IsPrefix(certs[k][i], es)
                  /\ \A i \in 1..n : Len(certs[k][i]) < Len(es)
                BY <3>4, <3>6, Zenon
            <4>3. ASSUME NEW i \in 1..Len(certs'[x])
                  PROVE  IsPrefix(certs'[x][i], entries'[x])
                <5>1. CASE i = n + 1
                    BY <5>1, <4>1, <4>2, <4>0
                <5>2. CASE i # n + 1
                    <6>1. i \in 1..n
                        BY <5>2, <4>1
                    <6>2. QED BY <6>1, <4>1, <4>0
                <5>3. QED BY <5>1, <5>2
            <4>4. ASSUME NEW i \in 1..Len(certs'[x]), NEW j \in 1..Len(certs'[x]), i < j
                  PROVE  Len(certs'[x][i]) < Len(certs'[x][j])
                <5>1. i \in 1..n
                    BY <4>4, <4>1
                <5>2. CASE j = n + 1
                    BY <5>1, <5>2, <4>1, <4>0
                <5>3. CASE j # n + 1
                    <6>1. j \in 1..n
                        BY <5>3, <4>1
                    <6>2. QED BY <4>4, <5>1, <6>1, <4>1, <3>1, <3>6
                <5>4. QED BY <5>2, <5>3
            <4>5. QED BY <4>3, <4>4
        <3>7. QED BY <3>3, <3>5, <3>6
    <2>2. QED BY <2>1 DEF CertsExtend
<1>10. QED BY <1>6, <1>7, <1>8, <1>9 DEF IInv

LEMMA NextIInv == IInv /\ [Next]_vars => IInv'
<1> SUFFICES ASSUME IInv, [Next]_vars PROVE IInv'
    OBVIOUS
<1>1. ASSUME NEW a \in Authority, AppendTimeout(a) PROVE IInv'
    BY <1>1, SignedIInv DEF AppendTimeout, Kinds
<1>2. ASSUME NEW a \in Authority, AppendNoVote(a) PROVE IInv'
    BY <1>2, SignedIInv DEF AppendNoVote, Kinds
<1>3. ASSUME NEW a \in Authority, NEW k \in Kinds, AppendReuse(k, a) PROVE IInv'
    BY <1>3, ReuseIInv
<1>4. CASE UNCHANGED vars
    <2>1. /\ weight' = weight /\ entries' = entries /\ used' = used
          /\ certs' = certs /\ result' = result
        BY <1>4 DEF vars
    <2>2. QED BY <2>1, Zenon DEF IInv, TypeOK, EntriesAreUsed, CertDistinctAuthors, CertsExtend
<1>5. QED BY <1>1, <1>2, <1>3, <1>4 DEF Next

-----------------------------------------------------------------------------
(* The timeout and no-vote aggregators' state keeps its types: the weights *)
(* stay natural numbers and the certificates are sequences of authors.     *)
THEOREM TypeCorrect == Spec => []TypeOK
<1>1. IInv => TypeOK
    BY DEF IInv
<1>2. QED BY InitIInv, NextIInv, <1>1, PTL DEF Spec

(* Every TimeoutCert and NoVoteCert that append returns lists each author  *)
(* once, for every committee: the ensure! on used.insert is enough, since  *)
(* the certificate is a clone of the pushed entries.                       *)
THEOREM DistinctAuthors == Spec => []CertDistinctAuthors
<1>1. IInv => CertDistinctAuthors
    BY DEF IInv
<1>2. QED BY InitIInv, NextIInv, <1>1, PTL DEF Spec
(* Nothing is reset after the quorum, and append pushes before it clones, *)
(* so for every committee each TimeoutCert and NoVoteCert returned is a    *)
(* prefix of the pushed entries and longer than every earlier one: a later *)
(* certificate extends each earlier one.                                   *)
THEOREM CertificatesExtend == Spec => []CertsExtend
<1>1. IInv => CertsExtend
    BY DEF IInv
<1>2. QED BY InitIInv, NextIInv, <1>1, PTL DEF Spec

====
