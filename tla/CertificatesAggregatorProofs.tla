-------------------- MODULE CertificatesAggregatorProofs --------------------
(***************************************************************************)
(* Proofs about CertificatesAggregator::append, for every committee,       *)
(* leader schedule, number of leaders per round and round allowed by       *)
(* CommitteeAssumption and RoundAssumption.                                *)
(*                                                                         *)
(* EveryCertificateOnce and FirstBatchHasLeaders are inductive together    *)
(* with TypeOK.  The drain needs the whole of EveryCertificateOnce: the    *)
(* pushed certificates are disjoint from every batch and, before the first *)
(* batch, they are all of used, so the batch that fires holds every origin *)
(* seen, the leaders among them.                                           *)
(***************************************************************************)
EXTENDS CertificatesAggregator, SequenceLemmas, TLAPS

IInv == TypeOK /\ EveryCertificateOnce /\ FirstBatchHasLeaders

-----------------------------------------------------------------------------
(* The elements of the sequences of a sequence, after one more is appended. *)
LEMMA UnionAppend ==
    ASSUME NEW B \in Seq(Seq(Authority)), NEW c \in Seq(Authority)
    PROVE  UNION {ToSet(Append(B, c)[i]) : i \in 1..Len(Append(B, c))}
             = (UNION {ToSet(B[i]) : i \in 1..Len(B)}) \cup ToSet(c)
<1> DEFINE b == Append(B, c)
<1>1. /\ Len(b) = Len(B) + 1 /\ Len(B) \in Nat
      /\ \A i \in 1..Len(B) : b[i] = B[i]
      /\ b[Len(B) + 1] = c
    BY AppendProperties, LenProperties
<1>2. ASSUME NEW x, NEW i \in 1..Len(b), x \in ToSet(b[i])
      PROVE  x \in (UNION {ToSet(B[k]) : k \in 1..Len(B)}) \cup ToSet(c)
    <2>1. CASE i = Len(B) + 1
        BY <1>1, <1>2, <2>1
    <2>2. CASE i # Len(B) + 1
        <3>1. i \in 1..Len(B) /\ b[i] = B[i]
            BY <1>1, <2>2
        <3>2. QED BY <3>1, <1>2
    <2>3. QED BY <2>1, <2>2
<1>3. ASSUME NEW x, NEW k \in 1..Len(B), x \in ToSet(B[k])
      PROVE  x \in UNION {ToSet(b[i]) : i \in 1..Len(b)}
    <2>1. k \in 1..Len(b) /\ b[k] = B[k]
        BY <1>1
    <2>2. QED BY <2>1, <1>3
<1>4. ASSUME NEW x, x \in ToSet(c)
      PROVE  x \in UNION {ToSet(b[i]) : i \in 1..Len(b)}
    <2>1. Len(B) + 1 \in 1..Len(b) /\ b[Len(B) + 1] = c
        BY <1>1
    <2>2. QED BY <2>1, <1>4
<1>5. QED BY <1>2, <1>3, <1>4, Zenon

-----------------------------------------------------------------------------
LEMMA InitIInv == Init => IInv
<1> SUFFICES ASSUME Init PROVE IInv
    OBVIOUS
<1>1. TypeOK
    BY DEF Init, TypeOK
<1>2. EveryCertificateOnce
    BY EmptyToSet DEF Init, EveryCertificateOnce, BatchSet
<1>3. FirstBatchHasLeaders
    BY DEF Init, FirstBatchHasLeaders
<1>4. QED BY <1>1, <1>2, <1>3 DEF IInv

(* A repeated origin changes nothing the invariant reads. *)
LEMMA DuplicateIInv ==
    ASSUME IInv, NEW o \in Authority, AppendDuplicate(o)
    PROVE  IInv'
<1>1. /\ weight' = weight /\ certificates' = certificates /\ used' = used
      /\ batches' = batches /\ result' = "ignored"
    BY DEF AppendDuplicate
<1>2. TypeOK'
    BY <1>1 DEF IInv, TypeOK
<1>3. EveryCertificateOnce'
    BY <1>1, Zenon DEF IInv, EveryCertificateOnce, BatchSet
<1>4. FirstBatchHasLeaders'
    BY <1>1, Zenon DEF IInv, FirstBatchHasLeaders, BatchSet
<1>5. QED BY <1>2, <1>3, <1>4 DEF IInv

(* A new origin: the certificate pushed is in no batch and not pending, so *)
(* it joins the pending ones, or, on a batch, they all leave together.     *)
LEMMA NewIInv ==
    ASSUME IInv, NEW o \in Authority, AppendNew(o)
    PROVE  IInv'
<1> DEFINE n == Len(batches)
           cs == Append(certificates, o)
           fire == AllLeadersIn(used \cup {o}, Round) /\ Quorate(weight + Stake[o])
           Old == UNION {ToSet(batches[i]) : i \in 1..n}
<1>1. /\ o \notin used
      /\ used' = used \cup {o}
      /\ weight' = weight + Stake[o]
      /\ certificates' = IF fire THEN << >> ELSE cs
      /\ batches' = IF fire THEN Append(batches, cs) ELSE batches
      /\ result' \in {"none", "ignored", "batch"}
    BY DEF AppendNew, Drain
<1>2. /\ certificates \in Seq(Authority) /\ batches \in Seq(Seq(Authority))
      /\ weight \in Nat /\ used \in SUBSET Authority
    BY DEF IInv, TypeOK
<1>20. n \in Nat /\ Stake[o] \in Nat
    BY <1>2, LenProperties, CommitteeAssumption
<1>3. /\ \A i \in 1..n : IsInjective(batches[i])
      /\ IsInjective(certificates)
      /\ \A i, j \in 1..n : i # j => ToSet(batches[i]) \cap ToSet(batches[j]) = {}
      /\ \A i \in 1..n : ToSet(batches[i]) \cap ToSet(certificates) = {}
      /\ Old \cup ToSet(certificates) = used
    BY Zenon DEF IInv, EveryCertificateOnce, BatchSet, Old, n
<1>4. /\ cs \in Seq(Authority)
      /\ ToSet(cs) = ToSet(certificates) \cup {o}
    BY <1>20, <1>2, AppendToSet
<1>5. o \notin ToSet(certificates) /\ \A i \in 1..n : o \notin ToSet(batches[i])
    BY <1>20, <1>1, <1>3 DEF Old
<1>6. IsInjective(cs)
    BY <1>20, <1>2, <1>3, <1>5, AppendKeepsInjective
<1>7. \A i \in 1..n : ToSet(batches[i]) \cap ToSet(cs) = {}
    BY <1>20, <1>3, <1>4, <1>5
<1>8. CASE fire
    <2> DEFINE b == Append(batches, cs)
    <2>1. /\ b \in Seq(Seq(Authority)) /\ Len(b) = n + 1
          /\ \A i \in 1..n : b[i] = batches[i]
          /\ b[n + 1] = cs
        BY <1>20, <1>2, <1>4, AppendProperties
    <2>2. batches' = b /\ certificates' = << >>
        BY <1>1, <1>8
    <2>3. TypeOK'
        BY <1>20, <1>1, <1>2, <2>1, <2>2 DEF TypeOK
    <2>4. \A i \in 1..(n + 1) : IsInjective(b[i])
        BY <1>20, <1>3, <1>6, <2>1
    <2>5. ASSUME NEW i \in 1..(n + 1), NEW j \in 1..(n + 1), i # j
          PROVE  ToSet(b[i]) \cap ToSet(b[j]) = {}
        <3>1. CASE i \in 1..n /\ j \in 1..n
            BY <1>20, <3>1, <2>5, <1>3, <2>1, Zenon
        <3>2. CASE i = n + 1
            <4>1. j \in 1..n
                BY <3>2, <2>5, <1>20
            <4>2. b[i] = cs /\ b[j] = batches[j]
                BY <4>1, <3>2, <2>1
            <4>3. QED BY <4>1, <4>2, <1>7
        <3>3. CASE j = n + 1
            <4>1. i \in 1..n
                BY <3>3, <2>5, <1>20
            <4>2. b[j] = cs /\ b[i] = batches[i]
                BY <4>1, <3>3, <2>1
            <4>3. QED BY <4>1, <4>2, <1>7
        <3>4. (i \in 1..n /\ j \in 1..n) \/ i = n + 1 \/ j = n + 1
            BY <2>5, <1>20
        <3>5. QED BY <3>1, <3>2, <3>3, <3>4, Zenon
    <2>7. UNION {ToSet(b[i]) : i \in 1..Len(b)} = used \cup {o}
        <3>1. UNION {ToSet(b[i]) : i \in 1..Len(b)} = Old \cup ToSet(cs)
            BY <1>20, <1>2, <1>4, UnionAppend, Zenon DEF Old, n
        <3>2. QED BY <1>20, <3>1, <1>3, <1>4
    <2>8. EveryCertificateOnce'
        <3>1. \A i \in 1..Len(b) : IsInjective(b[i])
            BY <1>20, <2>1, <2>4
        <3>2. \A i, j \in 1..Len(b) : i # j => ToSet(b[i]) \cap ToSet(b[j]) = {}
            BY <1>20, <2>1, <2>5, Zenon
        <3>3. QED BY <2>2, <3>1, <3>2, <2>7, <1>1, EmptyToSet, Zenon DEF EveryCertificateOnce, BatchSet
    <2>9. FirstBatchHasLeaders'
        <3>1. CASE n = 0
            <4>1. ToSet(certificates) = used
                <5>1. Old = {}
                    BY <3>1 DEF Old, n
                <5>2. QED BY <5>1, <1>3, Zenon
            <4>2. LeaderList(LeadersPerRound, Round) \subseteq used \cup {o}
                BY <1>8 DEF AllLeadersIn
            <4>3. QED BY <1>20, <4>1, <4>2, <3>1, <2>1, <2>2, <1>4 DEF FirstBatchHasLeaders, BatchSet
        <3>2. CASE n # 0
            <4>1. batches # << >> /\ 1 \in 1..n
                BY <1>20, <3>2, <1>2
            <4>2. LeaderList(LeadersPerRound, Round) \subseteq ToSet(batches[1])
                BY <4>1 DEF IInv, FirstBatchHasLeaders, BatchSet
            <4>3. QED BY <1>20, <4>1, <4>2, <2>1, <2>2 DEF FirstBatchHasLeaders, BatchSet
        <3>3. QED BY <3>1, <3>2
    <2>10. QED BY <1>20, <2>3, <2>8, <2>9 DEF IInv
<1>9. CASE ~fire
    <2>1. batches' = batches /\ certificates' = cs
        BY <1>1, <1>9
    <2>2. TypeOK'
        BY <1>20, <1>1, <1>2, <1>4, <2>1 DEF TypeOK
    <2>3. Old \cup ToSet(cs) = used \cup {o}
        BY <1>20, <1>3, <1>4
    <2>4. EveryCertificateOnce'
        BY <1>20, <2>1, <2>3, <1>1, <1>3, <1>6, <1>7, Zenon DEF EveryCertificateOnce, BatchSet, Old, n
    <2>5. FirstBatchHasLeaders'
        BY <1>20, <2>1 DEF IInv, FirstBatchHasLeaders, BatchSet
    <2>6. QED BY <2>2, <2>4, <2>5 DEF IInv
<1>10. QED BY <1>8, <1>9

LEMMA NextIInv == IInv /\ [Next]_vars => IInv'
<1> SUFFICES ASSUME IInv, [Next]_vars PROVE IInv'
    OBVIOUS
<1>1. ASSUME NEW o \in Authority, AppendDuplicate(o) PROVE IInv'
    BY <1>1, DuplicateIInv
<1>2. ASSUME NEW o \in Authority, AppendNew(o) PROVE IInv'
    BY <1>2, NewIInv
<1>3. CASE UNCHANGED vars
    <2>1. /\ weight' = weight /\ certificates' = certificates /\ used' = used
          /\ batches' = batches /\ result' = result
        BY <1>3 DEF vars
    <2>2. QED BY <2>1, Zenon DEF IInv, TypeOK, EveryCertificateOnce, FirstBatchHasLeaders, BatchSet
<1>4. QED BY <1>1, <1>2, <1>3 DEF Next

-----------------------------------------------------------------------------
(* The aggregator's state keeps its types: weight stays a natural number   *)
(* and the batches are sequences of origins.                               *)
THEOREM TypeCorrect == Spec => []TypeOK
<1>1. IInv => TypeOK
    BY DEF IInv
<1>2. QED BY InitIInv, NextIInv, <1>1, PTL DEF Spec

(* The drain of CertificatesAggregator::append hands every certificate of *)
(* a new origin to the Core exactly once and keeps none it handed out, for *)
(* every committee, schedule and round.                                    *)
THEOREM CertificateOnce == Spec => []EveryCertificateOnce
<1>1. IInv => EveryCertificateOnce
    BY DEF IInv
<1>2. QED BY InitIInv, NextIInv, <1>1, PTL DEF Spec

(* The first batch append returns, the one that moves the Core to the next *)
(* round, holds a certificate of every leader of the aggregator's round.   *)
THEOREM FirstBatchLeaders == Spec => []FirstBatchHasLeaders
<1>1. IInv => FirstBatchHasLeaders
    BY DEF IInv
<1>2. QED BY InitIInv, NextIInv, <1>1, PTL DEF Spec

====
