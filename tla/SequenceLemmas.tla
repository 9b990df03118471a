---------------------------- MODULE SequenceLemmas ----------------------------
(***************************************************************************)
(* Facts about the elements of a sequence (SequencesExt's ToSet) and about *)
(* sequences without repeats (IsInjective), for the proofs about the       *)
(* aggregators' pushed entries and the channels and pools of the           *)
(* Synchronizer and CertificateWaiter.  Each is proved from the facts of   *)
(* SequenceTheorems.                                                       *)
(***************************************************************************)
EXTENDS Naturals, Sequences, SequencesExt, SequenceTheorems, TLAPS

LEMMA EmptyToSet ==
    /\ ToSet(<< >>) = {}
    /\ IsInjective(<< >>)
BY DEF ToSet, IsInjective

LEMMA AppendToSet ==
    ASSUME NEW S, NEW s \in Seq(S), NEW x \in S
    PROVE  /\ Append(s, x) \in Seq(S)
           /\ ToSet(Append(s, x)) = ToSet(s) \cup {x}
<1>1. Append(s, x) \in Seq(S) /\ Len(Append(s, x)) = Len(s) + 1
    BY AppendProperties
<1>2. DOMAIN Append(s, x) = 1..(Len(s) + 1) /\ DOMAIN s = 1..Len(s)
    BY <1>1, LenProperties
<1>3. QED BY <1>1, <1>2, AppendProperties DEF ToSet

LEMMA TailToSet ==
    ASSUME NEW S, NEW s \in Seq(S), s # << >>
    PROVE  /\ Head(s) \in S
           /\ Tail(s) \in Seq(S)
           /\ ToSet(s) = ToSet(Tail(s)) \cup {Head(s)}
<1>1. /\ Head(s) \in S /\ Tail(s) \in Seq(S) /\ Len(Tail(s)) = Len(s) - 1
      /\ \A i \in 1..Len(Tail(s)) : Tail(s)[i] = s[i + 1]
    BY HeadTailProperties
<1>2. DOMAIN s = 1..Len(s) /\ DOMAIN Tail(s) = 1..Len(Tail(s)) /\ Len(s) \in Nat \ {0}
    BY <1>1, LenProperties, EmptySeq
<1>3. Head(s) = s[1]
    OBVIOUS
<1>4. ASSUME NEW k \in 1..Len(s) PROVE s[k] \in ToSet(Tail(s)) \cup {Head(s)}
    <2>1. CASE k = 1
        BY <2>1, <1>3
    <2>2. CASE k # 1
        <3>1. k - 1 \in 1..Len(Tail(s)) /\ Tail(s)[k - 1] = s[k]
            BY <2>2, <1>1, <1>2
        <3>2. s[k] \in ToSet(Tail(s))
            BY <3>1, <1>2, Zenon DEF ToSet
        <3>3. QED BY <3>2
    <2>3. QED BY <2>1, <2>2
<1>5. ASSUME NEW k \in 1..Len(Tail(s)) PROVE Tail(s)[k] \in ToSet(s)
    <2>1. k + 1 \in 1..Len(s) /\ Tail(s)[k] = s[k + 1]
        BY <1>1, <1>2
    <2>2. QED BY <2>1, <1>2, Zenon DEF ToSet
<1>6. Head(s) \in ToSet(s)
    <2>1. 1 \in DOMAIN s
        BY <1>2
    <2>2. QED BY <2>1, <1>3, Zenon DEF ToSet
<1>7. QED BY <1>1, <1>2, <1>4, <1>5, <1>6 DEF ToSet

LEMMA ConcatToSet ==
    ASSUME NEW S, NEW A \in Seq(S), NEW B \in Seq(S)
    PROVE  /\ A \o B \in Seq(S)
           /\ ToSet(A) \cup ToSet(B) \subseteq ToSet(A \o B)
<1>1. /\ A \o B \in Seq(S) /\ Len(A \o B) = Len(A) + Len(B)
      /\ \A j \in 1..(Len(A) + Len(B)) : (A \o B)[j] = IF j <= Len(A) THEN A[j] ELSE B[j - Len(A)]
    BY ConcatProperties
<1>2. Len(A) \in Nat /\ Len(B) \in Nat /\ DOMAIN A = 1..Len(A) /\ DOMAIN B = 1..Len(B)
      /\ DOMAIN (A \o B) = 1..(Len(A) + Len(B))
    BY <1>1, LenProperties
<1>3. ASSUME NEW j \in 1..Len(A) PROVE A[j] \in ToSet(A \o B)
    <2>1. j \in DOMAIN (A \o B) /\ (A \o B)[j] = A[j]
        BY <1>1, <1>2
    <2>2. QED BY <2>1, Zenon DEF ToSet
<1>4. ASSUME NEW j \in 1..Len(B) PROVE B[j] \in ToSet(A \o B)
    <2>0. /\ Len(A) + j \in 1..(Len(A) + Len(B))
          /\ ~(Len(A) + j <= Len(A))
          /\ Len(A) + j - Len(A) = j
        BY <1>2
    <2>1. Len(A) + j \in DOMAIN (A \o B) /\ (A \o B)[Len(A) + j] = B[j]
        BY <2>0, <1>1, <1>2
    <2>2. QED BY <2>1, Zenon DEF ToSet
<1>5. ToSet(A) \cup ToSet(B) \subseteq ToSet(A \o B)
    BY <1>2, <1>3, <1>4, Zenon DEF ToSet
<1>6. QED BY <1>1, <1>5

(* The elements of s before position i are in SubSeq(s, 1, i - 1). *)
LEMMA PrefixToSet ==
    ASSUME NEW S, NEW s \in Seq(S), NEW i \in 1..Len(s)
    PROVE  /\ SubSeq(s, 1, i - 1) \in Seq(S)
           /\ \A j \in 1..(i - 1) : s[j] \in ToSet(SubSeq(s, 1, i - 1))
<1>1. Len(s) \in Nat /\ \A j \in 1..(i - 1) : s[j] \in S
    BY LenProperties
<1>2. /\ SubSeq(s, 1, i - 1) \in Seq(S)
      /\ Len(SubSeq(s, 1, i - 1)) = IF 1 <= i - 1 THEN (i - 1) - 1 + 1 ELSE 0
      /\ \A j \in 1..((i - 1) - 1 + 1) : SubSeq(s, 1, i - 1)[j] = s[1 + j - 1]
    BY <1>1, SubSeqProperties
<1>3. ASSUME NEW j \in 1..(i - 1) PROVE s[j] \in ToSet(SubSeq(s, 1, i - 1))
    <2>1. j \in DOMAIN SubSeq(s, 1, i - 1) /\ SubSeq(s, 1, i - 1)[j] = s[j]
        BY <1>1, <1>2, LenProperties
    <2>2. QED BY <2>1, Zenon DEF ToSet
<1>4. QED BY <1>2, <1>3

(* The elements of s after position i are in SubSeq(s, i + 1, Len(s)). *)
LEMMA SuffixToSet ==
    ASSUME NEW S, NEW s \in Seq(S), NEW i \in 1..Len(s)
    PROVE  /\ SubSeq(s, i + 1, Len(s)) \in Seq(S)
           /\ \A j \in (i + 1)..Len(s) : s[j] \in ToSet(SubSeq(s, i + 1, Len(s)))
<1> DEFINE m == i + 1
           n == Len(s)
<1>1. n \in Nat /\ m \in Int /\ \A j \in m..n : s[j] \in S
    BY LenProperties
<1>2. /\ SubSeq(s, m, n) \in Seq(S)
      /\ Len(SubSeq(s, m, n)) = IF m <= n THEN n - m + 1 ELSE 0
      /\ \A j \in 1..(n - m + 1) : SubSeq(s, m, n)[j] = s[m + j - 1]
    BY <1>1, SubSeqProperties
<1>3. ASSUME NEW j \in m..n PROVE s[j] \in ToSet(SubSeq(s, m, n))
    <2>1. j - i \in 1..(n - m + 1) /\ m + (j - i) - 1 = j
        BY <1>1
    <2>2. m <= n /\ Len(SubSeq(s, m, n)) = n - m + 1
        BY <1>1, <1>2
    <2>3. DOMAIN SubSeq(s, m, n) = 1..(n - m + 1)
        BY <2>2, <1>2, LenProperties
    <2>4. j - i \in DOMAIN SubSeq(s, m, n) /\ SubSeq(s, m, n)[j - i] = s[j]
        BY <2>1, <2>3, <1>2
    <2>5. QED BY <2>4, Zenon DEF ToSet
<1>4. QED BY <1>2, <1>3

(* RemoveAt(s, i), the future FuturesUnordered forgets, keeps every other *)
(* element of s.                                                           *)
LEMMA RemoveAtToSet ==
    ASSUME NEW S, NEW s \in Seq(S), NEW i \in 1..Len(s)
    PROVE  /\ RemoveAt(s, i) \in Seq(S)
           /\ ToSet(s) \subseteq ToSet(RemoveAt(s, i)) \cup {s[i]}
<1>1. /\ SubSeq(s, 1, i - 1) \in Seq(S)
      /\ \A j \in 1..(i - 1) : s[j] \in ToSet(SubSeq(s, 1, i - 1))
    BY PrefixToSet
<1>2. /\ SubSeq(s, i + 1, Len(s)) \in Seq(S)
      /\ \A j \in (i + 1)..Len(s) : s[j] \in ToSet(SubSeq(s, i + 1, Len(s)))
    BY SuffixToSet
<1>3. /\ RemoveAt(s, i) \in Seq(S)
      /\ ToSet(SubSeq(s, 1, i - 1)) \cup ToSet(SubSeq(s, i + 1, Len(s)))
            \subseteq ToSet(RemoveAt(s, i))
    <2>1. /\ SubSeq(s, 1, i - 1) \o SubSeq(s, i + 1, Len(s)) \in Seq(S)
          /\ ToSet(SubSeq(s, 1, i - 1)) \cup ToSet(SubSeq(s, i + 1, Len(s)))
                \subseteq ToSet(SubSeq(s, 1, i - 1) \o SubSeq(s, i + 1, Len(s)))
        BY <1>1, <1>2, ConcatToSet, Zenon
    <2>2. QED BY <2>1 DEF RemoveAt
<1>4. Len(s) \in Nat /\ DOMAIN s = 1..Len(s)
    BY LenProperties
<1>5. \A j \in 1..Len(s) : j \in 1..(i - 1) \/ j = i \/ j \in (i + 1)..Len(s)
    BY <1>4
<1>6. ASSUME NEW j \in 1..Len(s) PROVE s[j] \in ToSet(RemoveAt(s, i)) \cup {s[i]}
    BY <1>1, <1>2, <1>3, <1>5
<1>7. QED BY <1>3, <1>4, <1>6, Zenon DEF ToSet


(* IsInjective on a sequence: no two positions hold the same element. *)
LEMMA InjectiveDef ==
    ASSUME NEW f
    PROVE  IsInjective(f) <=> \A i, j \in DOMAIN f : f[i] = f[j] => i = j
BY DEF IsInjective

(* Appending an element not yet in a sequence keeps it free of repeats. *)
LEMMA AppendKeepsInjective ==
    ASSUME NEW S, NEW s \in Seq(S), NEW x \in S,
           IsInjective(s), x \notin ToSet(s)
    PROVE  IsInjective(Append(s, x))
<1>1. /\ Len(Append(s, x)) = Len(s) + 1
      /\ \A i \in 1..Len(s) : Append(s, x)[i] = s[i]
      /\ Append(s, x)[Len(s) + 1] = x
    BY AppendProperties
<1>2. DOMAIN Append(s, x) = 1..(Len(s) + 1) /\ DOMAIN s = 1..Len(s) /\ Len(s) \in Nat
    BY <1>1, AppendProperties, LenProperties
<1>3. \A i \in 1..Len(s) : s[i] # x
    BY <1>2 DEF ToSet
<1>4. \A i, j \in 1..Len(s) : s[i] = s[j] => i = j
    BY <1>2, InjectiveDef
<1>5. \A i, j \in 1..(Len(s) + 1) : Append(s, x)[i] = Append(s, x)[j] => i = j
    BY <1>1, <1>2, <1>3, <1>4
<1>6. QED BY <1>2, <1>5 DEF IsInjective


(* IsPrefix (SequencesExt) read position by position. *)
LEMMA PrefixDef ==
    ASSUME NEW S, NEW s \in Seq(S), NEW t \in Seq(S)
    PROVE  IsPrefix(s, t) <=> (Len(s) <= Len(t) /\ \A i \in 1..Len(s) : s[i] = t[i])
<1>1. SubSeq(s, 1, Len(s)) = s
    BY SubSeqFull
<1>2. ASSUME Len(s) <= Len(t)
      PROVE  /\ SubSeq(t, 1, Len(s)) \in Seq(S)
             /\ Len(SubSeq(t, 1, Len(s))) = Len(s)
             /\ \A i \in 1..Len(s) : SubSeq(t, 1, Len(s))[i] = t[i]
    <2>1. Len(s) \in Nat /\ Len(t) \in Nat
        BY LenProperties
    <2>2. \A i \in 1..Len(s) : t[i] \in S
        BY <1>2, <2>1, ElementOfSeq
    <2>3. QED BY <2>1, <2>2, SubSeqProperties
<1>3. ASSUME IsPrefix(s, t)
      PROVE  Len(s) <= Len(t) /\ \A i \in 1..Len(s) : s[i] = t[i]
    <2>1. Len(s) <= Len(t) /\ s = SubSeq(t, 1, Len(s))
        BY <1>3, <1>1 DEF IsPrefix
    <2>2. QED BY <2>1, <1>2
<1>4. ASSUME Len(s) <= Len(t), \A i \in 1..Len(s) : s[i] = t[i]
      PROVE  IsPrefix(s, t)
    <2>1. s = SubSeq(t, 1, Len(s))
        BY <1>4, <1>2, SeqEqual
    <2>2. QED BY <2>1, <1>1, <1>4 DEF IsPrefix
<1>5. QED BY <1>3, <1>4

(* A prefix of t is a prefix of t with one more element. *)
LEMMA PrefixAppend ==
    ASSUME NEW S, NEW s \in Seq(S), NEW t \in Seq(S), NEW x \in S,
           IsPrefix(s, t)
    PROVE  IsPrefix(s, Append(t, x))
<1>1. Len(s) <= Len(t) /\ \A i \in 1..Len(s) : s[i] = t[i]
    BY PrefixDef
<1>2. /\ Append(t, x) \in Seq(S)
      /\ Len(Append(t, x)) = Len(t) + 1
      /\ \A i \in 1..Len(t) : Append(t, x)[i] = t[i]
    BY AppendProperties
<1>3. Len(s) \in Nat /\ Len(t) \in Nat
    BY LenProperties
<1>4. Len(s) <= Len(Append(t, x)) /\ \A i \in 1..Len(s) : s[i] = Append(t, x)[i]
    BY <1>1, <1>2, <1>3
<1>5. QED BY <1>2, <1>4, PrefixDef, Zenon

(* Every sequence is a prefix of itself. *)
LEMMA PrefixSelf ==
    ASSUME NEW S, NEW s \in Seq(S)
    PROVE  IsPrefix(s, s)
<1>1. Len(s) \in Nat
    BY LenProperties
<1>2. QED BY <1>1, PrefixDef


(* Removing an element adds nothing to the set of a sequence. *)
LEMMA RemoveAtSubset ==
    ASSUME NEW S, NEW s \in Seq(S), NEW i \in 1..Len(s)
    PROVE  ToSet(RemoveAt(s, i)) \subseteq ToSet(s)
<1> DEFINE T == ToSet(s)
<1>1. Len(s) \in Nat /\ DOMAIN s = 1..Len(s)
    BY LenProperties
<1>2. \A j \in 1..Len(s) : s[j] \in T
    BY <1>1 DEF ToSet
<1>3. SubSeq(s, 1, i - 1) \in Seq(T)
    <2>1. \A j \in 1..(i - 1) : s[j] \in T
        BY <1>1, <1>2
    <2>2. QED BY <2>1, SubSeqProperties
<1>4. SubSeq(s, i + 1, Len(s)) \in Seq(T)
    <2>1. \A j \in (i + 1)..Len(s) : s[j] \in T
        BY <1>1, <1>2
    <2>2. QED BY <1>1, <2>1, SubSeqProperties
<1>5. RemoveAt(s, i) \in Seq(T)
    BY <1>3, <1>4, ConcatProperties DEF RemoveAt
<1>6. \A j \in DOMAIN RemoveAt(s, i) : RemoveAt(s, i)[j] \in T
    BY <1>5, ElementOfSeq, LenProperties
<1>7. QED BY <1>6 DEF ToSet


(* The elements of a sequence over S are in S. *)
LEMMA ToSetType ==
    ASSUME NEW S, NEW s \in Seq(S)
    PROVE  ToSet(s) \subseteq S
<1>1. \A j \in DOMAIN s : s[j] \in S
    BY ElementOfSeq, LenProperties
<1>2. QED BY <1>1 DEF ToSet

====
