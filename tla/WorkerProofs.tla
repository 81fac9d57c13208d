---------------------------- MODULE WorkerProofs ----------------------------
(***************************************************************************)
(* Proofs about ItemsManagerWorker in either mode, with EitherSpec: for    *)
(* any tabs and characters, any number of updates and any changes the      *)
(* player makes.  Every action keeps WInv (StepHolds, from one lemma per   *)
(* action); the properties of the run WorkerUpdates follow from it.        *)
(***************************************************************************)
EXTENDS LegacyUpdates, FiniteSetTheorems, SequenceTheorems, WellFoundedInduction, TLAPS

-----------------------------------------------------------------------------
(* Sequences of requests. *)

\* Two requests for the same part of the same tab, or for the same list.
Twin(r, s) ==
    r.tab # "selected" /\ r.tab = s.tab /\ (r.tab \in Tabs => r.endpoint = s.endpoint)
Single(q) == \A i, j \in DOMAIN q : Twin(q[i], q[j]) => i = j
Apart(R, S) == \A r \in R, s \in S : ~Twin(r, s)

OfKind(r, kind) == r.tab \in Tabs /\ KindOf(r.tab) = kind

LEMMA KindIsKind == \A t : KindOf(t) \in Kinds
BY DEF KindOf, Kinds

\* A concatenation, element by element.
LEMMA Joined ==
    ASSUME NEW a \in Seq(Requests), NEW b \in Seq(Requests)
    PROVE  /\ a \o b \in Seq(Requests)
           /\ Len(a) \in Nat /\ Len(b) \in Nat /\ Len(a \o b) = Len(a) + Len(b)
           /\ DOMAIN a = 1..Len(a) /\ DOMAIN b = 1..Len(b)
           /\ DOMAIN (a \o b) = 1 .. Len(a) + Len(b)
           /\ \A i \in 1..Len(a) : (a \o b)[i] = a[i]
           /\ \A i \in 1..Len(b) : (a \o b)[Len(a) + i] = b[i]
BY ConcatProperties

LEMMA JoinedSet ==
    ASSUME NEW a \in Seq(Requests), NEW b \in Seq(Requests)
    PROVE  ToSet(a \o b) = ToSet(a) \cup ToSet(b)
<1>1. ASSUME NEW i \in 1 .. Len(a) + Len(b)
      PROVE  i \in 1..Len(a) \/ i - Len(a) \in 1..Len(b)
  BY Joined
<1>2. \A i \in 1 .. Len(a) + Len(b) : (a \o b)[i] \in ToSet(a) \cup ToSet(b)
  <2> SUFFICES ASSUME NEW i \in 1 .. Len(a) + Len(b)
               PROVE  (a \o b)[i] \in ToSet(a) \cup ToSet(b)
    OBVIOUS
  <2>1. CASE i \in 1..Len(a)
    BY <2>1, Joined DEF ToSet
  <2>2. CASE i - Len(a) \in 1..Len(b)
    <3>1. (a \o b)[Len(a) + (i - Len(a))] = b[i - Len(a)] /\ Len(a) + (i - Len(a)) = i
      BY <2>2, Joined
    <3> QED
      BY <2>2, <3>1, Joined DEF ToSet
  <2> QED
    BY <1>1, <2>1, <2>2
<1>3. \A i \in 1..Len(a) : a[i] \in ToSet(a \o b)
  <2> SUFFICES ASSUME NEW i \in 1..Len(a) PROVE a[i] \in ToSet(a \o b)
    OBVIOUS
  <2>1. i \in 1 .. Len(a) + Len(b) /\ (a \o b)[i] = a[i]
    BY Joined
  <2> QED
    BY <2>1, Joined DEF ToSet
<1>4. \A i \in 1..Len(b) : b[i] \in ToSet(a \o b)
  <2> SUFFICES ASSUME NEW i \in 1..Len(b) PROVE b[i] \in ToSet(a \o b)
    OBVIOUS
  <2>1. Len(a) + i \in 1 .. Len(a) + Len(b) /\ (a \o b)[Len(a) + i] = b[i]
    BY Joined
  <2> QED
    BY <2>1, Joined DEF ToSet
<1>5. DOMAIN a = 1..Len(a) /\ DOMAIN b = 1..Len(b) /\ DOMAIN (a \o b) = 1 .. Len(a) + Len(b)
  BY Joined
<1> QED
  BY <1>2, <1>3, <1>4, <1>5 DEF ToSet

LEMMA AskedCardinality ==
    ASSUME NEW q, NEW kind
    PROVE  Asked(q, kind) = Cardinality({k \in DOMAIN q : OfKind(q[k], kind)})
BY DEF Asked, OfKind

LEMMA AskedType ==
    ASSUME NEW q \in Seq(Requests), NEW kind
    PROVE  Asked(q, kind) \in Nat /\ IsFiniteSet({k \in DOMAIN q : OfKind(q[k], kind)})
<1>1. DOMAIN q = 1..Len(q) /\ Len(q) \in Nat
  OBVIOUS
<1> DEFINE K == {k \in DOMAIN q : OfKind(q[k], kind)}
<1>2. K \in SUBSET (1..Len(q))
  BY <1>1
<1>3. IsFiniteSet(1..Len(q))
  BY <1>1, FS_Interval
<1> HIDE DEF K
<1>4. IsFiniteSet(K) /\ Cardinality(K) \in Nat
  BY <1>2, <1>3, FS_Subset, FS_CardinalityType
<1> QED
  BY <1>4, AskedCardinality DEF K

LEMMA AskedTogether ==
    ASSUME NEW a \in Seq(Requests), NEW b \in Seq(Requests), NEW kind
    PROVE  Asked(a \o b, kind) = Asked(a, kind) + Asked(b, kind)
<1> DEFINE A == {k \in DOMAIN a : OfKind(a[k], kind)}
           B == {k \in DOMAIN b : OfKind(b[k], kind)}
           C == {k \in DOMAIN (a \o b) : OfKind((a \o b)[k], kind)}
           f == [k \in B |-> Len(a) + k]
           D == {f[k] : k \in B}
<1>1. IsFiniteSet(A) /\ IsFiniteSet(B)
  BY AskedType
<1>2. A \subseteq 1..Len(a) /\ B \subseteq 1..Len(b) /\ Len(a) \in Nat
  BY Joined
<1>3. C = A \cup D
  <2>1. ASSUME NEW k \in C PROVE k \in A \cup D
    <3>1. k \in 1 .. Len(a) + Len(b)
      BY Joined
    <3>2. CASE k \in 1..Len(a)
      BY <3>2, Joined
    <3>3. CASE k \notin 1..Len(a)
      <4>1. k - Len(a) \in 1..Len(b) /\ Len(a) + (k - Len(a)) = k
        BY <3>1, <3>3, Joined
      <4>2. b[k - Len(a)] = (a \o b)[k]
        BY <4>1, Joined
      <4>3. k - Len(a) \in B
        BY <4>1, <4>2, Joined
      <4>4. f[k - Len(a)] = k
        BY <4>1, <4>3
      <4> QED
        BY <4>3, <4>4
    <3> QED
      BY <3>2, <3>3
  <2>2. ASSUME NEW k \in A PROVE k \in C
    <3>1. k \in 1 .. Len(a) + Len(b) /\ (a \o b)[k] = a[k]
      BY Joined
    <3> QED
      BY <3>1, Joined
  <2>3. ASSUME NEW k \in B PROVE f[k] \in C
    <3>1. Len(a) + k \in 1 .. Len(a) + Len(b) /\ (a \o b)[Len(a) + k] = b[k]
      BY <1>2, Joined
    <3> QED
      BY <3>1, Joined
  <2> QED
    BY <2>1, <2>2, <2>3
<1>4. A \cap D = {}
  BY <1>2
<1>5. IsFiniteSet(D) /\ Cardinality(D) = Cardinality(B)
  <2>1. f \in Bijection(B, D)
    BY <1>2 DEF Bijection, Injection, Surjection, IsInjective
  <2> QED
    BY <1>1, <2>1, FS_Bijection DEF ExistsBijection
<1> HIDE DEF A, B, C, D, f
<1>6. Cardinality(C) = Cardinality(A) + Cardinality(D) - Cardinality(A \cap D)
  BY <1>1, <1>3, <1>5, FS_Union
<1>7. Cardinality(A \cap D) = 0
  BY <1>4, FS_EmptySet
<1>8. Cardinality(A) \in Nat /\ Cardinality(B) \in Nat
  BY <1>1, FS_CardinalityType
<1>9. /\ Asked(a, kind) = Cardinality(A) /\ Asked(b, kind) = Cardinality(B)
      /\ Asked(a \o b, kind) = Cardinality(C)
  BY AskedCardinality DEF A, B, C
<1> QED
  BY <1>5, <1>6, <1>7, <1>8, <1>9

LEMMA AskedOne ==
    ASSUME NEW r \in Requests, NEW kind
    PROVE  /\ Asked(<<r>>, kind) = IF OfKind(r, kind) THEN 1 ELSE 0
           /\ Asked(<<>>, kind) = 0
<1>1. DOMAIN <<r>> = {1} /\ <<r>>[1] = r
  OBVIOUS
<1>2. {k \in DOMAIN <<r>> : OfKind(<<r>>[k], kind)} = IF OfKind(r, kind) THEN {1} ELSE {}
  BY <1>1
<1>3. Cardinality({1}) = 1 /\ Cardinality({}) = 0
  BY FS_Singleton, FS_EmptySet
<1>4. {k \in DOMAIN <<>> : OfKind(<<>>[k], kind)} = {}
  OBVIOUS
<1> QED
  BY <1>2, <1>3, <1>4 DEF Asked, OfKind

LEMMA SingleTogether ==
    ASSUME NEW a \in Seq(Requests), NEW b \in Seq(Requests)
    PROVE  Single(a \o b) <=> Single(a) /\ Single(b) /\ Apart(ToSet(a), ToSet(b))
<1> DEFINE c == a \o b
<1>1. /\ Len(a) \in Nat /\ Len(b) \in Nat
      /\ DOMAIN a = 1..Len(a) /\ DOMAIN b = 1..Len(b) /\ DOMAIN c = 1 .. Len(a) + Len(b)
      /\ \A i \in 1..Len(a) : c[i] = a[i]
      /\ \A i \in 1..Len(b) : c[Len(a) + i] = b[i]
  BY Joined
<1> HIDE DEF c
<1>2. ASSUME Single(c) PROVE Single(a) /\ Single(b) /\ Apart(ToSet(a), ToSet(b))
  <2>1. Single(a)
    <3> SUFFICES ASSUME NEW i \in 1..Len(a), NEW j \in 1..Len(a), Twin(a[i], a[j]) PROVE i = j
      BY <1>1 DEF Single
    <3>1. i \in DOMAIN c /\ j \in DOMAIN c /\ c[i] = a[i] /\ c[j] = a[j]
      BY <1>1
    <3> QED
      BY <1>2, <3>1 DEF Single
  <2>2. Single(b)
    <3> SUFFICES ASSUME NEW i \in 1..Len(b), NEW j \in 1..Len(b), Twin(b[i], b[j]) PROVE i = j
      BY <1>1 DEF Single
    <3>1. /\ Len(a) + i \in DOMAIN c /\ Len(a) + j \in DOMAIN c
          /\ c[Len(a) + i] = b[i] /\ c[Len(a) + j] = b[j]
      BY <1>1
    <3>2. Len(a) + i = Len(a) + j
      BY <1>2, <3>1 DEF Single
    <3> QED
      BY <1>1, <3>2
  <2>3. Apart(ToSet(a), ToSet(b))
    <3> SUFFICES ASSUME NEW i \in 1..Len(a), NEW j \in 1..Len(b), Twin(a[i], b[j]) PROVE FALSE
      BY <1>1 DEF Apart, ToSet
    <3>1. i \in DOMAIN c /\ Len(a) + j \in DOMAIN c /\ c[i] = a[i] /\ c[Len(a) + j] = b[j]
      BY <1>1
    <3>2. i = Len(a) + j
      BY <1>2, <3>1 DEF Single
    <3> QED
      BY <1>1, <3>2
  <2> QED
    BY <2>1, <2>2, <2>3
<1>3. ASSUME Single(a), Single(b), Apart(ToSet(a), ToSet(b)) PROVE Single(c)
  <2> SUFFICES ASSUME NEW i \in DOMAIN c, NEW j \in DOMAIN c, Twin(c[i], c[j]) PROVE i = j
    BY DEF Single
  <2>1. \A k \in DOMAIN c : \/ k \in 1..Len(a) /\ c[k] = a[k]
                            \/ /\ k - Len(a) \in 1..Len(b) /\ c[k] = b[k - Len(a)]
                               /\ Len(a) + (k - Len(a)) = k
    <3> SUFFICES ASSUME NEW k \in DOMAIN c, k \notin 1..Len(a)
                 PROVE  /\ k - Len(a) \in 1..Len(b) /\ c[k] = b[k - Len(a)]
                        /\ Len(a) + (k - Len(a)) = k
      BY <1>1
    <3>1. k - Len(a) \in 1..Len(b) /\ Len(a) + (k - Len(a)) = k
      BY <1>1
    <3> QED
      BY <1>1, <3>1
  <2>2. \A r, s : Twin(r, s) => Twin(s, r)
    BY DEF Twin
  <2>3. CASE i \in 1..Len(a) /\ c[i] = a[i] /\ j \in 1..Len(a) /\ c[j] = a[j]
    BY <1>1, <1>3, <2>3 DEF Single
  <2>4. CASE /\ i \in 1..Len(a) /\ c[i] = a[i]
             /\ j - Len(a) \in 1..Len(b) /\ c[j] = b[j - Len(a)]
    BY <1>1, <1>3, <2>4 DEF Apart, ToSet
  <2>5. CASE /\ j \in 1..Len(a) /\ c[j] = a[j]
             /\ i - Len(a) \in 1..Len(b) /\ c[i] = b[i - Len(a)]
    BY <1>1, <1>3, <2>2, <2>5 DEF Apart, ToSet
  <2>6. CASE /\ i - Len(a) \in 1..Len(b) /\ c[i] = b[i - Len(a)] /\ Len(a) + (i - Len(a)) = i
             /\ j - Len(a) \in 1..Len(b) /\ c[j] = b[j - Len(a)] /\ Len(a) + (j - Len(a)) = j
    <3>1. i - Len(a) = j - Len(a)
      BY <1>1, <1>3, <2>6 DEF Single
    <3> QED
      BY <2>6, <3>1
  <2> QED
    BY <2>1, <2>3, <2>4, <2>5, <2>6
<1> QED
  BY <1>2, <1>3 DEF c

\* Of the requests q, those that go out, the one that waits, and the rest.
GoOut(q, n) == SubSeq(q, 1, n)
Waits(q, n) == IF n < Len(q) THEN <<q[n + 1]>> ELSE <<>>
Later(q, n) == SubSeq(q, n + 2, Len(q))

LEMMA Cut ==
    ASSUME NEW q \in Seq(Requests), NEW n \in 0..Len(q)
    PROVE  /\ GoOut(q, n) \in Seq(Requests) /\ Waits(q, n) \in Seq(Requests)
           /\ Later(q, n) \in Seq(Requests)
           /\ q = (GoOut(q, n) \o Waits(q, n)) \o Later(q, n)
           /\ SubSeq(q, 1, Counted(q, n)) = GoOut(q, n) \o Waits(q, n)
           /\ Waits(q, n) = <<>> => Later(q, n) = <<>>
<1>1. Len(q) \in Nat /\ DOMAIN q = 1..Len(q) /\ n \in Nat /\ n <= Len(q)
  OBVIOUS
<1>2. \A i \in 1..Len(q) : q[i] \in Requests
  OBVIOUS
<1>3. /\ GoOut(q, n) \in Seq(Requests) /\ Waits(q, n) \in Seq(Requests)
      /\ Later(q, n) \in Seq(Requests)
  <2>1. GoOut(q, n) \in Seq(Requests)
    BY <1>1, <1>2, SubSeqProperties DEF GoOut
  <2>2. Waits(q, n) \in Seq(Requests)
    <3>1. n < Len(q) => q[n + 1] \in Requests
      BY <1>1, <1>2
    <3> QED
      BY <3>1, EmptySeq DEF Waits
  <2>3. Later(q, n) \in Seq(Requests)
    BY <1>1, <1>2, SubSeqProperties, SMTT(30) DEF Later
  <2> QED
    BY <2>1, <2>2, <2>3
<1>4. CASE n < Len(q)
  <2>1. GoOut(q, n) \o Waits(q, n) = SubSeq(q, 1, n + 1)
    <3>1. n + 1 \in 1..Len(q) /\ 1 \in 1..Len(q)
      BY <1>1, <1>4
    <3>2. SubSeq(q, 1, n + 1) = SubSeq(q, 1, (n + 1) - 1) \o <<q[n + 1]>>
      BY <3>1, SubSeqRecursiveSecond
    <3>3. (n + 1) - 1 = n
      BY <1>1
    <3> QED
      BY <1>4, <3>2, <3>3 DEF GoOut, Waits
  <2>2. SubSeq(q, 1, n + 1) \o SubSeq(q, (n + 1) + 1, Len(q)) = SubSeq(q, 1, Len(q))
    <3>1. 1 \in 1 .. Len(q) + 1 /\ n + 1 \in 1 - 1 .. Len(q) /\ Len(q) \in n + 1 .. Len(q)
      BY <1>1, <1>4
    <3> QED
      BY <3>1, ConcatAdjacentSubSeq
  <2>3. SubSeq(q, 1, Len(q)) = q /\ (n + 1) + 1 = n + 2
    BY <1>1, SubSeqFull
  <2>4. Waits(q, n) # <<>> /\ Counted(q, n) = n + 1
    BY <1>4 DEF Counted, Waits
  <2> QED
    BY <1>3, <2>1, <2>2, <2>3, <2>4 DEF Later
<1>5. CASE ~(n < Len(q))
  <2>1. n = Len(q)
    <3>1. \A x, y \in Nat : x <= y /\ ~(x < y) => x = y
      OBVIOUS
    <3> QED
      BY <1>1, <1>5, <3>1
  <2>2. Counted(q, n) = n
    BY <1>5 DEF Counted
  <2>3. GoOut(q, n) = q
    BY <2>1, SubSeqFull DEF GoOut
  <2>4. Later(q, n) = <<>>
    BY <1>1, <2>1, SubSeqEmpty DEF Later
  <2>5. Waits(q, n) = <<>>
    BY <1>5 DEF Waits
  <2>6. q \o <<>> = q
    BY ConcatEmptySeq
  <2>7. SubSeq(q, 1, Counted(q, n)) = GoOut(q, n)
    BY <2>2 DEF GoOut
  <2> QED
    BY <1>3, <2>3, <2>4, <2>5, <2>6, <2>7
<1> QED
  BY <1>4, <1>5

\* The requests of a call stack, of the wire and of the queue, each there once.
Separate(c, w, q) ==
    /\ Single(c) /\ Single(w) /\ Single(q)
    /\ Apart(ToSet(c), ToSet(w)) /\ Apart(ToSet(c) \cup ToSet(w), ToSet(q))

LEMMA SubmitKeeps ==
    ASSUME NEW q \in Seq(Requests), NEW n \in 0..Len(q),
           NEW w \in Seq(Requests), NEW stack \in Seq(Requests),
           Submit(q, n, w, stack)
    PROVE  LET rest == SubSeq(q, n + 2, Len(q)) IN
           /\ wire' \in Seq(Requests) /\ calls' \in Seq(Requests) /\ rest \in Seq(Requests)
           /\ ToSet(w) \subseteq ToSet(wire') /\ ToSet(stack) \subseteq ToSet(calls')
           /\ ToSet(calls') \cup ToSet(wire') \cup ToSet(rest)
                 = ToSet(stack) \cup ToSet(w) \cup ToSet(q)
           /\ ToSet(wire') \subseteq ToSet(w) \cup ToSet(q)
           /\ ToSet(calls') \subseteq ToSet(stack) \cup ToSet(q)
           /\ ToSet(rest) \subseteq ToSet(q)
           /\ rest # <<>> => \E r \in ToSet(calls') : r \in ToSet(q)
           /\ Separate(stack, w, q) => Separate(calls', wire', rest)
           /\ \A kind \in Kinds :
                 Asked(calls', kind) + Asked(wire', kind)
                    = Asked(stack, kind) + Asked(w, kind)
                         + Asked(SubSeq(q, 1, Counted(q, n)), kind)
<1> DEFINE rest == SubSeq(q, n + 2, Len(q))
           taken == SubSeq(q, 1, Counted(q, n))
           a == GoOut(q, n)
           b == Waits(q, n)
           c == Later(q, n)
<1>1. /\ a \in Seq(Requests) /\ b \in Seq(Requests) /\ c \in Seq(Requests)
      /\ q = (a \o b) \o c /\ (b = <<>> => c = <<>>) /\ taken = a \o b
  BY Cut
<1>2. wire' = w \o a /\ calls' = stack \o b /\ rest = c
  BY DEF Submit, GoOut, Waits, Later
<1> HIDE DEF rest, taken, a, b, c
<1>3. a \o b \in Seq(Requests)
  BY <1>1, Joined
<1>4. wire' \in Seq(Requests) /\ calls' \in Seq(Requests) /\ rest \in Seq(Requests)
  BY <1>1, <1>2, Joined
<1>5. ToSet((a \o b) \o c) = ToSet(a \o b) \cup ToSet(c)
  BY <1>1, <1>3, JoinedSet
<1>6. /\ ToSet(q) = ToSet(a) \cup ToSet(b) \cup ToSet(c)
     /\ ToSet(wire') = ToSet(w) \cup ToSet(a) /\ ToSet(calls') = ToSet(stack) \cup ToSet(b)
     /\ ToSet(a \o b) = ToSet(a) \cup ToSet(b)
  BY <1>1, <1>2, <1>5, JoinedSet
<1>7. c # <<>> => \E r \in ToSet(b) : TRUE
  <2> SUFFICES ASSUME b # <<>> PROVE \E r \in ToSet(b) : TRUE
    BY <1>1
  <2>1. 1 \in DOMAIN b
    BY <1>1, EmptySeq
  <2> QED
    BY <2>1 DEF ToSet
<1>8. Separate(stack, w, q) => Separate(calls', wire', rest)
  <2> SUFFICES ASSUME Separate(stack, w, q) PROVE Separate(calls', wire', rest)
    OBVIOUS
  <2>1. Single(a) /\ Single(b) /\ Single(c)
        /\ Apart(ToSet(a), ToSet(b)) /\ Apart(ToSet(a) \cup ToSet(b), ToSet(c))
    <3>1. Single((a \o b) \o c)
      BY <1>1 DEF Separate
    <3>2. Single(a \o b) /\ Single(c) /\ Apart(ToSet(a \o b), ToSet(c))
      BY <1>1, <1>3, <3>1, SingleTogether
    <3> QED
      BY <1>1, <1>6, <3>2, SingleTogether
  <2>2. \A r, s : Twin(r, s) => Twin(s, r)
    BY DEF Twin
  <2>3. Apart(ToSet(w), ToSet(a)) /\ Apart(ToSet(stack), ToSet(b))
    BY <1>6 DEF Separate, Apart
  <2>4. Single(wire') /\ Single(calls') /\ Single(rest)
    <3>1. Single(w \o a)
      BY <1>1, <2>1, <2>3, SingleTogether DEF Separate
    <3>2. Single(stack \o b)
      BY <1>1, <2>1, <2>3, SingleTogether DEF Separate
    <3> QED
      BY <1>2, <2>1, <3>1, <3>2
  <2>5. Apart(ToSet(calls'), ToSet(wire'))
    BY <1>6, <2>1, <2>2 DEF Separate, Apart
  <2>6. Apart(ToSet(calls') \cup ToSet(wire'), ToSet(rest))
    BY <1>2, <1>6, <2>1 DEF Separate, Apart
  <2> QED
    BY <2>4, <2>5, <2>6 DEF Separate
<1>9. ASSUME NEW kind \in Kinds
      PROVE  Asked(calls', kind) + Asked(wire', kind)
                = Asked(stack, kind) + Asked(w, kind) + Asked(taken, kind)
  <2>1. /\ Asked(wire', kind) = Asked(w, kind) + Asked(a, kind)
        /\ Asked(calls', kind) = Asked(stack, kind) + Asked(b, kind)
        /\ Asked(taken, kind) = Asked(a, kind) + Asked(b, kind)
    BY <1>1, <1>2, AskedTogether
  <2>2. /\ Asked(w, kind) \in Nat /\ Asked(a, kind) \in Nat /\ Asked(stack, kind) \in Nat
        /\ Asked(b, kind) \in Nat
    BY <1>1, AskedType
  <2> QED
    BY <2>1, <2>2
<1>10. /\ ToSet(w) \subseteq ToSet(wire') /\ ToSet(stack) \subseteq ToSet(calls')
       /\ ToSet(calls') \cup ToSet(wire') \cup ToSet(rest) = ToSet(stack) \cup ToSet(w) \cup ToSet(q)
       /\ ToSet(wire') \subseteq ToSet(w) \cup ToSet(q)
       /\ ToSet(calls') \subseteq ToSet(stack) \cup ToSet(q)
       /\ ToSet(rest) \subseteq ToSet(q)
       /\ rest # <<>> => \E r \in ToSet(calls') : r \in ToSet(q)
  BY <1>2, <1>6, <1>7
<1> QED
  BY <1>4, <1>8, <1>9, <1>10 DEF rest, taken

\* What FetchItems makes of the queue q: nothing is lost, and what goes out is counted.
Fetched(q, count, w, stack) ==
    /\ wire' \in Seq(Requests) /\ calls' \in Seq(Requests) /\ queue' \in Seq(Requests)
    /\ needed' \in [Kinds -> Nat]
    /\ ToSet(w) \subseteq ToSet(wire') /\ ToSet(stack) \subseteq ToSet(calls')
    /\ ToSet(calls') \cup ToSet(wire') \cup ToSet(queue')
          = ToSet(stack) \cup ToSet(w) \cup ToSet(q)
    /\ ToSet(wire') \subseteq ToSet(w) \cup ToSet(q)
    /\ ToSet(calls') \subseteq ToSet(stack) \cup ToSet(q)
    /\ ToSet(queue') \subseteq ToSet(q)
    /\ queue' # <<>> => \E r \in ToSet(calls') : r \in ToSet(q)
    /\ Separate(stack, w, q) => Separate(calls', wire', queue')
    /\ \A kind \in Kinds :
          needed'[kind] = count[kind] + Asked(calls', kind) + Asked(wire', kind)
                             - Asked(stack, kind) - Asked(w, kind)

LEMMA FetchKeeps ==
    ASSUME NEW q \in Seq(Requests), NEW count \in [Kinds -> Nat],
           NEW w \in Seq(Requests), NEW stack \in Seq(Requests),
           FetchItems(q, count, w, stack)
    PROVE  Fetched(q, count, w, stack)
<1>1. PICK n \in 0..Len(q) :
              /\ Submit(q, n, w, stack)
              /\ queue' = SubSeq(q, n + 2, Len(q))
              /\ needed' = [kind \in Kinds |->
                     count[kind] + Asked(SubSeq(q, 1, Counted(q, n)), kind)]
  BY DEF FetchItems
<1>2. SubSeq(q, 1, Counted(q, n)) \in Seq(Requests)
  <2>1. /\ GoOut(q, n) \in Seq(Requests) /\ Waits(q, n) \in Seq(Requests)
        /\ SubSeq(q, 1, Counted(q, n)) = GoOut(q, n) \o Waits(q, n)
    BY Cut
  <2>2. GoOut(q, n) \o Waits(q, n) \in Seq(Requests)
    BY <2>1, Joined
  <2> QED
    BY <2>1, <2>2
<1>3. \A kind \in Kinds : Asked(SubSeq(q, 1, Counted(q, n)), kind) \in Nat
  BY <1>2, AskedType
<1> DEFINE taken(kind) == Asked(SubSeq(q, 1, Counted(q, n)), kind)
<1>4. \A kind \in Kinds : needed'[kind] = count[kind] + taken(kind)
  BY <1>1
<1>5. needed' \in [Kinds -> Nat]
  BY <1>1, <1>3
<1>6. /\ wire' \in Seq(Requests) /\ calls' \in Seq(Requests) /\ queue' \in Seq(Requests)
      /\ ToSet(w) \subseteq ToSet(wire') /\ ToSet(stack) \subseteq ToSet(calls')
      /\ ToSet(calls') \cup ToSet(wire') \cup ToSet(queue')
            = ToSet(stack) \cup ToSet(w) \cup ToSet(q)
      /\ ToSet(wire') \subseteq ToSet(w) \cup ToSet(q)
      /\ ToSet(calls') \subseteq ToSet(stack) \cup ToSet(q)
      /\ ToSet(queue') \subseteq ToSet(q)
      /\ queue' # <<>> => \E r \in ToSet(calls') : r \in ToSet(q)
      /\ Separate(stack, w, q) => Separate(calls', wire', queue')
  BY <1>1, SubmitKeeps, ZenonT(60)
<1>7. \A kind \in Kinds :
         Asked(calls', kind) + Asked(wire', kind)
            = Asked(stack, kind) + Asked(w, kind) + taken(kind)
  BY <1>1, SubmitKeeps
<1>8. ASSUME NEW kind \in Kinds
      PROVE  needed'[kind] = count[kind] + Asked(calls', kind) + Asked(wire', kind)
                                    - Asked(stack, kind) - Asked(w, kind)
  <2> DEFINE c1 == Asked(calls', kind)
             w1 == Asked(wire', kind)
             c0 == Asked(stack, kind)
             w0 == Asked(w, kind)
             t  == taken(kind)
  <2>1. /\ c1 \in Nat /\ w1 \in Nat /\ c0 \in Nat /\ w0 \in Nat /\ t \in Nat
        /\ count[kind] \in Nat
    BY <1>3, <1>6, AskedType
  <2>2. c1 + w1 = c0 + w0 + t /\ needed'[kind] = count[kind] + t
    BY <1>4, <1>7
  <2> HIDE DEF c1, w1, c0, w0, t
  <2> DEFINE m == count[kind]
             p == needed'[kind]
  <2>3. m \in Nat /\ p = m + t
    BY <2>1, <2>2
  <2> HIDE DEF m, p
  <2>4. p = m + c1 + w1 - c0 - w0
    BY <2>1, <2>2, <2>3
  <2> QED
    BY <2>4 DEF m, p, c1, w1, c0, w0
<1> QED
  BY <1>5, <1>6, <1>8 DEF Fetched

\* The requests that remain when the k-th is answered.
LEMMA RemovedOne ==
    ASSUME NEW s \in Seq(Requests), NEW k \in DOMAIN s
    PROVE  /\ s[k] \in Requests
           /\ RemoveAt(s, k) \in Seq(Requests)
           /\ ToSet(s) = ToSet(RemoveAt(s, k)) \cup {s[k]}
           /\ Single(s) => Single(RemoveAt(s, k)) /\ Apart({s[k]}, ToSet(RemoveAt(s, k)))
           /\ \A kind \in Kinds :
                 Asked(s, kind) = Asked(RemoveAt(s, k), kind) + IF OfKind(s[k], kind) THEN 1 ELSE 0
<1> DEFINE a == GoOut(s, k - 1)
           b == <<s[k]>>
           c == Later(s, k - 1)
<1>1. /\ Len(s) \in Nat /\ DOMAIN s = 1..Len(s) /\ k \in 1..Len(s) /\ k - 1 \in 0..Len(s)
      /\ k - 1 < Len(s) /\ (k - 1) + 1 = k /\ (k - 1) + 2 = k + 1
  OBVIOUS
<1>2. /\ a \in Seq(Requests) /\ b \in Seq(Requests) /\ c \in Seq(Requests)
      /\ s = (a \o b) \o c /\ s[k] \in Requests
  <2>1. Waits(s, k - 1) = b
    BY <1>1 DEF Waits
  <2>2. /\ a \in Seq(Requests) /\ Waits(s, k - 1) \in Seq(Requests) /\ c \in Seq(Requests)
        /\ s = (a \o Waits(s, k - 1)) \o c
    BY <1>1, Cut
  <2>3. s[k] \in Requests
    OBVIOUS
  <2> QED
    BY <2>1, <2>2, <2>3
<1>3. RemoveAt(s, k) = a \o c
  BY <1>1 DEF RemoveAt, GoOut, Later
<1> HIDE DEF a, c
<1>4. a \o b \in Seq(Requests) /\ a \o c \in Seq(Requests)
  BY <1>2, Joined
<1>5. ToSet(b) = {s[k]}
  <2>1. DOMAIN b = {1} /\ b[1] = s[k]
    OBVIOUS
  <2> QED
    BY <2>1 DEF ToSet
<1> HIDE DEF b
<1>6. ToSet((a \o b) \o c) = ToSet(a \o b) \cup ToSet(c)
  BY <1>2, <1>4, JoinedSet
<1>7. /\ ToSet(s) = ToSet(a) \cup ToSet(b) \cup ToSet(c) /\ ToSet(a \o c) = ToSet(a) \cup ToSet(c)
      /\ ToSet(a \o b) = ToSet(a) \cup ToSet(b)
  BY <1>2, <1>4, <1>6, JoinedSet
<1>8. Single(s) => Single(a \o c) /\ Apart({s[k]}, ToSet(a \o c))
  <2> SUFFICES ASSUME Single(s) PROVE Single(a \o c) /\ Apart({s[k]}, ToSet(a \o c))
    OBVIOUS
  <2>1. Single((a \o b) \o c)
    BY <1>2
  <2>2. Single(a \o b) /\ Single(c) /\ Apart(ToSet(a \o b), ToSet(c))
    BY <1>2, <1>4, <2>1, SingleTogether
  <2>3. Single(a) /\ Apart(ToSet(a), ToSet(b))
    BY <1>2, <2>2, SingleTogether
  <2>4. \A r, t : Twin(r, t) => Twin(t, r)
    BY DEF Twin
  <2>5. Apart(ToSet(a), ToSet(c)) /\ Apart({s[k]}, ToSet(a) \cup ToSet(c))
    BY <1>5, <1>7, <2>2, <2>3, <2>4 DEF Apart
  <2> QED
    BY <1>2, <1>7, <2>2, <2>3, <2>5, SingleTogether
<1>9. ASSUME NEW kind \in Kinds
      PROVE  Asked(s, kind) = Asked(a \o c, kind) + IF OfKind(s[k], kind) THEN 1 ELSE 0
  <2> DEFINE d == a \o b
  <2> HIDE DEF d
  <2>1. Asked(d \o c, kind) = Asked(d, kind) + Asked(c, kind)
    <3>1. d \in Seq(Requests)
      BY <1>4 DEF d
    <3> QED
      BY <1>2, <3>1, AskedTogether
  <2>2. /\ Asked(s, kind) = Asked(d, kind) + Asked(c, kind)
        /\ Asked(d, kind) = Asked(a, kind) + Asked(b, kind)
        /\ Asked(a \o c, kind) = Asked(a, kind) + Asked(c, kind)
    BY <1>2, <1>4, <2>1, AskedTogether DEF d
  <2>3. Asked(b, kind) = IF OfKind(s[k], kind) THEN 1 ELSE 0
    BY <1>2, AskedOne DEF b
  <2>4. Asked(a, kind) \in Nat /\ Asked(c, kind) \in Nat
    BY <1>2, AskedType
  <2> QED
    BY <2>2, <2>3, <2>4
<1> QED
  BY <1>2, <1>3, <1>4, <1>5, <1>7, <1>8, <1>9


\* None of these requests is for a tab.
LEMMA AskedNone ==
    ASSUME NEW q \in Seq(Requests)
    PROVE  (\A kind \in Kinds : Asked(q, kind) = 0) <=> (\A r \in ToSet(q) : r.tab \notin Tabs)
<1> DEFINE K(kind) == {k \in DOMAIN q : OfKind(q[k], kind)}
<1>1. \A kind \in Kinds : IsFiniteSet(K(kind)) /\ Asked(q, kind) = Cardinality(K(kind))
  BY AskedType, AskedCardinality
<1>2. ASSUME \A kind \in Kinds : Asked(q, kind) = 0, NEW r \in ToSet(q), r.tab \in Tabs
      PROVE  FALSE
  <2>1. PICK k \in DOMAIN q : q[k] = r
    BY DEF ToSet
  <2>2. k \in K(KindOf(r.tab)) /\ KindOf(r.tab) \in Kinds
    BY <1>2, <2>1, KindIsKind DEF OfKind
  <2>3. Cardinality(K(KindOf(r.tab))) = 0
    BY <1>1, <1>2, <2>2
  <2> HIDE DEF K
  <2>4. K(KindOf(r.tab)) = {}
    BY <1>1, <2>2, <2>3, FS_EmptySet
  <2> QED
    BY <2>2, <2>4
<1>3. ASSUME \A r \in ToSet(q) : r.tab \notin Tabs, NEW kind \in Kinds
      PROVE  Asked(q, kind) = 0
  <2>1. K(kind) = {}
    BY <1>3 DEF ToSet, OfKind
  <2> QED
    BY <1>1, <2>1, FS_EmptySet
<1> QED
  BY <1>2, <1>3

\* The innermost call, and those around it.
LEMMA LastOne ==
    ASSUME NEW s \in Seq(Requests), s # <<>>
    PROVE  LET r == s[Len(s)]
               stack == SubSeq(s, 1, Len(s) - 1)
           IN  /\ r \in Requests /\ stack \in Seq(Requests) /\ ToSet(s) = ToSet(stack) \cup {r}
               /\ Single(s) => Single(stack) /\ Apart({r}, ToSet(stack))
               /\ \A kind \in Kinds :
                     Asked(s, kind) = Asked(stack, kind) + IF OfKind(r, kind) THEN 1 ELSE 0
<1>1. Len(s) \in DOMAIN s /\ Len(s) \in Nat
  BY EmptySeq
<1>2. RemoveAt(s, Len(s)) = SubSeq(s, 1, Len(s) - 1)
  <2>1. SubSeq(s, Len(s) + 1, Len(s)) = <<>>
    BY <1>1, SubSeqEmpty
  <2>2. SubSeq(s, 1, Len(s) - 1) \in Seq(Requests)
    BY <1>1, SubSeqProperties
  <2> QED
    BY <2>1, <2>2, ConcatEmptySeq DEF RemoveAt
<1> QED
  BY <1>1, <1>2, RemovedOne

LEMMA AppendedOne ==
    ASSUME NEW s \in Seq(Requests), NEW r \in Requests
    PROVE  /\ Append(s, r) \in Seq(Requests) /\ ToSet(Append(s, r)) = ToSet(s) \cup {r}
           /\ Single(Append(s, r)) <=> Single(s) /\ Apart(ToSet(s), {r})
           /\ \A kind \in Kinds :
                 Asked(Append(s, r), kind) = Asked(s, kind) + IF OfKind(r, kind) THEN 1 ELSE 0
<1> DEFINE b == <<r>>
<1>1. b \in Seq(Requests) /\ DOMAIN b = {1} /\ b[1] = r /\ Append(s, r) = s \o b
  BY AppendIsConcat
<1>2. Single(b) /\ ToSet(b) = {r}
  BY <1>1 DEF Single, ToSet
<1>3. \A kind \in Kinds : Asked(b, kind) = IF OfKind(r, kind) THEN 1 ELSE 0
  BY AskedOne
<1> HIDE DEF b
<1>4. /\ s \o b \in Seq(Requests) /\ ToSet(s \o b) = ToSet(s) \cup ToSet(b)
      /\ Single(s \o b) <=> Single(s) /\ Single(b) /\ Apart(ToSet(s), ToSet(b))
  BY <1>1, Joined, JoinedSet, SingleTogether
<1>5. \A kind \in Kinds : Asked(s \o b, kind) = Asked(s, kind) + Asked(b, kind)
  BY <1>1, AskedTogether
<1> QED
  BY <1>1, <1>2, <1>3, <1>4, <1>5


-----------------------------------------------------------------------------
(* The inductive invariant. *)

Sent == ToSet(calls) \cup ToSet(wire)
Pending == Sent \cup ToSet(queue)
Stored == stored.tabs["stash"] \cup stored.tabs["character"]

(***************************************************************************)
(* What holds of any update, given up or not.  Requests and items belong   *)
(* to an update that has begun, and to a part of a tab that is asked for   *)
(* in this mode; only requests for tabs are in the queue.                  *)
(***************************************************************************)
RequestsFit ==
    /\ \A r \in Pending :
          /\ r.gen <= update
          /\ r.tab \in Tabs => r.endpoint \in PartsIn(mode, r.tab)
          /\ r.tab \notin Tabs /\ mode = "OAUTH" => r.endpoint = r.tab
          /\ r.tab = "stashList" => r.gen >= 1
    /\ \A r \in ToSet(queue) : r.tab \in Tabs

FitIn(loads) == \A l \in loads : l.gen <= update /\ l.part \in PartsIn(mode, l.tab)
LoadsFit == FitIn(items) /\ FitIn(shown.items)

\* On the disk, the items of a tab are its own, from one spot, and none is an empty reply.
FitsOn(disk) ==
    \A t \in Tabs : \A l \in disk.items[t] :
        /\ l.tab = t /\ l.full /\ l.gen <= update /\ l.part \in PartsIn(mode, t)
        /\ \A m \in disk.items[t] : SpotOf(m) = SpotOf(l)
StoredFits == FitsOn(stored)

\* What is shown is on the disk, or something newer.
ShownIsStored ==
    /\ shown.tabs \subseteq Stored
    /\ ~misfiled =>
          \A l \in Full(shown.items) :
              \E m \in stored.items[l.tab] : spoiled \/ m.gen >= l.gen

StoredUniform == ~mixed /\ ~misfiled => Uniform(stored)
OAuthOnly == mode = "OAUTH" => ~cancel /\ mainPages = {} /\ ~selected

Always ==
    RequestsFit /\ LoadsFit /\ StoredFits /\ ShownIsStored /\ StoredUniform /\ OAuthOnly

(***************************************************************************)
(* What holds as long as no update was given up.  Between two updates      *)
(* nothing is under way, and what is shown is what the worker has.         *)
(***************************************************************************)
Idle ==
    ~updating =>
        /\ queue = <<>> /\ mainPages = {} /\ ~cancel /\ shown.items = items
        /\ \A r \in Sent : r.tab = "selected"

\* A list is asked for once, and while it is needed.
Lists ==
    /\ \A r \in Sent, kind \in Kinds :
          r.tab = ListEndpoint[kind] => updating /\ need[kind] /\ ~has[kind]
    /\ mainPages # {} =>
          /\ need["character"] /\ ~has["character"] /\ mainPages = {update}
          /\ \A r \in Sent : r.tab # "characterList"
    /\ \A r \in ToSet(calls) : r.tab = "stashList" /\ need["character"] =>
          /\ ~has["character"] /\ mainPages = {}
          /\ \A s \in Sent : s.tab # "characterList"

\* Tabs are asked for when the lists are in.
TabsAsked ==
    /\ \A r \in Sent : r.tab \in Tabs => updating /\ \A kind \in Kinds : need[kind] => has[kind]
    /\ \A r \in Pending :
          r.tab \in Tabs => need[KindOf(r.tab)] /\ has[KindOf(r.tab)] /\ tabs[r.tab] = 1
    /\ \/ queue = <<>>
       \/ \E kind \in Kinds : need[kind] /\ ~has[kind]
       \/ \E r \in ToSet(calls) : r.tab \in Tabs

Current == \A r \in Pending : r.tab # "selected" => r.gen = update

Net == Lists /\ TabsAsked /\ Current /\ Separate(calls, wire, queue)

\* Until a list is in, the index has the tabs that are kept; no tab is listed twice.
Index ==
    /\ \A t \in Tabs : need[KindOf(t)] /\ ~has[KindOf(t)] => (t \in index <=> tabs[t] = 1)
    /\ \A t \in Tabs : tabs[t] \in {0, 1}

\* The items read so far: of tabs that are listed, of one tab at one spot, not older
\* than what is shown, and each part of a tab once.
ListedIn(loads) == \A l \in loads : tabs[l.tab] = 1
OneSpotIn(loads) == \A l, m \in Full(loads) : l.tab = m.tab => SpotOf(l) = SpotOf(m)
NewerIn(loads) ==
    \A t \in Tabs : \/ ItemsOf(t, shown.items) \subseteq loads
                    \/ \A l \in loads : l.tab = t => l.gen = update
UniqueIn(loads) ==
    ~mixed /\ ~misfiled =>
        \A l, m \in loads : l.tab = m.tab =>
            (l.part = m.part => l = m) /\ (l.full /\ m.full => l.gen = m.gen)
Good(loads) == ListedIn(loads) /\ OneSpotIn(loads) /\ NewerIn(loads) /\ UniqueIn(loads)

OwnIn(loads) == ~misfiled => \A l \in loads : l.of = l.tab

\* What is still to come is not here yet; what is neither is not listed.
NotYet ==
    \A l \in items, r \in Pending : l.tab = r.tab => l.part # r.endpoint /\ l.gen = update
Covered ==
    \A t \in Tabs \ unread : \A p \in PartsIn(mode, t) :
        tabs[t] = 1 => \/ \E l \in items : l.tab = t /\ l.part = p
                       \/ \E r \in Pending : r.tab = t /\ r.endpoint = p

\* In the legacy mode a stash tab is asked for by its place in the first reply.
Signed ==
    mode = "LEGACY" =>
        \A r \in Pending :
            r.tab \in Stashes => r.at \in DOMAIN signature /\ signature[r.at].id = r.tab

Waiting ==
    \A kind \in Kinds : needed[kind] - received[kind] = Asked(calls, kind) + Asked(wire, kind)

Sound ==
    /\ Idle /\ Net /\ Index /\ Good(items) /\ NotYet /\ Covered /\ Signed /\ Waiting
    /\ ~cancel => OwnIn(items)

WInv == LegacyTypeOK /\ Always /\ (~spoiled => Sound)

-----------------------------------------------------------------------------
(* The places of tabs, and the requests for them. *)

LEMMA TabsKinds ==
    /\ \A t \in Tabs : t \notin NoTabs
    /\ "stashList" \notin Tabs /\ "characterList" \notin Tabs /\ "selected" \notin Tabs
    /\ \A t \in Stashes : t \in Tabs /\ KindOf(t) = "stash"
    /\ \A t \in Characters : t \in Tabs /\ KindOf(t) = "character" /\ t \notin Stashes
    /\ \A t \in Tabs : t \in Stashes \/ t \in Characters
    /\ \A t \in Tabs : KindOf(t) = "stash" <=> t \in Stashes
BY WorkerAssumption DEF NoTabs, Tabs, KindOf

LEMMA TabsFinite == IsFiniteSet(Stashes) /\ IsFiniteSet(Tabs) /\ Cardinality(Stashes) \in Nat
BY WorkerAssumption, FS_Union, FS_CardinalityType DEF Tabs

LEMMA OrderType ==
    ASSUME NEW o \in Orders
    PROVE  \E n \in 1..Cardinality(Stashes) :
              DOMAIN o = 1..n /\ \A k \in 1..n : o[k].id \in Stashes
<1>1. PICK ids \in {q \in UNION {[1..n -> Stashes] : n \in 1..Cardinality(Stashes)} :
                       IsInjective(q)} :
         \E names \in [DOMAIN ids -> {"old", "new"}] :
            o = [k \in DOMAIN ids |-> [id |-> ids[k], name |-> names[k]]]
  BY DEF Orders
<1>2. PICK n \in 1..Cardinality(Stashes) : ids \in [1..n -> Stashes]
  OBVIOUS
<1> QED
  BY <1>1, <1>2

LEMMA PlaceType ==
    ASSUME NEW o \in Orders, NEW t
    PROVE  /\ PlaceIn(o, t) \in Places
           /\ t \in Ids(o) => PlaceIn(o, t) \in DOMAIN o /\ o[PlaceIn(o, t)].id = t
           /\ Ids(o) \subseteq Stashes
<1>1. PICK n \in 1..Cardinality(Stashes) : DOMAIN o = 1..n /\ \A k \in 1..n : o[k].id \in Stashes
  BY OrderType
<1>2. Cardinality(Stashes) \in Nat
  BY TabsFinite
<1>3. t \in Ids(o) => PlaceIn(o, t) \in DOMAIN o /\ o[PlaceIn(o, t)].id = t
  BY DEF PlaceIn, Ids
<1>4. 1..n \subseteq Places /\ NoPlace \in Places
  BY <1>2 DEF Places, NoPlace
<1>5. t \notin Ids(o) => PlaceIn(o, t) = NoPlace
  BY DEF PlaceIn
<1> QED
  BY <1>1, <1>3, <1>4, <1>5 DEF Ids

LEMMA RequestTypes ==
    ASSUME order \in Orders, NEW gen \in Nat
    PROVE  /\ \A kind \in Kinds : ListRequest(kind, gen) \in Requests
           /\ \A kind \in Kinds : LegacyListRequest(kind, gen) \in Requests
           /\ \A t \in Tabs : TabRequest(t, gen) \in Requests
           /\ \A t \in Tabs, part \in Kinds \cup {"jewels"} :
                 LegacyTabRequest(t, part, gen) \in Requests
           /\ SelectedRequest \in Requests
<1>1. NoPlace \in Places /\ \A t : PlaceIn(order, t) \in Places
  BY PlaceType, TabsFinite DEF Places, NoPlace
<1>2. \A kind \in Kinds : ListEndpoint[kind] \in Endpoints /\ ListEndpoint[kind] \in NoTabs
  BY DEF ListEndpoint, Kinds, Endpoints, NoTabs
<1>3. \A t : KindOf(t) \in Endpoints
  BY KindIsKind DEF Endpoints
<1>4. /\ "stash" \in Endpoints /\ "character" \in Endpoints /\ "characterList" \in Endpoints
      /\ "jewels" \in Endpoints /\ Kinds \subseteq Endpoints /\ "selected" \in NoTabs
  BY DEF Endpoints, Kinds, NoTabs
<1>5. \A kind \in Kinds : ListRequest(kind, gen) \in Requests
  BY <1>1, <1>2 DEF ListRequest, Requests
<1>6. \A kind \in Kinds : LegacyListRequest(kind, gen) \in Requests
  BY <1>1, <1>2, <1>4 DEF LegacyListRequest, Requests
<1>7. \A t \in Tabs : TabRequest(t, gen) \in Requests
  BY <1>1, <1>3 DEF TabRequest, Requests
<1>8. \A t \in Tabs, part \in Kinds \cup {"jewels"} : LegacyTabRequest(t, part, gen) \in Requests
  BY <1>1, <1>4 DEF LegacyTabRequest, Requests
<1>9. SelectedRequest \in Requests
  BY <1>1, <1>4 DEF SelectedRequest, Requests
<1> QED
  BY <1>5, <1>6, <1>7, <1>8, <1>9

\* The tabs of a set, each once.
LEMMA InOrder ==
    ASSUME NEW set \in SUBSET Tabs, NEW q \in InListOrder(set)
    PROVE  /\ q \in Seq(set) /\ DOMAIN q = 1..Len(q) /\ Len(q) \in Nat
           /\ \A i \in 1..Len(q) : q[i] \in set
           /\ \A t \in set : \E i \in 1..Len(q) : q[i] = t
           /\ \A i, j \in 1..Len(q) : q[i] = q[j] => i = j
<1>1. Cardinality(set) \in Nat
  BY TabsFinite, FS_Subset, FS_CardinalityType
<1>2. q \in [1..Cardinality(set) -> set] /\ IsInjective(q) /\ set \subseteq ToSet(q)
  BY DEF InListOrder
<1>3. q \in Seq(set)
  BY <1>1, <1>2, IsASeq
<1>4. DOMAIN q = 1..Len(q) /\ Len(q) \in Nat
  BY <1>3
<1> QED
  BY <1>2, <1>3, <1>4 DEF IsInjective, ToSet

(***************************************************************************)
(* The requests for the new tabs of a list: every part of each of them     *)
(* once, with the place the tab has in the game.                           *)
(***************************************************************************)
ForNewTabs(kind, q, gen) ==
    /\ q \in Seq(Requests) /\ Single(q)
    /\ \A r \in ToSet(q) :
          /\ r.tab \in NewTabs(kind) /\ r.endpoint \in PartsIn(mode, r.tab)
          /\ r.gen = gen /\ r.at = PlaceIn(order, r.tab)
    /\ \A t \in NewTabs(kind) : \A p \in PartsIn(mode, t) :
          \E r \in ToSet(q) : r.tab = t /\ r.endpoint = p


LEMMA OAuthNewTabs ==
    ASSUME LegacyTypeOK, mode = "OAUTH", NEW kind \in Kinds, NEW gen \in Nat,
           NEW new \in InListOrder(NewTabs(kind))
    PROVE  ForNewTabs(kind, [i \in DOMAIN new |-> TabRequest(new[i], gen)], gen)
<1> DEFINE q == [i \in DOMAIN new |-> TabRequest(new[i], gen)]
<1>1. NewTabs(kind) \in SUBSET Tabs /\ \A t \in NewTabs(kind) : KindOf(t) = kind
  BY DEF LegacyTypeOK, WorkerTypeOK, NewTabs
<1>2. /\ DOMAIN new = 1..Len(new) /\ Len(new) \in Nat
      /\ \A i \in 1..Len(new) : new[i] \in NewTabs(kind)
      /\ \A t \in NewTabs(kind) : \E i \in 1..Len(new) : new[i] = t
      /\ \A i, j \in 1..Len(new) : new[i] = new[j] => i = j
  BY <1>1, InOrder, ZenonT(60)
<1>3. \A t \in NewTabs(kind) : TabRequest(t, gen) \in Requests
  BY <1>1, RequestTypes DEF LegacyTypeOK, WorkerTypeOK
<1>4. q \in Seq(Requests)
  BY <1>2, <1>3, IsASeq
<1>5. DOMAIN q = 1..Len(new) /\ \A i \in 1..Len(new) : q[i] = TabRequest(new[i], gen)
  BY <1>2
<1> HIDE DEF q
<1>6. Single(q)
  BY <1>2, <1>5 DEF Single, Twin, TabRequest
<1>7. \A t \in NewTabs(kind) : PartsIn(mode, t) = {kind}
  BY <1>1 DEF PartsIn
<1>8. ASSUME NEW r \in ToSet(q)
      PROVE  /\ r.tab \in NewTabs(kind) /\ r.endpoint \in PartsIn(mode, r.tab)
             /\ r.gen = gen /\ r.at = PlaceIn(order, r.tab)
  <2>1. PICK i \in 1..Len(new) : r = TabRequest(new[i], gen)
    BY <1>5 DEF ToSet
  <2> QED
    BY <1>1, <1>2, <1>7, <2>1 DEF TabRequest
<1>9. ASSUME NEW t \in NewTabs(kind), NEW p \in PartsIn(mode, t)
      PROVE  \E r \in ToSet(q) : r.tab = t /\ r.endpoint = p
  <2>1. PICK i \in 1..Len(new) : new[i] = t
    BY <1>2
  <2>2. q[i] \in ToSet(q) /\ q[i].tab = t /\ q[i].endpoint = kind
    BY <1>1, <1>5, <2>1 DEF ToSet, TabRequest
  <2> QED
    BY <1>7, <2>2
<1> QED
  BY <1>4, <1>6, <1>8, <1>9 DEF ForNewTabs, q

LEMMA LegacyNewStashes ==
    ASSUME LegacyTypeOK, mode = "LEGACY", NEW gen \in Nat,
           NEW new \in InListOrder(NewTabs("stash"))
    PROVE  ForNewTabs("stash", [i \in DOMAIN new |-> LegacyTabRequest(new[i], "stash", gen)], gen)
<1> DEFINE q == [i \in DOMAIN new |-> LegacyTabRequest(new[i], "stash", gen)]
<1>1. /\ NewTabs("stash") \in SUBSET Tabs
      /\ \A t \in NewTabs("stash") : KindOf(t) = "stash" /\ t \in Stashes
  BY TabsKinds DEF LegacyTypeOK, WorkerTypeOK, NewTabs
<1>2. /\ DOMAIN new = 1..Len(new) /\ Len(new) \in Nat
      /\ \A i \in 1..Len(new) : new[i] \in NewTabs("stash")
      /\ \A t \in NewTabs("stash") : \E i \in 1..Len(new) : new[i] = t
      /\ \A i, j \in 1..Len(new) : new[i] = new[j] => i = j
  BY <1>1, InOrder, ZenonT(60)
<1>3. \A t \in NewTabs("stash") : LegacyTabRequest(t, "stash", gen) \in Requests
  BY <1>1, RequestTypes DEF LegacyTypeOK, WorkerTypeOK, Kinds
<1>4. q \in Seq(Requests)
  BY <1>2, <1>3, IsASeq
<1>5. /\ DOMAIN q = 1..Len(new)
      /\ \A i \in 1..Len(new) : q[i] = LegacyTabRequest(new[i], "stash", gen)
  BY <1>2
<1> HIDE DEF q
<1>6. Single(q)
  BY <1>2, <1>5 DEF Single, Twin, LegacyTabRequest
<1>7. \A t \in NewTabs("stash") : PartsIn(mode, t) = {"stash"}
  BY <1>1, TabsKinds DEF PartsIn
<1>8. ASSUME NEW r \in ToSet(q)
      PROVE  /\ r.tab \in NewTabs("stash") /\ r.endpoint \in PartsIn(mode, r.tab)
             /\ r.gen = gen /\ r.at = PlaceIn(order, r.tab)
  <2>1. PICK i \in 1..Len(new) : r = LegacyTabRequest(new[i], "stash", gen)
    BY <1>5 DEF ToSet
  <2> QED
    BY <1>2, <1>7, <2>1 DEF LegacyTabRequest
<1>9. ASSUME NEW t \in NewTabs("stash"), NEW p \in PartsIn(mode, t)
      PROVE  \E r \in ToSet(q) : r.tab = t /\ r.endpoint = p
  <2>1. PICK i \in 1..Len(new) : new[i] = t
    BY <1>2
  <2>2. q[i] \in ToSet(q) /\ q[i].tab = t /\ q[i].endpoint = "stash"
    BY <1>5, <2>1 DEF ToSet, LegacyTabRequest
  <2> QED
    BY <1>7, <2>2
<1> QED
  BY <1>4, <1>6, <1>8, <1>9 DEF ForNewTabs, q

\* The two requests for each character come one after the other.
LEMMA Halves ==
    ASSUME NEW n \in Nat
    PROVE  /\ \A i \in 1 .. 2 * n : (i + 1) \div 2 \in 1..n /\ i % 2 \in {0, 1}
           /\ \A i, j \in 1 .. 2 * n : (i + 1) \div 2 = (j + 1) \div 2 /\ i % 2 = j % 2 => i = j
           /\ \A k \in 1..n : /\ 2 * k - 1 \in 1 .. 2 * n /\ 2 * k \in 1 .. 2 * n
                              /\ (2 * k - 1 + 1) \div 2 = k /\ (2 * k - 1) % 2 = 1
                              /\ (2 * k + 1) \div 2 = k /\ (2 * k) % 2 = 0
OBVIOUS

LEMMA LegacyNewCharacters ==
    ASSUME LegacyTypeOK, mode = "LEGACY", NEW gen \in Nat,
           NEW new \in InListOrder(NewTabs("character"))
    PROVE  ForNewTabs("character", TwiceEach(new, gen), gen)
<1> DEFINE q == TwiceEach(new, gen)
           part(i) == IF i % 2 = 1 THEN "character" ELSE "jewels"
           half(i) == (i + 1) \div 2
           n == Len(new)
<1>1. /\ NewTabs("character") \in SUBSET Tabs
      /\ \A t \in NewTabs("character") : KindOf(t) = "character" /\ t \in Characters
  BY TabsKinds DEF LegacyTypeOK, WorkerTypeOK, NewTabs
<1>2. /\ DOMAIN new = 1..n /\ n \in Nat
      /\ \A i \in 1..n : new[i] \in NewTabs("character")
      /\ \A t \in NewTabs("character") : \E i \in 1..n : new[i] = t
      /\ \A i, j \in 1..n : new[i] = new[j] => i = j
  BY <1>1, InOrder, ZenonT(60)
<1>3. \A t \in NewTabs("character"), p \in {"character", "jewels"} :
         LegacyTabRequest(t, p, gen) \in Requests
  BY <1>1, RequestTypes DEF LegacyTypeOK, WorkerTypeOK, Kinds
<1>4. /\ q = [i \in 1 .. 2 * n |-> LegacyTabRequest(new[half(i)], part(i), gen)]
      /\ 2 * n \in Nat /\ \A i : part(i) \in {"character", "jewels"}
  BY <1>2 DEF TwiceEach
<1> HIDE DEF q, n
<1>5. /\ \A i \in 1 .. 2 * n : half(i) \in 1..n /\ i % 2 \in {0, 1}
      /\ \A i, j \in 1 .. 2 * n : half(i) = half(j) /\ i % 2 = j % 2 => i = j
      /\ \A k \in 1..n : /\ 2 * k - 1 \in 1 .. 2 * n /\ 2 * k \in 1 .. 2 * n
                         /\ half(2 * k - 1) = k /\ (2 * k - 1) % 2 = 1
                         /\ half(2 * k) = k /\ (2 * k) % 2 = 0
  BY <1>2, Halves
<1>6. \A i, j \in 1 .. 2 * n : part(i) = part(j) => i % 2 = j % 2
  BY <1>5
<1>7. \A k \in 1..n : part(2 * k - 1) = "character" /\ part(2 * k) = "jewels"
  BY <1>5
<1> HIDE DEF half, part
<1>8. q \in Seq(Requests)
  <2>1. \A i \in 1 .. 2 * n : LegacyTabRequest(new[half(i)], part(i), gen) \in Requests
    BY <1>2, <1>3, <1>4, <1>5
  <2> QED
    BY <1>4, <2>1, IsASeq
<1>9. /\ DOMAIN q = 1 .. 2 * n
      /\ \A i \in 1 .. 2 * n : q[i] = LegacyTabRequest(new[half(i)], part(i), gen)
  BY <1>4
<1>10. Single(q)
  <2> SUFFICES ASSUME NEW i \in 1 .. 2 * n, NEW j \in 1 .. 2 * n, Twin(q[i], q[j])
               PROVE  i = j
    BY <1>9 DEF Single
  <2>1. /\ q[i].tab = new[half(i)] /\ q[i].endpoint = part(i)
        /\ q[j].tab = new[half(j)] /\ q[j].endpoint = part(j)
    BY <1>9 DEF LegacyTabRequest
  <2>2. q[i].tab \in Tabs
    BY <1>1, <1>2, <1>5, <2>1
  <2>3. new[half(i)] = new[half(j)] /\ part(i) = part(j)
    BY <2>1, <2>2 DEF Twin
  <2>4. half(i) = half(j) /\ i % 2 = j % 2
    BY <1>2, <1>5, <1>6, <2>3
  <2> QED
    BY <1>5, <2>4
<1>11. \A t \in NewTabs("character") : PartsIn(mode, t) = {"character", "jewels"}
  BY <1>1 DEF PartsIn
<1>12. ASSUME NEW r \in ToSet(q)
      PROVE  /\ r.tab \in NewTabs("character") /\ r.endpoint \in PartsIn(mode, r.tab)
             /\ r.gen = gen /\ r.at = PlaceIn(order, r.tab)
  <2>1. PICK i \in 1 .. 2 * n : r = LegacyTabRequest(new[half(i)], part(i), gen)
    BY <1>9 DEF ToSet
  <2>2. new[half(i)] \in NewTabs("character") /\ part(i) \in {"character", "jewels"}
    BY <1>2, <1>4, <1>5
  <2> QED
    BY <1>11, <2>1, <2>2 DEF LegacyTabRequest
<1>13. ASSUME NEW t \in NewTabs("character"), NEW p \in PartsIn(mode, t)
      PROVE  \E r \in ToSet(q) : r.tab = t /\ r.endpoint = p
  <2>1. PICK k \in 1..n : new[k] = t
    BY <1>2
  <2>2. /\ q[2 * k - 1] \in ToSet(q) /\ q[2 * k] \in ToSet(q)
    BY <1>5, <1>9 DEF ToSet
  <2>3. /\ q[2 * k - 1].tab = t /\ q[2 * k - 1].endpoint = "character"
        /\ q[2 * k].tab = t /\ q[2 * k].endpoint = "jewels"
    BY <1>5, <1>7, <1>9, <2>1 DEF LegacyTabRequest
  <2> QED
    BY <1>11, <2>2, <2>3
<1> QED
  BY <1>8, <1>10, <1>12, <1>13 DEF ForNewTabs, q


-----------------------------------------------------------------------------
(* The first state, and steps that change nothing the invariant speaks of. *)

LEMMA PartsType ==
    \A m, t : PartsIn(m, t) \subseteq Kinds \cup {"jewels"} /\ (m = mode => PartsIn(m, t) = Parts(t))
BY KindIsKind DEF PartsIn, Parts, Kinds

LEMMA NothingIn ==
    /\ <<>> \in Seq(Requests) /\ ToSet(<<>>) = {} /\ Single(<<>>) /\ Len(<<>>) = 0
    /\ \A kind \in Kinds : Asked(<<>>, kind) = 0
<1>1. ToSet(<<>>) = {} /\ Single(<<>>)
  BY DEF ToSet, Single
<1>2. <<>> \in Seq(Requests)
  BY EmptySeq
<1>3. \A kind \in Kinds : Asked(<<>>, kind) = 0
  BY <1>1, <1>2, AskedNone
<1> QED
  BY <1>1, <1>2, <1>3

LEMMA InitHolds == LegacyInit => WInv
<1> SUFFICES ASSUME LegacyInit PROVE WInv
  OBVIOUS
<1>1. /\ mode \in {"OAUTH", "LEGACY"} /\ order \in OldNames
      /\ world \in {Ids(order) \cup set : set \in SUBSET Characters}
      /\ changes = 0 /\ update = 0 /\ updating = FALSE /\ need = None /\ has = None
      /\ \/ tabs = [t \in Tabs |-> 0]
         \/ tabs = [t \in Tabs |-> IF t \in world THEN 1 ELSE 0]
      /\ index = Listed(tabs)
      /\ queue = <<>> /\ needed = Zero /\ received = Zero
      /\ calls = <<>> /\ known = {} /\ wire = <<>>
      /\ stored = [tabs  |-> [kind \in Kinds |-> {t \in Listed(tabs) : KindOf(t) = kind}],
                   items |-> [t \in Tabs |-> ItemsOf(t, items)]]
      /\ shown = [tabs |-> Listed(tabs), items |-> items]
      /\ spoiled = FALSE /\ misfiled = FALSE /\ mixed = FALSE /\ unread = {} /\ lastBad = FALSE
      /\ signature = <<>> /\ cancel = FALSE /\ mainPages = {} /\ selected = FALSE
  BY DEF LegacyInit, WorkerInit
<1>2. items = UNION {{Load(t, part, PlaceIn(order, t), 0, TRUE) : part \in Parts(t)} :
                      t \in Listed(tabs)}
  BY DEF LegacyInit, WorkerInit
<1>3. order \in Orders /\ Ids(order) \subseteq Stashes
  BY <1>1, PlaceType DEF OldNames
<1>4. /\ world \subseteq Tabs /\ world \cap Stashes = Ids(order)
      /\ tabs \in [Tabs -> {0, 1}] /\ \A t \in Tabs : tabs[t] \in {0, 1}
      /\ Listed(tabs) \subseteq Tabs /\ \A t \in Tabs : t \in Listed(tabs) <=> tabs[t] = 1
  <2>1. world \subseteq Tabs /\ world \cap Stashes = Ids(order)
    BY <1>1, <1>3, TabsKinds DEF Tabs
  <2>2. tabs \in [Tabs -> {0, 1}]
    BY <1>1
  <2> QED
    BY <2>1, <2>2 DEF Listed
<1>5. ASSUME NEW l \in items
      PROVE  /\ l \in Loads /\ l.tab \in Listed(tabs) /\ l.part \in PartsIn(mode, l.tab)
             /\ l = Load(l.tab, l.part, PlaceIn(order, l.tab), 0, TRUE)
  <2>1. PICK t \in Listed(tabs) :
           l \in {Load(t, part, PlaceIn(order, t), 0, TRUE) : part \in Parts(t)}
    BY <1>2
  <2>2. PICK part \in Parts(t) : l = Load(t, part, PlaceIn(order, t), 0, TRUE)
    BY <2>1
  <2>3. part \in Kinds \cup {"jewels"} /\ part \in PartsIn(mode, t)
    BY <2>2, PartsType
  <2>4. t \in Tabs /\ PlaceIn(order, t) \in Places
    BY <1>3, <1>4, PlaceType
  <2>5. l.tab = t /\ l.part = part
    BY <2>2 DEF Load
  <2> QED
    BY <2>2, <2>3, <2>4, <2>5 DEF Load, Loads
<1>6. \A t \in Listed(tabs) : \A part \in PartsIn(mode, t) :
         Load(t, part, PlaceIn(order, t), 0, TRUE) \in items
  <2>1. \A t : PartsIn(mode, t) = Parts(t)
    BY PartsType
  <2>2. \A t \in Listed(tabs) :
           {Load(t, part, PlaceIn(order, t), 0, TRUE) : part \in Parts(t)} \subseteq items
    BY <1>2
  <2> QED
    BY <2>1, <2>2
<1>7. \A l, m \in items : l.tab = m.tab => l.gen = m.gen /\ (l.part = m.part => l = m)
  <2>1. \A l \in items : l.gen = 0
    BY <1>5 DEF Load
  <2>2. ASSUME NEW l \in items, NEW m \in items, l.tab = m.tab, l.part = m.part PROVE l = m
    <3>1. /\ l = Load(l.tab, l.part, PlaceIn(order, l.tab), 0, TRUE)
          /\ m = Load(m.tab, m.part, PlaceIn(order, m.tab), 0, TRUE)
      BY <1>5
    <3> QED
      BY <2>2, <3>1
  <2> QED
    BY <2>1, <2>2
<1>8. \A l \in items : /\ l.gen = 0 /\ l.gen <= update /\ l.full /\ l.of = l.tab
                        /\ l.at = PlaceIn(order, l.tab)
  BY <1>1, <1>5 DEF Load
<1>9. \A l, m \in items : l.tab = m.tab => SpotOf(l) = SpotOf(m)
  BY <1>8 DEF SpotOf
<1>10. /\ \A t \in Tabs : stored.items[t] = ItemsOf(t, items)
       /\ \A kind \in Kinds : stored.tabs[kind] = {t \in Listed(tabs) : KindOf(t) = kind}
       /\ shown.tabs = Listed(tabs) /\ shown.items = items
  BY <1>1
<1>11. LegacyTypeOK
  <2>1. stored \in [tabs : [Kinds -> SUBSET Tabs], items : [Tabs -> SUBSET Loads]]
    BY <1>1, <1>4, <1>5 DEF ItemsOf
  <2>2. shown \in [tabs : SUBSET Tabs, items : SUBSET Loads]
    BY <1>1, <1>4, <1>5
  <2>3. /\ mode \in {"OAUTH", "LEGACY"} /\ changes \in Nat /\ update \in Nat /\ updating \in BOOLEAN
        /\ need \in [Kinds -> BOOLEAN] /\ has \in [Kinds -> BOOLEAN]
        /\ needed \in [Kinds -> Nat] /\ received \in [Kinds -> Nat]
    BY <1>1 DEF None, Zero
  <2>4. tabs \in [Tabs -> Nat] /\ index \subseteq Tabs /\ items \subseteq Loads
    <3>1. items \subseteq Loads
      BY <1>5
    <3> QED
      BY <1>1, <1>4, <3>1
  <2>5. /\ queue \in Seq(Requests) /\ calls \in Seq(Requests) /\ wire \in Seq(Requests)
        /\ known \subseteq Endpoints
    BY <1>1, NothingIn
  <2>6. /\ spoiled \in BOOLEAN /\ misfiled \in BOOLEAN /\ mixed \in BOOLEAN
        /\ unread \subseteq Tabs /\ lastBad \in BOOLEAN
        /\ signature \in Orders \cup {<<>>} /\ cancel \in BOOLEAN /\ mainPages \subseteq 1..update
        /\ selected \in BOOLEAN
    BY <1>1
  <2> QED
    BY <1>3, <1>4, <2>1, <2>2, <2>3, <2>4, <2>5, <2>6 DEF LegacyTypeOK, WorkerTypeOK
<1>12. /\ Pending = {} /\ Sent = {} /\ queue = <<>> /\ mainPages = {}
       /\ \A kind \in Kinds : ~need[kind] /\ ~has[kind]
  BY <1>1, NothingIn DEF Pending, Sent, None
<1>13. Always
  <2>1. RequestsFit
    BY <1>12, NothingIn DEF RequestsFit
  <2>2. LoadsFit
    BY <1>5, <1>8, <1>10 DEF LoadsFit, FitIn
  <2>3. StoredFits
    <3> SUFFICES ASSUME NEW t \in Tabs, NEW l \in ItemsOf(t, items)
                 PROVE  /\ l.tab = t /\ l.full /\ l.gen <= update /\ l.part \in PartsIn(mode, t)
                        /\ \A m \in ItemsOf(t, items) : SpotOf(m) = SpotOf(l)
      BY <1>10 DEF StoredFits, FitsOn
    <3> QED
      BY <1>5, <1>8, <1>9 DEF ItemsOf
  <2>4. ShownIsStored
    <3>1. shown.tabs \subseteq Stored
      BY <1>4, <1>10, KindIsKind DEF Stored, Kinds
    <3>2. \A l \in Full(shown.items) : l \in stored.items[l.tab] /\ l.gen >= l.gen
      <4>1. \A l \in items : l.tab \in Tabs /\ l.gen = 0
        BY <1>4, <1>5 DEF Load
      <4> QED
        BY <1>10, <4>1 DEF Full, ItemsOf
    <3> QED
      BY <3>1, <3>2 DEF ShownIsStored
  <2>5. Uniform(stored)
    BY <1>7, <1>10 DEF Uniform, ItemsOf
  <2> QED
    BY <2>1, <2>2, <2>3, <2>4, <2>5, <1>1 DEF Always, StoredUniform, OAuthOnly
<1>14. Sound
  <2>1. Idle
    BY <1>1, <1>10, <1>12 DEF Idle
  <2>2. Net
    BY <1>1, <1>12, NothingIn DEF Net, Lists, TabsAsked, Current, Separate, Apart
  <2>3. Index
    BY <1>4, <1>12, KindIsKind DEF Index
  <2>4. Good(items)
    <3>1. ListedIn(items) /\ OneSpotIn(items)
      BY <1>4, <1>5 DEF ListedIn, OneSpotIn, Full, SpotOf, Load
    <3>2. NewerIn(items)
      BY <1>10 DEF NewerIn, ItemsOf
    <3>3. UniqueIn(items)
      BY <1>7 DEF UniqueIn
    <3> QED
      BY <3>1, <3>2, <3>3 DEF Good
  <2>5. NotYet
    BY <1>12 DEF NotYet
  <2>6. Covered
    <3>1. \A t, part : /\ Load(t, part, PlaceIn(order, t), 0, TRUE).tab = t
                       /\ Load(t, part, PlaceIn(order, t), 0, TRUE).part = part
      BY DEF Load
    <3> QED
      <4> SUFFICES ASSUME NEW t \in Tabs, NEW p \in PartsIn(mode, t), tabs[t] = 1
                   PROVE  \E l \in items : l.tab = t /\ l.part = p
        BY DEF Covered
      <4> DEFINE l == Load(t, p, PlaceIn(order, t), 0, TRUE)
      <4>1. l.tab = t /\ l.part = p
        BY <3>1
      <4>2. l \in items
        BY <1>4, <1>6
      <4> HIDE DEF l
      <4> QED
        BY <4>1, <4>2
  <2>7. Signed
    BY <1>12 DEF Signed
  <2>8. Waiting
    BY <1>1, NothingIn DEF Waiting, Zero
  <2>9. OwnIn(items)
    BY <1>5 DEF OwnIn, Load
  <2> QED
    BY <2>1, <2>2, <2>3, <2>4, <2>5, <2>6, <2>7, <2>8, <2>9 DEF Sound
<1> QED
  BY <1>11, <1>13, <1>14 DEF WInv

\* The variables of the invariant, its types left aside.
ownVars ==
    <<mode, update, updating, stateVars, queue, calls, wire, stored, shown, history, legacyVars>>

LEMMA SameState ==
    ASSUME UNCHANGED ownVars
    PROVE  (Always => Always') /\ (Sound => Sound')
<1> USE DEF ownVars, stateVars, history, legacyVars
<1>1. Sent' = Sent /\ Pending' = Pending /\ Stored' = Stored
  BY DEF Sent, Pending, Stored
<1>2. Always => Always'
  <2>1. (RequestsFit => RequestsFit') /\ (OAuthOnly => OAuthOnly')
    BY <1>1 DEF RequestsFit, OAuthOnly
  <2>2. (LoadsFit => LoadsFit') /\ (StoredFits => StoredFits')
    BY DEF LoadsFit, FitIn, StoredFits, FitsOn
  <2>3. (ShownIsStored => ShownIsStored') /\ (StoredUniform => StoredUniform')
    BY <1>1 DEF ShownIsStored, StoredUniform
  <2> QED
    BY <2>1, <2>2, <2>3 DEF Always
<1>3. Sound => Sound'
  <2>1. (Idle => Idle') /\ (Index => Index') /\ (Signed => Signed') /\ (Waiting => Waiting')
    BY <1>1 DEF Idle, Index, Signed, Waiting
  <2>2. Net => Net'
    BY <1>1 DEF Net, Lists, TabsAsked, Current
  <2>3. Good(items) => Good(items)'
    BY DEF Good, ListedIn, OneSpotIn, NewerIn, UniqueIn
  <2>4. (NotYet => NotYet') /\ (Covered => Covered')
    BY <1>1 DEF NotYet, Covered
  <2>5. (~cancel => OwnIn(items)) => (~cancel => OwnIn(items))'
    BY DEF OwnIn
  <2> QED
    BY <2>1, <2>2, <2>3, <2>4, <2>5 DEF Sound
<1> QED
  BY <1>2, <1>3


-----------------------------------------------------------------------------
(* The program is started again. *)

DiskType == [tabs : [Kinds -> SUBSET Tabs], items : [Tabs -> SUBSET Loads]]
TabsOn(disk) == disk.tabs["stash"] \cup disk.tabs["character"]

\* The items of a tab that is on the disk are read, and nothing else: a part that is
\* not there is read as empty.
LEMMA Reread ==
    ASSUME LegacyTypeOK, NEW disk \in DiskType, FitsOn(disk), RestartOver(disk)
    PROVE  /\ stored' \in DiskType /\ stored'.tabs = disk.tabs
           /\ \A t \in Tabs : stored'.items[t] \subseteq disk.items[t]
           /\ \A t \in TabsOn(disk) : stored'.items[t] = disk.items[t]
           /\ TabsOn(disk) \subseteq Tabs
           /\ \A l \in items' :
                 /\ l \in Loads /\ l.tab \in TabsOn(disk) /\ l.part \in PartsIn(mode, l.tab)
                 /\ l.gen <= update
                 /\ \/ l \in disk.items[l.tab]
                    \/ /\ l = Load(l.tab, l.part, NoPlace, 0, FALSE)
                       /\ \A m \in disk.items[l.tab] : m.part # l.part
           /\ \A t \in TabsOn(disk) :
                 /\ disk.items[t] \subseteq items'
                 /\ \A p \in PartsIn(mode, t) : \E l \in items' : l.tab = t /\ l.part = p
<1> DEFINE all == TabsOn(disk)
           clean == IF \A kind \in Kinds : disk.tabs[kind] # {}
                    THEN [t \in Tabs |-> IF t \in all THEN disk.items[t] ELSE {}]
                    ELSE disk.items
           read(t) == {l.part : l \in clean[t]}
           empty(t) == {Load(t, part, NoPlace, 0, FALSE) : part \in Parts(t) \ read(t)}
<1>1. /\ items' = UNION {clean[t] \cup empty(t) : t \in all}
      /\ stored' = [disk EXCEPT !.items = clean]
  BY DEF RestartOver, TabsOn
<1>2. /\ disk.tabs \in [Kinds -> SUBSET Tabs] /\ disk.items \in [Tabs -> SUBSET Loads]
      /\ all \subseteq Tabs
  BY DEF DiskType, TabsOn, Kinds
<1>3. /\ clean \in [Tabs -> SUBSET Loads] /\ \A t \in Tabs : clean[t] \subseteq disk.items[t]
      /\ \A t \in all : clean[t] = disk.items[t]
  BY <1>2
<1>4. stored' \in DiskType /\ stored'.tabs = disk.tabs /\ stored'.items = clean
  <2> HIDE DEF clean
  <2> QED
    BY <1>1, <1>2, <1>3 DEF DiskType
<1>5. \A t \in all : clean[t] \cup empty(t) \subseteq items'
  <2> HIDE DEF clean, empty, all
  <2> QED
    BY <1>1
<1> HIDE DEF clean
<1>6. ASSUME NEW t \in all, NEW l \in clean[t]
      PROVE  /\ l \in Loads /\ l.tab = t /\ l.part \in PartsIn(mode, t) /\ l.gen <= update
             /\ l \in disk.items[t]
  <2>1. l \in disk.items[t] /\ t \in Tabs
    BY <1>2, <1>3, <1>6
  <2> QED
    BY <1>2, <2>1 DEF FitsOn
<1>7. ASSUME NEW t \in all, NEW l \in empty(t)
      PROVE  /\ l \in Loads /\ l.tab = t /\ l.part \in PartsIn(mode, t) /\ l.gen <= update
             /\ l = Load(l.tab, l.part, NoPlace, 0, FALSE)
             /\ \A m \in disk.items[t] : m.part # l.part
  <2>1. PICK part \in Parts(t) \ read(t) : l = Load(t, part, NoPlace, 0, FALSE)
    BY <1>7
  <2>2. part \in PartsIn(mode, t) /\ part \in Kinds \cup {"jewels"}
    BY PartsType
  <2>3. NoPlace \in Places /\ t \in Tabs /\ 0 <= update
    BY <1>2, TabsFinite DEF LegacyTypeOK, WorkerTypeOK, NoPlace, Places
  <2>4. l.tab = t /\ l.part = part /\ l.gen = 0
    BY <2>1 DEF Load
  <2>5. l \in Loads
    BY <2>1, <2>2, <2>3 DEF Load, Loads
  <2>6. \A m \in clean[t] : m.part # part
    BY <2>1
  <2> QED
    BY <1>3, <2>1, <2>2, <2>3, <2>4, <2>5, <2>6
<1>8. ASSUME NEW l \in items'
      PROVE  /\ l \in Loads /\ l.tab \in all /\ l.part \in PartsIn(mode, l.tab)
             /\ l.gen <= update
             /\ \/ l \in disk.items[l.tab]
                \/ /\ l = Load(l.tab, l.part, NoPlace, 0, FALSE)
                   /\ \A m \in disk.items[l.tab] : m.part # l.part
  <2>1. PICK t \in all : l \in clean[t] \cup empty(t)
    BY <1>1
  <2> HIDE DEF empty
  <2>2. CASE l \in clean[t]
    BY <1>6, <2>2
  <2>3. CASE l \in empty(t)
    BY <1>7, <2>3
  <2> QED
    BY <2>1, <2>2, <2>3
<1>9. ASSUME NEW t \in all, NEW p \in PartsIn(mode, t)
      PROVE  \E l \in items' : l.tab = t /\ l.part = p
  <2>1. CASE p \in read(t)
    <3>1. PICK l \in clean[t] : l.part = p
      BY <2>1
    <3>2. l \in items' /\ l.tab = t
      BY <1>5, <1>6
    <3> QED
      BY <3>1, <3>2
  <2>2. CASE p \notin read(t)
    <3> DEFINE l == Load(t, p, NoPlace, 0, FALSE)
    <3>1. l.tab = t /\ l.part = p
      BY DEF Load
    <3>2. p \in Parts(t)
      BY PartsType
    <3>3. l \in empty(t)
      BY <2>2, <3>2
    <3>4. l \in items'
      BY <1>5, <3>3
    <3> QED
      BY <3>1, <3>4
  <2> QED
    BY <2>1, <2>2
<1> HIDE DEF empty, read
<1> QED
  BY <1>2, <1>3, <1>4, <1>5, <1>8, <1>9

LEMMA RestartKeeps ==
    ASSUME LegacyTypeOK, NEW disk \in DiskType, FitsOn(disk), RestartOver(disk),
           ~spoiled /\ ~mixed' /\ ~misfiled' => Uniform(disk),
           signature' \in Orders \cup {<<>>}, ~cancel', cancel' \in BOOLEAN, mainPages' = {},
           selected' \in BOOLEAN, mode = "OAUTH" => ~selected'
    PROVE  WInv'
<1> DEFINE all == TabsOn(disk)
<1>1. /\ stored' \in DiskType /\ stored'.tabs = disk.tabs
      /\ \A t \in Tabs : stored'.items[t] \subseteq disk.items[t]
      /\ \A t \in all : stored'.items[t] = disk.items[t]
      /\ all \subseteq Tabs
  BY Reread
<1>2. \A l \in items' :
         /\ l \in Loads /\ l.tab \in all /\ l.part \in PartsIn(mode, l.tab)
         /\ l.gen <= update
         /\ \/ l \in disk.items[l.tab]
            \/ /\ l = Load(l.tab, l.part, NoPlace, 0, FALSE)
               /\ \A m \in disk.items[l.tab] : m.part # l.part
  BY Reread
<1>3. \A t \in all :
         /\ disk.items[t] \subseteq items'
         /\ \A p \in PartsIn(mode, t) : \E l \in items' : l.tab = t /\ l.part = p
  BY Reread
<1>4. /\ updating' = FALSE /\ need' = None /\ has' = None
      /\ tabs' = [t \in Tabs |-> IF t \in all THEN 1 ELSE 0] /\ index' = all
      /\ queue' = <<>> /\ needed' = Zero /\ received' = Zero
      /\ calls' = <<>> /\ known' = {} /\ wire' = <<>>
      /\ shown' = [tabs |-> all, items |-> items']
      /\ misfiled' = (misfiled \/ \E l \in items' : l.of # l.tab)
      /\ mixed' = (mixed \/ (spoiled /\ ~Uniform(stored'))) /\ spoiled' = FALSE
      /\ unread' = {} /\ lastBad' = FALSE
      /\ mode' = mode /\ order' = order /\ world' = world /\ changes' = changes
      /\ update' = update
  BY DEF RestartOver, TabsOn, gameVars
<1> HIDE DEF all
<1>5. /\ Sent' = {} /\ Pending' = {}
      /\ \A kind \in Kinds : ~need'[kind] /\ ~has'[kind]
  BY <1>4, NothingIn DEF Sent, Pending, None
<1>6. Stored' = all
  BY <1>1 DEF Stored, TabsOn, all
<1>7. LegacyTypeOK'
  <2>1. stored' \in [tabs : [Kinds -> SUBSET Tabs], items : [Tabs -> SUBSET Loads]]
    BY <1>1 DEF DiskType
  <2>2. shown' \in [tabs : SUBSET Tabs, items : SUBSET Loads] /\ items' \subseteq Loads
    BY <1>1, <1>2, <1>4
  <2>3. need' \in [Kinds -> BOOLEAN] /\ has' \in [Kinds -> BOOLEAN]
        /\ needed' \in [Kinds -> Nat] /\ received' \in [Kinds -> Nat]
        /\ tabs' \in [Tabs -> Nat] /\ index' \subseteq Tabs
    BY <1>1, <1>4 DEF None, Zero
  <2>4. /\ queue' \in Seq(Requests) /\ calls' \in Seq(Requests) /\ wire' \in Seq(Requests)
        /\ known' \subseteq Endpoints /\ updating' \in BOOLEAN
    BY <1>4, NothingIn
  <2>5. /\ mode' \in {"OAUTH", "LEGACY"} /\ order' \in Orders /\ world' \subseteq Tabs
        /\ world' \cap Stashes = Ids(order') /\ changes' \in Nat /\ update' \in Nat
    BY <1>4 DEF LegacyTypeOK, WorkerTypeOK
  <2>6. /\ spoiled' \in BOOLEAN /\ misfiled' \in BOOLEAN /\ mixed' \in BOOLEAN
        /\ unread' \subseteq Tabs /\ lastBad' \in BOOLEAN /\ mainPages' \subseteq 1..update'
    BY <1>4 DEF LegacyTypeOK, WorkerTypeOK
  <2> QED
    BY <2>1, <2>2, <2>3, <2>4, <2>5, <2>6 DEF LegacyTypeOK, WorkerTypeOK
<1>8. ~mixed' /\ ~misfiled' => Uniform(stored')
  <2>1. Uniform(disk) => Uniform(stored')
    BY <1>1 DEF Uniform
  <2> QED
    BY <1>4, <2>1 DEF LegacyTypeOK, WorkerTypeOK
<1>9. ASSUME NEW l \in items', l.full
      PROVE  l \in disk.items[l.tab] /\ l \in stored'.items[l.tab]
  <2>1. l \in disk.items[l.tab] /\ l.tab \in all
    BY <1>2, <1>9 DEF Load
  <2> QED
    BY <1>1, <2>1
<1>10. Always'
  <2>1. RequestsFit' /\ OAuthOnly'
    BY <1>4, <1>5, NothingIn DEF RequestsFit, OAuthOnly
  <2>2. LoadsFit'
    BY <1>2, <1>4 DEF LoadsFit, FitIn
  <2>3. StoredFits'
    BY <1>1, <1>4 DEF StoredFits, FitsOn
  <2>4. ShownIsStored'
    <3>1. shown'.tabs \subseteq Stored'
      BY <1>4, <1>6
    <3>2. ASSUME NEW l \in Full(shown'.items)
          PROVE  l \in stored'.items[l.tab] /\ l.gen >= l.gen
      <4>1. l \in items' /\ l.full
        BY <1>4 DEF Full
      <4>2. l.gen \in Nat
        BY <1>2, <4>1 DEF Loads
      <4> QED
        BY <1>9, <4>1, <4>2
    <3> QED
      BY <3>1, <3>2 DEF ShownIsStored
  <2>5. StoredUniform'
    BY <1>8 DEF StoredUniform
  <2> QED
    BY <2>1, <2>2, <2>3, <2>4, <2>5 DEF Always
<1>11. Sound'
  <2>1. Idle'
    BY <1>4, <1>5 DEF Idle
  <2>2. Net'
    BY <1>4, <1>5, NothingIn DEF Net, Lists, TabsAsked, Current, Separate, Apart
  <2>3. Index'
    BY <1>4, <1>5, KindIsKind DEF Index
  <2>4. Good(items)'
    <3>1. ListedIn(items)'
      BY <1>1, <1>2, <1>4 DEF ListedIn
    <3>2. OneSpotIn(items)'
      <4> SUFFICES ASSUME NEW l \in items', NEW m \in items', l.full, m.full, l.tab = m.tab
                   PROVE  SpotOf(l) = SpotOf(m)
        BY DEF OneSpotIn, Full
      <4>1. l \in disk.items[l.tab] /\ m \in disk.items[l.tab] /\ l.tab \in Tabs
        BY <1>1, <1>2, <1>9
      <4> QED
        BY <4>1 DEF FitsOn
    <3>3. NewerIn(items)'
      BY <1>4 DEF NewerIn, ItemsOf
    <3>4. UniqueIn(items)'
      <4> SUFFICES ASSUME NEW l \in items', NEW m \in items', l.tab = m.tab, Uniform(stored')
                   PROVE  (l.part = m.part => l = m) /\ (l.full /\ m.full => l.gen = m.gen)
        BY <1>8 DEF UniqueIn
      <4>1. l.tab \in Tabs /\ stored'.items[l.tab] = disk.items[l.tab]
        BY <1>1, <1>2
      <4>2. l.full /\ m.full => l.gen = m.gen
        BY <1>9, <4>1 DEF Uniform
      <4>3. ASSUME l.part = m.part PROVE l = m
        <5>1. CASE l \in disk.items[l.tab] /\ m \in disk.items[l.tab]
          BY <4>1, <4>3, <5>1 DEF Uniform
        <5>2. CASE l = Load(l.tab, l.part, NoPlace, 0, FALSE) /\ m = Load(m.tab, m.part, NoPlace, 0, FALSE)
          BY <4>3, <5>2
        <5> QED
          BY <1>2, <4>3, <5>1, <5>2
      <4> QED
        BY <4>2, <4>3
    <3> QED
      BY <3>1, <3>2, <3>3, <3>4 DEF Good
  <2>5. NotYet' /\ Signed'
    BY <1>5 DEF NotYet, Signed
  <2>6. Covered'
    BY <1>3, <1>4 DEF Covered
  <2>7. Waiting'
    BY <1>4, NothingIn DEF Waiting, Zero
  <2>8. OwnIn(items)'
    BY <1>4 DEF OwnIn
  <2> QED
    BY <2>1, <2>2, <2>3, <2>4, <2>5, <2>6, <2>7, <2>8 DEF Sound
<1> QED
  BY <1>7, <1>10, <1>11 DEF WInv


-----------------------------------------------------------------------------
(* What FinishUpdate writes. *)

\* A bounded set of numbers has a greatest.
LEMMA Greatest ==
    ASSUME NEW n \in Nat, NEW S \in SUBSET (0..n), S # {}
    PROVE  \E m \in S : \A x \in S : x <= m
<1> DEFINE T == {k \in Nat : n - k \in S}
<1>1. PICK x : x \in S
  OBVIOUS
<1>2. n - x \in T
  <2>1. x \in 0..n /\ n - x \in Nat /\ n - (n - x) = x
    BY <1>1
  <2> QED
    BY <1>1, <2>1
<1>3. T \subseteq Nat /\ T # {}
  BY <1>2
<1> HIDE DEF T
<1>4. PICK k \in T : \A j \in T : k <= j
  <2>1. PICK k \in T : \A j \in T : ~(<<j, k>> \in OpToRel(<, Nat))
    BY <1>3, NatLessThanWellFounded, WFMin
  <2>2. \A j \in T : ~(j < k)
    BY <1>3, <2>1 DEF OpToRel
  <2> QED
    BY <1>3, <2>2
<1>5. k \in Nat /\ n - k \in S
  BY <1>4 DEF T
<1>6. ASSUME NEW y \in S PROVE y <= n - k
  <2>1. y \in 0..n /\ n - y \in Nat /\ n - (n - y) = y
    OBVIOUS
  <2>2. n - y \in T
    BY <2>1 DEF T
  <2>3. k <= n - y
    BY <1>4, <2>2
  <2> QED
    BY <1>5, <2>1, <2>3
<1> QED
  BY <1>5, <1>6

\* A spot is filed under the tab of one of the loads that are there, and the spots of
\* two tabs are the same only if both are stash tabs.
LEMMA FiledSpot ==
    ASSUME NEW loads \in SUBSET Loads, NEW filing \in Filings(loads), NEW s \in Spots(loads)
    PROVE  /\ filing[s] \in Tabs
           /\ \E m \in Full(loads) : m.tab = filing[s] /\ SpotOf(m) = s
BY DEF Filings, TabsAt

LEMMA SpotPlace ==
    ASSUME NEW l \in Loads, NEW m \in Loads, SpotOf(l) = SpotOf(m)
    PROVE  l.tab = m.tab \/ (l.tab \in Stashes /\ m.tab \in Stashes /\ l.at = m.at)
BY DEF SpotOf

LEMMA BeforeSame ==
    ASSUME NEW l \in Loads, NEW m \in Loads
    PROVE  /\ ~Before(SpotOf(l), SpotOf(l))
           /\ l.tab = m.tab /\ ~Before(SpotOf(l), SpotOf(m)) /\ ~Before(SpotOf(m), SpotOf(l))
                 => SpotOf(l) = SpotOf(m)
           /\ l.tab = m.tab /\ m.at <= l.at => ~Before(SpotOf(l), SpotOf(m))
<1>1. l.at \in Nat /\ m.at \in Nat
  BY TabsFinite DEF Loads, Places
<1>2. CASE l.tab \in Stashes
  BY <1>1, <1>2 DEF SpotOf, Before
<1>3. CASE l.tab \notin Stashes
  BY <1>3 DEF SpotOf, Before
<1> QED
  BY <1>2, <1>3

\* A load that is saved under t was at a spot filed under t, and is there still.
LEMMA SavedOne ==
    ASSUME NEW loads \in SUBSET Loads, NEW filing \in Filings(loads),
           NEW spots \in SUBSET Spots(loads), NEW t \in Tabs,
           NEW l \in SavedItems(t, spots, loads, filing)
    PROVE  \E o \in Full(loads), m \in Full(loads) :
              /\ l = [o EXCEPT !.tab = t] /\ IsLastOf(t, SpotOf(o), spots, filing)
              /\ m.tab = t /\ SpotOf(m) = SpotOf(o) /\ SpotOf(l) = SpotOf(o)
              /\ l.tab = t /\ l.part = o.part /\ l.gen = o.gen /\ l.of = o.of /\ l.full = o.full
              /\ l \in Loads
              /\ o.tab = t \/ (o.tab \in Stashes /\ t \in Stashes)
<1>1. PICK o \in Full(loads) :
         l = [o EXCEPT !.tab = t] /\ IsLastOf(t, SpotOf(o), spots, filing)
  BY DEF SavedItems
<1>2. o \in Loads
  BY DEF Full
<1>3. SpotOf(o) \in Spots(loads) /\ filing[SpotOf(o)] = t
  BY <1>1 DEF IsLastOf
<1>4. PICK m \in Full(loads) : m.tab = t /\ SpotOf(m) = SpotOf(o)
  BY <1>3, FiledSpot
<1>5. m \in Loads
  BY DEF Full
<1>6. /\ l.tab = t /\ l.part = o.part /\ l.gen = o.gen /\ l.of = o.of /\ l.full = o.full
      /\ l.at = o.at /\ l \in Loads
  BY <1>1, <1>2 DEF Loads
<1>7. o.tab = t \/ (o.tab \in Stashes /\ t \in Stashes)
  BY <1>2, <1>4, <1>5, SpotPlace
<1>8. SpotOf(l) = SpotOf(o)
  BY <1>6, <1>7 DEF SpotOf
<1> QED
  BY <1>1, <1>4, <1>6, <1>7, <1>8

\* The loads of a tab that is written, if they are at one spot, are all saved.
LEMMA AllSaved ==
    ASSUME NEW loads \in SUBSET Loads, NEW filing \in Filings(loads),
           NEW spots \in SUBSET Spots(loads), NEW t \in Tabs, OneSpotIn(loads),
           \E s \in spots : filing[s] = t, NEW l \in Full(loads), l.tab = t
    PROVE  l \in SavedItems(t, spots, loads, filing)
<1>1. \A s \in spots : filing[s] = t => s = SpotOf(l)
  <2> SUFFICES ASSUME NEW s \in spots, filing[s] = t PROVE s = SpotOf(l)
    OBVIOUS
  <2>1. PICK m \in Full(loads) : m.tab = t /\ SpotOf(m) = s
    BY FiledSpot
  <2> QED
    BY <2>1 DEF OneSpotIn
<1>2. l \in Loads
  BY DEF Full
<1>3. ~Before(SpotOf(l), SpotOf(l))
  BY <1>2, BeforeSame
<1>4. IsLastOf(t, SpotOf(l), spots, filing)
  BY <1>1, <1>3 DEF IsLastOf
<1>5. l = [l EXCEPT !.tab = t]
  BY <1>2 DEF Loads
<1> QED
  BY <1>4, <1>5 DEF SavedItems

\* Something is saved under a tab that is written, be it at several spots.
LEMMA SomethingSaved ==
    ASSUME NEW loads \in SUBSET Loads, NEW filing \in Filings(loads),
           NEW spots \in SUBSET Spots(loads), NEW t \in Tabs,
           \E s \in spots : filing[s] = t
    PROVE  SavedItems(t, spots, loads, filing) # {}
<1> DEFINE At == {m \in Full(loads) : m.tab = t /\ SpotOf(m) \in spots /\ filing[SpotOf(m)] = t}
           Ats == {m.at : m \in At}
<1>1. At # {} /\ \A m \in At : m \in Loads
  BY FiledSpot DEF Full
<1>2. Ats # {} /\ Ats \in SUBSET Places
  BY <1>1 DEF Loads
<1> HIDE DEF Ats
<1>3. PICK a \in Ats : \A x \in Ats : x <= a
  BY <1>2, Greatest, TabsFinite DEF Places
<1>4. PICK o \in At : o.at = a
  BY <1>3 DEF Ats
<1>5. \A b \in spots : filing[b] = t => ~Before(SpotOf(o), b)
  <2> SUFFICES ASSUME NEW b \in spots, filing[b] = t PROVE ~Before(SpotOf(o), b)
    OBVIOUS
  <2>1. PICK m \in Full(loads) : m.tab = t /\ SpotOf(m) = b
    BY FiledSpot
  <2>2. m \in At /\ m.at \in Ats
    BY <2>1 DEF Ats
  <2>3. m.at <= o.at
    BY <1>3, <1>4, <2>2
  <2> QED
    BY <1>1, <1>4, <2>1, <2>2, <2>3, BeforeSame
<1>6. IsLastOf(t, SpotOf(o), spots, filing)
  BY <1>4, <1>5 DEF IsLastOf
<1> QED
  BY <1>4, <1>6 DEF SavedItems

LEMMA DiskFits ==
    ASSUME LegacyTypeOK, StoredFits, NEW loads \in SUBSET Loads, FitIn(loads),
           NEW filing \in Filings(loads), NEW spots \in SUBSET Spots(loads),
           NEW kinds \in SUBSET Kinds
    PROVE  /\ Disk(kinds, spots, loads, filing) \in DiskType
           /\ FitsOn(Disk(kinds, spots, loads, filing))
<1> DEFINE disk == Disk(kinds, spots, loads, filing)
           Saved(t) == SavedItems(t, spots, loads, filing)
<1>1. ASSUME NEW t \in Tabs, NEW m \in Saved(t)
      PROVE  IsLastOf(t, SpotOf(m), spots, filing) /\ m.tab = t /\ m \in Loads
  <2>1. PICK o \in Full(loads) :
           /\ IsLastOf(t, SpotOf(o), spots, filing) /\ SpotOf(m) = SpotOf(o)
           /\ m.tab = t /\ m.part = o.part /\ m.gen = o.gen /\ m.full = o.full /\ m \in Loads
           /\ o.tab = t \/ (o.tab \in Stashes /\ t \in Stashes)
    BY <1>1, SavedOne, SMTT(60)
  <2> QED
    BY <2>1
<1>2. ASSUME NEW t \in Tabs, NEW l \in Saved(t)
      PROVE  /\ l \in Loads /\ l.tab = t /\ l.full /\ l.gen <= update
             /\ l.part \in PartsIn(mode, t) /\ \A m \in Saved(t) : SpotOf(m) = SpotOf(l)
  <2>1. PICK o \in Full(loads) :
           /\ IsLastOf(t, SpotOf(o), spots, filing) /\ SpotOf(l) = SpotOf(o)
           /\ l.tab = t /\ l.part = o.part /\ l.gen = o.gen /\ l.full = o.full /\ l \in Loads
           /\ o.tab = t \/ (o.tab \in Stashes /\ t \in Stashes)
    BY <1>2, SavedOne
  <2>2. PartsIn(mode, o.tab) = PartsIn(mode, t)
    BY <2>1, TabsKinds DEF PartsIn
  <2>3. l.full /\ l.gen <= update /\ l.part \in PartsIn(mode, t)
    BY <2>1, <2>2 DEF FitIn, Full
  <2>4. ASSUME NEW m \in Saved(t) PROVE SpotOf(m) = SpotOf(l)
    <3>1. /\ IsLastOf(t, SpotOf(m), spots, filing) /\ m.tab = t /\ m \in Loads
      BY <1>1, <2>4
    <3>2. ~Before(SpotOf(l), SpotOf(m)) /\ ~Before(SpotOf(m), SpotOf(l))
      BY <2>1, <3>1 DEF IsLastOf
    <3> QED
      BY <2>1, <3>1, <3>2, BeforeSame
  <2> QED
    BY <2>1, <2>3, <2>4
<1>3. /\ stored.tabs \in [Kinds -> SUBSET Tabs] /\ stored.items \in [Tabs -> SUBSET Loads]
      /\ \A kind : SavedTabs(kind) \subseteq Tabs \/ SavedTabs(kind) = stored.tabs[kind]
  BY DEF LegacyTypeOK, WorkerTypeOK, SavedTabs, Listed
<1>4. /\ disk.tabs = [kind \in Kinds |-> IF kind \in kinds THEN SavedTabs(kind) ELSE stored.tabs[kind]]
      /\ disk.items = [t \in Tabs |-> IF \E s \in spots : filing[s] = t
                                      THEN Saved(t) ELSE stored.items[t]]
      /\ disk = [tabs |-> disk.tabs, items |-> disk.items]
  BY DEF Disk
<1> HIDE DEF disk, Saved
<1>5. disk.tabs \in [Kinds -> SUBSET Tabs]
  BY <1>3, <1>4
<1>6. disk.items \in [Tabs -> SUBSET Loads]
  BY <1>2, <1>3, <1>4
<1>7. disk \in DiskType
  BY <1>4, <1>5, <1>6 DEF DiskType
<1>8. FitsOn(disk)
  <2> SUFFICES ASSUME NEW t \in Tabs, NEW l \in disk.items[t]
               PROVE  /\ l.tab = t /\ l.full /\ l.gen <= update /\ l.part \in PartsIn(mode, t)
                      /\ \A m \in disk.items[t] : SpotOf(m) = SpotOf(l)
    BY DEF FitsOn
  <2>1. CASE \E s \in spots : filing[s] = t
    <3>1. disk.items[t] = Saved(t)
      BY <1>4, <2>1
    <3> QED
      BY <1>2, <3>1
  <2>2. CASE ~ \E s \in spots : filing[s] = t
    <3>1. disk.items[t] = stored.items[t]
      BY <1>4, <2>2
    <3> QED
      BY <3>1 DEF StoredFits, FitsOn
  <2> QED
    BY <2>1, <2>2
<1> QED
  BY <1>7, <1>8 DEF disk

\* If nothing is saved under another tab, no tab has items of two updates.
LEMMA DiskUniform ==
    ASSUME NEW loads \in SUBSET Loads, NEW filing \in Filings(loads),
           NEW spots \in SUBSET Spots(loads), NEW kinds \in SUBSET Kinds,
           Uniform(stored), UniqueIn(loads), ~mixed, ~misfiled,
           \A t \in Tabs, o \in Full(loads) :
              IsLastOf(t, SpotOf(o), spots, filing) => o.tab = t
    PROVE  Uniform(Disk(kinds, spots, loads, filing))
<1> DEFINE disk == Disk(kinds, spots, loads, filing)
<1>1. ASSUME NEW t \in Tabs, NEW l \in SavedItems(t, spots, loads, filing)
      PROVE  l \in Full(loads) /\ l.tab = t
  <2>1. PICK o \in Full(loads) :
           l = [o EXCEPT !.tab = t] /\ IsLastOf(t, SpotOf(o), spots, filing)
    BY <1>1 DEF SavedItems
  <2>2. o.tab = t /\ o \in Loads
    BY <2>1 DEF Full
  <2>3. [o EXCEPT !.tab = t] = o
    BY <2>2 DEF Loads
  <2> QED
    BY <2>1, <2>2, <2>3
<1>2. \A t \in Tabs : disk.items[t] = IF \E s \in spots : filing[s] = t
                                      THEN SavedItems(t, spots, loads, filing) ELSE stored.items[t]
  BY DEF Disk
<1> HIDE DEF disk
<1>3. ASSUME NEW t \in Tabs, NEW l \in disk.items[t], NEW m \in disk.items[t]
      PROVE  l.gen = m.gen /\ (l.part = m.part => l = m)
  <2>1. CASE \E s \in spots : filing[s] = t
    <3>1. l \in Full(loads) /\ m \in Full(loads) /\ l.tab = m.tab
      BY <1>1, <1>2, <1>3, <2>1
    <3> QED
      BY <3>1 DEF UniqueIn, Full
  <2>2. CASE ~ \E s \in spots : filing[s] = t
    BY <1>2, <1>3, <2>2 DEF Uniform
  <2> QED
    BY <2>1, <2>2
<1> QED
  BY <1>3 DEF Uniform, disk


\* What was shown of a tab is still on the disk, or something newer is written over it.
LEMMA ShownIsWritten ==
    ASSUME WInv, NEW loads \in SUBSET Loads, ~spoiled => Good(loads), ~misfiled,
           NEW filing \in Filings(loads), NEW spots \in SUBSET Spots(loads),
           NEW kinds \in SUBSET Kinds, NEW l \in Full(shown.items)
    PROVE  \E m \in Disk(kinds, spots, loads, filing).items[l.tab] : spoiled \/ m.gen >= l.gen
<1> DEFINE t == l.tab
           disk == Disk(kinds, spots, loads, filing)
<1>1. l \in Loads /\ t \in Tabs /\ l.gen \in Nat /\ update \in Nat /\ l.gen <= update
  BY DEF WInv, LegacyTypeOK, WorkerTypeOK, Full, Loads, Always, LoadsFit, FitIn
<1>2. disk.items[t] = IF \E s \in spots : filing[s] = t
                      THEN SavedItems(t, spots, loads, filing) ELSE stored.items[t]
  BY <1>1 DEF Disk
<1>3. l \in ItemsOf(t, shown.items) /\ l.full
  BY DEF ItemsOf, Full
<1> HIDE DEF t, disk
<1>4. CASE ~ \E s \in spots : filing[s] = t
  <2>1. \E m \in stored.items[t] : spoiled \/ m.gen >= l.gen
    BY DEF WInv, Always, ShownIsStored, t
  <2> QED
    BY <1>2, <1>4, <2>1 DEF t, disk
<1>5. CASE (\E s \in spots : filing[s] = t) /\ spoiled
  <2>1. SavedItems(t, spots, loads, filing) # {}
    BY <1>1, <1>5, SomethingSaved
  <2> QED
    BY <1>2, <1>5, <2>1 DEF t, disk
<1>6. CASE (\E s \in spots : filing[s] = t) /\ ~spoiled
  <2>1. OneSpotIn(loads) /\ NewerIn(loads)
    BY <1>6 DEF Good
  <2>2. \A m \in Full(loads) : m.tab = t => m \in disk.items[t]
    BY <1>1, <1>2, <1>6, <2>1, AllSaved
  <2>3. PICK m \in Full(loads) : m.tab = t
    BY <1>6, FiledSpot
  <2>4. CASE ItemsOf(t, shown.items) \subseteq loads
    <3>1. l \in Full(loads) /\ l.tab = t
      BY <1>3, <2>4 DEF Full, t
    <3>2. l.gen >= l.gen
      BY <1>1
    <3> QED
      BY <2>2, <3>1, <3>2 DEF t, disk
  <2>5. CASE \A o \in loads : o.tab = t => o.gen = update
    <3>1. m.gen = update /\ m.gen >= l.gen
      BY <1>1, <2>3, <2>5 DEF Full
    <3> QED
      BY <2>2, <2>3, <3>1 DEF t, disk
  <2> QED
    BY <1>1, <2>1, <2>4, <2>5 DEF NewerIn
<1> QED
  BY <1>4, <1>5, <1>6

\* What RestartLosesNothing says of a step that starts the program again.
LosesNothing ==
    ~misfiled' =>
        /\ \A l \in Full(shown.items) :
              l.tab \in shown'.tabs =>
                  \E m \in Full(shown'.items) : m.tab = l.tab /\ (spoiled \/ m.gen >= l.gen)
        /\ ~spoiled /\ ~mixed =>
              \A l, m \in Full(shown'.items) : l.tab = m.tab => l.gen = m.gen
        /\ stored'.tabs = stored.tabs => shown.tabs \subseteq shown'.tabs

LEMMA RestartShows ==
    ASSUME WInv, NEW disk \in DiskType, FitsOn(disk), RestartOver(disk),
           ~spoiled /\ ~mixed' /\ ~misfiled' => Uniform(disk),
           ~misfiled' => \A l \in Full(shown.items) :
                            \E m \in disk.items[l.tab] : spoiled \/ m.gen >= l.gen
    PROVE  LosesNothing
<1> SUFFICES ASSUME ~misfiled' PROVE LosesNothing
  BY DEF LosesNothing
<1>1. LegacyTypeOK /\ shown.tabs \subseteq Stored
  BY DEF WInv, Always, ShownIsStored
<1>2. /\ stored'.tabs = disk.tabs /\ TabsOn(disk) \subseteq Tabs
      /\ \A l \in items' : /\ l.tab \in TabsOn(disk)
                           /\ \/ l \in disk.items[l.tab]
                              \/ l = Load(l.tab, l.part, NoPlace, 0, FALSE)
      /\ \A t \in TabsOn(disk) : disk.items[t] \subseteq items'
  BY <1>1, Reread
<1>3. /\ shown'.tabs = TabsOn(disk) /\ shown'.items = items'
      /\ mixed' = (mixed \/ (spoiled /\ ~Uniform(stored')))
  BY DEF RestartOver, TabsOn
<1>4. ASSUME NEW l \in Full(shown.items), l.tab \in shown'.tabs
      PROVE  \E m \in Full(shown'.items) : m.tab = l.tab /\ (spoiled \/ m.gen >= l.gen)
  <2>1. PICK m \in disk.items[l.tab] : spoiled \/ m.gen >= l.gen
    OBVIOUS
  <2>2. m \in items' /\ m.tab = l.tab /\ m.full
    BY <1>2, <1>3, <1>4, <2>1 DEF FitsOn
  <2> QED
    BY <1>3, <2>1, <2>2 DEF Full
<1>5. ASSUME ~spoiled, ~mixed, NEW l \in Full(shown'.items), NEW m \in Full(shown'.items),
             l.tab = m.tab
      PROVE  l.gen = m.gen
  <2>1. Uniform(disk)
    BY <1>3, <1>5
  <2>2. \A o \in Full(shown'.items) : o.tab \in Tabs /\ o \in disk.items[o.tab]
    BY <1>2, <1>3 DEF Full, Load
  <2> QED
    BY <1>5, <2>1, <2>2 DEF Uniform
<1>6. stored'.tabs = stored.tabs => shown.tabs \subseteq shown'.tabs
  BY <1>1, <1>2, <1>3 DEF Stored, TabsOn
<1> QED
  BY <1>4, <1>5, <1>6 DEF LosesNothing

\* A restart forgets the legacy mode's variables, and the OAuth mode has none.
Fresh ==
    /\ signature' \in Orders \cup {<<>>} /\ cancel' = FALSE /\ mainPages' = {}
    /\ selected' \in BOOLEAN /\ (mode = "OAUTH" => ~selected')

LEMMA RestartHolds ==
    ASSUME WInv, Restart, Fresh
    PROVE  WInv' /\ LosesNothing
<1>1. LegacyTypeOK /\ stored \in DiskType /\ FitsOn(stored)
  BY DEF WInv, LegacyTypeOK, WorkerTypeOK, DiskType, Always, StoredFits
<1>2. /\ ~misfiled' => ~misfiled
      /\ ~mixed' => ~mixed
  BY DEF Restart, RestartOver
<1>3. ~spoiled /\ ~mixed' /\ ~misfiled' => Uniform(stored)
  BY <1>2 DEF WInv, Always, StoredUniform
<1>4. ~misfiled' => \A l \in Full(shown.items) :
                       \E m \in stored.items[l.tab] : spoiled \/ m.gen >= l.gen
  BY <1>2 DEF WInv, Always, ShownIsStored
<1>5. WInv'
  BY <1>1, <1>3, RestartKeeps DEF Restart, Fresh
<1>6. LosesNothing
  BY <1>1, <1>3, <1>4, RestartShows DEF Restart
<1> QED
  BY <1>5, <1>6

LEMMA CrashHolds ==
    ASSUME WInv, NEW loads \in SUBSET Loads, FitIn(loads),
           ~spoiled => Good(loads) /\ OwnIn(loads), CrashAmidWrites(loads), Fresh
    PROVE  WInv' /\ LosesNothing
<1>1. PICK filing \in Filings(loads) :
        \/ RestartOver(Disk({"stash"}, {}, loads, filing))
        \/ \E spots \in SUBSET Spots(loads) : RestartOver(Disk(Kinds, spots, loads, filing))
  BY DEF CrashAmidWrites
<1>2. PICK kinds \in SUBSET Kinds, spots \in SUBSET Spots(loads) :
         /\ kinds = Kinds \/ spots = {}
         /\ RestartOver(Disk(kinds, spots, loads, filing))
  BY <1>1 DEF Kinds
<1> DEFINE disk == Disk(kinds, spots, loads, filing)
<1>3. LegacyTypeOK /\ StoredFits
  BY DEF WInv, Always
<1>4. disk \in DiskType /\ FitsOn(disk)
  BY <1>3, DiskFits
<1>5. RestartOver(disk)
  BY <1>2
<1> HIDE DEF disk
<1>6. /\ misfiled' = (misfiled \/ \E l \in items' : l.of # l.tab)
      /\ ~mixed' => ~mixed
  BY <1>5 DEF RestartOver
<1>7. ASSUME ~spoiled, ~misfiled', NEW t \in Tabs, NEW o \in Full(loads),
             IsLastOf(t, SpotOf(o), spots, filing)
      PROVE  o.tab = t
  <2>1. o \in Loads /\ o \in loads
    BY DEF Full
  <2>2. SpotOf(o) \in spots /\ filing[SpotOf(o)] = t
    BY <1>7 DEF IsLastOf
  <2>3. PICK m \in Full(loads) : m.tab = t
    BY <2>2, FiledSpot
  <2>4. t \in Listed(tabs)
    BY <1>7, <2>3 DEF Good, ListedIn, Full, Listed
  <2>5. t \in disk.tabs[KindOf(t)]
    <3>1. kinds = Kinds /\ KindOf(t) \in Kinds
      BY <1>2, <2>2, KindIsKind
    <3> QED
      BY <2>4, <3>1 DEF disk, Disk, SavedTabs
  <2>6. t \in TabsOn(disk)
    BY <2>5 DEF TabsOn, KindOf
  <2> DEFINE l == [o EXCEPT !.tab = t]
  <2>7. l \in SavedItems(t, spots, loads, filing)
    BY <1>7 DEF SavedItems
  <2>8. disk.items[t] = SavedItems(t, spots, loads, filing)
    BY <2>2 DEF disk, Disk
  <2>9. l.of = o.of /\ l.tab = t
    BY <2>1 DEF Loads
  <2> HIDE DEF l
  <2>10. l \in items'
    <3>1. disk.items[t] \subseteq items'
      BY <1>3, <1>4, <1>5, <2>6, Reread
    <3> QED
      BY <2>7, <2>8, <3>1
  <2>11. o.of = t
    BY <1>6, <1>7, <2>9, <2>10
  <2> QED
    BY <1>6, <1>7, <2>1, <2>11 DEF OwnIn
<1>8. ~spoiled /\ ~mixed' /\ ~misfiled' => Uniform(disk)
  <2> SUFFICES ASSUME ~spoiled, ~mixed', ~misfiled' PROVE Uniform(disk)
    OBVIOUS
  <2>1. ~mixed /\ ~misfiled /\ UniqueIn(loads)
    BY <1>6 DEF Good
  <2>2. Uniform(stored)
    BY <2>1 DEF WInv, Always, StoredUniform
  <2>3. \A t \in Tabs, o \in Full(loads) : IsLastOf(t, SpotOf(o), spots, filing) => o.tab = t
    BY <1>7
  <2> QED
    BY <2>1, <2>2, <2>3, DiskUniform DEF disk
<1>9. ~misfiled' => \A l \in Full(shown.items) :
                       \E m \in disk.items[l.tab] : spoiled \/ m.gen >= l.gen
  BY <1>6, ShownIsWritten DEF disk
<1>10. WInv'
  BY <1>3, <1>4, <1>5, <1>8, RestartKeeps DEF Fresh
<1>11. LosesNothing
  BY <1>4, <1>5, <1>8, <1>9, RestartShows
<1> QED
  BY <1>10, <1>11


-----------------------------------------------------------------------------
(* Requests that are not for a tab are submitted, and replies come in. *)

\* The requests of q are not among those that are under way or in the queue z.
Unlike(q, stack, w, z) ==
    /\ Separate(stack, w, z) /\ Single(q)
    /\ Apart(ToSet(stack) \cup ToSet(w), ToSet(q)) /\ Apart(ToSet(q), ToSet(z))

LEMMA NoTabSubmit ==
    ASSUME NEW q \in Seq(Requests), NEW n \in 0..Len(q),
           NEW w \in Seq(Requests), NEW stack \in Seq(Requests),
           Submit(q, n, w, stack)
    PROVE  /\ wire' \in Seq(Requests) /\ calls' \in Seq(Requests)
           /\ ToSet(w) \subseteq ToSet(wire') /\ ToSet(wire') \subseteq ToSet(w) \cup ToSet(q)
           /\ ToSet(stack) \subseteq ToSet(calls')
           /\ ToSet(calls') \subseteq ToSet(stack) \cup ToSet(q)
           /\ \A z : Unlike(q, stack, w, z) => Separate(calls', wire', z)
<1>1. /\ wire' \in Seq(Requests) /\ calls' \in Seq(Requests)
      /\ ToSet(w) \subseteq ToSet(wire') /\ ToSet(wire') \subseteq ToSet(w) \cup ToSet(q)
      /\ ToSet(stack) \subseteq ToSet(calls')
      /\ ToSet(calls') \subseteq ToSet(stack) \cup ToSet(q)
  BY SubmitKeeps
<1>2. Separate(stack, w, q) => Separate(calls', wire', SubSeq(q, n + 2, Len(q)))
  BY SubmitKeeps
<1>3. ASSUME NEW z, Unlike(q, stack, w, z) PROVE Separate(calls', wire', z)
  <2>1. Separate(stack, w, q)
    BY <1>3 DEF Separate, Unlike
  <2>2. Single(calls') /\ Single(wire') /\ Apart(ToSet(calls'), ToSet(wire'))
    BY <1>2, <2>1 DEF Separate
  <2>3. Apart(ToSet(calls') \cup ToSet(wire'), ToSet(z))
    BY <1>1, <1>3 DEF Separate, Apart, Unlike
  <2> QED
    BY <1>3, <2>2, <2>3 DEF Separate, Unlike
<1> QED
  BY <1>1, <1>3

LEMMA NoTabCounted ==
    ASSUME NEW q \in Seq(Requests), NEW n \in 0..Len(q),
           NEW w \in Seq(Requests), NEW stack \in Seq(Requests),
           Submit(q, n, w, stack), \A r \in ToSet(q) : r.tab \notin Tabs, NEW kind \in Kinds
    PROVE  Asked(calls', kind) + Asked(wire', kind) = Asked(stack, kind) + Asked(w, kind)
<1> DEFINE a == GoOut(q, n)
           b == Waits(q, n)
           c == Later(q, n)
           taken == SubSeq(q, 1, Counted(q, n))
<1>1. /\ a \in Seq(Requests) /\ b \in Seq(Requests) /\ c \in Seq(Requests)
      /\ q = (a \o b) \o c /\ taken = a \o b
  BY Cut
<1>2. Asked(calls', kind) + Asked(wire', kind)
               = Asked(stack, kind) + Asked(w, kind) + Asked(taken, kind)
  BY SubmitKeeps
<1> HIDE DEF a, b, c, taken
<1>3. taken \in Seq(Requests)
  BY <1>1, Joined
<1>4. ToSet(taken) \subseteq ToSet(q)
  BY <1>1, <1>3, JoinedSet, ZenonT(60)
<1>5. \A r \in ToSet(taken) : r.tab \notin Tabs
  BY <1>4
<1>6. Asked(taken, kind) = 0
  BY <1>3, <1>5, AskedNone
<1>7. Asked(stack, kind) \in Nat /\ Asked(w, kind) \in Nat
  BY AskedType
<1> QED
  BY <1>2, <1>6, <1>7

\* A list of one request, or of none.
LEMMA OneOrNone ==
    ASSUME NEW r \in Requests
    PROVE  /\ <<r>> \in Seq(Requests) /\ ToSet(<<r>>) = {r} /\ Single(<<r>>) /\ Len(<<r>>) = 1
           /\ <<>> \in Seq(Requests) /\ ToSet(<<>>) = {} /\ Single(<<>>) /\ Len(<<>>) = 0
<1>1. DOMAIN <<r>> = {1} /\ <<r>>[1] = r
  OBVIOUS
<1>2. ToSet(<<r>>) = {r} /\ Single(<<r>>)
  BY <1>1 DEF ToSet, Single
<1> QED
  BY <1>2, NothingIn

\* Nothing is asked for when the k-th request is answered, or the selected character.
AfterAnswer(k) ==
    /\ wire' \in Seq(Requests) /\ calls' \in Seq(Requests)
    /\ ToSet(Rest(k)) \subseteq ToSet(wire') /\ ToSet(calls) \subseteq ToSet(calls')
    /\ \A r \in Sent' :
          \/ r \in ToSet(calls) \cup ToSet(Rest(k))
          \/ mode = "LEGACY" /\ r = SelectedRequest
    /\ Separate(calls, Rest(k), queue) => Separate(calls', wire', queue)
    /\ \A kind \in Kinds :
          Asked(calls', kind) + Asked(wire', kind) = Asked(calls, kind) + Asked(Rest(k), kind)

LEMMA NothingMoreIs ==
    ASSUME LegacyTypeOK, NEW k \in DOMAIN wire, wire' = Rest(k), calls' = calls
    PROVE  AfterAnswer(k)
<1>1. calls \in Seq(Requests) /\ wire \in Seq(Requests)
  BY DEF LegacyTypeOK, WorkerTypeOK
<1>2. Rest(k) \in Seq(Requests)
  BY <1>1, RemovedOne DEF Rest
<1> QED
  BY <1>1, <1>2 DEF AfterAnswer, Sent

LEMMA PreserveIs ==
    ASSUME LegacyTypeOK, NEW k \in DOMAIN wire, mode = "LEGACY", PreserveSelectedCharacter(k)
    PROVE  AfterAnswer(k)
<1>1. calls \in Seq(Requests) /\ wire \in Seq(Requests) /\ queue \in Seq(Requests)
  BY DEF LegacyTypeOK, WorkerTypeOK
<1>2. Rest(k) \in Seq(Requests)
  BY <1>1, RemovedOne DEF Rest
<1>3. SelectedRequest \in Requests /\ SelectedRequest.tab = "selected"
  BY RequestTypes DEF LegacyTypeOK, WorkerTypeOK, SelectedRequest
<1> DEFINE list == IF selected THEN <<SelectedRequest>> ELSE <<>>
<1>4. PICK n \in 0..Len(list) : Submit(list, n, Rest(k), calls)
  BY DEF PreserveSelectedCharacter
<1>5. list \in Seq(Requests) /\ ToSet(list) \subseteq {SelectedRequest} /\ Single(list)
  BY <1>3, OneOrNone
<1> HIDE DEF list
<1>6. \A r \in ToSet(list) : r.tab \notin Tabs /\ r.tab = "selected" /\ r = SelectedRequest
  BY <1>3, <1>5, TabsKinds
<1>7. \A S : Apart(S, ToSet(list)) /\ Apart(ToSet(list), S)
  BY <1>6 DEF Apart, Twin
<1>8. \A r \in ToSet(list) : r.tab \notin Tabs
  BY <1>6
<1>9. /\ wire' \in Seq(Requests) /\ calls' \in Seq(Requests)
      /\ ToSet(Rest(k)) \subseteq ToSet(wire')
      /\ ToSet(wire') \subseteq ToSet(Rest(k)) \cup ToSet(list)
      /\ ToSet(calls) \subseteq ToSet(calls')
      /\ ToSet(calls') \subseteq ToSet(calls) \cup ToSet(list)
      /\ \A kind \in Kinds :
            Asked(calls', kind) + Asked(wire', kind) = Asked(calls, kind) + Asked(Rest(k), kind)
  <2> DEFINE w == Rest(k)
  <2>1. w \in Seq(Requests) /\ Submit(list, n, w, calls)
    BY <1>2, <1>4
  <2> HIDE DEF w
  <2>2. /\ wire' \in Seq(Requests) /\ calls' \in Seq(Requests)
        /\ ToSet(w) \subseteq ToSet(wire') /\ ToSet(wire') \subseteq ToSet(w) \cup ToSet(list)
        /\ ToSet(calls) \subseteq ToSet(calls')
        /\ ToSet(calls') \subseteq ToSet(calls) \cup ToSet(list)
    BY <1>1, <1>5, <2>1, NoTabSubmit
  <2>3. \A kind \in Kinds :
            Asked(calls', kind) + Asked(wire', kind) = Asked(calls, kind) + Asked(w, kind)
    BY <1>1, <1>5, <1>8, <2>1, NoTabCounted, SMTT(60)
  <2> QED
    BY <2>2, <2>3 DEF w
<1>10. Separate(calls, Rest(k), queue) => Separate(calls', wire', queue)
  <2>1. Separate(calls, Rest(k), queue) => Unlike(list, calls, Rest(k), queue)
    BY <1>5, <1>7 DEF Unlike
  <2> QED
    BY <1>1, <1>2, <1>4, <1>5, <2>1, NoTabSubmit
<1> QED
  BY <1>6, <1>9, <1>10 DEF AfterAnswer, Sent

\* What the reply to the k-th request leaves, of the requests.
LEMMA TakenOff ==
    ASSUME LegacyTypeOK, NEW k \in DOMAIN wire
    PROVE  /\ wire[k] \in Requests /\ wire[k] \in Sent /\ wire[k] \in Pending
           /\ Rest(k) \in Seq(Requests)
           /\ ToSet(wire) = ToSet(Rest(k)) \cup {wire[k]}
           /\ Separate(calls, wire, queue) =>
                 /\ Separate(calls, Rest(k), queue)
                 /\ \A s \in ToSet(calls) \cup ToSet(Rest(k)) \cup ToSet(queue) : ~Twin(wire[k], s)
           /\ \A kind \in Kinds :
                 Asked(wire, kind) = Asked(Rest(k), kind) + IF OfKind(wire[k], kind) THEN 1 ELSE 0
<1>1. wire \in Seq(Requests)
  BY DEF LegacyTypeOK, WorkerTypeOK
<1>2. /\ wire[k] \in Requests /\ Rest(k) \in Seq(Requests)
      /\ ToSet(wire) = ToSet(Rest(k)) \cup {wire[k]}
      /\ Single(wire) => Single(Rest(k)) /\ Apart({wire[k]}, ToSet(Rest(k)))
      /\ \A kind \in Kinds :
            Asked(wire, kind) = Asked(Rest(k), kind) + IF OfKind(wire[k], kind) THEN 1 ELSE 0
  BY <1>1, RemovedOne DEF Rest
<1>3. \A r, s : Twin(r, s) => Twin(s, r)
  BY DEF Twin
<1>4. Separate(calls, wire, queue) =>
         /\ Separate(calls, Rest(k), queue)
         /\ \A s \in ToSet(calls) \cup ToSet(Rest(k)) \cup ToSet(queue) : ~Twin(wire[k], s)
  BY <1>2, <1>3 DEF Separate, Apart
<1> QED
  BY <1>2, <1>4 DEF Sent, Pending


\* The load that a reply brings joins those that are there.
LEMMA LoadArrives ==
    ASSUME WInv, NEW k \in DOMAIN wire, wire[k].tab \in Tabs, NEW l \in Loads,
           l.tab = wire[k].tab, l.part = wire[k].endpoint, l.gen = wire[k].gen
    PROVE  /\ FitIn(items \cup {l}) /\ items \cup {l} \in SUBSET Loads
           /\ ~spoiled => Good(items \cup {l})
<1> DEFINE r == wire[k]
<1>1. r \in Pending
  BY TakenOff DEF WInv
<1>2. /\ items \subseteq Loads /\ RequestsFit /\ FitIn(items)
  BY DEF WInv, LegacyTypeOK, WorkerTypeOK, Always, LoadsFit
<1>3. l.gen <= update /\ l.part \in PartsIn(mode, l.tab)
  BY <1>1, <1>2 DEF RequestsFit
<1>4. FitIn(items \cup {l})
  BY <1>2, <1>3 DEF FitIn
<1>5. ASSUME ~spoiled PROVE Good(items \cup {l})
  <2>1. Net /\ Good(items) /\ NotYet
    BY <1>5 DEF WInv, Sound
  <2>2. r.tab # "selected"
    BY TabsKinds
  <2>3. tabs[l.tab] = 1 /\ l.gen = update
    BY <1>1, <2>1, <2>2 DEF Net, TabsAsked, Current
  <2>4. \A m \in items : m.tab = l.tab => m.part # l.part /\ m.gen = update
    BY <1>1, <2>1 DEF NotYet
  <2>5. \A m \in items : m.tab = l.tab => SpotOf(m) = SpotOf(l)
    <3> SUFFICES ASSUME NEW m \in items, m.tab = l.tab PROVE SpotOf(m) = SpotOf(l)
      OBVIOUS
    <3>1. CASE l.tab \in Stashes
      <4>1. PartsIn(mode, l.tab) = {"stash"}
        BY <3>1, TabsKinds DEF PartsIn
      <4>2. l.part = "stash" /\ m.part = "stash"
        BY <1>2, <1>3, <4>1 DEF FitIn
      <4> QED
        BY <2>4, <4>2
    <3>2. CASE l.tab \notin Stashes
      BY <3>2 DEF SpotOf
    <3> QED
      BY <3>1, <3>2
  <2>6. ListedIn(items \cup {l})
    BY <2>1, <2>3 DEF Good, ListedIn
  <2>7. OneSpotIn(items \cup {l})
    BY <2>1, <2>5 DEF Good, OneSpotIn, Full
  <2>8. NewerIn(items \cup {l})
    BY <2>1, <2>3 DEF Good, NewerIn
  <2>9. UniqueIn(items \cup {l})
    BY <2>1, <2>3, <2>4 DEF Good, UniqueIn
  <2> QED
    BY <2>6, <2>7, <2>8, <2>9 DEF Good
<1> QED
  BY <1>2, <1>4, <1>5

LEMMA CountType ==
    ASSUME LegacyTypeOK, NEW r \in Requests, r.tab \in Tabs
    PROVE  /\ Count(r) \in [Kinds -> Nat]
           /\ \A kind \in Kinds : Count(r)[kind] = received[kind] + IF OfKind(r, kind) THEN 1 ELSE 0
<1>1. received \in [Kinds -> Nat] /\ KindOf(r.tab) \in Kinds
  BY KindIsKind DEF LegacyTypeOK, WorkerTypeOK
<1> QED
  BY <1>1 DEF Count, OfKind

\* The parts of the invariant that speak of requests, after the reply for a tab, be it
\* its items or an error.
LEMMA AnswerKeeps ==
    ASSUME WInv, NEW k \in DOMAIN wire, wire[k].tab \in Tabs, AfterAnswer(k),
           received' = Count(wire[k]),
           UNCHANGED <<mode, update, need, has, tabs, index, queue, needed, mainPages, signature>>
    PROVE  /\ RequestsFit' /\ calls' \in Seq(Requests) /\ wire' \in Seq(Requests)
           /\ received' \in [Kinds -> Nat]
           /\ \A s \in Pending \ {wire[k]} : s \in Pending'
           /\ \A s \in Pending' : \/ s \in Pending /\ ~Twin(wire[k], s) /\ ~spoiled
                                  \/ spoiled
                                  \/ mode = "LEGACY" /\ s = SelectedRequest
           /\ ~spoiled => Index' /\ Waiting' /\ Signed' /\ updating
           /\ ~spoiled => Separate(calls', wire', queue')
           /\ ~spoiled /\ updating' => Net'
           /\ ~spoiled /\ IsLast(wire[k]) =>
                 /\ queue' = <<>> /\ mainPages' = {}
                 /\ \A s \in Sent' : s.tab = "selected"
<1> DEFINE r == wire[k]
<1>1. /\ LegacyTypeOK /\ RequestsFit
  BY DEF WInv, Always
<1>2. /\ r \in Requests /\ r \in Sent /\ r \in Pending /\ Rest(k) \in Seq(Requests)
      /\ ToSet(wire) = ToSet(Rest(k)) \cup {r}
      /\ Separate(calls, wire, queue) =>
            /\ Separate(calls, Rest(k), queue)
            /\ \A s \in ToSet(calls) \cup ToSet(Rest(k)) \cup ToSet(queue) : ~Twin(r, s)
      /\ \A kind \in Kinds :
            Asked(wire, kind) = Asked(Rest(k), kind) + IF OfKind(r, kind) THEN 1 ELSE 0
  BY <1>1, TakenOff
<1> HIDE DEF r
<1>3. /\ wire' \in Seq(Requests) /\ calls' \in Seq(Requests)
      /\ ToSet(Rest(k)) \subseteq ToSet(wire') /\ ToSet(calls) \subseteq ToSet(calls')
      /\ \A s \in Sent' : \/ s \in ToSet(calls) \cup ToSet(Rest(k))
                          \/ mode = "LEGACY" /\ s = SelectedRequest
      /\ Separate(calls, Rest(k), queue) => Separate(calls', wire', queue)
      /\ \A kind \in Kinds :
            Asked(calls', kind) + Asked(wire', kind) = Asked(calls, kind) + Asked(Rest(k), kind)
  BY DEF AfterAnswer
<1>4. /\ SelectedRequest.tab = "selected" /\ SelectedRequest.gen = 0
      /\ SelectedRequest.tab \notin Tabs /\ update \in Nat
      /\ \A kind \in Kinds : ListEndpoint[kind] # "selected"
      /\ "selected" # "characterList" /\ "selected" # "stashList"
  BY <1>1, TabsKinds DEF SelectedRequest, LegacyTypeOK, WorkerTypeOK, ListEndpoint, Kinds
<1>5. \A s \in Pending' : \/ s \in ToSet(calls) \cup ToSet(Rest(k)) \cup ToSet(queue)
                          \/ mode = "LEGACY" /\ s = SelectedRequest
  BY <1>3 DEF Pending
<1>6. \A s \in Pending \ {r} : s \in Pending'
  BY <1>2, <1>3 DEF Pending, Sent
<1>7. ToSet(calls) \cup ToSet(Rest(k)) \subseteq Sent /\ Sent \cup ToSet(queue) = Pending
  BY <1>2 DEF Sent, Pending
<1>8. RequestsFit'
  <2>1. \A s \in Pending' : \/ s \in Pending
                            \/ mode = "LEGACY" /\ s = SelectedRequest
    BY <1>5, <1>7
  <2> QED
    BY <1>1, <1>4, <2>1 DEF RequestsFit
<1>9. received' \in [Kinds -> Nat]
      /\ \A kind \in Kinds : received'[kind] = received[kind] + IF OfKind(r, kind) THEN 1 ELSE 0
  BY <1>1, <1>2, CountType DEF r
<1>10. ASSUME ~spoiled
       PROVE  /\ Index' /\ Waiting' /\ Signed' /\ updating
              /\ Separate(calls', wire', queue')
              /\ updating' => Net'
              /\ \A s \in Pending' : \/ s \in Pending /\ ~Twin(r, s)
                                     \/ mode = "LEGACY" /\ s = SelectedRequest
              /\ IsLast(r) => /\ queue' = <<>> /\ mainPages' = {}
                              /\ \A s \in Sent' : s.tab = "selected"
  <2>1. Net /\ Index /\ Waiting /\ Signed
    BY <1>10 DEF WInv, Sound
  <2>2. updating /\ \A kind \in Kinds : need[kind] => has[kind]
    BY <1>2, <2>1 DEF Net, TabsAsked, r
  <2>3. \A s \in Sent, kind \in Kinds : s.tab # ListEndpoint[kind]
    BY <2>1, <2>2 DEF Net, Lists
  <2>4. mainPages = {} /\ "character" \in Kinds
    BY <2>1, <2>2 DEF Net, Lists, Kinds
  <2>5. Index'
    BY <2>1 DEF Index
  <2>6. Waiting'
    <3> SUFFICES ASSUME NEW kind \in Kinds
                 PROVE  needed[kind] - received'[kind] = Asked(calls', kind) + Asked(wire', kind)
      BY DEF Waiting
    <3> DEFINE one == IF OfKind(r, kind) THEN 1 ELSE 0
               x == Asked(calls, kind)
               y == Asked(Rest(k), kind)
    <3>1. /\ needed[kind] \in Nat /\ received[kind] \in Nat /\ x \in Nat /\ y \in Nat
          /\ one \in Nat
      BY <1>1, <1>2, AskedType DEF LegacyTypeOK, WorkerTypeOK
    <3>2. needed[kind] - received[kind] = x + (y + one)
      BY <1>2, <2>1 DEF Waiting
    <3>3. received'[kind] = received[kind] + one
      BY <1>9
    <3> HIDE DEF one, x, y
    <3>4. needed[kind] - received'[kind] = x + y
      BY <3>1, <3>2, <3>3
    <3> QED
      BY <1>3, <3>4 DEF x, y
  <2>7. Signed'
    BY <1>4, <1>5, <1>7, <2>1, TabsKinds DEF Signed
  <2>8. Separate(calls, Rest(k), queue)
        /\ \A s \in ToSet(calls) \cup ToSet(Rest(k)) \cup ToSet(queue) : ~Twin(r, s)
    BY <1>2, <2>1 DEF Net
  <2>9. \A s \in Pending' : \/ s \in Pending /\ ~Twin(r, s)
                            \/ mode = "LEGACY" /\ s = SelectedRequest
    BY <1>5, <1>7, <2>8
  <2>10. Separate(calls', wire', queue')
    BY <1>3, <2>8
  <2>11. ASSUME updating' PROVE Net'
    <3>1. Lists'
      <4>1. \A s \in Sent' : \A kind \in Kinds : s.tab # ListEndpoint[kind]
        BY <1>3, <1>4, <1>7, <2>3
      <4>2. \A s \in Sent' : s.tab # "stashList" /\ s.tab # "characterList"
        BY <4>1 DEF ListEndpoint, Kinds
      <4>3. ToSet(calls') \subseteq Sent'
        BY DEF Sent
      <4> QED
        BY <2>4, <4>1, <4>2, <4>3 DEF Lists
    <3>2. TabsAsked'
      <4>1. \A s \in Sent' : s.tab \in Tabs =>
               updating' /\ \A kind \in Kinds : need'[kind] => has'[kind]
        BY <2>2, <2>11
      <4>2. \A s \in Pending' : s.tab \in Tabs =>
               need'[KindOf(s.tab)] /\ has'[KindOf(s.tab)] /\ tabs'[s.tab] = 1
        BY <1>4, <2>1, <2>9 DEF Net, TabsAsked
      <4>3. \/ queue' = <<>>
            \/ \E s \in ToSet(calls') : s.tab \in Tabs
        BY <1>3, <2>1, <2>2 DEF Net, TabsAsked
      <4> QED
        BY <4>1, <4>2, <4>3 DEF TabsAsked
    <3>3. Current'
      BY <1>4, <2>1, <2>9 DEF Net, Current
    <3> QED
      BY <2>10, <3>1, <3>2, <3>3 DEF Net
  <2>12. ASSUME IsLast(r)
         PROVE  /\ queue' = <<>> /\ mainPages' = {}
                /\ \A s \in Sent' : s.tab = "selected"
    <3>1. \A kind \in Kinds : received'[kind] = needed[kind]
      BY <2>12 DEF IsLast, r
    <3>2. \A kind \in Kinds : Asked(calls', kind) = 0 /\ Asked(wire', kind) = 0
      <4> SUFFICES ASSUME NEW kind \in Kinds
                   PROVE  Asked(calls', kind) = 0 /\ Asked(wire', kind) = 0
        OBVIOUS
      <4>1. Asked(calls', kind) \in Nat /\ Asked(wire', kind) \in Nat
        BY <1>3, AskedType
      <4>2. needed[kind] \in Nat
        BY <1>1 DEF LegacyTypeOK, WorkerTypeOK
      <4>3. needed[kind] - received'[kind] = Asked(calls', kind) + Asked(wire', kind)
        BY <2>6 DEF Waiting
      <4> QED
        BY <3>1, <4>1, <4>2, <4>3
    <3>3. \A s \in Sent' : s.tab \notin Tabs
      BY <1>3, <3>2, AskedNone DEF Sent
    <3>4. queue = <<>>
      BY <1>3, <2>1, <2>2, <3>3 DEF Net, TabsAsked, Sent
    <3>5. ASSUME NEW s \in Sent' PROVE s.tab = "selected"
      <4>1. s.tab \notin Tabs
        BY <3>3
      <4>2. CASE s = SelectedRequest
        BY <1>4, <4>2
      <4>3. CASE s \in ToSet(calls) \cup ToSet(Rest(k))
        <5>1. s \in Sent /\ s \in Requests
          BY <1>1, <1>2, <1>7, <4>3 DEF LegacyTypeOK, WorkerTypeOK, ToSet
        <5>2. s.tab \in NoTabs
          BY <4>1, <5>1 DEF Requests
        <5>3. s.tab # "stashList" /\ s.tab # "characterList"
          BY <2>3, <5>1 DEF ListEndpoint, Kinds
        <5> QED
          BY <5>2, <5>3 DEF NoTabs
      <4> QED
        BY <1>3, <4>2, <4>3
    <3> QED
      BY <2>4, <3>4, <3>5
  <2> QED
    BY <2>2, <2>5, <2>6, <2>7, <2>9, <2>11, <2>12, <2>10
<1> QED
  BY <1>3, <1>6, <1>8, <1>9, <1>10 DEF r


\* The k-th request, for a tab, is answered; what the reply brings is left open.
Answers(k) ==
    /\ wire[k].tab \in Tabs /\ AfterAnswer(k) /\ received' = Count(wire[k])
    /\ UNCHANGED <<gameVars, update, known, need, has, tabs, index, queue, needed>>
    /\ UNCHANGED <<signature, mainPages, selected>>
    /\ cancel' \in BOOLEAN /\ (cancel => cancel') /\ (mode = "OAUTH" => cancel' = cancel)
    /\ unread \subseteq unread' /\ unread' \subseteq Tabs /\ lastBad' \in BOOLEAN

\* The reply brings the load l, or an error.
Brings(k, l) ==
    /\ l \in Loads /\ l.tab = wire[k].tab /\ l.part = wire[k].endpoint /\ l.gen = wire[k].gen
    /\ items' = items \cup {l}
BringsError(k) == items' = items /\ wire[k].tab \in unread'

LEMMA PiecesKeep ==
    ASSUME WInv, ~spoiled, NEW k \in DOMAIN wire, Answers(k), NEW l,
           Brings(k, l) \/ BringsError(k)
    PROVE  NotYet' /\ Covered'
<1> DEFINE r == wire[k]
<1>1. /\ \A s \in Pending \ {r} : s \in Pending'
      /\ \A s \in Pending' : \/ s \in Pending /\ ~Twin(r, s)
                             \/ mode = "LEGACY" /\ s = SelectedRequest
  BY AnswerKeeps DEF Answers, gameVars
<1>2. NotYet /\ Covered /\ Current
  BY DEF WInv, Sound, Net
<1>3. /\ mode' = mode /\ update' = update /\ tabs' = tabs /\ unread \subseteq unread'
      /\ r.tab \in Tabs
  BY DEF Answers, gameVars
<1>4. r \in Pending /\ r.tab # "selected" /\ SelectedRequest.tab \notin Tabs
  BY <1>3, TakenOff, TabsKinds DEF WInv, SelectedRequest
<1>5. \A m \in items' : m.tab \in Tabs /\ (m \in items \/ (Brings(k, l) /\ m = l))
  <2> SUFFICES ASSUME NEW m \in items'
               PROVE  m.tab \in Tabs /\ (m \in items \/ (Brings(k, l) /\ m = l))
    OBVIOUS
  <2>1. m \in items \/ (Brings(k, l) /\ m = l)
    <3>1. Brings(k, l) => items' = items \cup {l}
      BY DEF Brings
    <3>2. BringsError(k) => items' = items
      BY DEF BringsError
    <3> QED
      BY <3>1, <3>2
  <2>2. m \in items => m.tab \in Tabs
    BY DEF WInv, LegacyTypeOK, WorkerTypeOK, Loads
  <2>3. Brings(k, l) => l.tab \in Tabs
    BY <1>3 DEF Brings
  <2> QED
    BY <2>1, <2>2, <2>3
<1> HIDE DEF r
<1>6. NotYet'
  <2> SUFFICES ASSUME NEW m \in items', NEW s \in Pending', m.tab = s.tab
               PROVE  m.part # s.endpoint /\ m.gen = update
    BY <1>3 DEF NotYet
  <2>1. s \in Pending /\ ~Twin(r, s)
    BY <1>1, <1>4, <1>5
  <2>2. CASE m \in items
    BY <1>2, <2>1, <2>2 DEF NotYet
  <2>3. CASE Brings(k, l) /\ m = l
    <3>1. m.tab = r.tab /\ m.part = r.endpoint /\ m.gen = r.gen
      BY <2>3 DEF Brings, r
    <3>2. r.gen = update
      BY <1>2, <1>4 DEF Current
    <3> QED
      BY <1>3, <1>4, <2>1, <3>1, <3>2 DEF Twin
  <2> QED
    BY <1>5, <2>2, <2>3
<1>7. Covered'
  <2> SUFFICES ASSUME NEW t \in Tabs \ unread', NEW p \in PartsIn(mode, t), tabs[t] = 1
               PROVE  \/ \E m \in items' : m.tab = t /\ m.part = p
                      \/ \E s \in Pending' : s.tab = t /\ s.endpoint = p
    BY <1>3 DEF Covered
  <2>1. \/ \E m \in items : m.tab = t /\ m.part = p
        \/ \E s \in Pending : s.tab = t /\ s.endpoint = p
    BY <1>2, <1>3 DEF Covered
  <2>2. items \subseteq items'
    BY DEF Brings, BringsError
  <2>3. CASE r.tab = t /\ r.endpoint = p
    <3>1. Brings(k, l) /\ l \in items'
      BY <2>3 DEF Brings, BringsError, r
    <3> QED
      BY <2>3, <3>1 DEF Brings, r
  <2>4. CASE ~(r.tab = t /\ r.endpoint = p)
    BY <1>1, <2>1, <2>2, <2>4
  <2> QED
    BY <2>3, <2>4
<1> QED
  BY <1>6, <1>7

LEMMA AnswerTypes ==
    ASSUME WInv, NEW k \in DOMAIN wire, Answers(k), items' \subseteq Loads,
           updating' \in BOOLEAN, spoiled' \in BOOLEAN, misfiled' \in BOOLEAN, mixed' \in BOOLEAN,
           stored' \in DiskType, shown' \in [tabs : SUBSET Tabs, items : SUBSET Loads]
    PROVE  LegacyTypeOK'
<1>1. calls' \in Seq(Requests) /\ wire' \in Seq(Requests) /\ received' \in [Kinds -> Nat]
  BY AnswerKeeps DEF Answers, gameVars
<1> QED
  BY <1>1 DEF WInv, LegacyTypeOK, WorkerTypeOK, Answers, gameVars, DiskType

\* A reply that is not the last: an error, or the items of a tab.
LEMMA ReadKeeps ==
    ASSUME WInv, NEW k \in DOMAIN wire, Answers(k), NEW l,
           \/ Brings(k, l) /\ (~spoiled /\ ~misfiled /\ ~cancel' => l.of = l.tab)
           \/ BringsError(k),
           UNCHANGED <<updating, stored, shown, spoiled, misfiled, mixed>>
    PROVE  WInv'
<1>1. /\ mode' = mode /\ update' = update /\ tabs' = tabs /\ wire[k].tab \in Tabs
      /\ mainPages' = mainPages /\ selected' = selected /\ (cancel => cancel')
      /\ (mode = "OAUTH" => cancel' = cancel)
  BY DEF Answers, gameVars
<1>2. FitIn(items') /\ items' \in SUBSET Loads /\ (~spoiled => Good(items'))
  <2>1. CASE Brings(k, l)
    BY <1>1, <2>1, LoadArrives DEF Brings
  <2>2. CASE BringsError(k)
    BY <2>2 DEF BringsError, WInv, LegacyTypeOK, WorkerTypeOK, Always, LoadsFit, Sound
  <2> QED
    BY <2>1, <2>2
<1>3. LegacyTypeOK'
  BY <1>2, AnswerTypes DEF WInv, LegacyTypeOK, WorkerTypeOK, DiskType
<1>4. Always'
  <2>1. RequestsFit'
    BY AnswerKeeps DEF Answers, gameVars
  <2>2. LoadsFit'
    BY <1>1, <1>2 DEF WInv, Always, LoadsFit, FitIn
  <2>3. StoredFits'
    BY <1>1 DEF WInv, Always, StoredFits, FitsOn
  <2>4. ShownIsStored'
    BY DEF WInv, Always, ShownIsStored, Stored
  <2>5. StoredUniform'
    BY DEF WInv, Always, StoredUniform
  <2>6. OAuthOnly'
    BY <1>1 DEF WInv, Always, OAuthOnly
  <2> QED
    BY <2>1, <2>2, <2>3, <2>4, <2>5, <2>6 DEF Always
<1>5. ASSUME ~spoiled PROVE Sound'
  <2>1. Index' /\ Waiting' /\ Signed' /\ updating /\ Net'
    BY <1>5, AnswerKeeps DEF Answers, gameVars
  <2>2. Idle'
    BY <2>1 DEF Idle
  <2>3. NotYet' /\ Covered'
    BY <1>5, PiecesKeep
  <2>4. Good(items)'
    BY <1>1, <1>2, <1>5 DEF Good, ListedIn, OneSpotIn, NewerIn, UniqueIn
  <2>5. ASSUME ~cancel' PROVE OwnIn(items)'
    <3>1. OwnIn(items)
      BY <1>1, <1>5, <2>5 DEF WInv, Sound
    <3>2. CASE Brings(k, l) /\ (~misfiled => l.of = l.tab)
      BY <3>1, <3>2 DEF Brings, OwnIn
    <3>3. CASE BringsError(k)
      BY <3>1, <3>3 DEF BringsError, OwnIn
    <3> QED
      BY <1>5, <2>5, <3>2, <3>3
  <2> QED
    BY <2>1, <2>2, <2>3, <2>4, <2>5 DEF Sound
<1> QED
  BY <1>3, <1>4, <1>5 DEF WInv

\* The last reply of an update that is given up: what is kept then is kept in any case.
LEMMA SpoiledKeeps ==
    ASSUME WInv, LegacyTypeOK', RequestsFit', spoiled', FitIn(items'),
           UNCHANGED <<mode, update, stored, shown, misfiled, mixed, mainPages, selected>>,
           mode = "OAUTH" => cancel' = cancel
    PROVE  WInv'
<1>1. LoadsFit'
  BY DEF WInv, Always, LoadsFit, FitIn
<1>2. StoredFits'
  BY DEF WInv, Always, StoredFits, FitsOn
<1>3. ShownIsStored'
  BY DEF WInv, Always, ShownIsStored, Stored
<1>4. StoredUniform' /\ OAuthOnly'
  BY DEF WInv, Always, StoredUniform, OAuthOnly
<1> QED
  BY <1>1, <1>2, <1>3, <1>4 DEF WInv, Always


\* Nothing is under way.
LEMMA NothingSent ==
    ASSUME \A s \in Sent' : s.tab = "selected", queue' = <<>>, mainPages' = {},
           Separate(calls', wire', queue')
    PROVE  Net'
<1>1. \A s \in Pending' : s.tab = "selected"
  BY NothingIn DEF Pending
<1>2. "selected" \notin Tabs /\ \A kind \in Kinds : ListEndpoint[kind] # "selected"
  BY TabsKinds DEF ListEndpoint, Kinds
<1>3. ToSet(calls') \subseteq Sent'
  BY DEF Sent
<1>4. Lists'
  BY <1>2, <1>3 DEF Lists
<1>5. TabsAsked' /\ Current'
  BY <1>1, <1>2, <1>3 DEF TabsAsked, Current, Pending
<1> QED
  BY <1>4, <1>5 DEF Net

LEMMA FinishKeeps ==
    ASSUME WInv, NEW k \in DOMAIN wire, Answers(k), NEW l, Brings(k, l), IsLast(wire[k]),
           FinishUpdate(items'), spoiled' = spoiled, ~cancel',
           ~spoiled /\ ~misfiled => l.of = l.tab
    PROVE  WInv'
<1>1. /\ mode' = mode /\ update' = update /\ tabs' = tabs /\ wire[k].tab \in Tabs
      /\ mainPages' = mainPages /\ selected' = selected /\ (cancel => cancel')
      /\ (mode = "OAUTH" => cancel' = cancel)
  BY DEF Answers, gameVars
<1>2. FitIn(items') /\ items' \in SUBSET Loads /\ (~spoiled => Good(items'))
  BY <1>1, LoadArrives DEF Brings
<1>3. PICK filing \in Filings(items') : stored' = Disk(Kinds, Spots(items'), items', filing)
  BY DEF FinishUpdate
<1>4. /\ shown' = [tabs |-> Listed(tabs), items |-> items'] /\ updating' = FALSE
      /\ misfiled' = (misfiled \/ \E o, m \in Full(items') : SpotOf(o) = SpotOf(m) /\ o.tab # m.tab)
      /\ mixed' = (mixed \/ (spoiled /\ ~Uniform(stored')))
  BY DEF FinishUpdate
<1>5. LegacyTypeOK /\ StoredFits
  BY DEF WInv, Always
<1>6. stored' \in DiskType /\ FitsOn(stored')
  BY <1>2, <1>3, <1>5, DiskFits
<1>7. LegacyTypeOK'
  <2>1. misfiled' \in BOOLEAN /\ mixed' \in BOOLEAN /\ spoiled' \in BOOLEAN
    BY <1>4, <1>5 DEF LegacyTypeOK, WorkerTypeOK
  <2>2. shown' \in [tabs : SUBSET Tabs, items : SUBSET Loads]
    BY <1>2, <1>4 DEF Listed
  <2> QED
    BY <1>2, <1>4, <1>6, <2>1, <2>2, AnswerTypes
\* Without two tabs at a spot, what is there is filed under its own tab.
<1>8. ASSUME ~misfiled', NEW o \in Full(items')
      PROVE  SpotOf(o) \in Spots(items') /\ filing[SpotOf(o)] = o.tab
  <2>1. SpotOf(o) \in Spots(items')
    BY DEF Spots
  <2>2. PICK m \in Full(items') : m.tab = filing[SpotOf(o)] /\ SpotOf(m) = SpotOf(o)
    BY <1>2, <2>1, FiledSpot
  <2> QED
    BY <1>4, <1>8, <2>1, <2>2
<1>9. StoredUniform'
  <2> SUFFICES ASSUME ~mixed', ~misfiled', ~spoiled PROVE Uniform(stored')
    BY <1>4, <1>5 DEF StoredUniform, LegacyTypeOK, WorkerTypeOK
  <2>1. ~mixed /\ ~misfiled /\ UniqueIn(items')
    BY <1>2, <1>4 DEF Good
  <2>2. Uniform(stored)
    BY <2>1 DEF WInv, Always, StoredUniform
  <2>3. \A t \in Tabs, o \in Full(items') :
           IsLastOf(t, SpotOf(o), Spots(items'), filing) => o.tab = t
    BY <1>8 DEF IsLastOf
  <2> QED
    BY <1>2, <1>3, <2>1, <2>2, <2>3, DiskUniform
<1>10. ShownIsStored'
  <2>1. shown'.tabs \subseteq Stored'
    <3>1. \A kind \in Kinds : stored'.tabs[kind] = SavedTabs(kind)
      BY <1>3 DEF Disk
    <3>2. \A t \in Listed(tabs) : t \in SavedTabs(KindOf(t))
      BY DEF SavedTabs
    <3> QED
      BY <1>4, <3>1, <3>2, KindIsKind DEF Stored, Kinds
  <2>2. ASSUME ~misfiled', NEW o \in Full(items')
        PROVE  \E m \in stored'.items[o.tab] : spoiled' \/ m.gen >= o.gen
    <3>1. o \in Loads /\ o.tab \in Tabs /\ o.gen \in Nat
      BY <1>2 DEF Full, Loads
    <3>2. \E s \in Spots(items') : filing[s] = o.tab
      BY <1>8, <2>2
    <3>3. stored'.items[o.tab] = SavedItems(o.tab, Spots(items'), items', filing)
      BY <1>3, <3>1, <3>2 DEF Disk
    <3>4. CASE spoiled
      <4>1. SavedItems(o.tab, Spots(items'), items', filing) # {}
        BY <1>2, <3>1, <3>2, SomethingSaved
      <4> QED
        BY <3>3, <3>4, <4>1
    <3>5. CASE ~spoiled
      <4>1. o \in SavedItems(o.tab, Spots(items'), items', filing)
        BY <1>2, <3>1, <3>2, <3>5, AllSaved DEF Good
      <4>2. o.gen >= o.gen
        BY <3>1
      <4> QED
        BY <3>3, <4>1, <4>2
    <3> QED
      BY <3>4, <3>5
  <2> QED
    BY <1>4, <2>1, <2>2 DEF ShownIsStored
<1>11. Always'
  <2>1. RequestsFit'
    BY AnswerKeeps DEF Answers, gameVars
  <2>2. LoadsFit'
    BY <1>1, <1>2, <1>4 DEF LoadsFit, FitIn
  <2>3. StoredFits'
    BY <1>1, <1>6 DEF StoredFits, FitsOn
  <2>4. OAuthOnly'
    BY <1>1 DEF WInv, Always, OAuthOnly
  <2> QED
    BY <1>9, <1>10, <2>1, <2>2, <2>3, <2>4 DEF Always
<1>12. ASSUME ~spoiled PROVE Sound'
  <2>1. /\ Index' /\ Waiting' /\ Signed' /\ Separate(calls', wire', queue')
        /\ queue' = <<>> /\ mainPages' = {} /\ \A s \in Sent' : s.tab = "selected"
    BY <1>12, AnswerKeeps DEF Answers, gameVars
  <2>2. Idle'
    BY <1>4, <2>1 DEF Idle
  <2>3. Net'
    BY <2>1, NothingSent
  <2>4. NotYet' /\ Covered'
    BY <1>12, PiecesKeep
  <2>5. ~misfiled' => ~misfiled
    BY <1>4
  <2>6. Good(items)'
    <3>1. ListedIn(items)' /\ OneSpotIn(items)'
      BY <1>1, <1>2, <1>12 DEF Good, ListedIn, OneSpotIn
    <3>2. NewerIn(items)'
      BY <1>4 DEF NewerIn, ItemsOf
    <3>3. UniqueIn(items)'
      BY <1>2, <1>4, <1>12, <2>5 DEF Good, UniqueIn
    <3> QED
      BY <3>1, <3>2, <3>3 DEF Good
  <2>7. OwnIn(items)'
    <3>1. OwnIn(items)
      BY <1>1, <1>12 DEF WInv, Sound
    <3> QED
      BY <1>12, <2>5, <3>1 DEF Brings, OwnIn
  <2> QED
    BY <2>1, <2>2, <2>3, <2>4, <2>6, <2>7 DEF Sound
<1> QED
  BY <1>7, <1>11, <1>12 DEF WInv


-----------------------------------------------------------------------------
(* An update starts, and Submit returns. *)

\* None of the requests of q is for what one of S is for.
OtherThan(q, S) == \A r \in ToSet(q), s \in S : s.tab # r.tab

\* Requests that are not for a tab, and not asked for yet, go out.
GoneOut(q, w, stack) ==
    /\ wire' \in Seq(Requests) /\ calls' \in Seq(Requests)
    /\ ToSet(stack) \subseteq ToSet(calls') /\ ToSet(calls') \subseteq ToSet(stack) \cup ToSet(q)
    /\ ToSet(w) \subseteq ToSet(wire') /\ ToSet(wire') \subseteq ToSet(w) \cup ToSet(q)
    /\ \A kind \in Kinds :
          Asked(calls', kind) + Asked(wire', kind) = Asked(stack, kind) + Asked(w, kind)
    /\ \A z \in Seq(Requests) :
          Separate(stack, w, z) /\ OtherThan(q, ToSet(stack) \cup ToSet(w) \cup ToSet(z))
             => Separate(calls', wire', z)

LEMMA ListsGoOut ==
    ASSUME NEW q \in Seq(Requests), NEW n \in 0..Len(q), NEW w \in Seq(Requests),
           NEW stack \in Seq(Requests), Submit(q, n, w, stack), Single(q),
           \A r \in ToSet(q) : r.tab \notin Tabs
    PROVE  GoneOut(q, w, stack)
<1>1. /\ wire' \in Seq(Requests) /\ calls' \in Seq(Requests)
      /\ ToSet(stack) \subseteq ToSet(calls') /\ ToSet(calls') \subseteq ToSet(stack) \cup ToSet(q)
      /\ ToSet(w) \subseteq ToSet(wire') /\ ToSet(wire') \subseteq ToSet(w) \cup ToSet(q)
      /\ \A z : Unlike(q, stack, w, z) => Separate(calls', wire', z)
  BY NoTabSubmit
<1>2. \A kind \in Kinds :
         Asked(calls', kind) + Asked(wire', kind) = Asked(stack, kind) + Asked(w, kind)
  BY NoTabCounted
<1>3. ASSUME NEW z \in Seq(Requests), Separate(stack, w, z),
             OtherThan(q, ToSet(stack) \cup ToSet(w) \cup ToSet(z))
      PROVE  Separate(calls', wire', z)
  <2>1. Unlike(q, stack, w, z)
    BY <1>3 DEF Unlike, Apart, Twin, OtherThan
  <2> QED
    BY <1>1, <2>1
<1> QED
  BY <1>1, <1>2, <1>3 DEF GoneOut

\* The lists that an update asks for.
LEMMA ListsAre ==
    ASSUME order \in Orders, NEW kinds \in SUBSET Kinds, NEW gen \in Nat
    PROVE  LET q == ListRequests(kinds, gen) IN
           /\ q \in Seq(Requests) /\ Single(q)
           /\ \A r \in ToSet(q) : \E kind \in kinds : r = ListRequest(kind, gen)
           /\ \A n \in 0..Len(q) : n < Len(q) /\ q[n + 1].tab = "stashList" => n = 0
<1> DEFINE S == ListRequest("stash", gen)
           C == ListRequest("character", gen)
           q == ListRequests(kinds, gen)
<1>1. S \in Requests /\ C \in Requests
  BY RequestTypes DEF Kinds
<1>2. S.tab = "stashList" /\ C.tab = "characterList"
  BY DEF ListRequest, ListEndpoint, Kinds
<1>3. q = (IF "stash" \in kinds THEN <<S>> ELSE <<>>) \o (IF "character" \in kinds THEN <<C>> ELSE <<>>)
  BY DEF ListRequests
<1>4. /\ "stash" \in kinds => S \in {ListRequest(kind, gen) : kind \in kinds}
      /\ "character" \in kinds => C \in {ListRequest(kind, gen) : kind \in kinds}
  OBVIOUS
<1> HIDE DEF S, C
<1> DEFINE both == <<S>> \o <<C>>
<1>5. q = <<>> \/ q = <<S>> \/ q = <<C>> \/ q = both
  <2>1. <<>> \o <<>> = <<>> /\ <<S>> \o <<>> = <<S>> /\ <<>> \o <<C>> = <<C>>
    OBVIOUS
  <2> QED
    BY <1>3, <2>1
<1>6. both \in Seq(Requests) /\ Len(both) = 2 /\ both[1] = S /\ both[2] = C
  BY <1>1
<1> HIDE DEF both
<1>7. q \in Seq(Requests)
  <2>1. <<>> \in Seq(Requests) /\ <<S>> \in Seq(Requests) /\ <<C>> \in Seq(Requests)
    BY <1>1
  <2> QED
    BY <1>5, <1>6, <2>1
<1>8. Single(q)
  BY <1>1, <1>2, <1>5, <1>6 DEF Single, Twin
<1>9. \A r \in ToSet(q) : (r = S /\ "stash" \in kinds) \/ (r = C /\ "character" \in kinds)
  <2> DEFINE a == IF "stash" \in kinds THEN <<S>> ELSE <<>>
             b == IF "character" \in kinds THEN <<C>> ELSE <<>>
  <2>1. a \in Seq(Requests) /\ b \in Seq(Requests)
    BY <1>1
  <2>2. /\ \A r \in ToSet(a) : r = S /\ "stash" \in kinds
        /\ \A r \in ToSet(b) : r = C /\ "character" \in kinds
    BY DEF ToSet
  <2> HIDE DEF a, b
  <2>3. ToSet(q) = ToSet(a) \cup ToSet(b)
    BY <1>3, <2>1, JoinedSet DEF a, b
  <2> QED
    BY <2>2, <2>3
<1>10. \A n \in 0..Len(q) : n < Len(q) /\ q[n + 1].tab = "stashList" => n = 0
  BY <1>2, <1>5, <1>6
<1> QED
  BY <1>4, <1>7, <1>8, <1>9, <1>10 DEF q


LEMMA PendingTypes ==
    ASSUME LegacyTypeOK
    PROVE  \A r \in Pending : r \in Requests
<1>1. \A q \in Seq(Requests) : \A r \in ToSet(q) : r \in Requests
  BY DEF ToSet
<1>2. calls \in Seq(Requests) /\ wire \in Seq(Requests) /\ queue \in Seq(Requests)
  BY DEF LegacyTypeOK, WorkerTypeOK
<1> QED
  BY <1>1, <1>2 DEF Pending, Sent

\* What is kept as long as nothing is read, written or given up.
LEMMA AlwaysKept ==
    ASSUME WInv, RequestsFit', OAuthOnly', items' \subseteq items, update' \in {update, update + 1},
           UNCHANGED <<mode, stored, shown, spoiled, misfiled, mixed>>
    PROVE  Always'
<1>1. \A set, l : set \in SUBSET Loads /\ l \in set => l.gen \in Nat
  BY DEF Loads
<1>2. update \in Nat /\ update' >= update /\ update' \in Nat
  BY DEF WInv, LegacyTypeOK, WorkerTypeOK
<1>3. LoadsFit'
  <2>1. \A l \in items \cup shown.items : l.gen <= update /\ l.part \in PartsIn(mode, l.tab)
    BY DEF WInv, Always, LoadsFit, FitIn
  <2>2. \A l \in items \cup shown.items : l.gen \in Nat
    BY DEF WInv, LegacyTypeOK, WorkerTypeOK, Loads
  <2>3. \A l \in items \cup shown.items : l.gen <= update'
    BY <1>2, <2>1, <2>2
  <2> QED
    BY <2>1, <2>3 DEF LoadsFit, FitIn
<1>4. StoredFits'
  <2>1. \A t \in Tabs : \A l \in stored.items[t] :
           /\ l.tab = t /\ l.full /\ l.gen <= update /\ l.part \in PartsIn(mode, t)
           /\ \A m \in stored.items[t] : SpotOf(m) = SpotOf(l)
    BY DEF WInv, Always, StoredFits, FitsOn
  <2>2. \A t \in Tabs : \A l \in stored.items[t] : l.gen \in Nat
    BY DEF WInv, LegacyTypeOK, WorkerTypeOK, Loads
  <2>3. \A t \in Tabs : \A l \in stored.items[t] : l.gen <= update'
    BY <1>2, <2>1, <2>2
  <2> QED
    BY <2>1, <2>3 DEF StoredFits, FitsOn
<1>5. ShownIsStored' /\ StoredUniform'
  BY DEF WInv, Always, ShownIsStored, Stored, StoredUniform
<1> QED
  BY <1>3, <1>4, <1>5 DEF Always

\* Of the lists of these kinds, requests that are new.
Asks(s, kinds, gen) ==
    \E kind \in kinds :
        s.tab = ListEndpoint[kind] /\ s.gen = gen /\ (mode = "OAUTH" => s.endpoint = s.tab)

\* The lists of these kinds are asked for, or the main page, when nothing was under way.
Refreshed(kinds, gen) ==
    /\ wire' \in Seq(Requests) /\ calls' \in Seq(Requests)
    /\ \A s \in Sent' : s \in Sent \/ Asks(s, kinds, gen)
    /\ \A kind \in Kinds :
          Asked(calls', kind) + Asked(wire', kind) = Asked(calls, kind) + Asked(wire, kind)
    /\ mainPages' \in {mainPages, mainPages \cup {gen}}
    /\ (\A s \in Sent : s.tab = "selected") =>
          /\ Separate(calls, wire, <<>>) => Separate(calls', wire', <<>>)
          /\ \A r \in ToSet(calls'), s \in Sent' : r.tab = "stashList" => s.tab # "characterList"
          /\ mainPages' # mainPages =>
                /\ "character" \in kinds
                /\ \A s \in Sent' : s.tab # "characterList"
                /\ \A r \in ToSet(calls') : r.tab # "stashList"

\* Update, of the tabs of choice.
LEMMA StartKeeps ==
    ASSUME WInv, ~updating, NEW choice \in Selections, StartUpdate(choice),
           Refreshed(KindsNeeded(choice), update'),
           UNCHANGED signature, ~cancel', cancel' \in BOOLEAN, selected' \in BOOLEAN,
           mode = "OAUTH" => mainPages' = {} /\ ~selected'
    PROVE  WInv'
<1> DEFINE kinds == KindsNeeded(choice)
           kept == IF choice.all THEN {} ELSE Tabs \ choice.tabs
<1>1. /\ update' = update + 1 /\ updating' = TRUE /\ queue' = <<>>
      /\ need' = [kind \in Kinds |-> kind \in kinds] /\ has' = None
      /\ tabs' = [t \in Tabs |-> IF t \in kept THEN tabs[t] ELSE 0]
      /\ index' = IF choice = [all |-> FALSE, tabs |-> {}] THEN index ELSE Listed(tabs) \cap kept
      /\ items' = {l \in items : l.tab \in kept}
      /\ unread' = unread \cap kept /\ lastBad' = FALSE
      /\ UNCHANGED <<gameVars, needed, received, known, stored, shown, spoiled, misfiled, mixed>>
  BY DEF StartUpdate
<1>2. LegacyTypeOK /\ update \in Nat /\ order \in Orders
  BY DEF WInv, LegacyTypeOK, WorkerTypeOK
<1>3. /\ wire' \in Seq(Requests) /\ calls' \in Seq(Requests)
      /\ \A s \in Sent' : s \in Sent \/ Asks(s, kinds, update')
      /\ \A kind \in Kinds :
            Asked(calls', kind) + Asked(wire', kind) = Asked(calls, kind) + Asked(wire, kind)
      /\ mainPages' \in {mainPages, mainPages \cup {update'}}
  BY DEF Refreshed
<1> HIDE DEF kinds, kept
<1>4. kinds \subseteq Kinds /\ kept \subseteq Tabs
  BY KindIsKind DEF kinds, kept, KindsNeeded
<1>5. Pending' = Sent' /\ Sent \subseteq Pending
  BY <1>1, NothingIn DEF Pending
<1>6. mode' = mode
  BY <1>1 DEF gameVars
<1>7. LegacyTypeOK'
  <2>1. need' \in [Kinds -> BOOLEAN] /\ has' \in [Kinds -> BOOLEAN] /\ tabs' \in [Tabs -> Nat]
    BY <1>1, <1>2 DEF None, LegacyTypeOK, WorkerTypeOK
  <2>2. index' \subseteq Tabs /\ items' \subseteq Loads /\ unread' \subseteq Tabs /\ queue' \in Seq(Requests)
    BY <1>1, <1>2, <1>4 DEF LegacyTypeOK, WorkerTypeOK
  <2>3. mainPages' \subseteq 1..update'
    BY <1>1, <1>2, <1>3 DEF LegacyTypeOK
  <2>4. signature' \in Orders \cup {<<>>} /\ update' \in Nat
    BY <1>1, <1>2 DEF LegacyTypeOK
  <2> QED
    BY <1>1, <1>2, <1>3, <2>1, <2>2, <2>3, <2>4 DEF LegacyTypeOK, WorkerTypeOK, gameVars
<1>8. \A s : Asks(s, kinds, update') =>
         /\ s.tab \notin Tabs /\ s.gen = update' /\ (mode = "OAUTH" => s.endpoint = s.tab)
         /\ \A kind \in Kinds : s.tab = ListEndpoint[kind] => kind \in kinds
  BY <1>4, TabsKinds DEF Asks, ListEndpoint, Kinds
<1>9. RequestsFit'
  <2> SUFFICES ASSUME NEW r \in Sent'
               PROVE  /\ r.gen <= update'
                      /\ r.tab \in Tabs => r.endpoint \in PartsIn(mode, r.tab)
                      /\ r.tab \notin Tabs /\ mode = "OAUTH" => r.endpoint = r.tab
                      /\ r.tab = "stashList" => r.gen >= 1
    BY <1>1, <1>5, <1>6, NothingIn DEF RequestsFit
  <2>1. CASE r \in Sent
    <3>1. r.gen \in Nat
      BY <1>2, <1>5, <2>1, PendingTypes DEF Requests
    <3>2. /\ r.gen <= update
          /\ r.tab \in Tabs => r.endpoint \in PartsIn(mode, r.tab)
          /\ r.tab \notin Tabs /\ mode = "OAUTH" => r.endpoint = r.tab
          /\ r.tab = "stashList" => r.gen >= 1
      BY <1>5, <2>1 DEF WInv, Always, RequestsFit
    <3> QED
      BY <1>1, <1>2, <3>1, <3>2
  <2>2. CASE Asks(r, kinds, update')
    BY <1>1, <1>2, <1>8, <2>2
  <2> QED
    BY <1>3, <2>1, <2>2
<1>10. Always'
  <2>1. OAuthOnly'
    BY <1>6 DEF OAuthOnly
  <2>2. items' \subseteq items
    BY <1>1
  <2> QED
    BY <1>1, <1>6, <1>9, <2>1, <2>2, AlwaysKept
<1>11. ASSUME ~spoiled PROVE Sound'
  <2>1. /\ mainPages = {} /\ ~cancel /\ shown.items = items
        /\ \A s \in Sent : s.tab = "selected"
        /\ Separate(calls, wire, <<>>)
    BY <1>11 DEF WInv, Sound, Idle, Net
  <2>2. /\ Separate(calls', wire', queue')
        /\ \A r \in ToSet(calls'), s \in Sent' : r.tab = "stashList" => s.tab # "characterList"
        /\ mainPages' # {} =>
              /\ "character" \in kinds
              /\ \A s \in Sent' : s.tab # "characterList"
              /\ \A r \in ToSet(calls') : r.tab # "stashList"
    BY <1>1, <2>1 DEF Refreshed, kinds
  <2>3. \A s \in Sent' : s.tab # "selected" => Asks(s, kinds, update')
    BY <1>3, <2>1
  <2>4. \A s \in Sent' : s.tab \notin Tabs
    BY <1>8, <2>3, TabsKinds
  <2>5. need'["character"] = ("character" \in kinds) /\ ~has'["character"]
    BY <1>1 DEF Kinds, None
  <2>6. Lists'
    <3>1. ASSUME NEW r \in Sent', NEW kind \in Kinds, r.tab = ListEndpoint[kind]
          PROVE  updating' /\ need'[kind] /\ ~has'[kind]
      <4>1. r.tab # "selected"
        BY <3>1 DEF ListEndpoint, Kinds
      <4>2. kind \in kinds
        BY <1>8, <2>3, <3>1, <4>1
      <4> QED
        BY <1>1, <4>2 DEF None
    <3>2. mainPages' # {} => mainPages' = {update'}
      BY <1>3, <2>1
    <3> QED
      BY <2>2, <2>5, <3>1, <3>2 DEF Lists
  <2>7. TabsAsked'
    BY <1>1, <1>5, <2>4 DEF TabsAsked
  <2>8. Current'
    BY <1>5, <1>8, <2>3 DEF Current
  <2>9. Net'
    BY <2>2, <2>6, <2>7, <2>8 DEF Net
  <2>10. Idle'
    BY <1>1 DEF Idle
  <2>11. Index'
    <3>1. \A t \in Tabs : tabs[t] \in {0, 1}
      BY <1>11 DEF WInv, Sound, Index
    <3>2. \A t \in Tabs : tabs'[t] \in {0, 1}
      BY <1>1, <3>1
    <3>3. ASSUME NEW t \in Tabs, need'[KindOf(t)]
          PROVE  t \in index' <=> tabs'[t] = 1
      <4>1. KindOf(t) \in kinds
        BY <1>1, <3>3, KindIsKind
      <4>2. choice # [all |-> FALSE, tabs |-> {}]
        BY <4>1 DEF kinds, KindsNeeded
      <4> QED
        BY <1>1, <3>1, <4>2 DEF Listed
    <3> QED
      BY <3>2, <3>3 DEF Index
  <2>12. Good(items)'
    <3>1. Good(items)
      BY <1>11 DEF WInv, Sound
    <3>2. \A l \in items : l.tab \in Tabs
      BY <1>2 DEF LegacyTypeOK, WorkerTypeOK, Loads
    <3>3. ListedIn(items)'
      BY <1>1, <3>1, <3>2 DEF Good, ListedIn
    <3>4. OneSpotIn(items)' /\ UniqueIn(items)'
      BY <1>1, <3>1 DEF Good, OneSpotIn, UniqueIn, Full
    <3>5. NewerIn(items)'
      <4> SUFFICES ASSUME NEW t \in Tabs
                   PROVE  \/ ItemsOf(t, shown.items) \subseteq items'
                          \/ \A l \in items' : l.tab # t
        BY <1>1 DEF NewerIn
      <4> QED
        BY <1>1, <2>1 DEF ItemsOf
    <3> QED
      BY <3>3, <3>4, <3>5 DEF Good
  <2>13. NotYet'
    <3>1. \A l \in items' : l.tab \in Tabs
      BY <1>1, <1>2 DEF LegacyTypeOK, WorkerTypeOK, Loads
    <3> QED
      BY <1>5, <2>4, <3>1 DEF NotYet
  <2>14. Covered'
    <3> SUFFICES ASSUME NEW t \in Tabs \ unread', NEW p \in PartsIn(mode, t), tabs'[t] = 1
                 PROVE  \E l \in items' : l.tab = t /\ l.part = p
      BY <1>6 DEF Covered
    <3>1. t \in kept /\ tabs[t] = 1 /\ t \notin unread
      BY <1>1
    <3>2. \/ \E l \in items : l.tab = t /\ l.part = p
          \/ \E r \in Pending : r.tab = t /\ r.endpoint = p
      BY <1>11, <3>1 DEF WInv, Sound, Covered
    <3>3. \A r \in Pending : r.tab = "selected"
      BY <1>11, NothingIn DEF WInv, Sound, Idle, Pending
    <3> QED
      BY <1>1, <3>1, <3>2, <3>3, TabsKinds
  <2>15. Signed'
    BY <1>5, <2>4, TabsKinds DEF Signed
  <2>16. Waiting'
    BY <1>1, <1>3, <1>11 DEF WInv, Sound, Waiting
  <2>17. OwnIn(items)'
    BY <1>1, <1>11, <2>1 DEF WInv, Sound, OwnIn
  <2> QED
    BY <2>9, <2>10, <2>11, <2>12, <2>13, <2>14, <2>15, <2>16, <2>17 DEF Sound
<1> QED
  BY <1>1, <1>7, <1>10, <1>11 DEF WInv


LEMMA OAuthRefreshed ==
    ASSUME LegacyTypeOK, mode = "OAUTH", NEW kinds \in SUBSET Kinds, NEW gen \in Nat,
           OAuthRefresh(kinds, gen, wire, calls), UNCHANGED mainPages
    PROVE  Refreshed(kinds, gen)
<1> DEFINE q == ListRequests(kinds, gen)
<1>1. order \in Orders /\ wire \in Seq(Requests) /\ calls \in Seq(Requests)
  BY DEF LegacyTypeOK, WorkerTypeOK
<1>2. /\ q \in Seq(Requests) /\ Single(q)
      /\ \A r \in ToSet(q) : \E kind \in kinds : r = ListRequest(kind, gen)
      /\ \A n \in 0..Len(q) : n < Len(q) /\ q[n + 1].tab = "stashList" => n = 0
  BY <1>1, ListsAre
<1>3. PICK n \in 0..Len(q) : Submit(q, n, wire, calls)
  BY DEF OAuthRefresh
<1> HIDE DEF q
<1>4. ASSUME NEW r \in ToSet(q)
      PROVE  /\ Asks(r, kinds, gen) /\ r.tab \notin Tabs
             /\ r.tab = "stashList" \/ r.tab = "characterList"
  <2>1. PICK kind \in kinds : r = ListRequest(kind, gen)
    BY <1>2
  <2>2. r.tab = ListEndpoint[kind] /\ r.endpoint = r.tab /\ r.gen = gen
    BY <2>1 DEF ListRequest
  <2>3. r.tab = "stashList" \/ r.tab = "characterList"
    BY <2>2 DEF ListEndpoint, Kinds
  <2> QED
    BY <2>2, <2>3, TabsKinds DEF Asks
<1>5. \A r \in ToSet(q) : r.tab \notin Tabs
  BY <1>4
<1>6. GoneOut(q, wire, calls)
  BY <1>1, <1>2, <1>3, <1>5, ListsGoOut
<1>7. \A s \in Sent' : s \in Sent \/ Asks(s, kinds, gen)
  BY <1>4, <1>6 DEF Sent, GoneOut
<1>8. ASSUME \A s \in Sent : s.tab = "selected"
      PROVE  /\ Separate(calls, wire, <<>>) => Separate(calls', wire', <<>>)
             /\ \A r \in ToSet(calls'), s \in Sent' : r.tab = "stashList" => s.tab # "characterList"
  <2>1. OtherThan(q, ToSet(calls) \cup ToSet(wire) \cup ToSet(<<>>))
    BY <1>4, <1>8, NothingIn DEF OtherThan, Sent
  <2>2. Separate(calls, wire, <<>>) => Separate(calls', wire', <<>>)
    <3>1. <<>> \in Seq(Requests)
      OBVIOUS
    <3> QED
      BY <1>6, <2>1, <3>1 DEF GoneOut
  <2>3. ASSUME NEW r \in ToSet(calls'), NEW s \in Sent', r.tab = "stashList"
        PROVE  s.tab # "characterList"
    <3>1. r \notin ToSet(calls)
      BY <1>8, <2>3 DEF Sent
    <3>2. n < Len(q) /\ r = q[n + 1]
      <4>1. calls' = calls \o Waits(q, n)
        BY <1>3 DEF Submit, Waits
      <4>2. Waits(q, n) \in Seq(Requests)
        BY <1>2, Cut
      <4>3. ToSet(calls') = ToSet(calls) \cup ToSet(Waits(q, n))
        BY <1>1, <4>1, <4>2, JoinedSet
      <4>4. r \in ToSet(Waits(q, n))
        BY <2>3, <3>1, <4>3
      <4> QED
        BY <4>4, NothingIn DEF Waits, ToSet
    <3>3. n = 0
      BY <1>2, <2>3, <3>2
    <3>4. wire' = wire
      <4>1. wire' = wire \o SubSeq(q, 1, 0)
        BY <1>3, <3>3 DEF Submit
      <4>2. SubSeq(q, 1, 0) = <<>>
        BY <1>2
      <4> QED
        BY <1>1, <4>1, <4>2
    <3>5. CASE s \in ToSet(wire')
      BY <1>8, <3>4, <3>5 DEF Sent
    <3>6. CASE s \in ToSet(calls')
      <4>1. CASE s \in ToSet(calls)
        BY <1>8, <4>1 DEF Sent
      <4>2. CASE s \notin ToSet(calls)
        <5>1. calls' = calls \o Waits(q, n)
          BY <1>3 DEF Submit, Waits
        <5>2. Waits(q, n) \in Seq(Requests)
          BY <1>2, Cut
        <5>3. s \in ToSet(Waits(q, n))
          BY <1>1, <3>6, <4>2, <5>1, <5>2, JoinedSet
        <5>4. s = q[n + 1]
          BY <5>3, NothingIn DEF Waits, ToSet
        <5> QED
          BY <2>3, <3>2, <5>4
      <4> QED
        BY <4>1, <4>2
    <3> QED
      BY <3>5, <3>6 DEF Sent
  <2> QED
    BY <2>2, <2>3
<1>9. mainPages' \in {mainPages, mainPages \cup {gen}}
  OBVIOUS
<1> QED
  BY <1>6, <1>7, <1>8, <1>9 DEF Refreshed, GoneOut

LEMMA LegacyRefreshed ==
    ASSUME LegacyTypeOK, mode = "LEGACY", NEW kinds \in SUBSET Kinds, NEW gen \in Nat,
           LegacyRefresh(kinds, gen)
    PROVE  Refreshed(kinds, gen)
<1> DEFINE r == LegacyListRequest("stash", gen)
           q == IF "stash" \in kinds THEN <<r>> ELSE <<>>
<1>1. /\ order \in Orders /\ wire \in Seq(Requests) /\ calls \in Seq(Requests)
      /\ "stash" \in Kinds
  BY DEF LegacyTypeOK, WorkerTypeOK, Kinds
<1>2. r \in Requests /\ r.tab = "stashList" /\ r.gen = gen
  BY <1>1, RequestTypes DEF LegacyListRequest, ListEndpoint
<1>3. PICK n \in 0..Len(q) :
         /\ Submit(q, n, wire, calls)
         /\ mainPages' = IF "character" \in kinds /\ n = Len(q)
                         THEN mainPages \cup {gen} ELSE mainPages
  BY DEF LegacyRefresh
<1>4. "stash" \in kinds => Asks(r, kinds, gen)
  BY <1>2 DEF Asks, ListEndpoint, Kinds
<1> HIDE DEF r
<1>5. q \in Seq(Requests) /\ Single(q) /\ \A s \in ToSet(q) : s = r /\ "stash" \in kinds
  <2>1. CASE "stash" \in kinds
    <3>1. q = <<r>>
      BY <2>1
    <3> QED
      BY <1>2, <2>1, <3>1, OneOrNone
  <2>2. CASE "stash" \notin kinds
    <3>1. q = <<>>
      BY <2>2
    <3> QED
      BY <1>2, <3>1, OneOrNone
  <2> QED
    BY <2>1, <2>2
<1> HIDE DEF q
<1>6. \A s \in ToSet(q) : Asks(s, kinds, gen) /\ s.tab = "stashList"
  BY <1>2, <1>4, <1>5
<1>7. \A s \in ToSet(q) : s.tab \notin Tabs
  BY <1>6, TabsKinds
<1>8. GoneOut(q, wire, calls)
  BY <1>1, <1>3, <1>5, <1>7, ListsGoOut
<1>9. \A s \in Sent' : s \in Sent \/ (Asks(s, kinds, gen) /\ s.tab = "stashList")
  BY <1>6, <1>8 DEF Sent, GoneOut
<1>10. n = Len(q) => calls' = calls
  <2>1. SUFFICES ASSUME n = Len(q) PROVE calls' = calls
    OBVIOUS
  <2>2. ~(n < Len(q))
    BY <2>1
  <2>3. calls' = calls \o <<>>
    BY <1>3, <2>2 DEF Submit
  <2> QED
    BY <1>1, <2>3
<1>11. ASSUME \A s \in Sent : s.tab = "selected"
       PROVE  /\ Separate(calls, wire, <<>>) => Separate(calls', wire', <<>>)
              /\ \A s \in Sent' : s.tab # "characterList"
              /\ mainPages' # mainPages =>
                    "character" \in kinds /\ \A s \in ToSet(calls') : s.tab # "stashList"
  <2>1. OtherThan(q, ToSet(calls) \cup ToSet(wire) \cup ToSet(<<>>))
    BY <1>6, <1>11, NothingIn DEF OtherThan, Sent
  <2>2. mainPages' # mainPages => "character" \in kinds /\ n = Len(q)
    BY <1>3
  <2>3. Separate(calls, wire, <<>>) => Separate(calls', wire', <<>>)
    <3>1. <<>> \in Seq(Requests)
      OBVIOUS
    <3> QED
      BY <1>8, <2>1, <3>1 DEF GoneOut
  <2>4. \A s \in Sent' : s.tab # "characterList"
    BY <1>9, <1>11
  <2>5. n = Len(q) => \A s \in ToSet(calls') : s.tab # "stashList"
    BY <1>10, <1>11 DEF Sent
  <2> QED
    BY <2>2, <2>3, <2>4, <2>5
<1>12. mainPages' \in {mainPages, mainPages \cup {gen}}
  BY <1>3
<1> QED
  BY <1>8, <1>9, <1>11, <1>12 DEF Refreshed, GoneOut

LEMMA UpdateKeeps ==
    ASSUME WInv, (Update /\ UNCHANGED legacyVars) \/ UpdateLegacy
    PROVE  WInv'
<1>1. LegacyTypeOK /\ update + 1 \in Nat /\ OAuthOnly /\ (\A c : KindsNeeded(c) \in SUBSET Kinds)
  BY KindIsKind DEF WInv, LegacyTypeOK, WorkerTypeOK, Always, KindsNeeded
<1>2. CASE Update /\ UNCHANGED legacyVars
  <2>1. PICK choice \in Selections :
           StartUpdate(choice) /\ OAuthRefresh(KindsNeeded(choice), update', wire, calls)
    BY <1>2 DEF Update
  <2>2. update' = update + 1 /\ mode = "OAUTH" /\ ~updating
    BY <1>2, <2>1 DEF StartUpdate, Update, MayUpdate
  <2>3. Refreshed(KindsNeeded(choice), update')
    BY <1>1, <1>2, <2>1, <2>2, OAuthRefreshed DEF legacyVars
  <2>4. /\ UNCHANGED signature /\ ~cancel' /\ cancel' \in BOOLEAN /\ selected' \in BOOLEAN
        /\ mainPages' = {} /\ ~selected'
    BY <1>1, <1>2, <2>2 DEF OAuthOnly, legacyVars, LegacyTypeOK
  <2> QED
    BY <2>1, <2>2, <2>3, <2>4, StartKeeps
<1>3. CASE UpdateLegacy
  <2>1. PICK choice \in Selections :
           StartUpdate(choice) /\ LegacyRefresh(KindsNeeded(choice), update')
    BY <1>3 DEF UpdateLegacy
  <2>2. update' = update + 1 /\ mode = "LEGACY" /\ ~updating
    BY <1>3, <2>1 DEF StartUpdate, UpdateLegacy, MayUpdate
  <2>3. Refreshed(KindsNeeded(choice), update')
    BY <1>1, <2>1, <2>2, LegacyRefreshed
  <2>4. cancel' = FALSE /\ selected' = FALSE /\ UNCHANGED signature
    BY <1>3 DEF UpdateLegacy
  <2> QED
    BY <2>1, <2>2, <2>3, <2>4, StartKeeps
<1> QED
  BY <1>2, <1>3


\* A request that is not for a tab, as the invariant wants it.
ForNoTab(r) ==
    /\ r.tab \notin Tabs /\ r.gen <= update
    /\ (mode = "OAUTH" => r.endpoint = r.tab) /\ (r.tab = "stashList" => r.gen >= 1)

\* Requests are submitted, or the reply to one that is not for a tab comes in: no
\* request for a tab is lost, and none is added.
Moves ==
    /\ wire' \in Seq(Requests) /\ calls' \in Seq(Requests) /\ queue' \in Seq(Requests)
    /\ needed' \in [Kinds -> Nat] /\ known' \subseteq Endpoints
    /\ mainPages' \subseteq 1..update /\ selected' \in BOOLEAN
    /\ (mode = "OAUTH" => mainPages' = {} /\ ~selected')
    /\ ToSet(queue') \subseteq ToSet(queue)
    /\ \A r \in Pending : r.tab \in Tabs => r \in Pending'
    /\ \A r \in Pending' : r \in Pending \/ ForNoTab(r)
    /\ UNCHANGED <<gameVars, update, updating, need, has, tabs, index, items, received>>
    /\ UNCHANGED <<stored, shown, history, signature, cancel>>

LEMMA MovesKeep ==
    ASSUME WInv, Moves, ~spoiled => Idle' /\ Net' /\ Waiting'
    PROVE  WInv'
<1>1. LegacyTypeOK'
  BY DEF WInv, LegacyTypeOK, WorkerTypeOK, Moves, gameVars, history
<1>2. UNCHANGED <<mode, update, need, has, tabs, index, items, shown, stored, signature, cancel>>
  BY DEF Moves, gameVars
<1>3. UNCHANGED <<spoiled, misfiled, mixed, unread>>
  BY DEF Moves, history
<1>4. RequestsFit'
  <2> SUFFICES ASSUME NEW r \in Pending'
               PROVE  /\ r.gen <= update
                      /\ r.tab \in Tabs => r.endpoint \in PartsIn(mode, r.tab)
                      /\ r.tab \notin Tabs /\ mode = "OAUTH" => r.endpoint = r.tab
                      /\ r.tab = "stashList" => r.gen >= 1
    BY <1>2 DEF WInv, Always, RequestsFit, Moves
  <2> QED
    BY DEF WInv, Always, RequestsFit, Moves, ForNoTab
<1>5. Always'
  <2>1. OAuthOnly'
    BY <1>2 DEF WInv, Always, OAuthOnly, Moves
  <2> QED
    BY <1>2, <1>3, <1>4, <2>1, AlwaysKept
<1>6. ASSUME ~spoiled PROVE Sound'
  <2>1. Sound
    BY <1>6 DEF WInv
  <2>2. Index'
    BY <1>2, <2>1 DEF Sound, Index
  <2>3. Good(items)'
    BY <1>2, <1>3, <2>1 DEF Sound, Good, ListedIn, OneSpotIn, NewerIn, UniqueIn
  <2>4. NotYet'
    <3>1. \A l \in items : l.tab \in Tabs
      BY DEF WInv, LegacyTypeOK, WorkerTypeOK, Loads
    <3>2. \A r \in Pending' : r \in Pending \/ r.tab \notin Tabs
      BY DEF Moves, ForNoTab
    <3> QED
      BY <1>2, <2>1, <3>1, <3>2 DEF Sound, NotYet
  <2>5. Covered'
    <3>1. \A r \in Pending : r.tab \in Tabs => r \in Pending'
      BY DEF Moves
    <3> QED
      BY <1>2, <1>3, <2>1, <3>1 DEF Sound, Covered
  <2>6. Signed'
    <3>1. \A r \in Pending' : r \in Pending \/ r.tab \notin Tabs
      BY DEF Moves, ForNoTab
    <3> QED
      BY <1>2, <2>1, <3>1, TabsKinds DEF Sound, Signed
  <2>7. (~cancel => OwnIn(items))'
    BY <1>2, <1>3, <2>1 DEF Sound, OwnIn
  <2> QED
    BY <1>6, <2>2, <2>3, <2>4, <2>5, <2>6, <2>7 DEF Sound
<1> QED
  BY <1>1, <1>3, <1>5, <1>6 DEF WInv

\* When requests that are not for a tab go out, those for tabs stay as they are.
LEMMA TabsStay ==
    ASSUME TabsAsked,
           UNCHANGED <<updating, need, has, tabs, queue>>,
           \A s \in Sent' : s.tab \in Tabs => s \in Sent,
           \A s \in ToSet(calls) : s.tab \in Tabs => s \in ToSet(calls')
    PROVE  TabsAsked'
<1>1. \A r \in Pending' : r.tab \in Tabs => r \in Pending
  BY DEF Pending
<1>2. \A r \in Sent' : r.tab \in Tabs => updating' /\ \A kind \in Kinds : need'[kind] => has'[kind]
  BY DEF TabsAsked
<1>3. \A r \in Pending' :
         r.tab \in Tabs => need'[KindOf(r.tab)] /\ has'[KindOf(r.tab)] /\ tabs'[r.tab] = 1
  BY <1>1 DEF TabsAsked
<1>4. \/ queue' = <<>>
      \/ \E kind \in Kinds : need'[kind] /\ ~has'[kind]
      \/ \E r \in ToSet(calls') : r.tab \in Tabs
  BY DEF TabsAsked
<1> QED
  BY <1>2, <1>3, <1>4 DEF TabsAsked

LEMMA MainPageKeeps ==
    ASSUME WInv, OnLegacyMainPageReceived
    PROVE  WInv'
<1>1. PICK gen \in mainPages, n \in 0..1 :
         /\ mode = "LEGACY"
         /\ mainPages' = mainPages \ {gen}
         /\ selected' \in BOOLEAN
         /\ UNCHANGED known
         /\ Submit(<<LegacyListRequest("character", gen)>>, n, wire, calls)
         /\ UNCHANGED <<gameVars, update, updating, stateVars, queue, stored, shown, history>>
         /\ UNCHANGED <<signature, cancel>>
  BY DEF OnLegacyMainPageReceived
<1> DEFINE r == LegacyListRequest("character", gen)
           q == <<r>>
<1>2. /\ LegacyTypeOK /\ gen \in 1..update /\ gen \in Nat /\ update \in Nat /\ order \in Orders
      /\ wire \in Seq(Requests) /\ calls \in Seq(Requests) /\ queue \in Seq(Requests)
  BY DEF WInv, LegacyTypeOK, WorkerTypeOK
<1>3. r \in Requests /\ r.tab = "characterList" /\ r.gen = gen
  BY <1>2, RequestTypes DEF LegacyListRequest, ListEndpoint, Kinds
<1> HIDE DEF r
<1>4. q \in Seq(Requests) /\ ToSet(q) = {r} /\ Single(q) /\ Len(q) = 1
  BY <1>3, OneOrNone
<1>5. n \in 0..Len(q) /\ Submit(q, n, wire, calls)
  BY <1>1, <1>4 DEF r
<1> HIDE DEF q
<1>6. r.tab \notin Tabs /\ r.tab # "stashList" /\ r.tab # "selected"
  BY <1>3, TabsKinds
<1>7. GoneOut(q, wire, calls)
  <2>1. \A s \in ToSet(q) : s.tab \notin Tabs
    BY <1>4, <1>6
  <2> QED
    BY <1>2, <1>4, <1>5, <2>1, ListsGoOut
<1>8. /\ UNCHANGED <<mode, update, updating, need, has, tabs, index, items, needed, received>>
      /\ UNCHANGED <<queue, known>>
  BY <1>1 DEF gameVars, stateVars
<1>9. (\A s \in Sent' : s \in Sent \/ s = r) /\ (\A s \in Sent : s \in Sent')
  BY <1>4, <1>7 DEF Sent, GoneOut
<1>10. Moves
  <2>1. ForNoTab(r)
    BY <1>1, <1>2, <1>3, <1>6 DEF ForNoTab
  <2>2. mainPages' \subseteq 1..update /\ needed' \in [Kinds -> Nat] /\ known' \subseteq Endpoints
    BY <1>1, <1>2, <1>8 DEF LegacyTypeOK, WorkerTypeOK
  <2>3. wire' \in Seq(Requests) /\ calls' \in Seq(Requests) /\ queue' \in Seq(Requests)
    BY <1>2, <1>7, <1>8 DEF GoneOut
  <2>4. \A s \in Pending' : s \in Pending \/ ForNoTab(s)
    BY <1>8, <1>9, <2>1 DEF Pending
  <2>5. \A s \in Pending : s \in Pending'
    BY <1>8, <1>9 DEF Pending
  <2> QED
    BY <1>1, <1>8, <2>2, <2>3, <2>4, <2>5 DEF Moves
<1>11. ASSUME ~spoiled PROVE Idle' /\ Net' /\ Waiting'
  <2>1. Sound /\ Net /\ Lists
    BY <1>11 DEF WInv, Sound, Net
  <2>2. /\ need["character"] /\ ~has["character"] /\ mainPages = {update} /\ gen = update
        /\ \A s \in Sent : s.tab # "characterList"
    BY <2>1 DEF Lists
  <2>3. mainPages' = {}
    BY <1>1, <2>2
  <2>4. updating
    BY <2>1, <2>2 DEF Sound, Idle
  <2>5. Idle'
    BY <1>8, <2>4 DEF Idle
  <2>6. Waiting'
    BY <1>7, <1>8, <2>1 DEF Sound, Waiting, GoneOut
  <2>7. Separate(calls', wire', queue')
    <3>1. \A s \in ToSet(queue) : s.tab # "characterList"
      BY TabsKinds DEF WInv, Always, RequestsFit
    <3>2. OtherThan(q, ToSet(calls) \cup ToSet(wire) \cup ToSet(queue))
      BY <1>3, <1>4, <2>2, <3>1 DEF OtherThan, Sent
    <3> QED
      BY <1>2, <1>7, <1>8, <2>1, <3>2 DEF GoneOut, Net
  <2>8. Lists'
    <3>1. \A s \in Sent', kind \in Kinds :
             s.tab = ListEndpoint[kind] => updating /\ need[kind] /\ ~has[kind]
      BY <1>3, <1>9, <2>1, <2>2, <2>4 DEF Lists, ListEndpoint, Kinds
    <3>2. \A s \in ToSet(calls') : s.tab = "stashList" => s \in ToSet(calls)
      BY <1>4, <1>6, <1>7 DEF GoneOut
    <3>3. \A s \in ToSet(calls) : ~(s.tab = "stashList" /\ need["character"])
      BY <2>1, <2>2 DEF Lists
    <3> QED
      BY <1>8, <2>3, <3>1, <3>2, <3>3 DEF Lists
  <2>9. TabsAsked'
    <3>1. \A s \in Sent' : s.tab \in Tabs => s \in Sent
      BY <1>6, <1>9
    <3>2. \A s \in ToSet(calls) : s \in ToSet(calls')
      BY <1>7 DEF GoneOut
    <3> QED
      BY <1>8, <2>1, <3>1, <3>2, TabsStay DEF Net
  <2>10. Current'
    BY <1>3, <1>8, <1>9, <2>1, <2>2 DEF Net, Current, Pending
  <2> QED
    BY <2>5, <2>6, <2>7, <2>8, <2>9, <2>10 DEF Net
<1> QED
  BY <1>10, <1>11, MovesKeep

LEMMA SelectedKeeps ==
    ASSUME WInv, SelectedReply
    PROVE  WInv'
<1>1. PICK k \in OldestFor("selected") : NothingMore(k)
  BY DEF SelectedReply
<1>2. /\ k \in DOMAIN wire /\ wire[k].tab = "selected" /\ wire' = Rest(k) /\ calls' = calls
      /\ LegacyTypeOK
  BY <1>1 DEF OldestFor, Oldest, NothingMore, WInv
<1>3. /\ UNCHANGED <<mode, update, updating, need, has, tabs, index, items, needed, received>>
      /\ UNCHANGED <<queue, known, mainPages, selected, cancel, signature>>
  BY DEF SelectedReply, gameVars, stateVars, legacyVars
<1>4. /\ Rest(k) \in Seq(Requests) /\ ToSet(wire) = ToSet(Rest(k)) \cup {wire[k]}
      /\ Separate(calls, wire, queue) => Separate(calls, Rest(k), queue)
      /\ \A kind \in Kinds : Asked(wire, kind) = Asked(Rest(k), kind) + IF OfKind(wire[k], kind) THEN 1 ELSE 0
  BY <1>2, TakenOff
<1>5. "selected" \notin Tabs /\ \A kind \in Kinds : ~OfKind(wire[k], kind)
  BY <1>2, TabsKinds DEF OfKind
<1>6. /\ \A s \in Sent' : s \in Sent
      /\ \A s \in Sent : s \in Sent' \/ s.tab = "selected"
  BY <1>2, <1>4 DEF Sent
<1>7. Moves
  <2>1. \A s \in Pending' : s \in Pending
    BY <1>3, <1>6 DEF Pending
  <2>2. \A s \in Pending : s.tab \in Tabs => s \in Pending'
    BY <1>3, <1>5, <1>6 DEF Pending
  <2>3. wire' \in Seq(Requests)
    BY <1>2, <1>4
  <2>4. /\ calls' \in Seq(Requests) /\ queue' \in Seq(Requests) /\ needed' \in [Kinds -> Nat]
        /\ known' \subseteq Endpoints /\ mainPages' \subseteq 1..update /\ selected' \in BOOLEAN
        /\ (mode = "OAUTH" => mainPages' = {} /\ ~selected')
    BY <1>2, <1>3 DEF LegacyTypeOK, WorkerTypeOK, WInv, Always, OAuthOnly
  <2> QED
    BY <1>3, <2>1, <2>2, <2>3, <2>4 DEF Moves, SelectedReply
<1>8. ASSUME ~spoiled PROVE Idle' /\ Net' /\ Waiting'
  <2>1. Sound /\ Net /\ Lists
    BY <1>8 DEF WInv, Sound, Net
  <2>2. Idle'
    BY <1>3, <1>6, <2>1 DEF Sound, Idle, SelectedReply
  <2>3. Waiting'
    <3>1. \A kind \in Kinds : Asked(wire, kind) = Asked(wire', kind)
      <4> SUFFICES ASSUME NEW kind \in Kinds PROVE Asked(wire, kind) = Asked(wire', kind)
        OBVIOUS
      <4>1. Asked(Rest(k), kind) \in Nat
        BY <1>4, AskedType
      <4> QED
        BY <1>2, <1>4, <1>5, <4>1
    <3> QED
      BY <1>2, <1>3, <2>1, <3>1 DEF Sound, Waiting
  <2>4. Separate(calls', wire', queue')
    BY <1>2, <1>3, <1>4, <2>1 DEF Net
  <2>5. Lists'
    BY <1>2, <1>3, <1>6, <2>1 DEF Lists
  <2>6. TabsAsked'
    BY <1>2, <1>3, <1>6, <2>1, TabsStay DEF Net
  <2>7. Current'
    BY <1>3, <1>6, <2>1 DEF Net, Current, Pending
  <2> QED
    BY <2>2, <2>3, <2>4, <2>5, <2>6, <2>7 DEF Net
<1> QED
  BY <1>7, <1>8, MovesKeep


\* The innermost Submit returns: its request goes out.
Inner == calls[Len(calls)]
Outer == SubSeq(calls, 1, Len(calls) - 1)
Returned(r, stack, w) ==
    /\ r \in Requests /\ stack \in Seq(Requests) /\ w \in Seq(Requests)
    /\ r \in ToSet(calls) /\ ToSet(stack) \subseteq ToSet(calls)
    /\ ToSet(calls) = ToSet(stack) \cup {r} /\ ToSet(w) = ToSet(wire) \cup {r}
    /\ ToSet(stack) \cup ToSet(w) = Sent
    /\ Separate(calls, wire, queue) =>
          Separate(stack, w, queue) /\ \A s \in ToSet(stack) : ~Twin(r, s)
    /\ \A kind \in Kinds :
          Asked(calls, kind) + Asked(wire, kind) = Asked(stack, kind) + Asked(w, kind)

LEMMA ReturnedIs ==
    ASSUME LegacyTypeOK, calls # <<>>
    PROVE  Returned(Inner, Outer, Append(wire, Inner))
<1> DEFINE r == Inner
           stack == Outer
           w == Append(wire, r)
<1>1. calls \in Seq(Requests) /\ wire \in Seq(Requests) /\ queue \in Seq(Requests)
  BY DEF LegacyTypeOK, WorkerTypeOK
<1>2. /\ r \in Requests /\ stack \in Seq(Requests) /\ ToSet(calls) = ToSet(stack) \cup {r}
      /\ Single(calls) => Single(stack) /\ Apart({r}, ToSet(stack))
  BY <1>1, LastOne DEF Inner, Outer
<1>3. \A kind \in Kinds :
         Asked(calls, kind) = Asked(stack, kind) + IF OfKind(r, kind) THEN 1 ELSE 0
  BY <1>1, LastOne DEF Inner, Outer
<1>4. /\ w \in Seq(Requests) /\ ToSet(w) = ToSet(wire) \cup {r}
      /\ Single(w) <=> Single(wire) /\ Apart(ToSet(wire), {r})
  BY <1>1, <1>2, AppendedOne
<1>5. \A kind \in Kinds : Asked(w, kind) = Asked(wire, kind) + IF OfKind(r, kind) THEN 1 ELSE 0
  BY <1>1, <1>2, AppendedOne
<1> HIDE DEF r, stack, w
<1>6. ASSUME Separate(calls, wire, queue)
      PROVE  Separate(stack, w, queue) /\ \A s \in ToSet(stack) : ~Twin(r, s)
  <2>1. Single(stack) /\ Apart({r}, ToSet(stack)) /\ Single(wire) /\ Single(queue)
    BY <1>2, <1>6 DEF Separate
  <2>2. Apart(ToSet(calls), ToSet(wire)) /\ Apart(ToSet(calls) \cup ToSet(wire), ToSet(queue))
    BY <1>6 DEF Separate
  <2>3. \A s, t : Twin(s, t) => Twin(t, s)
    BY DEF Twin
  <2>4. Single(w)
    BY <1>2, <1>4, <2>1, <2>2, <2>3 DEF Apart
  <2>5. Apart(ToSet(stack), ToSet(w)) /\ Apart(ToSet(stack) \cup ToSet(w), ToSet(queue))
    BY <1>2, <1>4, <2>1, <2>2, <2>3 DEF Apart
  <2> QED
    BY <2>1, <2>4, <2>5 DEF Separate, Apart
<1>7. ASSUME NEW kind \in Kinds
      PROVE  Asked(calls, kind) + Asked(wire, kind) = Asked(stack, kind) + Asked(w, kind)
  <2>1. Asked(stack, kind) \in Nat /\ Asked(wire, kind) \in Nat
    BY <1>1, <1>2, AskedType
  <2> QED
    BY <1>3, <1>5, <2>1
<1>8. ToSet(stack) \cup ToSet(w) = Sent
  BY <1>2, <1>4 DEF Sent
<1> QED
  BY <1>2, <1>4, <1>6, <1>7, <1>8 DEF r, stack, w, Returned

\* What any return leaves as it is.
Returns ==
    /\ UNCHANGED <<gameVars, update, updating, need, has, tabs, index, items, received>>
    /\ UNCHANGED <<stored, shown, history, signature, cancel, selected>>

\* Submit returns to FetchItems, which goes on with the queue.
LEMMA FetchReturns ==
    ASSUME WInv, NEW r, r.tab \in Tabs, NEW stack, NEW w, Returned(r, stack, w),
           FetchItems(queue, needed, w, stack), Returns, UNCHANGED mainPages,
           known' \subseteq Endpoints
    PROVE  WInv'
<1>1. /\ LegacyTypeOK /\ queue \in Seq(Requests) /\ needed \in [Kinds -> Nat]
      /\ received \in [Kinds -> Nat]
  BY DEF WInv, LegacyTypeOK, WorkerTypeOK
<1>2. /\ r \in Requests /\ stack \in Seq(Requests) /\ w \in Seq(Requests)
      /\ r \in ToSet(calls) /\ ToSet(stack) \subseteq ToSet(calls)
      /\ ToSet(stack) \cup ToSet(w) = Sent
      /\ Separate(calls, wire, queue) => Separate(stack, w, queue)
  BY DEF Returned
<1>3. \A kind \in Kinds :
         Asked(calls, kind) + Asked(wire, kind) = Asked(stack, kind) + Asked(w, kind)
  BY DEF Returned
<1>4. Fetched(queue, needed, w, stack)
  BY <1>1, <1>2, FetchKeeps
<1>5. /\ wire' \in Seq(Requests) /\ calls' \in Seq(Requests) /\ queue' \in Seq(Requests)
      /\ needed' \in [Kinds -> Nat]
      /\ ToSet(calls') \cup ToSet(wire') \cup ToSet(queue')
            = ToSet(stack) \cup ToSet(w) \cup ToSet(queue)
      /\ ToSet(calls') \subseteq ToSet(stack) \cup ToSet(queue)
      /\ ToSet(queue') \subseteq ToSet(queue)
      /\ queue' # <<>> => \E s \in ToSet(calls') : s \in ToSet(queue)
      /\ Separate(stack, w, queue) => Separate(calls', wire', queue')
  BY <1>4 DEF Fetched
<1>6. \A kind \in Kinds :
         needed'[kind] = needed[kind] + Asked(calls', kind) + Asked(wire', kind)
                            - Asked(stack, kind) - Asked(w, kind)
  BY <1>4 DEF Fetched
<1>7. Pending' = Pending /\ Sent' \subseteq Pending
  BY <1>2, <1>5 DEF Pending, Sent
<1>8. \A s \in ToSet(queue) : s.tab \in Tabs
  BY DEF WInv, Always, RequestsFit
<1>9. UNCHANGED <<mode, update, updating, need, has, tabs, received, mainPages>>
  BY DEF Returns, gameVars
<1>10. Moves
  <2>1. mainPages' \subseteq 1..update /\ selected' \in BOOLEAN /\ (mode = "OAUTH" => mainPages' = {} /\ ~selected')
    BY DEF WInv, LegacyTypeOK, Always, OAuthOnly, Returns
  <2> QED
    BY <1>5, <1>7, <2>1 DEF Moves, Returns
<1>11. ASSUME ~spoiled PROVE Idle' /\ Net' /\ Waiting'
  <2>1. Sound /\ Net /\ Lists /\ TabsAsked
    BY <1>11 DEF WInv, Sound, Net
  <2>2. r \in Sent
    BY <1>2 DEF Sent
  <2>3. updating /\ \A kind \in Kinds : need[kind] => has[kind]
    BY <2>1, <2>2 DEF TabsAsked
  <2>4. Idle'
    BY <1>9, <2>3 DEF Idle
  <2>5. Waiting'
    <3> SUFFICES ASSUME NEW kind \in Kinds
                 PROVE  needed'[kind] - received[kind] = Asked(calls', kind) + Asked(wire', kind)
      BY <1>9 DEF Waiting
    <3>1. /\ needed[kind] \in Nat /\ received[kind] \in Nat
          /\ needed[kind] - received[kind] = Asked(calls, kind) + Asked(wire, kind)
      BY <1>1, <2>1 DEF Sound, Waiting
    <3>2. /\ Asked(calls', kind) \in Nat /\ Asked(wire', kind) \in Nat
          /\ Asked(stack, kind) \in Nat /\ Asked(w, kind) \in Nat
      BY <1>2, <1>5, AskedType
    <3> DEFINE c1 == Asked(calls', kind)
               w1 == Asked(wire', kind)
               c0 == Asked(stack, kind)
               w0 == Asked(w, kind)
               n0 == needed[kind]
               n1 == needed'[kind]
               got == received[kind]
    <3>3. /\ n1 = n0 + c1 + w1 - c0 - w0 /\ n0 - got = c0 + w0
          /\ c1 \in Nat /\ w1 \in Nat /\ c0 \in Nat /\ w0 \in Nat /\ n0 \in Nat /\ got \in Nat
      BY <1>3, <1>6, <3>1, <3>2
    <3> HIDE DEF c1, w1, c0, w0, n0, n1, got
    <3>4. n1 - got = c1 + w1
      BY <3>3
    <3> QED
      BY <3>4 DEF n1, got, c1, w1
  <2>6. Separate(calls', wire', queue')
    BY <1>2, <1>5, <2>1 DEF Net
  <2>7. \A s \in Sent' : s.tab \notin Tabs => s \in Sent
    BY <1>7, <1>8 DEF Pending
  <2>8. Lists'
    <3>1. \A kind \in Kinds : ListEndpoint[kind] \notin Tabs
      BY TabsKinds DEF ListEndpoint, Kinds
    <3>2. \A s \in ToSet(calls') : s.tab \notin Tabs => s \in ToSet(calls)
      BY <1>2, <1>5, <1>8
    <3> QED
      BY <1>9, <2>1, <2>7, <3>1, <3>2, TabsKinds DEF Lists
  <2>9. TabsAsked'
    <3>1. queue' # <<>> => \E s \in ToSet(calls') : s.tab \in Tabs
      BY <1>5, <1>8
    <3> QED
      BY <1>7, <1>9, <2>1, <2>3, <3>1 DEF TabsAsked
  <2>10. Current'
    BY <1>7, <1>9, <2>1 DEF Net, Current
  <2> QED
    BY <2>4, <2>5, <2>6, <2>8, <2>9, <2>10 DEF Net
<1> QED
  BY <1>10, <1>11, MovesKeep


(***************************************************************************)
(* Submit of a request that is not for a tab returns: the requests q go    *)
(* out, if any, or the main page is asked for; both only after the list of *)
(* stash tabs, when the list of characters is needed.                      *)
(***************************************************************************)
Following(r, q) ==
    /\ q \in Seq(Requests) /\ Single(q)
    /\ \A s \in ToSet(q) :
          /\ s.tab = "characterList" /\ s.gen = r.gen /\ (mode = "OAUTH" => s.endpoint = s.tab)
          /\ r.tab = "stashList" /\ need["character"]
FollowingPage(r) ==
    \/ mainPages' = mainPages
    \/ /\ mainPages' = mainPages \cup {r.gen} /\ mode = "LEGACY"
       /\ r.tab = "stashList" /\ need["character"]

LEMMA ListReturns ==
    ASSUME WInv, NEW r, r.tab \notin Tabs, NEW stack, NEW w, Returned(r, stack, w),
           NEW q, Following(r, q), GoneOut(q, w, stack), FollowingPage(r),
           q = <<>> \/ mainPages' = mainPages,
           Returns, UNCHANGED <<queue, needed>>, known' \subseteq Endpoints
    PROVE  WInv'
<1>1. /\ LegacyTypeOK /\ queue \in Seq(Requests) /\ needed \in [Kinds -> Nat] /\ update \in Nat
  BY DEF WInv, LegacyTypeOK, WorkerTypeOK
<1>2. /\ r \in Requests /\ r \in ToSet(calls) /\ ToSet(stack) \subseteq ToSet(calls)
      /\ ToSet(stack) \cup ToSet(w) = Sent
      /\ Separate(calls, wire, queue) =>
            Separate(stack, w, queue) /\ \A s \in ToSet(stack) : ~Twin(r, s)
  BY DEF Returned
<1>3. r \in Sent /\ r \in Pending /\ r.gen <= update /\ (r.tab = "stashList" => r.gen >= 1)
  BY <1>2 DEF Sent, Pending, WInv, Always, RequestsFit
<1>4. \A s \in ToSet(q) :
         /\ s.tab = "characterList" /\ s.gen = r.gen /\ r.tab = "stashList" /\ need["character"]
         /\ s.tab \notin Tabs /\ ForNoTab(s)
  BY <1>3, TabsKinds DEF Following, ForNoTab
<1>5. /\ wire' \in Seq(Requests) /\ calls' \in Seq(Requests)
      /\ ToSet(stack) \subseteq ToSet(calls') /\ ToSet(calls') \subseteq ToSet(stack) \cup ToSet(q)
      /\ \A s \in Sent' : s \in Sent \/ s \in ToSet(q)
      /\ \A s \in Sent : s \in Sent'
  BY <1>2 DEF GoneOut, Sent
<1>6. \A s \in Pending' : s \in Pending \/ s \in ToSet(q)
  BY <1>5 DEF Pending
<1>7. UNCHANGED <<mode, update, updating, need, has, tabs, received>>
  BY DEF Returns, gameVars
<1>8. Moves
  <2>1. mainPages' \subseteq 1..update
    <3>1. r.gen \in Nat
      BY <1>2 DEF Requests
    <3>2. mainPages \subseteq 1..update
      BY <1>1 DEF LegacyTypeOK
    <3>3. r.tab = "stashList" => r.gen \in 1..update
      BY <1>1, <1>3, <3>1
    <3>4. mainPages' = mainPages \/ (mainPages' = mainPages \cup {r.gen} /\ r.tab = "stashList")
      BY DEF FollowingPage
    <3> HIDE DEF FollowingPage
    <3> QED
      BY <3>2, <3>3, <3>4
  <2>2. selected' \in BOOLEAN /\ (mode = "OAUTH" => mainPages' = {} /\ ~selected')
    BY DEF WInv, LegacyTypeOK, Always, OAuthOnly, Returns, FollowingPage
  <2>3. \A s \in Pending' : s \in Pending \/ ForNoTab(s)
    BY <1>4, <1>6
  <2>4. \A s \in Pending : s \in Pending'
    BY <1>5 DEF Pending
  <2> QED
    BY <1>1, <1>5, <2>1, <2>2, <2>3, <2>4 DEF Moves, Returns
<1>9. ASSUME ~spoiled PROVE Idle' /\ Net' /\ Waiting'
  <2>1. Sound /\ Net /\ Lists
    BY <1>9 DEF WInv, Sound, Net
  <2>2. r.tab = "stashList" => updating /\ need["stash"] /\ ~has["stash"]
    BY <1>3, <2>1 DEF Lists, ListEndpoint, Kinds
  <2>3. r.tab = "stashList" /\ need["character"] =>
           ~has["character"] /\ mainPages = {} /\ \A s \in Sent : s.tab # "characterList"
    BY <1>2, <2>1 DEF Lists
  <2>4. r.tab = "stashList" => r.gen = update /\ \A s \in ToSet(stack) : s.tab # "stashList"
    <3>1. r.tab = "stashList" => r.gen = update
      BY <1>3, <2>1 DEF Net, Current
    <3>2. ASSUME r.tab = "stashList", NEW s \in ToSet(stack) PROVE s.tab # "stashList"
      BY <1>2, <2>1, <3>2, TabsKinds DEF Net, Twin
    <3> QED
      BY <3>1, <3>2
  <2>5. Idle'
    <3>1. CASE r.tab = "stashList"
      BY <1>7, <2>2, <3>1 DEF Idle
    <3>2. CASE r.tab # "stashList"
      <4>1. ToSet(q) = {} /\ mainPages' = mainPages
        BY <1>4, <3>2 DEF FollowingPage
      <4>2. \A s \in Sent' : s \in Sent
        BY <1>5, <4>1
      <4> QED
        BY <1>7, <2>1, <4>1, <4>2 DEF Sound, Idle, Returns
    <3> QED
      BY <3>1, <3>2
  <2>6. Waiting'
    BY <1>7, <2>1 DEF Sound, Waiting, GoneOut, Returned
  <2>7. Separate(calls', wire', queue')
    <3>1. \A s \in ToSet(queue) : s.tab # "characterList"
      BY TabsKinds DEF WInv, Always, RequestsFit
    <3>2. OtherThan(q, ToSet(stack) \cup ToSet(w) \cup ToSet(queue))
      BY <1>2, <1>4, <2>3, <3>1 DEF OtherThan
    <3> QED
      BY <1>1, <1>2, <2>1, <3>2 DEF GoneOut, Net
  <2>8. Lists'
    <3>1. \A s \in Sent', kind \in Kinds :
             s.tab = ListEndpoint[kind] => updating /\ need[kind] /\ ~has[kind]
      BY <1>4, <1>5, <2>1, <2>2, <2>3 DEF Lists, ListEndpoint, Kinds
    <3>2. mainPages' # {} =>
             /\ need["character"] /\ ~has["character"] /\ mainPages' = {update}
             /\ \A s \in Sent' : s.tab # "characterList"
      <4>1. CASE mainPages' = mainPages
        <5>1. mainPages # {} => ToSet(q) = {}
          BY <1>4, <2>3
        <5> QED
          BY <1>5, <2>1, <4>1, <5>1 DEF Lists
      <4>2. CASE mainPages' # mainPages
        <5>1. ToSet(q) = {}
          BY <4>2, NothingIn
        <5>2. mainPages' = mainPages \cup {r.gen} /\ r.tab = "stashList" /\ need["character"]
          BY <4>2 DEF FollowingPage
        <5> QED
          BY <1>5, <2>3, <2>4, <5>1, <5>2
      <4> QED
        BY <4>1, <4>2
    <3>3. ASSUME NEW s \in ToSet(calls'), s.tab = "stashList", need["character"]
          PROVE  /\ ~has["character"] /\ mainPages' = {}
                 /\ \A t \in Sent' : t.tab # "characterList"
      <4>1. s \in ToSet(stack) /\ s \in ToSet(calls)
        BY <1>2, <1>4, <1>5, <3>3
      <4>2. r.tab # "stashList"
        BY <2>4, <3>3, <4>1
      <4>3. ToSet(q) = {} /\ mainPages' = mainPages
        BY <1>4, <4>2 DEF FollowingPage
      <4> QED
        BY <1>5, <2>1, <3>3, <4>1, <4>3 DEF Lists
    <3> QED
      BY <1>7, <3>1, <3>2, <3>3 DEF Lists
  <2>9. TabsAsked'
    <3>1. \A s \in Sent' : s.tab \in Tabs => s \in Sent
      BY <1>4, <1>5
    <3>2. \A s \in ToSet(calls) : s.tab \in Tabs => s \in ToSet(calls')
      BY <1>5 DEF Returned
    <3> QED
      BY <1>7, <2>1, <3>1, <3>2, TabsStay DEF Net
  <2>10. Current'
    BY <1>4, <1>6, <1>7, <2>1, <2>4 DEF Net, Current
  <2> QED
    BY <2>5, <2>6, <2>7, <2>8, <2>9, <2>10 DEF Net
<1> QED
  BY <1>8, <1>9, MovesKeep


LEMMA SubmitReturnsKeeps ==
    ASSUME WInv, SubmitReturns, UNCHANGED legacyVars
    PROVE  WInv'
<1> DEFINE r == Inner
           stack == Outer
           w == Append(wire, r)
           kinds == IF r.endpoint = "stashList" /\ need["character"] THEN {"character"} ELSE {}
<1>1. /\ mode = "OAUTH" /\ calls # <<>> /\ known' = known \cup {r.endpoint}
      /\ IF r.tab \in Tabs
         THEN FetchItems(queue, needed, w, stack)
         ELSE OAuthRefresh(kinds, r.gen, w, stack) /\ UNCHANGED <<queue, needed>>
      /\ UNCHANGED <<gameVars, update, updating, need, has, tabs, index, items,
                     received, stored, shown, history>>
  BY DEF SubmitReturns, Inner, Outer
<1>2. LegacyTypeOK /\ order \in Orders
  BY DEF WInv, LegacyTypeOK, WorkerTypeOK
<1>3. Returned(r, stack, w)
  BY <1>1, <1>2, ReturnedIs
<1>4. Returns /\ UNCHANGED mainPages
  BY <1>1 DEF Returns, legacyVars
<1> HIDE DEF r, stack, w
<1>5. r \in Requests /\ r.gen \in Nat /\ r.endpoint \in Endpoints
  BY <1>3 DEF Returned, Requests
<1>6. known' \subseteq Endpoints
  BY <1>1, <1>2, <1>5 DEF LegacyTypeOK, WorkerTypeOK
<1>7. CASE r.tab \in Tabs
  BY <1>1, <1>3, <1>4, <1>6, <1>7, FetchReturns
<1>8. CASE r.tab \notin Tabs
  <2> DEFINE q == ListRequests(kinds, r.gen)
  <2>1. kinds \in SUBSET Kinds
    BY DEF Kinds
  <2>2. /\ q \in Seq(Requests) /\ Single(q)
        /\ \A s \in ToSet(q) : \E kind \in kinds : s = ListRequest(kind, r.gen)
    BY <1>2, <1>5, <2>1, ListsAre
  <2>3. PICK n \in 0..Len(q) : Submit(q, n, w, stack)
    BY <1>1, <1>8 DEF OAuthRefresh
  <2>4. r.endpoint = r.tab
    <3>1. r \in Pending
      BY <1>3 DEF Returned, Pending, Sent
    <3> QED
      BY <1>1, <1>8, <3>1 DEF WInv, Always, RequestsFit
  <2> HIDE DEF q
  <2>5. ASSUME NEW s \in ToSet(q)
        PROVE  /\ s.tab = "characterList" /\ s.gen = r.gen /\ s.endpoint = s.tab
               /\ r.tab = "stashList" /\ need["character"]
    <3>1. PICK kind \in kinds : s = ListRequest(kind, r.gen)
      BY <2>2
    <3>2. kind = "character" /\ r.endpoint = "stashList" /\ need["character"]
      OBVIOUS
    <3>3. ListEndpoint["character"] = "characterList"
      BY DEF ListEndpoint, Kinds
    <3> QED
      BY <2>4, <3>1, <3>2, <3>3 DEF ListRequest
  <2>6. Following(r, q)
    BY <2>2, <2>5 DEF Following
  <2>7. \A s \in ToSet(q) : s.tab \notin Tabs
    BY <2>5, TabsKinds
  <2>8. GoneOut(q, w, stack)
    BY <1>3, <2>2, <2>3, <2>7, ListsGoOut DEF Returned
  <2>9. FollowingPage(r)
    BY <1>4 DEF FollowingPage
  <2> QED
    BY <1>1, <1>3, <1>4, <1>6, <1>8, <2>6, <2>8, <2>9, ListReturns
<1> QED
  BY <1>7, <1>8

LEMMA LegacySubmitReturnsKeeps ==
    ASSUME WInv, LegacySubmitReturns
    PROVE  WInv'
<1> DEFINE r == Inner
           stack == Outer
           w == Append(wire, r)
<1>1. /\ mode = "LEGACY" /\ calls # <<>> /\ known' = known \cup {r.endpoint}
      /\ IF r.tab \in Tabs
         THEN FetchItems(queue, needed, w, stack)
         ELSE wire' = w /\ calls' = stack /\ UNCHANGED <<queue, needed>>
      /\ mainPages' = IF r.tab = "stashList" /\ need["character"]
                      THEN mainPages \cup {r.gen} ELSE mainPages
      /\ Returns
  BY DEF LegacySubmitReturns, Inner, Outer, Returns
<1>2. LegacyTypeOK
  BY DEF WInv
<1>3. Returned(r, stack, w)
  BY <1>1, <1>2, ReturnedIs
<1> HIDE DEF r, stack, w
<1>4. r \in Requests /\ r.endpoint \in Endpoints
  BY <1>3 DEF Returned, Requests
<1>5. known' \subseteq Endpoints
  BY <1>1, <1>2, <1>4 DEF LegacyTypeOK, WorkerTypeOK
<1>6. CASE r.tab \in Tabs
  <2>1. UNCHANGED mainPages
    BY <1>1, <1>6, TabsKinds
  <2> QED
    BY <1>1, <1>3, <1>5, <1>6, <2>1, FetchReturns
<1>7. CASE r.tab \notin Tabs
  <2>1. <<>> \in Seq(Requests) /\ Single(<<>>) /\ ToSet(<<>>) = {}
    BY <1>4, OneOrNone
  <2>2. Following(r, <<>>)
    BY <2>1 DEF Following
  <2>3. GoneOut(<<>>, w, stack)
    <3>1. stack \in Seq(Requests) /\ w \in Seq(Requests) /\ wire' = w /\ calls' = stack
      BY <1>1, <1>3, <1>7 DEF Returned
    <3> QED
      BY <2>1, <3>1 DEF GoneOut
  <2>4. FollowingPage(r)
    BY <1>1 DEF FollowingPage
  <2> QED
    BY <1>1, <1>3, <1>5, <1>7, <2>2, <2>3, <2>4, ListReturns
<1> QED
  BY <1>6, <1>7


-----------------------------------------------------------------------------
(* A list comes in. *)

(***************************************************************************)
(* The requests once the list of this kind is in: those of the new tabs    *)
(* wait in the queue, or they have gone out with what was there.           *)
(***************************************************************************)
Queued(kind, k, q, other) ==
    /\ wire' \in Seq(Requests) /\ calls' \in Seq(Requests) /\ queue' \in Seq(Requests)
    /\ needed' \in [Kinds -> Nat] /\ received' \in [Kinds -> Nat]
    /\ ToSet(calls') \cup ToSet(wire') \cup ToSet(queue')
          = ToSet(calls) \cup ToSet(Rest(k)) \cup ToSet(q)
    /\ ToSet(queue') \subseteq ToSet(q)
    /\ ToSet(calls') \subseteq ToSet(calls) \cup ToSet(q)
    /\ Separate(calls, Rest(k), q) => Separate(calls', wire', queue')
    /\ (\A s \in ToSet(calls) \cup ToSet(Rest(k)) : s.tab \notin Tabs) /\ Waiting => Waiting'
    /\ \/ /\ need[other] /\ ~has[other]
          /\ ToSet(calls') \cup ToSet(wire') = ToSet(calls) \cup ToSet(Rest(k))
       \/ /\ ~(need[other] /\ ~has[other])
          /\ queue' # <<>> => \E s \in ToSet(calls') : s \in ToSet(q)

LEMMA QueuedIs ==
    ASSUME LegacyTypeOK, NEW kind \in Kinds, NEW k \in DOMAIN wire, wire[k].tab \notin Tabs,
           NEW requests \in Seq(Requests), ListReceived(kind, k, requests)
    PROVE  Queued(kind, k, queue \o requests, IF kind = "stash" THEN "character" ELSE "stash")
<1> DEFINE q == queue \o requests
           other == IF kind = "stash" THEN "character" ELSE "stash"
<1>1. /\ queue \in Seq(Requests) /\ calls \in Seq(Requests) /\ wire \in Seq(Requests)
      /\ needed \in [Kinds -> Nat] /\ received \in [Kinds -> Nat] /\ Zero \in [Kinds -> Nat]
  BY DEF LegacyTypeOK, WorkerTypeOK, Zero
<1>2. q \in Seq(Requests)
  BY <1>1, Joined
<1>3. /\ Rest(k) \in Seq(Requests)
      /\ \A c \in Kinds : Asked(wire, c) = Asked(Rest(k), c) + IF OfKind(wire[k], c) THEN 1 ELSE 0
  BY TakenOff
<1>4. IF need[other] /\ ~has[other]
      THEN /\ queue' = q /\ wire' = Rest(k)
           /\ UNCHANGED <<calls, needed, received>>
      ELSE /\ received' = Zero
           /\ FetchItems(q, Zero, Rest(k), calls)
  BY DEF ListReceived, ResetCounters
<1> HIDE DEF q, other
<1>5. \A c \in Kinds : Asked(wire, c) = Asked(Rest(k), c)
  <2> SUFFICES ASSUME NEW c \in Kinds PROVE Asked(wire, c) = Asked(Rest(k), c)
    OBVIOUS
  <2>1. Asked(Rest(k), c) \in Nat /\ ~OfKind(wire[k], c)
    BY <1>3, AskedType DEF OfKind
  <2> QED
    BY <1>3, <2>1
<1>6. CASE need[other] /\ ~has[other]
  <2>1. queue' = q /\ wire' = Rest(k) /\ UNCHANGED <<calls, needed, received>>
    BY <1>4, <1>6
  <2>2. Waiting => Waiting'
    BY <1>5, <2>1 DEF Waiting
  <2> QED
    BY <1>1, <1>2, <1>3, <1>6, <2>1, <2>2 DEF Queued, q, other
<1>7. CASE ~(need[other] /\ ~has[other])
  <2>1. received' = Zero /\ FetchItems(q, Zero, Rest(k), calls)
    BY <1>4, <1>7
  <2>2. Fetched(q, Zero, Rest(k), calls)
    BY <1>1, <1>2, <1>3, <2>1, FetchKeeps
  <2>3. ASSUME \A s \in ToSet(calls) \cup ToSet(Rest(k)) : s.tab \notin Tabs, NEW c \in Kinds
        PROVE  needed'[c] - received'[c] = Asked(calls', c) + Asked(wire', c)
    <3>1. Asked(calls, c) = 0 /\ Asked(Rest(k), c) = 0
      BY <1>1, <1>3, <2>3, AskedNone
    <3>2. received'[c] = 0 /\ Zero[c] = 0
      BY <2>1 DEF Zero
    <3>3. needed'[c] = Zero[c] + Asked(calls', c) + Asked(wire', c)
                          - Asked(calls, c) - Asked(Rest(k), c)
      BY <2>2, <2>3 DEF Fetched
    <3>4. Asked(calls', c) \in Nat /\ Asked(wire', c) \in Nat
      BY <2>2, AskedType DEF Fetched
    <3> DEFINE c1 == Asked(calls', c)
               w1 == Asked(wire', c)
    <3> HIDE DEF c1, w1
    <3>5. needed'[c] = 0 + c1 + w1 - 0 - 0 /\ c1 \in Nat /\ w1 \in Nat
      BY <3>1, <3>2, <3>3, <3>4 DEF c1, w1
    <3>6. needed'[c] - 0 = c1 + w1
      BY <3>5
    <3> QED
      BY <3>2, <3>6 DEF c1, w1
  <2>4. received' \in [Kinds -> Nat]
    BY <1>1, <2>1
  <2> QED
    BY <1>7, <2>2, <2>3, <2>4 DEF Queued, Fetched, Waiting, q, other
<1> QED
  BY <1>6, <1>7


LEMMA ListKeeps ==
    ASSUME WInv, NEW kind \in Kinds, NEW k \in DOMAIN wire, wire[k].tab = ListEndpoint[kind],
           NEW requests, ForNewTabs(kind, requests, wire[k].gen), ListReceived(kind, k, requests),
           UNCHANGED <<cancel, mainPages, selected>>, signature' \in Orders \cup {<<>>},
           mode = "LEGACY" => signature' = IF kind = "stash" THEN order ELSE signature
    PROVE  WInv'
<1> DEFINE other == IF kind = "stash" THEN "character" ELSE "stash"
           new   == NewTabs(kind)
           q     == queue \o requests
           r     == wire[k]
<1>1. /\ UNCHANGED <<gameVars, known, update>>
      /\ tabs' = [t \in Tabs |-> tabs[t] + IF t \in new THEN 1 ELSE 0]
      /\ index' = IF kind = "stash" THEN index \cup new ELSE index
      /\ has' = [has EXCEPT ![kind] = TRUE]
      /\ UNCHANGED <<updating, need, items, stored, shown, history>>
  BY DEF ListReceived, Answered
<1>2. /\ LegacyTypeOK /\ queue \in Seq(Requests) /\ has \in [Kinds -> BOOLEAN]
      /\ tabs \in [Tabs -> Nat] /\ order \in Orders
  BY DEF WInv, LegacyTypeOK, WorkerTypeOK
<1>3. r.tab \notin Tabs /\ r.tab # "selected" /\ (kind = "stash" => r.tab = "stashList")
      /\ (kind = "character" => r.tab = "characterList")
  BY TabsKinds DEF ListEndpoint, Kinds
<1>4. /\ requests \in Seq(Requests) /\ Single(requests)
      /\ \A s \in ToSet(requests) :
            /\ s.tab \in new /\ s.endpoint \in PartsIn(mode, s.tab)
            /\ s.gen = r.gen /\ s.at = PlaceIn(order, s.tab)
      /\ \A t \in new : \A p \in PartsIn(mode, t) :
            \E s \in ToSet(requests) : s.tab = t /\ s.endpoint = p
  BY DEF ForNewTabs
<1>5. Queued(kind, k, q, other)
  BY <1>2, <1>3, <1>4, QueuedIs
<1>6. /\ new \subseteq Tabs /\ \A t \in new : KindOf(t) = kind /\ t \in world /\ t \notin index
  BY <1>2 DEF NewTabs, LegacyTypeOK, WorkerTypeOK
<1>7. ToSet(q) = ToSet(queue) \cup ToSet(requests) /\ q \in Seq(Requests)
  BY <1>2, <1>4, JoinedSet, Joined
<1>8. /\ r \in Requests /\ r \in Sent /\ r \in Pending /\ r.gen <= update
      /\ ToSet(wire) = ToSet(Rest(k)) \cup {r} /\ Rest(k) \in Seq(Requests)
      /\ Separate(calls, wire, queue) =>
            /\ Separate(calls, Rest(k), queue)
            /\ \A s \in ToSet(calls) \cup ToSet(Rest(k)) \cup ToSet(queue) : ~Twin(r, s)
  BY <1>2, TakenOff DEF WInv, Always, RequestsFit
<1> HIDE DEF q, r, new, other
<1>9. \A s \in ToSet(queue) : s.tab \in Tabs
  BY DEF WInv, Always, RequestsFit
<1>10. \A s \in ToSet(q) : s.tab \in Tabs
  BY <1>4, <1>6, <1>7, <1>9
<1>11. Pending' = ToSet(calls) \cup ToSet(Rest(k)) \cup ToSet(queue) \cup ToSet(requests)
  BY <1>5, <1>7 DEF Queued, Pending, Sent
<1>12. /\ ToSet(queue') \subseteq ToSet(q) /\ ToSet(calls') \subseteq ToSet(calls) \cup ToSet(q)
       /\ \A s \in Sent' : s \in ToSet(calls) \cup ToSet(Rest(k)) \cup ToSet(q)
       /\ ToSet(calls) \cup ToSet(Rest(k)) \subseteq Sent
  BY <1>5, <1>8 DEF Queued, Sent
<1>13. \A s \in Pending' : s \in Pending \/ s \in ToSet(requests)
  BY <1>11, <1>12 DEF Pending
<1>14. \A s \in Pending : s.tab \in Tabs => s \in Pending'
  BY <1>3, <1>8, <1>11 DEF Pending, Sent
<1>15. mode' = mode /\ update' = update /\ order' = order
  BY <1>1 DEF gameVars
<1>16. LegacyTypeOK'
  <2>1. tabs' \in [Tabs -> Nat] /\ index' \subseteq Tabs /\ has' \in [Kinds -> BOOLEAN]
    BY <1>1, <1>2, <1>6 DEF LegacyTypeOK, WorkerTypeOK
  <2>2. /\ wire' \in Seq(Requests) /\ calls' \in Seq(Requests) /\ queue' \in Seq(Requests)
        /\ needed' \in [Kinds -> Nat] /\ received' \in [Kinds -> Nat]
    BY <1>5 DEF Queued
  <2> QED
    BY <1>1, <1>2, <2>1, <2>2 DEF LegacyTypeOK, WorkerTypeOK, gameVars, history
<1>17. RequestsFit'
  <2> SUFFICES ASSUME NEW s \in Pending'
               PROVE  /\ s.gen <= update
                      /\ s.tab \in Tabs => s.endpoint \in PartsIn(mode, s.tab)
                      /\ s.tab \notin Tabs /\ mode = "OAUTH" => s.endpoint = s.tab
                      /\ s.tab = "stashList" => s.gen >= 1
    BY <1>10, <1>12, <1>15 DEF RequestsFit
  <2>1. CASE s \in Pending
    BY <2>1 DEF WInv, Always, RequestsFit
  <2>2. CASE s \in ToSet(requests)
    BY <1>4, <1>6, <1>8, <2>2, TabsKinds
  <2> QED
    BY <1>13, <2>1, <2>2
<1>18. Always'
  <2>1. OAuthOnly'
    BY <1>15 DEF WInv, Always, OAuthOnly
  <2> QED
    BY <1>1, <1>15, <1>17, <2>1, AlwaysKept DEF history
<1>19. ASSUME ~spoiled PROVE Sound'
  <2>1. Sound /\ Net /\ Lists /\ TabsAsked /\ Index /\ Good(items)
    BY <1>19 DEF WInv, Sound, Net
  <2>2. updating /\ need[kind] /\ ~has[kind] /\ r.gen = update
    BY <1>3, <1>8, <2>1 DEF Lists, Net, Current, r
  <2>3. \A s \in Sent : s.tab \notin Tabs
    BY <2>1, <2>2 DEF TabsAsked
  <2>4. \A s \in Pending : s.tab \in Tabs => KindOf(s.tab) # kind /\ s \in ToSet(queue)
    BY <2>1, <2>2, <2>3 DEF TabsAsked, Pending
  <2>5. \A t \in new : tabs[t] = 0 /\ tabs'[t] = 1
    BY <1>1, <1>2, <1>6, <2>1, <2>2 DEF Index
  <2>6. \A t \in Tabs : t \notin new => tabs'[t] = tabs[t]
    <3> SUFFICES ASSUME NEW t \in Tabs, t \notin new PROVE tabs'[t] = tabs[t]
      OBVIOUS
    <3>1. tabs[t] \in Nat /\ tabs'[t] = tabs[t] + 0
      BY <1>1, <1>2
    <3> QED
      BY <3>1
  <2>7. \A t \in Tabs : tabs'[t] = 1 <=> (t \in new \/ tabs[t] = 1)
    BY <2>5, <2>6
  <2>8. \A c \in Kinds : has'[c] = (has[c] \/ c = kind)
    BY <1>1, <1>2
  <2>9. Idle'
    BY <1>1, <2>2 DEF Idle
  <2>10. Waiting'
    <3>1. \A s \in ToSet(calls) \cup ToSet(Rest(k)) : s.tab \notin Tabs
      BY <1>12, <2>3
    <3> QED
      BY <1>5, <2>1, <3>1 DEF Queued, Sound
  <2>11. Separate(calls', wire', queue')
    <3>1. Separate(calls, Rest(k), queue)
      BY <1>8, <2>1 DEF Net
    <3>2. Apart(ToSet(queue), ToSet(requests))
      <4>1. \A s \in ToSet(queue), t \in ToSet(requests) : s.tab # t.tab
        BY <1>4, <1>6, <1>9, <2>4 DEF Pending
      <4> QED
        BY <4>1 DEF Apart, Twin
    <3>3. Single(q)
      BY <1>2, <1>4, <3>1, <3>2, SingleTogether DEF Separate, q
    <3>4. Apart(ToSet(calls) \cup ToSet(Rest(k)), ToSet(q))
      BY <1>10, <1>12, <2>3 DEF Apart, Twin
    <3>5. Separate(calls, Rest(k), q)
      BY <3>1, <3>3, <3>4 DEF Separate
    <3> QED
      BY <1>5, <3>5 DEF Queued
  <2>12. \A s \in Sent' : s.tab \notin Tabs => s \in Sent /\ ~Twin(r, s)
    BY <1>8, <1>10, <1>12, <2>1 DEF Net
  <2>13. \A s \in Sent' : s.tab \notin Tabs => s.tab # ListEndpoint[kind]
    BY <1>3, <2>12 DEF Twin, r
  <2>14. Lists'
    <3>1. \A c \in Kinds : ListEndpoint[c] \notin Tabs
      BY TabsKinds DEF ListEndpoint, Kinds
    <3>2. ASSUME NEW s \in Sent', NEW c \in Kinds, s.tab = ListEndpoint[c]
          PROVE  updating' /\ need'[c] /\ ~has'[c]
      <4>1. s.tab \notin Tabs /\ s \in Sent /\ c # kind
        BY <2>12, <2>13, <3>1, <3>2
      <4>2. need[c] /\ ~has[c]
        BY <2>1, <3>2, <4>1 DEF Lists
      <4> QED
        BY <1>1, <2>2, <2>8, <4>1, <4>2
    <3>3. "character" \in Kinds /\ "characterList" \notin Tabs /\ "stashList" \notin Tabs
      BY TabsKinds DEF Kinds
    <3>4. ASSUME mainPages # {}
          PROVE  /\ need["character"] /\ ~has'["character"] /\ mainPages = {update}
                 /\ \A s \in Sent' : s.tab # "characterList"
      <4>1. /\ need["character"] /\ ~has["character"] /\ mainPages = {update}
            /\ \A s \in Sent : s.tab # "characterList"
        BY <2>1, <3>4 DEF Lists
      <4>2. kind # "character"
        BY <1>3, <1>8, <4>1
      <4> QED
        BY <2>8, <2>12, <3>3, <4>1, <4>2
    <3>5. ASSUME NEW s \in ToSet(calls'), s.tab = "stashList", need["character"]
          PROVE  /\ ~has'["character"] /\ mainPages = {}
                 /\ \A t \in Sent' : t.tab # "characterList"
      <4>1. s \in ToSet(calls)
        BY <1>10, <1>12, <3>3, <3>5
      <4>2. ~has["character"] /\ mainPages = {} /\ \A t \in Sent : t.tab # "characterList"
        BY <2>1, <3>5, <4>1 DEF Lists
      <4>3. kind # "character"
        BY <1>3, <1>8, <4>2
      <4> QED
        BY <2>8, <2>12, <3>3, <4>2, <4>3
    <3> QED
      BY <1>1, <1>15, <3>2, <3>4, <3>5 DEF Lists
  <2>15. TabsAsked'
    <3>1. \/ /\ need[other] /\ ~has'[other] /\ other \in Kinds
             /\ Sent' = ToSet(calls) \cup ToSet(Rest(k))
          \/ /\ ~(need[other] /\ ~has[other])
             /\ queue' # <<>> => \E s \in ToSet(calls') : s.tab \in Tabs
      <4>1. other \in Kinds /\ other # kind
        BY DEF other, Kinds
      <4> QED
        BY <1>5, <1>10, <2>8, <4>1 DEF Queued, Sent
    <3>2. \A c \in Kinds : c = kind \/ c = other
      BY DEF other, Kinds
    <3>3. \A s \in Sent' : s.tab \in Tabs => updating' /\ \A c \in Kinds : need'[c] => has'[c]
      <4>1. CASE Sent' = ToSet(calls) \cup ToSet(Rest(k))
        BY <1>12, <2>3, <4>1
      <4>2. CASE ~(need[other] /\ ~has[other])
        BY <1>1, <2>2, <2>8, <3>2, <4>2
      <4> QED
        BY <3>1, <4>1, <4>2
    <3>4. ASSUME NEW s \in Pending', s.tab \in Tabs
          PROVE  need'[KindOf(s.tab)] /\ has'[KindOf(s.tab)] /\ tabs'[s.tab] = 1
      <4>1. CASE s \in Pending
        <5>1. need[KindOf(s.tab)] /\ has[KindOf(s.tab)] /\ tabs[s.tab] = 1
          BY <2>1, <3>4, <4>1 DEF TabsAsked
        <5> QED
          BY <1>1, <2>7, <2>8, <3>4, <5>1, KindIsKind
      <4>2. CASE s \in ToSet(requests)
        <5>1. s.tab \in new /\ KindOf(s.tab) = kind
          BY <1>4, <1>6, <4>2
        <5> QED
          BY <1>1, <2>2, <2>5, <2>8, <5>1
      <4> QED
        BY <1>13, <4>1, <4>2
    <3>5. \/ queue' = <<>>
          \/ \E c \in Kinds : need'[c] /\ ~has'[c]
          \/ \E s \in ToSet(calls') : s.tab \in Tabs
      BY <1>1, <3>1
    <3> QED
      BY <3>3, <3>4, <3>5 DEF TabsAsked
  <2>16. Current'
    BY <1>4, <1>13, <1>15, <2>1, <2>2 DEF Net, Current
  <2>17. Net'
    BY <2>11, <2>14, <2>15, <2>16 DEF Net
  <2>18. Index'
    <3>1. \A t \in Tabs : tabs'[t] \in {0, 1}
      BY <2>1, <2>5, <2>6 DEF Index
    <3>2. ASSUME NEW t \in Tabs, need'[KindOf(t)], ~has'[KindOf(t)]
          PROVE  t \in index' <=> tabs'[t] = 1
      <4>1. KindOf(t) # kind /\ need[KindOf(t)] /\ ~has[KindOf(t)]
        BY <1>1, <2>8, <3>2, KindIsKind
      <4>2. t \notin new
        BY <1>6, <4>1
      <4> QED
        BY <1>1, <2>1, <2>7, <4>1, <4>2 DEF Index
    <3> QED
      BY <3>1, <3>2 DEF Index
  <2>19. \A l \in items : l.tab \in Tabs /\ tabs[l.tab] = 1
    BY <1>2, <2>1 DEF Good, ListedIn, LegacyTypeOK, WorkerTypeOK, Loads
  <2>20. Good(items)'
    <3>1. ListedIn(items)'
      BY <1>1, <2>7, <2>19 DEF ListedIn
    <3> QED
      BY <1>1, <1>15, <2>1, <3>1 DEF history, Good, OneSpotIn, NewerIn, UniqueIn
  <2>21. NotYet'
    <3> SUFFICES ASSUME NEW l \in items, NEW s \in Pending', l.tab = s.tab
                 PROVE  l.part # s.endpoint /\ l.gen = update
      BY <1>1, <1>15 DEF NotYet
    <3>1. CASE s \in Pending
      BY <2>1, <3>1 DEF Sound, NotYet
    <3>2. CASE s \in ToSet(requests)
      BY <1>4, <2>5, <2>19, <3>2
    <3> QED
      BY <1>13, <3>1, <3>2
  <2>22. Covered'
    <3> SUFFICES ASSUME NEW t \in Tabs \ unread, NEW p \in PartsIn(mode, t), tabs'[t] = 1
                 PROVE  \/ \E l \in items : l.tab = t /\ l.part = p
                        \/ \E s \in Pending' : s.tab = t /\ s.endpoint = p
      BY <1>1, <1>15 DEF Covered, history
    <3>1. CASE t \in new
      <4>1. PICK s \in ToSet(requests) : s.tab = t /\ s.endpoint = p
        BY <1>4, <3>1
      <4>2. s \in Pending'
        BY <1>11
      <4> QED
        BY <4>1, <4>2
    <3>2. CASE t \notin new
      <4>1. \/ \E l \in items : l.tab = t /\ l.part = p
            \/ \E s \in Pending : s.tab = t /\ s.endpoint = p
        BY <2>1, <2>7, <3>2 DEF Sound, Covered
      <4> QED
        BY <1>14, <4>1
    <3> QED
      BY <3>1, <3>2
  <2>23. Signed'
    <3> SUFFICES ASSUME mode = "LEGACY", NEW s \in Pending', s.tab \in Stashes
                 PROVE  s.at \in DOMAIN signature' /\ signature'[s.at].id = s.tab
      BY <1>15 DEF Signed
    <3>1. s.tab \in Tabs /\ KindOf(s.tab) = "stash"
      BY TabsKinds
    <3>2. CASE kind = "stash"
      <4>1. s \in ToSet(requests) /\ s.tab \in new /\ s.at = PlaceIn(order, s.tab)
        BY <1>4, <1>13, <2>4, <3>1, <3>2
      <4>2. s.tab \in Ids(order)
        BY <1>2, <1>6, <4>1 DEF LegacyTypeOK, WorkerTypeOK
      <4> QED
        BY <1>2, <3>2, <4>1, <4>2, PlaceType
    <3>3. CASE kind # "stash"
      <4>1. s \notin ToSet(requests)
        BY <1>4, <1>6, <3>1, <3>3
      <4> QED
        BY <1>13, <2>1, <3>3, <4>1 DEF Sound, Signed
    <3> QED
      BY <3>2, <3>3
  <2>24. (~cancel => OwnIn(items))'
    BY <1>1, <2>1 DEF history, Sound, OwnIn
  <2> QED
    BY <2>9, <2>10, <2>17, <2>18, <2>20, <2>21, <2>22, <2>23, <2>24 DEF Sound
<1> QED
  BY <1>1, <1>16, <1>18, <1>19 DEF history, WInv


LEMMA OAuthListKeeps ==
    ASSUME WInv, NEW kind \in Kinds, OAuthListReceived(kind), UNCHANGED legacyVars
    PROVE  WInv'
<1>1. PICK k \in Oldest, new \in InListOrder(NewTabs(kind)) :
         /\ mode = "OAUTH" /\ wire[k].tab = ListEndpoint[kind]
         /\ ListReceived(kind, k, [i \in DOMAIN new |-> TabRequest(new[i], wire[k].gen)])
  BY DEF OAuthListReceived
<1> DEFINE requests == [i \in DOMAIN new |-> TabRequest(new[i], wire[k].gen)]
<1>2. k \in DOMAIN wire /\ LegacyTypeOK
  BY DEF Oldest, WInv
<1>3. wire[k].gen \in Nat
  BY <1>2, TakenOff DEF Requests
<1>4. ForNewTabs(kind, requests, wire[k].gen)
  BY <1>1, <1>2, <1>3, OAuthNewTabs
<1>5. UNCHANGED <<cancel, mainPages, selected>> /\ signature' \in Orders \cup {<<>>} /\ mode # "LEGACY"
  BY <1>1, <1>2 DEF legacyVars, LegacyTypeOK
<1>6. ListReceived(kind, k, requests)
  BY <1>1
<1> HIDE DEF requests
<1> QED
  BY <1>1, <1>2, <1>4, <1>5, <1>6, ListKeeps

LEMMA LegacyStashListKeeps ==
    ASSUME WInv, OnFirstLegacyTabReceived
    PROVE  WInv'
<1>1. PICK k \in OldestFor("stashList"), new \in InListOrder(NewTabs("stash")) :
         ListReceived("stash", k,
                      [i \in DOMAIN new |-> LegacyTabRequest(new[i], "stash", wire[k].gen)])
  BY DEF OnFirstLegacyTabReceived
<1> DEFINE requests == [i \in DOMAIN new |-> LegacyTabRequest(new[i], "stash", wire[k].gen)]
<1>2. /\ k \in DOMAIN wire /\ LegacyTypeOK /\ mode = "LEGACY" /\ "stash" \in Kinds
      /\ wire[k].tab = ListEndpoint["stash"]
  BY DEF OldestFor, Oldest, WInv, ListEndpoint, Kinds
<1>3. wire[k].gen \in Nat
  BY <1>2, TakenOff DEF Requests
<1>4. ForNewTabs("stash", requests, wire[k].gen)
  BY <1>2, <1>3, LegacyNewStashes
<1>5. /\ UNCHANGED <<cancel, mainPages, selected>> /\ signature' = order
      /\ signature' \in Orders \cup {<<>>}
  BY <1>2 DEF OnFirstLegacyTabReceived, LegacyTypeOK, WorkerTypeOK
<1>6. ListReceived("stash", k, requests)
  BY <1>1
<1> HIDE DEF requests
<1> QED
  BY <1>2, <1>4, <1>5, <1>6, ListKeeps

LEMMA LegacyCharacterListKeeps ==
    ASSUME WInv, OnLegacyCharacterListReceived
    PROVE  WInv'
<1>1. PICK k \in OldestFor("characterList"), new \in InListOrder(NewTabs("character")) :
         ListReceived("character", k, TwiceEach(new, wire[k].gen))
  BY DEF OnLegacyCharacterListReceived
<1>2. /\ k \in DOMAIN wire /\ LegacyTypeOK /\ mode = "LEGACY" /\ "character" \in Kinds
      /\ wire[k].tab = ListEndpoint["character"]
  BY DEF OldestFor, Oldest, WInv, ListEndpoint, Kinds
<1>3. wire[k].gen \in Nat
  BY <1>2, TakenOff DEF Requests
<1>4. ForNewTabs("character", TwiceEach(new, wire[k].gen), wire[k].gen)
  BY <1>2, <1>3, LegacyNewCharacters
<1>5. /\ UNCHANGED <<cancel, mainPages, selected>> /\ signature' = signature
      /\ signature' \in Orders \cup {<<>>}
  BY <1>2 DEF OnLegacyCharacterListReceived, legacyVars, LegacyTypeOK
<1> QED
  BY <1>1, <1>2, <1>4, <1>5, ListKeeps

\* A reply that cannot be used: the update is given up.
LEMMA GiveUpKeeps ==
    ASSUME WInv, NEW k \in Oldest, GiveUp(k), UNCHANGED legacyVars
    PROVE  WInv'
<1>1. k \in DOMAIN wire /\ LegacyTypeOK
  BY DEF Oldest, WInv
<1>2. Rest(k) \in Seq(Requests) /\ ToSet(wire) = ToSet(Rest(k)) \cup {wire[k]}
  BY <1>1, TakenOff
<1>3. /\ UNCHANGED <<gameVars, known, update>> /\ wire' = Rest(k)
      /\ updating' = FALSE /\ spoiled' = TRUE
      /\ UNCHANGED <<stateVars, queue, calls, stored, shown, misfiled, mixed, unread, lastBad>>
  BY DEF GiveUp, Answered
<1>4. LegacyTypeOK'
  BY <1>1, <1>2, <1>3 DEF LegacyTypeOK, WorkerTypeOK, gameVars, stateVars, legacyVars
<1>5. \A s \in Pending' : s \in Pending
  BY <1>2, <1>3 DEF Pending, Sent
<1>6. mode' = mode /\ update' = update /\ queue' = queue /\ items' = items
  BY <1>3 DEF gameVars, stateVars
<1>7. RequestsFit'
  BY <1>5, <1>6 DEF WInv, Always, RequestsFit
<1>8. FitIn(items')
  BY <1>6 DEF WInv, Always, LoadsFit
<1> QED
  BY <1>3, <1>4, <1>6, <1>7, <1>8, SpoiledKeeps DEF legacyVars


-----------------------------------------------------------------------------
(* The items of a tab come in, or an error. *)

\* The reply of a tab in the OAuth mode is a load of that tab.
LEMMA OAuthLoad ==
    ASSUME WInv, NEW k \in DOMAIN wire, wire[k].tab \in Tabs, NEW full \in BOOLEAN
    PROVE  LET r == wire[k]
               l == Load(r.tab, r.endpoint, r.at, r.gen, full)
           IN  /\ l \in Loads /\ l.tab = r.tab /\ l.part = r.endpoint /\ l.gen = r.gen
               /\ l.of = l.tab
<1> DEFINE r == wire[k]
<1>1. r \in Requests /\ r \in Pending
  BY TakenOff DEF WInv
<1>2. r.endpoint \in PartsIn(mode, r.tab)
  BY <1>1 DEF WInv, Always, RequestsFit
<1>3. r.endpoint \in Kinds \cup {"jewels"}
  BY <1>2, KindIsKind DEF PartsIn, Kinds
<1>4. r.at \in Places /\ r.gen \in Nat /\ r.tab \in Tabs
  BY <1>1 DEF Requests
<1> HIDE DEF r
<1>5. LET l == Load(r.tab, r.endpoint, r.at, r.gen, full)
      IN  /\ l \in Loads /\ l.tab = r.tab /\ l.part = r.endpoint /\ l.gen = r.gen
          /\ l.of = l.tab
  BY <1>3, <1>4 DEF Load, Loads
<1> QED
  BY <1>5 DEF r

\* In the legacy mode it is one of the tab at the place that was asked for.
LEMMA LegacyLoadIs ==
    ASSUME WInv, mode = "LEGACY", NEW k \in DOMAIN wire, wire[k].tab \in Tabs,
           Answerable(wire[k]), NEW full \in BOOLEAN
    PROVE  LET r == wire[k]
               l == LegacyLoad(r, full)
           IN  /\ l \in Loads /\ l.tab = r.tab /\ l.part = r.endpoint /\ l.gen = r.gen
               /\ \A missing \in BOOLEAN :
                     ~spoiled /\ ~TabsChanged(r, missing) => l.of = l.tab
<1> DEFINE r == wire[k]
           l == LegacyLoad(r, full)
<1>1. r \in Requests /\ r \in Pending /\ order \in Orders
  BY TakenOff DEF WInv, LegacyTypeOK, WorkerTypeOK
<1>2. r.endpoint \in PartsIn(mode, r.tab)
  BY <1>1 DEF WInv, Always, RequestsFit
<1>3. r.endpoint \in Kinds \cup {"jewels"}
  BY <1>2, KindIsKind DEF PartsIn, Kinds
<1>4. r.at \in Places /\ r.gen \in Nat /\ r.tab \in Tabs
  BY <1>1 DEF Requests
<1>5. r.tab \in Stashes => r.at \in DOMAIN order /\ order[r.at].id \in Tabs
  BY <1>1, OrderType, TabsKinds DEF Answerable
<1>6. ~spoiled => (r.tab \in Stashes => r.at \in DOMAIN signature /\ signature[r.at].id = r.tab)
  BY <1>1 DEF WInv, Sound, Signed
<1>7. \A missing \in BOOLEAN :
         r.tab \in Stashes /\ r.at \in DOMAIN signature /\ ~TabsChanged(r, missing)
            => order[r.at] = signature[r.at]
  BY DEF TabsChanged
<1> HIDE DEF r
<1>8. /\ l.tab = r.tab /\ l.part = r.endpoint /\ l.gen = r.gen
      /\ l.of = IF r.tab \in Stashes THEN order[r.at].id ELSE r.tab
  BY DEF LegacyLoad
<1>9. l \in Loads
  BY <1>3, <1>4, <1>5 DEF LegacyLoad, Loads
<1>10. \A missing \in BOOLEAN : ~spoiled /\ ~TabsChanged(r, missing) => l.of = l.tab
  BY <1>5, <1>6, <1>7, <1>8
<1> HIDE DEF l
<1> QED
  BY <1>8, <1>9, <1>10 DEF r, l

\* The reply to the k-th request, which brings l, finishes the update.
Finished(k, l) ==
    /\ Answers(k) /\ Brings(k, l) /\ IsLast(wire[k]) /\ FinishUpdate(items')
    /\ UNCHANGED <<spoiled, unread>> /\ ~cancel' /\ (~spoiled => l.of = l.tab)

LEMMA OAuthItemsKeep ==
    ASSUME WInv, NEW kind, OAuthItemsReceived(kind), UNCHANGED legacyVars
    PROVE  WInv' /\ (shown' = shown \/ \E k \in DOMAIN wire : \E l : Finished(k, l))
<1>1. PICK k \in Oldest, full \in BOOLEAN :
         /\ mode = "OAUTH" /\ wire[k].endpoint = kind /\ wire[k].tab \in world
         /\ Answered(k) /\ wire' = Rest(k)
         /\ items' = Received(wire[k], full) /\ received' = Count(wire[k])
         /\ IF IsLast(wire[k])
            THEN FinishUpdate(items') ELSE UNCHANGED <<updating, stored, shown, misfiled, mixed>>
         /\ UNCHANGED <<need, has, tabs, index, queue, needed, calls, spoiled, unread, lastBad>>
  BY DEF OAuthItemsReceived
<1> DEFINE r == wire[k]
           l == Load(r.tab, r.endpoint, r.at, r.gen, full)
<1>2. k \in DOMAIN wire /\ r.tab \in Tabs /\ LegacyTypeOK
  BY <1>1 DEF Oldest, WInv, LegacyTypeOK, WorkerTypeOK
<1>3. l \in Loads /\ l.tab = r.tab /\ l.part = r.endpoint /\ l.gen = r.gen /\ l.of = l.tab
  BY <1>2, OAuthLoad
<1>4. items' = items \cup {l}
  BY <1>1 DEF Received
<1> HIDE DEF r, l
<1>5. Brings(k, l)
  BY <1>3, <1>4 DEF Brings, r
<1>6. AfterAnswer(k)
  BY <1>1, <1>2, NothingMoreIs
<1>7. Answers(k)
  <2>1. UNCHANGED <<gameVars, update, known>>
    BY <1>1 DEF Answered
  <2> QED
    BY <1>1, <1>2, <1>6, <2>1 DEF Answers, legacyVars, r, LegacyTypeOK, WorkerTypeOK
<1>8. CASE IsLast(wire[k])
  <2>1. ~cancel'
    BY <1>1 DEF legacyVars, WInv, Always, OAuthOnly
  <2>2. Finished(k, l)
    BY <1>1, <1>3, <1>5, <1>7, <1>8, <2>1 DEF Finished
  <2> QED
    BY <1>1, <1>2, <1>3, <1>5, <1>7, <1>8, <2>1, <2>2, FinishKeeps
<1>9. CASE ~IsLast(wire[k])
  BY <1>1, <1>2, <1>3, <1>5, <1>7, <1>9, ReadKeeps
<1> QED
  BY <1>8, <1>9

LEMMA LegacyTabKeeps ==
    ASSUME WInv, NEW k \in Oldest, NEW full \in BOOLEAN, OnLegacyTabReceived(k, full)
    PROVE  WInv' /\ (shown' = shown \/ \E j \in DOMAIN wire : \E l : Finished(j, l))
<1> DEFINE r == wire[k]
           l == LegacyLoad(r, full)
<1>1. /\ mode = "LEGACY" /\ Answered(k) /\ r.tab \in Tabs /\ Answerable(r)
      /\ \E missing \in BOOLEAN : cancel' = (cancel \/ TabsChanged(r, missing))
      /\ items' = items \cup {l} /\ received' = Count(r) /\ lastBad' = FALSE
      /\ UNCHANGED <<need, has, tabs, index, queue, needed, unread>>
      /\ UNCHANGED <<signature, mainPages, selected>>
  BY DEF OnLegacyTabReceived
<1>2. \/ /\ IsLast(r) /\ ~cancel'
         /\ FinishUpdate(items') /\ PreserveSelectedCharacter(k)
         /\ UNCHANGED spoiled
      \/ /\ IsLast(r) /\ cancel'
         /\ updating' = FALSE /\ spoiled' = TRUE
         /\ NothingMore(k) /\ UNCHANGED <<stored, shown, misfiled, mixed>>
      \/ /\ ~IsLast(r)
         /\ NothingMore(k) /\ UNCHANGED <<updating, stored, shown, spoiled, misfiled, mixed>>
  BY DEF OnLegacyTabReceived
<1>3. k \in DOMAIN wire /\ LegacyTypeOK
  BY DEF Oldest, WInv
<1>4. /\ l \in Loads /\ l.tab = r.tab /\ l.part = r.endpoint /\ l.gen = r.gen
      /\ ~spoiled /\ ~cancel' => l.of = l.tab
  BY <1>1, <1>3, LegacyLoadIs
<1> HIDE DEF r, l
<1>5. Brings(k, l)
  BY <1>1, <1>4 DEF Brings, r
<1>6. AfterAnswer(k)
  BY <1>1, <1>2, <1>3, NothingMoreIs, PreserveIs DEF NothingMore
<1>7. Answers(k)
  <2>1. UNCHANGED <<gameVars, update, known>>
    BY <1>1 DEF Answered
  <2>2. cancel' \in BOOLEAN /\ (cancel => cancel') /\ unread \in SUBSET Tabs
    BY <1>1, <1>3 DEF LegacyTypeOK, WorkerTypeOK, TabsChanged
  <2> QED
    BY <1>1, <1>6, <2>1, <2>2 DEF Answers, r
<1>8. CASE IsLast(r) /\ ~cancel'
  <2>1. Finished(k, l)
    BY <1>1, <1>2, <1>4, <1>5, <1>7, <1>8 DEF Finished, r
  <2> QED
    BY <1>2, <1>3, <1>4, <1>5, <1>7, <1>8, <2>1, FinishKeeps DEF r
<1>9. CASE IsLast(r) /\ cancel'
  <2>1. /\ updating' = FALSE /\ spoiled' = TRUE /\ UNCHANGED <<stored, shown, misfiled, mixed>>
    BY <1>2, <1>9
  <2>2. FitIn(items') /\ items' \in SUBSET Loads
    BY <1>1, <1>3, <1>4, LoadArrives DEF r
  <2>3. UNCHANGED <<mode, update, mainPages, selected, need, has, tabs, index, queue, needed, signature>>
    BY <1>1 DEF Answered, gameVars
  <2>4. RequestsFit'
    BY <1>1, <1>3, <1>6, <2>3, AnswerKeeps DEF r
  <2>5. LegacyTypeOK'
    BY <1>3, <1>7, <2>1, <2>2, AnswerTypes DEF LegacyTypeOK, WorkerTypeOK, DiskType
  <2> QED
    BY <1>1, <2>1, <2>2, <2>3, <2>4, <2>5, SpoiledKeeps
<1>10. CASE ~IsLast(r)
  BY <1>2, <1>3, <1>4, <1>5, <1>7, <1>10, ReadKeeps
<1> QED
  BY <1>8, <1>9, <1>10

LEMMA LegacyErrorKeeps ==
    ASSUME WInv, NEW k \in Oldest, LegacyTabError(k)
    PROVE  WInv'
<1> DEFINE r == wire[k]
<1>1. /\ mode = "LEGACY" /\ Answered(k) /\ r.tab \in Tabs /\ received' = Count(r)
      /\ unread' = unread \cup {r.tab} /\ lastBad' = TRUE
      /\ wire' = Rest(k) /\ calls' = calls
      /\ UNCHANGED <<need, has, tabs, index, items, queue, needed, stored, shown, misfiled, mixed>>
      /\ UNCHANGED <<signature, cancel, mainPages, selected>>
  BY DEF LegacyTabError, ErrorCount, NothingMore, legacyVars
<1>2. IF IsLast(r) /\ cancel
      THEN updating' = FALSE /\ spoiled' = TRUE ELSE UNCHANGED <<updating, spoiled>>
  BY DEF LegacyTabError
<1>3. k \in DOMAIN wire /\ LegacyTypeOK
  BY DEF Oldest, WInv
<1> HIDE DEF r
<1>4. BringsError(k)
  BY <1>1 DEF BringsError, r
<1>5. AfterAnswer(k)
  BY <1>1, <1>3, NothingMoreIs
<1>6. Answers(k)
  <2>1. UNCHANGED <<gameVars, update, known>>
    BY <1>1 DEF Answered
  <2>2. cancel \in BOOLEAN /\ unread \in SUBSET Tabs
    BY <1>3 DEF LegacyTypeOK, WorkerTypeOK
  <2> QED
    BY <1>1, <1>5, <2>1, <2>2 DEF Answers, r
<1>7. CASE IsLast(r) /\ cancel
  <2>1. updating' = FALSE /\ spoiled' = TRUE
    BY <1>2, <1>7
  <2>2. FitIn(items') /\ items' \in SUBSET Loads
    BY <1>1, <1>3 DEF WInv, Always, LoadsFit, LegacyTypeOK, WorkerTypeOK
  <2>3. UNCHANGED <<mode, update, mainPages, selected, need, has, tabs, index, queue, needed, signature>>
    BY <1>1 DEF Answered, gameVars
  <2>4. RequestsFit'
    BY <1>1, <1>3, <1>5, <2>3, AnswerKeeps DEF r
  <2>5. LegacyTypeOK'
    BY <1>1, <1>3, <1>6, <2>1, <2>2, AnswerTypes DEF LegacyTypeOK, WorkerTypeOK, DiskType
  <2> QED
    BY <1>1, <2>1, <2>2, <2>3, <2>4, <2>5, SpoiledKeeps
<1>8. CASE ~(IsLast(r) /\ cancel)
  BY <1>1, <1>2, <1>3, <1>4, <1>6, <1>8, ReadKeeps
<1> QED
  BY <1>7, <1>8


-----------------------------------------------------------------------------
(* The program ends or dies, and is started again; the player plays. *)

LEMMA OAuthFresh ==
    ASSUME WInv, mode = "OAUTH", UNCHANGED legacyVars
    PROVE  Fresh
BY DEF WInv, LegacyTypeOK, Always, OAuthOnly, Fresh, legacyVars

LEMMA LegacyFresh ==
    ASSUME WInv, mode = "LEGACY", ForgetLegacy
    PROVE  Fresh
BY DEF Fresh, ForgetLegacy

LEMMA OAuthCrashHolds ==
    ASSUME WInv, CrashInFinishUpdate, UNCHANGED legacyVars
    PROVE  WInv' /\ LosesNothing
<1>1. PICK k \in Oldest, full \in BOOLEAN :
         wire[k].tab \in world /\ IsLast(wire[k]) /\ CrashAmidWrites(Received(wire[k], full))
  BY DEF CrashInFinishUpdate
<1> DEFINE r == wire[k]
           l == Load(r.tab, r.endpoint, r.at, r.gen, full)
<1>2. k \in DOMAIN wire /\ r.tab \in Tabs /\ mode = "OAUTH"
  BY <1>1 DEF Oldest, WInv, LegacyTypeOK, WorkerTypeOK, CrashInFinishUpdate
<1>3. l \in Loads /\ l.tab = r.tab /\ l.part = r.endpoint /\ l.gen = r.gen /\ l.of = l.tab
  BY <1>2, OAuthLoad
<1>4. Received(r, full) = items \cup {l}
  BY DEF Received
<1> HIDE DEF r, l
<1>5. /\ FitIn(items \cup {l}) /\ items \cup {l} \in SUBSET Loads
      /\ ~spoiled => Good(items \cup {l})
  BY <1>2, <1>3, LoadArrives DEF r
<1>6. ~spoiled => OwnIn(items \cup {l})
  BY <1>2, <1>3 DEF WInv, Sound, Always, OAuthOnly, OwnIn
<1>7. Fresh
  BY <1>2, OAuthFresh
<1> QED
  BY <1>1, <1>4, <1>5, <1>6, <1>7, CrashHolds DEF r

LEMMA LegacyCrashHolds ==
    ASSUME WInv, CrashInLegacyFinishUpdate
    PROVE  WInv' /\ LosesNothing
<1>1. PICK k \in Oldest, full \in BOOLEAN :
         LET r == wire[k] IN
         /\ r.tab \in Tabs /\ Answerable(r) /\ IsLast(r) /\ ~TabsChanged(r, FALSE)
         /\ CrashAmidWrites(items \cup {LegacyLoad(r, full)})
  BY DEF CrashInLegacyFinishUpdate
<1> DEFINE r == wire[k]
           l == LegacyLoad(r, full)
<1>2. k \in DOMAIN wire /\ mode = "LEGACY" /\ ~cancel /\ ForgetLegacy
  BY DEF Oldest, CrashInLegacyFinishUpdate
<1>3. /\ l \in Loads /\ l.tab = r.tab /\ l.part = r.endpoint /\ l.gen = r.gen
      /\ ~spoiled => l.of = l.tab
  BY <1>1, <1>2, LegacyLoadIs
<1>4. CrashAmidWrites(items \cup {l}) /\ r.tab \in Tabs
  BY <1>1
<1> HIDE DEF r, l
<1>5. /\ FitIn(items \cup {l}) /\ items \cup {l} \in SUBSET Loads
      /\ ~spoiled => Good(items \cup {l})
  BY <1>2, <1>3, <1>4, LoadArrives DEF r
<1>6. ~spoiled => OwnIn(items \cup {l})
  BY <1>2, <1>3 DEF WInv, Sound, OwnIn
<1>7. Fresh
  BY <1>2, LegacyFresh
<1> QED
  BY <1>4, <1>5, <1>6, <1>7, CrashHolds

LEMMA RestartsHold ==
    ASSUME WInv, (mode = "OAUTH" /\ Restart /\ UNCHANGED legacyVars) \/ RestartLegacy
    PROVE  WInv' /\ LosesNothing
<1>1. Restart /\ Fresh
  BY OAuthFresh, LegacyFresh DEF RestartLegacy
<1> QED
  BY <1>1, RestartHolds

\* The game is not in the invariant, but for the tabs there are.
LEMMA PlayKeeps ==
    ASSUME WInv, (Play /\ UNCHANGED legacyVars) \/ PlayLegacy
    PROVE  WInv'
<1>1. /\ UNCHANGED <<mode, update, updating, stateVars, queue, netVars, stored, shown, history>>
      /\ UNCHANGED legacyVars /\ changes' = changes + 1
  BY DEF Play, PlayLegacy, legacyVars
<1>2. /\ order \in Orders /\ world \subseteq Tabs /\ world \cap Stashes = Ids(order) /\ changes \in Nat
  BY DEF WInv, LegacyTypeOK, WorkerTypeOK
<1>3. order' \in Orders /\ world' \subseteq Tabs /\ world' \cap Stashes = Ids(order')
  <2>1. CASE \E c \in Characters : world' = (world \ {c}) \cup ({c} \ world) /\ UNCHANGED order
    BY <1>2, <2>1, TabsKinds
  <2>2. CASE order' \in Orders /\ world' = (world \ Stashes) \cup Ids(order')
    <3>1. Ids(order') \subseteq Stashes
      BY <2>2, PlaceType
    <3> QED
      BY <1>2, <2>2, <3>1, TabsKinds
  <2> QED
    BY <2>1, <2>2 DEF Play, PlayLegacy, OldNames
<1>4. LegacyTypeOK'
  BY <1>1, <1>2, <1>3 DEF WInv, LegacyTypeOK, WorkerTypeOK, stateVars, netVars, history, legacyVars
<1>5. UNCHANGED ownVars
  BY <1>1 DEF ownVars, netVars
<1>6. (Always => Always') /\ (Sound => Sound') /\ spoiled' = spoiled
  BY <1>1, <1>5, SameState DEF history
<1> QED
  BY <1>4, <1>6 DEF WInv

LEMMA StutterKeeps ==
    ASSUME WInv, UNCHANGED allVars
    PROVE  WInv'
<1>1. LegacyTypeOK'
  BY DEF WInv, LegacyTypeOK, WorkerTypeOK, allVars, workerVars, gameVars, stateVars, netVars,
         history, legacyVars
<1>2. UNCHANGED ownVars /\ spoiled' = spoiled
  BY DEF ownVars, allVars, workerVars, gameVars, netVars, history
<1> QED
  BY <1>1, <1>2, SameState DEF WInv

LEMMA StepHolds ==
    ASSUME WInv, [EitherNext]_allVars
    PROVE  WInv'
<1>1. CASE mode = "OAUTH" /\ WorkerNext /\ UNCHANGED legacyVars
  <2>1. CASE Play
    BY <1>1, <2>1, PlayKeeps
  <2>2. CASE Update
    BY <1>1, <2>2, UpdateKeeps
  <2>3. CASE OnOAuthStashListReceived \/ OnOAuthCharacterListReceived
    BY <1>1, <2>3, OAuthListKeeps DEF OnOAuthStashListReceived, OnOAuthCharacterListReceived, Kinds
  <2>4. CASE OnOAuthStashReceived \/ OnOAuthCharacterReceived
    BY <1>1, <2>4, OAuthItemsKeep DEF OnOAuthStashReceived, OnOAuthCharacterReceived
  <2>5. CASE BadReply
    BY <1>1, <2>5, GiveUpKeeps DEF BadReply
  <2>6. CASE SubmitReturns
    BY <1>1, <2>6, SubmitReturnsKeeps
  <2>7. CASE Restart
    BY <1>1, <2>7, RestartsHold
  <2>8. CASE CrashInFinishUpdate
    BY <1>1, <2>8, OAuthCrashHolds
  <2> QED
    BY <1>1, <2>1, <2>2, <2>3, <2>4, <2>5, <2>6, <2>7, <2>8 DEF WorkerNext
<1>2. CASE PlayLegacy
  BY <1>2, PlayKeeps
<1>3. CASE UpdateLegacy
  BY <1>3, UpdateKeeps
<1>4. CASE OnLegacyMainPageReceived
  BY <1>4, MainPageKeeps
<1>5. CASE OnFirstLegacyTabReceived
  BY <1>5, LegacyStashListKeeps
<1>6. CASE OnLegacyCharacterListReceived
  BY <1>6, LegacyCharacterListKeeps
<1>7. CASE BadLegacyList
  BY <1>7, GiveUpKeeps DEF BadLegacyList, OldestFor
<1>8. CASE \E k \in Oldest :
              (\E full \in BOOLEAN : OnLegacyTabReceived(k, full)) \/ LegacyTabError(k)
  BY <1>8, LegacyTabKeeps, LegacyErrorKeeps
<1>9. CASE SelectedReply
  BY <1>9, SelectedKeeps
<1>10. CASE LegacySubmitReturns
  BY <1>10, LegacySubmitReturnsKeeps
<1>11. CASE RestartLegacy
  BY <1>11, RestartsHold
<1>12. CASE CrashInLegacyFinishUpdate
  BY <1>12, LegacyCrashHolds
<1>13. CASE UNCHANGED allVars
  BY <1>13, StutterKeeps
<1> QED
  BY <1>1, <1>2, <1>3, <1>4, <1>5, <1>6, <1>7, <1>8, <1>9, <1>10, <1>11, <1>12, <1>13
     DEF EitherNext, LegacyNext

\* The inductive invariant: requests, items, disk and window fit together in every state,
\* and as long as no update was given up every part of every listed tab is read, kept
\* from before or still asked for, once.
THEOREM WInvHolds == EitherSpec => []WInv
<1>1. LegacyInit => WInv
  BY InitHolds
<1>2. WInv /\ [EitherNext]_allVars => WInv'
  BY StepHolds
<1> QED
  BY <1>1, <1>2, PTL DEF EitherSpec

\* Whatever the tabs and the characters, in either mode: the variables have their
\* types, and as long as no update was given up, the requests the worker counts as
\* missing are exactly those that Submit keeps back or that are not answered yet.
THEOREM WorkerInvHolds == EitherSpec => []WorkerInv
<1>1. WInv => WorkerInv
  BY DEF WInv, Sound, Waiting, WorkerInv, WaitingIsCounted
<1> QED
  BY <1>1, WInvHolds, PTL


-----------------------------------------------------------------------------
(* What a finished update shows, and what a restart finds. *)

\* Only a restart makes the rate limiter forget an endpoint, and only the last reply or
\* a restart shows anything.
StepShows ==
    \/ received' = Zero /\ LosesNothing
    \/ known \subseteq known' /\ (shown' = shown \/ \E k \in DOMAIN wire : \E l : Finished(k, l))

LEMMA RestartForgets ==
    ASSUME WInv, (Restart \/ \E loads : CrashAmidWrites(loads))
    PROVE  received' = Zero
<1>1. ASSUME NEW disk, RestartOver(disk) PROVE received' = Zero
  BY <1>1 DEF RestartOver
<1>2. CASE Restart
  BY <1>1, <1>2 DEF Restart
<1>3. CASE \E loads : CrashAmidWrites(loads)
  BY <1>1, <1>3 DEF CrashAmidWrites
<1> QED
  BY <1>2, <1>3

LEMMA StepIs ==
    ASSUME WInv, [EitherNext]_allVars
    PROVE  StepShows
<1>1. CASE mode = "OAUTH" /\ WorkerNext /\ UNCHANGED legacyVars
  <2>1. CASE Play
    BY <2>1 DEF Play, StepShows, netVars
  <2>2. CASE Update
    BY <2>2 DEF Update, StartUpdate, StepShows
  <2>3. CASE OnOAuthStashListReceived \/ OnOAuthCharacterListReceived
    BY <2>3 DEF OnOAuthStashListReceived, OnOAuthCharacterListReceived, OAuthListReceived,
                ListReceived, Answered, StepShows
  <2>4. CASE OnOAuthStashReceived \/ OnOAuthCharacterReceived
    <3>1. PICK kind : OAuthItemsReceived(kind)
      BY <2>4 DEF OnOAuthStashReceived, OnOAuthCharacterReceived
    <3>2. known' = known
      BY <3>1 DEF OAuthItemsReceived, Answered
    <3> QED
      BY <1>1, <3>1, <3>2, OAuthItemsKeep DEF StepShows
  <2>5. CASE BadReply
    BY <2>5 DEF BadReply, GiveUp, Answered, StepShows
  <2>6. CASE SubmitReturns
    BY <2>6 DEF SubmitReturns, StepShows
  <2>7. CASE Restart
    BY <1>1, <2>7, RestartsHold, RestartForgets DEF StepShows
  <2>8. CASE CrashInFinishUpdate
    BY <1>1, <2>8, OAuthCrashHolds, RestartForgets DEF CrashInFinishUpdate, StepShows
  <2> QED
    BY <1>1, <2>1, <2>2, <2>3, <2>4, <2>5, <2>6, <2>7, <2>8 DEF WorkerNext
<1>2. CASE PlayLegacy
  BY <1>2 DEF PlayLegacy, StepShows, netVars
<1>3. CASE UpdateLegacy
  BY <1>3 DEF UpdateLegacy, StartUpdate, StepShows
<1>4. CASE OnLegacyMainPageReceived
  BY <1>4 DEF OnLegacyMainPageReceived, StepShows
<1>5. CASE OnFirstLegacyTabReceived
  BY <1>5 DEF OnFirstLegacyTabReceived, ListReceived, Answered, StepShows
<1>6. CASE OnLegacyCharacterListReceived
  BY <1>6 DEF OnLegacyCharacterListReceived, ListReceived, Answered, StepShows
<1>7. CASE BadLegacyList
  BY <1>7 DEF BadLegacyList, GiveUp, Answered, StepShows
<1>8. CASE \E k \in Oldest :
              (\E full \in BOOLEAN : OnLegacyTabReceived(k, full)) \/ LegacyTabError(k)
  <2>1. ASSUME NEW k \in Oldest, NEW full \in BOOLEAN, OnLegacyTabReceived(k, full)
        PROVE  StepShows
    <3>1. known' = known
      BY <2>1 DEF OnLegacyTabReceived, Answered
    <3> QED
      BY <2>1, <3>1, LegacyTabKeeps DEF StepShows
  <2>2. ASSUME NEW k \in Oldest, LegacyTabError(k) PROVE StepShows
    BY <2>2 DEF LegacyTabError, Answered, StepShows
  <2> QED
    BY <1>8, <2>1, <2>2
<1>9. CASE SelectedReply
  BY <1>9 DEF SelectedReply, StepShows
<1>10. CASE LegacySubmitReturns
  BY <1>10 DEF LegacySubmitReturns, StepShows
<1>11. CASE RestartLegacy
  BY <1>11, RestartsHold, RestartForgets DEF RestartLegacy, StepShows
<1>12. CASE CrashInLegacyFinishUpdate
  BY <1>12, LegacyCrashHolds, RestartForgets DEF CrashInLegacyFinishUpdate, StepShows
<1>13. CASE UNCHANGED allVars
  BY <1>13 DEF allVars, workerVars, netVars, StepShows
<1> QED
  BY <1>1, <1>2, <1>3, <1>4, <1>5, <1>6, <1>7, <1>8, <1>9, <1>10, <1>11, <1>12, <1>13
     DEF EitherNext, LegacyNext

\* A reply is counted, and the program is not started again.
LEMMA FinishIs ==
    ASSUME WInv, [EitherNext]_allVars, Finishes
    PROVE  \E k \in DOMAIN wire : \E l : Finished(k, l)
<1>1. received \in [Kinds -> Nat]
  BY DEF WInv, LegacyTypeOK, WorkerTypeOK
<1>2. received' # Zero
  <2>1. SUFFICES ASSUME received' = Zero PROVE FALSE
    OBVIOUS
  <2>2. Total(received') = 0
    BY <2>1 DEF Total, Zero, Kinds
  <2>3. Total(received) \in Nat
    BY <1>1 DEF Total, Kinds
  <2> QED
    BY <2>2, <2>3 DEF Finishes
<1> QED
  BY <1>2, StepIs DEF StepShows, Finishes

\* As long as no update was given up: when an update is finished, every request it made
\* is answered, those included that Submit kept back in a nested loop.
THEOREM FinishedIsAnsweredHolds == EitherSpec => FinishedIsAnswered
<1>1. ASSUME WInv, [EitherNext]_allVars, Finishes, ~spoiled
      PROVE  /\ queue' = <<>>
             /\ \A r \in ToSet(calls') \cup ToSet(wire') : r.tab = "selected"
  <2>1. PICK k \in DOMAIN wire : \E l : Finished(k, l)
    BY <1>1, FinishIs
  <2>2. PICK l : Finished(k, l)
    BY <2>1
  <2>3. queue' = <<>> /\ \A r \in Sent' : r.tab = "selected"
    BY <1>1, <2>2, AnswerKeeps DEF Finished, Answers, gameVars
  <2> QED
    BY <2>3 DEF Sent
<1>2. WInv /\ [EitherNext]_allVars
        => [Finishes /\ ~spoiled =>
              /\ queue' = <<>>
              /\ \A r \in ToSet(calls') \cup ToSet(wire') : r.tab = "selected"]_workerVars
  BY <1>1
<1> QED
  BY <1>2, WInvHolds, PTL DEF EitherSpec, FinishedIsAnswered

\* As long as no update was given up, and no two tabs or updates were saved as one: what a
\* finished update shows is whole, every listed tab once, with every part of its items
\* once, and nothing else.
THEOREM UpdateIsWholeHolds == EitherSpec => UpdateIsWhole
<1>1. ASSUME WInv, [EitherNext]_allVars, Finishes, ~spoiled, ~misfiled, ~mixed
      PROVE  Whole(tabs', shown'.items)
  <2>1. PICK k \in DOMAIN wire : \E l : Finished(k, l)
    BY <1>1, FinishIs
  <2>2. PICK l : Finished(k, l)
    BY <2>1
  <2>3. /\ shown'.items = items' /\ tabs' = tabs /\ unread' = unread /\ mode' = mode
        /\ wire[k].tab \in Tabs /\ items' = items \cup {l} /\ spoiled' = spoiled
    BY <2>2 DEF Finished, Answers, Brings, FinishUpdate, gameVars
  <2>4. FitIn(items') /\ items' \in SUBSET Loads /\ Good(items')
    BY <1>1, <2>2, <2>3, LoadArrives DEF Finished, Brings
  <2>5. WInv'
    BY <1>1, StepHolds
  <2>6. Index' /\ Covered' /\ TabsAsked'
    BY <1>1, <2>3, <2>5 DEF WInv, Sound, Net
  <2>7. \A r \in Pending' : r.tab \notin Tabs
    <3>1. queue' = <<>> /\ \A r \in Sent' : r.tab = "selected"
      BY <1>1, <2>2, AnswerKeeps DEF Finished, Answers, gameVars
    <3> QED
      BY <3>1, NothingIn, TabsKinds DEF Pending
  <2>8. ASSUME NEW t \in Tabs
        PROVE  /\ tabs'[t] \in {0, 1}
               /\ \A m, n \in ItemsOf(t, items') : m.part = n.part => m = n
               /\ t \notin unread =>
                     {m.part : m \in ItemsOf(t, items')} = IF tabs'[t] = 1 THEN Parts(t) ELSE {}
    <3>1. tabs'[t] \in {0, 1}
      BY <2>6 DEF Index
    <3>2. \A m, n \in ItemsOf(t, items') : m.part = n.part => m = n
      BY <1>1, <2>4 DEF Good, UniqueIn, ItemsOf
    <3>3. \A m \in ItemsOf(t, items') : m.part \in Parts(t) /\ tabs'[t] = 1
      BY <2>3, <2>4 DEF Good, ListedIn, FitIn, ItemsOf, Parts
    <3>4. ASSUME t \notin unread, tabs'[t] = 1, NEW p \in Parts(t)
          PROVE  \E m \in ItemsOf(t, items') : m.part = p
      <4>1. \/ \E m \in items' : m.tab = t /\ m.part = p
            \/ \E r \in Pending' : r.tab = t /\ r.endpoint = p
        BY <2>3, <2>6, <3>4 DEF Covered, Parts
      <4> QED
        BY <2>7, <4>1 DEF ItemsOf
    <3> QED
      BY <3>1, <3>2, <3>3, <3>4
  <2> QED
    BY <2>3, <2>8 DEF Whole
<1>2. WInv /\ [EitherNext]_allVars
        => [Finishes /\ ~spoiled /\ ~misfiled /\ ~mixed => Whole(tabs', shown'.items)]_workerVars
  BY <1>1
<1> QED
  BY <1>2, WInvHolds, PTL DEF EitherSpec, UpdateIsWhole

\* Whatever the player does with the tabs meanwhile, a finished update shows the items of
\* every tab under that tab, as long as no update was given up and no two tabs were saved
\* as one.
THEOREM ItemsAreTheTabsHolds == EitherSpec => ItemsAreTheTabs
<1>1. ASSUME WInv, [EitherNext]_allVars, Finishes, ~spoiled, ~misfiled
      PROVE  \A m \in shown'.items : m.of = m.tab
  <2>1. PICK k \in DOMAIN wire : \E l : Finished(k, l)
    BY <1>1, FinishIs
  <2>2. PICK l : Finished(k, l)
    BY <2>1
  <2>3. shown'.items = items \cup {l} /\ ~cancel /\ l.of = l.tab
    BY <1>1, <2>2 DEF Finished, Answers, Brings, FinishUpdate
  <2>4. OwnIn(items)
    BY <1>1, <2>3 DEF WInv, Sound
  <2> QED
    BY <1>1, <2>3, <2>4 DEF OwnIn
<1>2. WInv /\ [EitherNext]_allVars
        => [Finishes /\ ~spoiled /\ ~misfiled => \A l \in shown'.items : l.of = l.tab]_allVars
  BY <1>1
<1>3. EitherSpec
        => [][Finishes /\ ~spoiled /\ ~misfiled => \A l \in shown'.items : l.of = l.tab]_allVars
  BY <1>2, WInvHolds, PTL DEF EitherSpec
<1> QED
  BY <1>3 DEF ItemsAreTheTabs

\* A program that ends or dies, between any two writes of FinishUpdate, and is started
\* again, shows nothing older than before and nothing of two updates in one tab, and as
\* long as no list of tabs was written every tab; but for tabs that were saved as one
\* and what was saved after an update was given up.
THEOREM RestartLosesNothingHolds == EitherSpec => RestartLosesNothing
<1>1. ASSUME WInv, [EitherNext]_allVars, Restarted
      PROVE  LosesNothing
  BY <1>1, StepIs DEF StepShows, Restarted
<1>2. WInv /\ [EitherNext]_allVars
        => [Restarted /\ ~misfiled' =>
              /\ \A l \in Full(shown.items) :
                    l.tab \in shown'.tabs =>
                        \E m \in Full(shown'.items) : m.tab = l.tab /\ (spoiled \/ m.gen >= l.gen)
              /\ ~spoiled /\ ~mixed =>
                    \A l, m \in Full(shown'.items) : l.tab = m.tab => l.gen = m.gen
              /\ stored'.tabs = stored.tabs => shown.tabs \subseteq shown'.tabs]_workerVars
  BY <1>1 DEF LosesNothing
<1> QED
  BY <1>2, WInvHolds, PTL DEF EitherSpec, RestartLosesNothing

=============================================================================
