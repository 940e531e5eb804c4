---------------------------- MODULE HandlerQueues ----------------------------
(***************************************************************************)
(* Facts about the queue of an io_context: handlers leave it at the head   *)
(* and are queued at the end.  The invariants of the sessions say which    *)
(* handlers are queued and which one runs before which; these lemmas say   *)
(* what becomes of such a claim when a handler runs and others are queued. *)
(* Where elements leave from anywhere, or only how many there are of a     *)
(* kind matters, they are cut out, replaced and counted.                   *)
(***************************************************************************)
EXTENDS Integers, Sequences, FiniteSets, SequenceTheorems, FiniteSetTheorems,
        FunctionTheorems, TLAPS

\* Handler x is queued.
Holds(q, x) == \E k \in DOMAIN q : q[k] = x

\* Handler x is queued at most once.
Once(q, x) == \A j, k \in DOMAIN q : q[j] = x /\ q[k] = x => j = k

\* Every x that is queued has a y behind it.
Before(q, x, y) ==
  \A k \in DOMAIN q : q[k] = x => \E j \in DOMAIN q : j > k /\ q[j] = y

\* The places in the queue that remain when the head leaves it.
LEMMA TailPlaces ==
  ASSUME NEW S, NEW q \in Seq(S), q # << >>
  PROVE  /\ Tail(q) \in Seq(S)
         /\ Head(q) \in S /\ Head(q) = q[1] /\ 1 \in DOMAIN q
         /\ \A k \in DOMAIN Tail(q) : k + 1 \in DOMAIN q /\ Tail(q)[k] = q[k + 1]
         /\ \A k \in DOMAIN q :
              k # 1 => k - 1 \in DOMAIN Tail(q) /\ Tail(q)[k - 1] = q[k]
         /\ DOMAIN q \subseteq Nat \ {0} /\ DOMAIN Tail(q) \subseteq Nat \ {0}
<1>1. /\ Tail(q) \in Seq(S)
      /\ Head(q) \in S /\ Head(q) = q[1]
      /\ Len(Tail(q)) = Len(q) - 1
      /\ \A k \in 1 .. Len(Tail(q)) : Tail(q)[k] = q[k + 1]
  BY HeadTailProperties
<1>2. /\ Len(q) \in Nat /\ DOMAIN q = 1 .. Len(q)
      /\ Len(Tail(q)) \in Nat /\ DOMAIN Tail(q) = 1 .. Len(Tail(q))
  BY <1>1, LenProperties
<1>3. ASSUME NEW k \in DOMAIN q, k # 1
      PROVE  k - 1 \in DOMAIN Tail(q) /\ Tail(q)[k - 1] = q[k]
  <2>1. k - 1 \in DOMAIN Tail(q) /\ k - 1 + 1 = k
    BY <1>1, <1>2, <1>3
  <2> QED
    BY <1>1, <1>2, <2>1
<1> QED
  BY <1>1, <1>2, <1>3

\* The places in a queue that grew.
LEMMA ConcatPlaces ==
  ASSUME NEW S, NEW q \in Seq(S), NEW e \in Seq(S)
  PROVE  /\ q \o e \in Seq(S)
         /\ Len(q) \in Nat
         /\ \A k \in DOMAIN q : k \in DOMAIN (q \o e) /\ (q \o e)[k] = q[k] /\ k <= Len(q)
         /\ \A k \in DOMAIN e : Len(q) + k \in DOMAIN (q \o e) /\ (q \o e)[Len(q) + k] = e[k]
         /\ \A k \in DOMAIN (q \o e) :
              \/ k \in DOMAIN q /\ (q \o e)[k] = q[k]
              \/ /\ k - Len(q) \in DOMAIN e /\ (q \o e)[k] = e[k - Len(q)]
                 /\ k > Len(q)
         /\ DOMAIN q \subseteq Nat \ {0} /\ DOMAIN e \subseteq Nat \ {0}
         /\ DOMAIN (q \o e) \subseteq Nat \ {0}
<1>1. /\ q \o e \in Seq(S)
      /\ Len(q \o e) = Len(q) + Len(e)
      /\ \A k \in 1 .. Len(q) + Len(e) :
           (q \o e)[k] = IF k <= Len(q) THEN q[k] ELSE e[k - Len(q)]
  BY ConcatProperties
<1>2. /\ Len(q) \in Nat /\ DOMAIN q = 1 .. Len(q)
      /\ Len(e) \in Nat /\ DOMAIN e = 1 .. Len(e)
      /\ DOMAIN (q \o e) = 1 .. Len(q) + Len(e)
  BY <1>1, LenProperties
<1>3. ASSUME NEW k \in DOMAIN e
      PROVE  Len(q) + k \in DOMAIN (q \o e) /\ (q \o e)[Len(q) + k] = e[k]
  <2>1. /\ Len(q) + k \in 1 .. Len(q) + Len(e)
        /\ ~ Len(q) + k <= Len(q)
        /\ Len(q) + k - Len(q) = k
    BY <1>2
  <2> QED
    BY <1>1, <1>2, <2>1
<1>4. ASSUME NEW k \in DOMAIN (q \o e), k \notin DOMAIN q
      PROVE  k - Len(q) \in DOMAIN e /\ (q \o e)[k] = e[k - Len(q)] /\ k > Len(q)
  BY <1>1, <1>2, <1>4
<1> QED
  BY <1>1, <1>2, <1>3, <1>4

\* What is queued when the head has left.
LEMMA TailHolds ==
  ASSUME NEW S, NEW q \in Seq(S), q # << >>, NEW x
  PROVE  /\ Holds(q, x) <=> Head(q) = x \/ Holds(Tail(q), x)
         /\ Once(q, x) => Once(Tail(q), x)
         /\ Once(q, x) /\ Head(q) = x => ~Holds(Tail(q), x)
<1> DEFINE t == Tail(q)
<1>1. /\ t \in Seq(S)
      /\ Head(q) = q[1] /\ 1 \in DOMAIN q
      /\ \A k \in DOMAIN t : k + 1 \in DOMAIN q /\ t[k] = q[k + 1]
      /\ \A k \in DOMAIN q : k # 1 => k - 1 \in DOMAIN t /\ t[k - 1] = q[k]
      /\ DOMAIN q \subseteq Nat \ {0} /\ DOMAIN t \subseteq Nat \ {0}
  BY TailPlaces
<1>2. Tail(q) = t
  OBVIOUS
<1> HIDE DEF t
<1> QED
  BY <1>1, <1>2 DEF Holds, Once

\* Order survives when the head leaves.
LEMMA TailBefore ==
  ASSUME NEW S, NEW q \in Seq(S), q # << >>, NEW x, NEW y, Before(q, x, y)
  PROVE  Before(Tail(q), x, y)
<1> DEFINE t == Tail(q)
<1>1. /\ t \in Seq(S)
      /\ \A k \in DOMAIN t : k + 1 \in DOMAIN q /\ t[k] = q[k + 1]
      /\ \A k \in DOMAIN q : k # 1 => k - 1 \in DOMAIN t /\ t[k - 1] = q[k]
      /\ DOMAIN q \subseteq Nat \ {0} /\ DOMAIN t \subseteq Nat \ {0}
  BY TailPlaces
<1> HIDE DEF t
<1>2. ASSUME NEW k \in DOMAIN t, t[k] = x
      PROVE  \E j \in DOMAIN t : j > k /\ t[j] = y
  <2>1. k + 1 \in DOMAIN q /\ q[k + 1] = x
    BY <1>1, <1>2
  <2>2. PICK j \in DOMAIN q : j > k + 1 /\ q[j] = y
    BY <2>1 DEF Before
  <2>3. j # 1 /\ j - 1 > k
    BY <1>1, <2>2
  <2> QED
    BY <1>1, <2>2, <2>3
<1>3. Before(t, x, y)
  BY <1>2 DEF Before
<1> QED
  BY <1>3 DEF t

\* What is queued in a queue that grew.
LEMMA ConcatHolds ==
  ASSUME NEW S, NEW q \in Seq(S), NEW e \in Seq(S), NEW x
  PROVE  /\ Holds(q \o e, x) <=> Holds(q, x) \/ Holds(e, x)
         /\ Once(q, x) /\ ~Holds(e, x) => Once(q \o e, x)
         /\ Once(e, x) /\ ~Holds(q, x) => Once(q \o e, x)
<1> DEFINE r == q \o e
<1>1. /\ Len(q) \in Nat
      /\ \A k \in DOMAIN q : k \in DOMAIN r /\ r[k] = q[k] /\ k <= Len(q)
      /\ \A k \in DOMAIN e : Len(q) + k \in DOMAIN r /\ r[Len(q) + k] = e[k]
      /\ \A k \in DOMAIN r :
           \/ k \in DOMAIN q /\ r[k] = q[k]
           \/ k - Len(q) \in DOMAIN e /\ r[k] = e[k - Len(q)] /\ k > Len(q)
      /\ DOMAIN q \subseteq Nat \ {0} /\ DOMAIN e \subseteq Nat \ {0}
      /\ DOMAIN r \subseteq Nat \ {0}
  BY ConcatPlaces
<1> HIDE DEF r
<1>2. Holds(r, x) <=> Holds(q, x) \/ Holds(e, x)
  BY <1>1 DEF Holds
<1>3. Once(q, x) /\ ~Holds(e, x) => Once(r, x)
  BY <1>1 DEF Holds, Once
<1>4. Once(e, x) /\ ~Holds(q, x) => Once(r, x)
  BY <1>1 DEF Holds, Once
<1> QED
  BY <1>2, <1>3, <1>4 DEF r

\* Order in a queue that grew: it holds in both parts, or what is queued brings
\* the y for every x before it.
LEMMA ConcatBefore ==
  ASSUME NEW S, NEW q \in Seq(S), NEW e \in Seq(S), NEW x, NEW y,
         Before(e, x, y), Before(q, x, y) \/ Holds(e, y)
  PROVE  Before(q \o e, x, y)
<1> DEFINE r == q \o e
<1>1. /\ Len(q) \in Nat
      /\ \A k \in DOMAIN q : k \in DOMAIN r /\ r[k] = q[k] /\ k <= Len(q)
      /\ \A k \in DOMAIN e : Len(q) + k \in DOMAIN r /\ r[Len(q) + k] = e[k]
      /\ \A k \in DOMAIN r :
           \/ k \in DOMAIN q /\ r[k] = q[k]
           \/ k - Len(q) \in DOMAIN e /\ r[k] = e[k - Len(q)] /\ k > Len(q)
      /\ DOMAIN q \subseteq Nat \ {0} /\ DOMAIN e \subseteq Nat \ {0}
      /\ DOMAIN r \subseteq Nat \ {0}
  BY ConcatPlaces
<1> HIDE DEF r
<1>2. ASSUME NEW k \in DOMAIN r, r[k] = x
      PROVE  \E j \in DOMAIN r : j > k /\ r[j] = y
  <2>1. CASE k \in DOMAIN q /\ r[k] = q[k]
    <3>1. CASE Before(q, x, y)
      <4>1. PICK j \in DOMAIN q : j > k /\ q[j] = y
        BY <1>2, <2>1, <3>1 DEF Before
      <4> QED
        BY <1>1, <4>1
    <3>2. CASE Holds(e, y)
      <4>1. PICK j \in DOMAIN e : e[j] = y
        BY <3>2 DEF Holds
      <4>2. k <= Len(q) /\ Len(q) + j > k
        BY <1>1, <2>1
      <4> QED
        BY <1>1, <4>1, <4>2
    <3> QED
      BY <3>1, <3>2
  <2>2. CASE k - Len(q) \in DOMAIN e /\ r[k] = e[k - Len(q)]
    <3>1. PICK j \in DOMAIN e : j > k - Len(q) /\ e[j] = y
      BY <1>2, <2>2 DEF Before
    <3>2. Len(q) + j > k
      BY <1>1, <3>1
    <3> QED
      BY <1>1, <3>1, <3>2
  <2> QED
    BY <1>1, <2>1, <2>2
<1>3. Before(r, x, y)
  BY <1>2 DEF Before
<1> QED
  BY <1>3 DEF r

\* A queue of some handlers is one of more handlers.
LEMMA WiderQueue ==
  ASSUME NEW S, NEW T, S \subseteq T, NEW q \in Seq(S)
  PROVE  q \in Seq(T)
<1>1. Len(q) \in Nat /\ q \in [1 .. Len(q) -> S]
  BY LenProperties
<1>2. q \in [1 .. Len(q) -> T]
  BY <1>1
<1> QED
  BY <1>1, <1>2 DEF Seq

\* Short queues.
LEMMA ShortQueues ==
  /\ \A x : ~Holds(<< >>, x)
  /\ \A a, x : (Holds(<<a>>, x) <=> x = a) /\ Once(<<a>>, x)
BY DEF Holds, Once

\* What is not queued is in order.
LEMMA NothingBefore ==
  ASSUME NEW q, NEW x, NEW y, ~Holds(q, x)
  PROVE  Before(q, x, y) /\ Once(q, x)
BY DEF Holds, Before, Once

-----------------------------------------------------------------------------
(* Queues that lose an element anywhere, and how many elements they have.  *)

\* The elements of q around place k.
Older(q, k) == SubSeq(q, 1, k - 1)
Newer(q, k) == SubSeq(q, k + 1, Len(q))

\* A queue in three parts, and with another element at place k.
LEMMA CutPlaces ==
  ASSUME NEW S, NEW q \in Seq(S), NEW k \in DOMAIN q
  PROVE  /\ Older(q, k) \in Seq(S) /\ Newer(q, k) \in Seq(S)
         /\ q = Older(q, k) \o (<<q[k]>> \o Newer(q, k))
         /\ SubSeq(q, 1, k) = Older(q, k) \o <<q[k]>>
<1>1. Len(q) \in Nat /\ DOMAIN q = 1 .. Len(q) /\ k \in 1 .. Len(q)
      /\ \A i \in 1 .. Len(q) : q[i] \in S
  BY LenProperties, ElementOfSeq
<1>2. Older(q, k) \in Seq(S) /\ Newer(q, k) \in Seq(S)
  BY <1>1, SubSeqProperties DEF Older, Newer
<1>3. SubSeq(q, k, Len(q)) = <<q[k]>> \o Newer(q, k)
  <2>1. k \in 1 .. Len(q) /\ Len(q) \in k .. Len(q)
    BY <1>1
  <2> QED
    BY <2>1, SubSeqRecursiveFirst DEF Newer
<1>4. SubSeq(q, 1, Len(q)) = Older(q, k) \o SubSeq(q, k, Len(q))
  <2>1. SubSeq(q, 1, k - 1) \o SubSeq(q, k - 1 + 1, Len(q)) = SubSeq(q, 1, Len(q))
    BY <1>1, ConcatAdjacentSubSeq
  <2>2. k - 1 + 1 = k
    BY <1>1
  <2> QED
    BY <2>1, <2>2 DEF Older
<1>5. SubSeq(q, 1, Len(q)) = q
  BY SubSeqFull
<1>6. SubSeq(q, 1, k) = Older(q, k) \o <<q[k]>>
  <2>1. 1 \in 1 .. Len(q) /\ k \in 1 .. Len(q)
    BY <1>1
  <2> QED
    BY <2>1, SubSeqRecursiveSecond DEF Older
<1> QED
  BY <1>2, <1>3, <1>4, <1>5, <1>6

LEMMA ReplacePlaces ==
  ASSUME NEW S, NEW q \in Seq(S), NEW k \in DOMAIN q, NEW x \in S
  PROVE  LET r == [q EXCEPT ![k] = x] IN
         /\ r \in Seq(S) /\ DOMAIN r = DOMAIN q /\ r[k] = x
         /\ \A j \in DOMAIN q : j # k => r[j] = q[j]
         /\ r = Older(q, k) \o (<<x>> \o Newer(q, k))
<1> DEFINE r == [q EXCEPT ![k] = x]
<1>1. Len(q) \in Nat /\ DOMAIN q = 1 .. Len(q) /\ k \in 1 .. Len(q)
      /\ \A i \in 1 .. Len(q) : q[i] \in S
  BY LenProperties, ElementOfSeq
<1>2. /\ r \in Seq(S) /\ Len(r) = Len(q)
      /\ DOMAIN r = DOMAIN q /\ r[k] = x
      /\ \A j \in DOMAIN q : j # k => r[j] = q[j]
  BY <1>1, ExceptSeq
<1> HIDE DEF r
<1>3. r = Older(r, k) \o (<<r[k]>> \o Newer(r, k))
  BY <1>1, <1>2, CutPlaces
<1>4. Older(r, k) = Older(q, k)
  <2>1. /\ \A i \in 1 .. k - 1 : q[i] \in S /\ r[i] \in S /\ r[i] = q[i]
        /\ 1 \in Int /\ k - 1 \in Int
    BY <1>1, <1>2
  <2>2. /\ Older(q, k) \in Seq(S) /\ Older(r, k) \in Seq(S)
        /\ Len(Older(q, k)) = Len(Older(r, k))
        /\ Len(Older(q, k)) = IF 1 <= k - 1 THEN k - 1 - 1 + 1 ELSE 0
        /\ \A i \in 1 .. k - 1 - 1 + 1 : /\ Older(q, k)[i] = q[1 + i - 1]
                                         /\ Older(r, k)[i] = r[1 + i - 1]
    BY <2>1, SubSeqProperties DEF Older
  <2>3. \A i \in 1 .. Len(Older(r, k)) : Older(r, k)[i] = Older(q, k)[i]
    <3> SUFFICES ASSUME NEW i \in 1 .. Len(Older(r, k))
                 PROVE  Older(r, k)[i] = Older(q, k)[i]
      OBVIOUS
    <3>1. i \in 1 .. k - 1 - 1 + 1 /\ i \in 1 .. k - 1 /\ 1 + i - 1 = i
      BY <1>1, <2>2
    <3> QED
      BY <2>1, <2>2, <3>1
  <2> QED
    BY <2>2, <2>3, SeqEqual
<1>5. Newer(r, k) = Newer(q, k)
  <2>1. /\ \A i \in k + 1 .. Len(q) : q[i] \in S /\ r[i] \in S /\ r[i] = q[i]
        /\ k + 1 \in Int /\ Len(q) \in Int
    BY <1>1, <1>2
  <2>2. /\ Newer(q, k) \in Seq(S) /\ Newer(r, k) \in Seq(S)
        /\ Len(Newer(q, k)) = Len(Newer(r, k))
        /\ Len(Newer(q, k)) = IF k + 1 <= Len(q) THEN Len(q) - (k + 1) + 1 ELSE 0
        /\ \A i \in 1 .. Len(q) - (k + 1) + 1 : /\ Newer(q, k)[i] = q[k + 1 + i - 1]
                                                /\ Newer(r, k)[i] = r[k + 1 + i - 1]
    BY <1>2, <2>1, SubSeqProperties DEF Newer
  <2>3. \A i \in 1 .. Len(Newer(r, k)) : Newer(r, k)[i] = Newer(q, k)[i]
    <3> SUFFICES ASSUME NEW i \in 1 .. Len(Newer(r, k))
                 PROVE  Newer(r, k)[i] = Newer(q, k)[i]
      OBVIOUS
    <3>1. /\ i \in 1 .. Len(q) - (k + 1) + 1
          /\ k + 1 + i - 1 \in k + 1 .. Len(q)
      BY <1>1, <2>2
    <3> QED
      BY <2>1, <2>2, <3>1
  <2> QED
    BY <2>2, <2>3, SeqEqual
<1>6. r = Older(q, k) \o (<<x>> \o Newer(q, k))
  BY <1>2, <1>3, <1>4, <1>5
<1> QED
  BY <1>2, <1>6 DEF r

\* How many elements of q are in P.
Places(q, P) == {k \in DOMAIN q : q[k] \in P}
Number(q, P) == Cardinality(Places(q, P))

LEMMA NumberType ==
  ASSUME NEW S, NEW q \in Seq(S), NEW P
  PROVE  IsFiniteSet(Places(q, P)) /\ Number(q, P) \in Nat
<1>1. Len(q) \in Nat /\ Places(q, P) \subseteq 1 .. Len(q)
  BY LenProperties DEF Places
<1>2. IsFiniteSet(1 .. Len(q))
  BY <1>1, FS_Interval
<1> QED
  BY <1>1, <1>2, FS_Subset, FS_CardinalityType DEF Number

LEMMA NumberOfShort ==
  ASSUME NEW P
  PROVE  /\ Number(<< >>, P) = 0
         /\ \A x : Number(<<x>>, P) = IF x \in P THEN 1 ELSE 0
<1>1. Number(<< >>, P) = 0
  <2>1. Places(<< >>, P) = {}
    BY DEF Places
  <2> QED
    BY <2>1, FS_EmptySet DEF Number
<1>2. ASSUME NEW x, x \in P
      PROVE  Number(<<x>>, P) = 1
  <2>1. Places(<<x>>, P) = {1}
    BY <1>2 DEF Places
  <2> QED
    BY <2>1, FS_Singleton DEF Number
<1>3. ASSUME NEW x, x \notin P
      PROVE  Number(<<x>>, P) = 0
  <2>1. Places(<<x>>, P) = {}
    BY <1>3 DEF Places
  <2> QED
    BY <2>1, FS_EmptySet DEF Number
<1> QED
  BY <1>1, <1>2, <1>3

LEMMA NumberOfConcat ==
  ASSUME NEW S, NEW q \in Seq(S), NEW e \in Seq(S), NEW P
  PROVE  Number(q \o e, P) = Number(q, P) + Number(e, P)
<1> DEFINE r == q \o e
           A == Places(q, P)
           B == Places(e, P)
           f == [k \in B |-> Len(q) + k]
           C == {Len(q) + k : k \in B}
<1>1. /\ Len(q) \in Nat
      /\ \A k \in DOMAIN q : k \in DOMAIN r /\ r[k] = q[k] /\ k <= Len(q)
      /\ \A k \in DOMAIN e : Len(q) + k \in DOMAIN r /\ r[Len(q) + k] = e[k]
      /\ \A k \in DOMAIN r :
           \/ k \in DOMAIN q /\ r[k] = q[k]
           \/ k - Len(q) \in DOMAIN e /\ r[k] = e[k - Len(q)] /\ k > Len(q)
      /\ DOMAIN q \subseteq Nat \ {0} /\ DOMAIN e \subseteq Nat \ {0}
      /\ DOMAIN r \subseteq Nat \ {0}
  BY ConcatPlaces
<1> HIDE DEF r
<1>2. IsFiniteSet(A) /\ IsFiniteSet(B)
  BY NumberType
<1>3. Places(r, P) = A \union C
  <2>1. ASSUME NEW k \in Places(r, P)
        PROVE  k \in A \union C
    <3>1. k \in DOMAIN r /\ r[k] \in P /\ k \in Int
      BY <1>1 DEF Places
    <3>2. CASE k - Len(q) \in DOMAIN e /\ r[k] = e[k - Len(q)]
      <4>1. k - Len(q) \in B /\ Len(q) + (k - Len(q)) = k
        BY <1>1, <3>1, <3>2 DEF Places
      <4> QED
        BY <4>1
    <3> QED
      BY <1>1, <3>1, <3>2 DEF Places
  <2>2. A \union C \subseteq Places(r, P)
    BY <1>1 DEF Places
  <2> QED
    BY <2>1, <2>2
<1>4. A \intersect C = {}
  BY <1>1 DEF Places
<1>5. f \in Bijection(B, C)
  <2>1. f \in [B -> C]
    OBVIOUS
  <2>2. \A j, k \in B : f[j] = f[k] => j = k
    BY <1>1 DEF Places
  <2>3. \A c \in C : \E k \in B : f[k] = c
    OBVIOUS
  <2> HIDE DEF f, C
  <2> QED
    BY <2>1, <2>2, <2>3, Fun_IsBij
<1>6. IsFiniteSet(C) /\ Cardinality(C) = Cardinality(B)
  BY <1>2, <1>5, FS_Bijection DEF ExistsBijection
<1>7. Cardinality(A \union C) = Cardinality(A) + Cardinality(C) - Cardinality({})
  BY <1>2, <1>4, <1>6, FS_Union
<1>8. Cardinality({}) = 0 /\ Cardinality(A) \in Nat /\ Cardinality(B) \in Nat
  BY <1>2, FS_EmptySet, FS_CardinalityType
<1>9. Number(r, P) = Number(q, P) + Number(e, P)
  BY <1>3, <1>6, <1>7, <1>8 DEF Number
<1> QED
  BY <1>9 DEF r

\* Numbers in a queue without the element at place k, and with another one there.
LEMMA NumberOfCut ==
  ASSUME NEW S, NEW q \in Seq(S), NEW k \in DOMAIN q, NEW P
  PROVE  /\ Number(q, P) = Number(Older(q, k) \o Newer(q, k), P)
                             + (IF q[k] \in P THEN 1 ELSE 0)
         /\ \A x \in S : Number([q EXCEPT ![k] = x], P)
              = Number(Older(q, k) \o Newer(q, k), P) + (IF x \in P THEN 1 ELSE 0)
<1> DEFINE a == Older(q, k)
           b == Newer(q, k)
<1>1. a \in Seq(S) /\ b \in Seq(S) /\ q = a \o (<<q[k]>> \o b) /\ q[k] \in S
  BY CutPlaces, ElementOfSeq, LenProperties
<1>2. ASSUME NEW x \in S
      PROVE  Number(a \o (<<x>> \o b), P)
               = Number(a \o b, P) + (IF x \in P THEN 1 ELSE 0)
  <2>1. <<x>> \in Seq(S) /\ <<x>> \o b \in Seq(S)
    BY <1>1, ConcatProperties
  <2> DEFINE more == <<x>> \o b
  <2> HIDE DEF a, b
  <2>2. /\ Number(a \o (<<x>> \o b), P) = Number(a, P) + Number(<<x>> \o b, P)
        /\ Number(<<x>> \o b, P) = Number(<<x>>, P) + Number(b, P)
        /\ Number(a \o b, P) = Number(a, P) + Number(b, P)
    <3>1. Number(a \o more, P) = Number(a, P) + Number(more, P)
      <4>1. more \in Seq(S)
        BY <2>1
      <4> HIDE DEF more
      <4> QED
        BY <1>1, <4>1, NumberOfConcat
    <3>2. Number(<<x>> \o b, P) = Number(<<x>>, P) + Number(b, P)
      BY <1>1, <2>1, NumberOfConcat
    <3>3. Number(a \o b, P) = Number(a, P) + Number(b, P)
      BY <1>1, NumberOfConcat
    <3> QED
      BY <3>1, <3>2, <3>3
  <2>3. Number(<<x>>, P) = IF x \in P THEN 1 ELSE 0
    BY NumberOfShort
  <2>4. Number(a, P) \in Nat /\ Number(b, P) \in Nat
    BY <1>1, NumberType
  <2> QED
    BY <2>2, <2>3, <2>4
<1>3. \A x \in S : [q EXCEPT ![k] = x] = a \o (<<x>> \o b)
  BY ReplacePlaces
<1>4. Number(q, P) = Number(a \o b, P) + (IF q[k] \in P THEN 1 ELSE 0)
  BY <1>1, <1>2
<1>5. \A x \in S : Number([q EXCEPT ![k] = x], P)
                     = Number(a \o b, P) + (IF x \in P THEN 1 ELSE 0)
  BY <1>2, <1>3
<1> QED
  BY <1>4, <1>5

=============================================================================
