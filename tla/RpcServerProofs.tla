--------------------------- MODULE RpcServerProofs ---------------------------
(***************************************************************************)
(* Proofs about RpcServer, for every number of services: what a poll       *)
(* reads, types, a busy flag that is set exactly while its service         *)
(* executes or has its status written, poll loops that are neither lost    *)
(* nor multiplied, and requests that are executed once.                    *)
(*                                                                         *)
(* The last needs the order of the commands on their way (Order): a read   *)
(* that was answered may still show a request that was served since, but   *)
(* then the write of its status is behind it, and the busy flag is only    *)
(* cleared when that write is answered.                                    *)
(***************************************************************************)
EXTENDS RpcServer, HandlerQueues, FiniteSetTheorems

\* The loop of readCommands over its services never indexes past what it read
\* (rpc_server.cpp:79-94): the read covers every service, is of an even number of
\* registers as the controller demands, and of one more at most.
THEOREM CountCovers ==
  /\ NumServices <= Count /\ Count <= NumServices + 1
  /\ Count % 2 = 0
  /\ \A v \in Services : v < Count
<1> DEFINE half == (NumServices + 1) \div 2
<1>1. NumServices \in Nat /\ CountSpace \in Nat /\ NumServices + 1 < CountSpace
  BY ServicesAssumption, BoundsAssumption
<1>2. half \in Nat /\ 2 * half <= NumServices + 1 /\ NumServices <= 2 * half
  BY <1>1
<1>3. Count = 2 * half
  <2>1. (half * 2) % CountSpace = half * 2
    <3> HIDE DEF half
    <3>1. half * 2 \in Nat /\ half * 2 < CountSpace
      BY <1>1, <1>2
    <3> QED
      BY <1>1, <3>1
  <2> QED
    BY <2>1, <1>2 DEF Count
<1>4. (2 * half) % 2 = 0
  <2> HIDE DEF half
  <2> QED
    BY <1>2
<1> HIDE DEF half
<1>5. Count \in Nat /\ NumServices <= Count /\ Count <= NumServices + 1 /\ Count % 2 = 0
  BY <1>1, <1>2, <1>3, <1>4
<1> QED
  BY <1>1, <1>5 DEF Services

-----------------------------------------------------------------------------
(* The invariants.                                                         *)

\* The busy flag of a service, its execution and the write of its status.
Flags ==
  \A v \in Services :
    /\ v \in executing => v \in busy
    /\ WritesOf(v) # {} <=> v \in busy /\ v \notin executing
    /\ \A j, k \in WritesOf(v) : j = k

\* Nothing happened that OncePerRequest does not tolerate.
Tolerated == faults \subseteq {"read timed out"}

\* What was executed of the requests that the controller made of v.
Executed(v) ==
  /\ \A n \in 1 .. MaxRequests :
       /\ n < request[v] => runs[v][n] = 1
       /\ n > request[v] => runs[v][n] = 0
       /\ n = request[v] => runs[v][n] \in {0, 1}
  /\ request[v] = 0 => register[v] # "requested"
  /\ request[v] # 0 /\ register[v] # "requested" => runs[v][request[v]] = 1

\* The current request of v is executed and its answer not at the controller.
Underway(v) == register[v] = "requested" /\ runs[v][request[v]] = 1

\* The current request of v, if it is not answered, is still to be executed.
Ahead(v) == register[v] = "requested" => runs[v][request[v]] = 0

\* How far the request of v is, by what the server knows of it.
Progress(v) ==
  /\ v \in executing => Underway(v)
  /\ v \notin busy => Ahead(v)
  /\ \A k \in WritesOf(v) : /\ calls[k].stage = "asked" => Underway(v)
                            /\ calls[k].stage = "answered" => Ahead(v)

\* Read j was answered with a request of v that is not the current one or that the
\* controller sees answered.
Stale(v, j) ==
  /\ calls[j].v = NoService /\ calls[j].stage = "answered"
  /\ calls[j].seen[v] # 0
  /\ calls[j].seen[v] # request[v] \/ register[v] # "requested"

\* Such a read is ahead of a write of v's status, or finds v executing.  A read
\* behind the write is answered after it.
Order(v) ==
  /\ \A j \in DOMAIN calls : Stale(v, j) => v \in busy /\ \A k \in WritesOf(v) : j < k
  /\ \A k \in WritesOf(v) : \A j \in DOMAIN calls :
       /\ calls[k].stage = "asked" /\ k < j
       => calls[j].v # NoService \/ calls[j].stage # "answered"

\* The client waits for every command.
AllWaited == \A k \in DOMAIN calls : calls[k].waited

InStep(v) == Executed(v) /\ Progress(v) /\ Order(v)

AllInStep == AllWaited /\ \A v \in Services : InStep(v)

OnceOnly == Tolerated => AllInStep

-----------------------------------------------------------------------------
(* The commands on their way.                                              *)

\* The commands for v that the client waits for.
Waiting(v) == {c \in CallSet : c.v = v /\ c.waited}

LEMMA ServicesAreNumbers ==
  /\ Services \subseteq Nat /\ NoService \in Nat /\ NoService \notin Services
  /\ \A some \in SUBSET Services : IsFiniteSet(some)
<1>1. NumServices \in Nat
  BY BoundsAssumption
<1>2. IsFiniteSet(Services)
  BY <1>1, FS_Interval DEF Services
<1>3. \A some \in SUBSET Services : IsFiniteSet(some)
  BY <1>2, FS_Subset
<1> QED
  BY <1>1, <1>3 DEF Services, NoService

\* What the client waits for, as numbers of elements of calls.
LEMMA WritesAreNumbered ==
  ASSUME TypeOK, NEW v
  PROVE  /\ WritesOf(v) = Places(calls, Waiting(v))
         /\ Cardinality(WritesOf(v)) = Number(calls, Waiting(v))
         /\ IsFiniteSet(WritesOf(v)) /\ Number(calls, Waiting(v)) \in Nat
<1>1. calls \in Seq(CallSet)
  BY DEF TypeOK
<1>2. \A k \in DOMAIN calls : calls[k] \in CallSet
  BY <1>1, ElementOfSeq, LenProperties
<1>3. WritesOf(v) = Places(calls, Waiting(v))
  BY <1>2 DEF WritesOf, Places, Waiting
<1> QED
  BY <1>1, <1>3, NumberType DEF Number

\* A call keeps its kind when it changes its stage.
LEMMA CallTypes ==
  /\ Read \in CallSet /\ Read \in Waiting(NoService)
  /\ Read.stage = "asked" /\ Read.v = NoService /\ Read.waited
  /\ \A v \in Services : Read \notin Waiting(v)
  /\ \A c \in CallSet : /\ c.v \in Services \union {NoService}
                        /\ c.v # NoService => c.v \in Services
                        /\ c.v = NoService => c.waited
                        /\ c.waited \in BOOLEAN
<1>1. \A c \in CallSet : /\ c.v \in Services \union {NoService}
                         /\ c.v = NoService => c.waited
                         /\ c.waited \in BOOLEAN
  BY ServicesAreNumbers DEF CallSet
<1>2. /\ Read = [v |-> NoService, value |-> "read", stage |-> "asked",
                 seen |-> [w \in Services |-> 0], waited |-> TRUE]
  BY DEF Read, Call
<1>3. [w \in Services |-> 0] \in [Services -> 0 .. MaxRequests]
  BY BoundsAssumption
<1>4. Read \in CallSet
  BY <1>2, <1>3 DEF CallSet
<1>5. Read.stage = "asked" /\ Read.v = NoService /\ Read.waited
  BY <1>2
<1> QED
  BY <1>1, <1>4, <1>5, ServicesAreNumbers DEF Waiting

\* One write is sent for each service that resolves.
LEMMA StatusWriteTypes ==
  ASSUME NEW resolved \in SUBSET Services, NEW failing,
         NEW writes \in StatusWrites(resolved, failing)
  PROVE  /\ writes \in Seq(CallSet)
         /\ \A i \in DOMAIN writes : /\ writes[i].v \in resolved /\ writes[i].waited
                                     /\ writes[i].stage = "asked"
         /\ \A i, j \in DOMAIN writes : writes[i].v = writes[j].v => i = j
         /\ \A v \in Services : Number(writes, Waiting(v)) = IF v \in resolved THEN 1 ELSE 0
         /\ Number(writes, Waiting(NoService)) = 0
<1> DEFINE n == Cardinality(resolved)
<1>1. n \in Nat
  BY ServicesAreNumbers, FS_CardinalityType
<1>2. PICK order \in Bijection(1 .. n, resolved) :
        writes = [i \in DOMAIN order |-> Status(order[i], failing)]
  BY DEF StatusWrites
<1> HIDE DEF n
<1>3. /\ order \in [1 .. n -> resolved] /\ DOMAIN order = 1 .. n
      /\ \A i, j \in 1 .. n : order[i] = order[j] => i = j
      /\ \A v \in resolved : \E i \in 1 .. n : order[i] = v
  <2>1. order \in [1 .. n -> resolved]
    BY DEF Bijection, Injection
  <2>2. \A i, j \in 1 .. n : order[i] = order[j] => i = j
    BY <2>1 DEF Bijection, Injection, IsInjective
  <2>3. \A v \in resolved : \E i \in 1 .. n : order[i] = v
    BY DEF Bijection, Surjection
  <2> QED
    BY <2>1, <2>2, <2>3
<1>4. \A i \in 1 .. n :
        /\ writes[i] \in CallSet /\ writes[i].v = order[i] /\ writes[i].waited
        /\ writes[i].stage = "asked"
  <2> SUFFICES ASSUME NEW i \in 1 .. n
               PROVE  /\ writes[i] \in CallSet /\ writes[i].v = order[i] /\ writes[i].waited
                      /\ writes[i].stage = "asked"
    OBVIOUS
  <2>1. /\ writes[i] = [v |-> order[i], value |-> IF order[i] \in failing THEN "error" ELSE "idle",
                        stage |-> "asked", seen |-> [w \in Services |-> 0], waited |-> TRUE]
        /\ order[i] \in Services
    BY <1>2, <1>3 DEF Status, Call
  <2>2. [w \in Services |-> 0] \in [Services -> {0}]
    OBVIOUS
  <2> QED
    BY <2>1, <2>2 DEF CallSet
<1>5. writes \in Seq(CallSet) /\ DOMAIN writes = 1 .. n
  <2>1. writes \in [1 .. n -> CallSet]
    BY <1>2, <1>3, <1>4
  <2> QED
    BY <1>1, <2>1 DEF Seq
<1>6. \A i \in 1 .. n : writes[i].v \in resolved
  BY <1>3, <1>4
<1>7. ASSUME NEW v \in resolved
      PROVE  Number(writes, Waiting(v)) = 1
  <2>1. PICK i \in 1 .. n : order[i] = v
    BY <1>3
  <2>2. Places(writes, Waiting(v)) = {i}
    BY <1>3, <1>4, <1>5, <2>1 DEF Places, Waiting
  <2> QED
    BY <2>2, FS_Singleton DEF Number
<1>8. ASSUME NEW v, v \notin resolved
      PROVE  Number(writes, Waiting(v)) = 0
  <2>1. Places(writes, Waiting(v)) = {}
    BY <1>4, <1>5, <1>6, <1>8 DEF Places, Waiting
  <2> QED
    BY <2>1, FS_EmptySet DEF Number
<1>9. \A i, j \in DOMAIN writes : writes[i].v = writes[j].v => i = j
  BY <1>3, <1>4, <1>5
<1> QED
  BY <1>4, <1>5, <1>6, <1>7, <1>8, <1>9, ServicesAreNumbers

\* A command that is removed, and those that follow.
LEMMA WithoutNumbers ==
  ASSUME TypeOK, NEW k \in DOMAIN calls
  PROVE  /\ Without(k) \in Seq(CallSet) /\ calls[k] \in CallSet
         /\ \A P : Number(calls, P) = Number(Without(k), P) + (IF calls[k] \in P THEN 1 ELSE 0)
         /\ \A x \in CallSet : \A P :
              /\ [calls EXCEPT ![k] = x] \in Seq(CallSet)
              /\ Number([calls EXCEPT ![k] = x], P)
                   = Number(Without(k), P) + (IF x \in P THEN 1 ELSE 0)
<1>0. calls \in Seq(CallSet)
  BY DEF TypeOK
<1>1. calls \in Seq(CallSet) /\ calls[k] \in CallSet
  BY <1>0, ElementOfSeq, LenProperties
<1>2. Without(k) = Older(calls, k) \o Newer(calls, k)
  BY DEF Without, Older, Newer
<1>3. Older(calls, k) \in Seq(CallSet) /\ Newer(calls, k) \in Seq(CallSet)
  BY <1>1, CutPlaces
<1>4. Without(k) \in Seq(CallSet)
  BY <1>2, <1>3, ConcatProperties
<1>5. \A x \in CallSet : [calls EXCEPT ![k] = x] \in Seq(CallSet)
  BY <1>1, ReplacePlaces
<1> QED
  BY <1>1, <1>2, <1>4, <1>5, NumberOfCut

\* The controller and the network leave alone who waits for what.
LEMMA NetworkNumbers ==
  ASSUME TypeOK, NEW k \in DOMAIN calls, Handle(k) \/ Duplicate(k) \/ Lose(k)
  PROVE  /\ calls' \in Seq(CallSet)
         /\ \A v : Number(calls', Waiting(v)) = Number(calls, Waiting(v))
<1> DEFINE c == calls[k]
<1>1. c \in CallSet /\ c.waited \in BOOLEAN /\ calls \in Seq(CallSet)
  BY WithoutNumbers, CallTypes DEF TypeOK
<1>2. ASSUME calls' = Without(k), ~c.waited
      PROVE  /\ calls' \in Seq(CallSet)
             /\ \A v : Number(calls', Waiting(v)) = Number(calls, Waiting(v))
  <2>1. \A v : c \notin Waiting(v)
    BY <1>2 DEF Waiting
  <2>2. \A v : Number(calls, Waiting(v)) = Number(calls', Waiting(v)) + 0
    BY <1>2, <2>1, WithoutNumbers
  <2>3. calls' \in Seq(CallSet)
    BY <1>2, WithoutNumbers
  <2>4. \A v : Number(calls', Waiting(v)) \in Nat
    BY <2>3, NumberType
  <2> QED
    BY <2>2, <2>3, <2>4
<1>3. ASSUME NEW x \in CallSet, calls' = [calls EXCEPT ![k] = x],
             x.v = c.v, x.waited = c.waited
      PROVE  /\ calls' \in Seq(CallSet)
             /\ \A v : Number(calls', Waiting(v)) = Number(calls, Waiting(v))
  <2>1. \A v : x \in Waiting(v) <=> c \in Waiting(v)
    BY <1>1, <1>3 DEF Waiting
  <2>2. /\ \A v : Number(calls', Waiting(v))
                    = Number(Without(k), Waiting(v)) + (IF x \in Waiting(v) THEN 1 ELSE 0)
        /\ \A v : Number(calls, Waiting(v))
                    = Number(Without(k), Waiting(v)) + (IF c \in Waiting(v) THEN 1 ELSE 0)
    BY <1>3, WithoutNumbers
  <2>3. calls' \in Seq(CallSet)
    BY <1>3, WithoutNumbers
  <2> QED
    BY <2>1, <2>2, <2>3
<1>4. CASE Handle(k)
  <2> DEFINE seen == [v \in Services |->
                        IF v < Count /\ register[v] = "requested" THEN request[v] ELSE 0]
             reply == [c EXCEPT !.stage = "answered", !.seen = IF c.v = NoService THEN seen ELSE @]
  <2>1. calls' = IF c.waited THEN [calls EXCEPT ![k] = reply] ELSE Without(k)
    BY <1>4 DEF Handle
  <2>2. seen \in [Services -> 0 .. MaxRequests]
    <3>1. /\ MaxRequests \in Nat \ {0}
          /\ \A v \in Services : request[v] \in 0 .. MaxRequests
      BY BoundsAssumption DEF TypeOK
    <3>2. 0 \in 0 .. MaxRequests
      BY <3>1
    <3> QED
      BY <3>1, <3>2
  <2>3. reply \in CallSet /\ reply.v = c.v /\ reply.waited = c.waited
    <3> HIDE DEF seen
    <3>1. CASE c.v = NoService
      BY <1>1, <2>2, <3>1, ServicesAreNumbers DEF CallSet
    <3>2. CASE c.v # NoService
      BY <1>1, <3>2, ServicesAreNumbers DEF CallSet
    <3> QED
      BY <3>1, <3>2
  <2> HIDE DEF reply
  <2> QED
    BY <1>1, <1>2, <1>3, <2>1, <2>3
<1>5. CASE Lose(k)
  <2> DEFINE x == [c EXCEPT !.stage = "lost", !.seen = [v \in Services |-> 0]]
  <2>1. calls' = IF k \in Stray THEN Without(k)
                 ELSE [calls EXCEPT ![k].stage = "lost", ![k].seen = [v \in Services |-> 0]]
    BY <1>5 DEF Lose
  <2>2. k \in Stray <=> ~c.waited
    BY DEF Stray
  <2>3. [calls EXCEPT ![k].stage = "lost", ![k].seen = [v \in Services |-> 0]]
          = [calls EXCEPT ![k] = x]
    BY <1>1, ElementOfSeq, LenProperties
  <2>4. x \in CallSet /\ x.v = c.v /\ x.waited = c.waited
    <3>1. /\ [v \in Services |-> 0] \in [Services -> 0 .. MaxRequests]
          /\ [v \in Services |-> 0] \in [Services -> {0}]
      BY BoundsAssumption
    <3>2. CASE c.v = NoService
      BY <1>1, <3>1, <3>2, ServicesAreNumbers DEF CallSet
    <3>3. CASE c.v # NoService
      BY <1>1, <3>1, <3>3, ServicesAreNumbers DEF CallSet
    <3> QED
      BY <3>2, <3>3
  <2> HIDE DEF x
  <2> QED
    BY <1>1, <1>2, <1>3, <2>1, <2>2, <2>3, <2>4
<1>6. CASE Duplicate(k)
  <2> DEFINE x == [c EXCEPT !.waited = FALSE]
             a == Older(calls, k) \o <<c>>
             one == <<x>>
             b == Newer(calls, k)
  <2>1. calls' = (SubSeq(calls, 1, k) \o <<x>>) \o b /\ c.v # NoService
    BY <1>6 DEF Duplicate, Newer
  <2>2. x \in CallSet /\ x.waited = FALSE
    BY <1>1, <2>1 DEF CallSet
  <2>3. /\ calls' = (a \o one) \o b
        /\ calls = Older(calls, k) \o (<<c>> \o b)
        /\ Older(calls, k) \in Seq(CallSet) /\ b \in Seq(CallSet)
    BY <1>1, <2>1, CutPlaces
  <2>4. /\ a \in Seq(CallSet) /\ one \in Seq(CallSet) /\ <<c>> \in Seq(CallSet)
    BY <1>1, <2>2, <2>3, ConcatProperties
  <2>5. calls = a \o b
    <3> DEFINE o == Older(calls, k)
               m == <<c>>
    <3>1. o \in Seq(CallSet) /\ m \in Seq(CallSet) /\ b \in Seq(CallSet) /\ a = o \o m
      BY <2>3, <2>4
    <3>2. calls = o \o (m \o b)
      BY <2>3
    <3> HIDE DEF b, o, m, a
    <3>3. (o \o m) \o b = o \o (m \o b)
      BY <3>1, ConcatAssociative
    <3> QED
      BY <3>1, <3>2, <3>3
  <2>6. \A v : Number(one, Waiting(v)) = 0
    <3>1. \A v : x \notin Waiting(v)
      BY <2>2 DEF Waiting
    <3> HIDE DEF x
    <3> QED
      BY <3>1, NumberOfShort
  <2> HIDE DEF a, b, one
  <2>7. a \o one \in Seq(CallSet) /\ calls' \in Seq(CallSet)
    BY <2>3, <2>4, ConcatProperties
  <2>8. ASSUME NEW v
        PROVE  Number(calls', Waiting(v)) = Number(calls, Waiting(v))
    <3>1. Number((a \o one) \o b, Waiting(v)) = Number(a \o one, Waiting(v)) + Number(b, Waiting(v))
      BY <2>3, <2>7, NumberOfConcat
    <3>2. Number(a \o one, Waiting(v)) = Number(a, Waiting(v)) + Number(one, Waiting(v))
      BY <2>4, NumberOfConcat
    <3>3. Number(a \o b, Waiting(v)) = Number(a, Waiting(v)) + Number(b, Waiting(v))
      BY <2>3, <2>4, NumberOfConcat
    <3>4. Number(a, Waiting(v)) \in Nat
      BY <2>4, NumberType
    <3> QED
      BY <2>3, <2>5, <2>6, <3>1, <3>2, <3>3, <3>4
  <2> QED
    BY <2>7, <2>8
<1> QED
  BY <1>4, <1>5, <1>6

\* One more read is sent.
LEMMA ReadNumbers ==
  ASSUME NEW sent \in Seq(CallSet)
  PROVE  /\ Append(sent, Read) = sent \o <<Read>>
         /\ Append(sent, Read) \in Seq(CallSet)
         /\ Number(Append(sent, Read), Waiting(NoService)) = Number(sent, Waiting(NoService)) + 1
         /\ \A v \in Services : Number(Append(sent, Read), Waiting(v)) = Number(sent, Waiting(v))
         /\ \A v : Number(sent, Waiting(v)) \in Nat
<1> DEFINE one == <<Read>>
<1>1. Read \in CallSet /\ Read \in Waiting(NoService) /\ \A v \in Services : Read \notin Waiting(v)
  BY CallTypes
<1>2. /\ one \in Seq(CallSet)
      /\ Number(one, Waiting(NoService)) = 1
      /\ \A v \in Services : Number(one, Waiting(v)) = 0
  <2>1. \A P : Number(one, P) = IF Read \in P THEN 1 ELSE 0
    BY NumberOfShort
  <2>2. one \in Seq(CallSet)
    BY <1>1
  <2> HIDE DEF one
  <2> QED
    BY <1>1, <2>1, <2>2
<1>3. Append(sent, Read) = sent \o one
  BY <1>1, AppendIsConcat
<1> HIDE DEF one
<1>4. /\ sent \o one \in Seq(CallSet)
      /\ \A P : Number(sent \o one, P) = Number(sent, P) + Number(one, P)
      /\ \A P : Number(sent, P) \in Nat
  BY <1>2, ConcatProperties, NumberOfConcat, NumberType
<1>5. /\ Append(sent, Read) \in Seq(CallSet)
      /\ Number(Append(sent, Read), Waiting(NoService)) = Number(sent, Waiting(NoService)) + 1
      /\ \A v \in Services : Number(Append(sent, Read), Waiting(v)) = Number(sent, Waiting(v))
      /\ \A v : Number(sent, Waiting(v)) \in Nat
  <2>1. \A v \in Services : Number(sent \o one, Waiting(v)) = Number(sent, Waiting(v)) + 0
    BY <1>2, <1>4
  <2>2. \A v : Number(sent, Waiting(v)) \in Nat
    BY <1>4
  <2>3. Number(sent \o one, Waiting(NoService)) = Number(sent, Waiting(NoService)) + 1
    BY <1>2, <1>4
  <2> QED
    BY <1>3, <1>4, <2>1, <2>2, <2>3
<1> QED
  BY <1>3, <1>5 DEF one

\* The timer is started, or the next read is sent: there is a poll loop then, and one
\* more at most.
LEMMA TimerNumbers ==
  ASSUME TypeOK, NEW sent \in Seq(CallSet), StartReadCommandsTimer(sent)
  PROVE  /\ calls' \in Seq(CallSet) /\ waiting' \in BOOLEAN
         /\ \A v \in Services : Number(calls', Waiting(v)) = Number(sent, Waiting(v))
         /\ LET reads == Number(calls', Waiting(NoService)) + (IF waiting' THEN 1 ELSE 0)
                before == Number(sent, Waiting(NoService)) + (IF waiting THEN 1 ELSE 0)
            IN  reads \in Nat /\ before \in Nat /\ reads > 0 /\ reads <= before + 1
<1>1. waiting \in BOOLEAN
  BY DEF TypeOK
<1>2. CASE zero_delay
  <2>1. calls' = Append(sent, Read) /\ waiting' = waiting
    BY <1>2 DEF StartReadCommandsTimer
  <2> QED
    BY <1>1, <2>1, ReadNumbers
<1>3. CASE ~zero_delay
  <2>1. calls' = sent /\ waiting' = TRUE
    BY <1>3 DEF StartReadCommandsTimer
  <2>2. Number(sent, Waiting(NoService)) \in Nat
    BY NumberType
  <2> QED
    BY <1>1, <2>1, <2>2
<1> QED
  BY <1>2, <1>3

\* The same after an answer, when the server goes on only if it is started.
LEMMA PollNumbers ==
  ASSUME TypeOK, NEW sent \in Seq(CallSet), PollAgain(sent)
  PROVE  /\ calls' \in Seq(CallSet) /\ waiting' \in BOOLEAN
         /\ \A v \in Services : Number(calls', Waiting(v)) = Number(sent, Waiting(v))
         /\ LET reads == Number(calls', Waiting(NoService)) + (IF waiting' THEN 1 ELSE 0)
                before == Number(sent, Waiting(NoService)) + (IF waiting THEN 1 ELSE 0)
            IN  /\ reads \in Nat /\ before \in Nat /\ reads <= before + 1
                /\ started => reads > 0
<1>1. CASE started
  <2>1. StartReadCommandsTimer(sent)
    BY <1>1 DEF PollAgain
  <2> QED
    BY <2>1, TimerNumbers
<1>2. CASE ~started
  <2>1. calls' = sent /\ waiting' = waiting /\ waiting \in BOOLEAN
    BY <1>2 DEF PollAgain, TypeOK
  <2>2. Number(sent, Waiting(NoService)) \in Nat
    BY NumberType
  <2> QED
    BY <1>2, <2>1, <2>2
<1> QED
  BY <1>1, <1>2

-----------------------------------------------------------------------------
(* Busy flags and poll loops, counted.                                     *)

\* OneAtATime and KeepsPolling in numbers of commands on their way.
Counts ==
  /\ \A v \in Services :
       Number(calls, Waiting(v)) + (IF v \in executing THEN 1 ELSE 0)
         = IF v \in busy THEN 1 ELSE 0
  /\ LET loops == Number(calls, Waiting(NoService)) + (IF waiting THEN 1 ELSE 0) + Len(due)
     IN  (started => loops > 0) /\ loops <= starts

LEMMA LoopTypes ==
  ASSUME TypeOK
  PROVE  /\ Len(due) \in Nat /\ starts \in Nat /\ waiting \in BOOLEAN
         /\ \A v : Number(calls, Waiting(v)) \in Nat
<1>1. due \in Seq({"ok", "error"}) /\ calls \in Seq(CallSet) /\ waiting \in BOOLEAN
  BY DEF TypeOK
<1>2. Len(due) \in Nat
  BY <1>1, LenProperties
<1>3. starts \in Nat
  <2>1. MaxStarts \in Nat
    BY BoundsAssumption
  <2>2. starts \in 0 .. MaxStarts
    BY DEF TypeOK
  <2> QED
    BY <2>1, <2>2
<1>4. \A v : Number(calls, Waiting(v)) \in Nat
  BY <1>1, NumberType
<1> QED
  BY <1>1, <1>2, <1>3, <1>4

LEMMA CountsMeans ==
  ASSUME TypeOK
  PROVE  Counts <=> OneAtATime /\ KeepsPolling
BY WritesAreNumbered DEF Counts, OneAtATime, KeepsPolling, Loops

LEMMA InitCounts == Init => TypeOK /\ Counts
<1> SUFFICES ASSUME Init PROVE TypeOK /\ Counts
  OBVIOUS
<1>1. << >> \in Seq({"ok", "error"}) /\ << >> \in Seq(CallSet)
  OBVIOUS
<1>2. MaxStarts \in Nat /\ MaxRequests \in Nat
  BY BoundsAssumption
<1>3. TypeOK
  <2>1. /\ request \in [Services -> 0 .. MaxRequests]
        /\ runs \in [Services -> [1 .. MaxRequests -> 0 .. 2]]
        /\ register \in [Services -> {"idle", "requested", "error"}]
        /\ starts \in 0 .. MaxStarts
    BY <1>2 DEF Init
  <2>2. /\ due \in Seq({"ok", "error"}) /\ calls \in Seq(CallSet)
    BY <1>1 DEF Init
  <2> QED
    BY <2>1, <2>2 DEF Init, TypeOK
<1>4. /\ \A v : Number(calls, Waiting(v)) = 0
      /\ Len(due) = 0
  <2>1. calls = << >> /\ due = << >>
    BY DEF Init
  <2> QED
    BY <2>1, NumberOfShort
<1>5. Counts
  BY <1>4 DEF Init, Counts
<1> QED
  BY <1>3, <1>5

LEMMA NetworkCounts ==
  ASSUME TypeOK, Counts, NEW k \in DOMAIN calls, Handle(k) \/ Duplicate(k) \/ Lose(k)
  PROVE  TypeOK' /\ Counts'
<1>1. /\ calls' \in Seq(CallSet)
      /\ \A v : Number(calls', Waiting(v)) = Number(calls, Waiting(v))
  BY NetworkNumbers
<1>2. /\ zero_delay' = zero_delay /\ started' = started /\ waiting' = waiting /\ due' = due
      /\ busy' = busy /\ executing' = executing
      /\ request' = request /\ runs' = runs /\ starts' = starts
  BY DEF Handle, Duplicate, Lose, server, controller, history
<1>3. faults' \subseteq {"read timed out", "write timed out", "reordered", "duplicated"}
  BY DEF TypeOK, Handle, Duplicate, Lose, InOrder
<1>4. register' \in [Services -> {"idle", "requested", "error"}]
  <2>1. CASE Handle(k)
    <3>1. calls[k] \in CallSet
      BY WithoutNumbers
    <3>2. \A v \in Services : v = calls[k].v => calls[k].value \in {"idle", "error"}
      BY <3>1, ServicesAreNumbers DEF CallSet
    <3>3. \A v \in Services : register[v] \in {"idle", "requested", "error"}
      BY DEF TypeOK
    <3> QED
      BY <2>1, <3>2, <3>3 DEF Handle
  <2>2. CASE Duplicate(k) \/ Lose(k)
    BY <2>2 DEF TypeOK, Duplicate, Lose, controller
  <2> QED
    BY <2>1, <2>2
<1>5. TypeOK'
  BY <1>1, <1>2, <1>3, <1>4 DEF TypeOK
<1>6. Counts'
  BY <1>1, <1>2 DEF Counts
<1> QED
  BY <1>5, <1>6

LEMMA ResolveCounts ==
  ASSUME TypeOK, Counts, NEW v \in Services, Resolve(v)
  PROVE  TypeOK' /\ Counts'
<1>1. PICK failing \in SUBSET {v} : \E writes \in StatusWrites({v}, failing) : calls' = calls \o writes
  BY DEF Resolve
<1>2. PICK writes \in StatusWrites({v}, failing) : calls' = calls \o writes
  BY <1>1
<1>3. /\ writes \in Seq(CallSet) /\ calls \in Seq(CallSet)
      /\ Number(writes, Waiting(v)) = 1 /\ Number(writes, Waiting(NoService)) = 0
      /\ \A w \in Services : w # v => Number(writes, Waiting(w)) = 0
  <2> DEFINE one == {v}
  <2>1. one \in SUBSET Services /\ writes \in StatusWrites(one, failing)
    OBVIOUS
  <2>2. \A w : w \in one <=> w = v
    OBVIOUS
  <2> HIDE DEF one
  <2>3. /\ writes \in Seq(CallSet)
        /\ \A i \in DOMAIN writes : /\ writes[i].v \in one /\ writes[i].waited
                                     /\ writes[i].stage = "asked"
        /\ \A i, j \in DOMAIN writes : writes[i].v = writes[j].v => i = j
        /\ \A w \in Services : Number(writes, Waiting(w)) = IF w \in one THEN 1 ELSE 0
        /\ Number(writes, Waiting(NoService)) = 0
    BY <2>1, StatusWriteTypes
  <2>4. calls \in Seq(CallSet)
    BY DEF TypeOK
  <2> QED
    BY <2>2, <2>3, <2>4
<1>4. /\ calls' \in Seq(CallSet)
      /\ \A P : Number(calls', P) = Number(calls, P) + Number(writes, P)
      /\ \A P : Number(calls, P) \in Nat
  <2>1. calls \o writes \in Seq(CallSet)
    BY <1>3, ConcatProperties
  <2>2. \A P : Number(calls \o writes, P) = Number(calls, P) + Number(writes, P)
    BY <1>3, NumberOfConcat
  <2>3. \A P : Number(calls, P) \in Nat
    BY <1>3, NumberType
  <2> QED
    BY <1>2, <2>1, <2>2, <2>3
<1>5. /\ zero_delay' = zero_delay /\ started' = started /\ waiting' = waiting /\ due' = due
      /\ busy' = busy /\ v \in executing /\ executing' = executing \ {v}
      /\ register' = register /\ request' = request /\ runs' = runs /\ starts' = starts
      /\ faults' = faults
  BY DEF Resolve, controller, history
<1>6. TypeOK'
  BY <1>4, <1>5 DEF TypeOK
<1>7. ASSUME NEW w \in Services
      PROVE  Number(calls', Waiting(w)) + (IF w \in executing' THEN 1 ELSE 0)
               = IF w \in busy' THEN 1 ELSE 0
  <2>1. Number(calls, Waiting(w)) + (IF w \in executing THEN 1 ELSE 0)
          = IF w \in busy THEN 1 ELSE 0
    BY DEF Counts
  <2>2. /\ Number(calls', Waiting(w)) = Number(calls, Waiting(w)) + Number(writes, Waiting(w))
        /\ Number(calls, Waiting(w)) \in Nat
    BY <1>4
  <2>3. CASE w = v
    BY <1>3, <1>5, <2>1, <2>2, <2>3
  <2>4. CASE w # v
    BY <1>3, <1>5, <2>1, <2>2, <2>4
  <2> QED
    BY <2>3, <2>4
<1>8. /\ Number(calls', Waiting(NoService)) = Number(calls, Waiting(NoService)) + 0
      /\ Number(calls, Waiting(NoService)) \in Nat
  BY <1>3, <1>4
<1>9. Counts'
  BY <1>5, <1>7, <1>8 DEF Counts
<1> QED
  BY <1>6, <1>9

\* What OnStatuses does, with the parts of it named.
LEMMA StatusesParts ==
  ASSUME TypeOK, NEW k \in DOMAIN calls, calls[k].waited, OnStatuses(k)
  PROVE  \E resolved \in SUBSET Called(calls[k].seen) :
         \E failing \in SUBSET resolved : \E writes \in StatusWrites(resolved, failing) :
           /\ executing' = (executing \union Called(calls[k].seen)) \ resolved
           /\ PollAgain(Without(k) \o writes)
           /\ Without(k) \o writes \in Seq(CallSet)
           /\ \A v \in Services :
                Number(Without(k) \o writes, Waiting(v))
                  = Number(calls, Waiting(v)) + (IF v \in resolved THEN 1 ELSE 0)
           /\ Number(Without(k) \o writes, Waiting(NoService)) + 1
                = Number(calls, Waiting(NoService))
<1>1. PICK resolved \in SUBSET Called(calls[k].seen) :
        \E failing \in SUBSET resolved :
          /\ executing' = (executing \union Called(calls[k].seen)) \ resolved
          /\ \E writes \in StatusWrites(resolved, failing) : PollAgain(Without(k) \o writes)
  BY DEF OnStatuses
<1>2. PICK failing \in SUBSET resolved :
          /\ executing' = (executing \union Called(calls[k].seen)) \ resolved
          /\ \E writes \in StatusWrites(resolved, failing) : PollAgain(Without(k) \o writes)
  BY <1>1
<1>3. PICK writes \in StatusWrites(resolved, failing) : PollAgain(Without(k) \o writes)
  BY <1>2
<1>4. resolved \in SUBSET Services
  BY DEF Called
<1>5. /\ writes \in Seq(CallSet)
      /\ \A i \in DOMAIN writes : /\ writes[i].v \in resolved /\ writes[i].waited
                                   /\ writes[i].stage = "asked"
      /\ \A i, j \in DOMAIN writes : writes[i].v = writes[j].v => i = j
      /\ \A w \in Services : Number(writes, Waiting(w)) = IF w \in resolved THEN 1 ELSE 0
      /\ Number(writes, Waiting(NoService)) = 0
  BY <1>3, <1>4, StatusWriteTypes
<1>6. Without(k) \in Seq(CallSet) /\ calls[k] \in CallSet /\ calls \in Seq(CallSet)
  BY WithoutNumbers DEF TypeOK
<1>7. /\ calls[k] \in Waiting(NoService)
      /\ \A v \in Services : calls[k] \notin Waiting(v)
  BY <1>6, ServicesAreNumbers DEF Waiting, OnStatuses
<1>8. /\ \A v \in Services : Number(calls, Waiting(v)) = Number(Without(k), Waiting(v)) + 0
      /\ Number(calls, Waiting(NoService)) = Number(Without(k), Waiting(NoService)) + 1
  BY <1>7, WithoutNumbers
<1>9. /\ Without(k) \o writes \in Seq(CallSet)
      /\ \A P : Number(Without(k) \o writes, P) = Number(Without(k), P) + Number(writes, P)
      /\ \A P : Number(Without(k), P) \in Nat
  <2> DEFINE rest == Without(k)
  <2>1. rest \in Seq(CallSet)
    BY <1>6
  <2> HIDE DEF rest
  <2>2. /\ rest \o writes \in Seq(CallSet)
        /\ \A P : Number(rest \o writes, P) = Number(rest, P) + Number(writes, P)
        /\ \A P : Number(rest, P) \in Nat
    <3>1. rest \o writes \in Seq(CallSet)
      BY <1>5, <2>1, ConcatProperties
    <3>2. \A P : Number(rest \o writes, P) = Number(rest, P) + Number(writes, P)
      BY <1>5, <2>1, NumberOfConcat
    <3>3. \A P : Number(rest, P) \in Nat
      BY <2>1, NumberType
    <3> QED
      BY <3>1, <3>2, <3>3
  <2> QED
    BY <2>2 DEF rest
<1>10. /\ \A v \in Services :
            Number(Without(k) \o writes, Waiting(v))
              = Number(calls, Waiting(v)) + (IF v \in resolved THEN 1 ELSE 0)
       /\ Number(Without(k) \o writes, Waiting(NoService)) + 1
            = Number(calls, Waiting(NoService))
  <2>1. ASSUME NEW v \in Services
        PROVE  Number(Without(k) \o writes, Waiting(v))
                 = Number(calls, Waiting(v)) + (IF v \in resolved THEN 1 ELSE 0)
    <3>1. /\ Number(calls, Waiting(v)) = Number(Without(k), Waiting(v)) + 0
          /\ Number(Without(k), Waiting(v)) \in Nat
          /\ Number(writes, Waiting(v)) = IF v \in resolved THEN 1 ELSE 0
          /\ Number(Without(k) \o writes, Waiting(v))
               = Number(Without(k), Waiting(v)) + Number(writes, Waiting(v))
      BY <1>5, <1>8, <1>9
    <3> QED
      BY <3>1
  <2>2. /\ Number(calls, Waiting(NoService)) = Number(Without(k), Waiting(NoService)) + 1
        /\ Number(Without(k), Waiting(NoService)) \in Nat
        /\ Number(writes, Waiting(NoService)) = 0
        /\ Number(Without(k) \o writes, Waiting(NoService))
             = Number(Without(k), Waiting(NoService)) + Number(writes, Waiting(NoService))
    BY <1>5, <1>8, <1>9
  <2>3. Number(Without(k) \o writes, Waiting(NoService)) + 1
          = Number(calls, Waiting(NoService))
    BY <2>2
  <2> QED
    BY <2>1, <2>3
<1> QED
  BY <1>2, <1>3, <1>9, <1>10

LEMMA StatusesCounts ==
  ASSUME TypeOK, Counts, NEW k \in DOMAIN calls, Receive(k), OnStatuses(k)
  PROVE  TypeOK' /\ Counts'
<1> DEFINE called == Called(calls[k].seen)
<1>1. PICK resolved \in SUBSET called : \E failing \in SUBSET resolved :
        \E writes \in StatusWrites(resolved, failing) :
           /\ executing' = (executing \union called) \ resolved
           /\ PollAgain(Without(k) \o writes)
           /\ Without(k) \o writes \in Seq(CallSet)
           /\ \A v \in Services :
                Number(Without(k) \o writes, Waiting(v))
                  = Number(calls, Waiting(v)) + (IF v \in resolved THEN 1 ELSE 0)
           /\ Number(Without(k) \o writes, Waiting(NoService)) + 1
                = Number(calls, Waiting(NoService))
  BY StatusesParts DEF Receive
<1>2. \E sent \in Seq(CallSet) :
        /\ executing' = (executing \union called) \ resolved
        /\ PollAgain(sent)
        /\ \A v \in Services :
             Number(sent, Waiting(v)) = Number(calls, Waiting(v)) + (IF v \in resolved THEN 1 ELSE 0)
        /\ Number(sent, Waiting(NoService)) + 1 = Number(calls, Waiting(NoService))
  <2>1. PICK failing \in SUBSET resolved : \E writes \in StatusWrites(resolved, failing) :
           /\ executing' = (executing \union called) \ resolved
           /\ PollAgain(Without(k) \o writes)
           /\ Without(k) \o writes \in Seq(CallSet)
           /\ \A v \in Services :
                Number(Without(k) \o writes, Waiting(v))
                  = Number(calls, Waiting(v)) + (IF v \in resolved THEN 1 ELSE 0)
           /\ Number(Without(k) \o writes, Waiting(NoService)) + 1
                = Number(calls, Waiting(NoService))
    BY <1>1
  <2>2. PICK writes \in StatusWrites(resolved, failing) :
           /\ executing' = (executing \union called) \ resolved
           /\ PollAgain(Without(k) \o writes)
           /\ Without(k) \o writes \in Seq(CallSet)
           /\ \A v \in Services :
                Number(Without(k) \o writes, Waiting(v))
                  = Number(calls, Waiting(v)) + (IF v \in resolved THEN 1 ELSE 0)
           /\ Number(Without(k) \o writes, Waiting(NoService)) + 1
                = Number(calls, Waiting(NoService))
    BY <2>1
  <2> HIDE DEF called
  <2> QED
    BY <2>2
<1>3. PICK sent \in Seq(CallSet) :
        /\ executing' = (executing \union called) \ resolved
        /\ PollAgain(sent)
        /\ \A v \in Services :
             Number(sent, Waiting(v)) = Number(calls, Waiting(v)) + (IF v \in resolved THEN 1 ELSE 0)
        /\ Number(sent, Waiting(NoService)) + 1 = Number(calls, Waiting(NoService))
  BY <1>2
<1>4. /\ calls' \in Seq(CallSet) /\ waiting' \in BOOLEAN
      /\ \A v \in Services : Number(calls', Waiting(v)) = Number(sent, Waiting(v))
      /\ LET reads == Number(calls', Waiting(NoService)) + (IF waiting' THEN 1 ELSE 0)
             before == Number(sent, Waiting(NoService)) + (IF waiting THEN 1 ELSE 0)
         IN  /\ reads \in Nat /\ before \in Nat /\ reads <= before + 1
             /\ started => reads > 0
  BY <1>3, PollNumbers
<1>5. /\ zero_delay' = zero_delay /\ started' = started /\ due' = due /\ starts' = starts
      /\ busy' = busy \union called
      /\ register' = register /\ request' = request
  BY DEF Receive, OnStatuses, controller
<1>6. called \subseteq Services /\ called \intersect busy = {} /\ resolved \subseteq called
  BY DEF Called, TestAndSet
<1>7. runs' \in [Services -> [1 .. MaxRequests -> 0 .. 2]]
  <2>1. calls[k] \in CallSet /\ calls[k].v = NoService
    BY WithoutNumbers DEF OnStatuses
  <2>2. calls[k].seen \in [Services -> 0 .. MaxRequests]
    BY <2>1, ServicesAreNumbers DEF CallSet
  <2>3. \A v \in called : calls[k].seen[v] \in 1 .. MaxRequests
    BY <2>2, BoundsAssumption DEF Called
  <2>4. runs' = [v \in Services |->
                   IF v \in called
                   THEN [runs[v] EXCEPT ![calls[k].seen[v]] = IF @ = 0 THEN 1 ELSE 2]
                   ELSE runs[v]]
    BY DEF OnStatuses
  <2>5. \A v \in Services : runs[v] \in [1 .. MaxRequests -> 0 .. 2]
    BY DEF TypeOK
  <2> HIDE DEF called
  <2>6. \A v \in Services :
          (IF v \in called
           THEN [runs[v] EXCEPT ![calls[k].seen[v]] = IF @ = 0 THEN 1 ELSE 2]
           ELSE runs[v]) \in [1 .. MaxRequests -> 0 .. 2]
    BY <2>3, <2>5
  <2> QED
    BY <2>4, <2>6
<1> HIDE DEF called
<1>8. faults' \subseteq {"read timed out", "write timed out", "reordered", "duplicated"}
  BY DEF TypeOK, Receive, InOrder
<1>9. TypeOK'
  BY <1>3, <1>4, <1>5, <1>6, <1>7, <1>8 DEF TypeOK
<1>10. ASSUME NEW v \in Services
       PROVE  Number(calls', Waiting(v)) + (IF v \in executing' THEN 1 ELSE 0)
                = IF v \in busy' THEN 1 ELSE 0
  <2>1. Number(calls, Waiting(v)) + (IF v \in executing THEN 1 ELSE 0)
          = IF v \in busy THEN 1 ELSE 0
    BY DEF Counts
  <2>2. Number(calls, Waiting(v)) \in Nat
    BY ReadNumbers DEF TypeOK
  <2>3. Number(calls', Waiting(v)) = Number(calls, Waiting(v)) + (IF v \in resolved THEN 1 ELSE 0)
    BY <1>3, <1>4
  <2>4. CASE v \in called
    <3>1. v \notin busy /\ v \notin executing /\ Number(calls, Waiting(v)) = 0 /\ v \in busy'
      BY <1>5, <1>6, <2>1, <2>2, <2>4
    <3>2. v \in executing' <=> v \notin resolved
      BY <1>3, <2>4
    <3> QED
      BY <2>3, <3>1, <3>2
  <2>5. CASE v \notin called
    <3>1. /\ v \notin resolved /\ (v \in executing' <=> v \in executing)
          /\ (v \in busy' <=> v \in busy)
      BY <1>3, <1>5, <1>6, <2>5
    <3> QED
      BY <2>1, <2>2, <2>3, <3>1
  <2> QED
    BY <2>4, <2>5
<1>11. LET loops == Number(calls', Waiting(NoService)) + (IF waiting' THEN 1 ELSE 0) + Len(due')
       IN  (started' => loops > 0) /\ loops <= starts'
  <2>1. /\ Len(due) \in Nat /\ starts \in Nat /\ waiting \in BOOLEAN
        /\ Number(calls, Waiting(NoService)) \in Nat
    BY LoopTypes
  <2>2. Number(calls, Waiting(NoService)) + (IF waiting THEN 1 ELSE 0) + Len(due) <= starts
    BY DEF Counts
  <2> DEFINE reads == Number(calls', Waiting(NoService)) + (IF waiting' THEN 1 ELSE 0)
             before == Number(sent, Waiting(NoService)) + (IF waiting THEN 1 ELSE 0)
             now == Number(calls, Waiting(NoService)) + (IF waiting THEN 1 ELSE 0)
  <2>3. reads \in Nat /\ before \in Nat /\ reads <= before + 1 /\ (started => reads > 0)
    BY <1>4
  <2>4. Number(sent, Waiting(NoService)) \in Nat
    BY ReadNumbers
  <2>5. now = before + 1 /\ now \in Nat /\ now + Len(due) <= starts
    BY <1>3, <2>1, <2>2, <2>4
  <2> HIDE DEF reads, before, now
  <2>6. (started' => reads + Len(due') > 0) /\ reads + Len(due') <= starts'
    BY <1>5, <2>1, <2>3, <2>5
  <2> QED
    BY <2>6 DEF reads
<1>12. Counts'
  BY <1>10, <1>11 DEF Counts
<1> QED
  BY <1>9, <1>12

\* What TypeOK allows in faults.
FaultSet == {"read timed out", "write timed out", "reordered", "duplicated"}

\* A write leaves, or nobody waits for it any more.
LEMMA WrittenNumbers ==
  ASSUME TypeOK, NEW u \in Services, NEW k \in WritesOf(u)
  PROVE  \A rest \in {Without(k), [calls EXCEPT ![k].waited = FALSE]} :
           /\ rest \in Seq(CallSet)
           /\ \A v : Number(calls, Waiting(v))
                       = Number(rest, Waiting(v)) + (IF v = u THEN 1 ELSE 0)
<1> DEFINE c == calls[k]
           x == [c EXCEPT !.waited = FALSE]
<1>1. k \in DOMAIN calls /\ c.v = u /\ c.waited
  BY DEF WritesOf
<1>2. c \in CallSet /\ u # NoService
  BY <1>1, WithoutNumbers, ServicesAreNumbers
<1>3. \A v : c \in Waiting(v) <=> v = u
  BY <1>1, <1>2 DEF Waiting
<1>4. x \in CallSet /\ x.waited = FALSE
  BY <1>1, <1>2 DEF CallSet
<1>5. \A v : x \notin Waiting(v)
  BY <1>4 DEF Waiting
<1>6. [calls EXCEPT ![k].waited = FALSE] = [calls EXCEPT ![k] = x]
  OBVIOUS
<1>7. /\ Without(k) \in Seq(CallSet)
      /\ \A P : Number(calls, P) = Number(Without(k), P) + (IF c \in P THEN 1 ELSE 0)
      /\ [calls EXCEPT ![k] = x] \in Seq(CallSet)
      /\ \A P : Number([calls EXCEPT ![k] = x], P)
                  = Number(Without(k), P) + (IF x \in P THEN 1 ELSE 0)
  <2> HIDE DEF x
  <2> QED
    BY <1>1, <1>4, WithoutNumbers
<1> DEFINE rest == Without(k)
           other == [calls EXCEPT ![k] = x]
<1>8. \A v : /\ Number(calls, Waiting(v)) = Number(rest, Waiting(v)) + (IF v = u THEN 1 ELSE 0)
             /\ Number(other, Waiting(v)) = Number(rest, Waiting(v)) + 0
             /\ Number(rest, Waiting(v)) \in Nat
  <2>1. \A v : Number(rest, Waiting(v)) \in Nat
    BY <1>7, NumberType
  <2> HIDE DEF c, x, rest, other
  <2> QED
    BY <1>3, <1>5, <1>7, <2>1 DEF rest, other
<1> HIDE DEF c, x, rest, other
<1>9. \A v : Number(calls, Waiting(v)) = Number(other, Waiting(v)) + (IF v = u THEN 1 ELSE 0)
  BY <1>8
<1> QED
  BY <1>6, <1>7, <1>8, <1>9 DEF rest, other

\* A write is answered, or ends with an error: its flag is cleared.
LEMMA WrittenCounts ==
  ASSUME TypeOK, Counts, NEW u \in Services, NEW k \in WritesOf(u),
         NEW rest \in {Without(k), [calls EXCEPT ![k].waited = FALSE]},
         OnWritten(k, rest), UNCHANGED controller,
         faults' \subseteq FaultSet
  PROVE  TypeOK' /\ Counts'
<1>1. calls[k].v = u
  BY DEF WritesOf
<1>2. /\ zero_delay' = zero_delay /\ started' = started /\ waiting' = waiting /\ due' = due
      /\ starts' = starts /\ executing' = executing /\ busy' = busy \ {u}
      /\ register' = register /\ request' = request /\ runs' = runs /\ calls' = rest
  BY <1>1 DEF OnWritten, Clear, controller, history
<1>3. /\ rest \in Seq(CallSet)
      /\ \A v : Number(calls, Waiting(v)) = Number(rest, Waiting(v)) + (IF v = u THEN 1 ELSE 0)
  BY WrittenNumbers
<1>4. TypeOK'
  BY <1>2, <1>3 DEF TypeOK, FaultSet
<1>5. \A v : Number(calls', Waiting(v)) \in Nat
  BY <1>2, <1>3, NumberType
<1>6. ASSUME NEW v \in Services
      PROVE  Number(calls', Waiting(v)) + (IF v \in executing' THEN 1 ELSE 0)
               = IF v \in busy' THEN 1 ELSE 0
  <2>1. Number(calls, Waiting(v)) + (IF v \in executing THEN 1 ELSE 0)
          = IF v \in busy THEN 1 ELSE 0
    BY DEF Counts
  <2>2. Number(calls, Waiting(v)) = Number(calls', Waiting(v)) + (IF v = u THEN 1 ELSE 0)
    BY <1>2, <1>3
  <2>3. Number(calls', Waiting(v)) \in Nat
    BY <1>5
  <2>4. CASE v = u
    <3>1. Number(calls, Waiting(v)) = Number(calls', Waiting(v)) + 1
      BY <2>2, <2>4
    <3>2. Number(calls', Waiting(v)) = 0 /\ v \notin executing
      BY <2>1, <2>3, <3>1
    <3> QED
      BY <1>2, <2>4, <3>2
  <2>5. CASE v # u
    <3>1. Number(calls, Waiting(v)) = Number(calls', Waiting(v))
      BY <2>2, <2>3, <2>5
    <3>2. (v \in busy' <=> v \in busy) /\ executing' = executing
      BY <1>2, <2>5
    <3> QED
      BY <2>1, <3>1, <3>2
  <2> QED
    BY <2>4, <2>5
<1>7. Number(calls, Waiting(NoService)) = Number(calls', Waiting(NoService))
  <2>1. NoService # u
    BY ServicesAreNumbers
  <2>2. Number(calls, Waiting(NoService)) = Number(calls', Waiting(NoService)) + 0
    BY <1>2, <1>3, <2>1
  <2>3. Number(calls', Waiting(NoService)) \in Nat
    BY <1>5
  <2> QED
    BY <2>2, <2>3
<1>8. Counts'
  BY <1>2, <1>6, <1>7 DEF Counts
<1> QED
  BY <1>4, <1>8

\* Calls that change the number of reads and not of the writes.
LEMMA LoopCounts ==
  ASSUME TypeOK, Counts, busy' = busy, executing' = executing,
         \A v \in Services : Number(calls', Waiting(v)) = Number(calls, Waiting(v)),
         LET loops == Number(calls', Waiting(NoService)) + (IF waiting' THEN 1 ELSE 0) + Len(due')
         IN  (started' => loops > 0) /\ loops <= starts'
  PROVE  Counts'
BY DEF Counts

LEMMA ReadTimesOutCounts ==
  ASSUME TypeOK, Counts, NEW k \in WritesOf(NoService),
         PollAgain(Without(k)),
         faults' \subseteq FaultSet,
         zero_delay' = zero_delay, started' = started, due' = due, starts' = starts,
         busy' = busy, executing' = executing, runs' = runs,
         register' = register, request' = request
  PROVE  TypeOK' /\ Counts'
<1>1. k \in DOMAIN calls /\ calls[k] \in CallSet /\ Without(k) \in Seq(CallSet)
  BY WithoutNumbers DEF WritesOf
<1>2. /\ calls[k] \in Waiting(NoService)
      /\ \A v \in Services : calls[k] \notin Waiting(v)
  BY <1>1, ServicesAreNumbers DEF Waiting, WritesOf
<1>3. \E sent \in Seq(CallSet) :
        /\ PollAgain(sent)
        /\ \A v \in Services : Number(calls, Waiting(v)) = Number(sent, Waiting(v)) + 0
        /\ Number(calls, Waiting(NoService)) = Number(sent, Waiting(NoService)) + 1
  BY <1>1, <1>2, WithoutNumbers
<1>4. PICK sent \in Seq(CallSet) :
        /\ PollAgain(sent)
        /\ \A v \in Services : Number(calls, Waiting(v)) = Number(sent, Waiting(v)) + 0
        /\ Number(calls, Waiting(NoService)) = Number(sent, Waiting(NoService)) + 1
  BY <1>3
<1>5. /\ calls' \in Seq(CallSet) /\ waiting' \in BOOLEAN
      /\ \A v \in Services : Number(calls', Waiting(v)) = Number(sent, Waiting(v))
      /\ LET reads == Number(calls', Waiting(NoService)) + (IF waiting' THEN 1 ELSE 0)
             before == Number(sent, Waiting(NoService)) + (IF waiting THEN 1 ELSE 0)
         IN  /\ reads \in Nat /\ before \in Nat /\ reads <= before + 1
             /\ started => reads > 0
  BY <1>4, PollNumbers
<1>6. /\ zero_delay' = zero_delay /\ started' = started /\ due' = due /\ starts' = starts
      /\ busy' = busy /\ executing' = executing /\ runs' = runs
      /\ register' = register /\ request' = request
  BY DEF controller, history
<1>7. TypeOK'
  BY <1>5, <1>6 DEF TypeOK, FaultSet
<1>8. \A v \in Services : Number(calls', Waiting(v)) = Number(calls, Waiting(v))
  <2> SUFFICES ASSUME NEW v \in Services
               PROVE  Number(calls', Waiting(v)) = Number(calls, Waiting(v))
    OBVIOUS
  <2>1. Number(sent, Waiting(v)) \in Nat
    BY NumberType
  <2>2. /\ Number(calls, Waiting(v)) = Number(sent, Waiting(v)) + 0
        /\ Number(calls', Waiting(v)) = Number(sent, Waiting(v))
    BY <1>4, <1>5
  <2> QED
    BY <2>1, <2>2
<1>9. LET loops == Number(calls', Waiting(NoService)) + (IF waiting' THEN 1 ELSE 0) + Len(due')
      IN  (started' => loops > 0) /\ loops <= starts'
  <2>1. /\ Len(due) \in Nat /\ starts \in Nat /\ waiting \in BOOLEAN
        /\ Number(calls, Waiting(NoService)) \in Nat
    BY LoopTypes
  <2>2. Number(calls, Waiting(NoService)) + (IF waiting THEN 1 ELSE 0) + Len(due) <= starts
    BY DEF Counts
  <2> DEFINE reads == Number(calls', Waiting(NoService)) + (IF waiting' THEN 1 ELSE 0)
             before == Number(sent, Waiting(NoService)) + (IF waiting THEN 1 ELSE 0)
             now == Number(calls, Waiting(NoService)) + (IF waiting THEN 1 ELSE 0)
  <2>3. reads \in Nat /\ before \in Nat /\ reads <= before + 1 /\ (started => reads > 0)
    BY <1>5
  <2>4. Number(sent, Waiting(NoService)) \in Nat
    BY ReadNumbers
  <2>5. now = before + 1 /\ now \in Nat /\ now + Len(due) <= starts
    <3>1. Number(calls, Waiting(NoService)) = Number(sent, Waiting(NoService)) + 1
      BY <1>4
    <3> QED
      BY <2>1, <2>2, <2>4, <3>1
  <2> HIDE DEF reads, before, now
  <2>6. (started' => reads + Len(due') > 0) /\ reads + Len(due') <= starts'
    BY <1>6, <2>1, <2>3, <2>5
  <2> QED
    BY <2>6 DEF reads
<1>10. Counts'
  BY <1>6, <1>8, <1>9, LoopCounts
<1> QED
  BY <1>7, <1>10

LEMMA StartCounts ==
  ASSUME TypeOK, Counts, Start
  PROVE  TypeOK' /\ Counts'
<1>1. /\ zero_delay' = zero_delay /\ started' = TRUE /\ waiting' = waiting /\ due' = due
      /\ busy' = busy /\ executing' = executing /\ runs' = runs
      /\ register' = register /\ request' = request /\ faults' = faults
  BY DEF Start, controller
<1>2. /\ Len(due) \in Nat /\ starts \in Nat /\ waiting \in BOOLEAN /\ calls \in Seq(CallSet)
      /\ \A v : Number(calls, Waiting(v)) \in Nat
  BY LoopTypes DEF TypeOK
<1>3. CASE started
  <2>1. calls' = calls /\ starts' = starts
    BY <1>3 DEF Start, AlreadyStarted
  <2> QED
    BY <1>1, <1>3, <2>1 DEF TypeOK, Counts
<1>4. CASE ~started
  <2>1. calls' = Append(calls, Read) /\ starts < MaxStarts /\ starts' = starts + 1
    BY <1>4 DEF Start, AlreadyStarted
  <2>2. /\ calls' \in Seq(CallSet)
        /\ Number(calls', Waiting(NoService)) = Number(calls, Waiting(NoService)) + 1
        /\ \A v \in Services : Number(calls', Waiting(v)) = Number(calls, Waiting(v))
    BY <1>2, <2>1, ReadNumbers
  <2>3. starts' \in 0 .. MaxStarts
    BY <1>2, <2>1, BoundsAssumption
  <2>4. TypeOK'
    BY <1>1, <2>2, <2>3 DEF TypeOK
  <2>5. Number(calls, Waiting(NoService)) + (IF waiting THEN 1 ELSE 0) + Len(due) <= starts
    BY DEF Counts
  <2>6. LET loops == Number(calls', Waiting(NoService)) + (IF waiting' THEN 1 ELSE 0) + Len(due')
        IN  (started' => loops > 0) /\ loops <= starts'
    BY <1>1, <1>2, <2>1, <2>2, <2>5
  <2>7. Counts'
    BY <1>1, <2>2, <2>6, LoopCounts
  <2> QED
    BY <2>4, <2>7
<1> QED
  BY <1>3, <1>4

LEMMA TimerCounts ==
  ASSUME TypeOK, Counts, NEW ec \in {"ok", "error"}, TimerEnds(ec)
  PROVE  TypeOK' /\ Counts'
<1>1. /\ zero_delay' = zero_delay /\ started' = started /\ waiting = TRUE /\ waiting' = FALSE
      /\ busy' = busy /\ executing' = executing /\ calls' = calls /\ runs' = runs
      /\ register' = register /\ request' = request /\ starts' = starts /\ faults' = faults
      /\ due' = Append(due, ec)
  BY DEF TimerEnds, controller, history, TypeOK
<1>2. /\ due' \in Seq({"ok", "error"}) /\ Len(due') = Len(due) + 1
  <2>1. due \in Seq({"ok", "error"})
    BY DEF TypeOK
  <2> QED
    BY <1>1, <2>1, AppendProperties
<1>3. TypeOK'
  BY <1>1, <1>2 DEF TypeOK
<1>4. Len(due) \in Nat /\ starts \in Nat /\ Number(calls, Waiting(NoService)) \in Nat
  BY LoopTypes
<1>5. /\ started => Number(calls, Waiting(NoService)) + 1 + Len(due) > 0
      /\ Number(calls, Waiting(NoService)) + 1 + Len(due) <= starts
  BY <1>1 DEF Counts
<1>6. LET loops == Number(calls', Waiting(NoService)) + (IF waiting' THEN 1 ELSE 0) + Len(due')
      IN  (started' => loops > 0) /\ loops <= starts'
  BY <1>1, <1>2, <1>4, <1>5
<1>7. Counts'
  BY <1>1, <1>6, LoopCounts
<1> QED
  BY <1>3, <1>7

LEMMA OnTimerCounts ==
  ASSUME TypeOK, Counts, OnTimer
  PROVE  TypeOK' /\ Counts'
<1>1. /\ zero_delay' = zero_delay /\ started' = started
      /\ busy' = busy /\ executing' = executing /\ runs' = runs
      /\ register' = register /\ request' = request /\ starts' = starts /\ faults' = faults
      /\ due # << >> /\ due' = Tail(due)
  BY DEF OnTimer, controller, history
<1>2. /\ Len(due) \in Nat /\ starts \in Nat /\ waiting \in BOOLEAN /\ calls \in Seq(CallSet)
      /\ \A v : Number(calls, Waiting(v)) \in Nat
  BY LoopTypes DEF TypeOK
<1>3. /\ due' \in Seq({"ok", "error"}) /\ Len(due') \in Nat /\ Len(due) = Len(due') + 1
  <2>1. due \in Seq({"ok", "error"})
    BY DEF TypeOK
  <2>2. Tail(due) \in Seq({"ok", "error"}) /\ Len(Tail(due)) = Len(due) - 1
    BY <1>1, <2>1, HeadTailProperties
  <2>3. Len(Tail(due)) \in Nat
    BY <2>2, LenProperties
  <2> QED
    BY <1>1, <1>2, <2>2, <2>3
<1>4. /\ calls' \in Seq(CallSet) /\ waiting' \in BOOLEAN
      /\ \A v \in Services : Number(calls', Waiting(v)) = Number(calls, Waiting(v))
      /\ LET reads == Number(calls', Waiting(NoService)) + (IF waiting' THEN 1 ELSE 0)
             before == Number(calls, Waiting(NoService)) + (IF waiting THEN 1 ELSE 0)
         IN  reads \in Nat /\ before \in Nat /\ reads > 0 /\ reads <= before + 1
  <2>1. CASE Head(due) = "ok"
    <3>1. calls' = Append(calls, Read) /\ waiting' = waiting
      BY <2>1 DEF OnTimer
    <3> QED
      BY <1>2, <3>1, ReadNumbers
  <2>2. CASE Head(due) # "ok"
    <3>1. StartReadCommandsTimer(calls)
      BY <2>2 DEF OnTimer
    <3> QED
      BY <1>2, <3>1, TimerNumbers
  <2> QED
    BY <2>1, <2>2
<1>5. TypeOK'
  BY <1>1, <1>3, <1>4 DEF TypeOK
<1> DEFINE reads == Number(calls', Waiting(NoService)) + (IF waiting' THEN 1 ELSE 0)
           before == Number(calls, Waiting(NoService)) + (IF waiting THEN 1 ELSE 0)
<1>6. reads \in Nat /\ before \in Nat /\ reads > 0 /\ reads <= before + 1
  BY <1>4
<1>7. before + Len(due) <= starts
  BY DEF Counts
<1> HIDE DEF reads, before
<1>8. (started' => reads + Len(due') > 0) /\ reads + Len(due') <= starts'
  BY <1>1, <1>2, <1>3, <1>6, <1>7
<1>9. Counts'
  BY <1>1, <1>4, <1>8, LoopCounts DEF reads
<1> QED
  BY <1>5, <1>9

\* What each command that is answered, or that ends with an error, is.
LEMMA ReceiveCounts ==
  ASSUME TypeOK, Counts, NEW k \in DOMAIN calls, Receive(k)
  PROVE  TypeOK' /\ Counts'
<1>1. CASE OnStatuses(k)
  BY <1>1, StatusesCounts
<1>2. CASE OnWritten(k, Without(k))
  <2>1. calls[k] \in CallSet /\ calls[k].v # NoService /\ calls[k].waited
    BY <1>2, WithoutNumbers DEF OnWritten, Receive
  <2>2. PICK u \in Services : calls[k].v = u
    BY <2>1, CallTypes
  <2>3. k \in WritesOf(u)
    BY <2>1, <2>2 DEF WritesOf
  <2>4. faults' \subseteq FaultSet
    BY DEF TypeOK, Receive, InOrder, FaultSet
  <2>5. UNCHANGED controller
    BY DEF Receive
  <2> QED
    BY <1>2, <2>3, <2>4, <2>5, WrittenCounts
<1> QED
  BY <1>1, <1>2 DEF Receive

LEMMA TimesOutCounts ==
  ASSUME TypeOK, Counts, NEW k \in DOMAIN calls, TimesOut(k)
  PROVE  TypeOK' /\ Counts'
<1>1. calls[k].waited /\ UNCHANGED controller /\ calls[k] \in CallSet
  BY WithoutNumbers DEF TimesOut
<1>2. CASE /\ calls[k].v = NoService
           /\ PollAgain(Without(k))
           /\ faults' = faults \union {"read timed out"}
           /\ UNCHANGED <<zero_delay, started, due, busy, executing, history>>
  <2>1. k \in WritesOf(NoService)
    BY <1>1, <1>2 DEF WritesOf
  <2>2. /\ zero_delay' = zero_delay /\ started' = started /\ due' = due /\ starts' = starts
        /\ busy' = busy /\ executing' = executing /\ runs' = runs
        /\ register' = register /\ request' = request
    BY <1>1, <1>2 DEF controller, history
  <2>3. faults' \subseteq FaultSet
    BY <1>2 DEF TypeOK, FaultSet
  <2> QED
    BY <1>2, <2>1, <2>2, <2>3, ReadTimesOutCounts
<1>3. CASE /\ OnWritten(k, Without(k)) \/ OnWritten(k, [calls EXCEPT ![k].waited = FALSE])
           /\ faults' = faults \union {"write timed out"}
  <2>1. PICK rest \in {Without(k), [calls EXCEPT ![k].waited = FALSE]} : OnWritten(k, rest)
    BY <1>3
  <2>2. calls[k].v # NoService
    BY <2>1 DEF OnWritten
  <2>3. PICK u \in Services : calls[k].v = u
    BY <1>1, <2>2, CallTypes
  <2>4. k \in WritesOf(u)
    BY <1>1, <2>3 DEF WritesOf
  <2>5. faults' \subseteq FaultSet
    BY <1>3 DEF TypeOK, FaultSet
  <2> QED
    BY <1>1, <2>1, <2>4, <2>5, WrittenCounts
<1> QED
  BY <1>2, <1>3 DEF TimesOut

LEMMA QuietCounts ==
  ASSUME TypeOK, Counts, (\E v \in Services : Request(v)) \/ Stop
  PROVE  TypeOK' /\ Counts'
<1>1. /\ zero_delay' = zero_delay /\ waiting' = waiting /\ due' = due /\ starts' = starts
      /\ busy' = busy /\ executing' = executing /\ calls' = calls /\ runs' = runs
      /\ started' \in BOOLEAN /\ (started' => started) /\ faults' = faults
  <2>1. ASSUME NEW v \in Services, Request(v)
        PROVE  /\ zero_delay' = zero_delay /\ waiting' = waiting /\ due' = due
               /\ starts' = starts /\ busy' = busy /\ executing' = executing
               /\ calls' = calls /\ runs' = runs /\ started' = started /\ faults' = faults
    BY <2>1 DEF Request, server, history
  <2>2. CASE Stop
    BY <2>2 DEF Stop, history
  <2>3. started \in BOOLEAN
    BY DEF TypeOK
  <2> QED
    BY <2>1, <2>2, <2>3 DEF Stop
<1>2. /\ register' \in [Services -> {"idle", "requested", "error"}]
      /\ request' \in [Services -> 0 .. MaxRequests]
  <2>1. ASSUME NEW v \in Services, Request(v)
        PROVE  /\ register' \in [Services -> {"idle", "requested", "error"}]
               /\ request' \in [Services -> 0 .. MaxRequests]
    <3>1. MaxRequests \in Nat
      BY BoundsAssumption
    <3>2. request[v] \in 0 .. MaxRequests /\ request[v] < MaxRequests
      BY <2>1 DEF TypeOK, Request
    <3>3. request[v] + 1 \in 0 .. MaxRequests
      BY <3>1, <3>2
    <3> QED
      BY <2>1, <3>3 DEF TypeOK, Request
  <2>2. CASE Stop
    BY <2>2 DEF TypeOK, Stop, controller
  <2> QED
    BY <2>1, <2>2
<1>3. TypeOK'
  BY <1>1, <1>2 DEF TypeOK
<1>4. Counts'
  BY <1>1 DEF Counts
<1> QED
  BY <1>3, <1>4

LEMMA CountedStep == TypeOK /\ Counts /\ [Next]_vars => TypeOK' /\ Counts'
<1> SUFFICES ASSUME TypeOK, Counts, [Next]_vars
             PROVE  TypeOK' /\ Counts'
  OBVIOUS
<1>1. CASE UNCHANGED vars
  <2>1. /\ zero_delay' = zero_delay /\ started' = started /\ waiting' = waiting /\ due' = due
        /\ busy' = busy /\ executing' = executing /\ calls' = calls /\ register' = register
        /\ request' = request /\ runs' = runs /\ starts' = starts /\ faults' = faults
    BY <1>1 DEF vars, server, controller, history
  <2> QED
    BY <2>1 DEF TypeOK, Counts
<1>2. ASSUME NEW v \in Services, Request(v) \/ Resolve(v)
      PROVE  TypeOK' /\ Counts'
  BY <1>2, QuietCounts, ResolveCounts
<1>3. ASSUME NEW k \in DOMAIN calls, Handle(k) \/ Duplicate(k) \/ Lose(k)
      PROVE  TypeOK' /\ Counts'
  BY <1>3, NetworkCounts
<1>4. ASSUME NEW k \in DOMAIN calls, Receive(k)
      PROVE  TypeOK' /\ Counts'
  BY <1>4, ReceiveCounts
<1>5. ASSUME NEW k \in DOMAIN calls, TimesOut(k)
      PROVE  TypeOK' /\ Counts'
  BY <1>5, TimesOutCounts
<1>6. CASE Start
  BY <1>6, StartCounts
<1>7. CASE Stop
  BY <1>7, QuietCounts
<1>8. ASSUME NEW ec \in {"ok", "error"}, TimerEnds(ec)
      PROVE  TypeOK' /\ Counts'
  BY <1>8, TimerCounts
<1>9. CASE OnTimer
  BY <1>9, OnTimerCounts
<1> QED
  BY <1>1, <1>2, <1>3, <1>4, <1>5, <1>6, <1>7, <1>8, <1>9 DEF Next

THEOREM Counted == Spec => [](TypeOK /\ Counts)
BY InitCounts, CountedStep, PTL DEF Spec

\* Every state is of the types that the code declares.
THEOREM TypeCorrect == Spec => []TypeOK
BY Counted, PTL

\* The busy flag of a service (rpc_server.hpp:93-104) is set exactly while the service
\* executes or has its status written, and never for two executions: neither a second
\* poll loop nor a read that was answered late calls it twice, and no error leaves the
\* flag set.
THEOREM BusyWhileBusy == Spec => []OneAtATime
BY Counted, CountsMeans, PTL

\* A started server has a poll loop, whatever ends with an error, and no sequence of
\* starts, stops and late handlers gives it more than it was started times.
THEOREM NoLoopIsLost == Spec => []KeepsPolling
BY Counted, CountsMeans, PTL

-----------------------------------------------------------------------------
(* Requests that are executed once.                                        *)

LEMMA CountsFlags ==
  ASSUME TypeOK, Counts
  PROVE  Flags
<1> SUFFICES ASSUME NEW v \in Services
             PROVE  /\ v \in executing => v \in busy
                    /\ WritesOf(v) # {} <=> v \in busy /\ v \notin executing
                    /\ \A j, k \in WritesOf(v) : j = k
  BY DEF Flags
<1> DEFINE number == Cardinality(WritesOf(v))
<1>1. IsFiniteSet(WritesOf(v)) /\ number \in Nat
  BY WritesAreNumbered, FS_CardinalityType
<1>2. number + (IF v \in executing THEN 1 ELSE 0) = IF v \in busy THEN 1 ELSE 0
  BY WritesAreNumbered DEF Counts
<1>3. number = 0 <=> WritesOf(v) = {}
  BY <1>1, FS_EmptySet
<1>4. number = 1 => \E x : WritesOf(v) = {x}
  BY <1>1, FS_Singleton
<1> HIDE DEF number
<1>5. /\ v \in executing => v \in busy
      /\ number # 0 <=> v \in busy /\ v \notin executing
      /\ number = 0 \/ number = 1
  BY <1>1, <1>2
<1>6. \A j, k \in WritesOf(v) : j = k
  BY <1>3, <1>4, <1>5
<1> QED
  BY <1>3, <1>5, <1>6

\* `to' is what is left of `from' when the places of `gone' left, in the same order,
\* followed by new commands for the services of `new'.
Moved(from, to, gone, new) ==
  \E n \in Nat : \E old \in [1 .. n -> DOMAIN from] :
    /\ \A j \in 1 .. n : j \in DOMAIN to /\ to[j] = from[old[j]] /\ old[j] \notin gone
    /\ \A i, j \in 1 .. n : i < j => old[i] < old[j]
    /\ \A j \in DOMAIN to : j \in 1 .. n \/ (j > n /\ to[j].v \in new
                                             /\ to[j].stage = "asked" /\ to[j].waited)

LEMMA MovedNot ==
  ASSUME NEW q \in Seq(CallSet)
  PROVE  Moved(q, q, {}, {})
<1>1. Len(q) \in Nat /\ DOMAIN q = 1 .. Len(q)
  BY LenProperties
<1> DEFINE old == [j \in 1 .. Len(q) |-> j]
<1>2. old \in [1 .. Len(q) -> DOMAIN q]
  BY <1>1
<1>3. /\ \A j \in 1 .. Len(q) : j \in DOMAIN q /\ q[j] = q[old[j]] /\ old[j] \notin {}
      /\ \A i, j \in 1 .. Len(q) : i < j => old[i] < old[j]
      /\ \A j \in DOMAIN q : j \in 1 .. Len(q)
  BY <1>1
<1> DEFINE n == Len(q)
<1>4. n \in Nat /\ old \in [1 .. n -> DOMAIN q]
  BY <1>1, <1>2
<1>5. /\ \A j \in 1 .. n : j \in DOMAIN q /\ q[j] = q[old[j]] /\ old[j] \notin {}
      /\ \A i, j \in 1 .. n : i < j => old[i] < old[j]
      /\ \A j \in DOMAIN q : j \in 1 .. n \/ (j > n /\ q[j].v \in {}
                                             /\ q[j].stage = "asked" /\ q[j].waited)
  BY <1>3, Zenon
<1> HIDE DEF old, n
<1> QED
  BY <1>4, <1>5 DEF Moved

LEMMA MovedCut ==
  ASSUME NEW q \in Seq(CallSet), NEW k \in DOMAIN q
  PROVE  Moved(q, Older(q, k) \o Newer(q, k), {k}, {})
<1> DEFINE a == Older(q, k)
           b == Newer(q, k)
           r == a \o b
           n == Len(q) - 1
           old == [j \in 1 .. n |-> IF j < k THEN j ELSE j + 1]
<1>1. Len(q) \in Nat /\ DOMAIN q = 1 .. Len(q) /\ k \in 1 .. Len(q) /\ n \in Nat
      /\ \A i \in 1 .. Len(q) : q[i] \in CallSet
  BY LenProperties, ElementOfSeq
<1>2. /\ a \in Seq(CallSet) /\ Len(a) = k - 1
      /\ \A i \in 1 .. k - 1 : a[i] = q[i]
  <2>1. /\ \A i \in 1 .. k - 1 : q[i] \in CallSet
        /\ 1 \in Int /\ k - 1 \in Int
    BY <1>1
  <2>2. /\ a \in Seq(CallSet)
        /\ Len(a) = IF 1 <= k - 1 THEN k - 1 - 1 + 1 ELSE 0
        /\ \A i \in 1 .. k - 1 - 1 + 1 : a[i] = q[1 + i - 1]
    BY <2>1, SubSeqProperties DEF Older
  <2> HIDE DEF a
  <2>3. ASSUME NEW i \in 1 .. k - 1
        PROVE  a[i] = q[i]
    <3>1. i \in 1 .. k - 1 - 1 + 1 /\ 1 + i - 1 = i
      BY <1>1
    <3> QED
      BY <2>2, <3>1
  <2>4. Len(a) = k - 1
    BY <1>1, <2>2
  <2> QED
    BY <2>2, <2>3, <2>4
<1>3. /\ b \in Seq(CallSet) /\ Len(b) = Len(q) - k
      /\ \A i \in 1 .. Len(q) - k : b[i] = q[k + i]
  <2>1. /\ \A i \in k + 1 .. Len(q) : q[i] \in CallSet
        /\ k + 1 \in Int /\ Len(q) \in Int
    BY <1>1
  <2>2. /\ b \in Seq(CallSet)
        /\ Len(b) = IF k + 1 <= Len(q) THEN Len(q) - (k + 1) + 1 ELSE 0
        /\ \A i \in 1 .. Len(q) - (k + 1) + 1 : b[i] = q[k + 1 + i - 1]
    BY <2>1, SubSeqProperties DEF Newer
  <2> HIDE DEF b
  <2>3. ASSUME NEW i \in 1 .. Len(q) - k
        PROVE  b[i] = q[k + i]
    <3>1. i \in 1 .. Len(q) - (k + 1) + 1 /\ k + 1 + i - 1 = k + i
      BY <1>1
    <3> QED
      BY <2>2, <3>1
  <2>4. Len(b) = Len(q) - k
    BY <1>1, <2>2
  <2> QED
    BY <2>2, <2>3, <2>4
<1> HIDE DEF a, b
<1>4. /\ r \in Seq(CallSet) /\ DOMAIN r = 1 .. n
      /\ \A j \in 1 .. n : r[j] = IF j <= Len(a) THEN a[j] ELSE b[j - Len(a)]
  <2>1. /\ r \in Seq(CallSet) /\ Len(r) = Len(a) + Len(b)
        /\ \A j \in 1 .. Len(a) + Len(b) : r[j] = IF j <= Len(a) THEN a[j] ELSE b[j - Len(a)]
    BY <1>2, <1>3, ConcatProperties
  <2>2. Len(a) + Len(b) = n
    BY <1>1, <1>2, <1>3
  <2>3. DOMAIN r = 1 .. Len(r)
    BY <2>1, LenProperties
  <2> QED
    BY <2>1, <2>2, <2>3
<1> HIDE DEF r
<1>5. old \in [1 .. n -> DOMAIN q]
  BY <1>1
<1>6. ASSUME NEW j \in 1 .. n
      PROVE  j \in DOMAIN r /\ r[j] = q[old[j]] /\ old[j] \notin {k}
  <2>1. CASE j < k
    BY <1>1, <1>2, <1>4, <2>1
  <2>2. CASE ~(j < k)
    <3>1. /\ j - Len(a) \in 1 .. Len(q) - k /\ ~(j <= Len(a)) /\ k + (j - Len(a)) = j + 1
      BY <1>1, <1>2, <2>2
    <3>2. r[j] = b[j - Len(a)]
      BY <1>4, <3>1
    <3>3. b[j - Len(a)] = q[k + (j - Len(a))]
      BY <1>3, <3>1
    <3>4. old[j] = j + 1 /\ j + 1 # k
      BY <1>1, <2>2
    <3> QED
      BY <1>4, <3>1, <3>2, <3>3, <3>4
  <2> QED
    BY <2>1, <2>2
<1>7. \A i, j \in 1 .. n : i < j => old[i] < old[j]
  BY <1>1
<1> HIDE DEF old
<1>8. Moved(q, r, {k}, {})
  <2>1. \A j \in DOMAIN r : j \in 1 .. n
    BY <1>4
  <2>2. n \in Nat
    BY <1>1
  <2> HIDE DEF n
  <2>3. /\ \A j \in 1 .. n : j \in DOMAIN r /\ r[j] = q[old[j]] /\ old[j] \notin {k}
        /\ \A i, j \in 1 .. n : i < j => old[i] < old[j]
        /\ \A j \in DOMAIN r : j \in 1 .. n \/ (j > n /\ r[j].v \in {}
                                               /\ r[j].stage = "asked" /\ r[j].waited)
    <3>1. \A j \in DOMAIN r : j \in 1 .. n \/ (j > n /\ r[j].v \in {}
                                              /\ r[j].stage = "asked" /\ r[j].waited)
      BY <2>1, Zenon
    <3> QED
      BY <1>6, <1>7, <3>1, Zenon
  <2> QED
    BY <1>5, <2>2, <2>3 DEF Moved
<1> QED
  BY <1>8 DEF r, a, b

LEMMA MovedConcat ==
  ASSUME NEW q, NEW r \in Seq(CallSet), NEW gone, NEW new, Moved(q, r, gone, new),
         NEW e \in Seq(CallSet), NEW more,
         \A i \in DOMAIN e : e[i].v \in more /\ e[i].stage = "asked" /\ e[i].waited
  PROVE  Moved(q, r \o e, gone, new \union more)
<1> DEFINE s == r \o e
<1>1. PICK n \in Nat : \E old \in [1 .. n -> DOMAIN q] :
        /\ \A j \in 1 .. n : j \in DOMAIN r /\ r[j] = q[old[j]] /\ old[j] \notin gone
        /\ \A i, j \in 1 .. n : i < j => old[i] < old[j]
        /\ \A j \in DOMAIN r : j \in 1 .. n \/ (j > n /\ r[j].v \in new
                                               /\ r[j].stage = "asked" /\ r[j].waited)
  BY DEF Moved
<1>2. PICK old \in [1 .. n -> DOMAIN q] :
        /\ \A j \in 1 .. n : j \in DOMAIN r /\ r[j] = q[old[j]] /\ old[j] \notin gone
        /\ \A i, j \in 1 .. n : i < j => old[i] < old[j]
        /\ \A j \in DOMAIN r : j \in 1 .. n \/ (j > n /\ r[j].v \in new
                                               /\ r[j].stage = "asked" /\ r[j].waited)
  BY <1>1
<1>3. /\ Len(r) \in Nat
      /\ \A k \in DOMAIN r : k \in DOMAIN s /\ s[k] = r[k] /\ k <= Len(r)
      /\ \A k \in DOMAIN s :
           \/ k \in DOMAIN r /\ s[k] = r[k]
           \/ k - Len(r) \in DOMAIN e /\ s[k] = e[k - Len(r)] /\ k > Len(r)
      /\ DOMAIN s \subseteq Nat \ {0}
  BY ConcatPlaces
<1> HIDE DEF s
<1>4. \A j \in 1 .. n : j \in DOMAIN s /\ s[j] = q[old[j]] /\ old[j] \notin gone
  BY <1>2, <1>3
<1>5. ASSUME NEW j \in DOMAIN s
      PROVE  j \in 1 .. n \/ (j > n /\ s[j].v \in new \union more
                              /\ s[j].stage = "asked" /\ s[j].waited)
  <2>1. CASE j \in DOMAIN r /\ s[j] = r[j]
    BY <1>2, <2>1
  <2>2. CASE j - Len(r) \in DOMAIN e /\ s[j] = e[j - Len(r)] /\ j > Len(r)
    <3>1. s[j].v \in more /\ s[j].stage = "asked" /\ s[j].waited
      BY <2>2
    <3>2. j \in 1 .. n \/ j > n
      BY <1>3
    <3> QED
      BY <3>1, <3>2
  <2> QED
    BY <1>3, <2>1, <2>2
<1>6. Moved(q, s, gone, new \union more)
  BY <1>2, <1>4, <1>5 DEF Moved
<1> QED
  BY <1>6 DEF s

LEMMA MovedMore ==
  ASSUME NEW q, NEW r, NEW gone, NEW new, NEW more, new \subseteq more, Moved(q, r, gone, new)
  PROVE  Moved(q, r, gone, more)
<1>1. PICK n \in Nat : \E old \in [1 .. n -> DOMAIN q] :
        /\ \A j \in 1 .. n : j \in DOMAIN r /\ r[j] = q[old[j]] /\ old[j] \notin gone
        /\ \A i, j \in 1 .. n : i < j => old[i] < old[j]
        /\ \A j \in DOMAIN r : j \in 1 .. n \/ (j > n /\ r[j].v \in new
                                               /\ r[j].stage = "asked" /\ r[j].waited)
  BY DEF Moved
<1>2. PICK old \in [1 .. n -> DOMAIN q] :
        /\ \A j \in 1 .. n : j \in DOMAIN r /\ r[j] = q[old[j]] /\ old[j] \notin gone
        /\ \A i, j \in 1 .. n : i < j => old[i] < old[j]
        /\ \A j \in DOMAIN r : j \in 1 .. n \/ (j > n /\ r[j].v \in new
                                               /\ r[j].stage = "asked" /\ r[j].waited)
  BY <1>1
<1>3. \A j \in DOMAIN r : j \in 1 .. n \/ (j > n /\ r[j].v \in more
                                          /\ r[j].stage = "asked" /\ r[j].waited)
  BY <1>2
<1> QED
  BY <1>2, <1>3 DEF Moved

LEMMA MovedByRead ==
  ASSUME NEW q, NEW r \in Seq(CallSet), NEW gone, NEW new, Moved(q, r, gone, new)
  PROVE  Moved(q, Append(r, Read), gone, new \union {NoService})
<1> DEFINE one == <<Read>>
<1>1. one \in Seq(CallSet)
  BY CallTypes
<1>2. \A i \in DOMAIN one : one[i].v \in {NoService} /\ one[i].stage = "asked" /\ one[i].waited
  BY CallTypes
<1>3. Append(r, Read) = r \o one
  BY ReadNumbers
<1> HIDE DEF one
<1>4. Moved(q, r \o one, gone, new \union {NoService})
  BY <1>1, <1>2, MovedConcat
<1> QED
  BY <1>3, <1>4

\* The timer, or the next read.
LEMMA MovedByTimer ==
  ASSUME NEW sent \in Seq(CallSet), NEW q, NEW gone, NEW new, Moved(q, sent, gone, new),
         StartReadCommandsTimer(sent) \/ PollAgain(sent)
  PROVE  Moved(q, calls', gone, new \union {NoService})
<1>1. calls' = sent \/ calls' = Append(sent, Read)
  BY DEF StartReadCommandsTimer, PollAgain
<1>2. Moved(q, sent, gone, new \union {NoService})
  BY MovedMore
<1>3. Moved(q, Append(sent, Read), gone, new \union {NoService})
  BY MovedByRead
<1> QED
  BY <1>1, <1>2, <1>3

\* What is left of the commands is what it was for a service of which the controller's
\* variables did not change.
LEMMA OrderMoves ==
  ASSUME TypeOK, calls' \in Seq(CallSet),
         NEW v \in Services, NEW gone, NEW new, Moved(calls, calls', gone, new),
         register'[v] = register[v], request'[v] = request[v], Order(v)
  PROVE  /\ \A j \in DOMAIN calls' : Stale(v, j)' => \E i \in DOMAIN calls : Stale(v, i)
         /\ \A k \in WritesOf(v)' :
              \/ \E i \in WritesOf(v) : i \notin gone /\ calls'[k] = calls[i]
              \/ v \in new /\ calls'[k].stage = "asked"
         /\ \A j \in DOMAIN calls' : Stale(v, j)' => \A k \in WritesOf(v)' : j < k
         /\ \A k \in WritesOf(v)' : \A j \in DOMAIN calls' :
              /\ calls'[k].stage = "asked" /\ k < j
              => calls'[j].v # NoService \/ calls'[j].stage # "answered"
<1>0. DOMAIN calls \subseteq Nat /\ DOMAIN calls' \subseteq Nat
  <2>1. /\ DOMAIN calls = 1 .. Len(calls) /\ Len(calls) \in Nat
        /\ DOMAIN calls' = 1 .. Len(calls') /\ Len(calls') \in Nat
    BY LenProperties DEF TypeOK
  <2> QED
    BY <2>1
<1>1. PICK n \in Nat : \E old \in [1 .. n -> DOMAIN calls] :
        /\ \A j \in 1 .. n : j \in DOMAIN calls' /\ calls'[j] = calls[old[j]] /\ old[j] \notin gone
        /\ \A i, j \in 1 .. n : i < j => old[i] < old[j]
        /\ \A j \in DOMAIN calls' : j \in 1 .. n \/ (j > n /\ calls'[j].v \in new
                                               /\ calls'[j].stage = "asked" /\ calls'[j].waited)
  BY DEF Moved
<1>2. PICK old \in [1 .. n -> DOMAIN calls] :
        /\ \A j \in 1 .. n : j \in DOMAIN calls' /\ calls'[j] = calls[old[j]] /\ old[j] \notin gone
        /\ \A i, j \in 1 .. n : i < j => old[i] < old[j]
        /\ \A j \in DOMAIN calls' : j \in 1 .. n \/ (j > n /\ calls'[j].v \in new
                                               /\ calls'[j].stage = "asked" /\ calls'[j].waited)
  BY <1>1
<1>3. ASSUME NEW j \in DOMAIN calls', Stale(v, j)'
      PROVE  j \in 1 .. n /\ Stale(v, old[j])
  <2>1. calls'[j].stage = "answered"
    BY <1>3 DEF Stale
  <2>2. j \in 1 .. n /\ calls'[j] = calls[old[j]]
    BY <1>2, <2>1
  <2> QED
    BY <1>3, <2>2 DEF Stale
<1>4. ASSUME NEW k \in WritesOf(v)'
      PROVE  /\ k \in DOMAIN calls' /\ calls'[k].v = v
             /\ \/ k \in 1 .. n /\ old[k] \in WritesOf(v) /\ calls'[k] = calls[old[k]]
                \/ k > n /\ v \in new /\ calls'[k].stage = "asked"
  <2>1. k \in DOMAIN calls' /\ calls'[k].v = v /\ calls'[k].waited
    BY DEF WritesOf
  <2>2. CASE k \in 1 .. n
    <3>1. calls'[k] = calls[old[k]] /\ old[k] \in DOMAIN calls
      BY <1>2, <2>2
    <3> QED
      BY <2>1, <2>2, <3>1 DEF WritesOf
  <2>3. CASE k \notin 1 .. n
    BY <1>2, <2>1, <2>3
  <2> QED
    BY <2>1, <2>2, <2>3
<1>5. ASSUME NEW j \in DOMAIN calls', Stale(v, j)'
      PROVE  \E i \in DOMAIN calls : Stale(v, i)
  BY <1>2, <1>3, <1>5
<1>6. ASSUME NEW k \in WritesOf(v)'
      PROVE  \/ \E i \in WritesOf(v) : i \notin gone /\ calls'[k] = calls[i]
             \/ v \in new /\ calls'[k].stage = "asked"
  BY <1>2, <1>4
<1>7. ASSUME NEW j \in DOMAIN calls', Stale(v, j)', NEW k \in WritesOf(v)'
      PROVE  j < k
  <2>1. j \in 1 .. n /\ Stale(v, old[j]) /\ old[j] \in DOMAIN calls
    BY <1>2, <1>3, <1>7
  <2>2. CASE k \in 1 .. n /\ old[k] \in WritesOf(v)
    <3>1. old[j] < old[k]
      BY <2>1, <2>2 DEF Order
    <3>2. old[j] \in Nat /\ old[k] \in Nat
      BY <1>0, <2>1, <2>2 DEF WritesOf
    <3>3. ~(k < j) /\ j # k
      BY <1>2, <2>1, <2>2, <3>1, <3>2
    <3> QED
      BY <2>1, <2>2, <3>3
  <2>3. CASE k > n
    <3>1. j \in Nat /\ k \in Nat /\ j <= n
      BY <1>0, <1>4, <2>1
    <3> QED
      BY <2>3, <3>1
  <2> QED
    BY <1>4, <2>2, <2>3
<1>8. ASSUME NEW k \in WritesOf(v)', NEW j \in DOMAIN calls',
             calls'[k].stage = "asked", k < j, calls'[j].v = NoService
      PROVE  calls'[j].stage # "answered"
  <2>1. CASE j \in 1 .. n
    <3>1. k \in 1 .. n /\ old[k] \in WritesOf(v) /\ calls'[k] = calls[old[k]]
      <4>1. k \in Nat /\ k <= n
        BY <1>0, <1>4, <1>8, <2>1
      <4>2. ~(k > n)
        BY <4>1
      <4> QED
        BY <1>4, <4>2
    <3>2. /\ old[k] < old[j] /\ calls'[j] = calls[old[j]] /\ old[j] \in DOMAIN calls
      BY <1>2, <1>8, <2>1, <3>1
    <3> QED
      BY <1>8, <3>1, <3>2 DEF Order
  <2>2. CASE j \notin 1 .. n
    BY <1>2, <2>2
  <2> QED
    BY <2>1, <2>2
<1> QED
  BY <1>5, <1>6, <1>7, <1>8

\* A service that a step is not about stays in step.
LEMMA OthersInStep ==
  ASSUME TypeOK, calls' \in Seq(CallSet),
         NEW v \in Services, NEW gone, NEW new, Moved(calls, calls', gone, new), v \notin new,
         register'[v] = register[v], request'[v] = request[v], runs'[v] = runs[v],
         v \in busy' <=> v \in busy, v \in executing' <=> v \in executing, InStep(v)
  PROVE  InStep(v)'
<1>1. /\ \A j \in DOMAIN calls' : Stale(v, j)' => \E i \in DOMAIN calls : Stale(v, i)
      /\ \A k \in WritesOf(v)' : \E i \in WritesOf(v) : i \notin gone /\ calls'[k] = calls[i]
      /\ \A j \in DOMAIN calls' : Stale(v, j)' => \A k \in WritesOf(v)' : j < k
      /\ \A k \in WritesOf(v)' : \A j \in DOMAIN calls' :
           /\ calls'[k].stage = "asked" /\ k < j
           => calls'[j].v # NoService \/ calls'[j].stage # "answered"
  BY OrderMoves DEF InStep
<1>2. Executed(v)'
  BY DEF InStep, Executed
<1>3. (Underway(v)' <=> Underway(v)) /\ (Ahead(v)' <=> Ahead(v))
  BY DEF Underway, Ahead
<1>4. Progress(v)'
  <2>1. /\ v \in executing' => Underway(v)'
        /\ v \notin busy' => Ahead(v)'
    BY <1>3 DEF InStep, Progress
  <2>2. ASSUME NEW k \in WritesOf(v)'
        PROVE  /\ calls'[k].stage = "asked" => Underway(v)'
               /\ calls'[k].stage = "answered" => Ahead(v)'
    <3>1. PICK i \in WritesOf(v) : calls'[k] = calls[i]
      BY <1>1, <2>2
    <3> QED
      BY <1>3, <3>1 DEF InStep, Progress
  <2> QED
    BY <2>1, <2>2 DEF Progress
<1>5. Order(v)'
  <2>1. \A j \in DOMAIN calls' : Stale(v, j)' => v \in busy'
    BY <1>1 DEF InStep, Order
  <2> QED
    BY <1>1, <2>1 DEF Order
<1> QED
  BY <1>2, <1>4, <1>5 DEF InStep

\* The controller asks for a service.
LEMMA RequestInStep ==
  ASSUME TypeOK, NEW v \in Services, Request(v), InStep(v)
  PROVE  InStep(v)'
<1>1. /\ register[v] # "requested" /\ register'[v] = "requested"
      /\ request[v] \in Nat /\ request'[v] = request[v] + 1
      /\ runs' = runs /\ calls' = calls /\ busy' = busy /\ executing' = executing
  <2>1. /\ register \in [Services -> {"idle", "requested", "error"}]
        /\ request \in [Services -> 0 .. MaxRequests] /\ MaxRequests \in Nat
    BY BoundsAssumption DEF TypeOK
  <2>2. request[v] \in 0 .. MaxRequests
    BY <2>1
  <2>3. request[v] \in Nat
    BY <2>1, <2>2
  <2> QED
    BY <2>1, <2>3 DEF Request, server, history
<1>2. \A n \in 1 .. MaxRequests : n \in Nat
  BY BoundsAssumption
<1>3. Executed(v)'
  BY <1>1, <1>2 DEF InStep, Executed
<1>4. ~Underway(v)
  BY <1>1 DEF Underway
<1>5. Ahead(v)'
  <2>1. request'[v] \in 1 .. MaxRequests
    BY <1>1, BoundsAssumption DEF Request
  <2> QED
    BY <1>1, <2>1 DEF Ahead, InStep, Executed
<1>6. WritesOf(v)' = WritesOf(v)
  BY <1>1 DEF WritesOf
<1>7. Progress(v)'
  BY <1>1, <1>4, <1>5, <1>6 DEF InStep, Progress
<1>8. \A j \in DOMAIN calls' : Stale(v, j)' => Stale(v, j)
  BY <1>1 DEF Stale
<1>9. Order(v)'
  BY <1>1, <1>6, <1>8 DEF InStep, Order
<1> QED
  BY <1>3, <1>7, <1>9 DEF InStep

\* A service that resolves sends the write of its status.
LEMMA ResolveInStep ==
  ASSUME TypeOK, Flags, calls' \in Seq(CallSet), NEW v \in Services, Resolve(v),
         Moved(calls, calls', {}, {v}), InStep(v)
  PROVE  InStep(v)'
<1>1. /\ v \in executing /\ v \notin executing' /\ busy' = busy
      /\ register' = register /\ request' = request /\ runs' = runs
  BY DEF Resolve, controller, history
<1>2. v \in busy /\ WritesOf(v) = {} /\ Underway(v)
  BY <1>1 DEF Flags, InStep, Progress
<1>3. /\ \A k \in WritesOf(v)' : calls'[k].stage = "asked"
      /\ \A j \in DOMAIN calls' : Stale(v, j)' => \A k \in WritesOf(v)' : j < k
      /\ \A k \in WritesOf(v)' : \A j \in DOMAIN calls' :
           /\ calls'[k].stage = "asked" /\ k < j
           => calls'[j].v # NoService \/ calls'[j].stage # "answered"
  <2>1. register'[v] = register[v] /\ request'[v] = request[v] /\ Order(v)
    BY <1>1 DEF InStep
  <2> QED
    BY <1>2, <2>1, OrderMoves
<1>4. Executed(v)' /\ Underway(v)'
  BY <1>1, <1>2 DEF InStep, Executed, Underway
<1>5. Progress(v)'
  BY <1>1, <1>2, <1>3, <1>4 DEF Progress
<1>6. Order(v)'
  BY <1>1, <1>2, <1>3 DEF Order
<1> QED
  BY <1>4, <1>5, <1>6 DEF InStep

\* A service that is called: it was not busy, so the read that asks for it shows the
\* request that is to be executed.
LEMMA CalledInStep ==
  ASSUME TypeOK, Flags, calls' \in Seq(CallSet), NEW k \in DOMAIN calls,
         NEW v \in Called(calls[k].seen), calls[k].stage = "answered",
         OnStatuses(k), UNCHANGED controller,
         NEW new, Moved(calls, calls', {k}, new), InStep(v)
  PROVE  InStep(v)'
<1>1. v \in Services /\ calls[k].seen[v] # 0 /\ v \notin busy /\ calls[k].v = NoService
  BY DEF Called, TestAndSet, OnStatuses
<1>2. register' = register /\ request' = request /\ v \in busy'
  BY DEF controller, OnStatuses
<1>3. calls[k].seen[v] = request[v] /\ register[v] = "requested"
  BY <1>1 DEF InStep, Order, Stale
<1>4. runs[v][request[v]] = 0 /\ request[v] \in 1 .. MaxRequests
  <2>1. runs[v][request[v]] = 0
    BY <1>1, <1>3 DEF InStep, Progress, Ahead
  <2>2. request[v] \in 0 .. MaxRequests /\ MaxRequests \in Nat
    BY <1>1, BoundsAssumption DEF TypeOK
  <2> QED
    BY <1>1, <1>3, <2>1, <2>2
<1>5. runs'[v] = [runs[v] EXCEPT ![request[v]] = 1]
  <2>1. runs' = [w \in Services |->
                   IF w \in Called(calls[k].seen)
                   THEN [runs[w] EXCEPT ![calls[k].seen[w]] = IF @ = 0 THEN 1 ELSE 2]
                   ELSE runs[w]]
    BY DEF OnStatuses
  <2> QED
    BY <1>1, <1>3, <1>4, <2>1
<1>6. /\ runs'[v][request[v]] = 1
      /\ \A n \in 1 .. MaxRequests : n # request[v] => runs'[v][n] = runs[v][n]
  <2>1. runs[v] \in [1 .. MaxRequests -> 0 .. 2]
    BY <1>1 DEF TypeOK
  <2> QED
    BY <1>4, <1>5, <2>1
<1>7. Executed(v)' /\ Underway(v)'
  <2>1. \A n \in 1 .. MaxRequests : n \in Nat
    BY BoundsAssumption
  <2>2. request[v] \in Nat
    BY <1>4, BoundsAssumption
  <2> QED
    BY <1>2, <1>3, <1>4, <1>6, <2>1, <2>2 DEF InStep, Executed, Underway
<1>8. /\ WritesOf(v) = {}
      /\ \A j \in DOMAIN calls : ~Stale(v, j)
  BY <1>1 DEF Flags, InStep, Order
<1>9. /\ \A j \in DOMAIN calls' : ~Stale(v, j)'
      /\ \A i \in WritesOf(v)' : calls'[i].stage = "asked"
      /\ \A i \in WritesOf(v)' : \A j \in DOMAIN calls' :
           /\ calls'[i].stage = "asked" /\ i < j
           => calls'[j].v # NoService \/ calls'[j].stage # "answered"
  <2>1. register'[v] = register[v] /\ request'[v] = request[v] /\ Order(v)
    BY <1>2 DEF InStep
  <2> QED
    BY <1>1, <1>8, <2>1, OrderMoves
<1>10. Progress(v)'
  BY <1>2, <1>7, <1>9 DEF Progress
<1>11. Order(v)'
  BY <1>9 DEF Order
<1> QED
  BY <1>7, <1>10, <1>11 DEF InStep

\* A write of a status is answered: what was read before it was answered before.
LEMMA WrittenInStep ==
  ASSUME TypeOK, Flags, calls' \in Seq(CallSet), NEW v \in Services, NEW k \in WritesOf(v),
         Moved(calls, calls', {k}, {}),
         calls[k].stage = "answered", \A j \in 1 .. k - 1 : calls[j].stage # "answered",
         register' = register, request' = request, runs' = runs,
         executing' = executing, busy' = busy \ {v}, InStep(v)
  PROVE  InStep(v)'
<1>1. v \notin executing /\ \A i \in WritesOf(v) : i = k
  BY DEF Flags
<1>2. Ahead(v)
  BY DEF InStep, Progress
<1>3. Executed(v)' /\ Ahead(v)'
  BY <1>2 DEF InStep, Executed, Ahead
<1>4. \A j \in DOMAIN calls : ~Stale(v, j)
  <2>1. ASSUME NEW j \in DOMAIN calls, Stale(v, j)
        PROVE  FALSE
    <3>1. j < k /\ calls[j].stage = "answered"
      BY <2>1 DEF InStep, Order, Stale
    <3>2. j \in 1 .. k - 1
      <4>1. DOMAIN calls = 1 .. Len(calls) /\ Len(calls) \in Nat
        BY LenProperties DEF TypeOK
      <4>2. k \in DOMAIN calls
        BY DEF WritesOf
      <4> QED
        BY <3>1, <4>1, <4>2
    <3> QED
      BY <3>1, <3>2
  <2> QED
    BY <2>1
<1>5. /\ \A j \in DOMAIN calls' : ~Stale(v, j)'
      /\ WritesOf(v)' = {}
  <2>1. register'[v] = register[v] /\ request'[v] = request[v] /\ Order(v)
    BY DEF InStep
  <2>2. /\ \A j \in DOMAIN calls' : Stale(v, j)' => \E i \in DOMAIN calls : Stale(v, i)
        /\ \A i \in WritesOf(v)' : \E h \in WritesOf(v) : h # k
    BY <2>1, OrderMoves
  <2> QED
    BY <1>1, <1>4, <2>2
<1>6. Progress(v)'
  BY <1>1, <1>3, <1>5 DEF Progress
<1>7. Order(v)'
  BY <1>5 DEF Order
<1> QED
  BY <1>3, <1>6, <1>7 DEF InStep

\* The controller executes the first command that it does not have yet.
LEMMA HandleInStep ==
  ASSUME TypeOK, Flags, AllWaited, NEW k \in DOMAIN calls, Handle(k),
         \A j \in 1 .. k - 1 : calls[j].stage # "asked", NEW v \in Services, InStep(v)
  PROVE  InStep(v)'
<1> DEFINE c == calls[k]
           seen == [w \in Services |->
                      IF w < Count /\ register[w] = "requested" THEN request[w] ELSE 0]
           reply == [c EXCEPT !.stage = "answered", !.seen = IF c.v = NoService THEN seen ELSE @]
<1>1. /\ c \in CallSet /\ c.waited /\ c.stage = "asked"
      /\ \A i \in DOMAIN calls : i \in Nat /\ calls[i] \in CallSet
      /\ DOMAIN calls = 1 .. Len(calls) /\ Len(calls) \in Nat
  <2>1. calls \in Seq(CallSet)
    BY DEF TypeOK
  <2>2. DOMAIN calls = 1 .. Len(calls) /\ Len(calls) \in Nat
        /\ \A i \in DOMAIN calls : calls[i] \in CallSet
    BY <2>1, LenProperties, ElementOfSeq
  <2> QED
    BY <2>2 DEF AllWaited, Handle
<1>2. reply.v = c.v /\ reply.stage = "answered" /\ reply.waited = c.waited
      /\ (c.v = NoService => reply.seen = seen)
  <2> HIDE DEF seen
  <2> QED
    BY <1>1 DEF CallSet
<1>3. calls' = [calls EXCEPT ![k] = reply]
  BY <1>1 DEF Handle
<1> HIDE DEF reply
<1>4. /\ DOMAIN calls' = DOMAIN calls /\ calls'[k] = reply
      /\ \A j \in DOMAIN calls : j # k => calls'[j] = calls[j]
  BY <1>3
<1>5. /\ \A j \in DOMAIN calls : calls'[j].v = calls[j].v /\ calls'[j].waited = calls[j].waited
      /\ \A j \in DOMAIN calls : j # k => calls'[j].stage = calls[j].stage
      /\ calls'[k].stage = "answered"
  BY <1>2, <1>4
<1>6. WritesOf(v)' = WritesOf(v)
  BY <1>4, <1>5 DEF WritesOf
<1>7. /\ request' = request /\ runs' = runs /\ busy' = busy /\ executing' = executing
      /\ register' = [w \in Services |-> IF w = c.v THEN c.value ELSE register[w]]
  BY DEF Handle, server, history
<1>8. CASE c.v = v
  <2>1. k \in WritesOf(v)
    BY <1>1, <1>8 DEF WritesOf
  <2>2. register'[v] # "requested" /\ register[v] = "requested" /\ runs[v][request[v]] = 1
    <3>1. c.value \in {"idle", "error"}
      BY <1>1, <1>8, ServicesAreNumbers DEF CallSet
    <3>2. Underway(v)
      BY <1>1, <2>1 DEF InStep, Progress
    <3> QED
      BY <1>7, <1>8, <3>1, <3>2 DEF Underway
  <2>3. v \in busy /\ v \notin executing /\ \A i \in WritesOf(v) : i = k
    BY <2>1 DEF Flags
  <2>4. Executed(v)' /\ Ahead(v)'
    BY <1>7, <2>2 DEF InStep, Executed, Ahead
  <2>5. Progress(v)'
    BY <1>5, <1>6, <1>7, <2>3, <2>4 DEF Progress
  <2>6. ASSUME NEW j \in DOMAIN calls', Stale(v, j)'
        PROVE  j < k
    <3>1. j # k /\ calls[j].stage = "answered" /\ calls[j].v = NoService
      <4>1. calls'[j].v = NoService /\ calls'[j].stage = "answered"
        BY <2>6 DEF Stale
      <4>2. v # NoService
        BY ServicesAreNumbers
      <4> QED
        BY <1>4, <1>5, <1>8, <4>1, <4>2
    <3>2. ~(k < j)
      BY <1>1, <1>4, <2>1, <3>1 DEF InStep, Order
    <3>3. j \in Nat /\ k \in Nat
      BY <1>1, <1>4
    <3> QED
      BY <3>1, <3>2, <3>3
  <2>7. Order(v)'
    BY <1>5, <1>6, <1>7, <2>3, <2>6 DEF Order
  <2> QED
    BY <2>4, <2>5, <2>7 DEF InStep
<1>9. CASE c.v # v
  <2>1. register'[v] = register[v] /\ k \notin WritesOf(v)
    BY <1>7, <1>9 DEF WritesOf
  <2>2. Executed(v)' /\ (Underway(v)' <=> Underway(v)) /\ (Ahead(v)' <=> Ahead(v))
    BY <1>7, <2>1 DEF InStep, Executed, Underway, Ahead
  <2>3. \A i \in WritesOf(v) : i \in DOMAIN calls /\ i # k /\ calls'[i].stage = calls[i].stage
    BY <1>5, <2>1 DEF WritesOf
  <2>4. Progress(v)'
    BY <1>6, <1>7, <2>2, <2>3 DEF InStep, Progress
  <2>5. ASSUME NEW j \in DOMAIN calls', Stale(v, j)'
        PROVE  Stale(v, j)
    <3>1. CASE j = k
      <4>1. calls'[k].v = NoService /\ calls'[k].seen[v] # 0
            /\ (calls'[k].seen[v] # request[v] \/ register[v] # "requested")
        BY <1>7, <2>1, <2>5, <3>1 DEF Stale
      <4>2. calls'[k].seen = seen
        BY <1>2, <1>4, <4>1
      <4>3. seen[v] = IF v < Count /\ register[v] = "requested" THEN request[v] ELSE 0
        OBVIOUS
      <4> QED
        BY <4>1, <4>2, <4>3
    <3>2. CASE j # k
      BY <1>4, <1>7, <2>1, <2>5, <3>2 DEF Stale
    <3> QED
      BY <3>1, <3>2
  <2>6. ASSUME NEW i \in WritesOf(v), NEW j \in DOMAIN calls,
               calls'[i].stage = "asked", i < j, calls'[j].v = NoService
        PROVE  calls'[j].stage # "answered"
    <3>1. calls[i].stage = "asked" /\ i \in DOMAIN calls /\ calls[j].v = NoService
      BY <1>5, <2>3, <2>6
    <3>2. j # k
      <4>1. i \in Nat \ {0} /\ k \in Nat /\ ~(i \in 1 .. k - 1)
        BY <1>1, <3>1
      <4> QED
        BY <2>6, <4>1
    <3>3. calls[j].stage # "answered"
      BY <2>6, <3>1 DEF InStep, Order
    <3> QED
      BY <1>5, <3>2, <3>3
  <2>7. Order(v)'
    <3>1. \A j \in DOMAIN calls' : Stale(v, j)' => v \in busy' /\ \A i \in WritesOf(v)' : j < i
      BY <1>4, <1>6, <1>7, <2>5 DEF InStep, Order
    <3>2. \A i \in WritesOf(v)' : \A j \in DOMAIN calls' :
             /\ calls'[i].stage = "asked" /\ i < j
             => calls'[j].v # NoService \/ calls'[j].stage # "answered"
      BY <1>4, <1>6, <2>6
    <3> QED
      BY <3>1, <3>2 DEF Order
  <2> QED
    BY <2>2, <2>4, <2>7 DEF InStep
<1> QED
  BY <1>8, <1>9

\* A command or its reply is lost.
LEMMA LoseInStep ==
  ASSUME TypeOK, Flags, AllWaited, NEW k \in DOMAIN calls, Lose(k), NEW v \in Services, InStep(v)
  PROVE  InStep(v)'
<1> DEFINE c == calls[k]
           x == [c EXCEPT !.stage = "lost", !.seen = [w \in Services |-> 0]]
<1>1. c \in CallSet /\ c.waited
  BY WithoutNumbers DEF AllWaited
<1>2. x.v = c.v /\ x.stage = "lost" /\ x.waited = c.waited
  BY <1>1 DEF CallSet
<1>3. calls' = [calls EXCEPT ![k] = x]
  <2>1. k \notin Stray
    BY <1>1 DEF Stray
  <2>2. calls' = [calls EXCEPT ![k].stage = "lost", ![k].seen = [w \in Services |-> 0]]
    BY <2>1 DEF Lose
  <2>3. [calls EXCEPT ![k].stage = "lost", ![k].seen = [w \in Services |-> 0]]
          = [calls EXCEPT ![k] = x]
    OBVIOUS
  <2> QED
    BY <2>2, <2>3
<1> HIDE DEF x
<1>4. /\ DOMAIN calls' = DOMAIN calls /\ calls'[k] = x
      /\ \A j \in DOMAIN calls : j # k => calls'[j] = calls[j]
  BY <1>3
<1>5. /\ \A j \in DOMAIN calls : calls'[j].v = calls[j].v /\ calls'[j].waited = calls[j].waited
      /\ \A j \in DOMAIN calls : calls'[j].stage # "lost" => calls'[j] = calls[j]
  BY <1>2, <1>4
<1>6. WritesOf(v)' = WritesOf(v)
  BY <1>4, <1>5 DEF WritesOf
<1>7. /\ request' = request /\ runs' = runs /\ busy' = busy /\ executing' = executing
      /\ register' = register
  BY DEF Lose, server, controller, history
<1>8. Executed(v)' /\ (Underway(v)' <=> Underway(v)) /\ (Ahead(v)' <=> Ahead(v))
  BY <1>7 DEF InStep, Executed, Underway, Ahead
<1>9. Progress(v)'
  <2>1. \A i \in WritesOf(v) : i \in DOMAIN calls
    BY DEF WritesOf
  <2> QED
    BY <1>5, <1>6, <1>7, <1>8, <2>1 DEF InStep, Progress
<1>10. Order(v)'
  <2>1. \A j \in DOMAIN calls' : Stale(v, j)' => Stale(v, j)
    BY <1>4, <1>5, <1>7 DEF Stale
  <2>2. \A i \in WritesOf(v) : i \in DOMAIN calls
    BY DEF WritesOf
  <2>3. \A i \in WritesOf(v)' : \A j \in DOMAIN calls' :
             /\ calls'[i].stage = "asked" /\ i < j
             => calls'[j].v # NoService \/ calls'[j].stage # "answered"
    BY <1>4, <1>5, <1>6, <2>2 DEF InStep, Order
  <2> QED
    BY <1>4, <1>6, <1>7, <2>1, <2>3 DEF InStep, Order
<1> QED
  BY <1>8, <1>9, <1>10 DEF InStep

LEMMA WaitedMoves ==
  ASSUME NEW gone, NEW new, Moved(calls, calls', gone, new), AllWaited
  PROVE  AllWaited'
<1>1. PICK n \in Nat : \E old \in [1 .. n -> DOMAIN calls] :
        /\ \A j \in 1 .. n : j \in DOMAIN calls' /\ calls'[j] = calls[old[j]] /\ old[j] \notin gone
        /\ \A i, j \in 1 .. n : i < j => old[i] < old[j]
        /\ \A j \in DOMAIN calls' : j \in 1 .. n \/ (j > n /\ calls'[j].v \in new
                                               /\ calls'[j].stage = "asked" /\ calls'[j].waited)
  BY DEF Moved
<1>2. PICK old \in [1 .. n -> DOMAIN calls] :
        /\ \A j \in 1 .. n : calls'[j] = calls[old[j]]
        /\ \A j \in DOMAIN calls' : j \in 1 .. n \/ calls'[j].waited
  BY <1>1
<1> QED
  BY <1>2 DEF AllWaited

\* A step that is about no service.
LEMMA AllMove ==
  ASSUME TypeOK, calls' \in Seq(CallSet), AllInStep,
         NEW gone, Moved(calls, calls', gone, {NoService}),
         register' = register, request' = request, runs' = runs,
         busy' = busy, executing' = executing
  PROVE  AllInStep'
<1>1. AllWaited'
  BY WaitedMoves DEF AllInStep
<1>2. ASSUME NEW v \in Services
      PROVE  InStep(v)'
  <2>1. v \notin {NoService} /\ InStep(v)
    BY ServicesAreNumbers DEF AllInStep
  <2>2. /\ register'[v] = register[v] /\ request'[v] = request[v] /\ runs'[v] = runs[v]
        /\ (v \in busy' <=> v \in busy) /\ (v \in executing' <=> v \in executing)
    OBVIOUS
  <2> QED
    BY <2>1, <2>2, OthersInStep
<1> QED
  BY <1>1, <1>2 DEF AllInStep

LEMMA MovedByWrites ==
  ASSUME NEW resolved \in SUBSET Services, NEW failing,
         NEW writes \in StatusWrites(resolved, failing),
         NEW q, NEW r \in Seq(CallSet), NEW gone, NEW new, Moved(q, r, gone, new)
  PROVE  r \o writes \in Seq(CallSet) /\ Moved(q, r \o writes, gone, new \union resolved)
<1>1. /\ writes \in Seq(CallSet)
      /\ \A i \in DOMAIN writes : /\ writes[i].v \in resolved /\ writes[i].waited
                                  /\ writes[i].stage = "asked"
      /\ \A i, j \in DOMAIN writes : writes[i].v = writes[j].v => i = j
      /\ \A w \in Services : Number(writes, Waiting(w)) = IF w \in resolved THEN 1 ELSE 0
      /\ Number(writes, Waiting(NoService)) = 0
  BY StatusWriteTypes
<1> QED
  BY <1>1, ConcatProperties, MovedConcat

LEMMA CallsNotMoved ==
  ASSUME TypeOK, calls' = calls
  PROVE  calls' \in Seq(CallSet) /\ Moved(calls, calls', {}, {}) /\ Moved(calls, calls', {}, {NoService})
<1>1. calls \in Seq(CallSet)
  BY DEF TypeOK
<1>2. Moved(calls, calls, {}, {})
  BY <1>1, MovedNot
<1>3. Moved(calls, calls, {}, {NoService})
  BY <1>2, MovedMore
<1> QED
  BY <1>1, <1>2, <1>3

LEMMA RequestAll ==
  ASSUME TypeOK, AllInStep, NEW u \in Services, Request(u)
  PROVE  AllInStep'
<1>1. /\ calls' = calls /\ busy' = busy /\ executing' = executing /\ runs' = runs
      /\ \A v \in Services : v # u => register'[v] = register[v] /\ request'[v] = request[v]
  BY DEF TypeOK, Request, server, history
<1>2. calls' \in Seq(CallSet) /\ Moved(calls, calls', {}, {})
  BY <1>1, CallsNotMoved
<1>3. AllWaited'
  BY <1>1 DEF AllInStep, AllWaited
<1>4. ASSUME NEW v \in Services
      PROVE  InStep(v)'
  <2>1. InStep(v) /\ v \notin {}
    BY DEF AllInStep
  <2>2. CASE v = u
    BY <2>1, <2>2, RequestInStep
  <2>3. CASE v # u
    BY <1>1, <1>2, <2>1, <2>3, OthersInStep
  <2> QED
    BY <2>2, <2>3
<1> QED
  BY <1>3, <1>4 DEF AllInStep

LEMMA ResolveAll ==
  ASSUME TypeOK, Flags, AllInStep, calls' \in Seq(CallSet), NEW u \in Services, Resolve(u)
  PROVE  AllInStep'
<1>1. PICK failing \in SUBSET {u} : \E writes \in StatusWrites({u}, failing) : calls' = calls \o writes
  BY DEF Resolve
<1>2. PICK writes \in StatusWrites({u}, failing) : calls' = calls \o writes
  BY <1>1
<1>3. Moved(calls, calls', {}, {u})
  <2> DEFINE one == {u}
  <2>1. one \in SUBSET Services /\ writes \in StatusWrites(one, failing)
    OBVIOUS
  <2> HIDE DEF one
  <2>2. calls \in Seq(CallSet) /\ Moved(calls, calls, {}, {})
    BY MovedNot DEF TypeOK
  <2>3. Moved(calls, calls \o writes, {}, {} \union one)
    BY <2>1, <2>2, MovedByWrites
  <2>4. {} \union one = {u}
    BY DEF one
  <2> QED
    BY <1>2, <2>3, <2>4
<1>4. AllWaited'
  BY <1>3, WaitedMoves DEF AllInStep
<1>5. /\ register' = register /\ request' = request /\ runs' = runs /\ busy' = busy
      /\ executing' = executing \ {u}
  BY DEF Resolve, controller, history
<1>6. ASSUME NEW v \in Services
      PROVE  InStep(v)'
  <2>1. InStep(v)
    BY DEF AllInStep
  <2>2. CASE v = u
    BY <1>3, <2>1, <2>2, ResolveInStep
  <2>3. CASE v # u
    <3>1. /\ register'[v] = register[v] /\ request'[v] = request[v] /\ runs'[v] = runs[v]
          /\ (v \in busy' <=> v \in busy) /\ (v \in executing' <=> v \in executing)
          /\ v \notin {u}
      BY <1>5, <2>3
    <3> QED
      BY <1>3, <2>1, <3>1, OthersInStep
  <2> QED
    BY <2>2, <2>3
<1> QED
  BY <1>4, <1>6 DEF AllInStep

LEMMA NetworkAll ==
  ASSUME TypeOK, Flags, AllInStep, NEW k \in DOMAIN calls, Tolerated',
         Handle(k) \/ Duplicate(k) \/ Lose(k)
  PROVE  AllInStep'
<1>1. calls[k] \in CallSet /\ calls[k].waited /\ calls \in Seq(CallSet)
  BY WithoutNumbers DEF AllInStep, AllWaited, TypeOK
<1>2. CASE Handle(k)
  <2>1. \A j \in 1 .. k - 1 : calls[j].stage # "asked"
    <3>1. "reordered" \notin faults'
      BY DEF Tolerated
    <3> QED
      BY <1>2, <3>1 DEF Handle, InOrder
  <2>2. \A v \in Services : InStep(v)'
    BY <1>2, <2>1, HandleInStep DEF AllInStep
  <2>3. AllWaited'
    <3> DEFINE seen == [w \in Services |->
                          IF w < Count /\ register[w] = "requested" THEN request[w] ELSE 0]
               reply == [calls[k] EXCEPT !.stage = "answered",
                                         !.seen = IF calls[k].v = NoService THEN seen ELSE @]
    <3>1. calls' = [calls EXCEPT ![k] = reply]
      BY <1>1, <1>2 DEF Handle
    <3>2. reply.waited
      <4> HIDE DEF seen
      <4> QED
        BY <1>1 DEF CallSet
    <3> HIDE DEF reply
    <3> QED
      BY <3>1, <3>2 DEF AllInStep, AllWaited
  <2> QED
    BY <2>2, <2>3 DEF AllInStep
<1>3. CASE Duplicate(k)
  <2>1. "duplicated" \in faults'
    BY <1>3 DEF Duplicate
  <2> QED
    BY <2>1 DEF Tolerated
<1>4. CASE Lose(k)
  <2>1. \A v \in Services : InStep(v)'
    BY <1>4, LoseInStep DEF AllInStep
  <2>2. AllWaited'
    <3> DEFINE x == [calls[k] EXCEPT !.stage = "lost", !.seen = [w \in Services |-> 0]]
    <3>1. calls' = [calls EXCEPT ![k] = x]
      <4>1. k \notin Stray
        BY <1>1 DEF Stray
      <4>2. calls' = [calls EXCEPT ![k].stage = "lost", ![k].seen = [w \in Services |-> 0]]
        BY <1>4, <4>1 DEF Lose
      <4>3. [calls EXCEPT ![k].stage = "lost", ![k].seen = [w \in Services |-> 0]]
              = [calls EXCEPT ![k] = x]
        OBVIOUS
      <4> QED
        BY <4>2, <4>3
    <3>2. x.waited
      BY <1>1 DEF CallSet
    <3> HIDE DEF x
    <3> QED
      BY <3>1, <3>2 DEF AllInStep, AllWaited
  <2> QED
    BY <2>1, <2>2 DEF AllInStep
<1> QED
  BY <1>2, <1>3, <1>4

\* What is left of the commands once command k is gone.
LEMMA CutMoves ==
  ASSUME TypeOK, NEW k \in DOMAIN calls
  PROVE  Without(k) \in Seq(CallSet) /\ Moved(calls, Without(k), {k}, {})
<1>1. calls \in Seq(CallSet)
  BY DEF TypeOK
<1>2. Without(k) = Older(calls, k) \o Newer(calls, k)
  BY DEF Without, Older, Newer
<1>3. Moved(calls, Older(calls, k) \o Newer(calls, k), {k}, {})
  BY <1>1, MovedCut
<1> QED
  BY <1>2, <1>3, WithoutNumbers

LEMMA StatusesAll ==
  ASSUME TypeOK, Flags, AllInStep, calls' \in Seq(CallSet), NEW k \in DOMAIN calls,
         Receive(k), OnStatuses(k)
  PROVE  AllInStep'
<1> DEFINE called == Called(calls[k].seen)
<1>1. PICK resolved \in SUBSET called :
        \E failing \in SUBSET resolved :
          /\ executing' = (executing \union called) \ resolved
          /\ \E writes \in StatusWrites(resolved, failing) : PollAgain(Without(k) \o writes)
  BY DEF OnStatuses
<1>2. PICK failing \in SUBSET resolved :
          /\ executing' = (executing \union called) \ resolved
          /\ \E writes \in StatusWrites(resolved, failing) : PollAgain(Without(k) \o writes)
  BY <1>1
<1>3. PICK writes \in StatusWrites(resolved, failing) : PollAgain(Without(k) \o writes)
  BY <1>2
<1>4. resolved \in SUBSET Services
  BY DEF Called
<1>5. Moved(calls, calls', {k}, resolved \union {NoService})
  <2> DEFINE rest == Without(k)
             sent == rest \o writes
  <2>1. rest \in Seq(CallSet) /\ Moved(calls, rest, {k}, {})
    BY CutMoves
  <2> HIDE DEF rest, called
  <2>2. sent \in Seq(CallSet) /\ Moved(calls, sent, {k}, {} \union resolved)
    BY <1>3, <1>4, <2>1, MovedByWrites
  <2>3. {} \union resolved = resolved
    OBVIOUS
  <2>4. PollAgain(sent)
    BY <1>3 DEF rest
  <2> HIDE DEF sent
  <2> QED
    BY <2>2, <2>3, <2>4, MovedByTimer
<1>6. AllWaited'
  BY <1>5, WaitedMoves DEF AllInStep
<1>7. /\ register' = register /\ request' = request /\ busy' = busy \union called
      /\ executing' = (executing \union called) \ resolved
      /\ \A v \in Services : v \notin called => runs'[v] = runs[v]
      /\ UNCHANGED controller /\ calls[k].stage = "answered"
  BY <1>2 DEF Receive, OnStatuses, controller
<1>8. ASSUME NEW v \in Services
      PROVE  InStep(v)'
  <2>1. InStep(v)
    BY DEF AllInStep
  <2>2. CASE v \in called
    BY <1>5, <1>7, <2>1, <2>2, CalledInStep
  <2>3. CASE v \notin called
    <3>1. /\ register'[v] = register[v] /\ request'[v] = request[v] /\ runs'[v] = runs[v]
          /\ (v \in busy' <=> v \in busy) /\ (v \in executing' <=> v \in executing)
          /\ v \notin resolved \union {NoService}
      <4> HIDE DEF called
      <4> QED
        BY <1>7, <2>3, ServicesAreNumbers
    <3> HIDE DEF called
    <3> QED
      BY <1>5, <2>1, <3>1, OthersInStep
  <2> QED
    BY <2>2, <2>3
<1> QED
  BY <1>6, <1>8 DEF AllInStep

LEMMA WrittenAll ==
  ASSUME TypeOK, Flags, AllInStep, calls' \in Seq(CallSet), NEW k \in DOMAIN calls, Tolerated',
         Receive(k), OnWritten(k, Without(k))
  PROVE  AllInStep'
<1>1. calls[k] \in CallSet /\ calls[k].v # NoService /\ calls[k].waited
  BY WithoutNumbers DEF OnWritten, Receive
<1>2. PICK u \in Services : calls[k].v = u
  BY <1>1, CallTypes
<1>3. k \in WritesOf(u)
  BY <1>1, <1>2 DEF WritesOf
<1>4. Moved(calls, calls', {k}, {})
  BY CutMoves DEF OnWritten
<1>5. AllWaited'
  BY <1>4, WaitedMoves DEF AllInStep
<1>6. /\ register' = register /\ request' = request /\ runs' = runs
      /\ executing' = executing /\ busy' = busy \ {u} /\ calls[k].stage = "answered"
  BY <1>2 DEF Receive, OnWritten, Clear, controller, history
<1>7. \A j \in 1 .. k - 1 : calls[j].stage # "answered"
  <2>1. "reordered" \notin faults'
    BY DEF Tolerated
  <2> QED
    BY <2>1 DEF Receive, InOrder
<1>8. ASSUME NEW v \in Services
      PROVE  InStep(v)'
  <2>1. InStep(v) /\ v \notin {}
    BY DEF AllInStep
  <2>2. CASE v = u
    BY <1>3, <1>4, <1>6, <1>7, <2>1, <2>2, WrittenInStep
  <2>3. CASE v # u
    <3>1. /\ register'[v] = register[v] /\ request'[v] = request[v] /\ runs'[v] = runs[v]
          /\ (v \in busy' <=> v \in busy) /\ (v \in executing' <=> v \in executing)
      BY <1>6, <2>3
    <3> QED
      BY <1>4, <2>1, <3>1, OthersInStep
  <2> QED
    BY <2>2, <2>3
<1> QED
  BY <1>5, <1>8 DEF AllInStep

\* Only a read may time out.
LEMMA TimesOutAll ==
  ASSUME TypeOK, AllInStep, calls' \in Seq(CallSet), NEW k \in DOMAIN calls, Tolerated',
         TimesOut(k)
  PROVE  AllInStep'
<1>1. "write timed out" \notin faults'
  BY DEF Tolerated
<1>2. /\ PollAgain(Without(k)) /\ UNCHANGED <<busy, executing, history>> /\ UNCHANGED controller
  BY <1>1 DEF TimesOut
<1>3. Moved(calls, calls', {k}, {NoService})
  <2> DEFINE rest == Without(k)
  <2>1. rest \in Seq(CallSet) /\ Moved(calls, rest, {k}, {}) /\ PollAgain(rest)
    BY <1>2, CutMoves
  <2> HIDE DEF rest
  <2>2. Moved(calls, calls', {k}, {} \union {NoService})
    BY <2>1, MovedByTimer
  <2>3. {} \union {NoService} = {NoService}
    OBVIOUS
  <2> QED
    BY <2>2, <2>3
<1>4. /\ register' = register /\ request' = request /\ runs' = runs
      /\ busy' = busy /\ executing' = executing
  BY <1>2 DEF controller, history
<1> QED
  BY <1>3, <1>4, AllMove

LEMMA LoopsAll ==
  ASSUME TypeOK, AllInStep, calls' \in Seq(CallSet),
         Start \/ Stop \/ OnTimer \/ (\E ec \in {"ok", "error"} : TimerEnds(ec)) \/ UNCHANGED vars
  PROVE  AllInStep'
<1>1. /\ register' = register /\ request' = request /\ runs' = runs
      /\ busy' = busy /\ executing' = executing
  BY DEF Start, Stop, OnTimer, TimerEnds, vars, server, controller, history
<1>2. calls \in Seq(CallSet) /\ Moved(calls, calls, {}, {})
  BY MovedNot DEF TypeOK
<1>3. CASE calls' = calls
  <2>1. Moved(calls, calls', {}, {NoService})
    BY <1>3, CallsNotMoved
  <2> QED
    BY <1>1, <2>1, AllMove
<1>4. CASE calls' = Append(calls, Read)
  <2>1. Moved(calls, Append(calls, Read), {}, {} \union {NoService})
    BY <1>2, MovedByRead
  <2>2. {} \union {NoService} = {NoService}
    OBVIOUS
  <2>3. Moved(calls, calls', {}, {NoService})
    BY <1>4, <2>1, <2>2
  <2> QED
    BY <1>1, <2>3, AllMove
<1>5. calls' = calls \/ calls' = Append(calls, Read)
  BY DEF Start, Stop, OnTimer, TimerEnds, StartReadCommandsTimer, vars, server, controller, history
<1> QED
  BY <1>3, <1>4, <1>5

LEMMA InitInStep == Init => OnceOnly
<1> SUFFICES ASSUME Init PROVE AllInStep
  BY DEF OnceOnly
<1>1. DOMAIN calls = {}
  BY DEF Init
<1>2. MaxRequests \in Nat
  BY BoundsAssumption
<1>3. ASSUME NEW v \in Services
      PROVE  InStep(v)
  <2>1. /\ request[v] = 0 /\ register[v] = "idle" /\ v \notin executing
        /\ \A n \in 1 .. MaxRequests : runs[v][n] = 0
    BY DEF Init
  <2>2. Executed(v)
    BY <1>2, <2>1 DEF Executed
  <2>3. WritesOf(v) = {}
    BY <1>1 DEF WritesOf
  <2>4. Progress(v) /\ Order(v)
    BY <1>1, <2>1, <2>3 DEF Progress, Order, Ahead
  <2> QED
    BY <2>2, <2>4 DEF InStep
<1> QED
  BY <1>1, <1>3 DEF AllInStep, AllWaited

\* What went wrong is not forgotten.
LEMMA FaultsAreKept == [Next]_vars => faults \subseteq faults'
BY DEF Next, vars, Request, Resolve, Handle, Duplicate, Lose, Receive, TimesOut, InOrder, Start,
       Stop, TimerEnds, OnTimer

LEMMA OnceStep == TypeOK /\ Counts /\ OnceOnly /\ [Next]_vars => OnceOnly'
<1> SUFFICES ASSUME TypeOK, Counts, OnceOnly, [Next]_vars, Tolerated'
             PROVE  AllInStep'
  BY DEF OnceOnly
<1>1. Flags
  BY CountsFlags
<1>2. calls' \in Seq(CallSet)
  BY CountedStep DEF TypeOK
<1>3. AllInStep
  BY FaultsAreKept DEF OnceOnly, Tolerated
<1>4. ASSUME NEW v \in Services, Request(v) \/ Resolve(v)
      PROVE  AllInStep'
  BY <1>1, <1>2, <1>3, <1>4, RequestAll, ResolveAll
<1>5. ASSUME NEW k \in DOMAIN calls, Handle(k) \/ Duplicate(k) \/ Lose(k)
      PROVE  AllInStep'
  BY <1>1, <1>3, <1>5, NetworkAll
<1>6. ASSUME NEW k \in DOMAIN calls, Receive(k)
      PROVE  AllInStep'
  <2>1. OnStatuses(k) \/ OnWritten(k, Without(k))
    BY <1>6 DEF Receive
  <2> QED
    BY <1>1, <1>2, <1>3, <1>6, <2>1, StatusesAll, WrittenAll
<1>7. ASSUME NEW k \in DOMAIN calls, TimesOut(k)
      PROVE  AllInStep'
  BY <1>2, <1>3, <1>7, TimesOutAll
<1>8. CASE Start \/ Stop \/ OnTimer \/ (\E ec \in {"ok", "error"} : TimerEnds(ec)) \/ UNCHANGED vars
  BY <1>2, <1>3, <1>8, LoopsAll
<1> QED
  BY <1>4, <1>5, <1>6, <1>7, <1>8 DEF Next

LEMMA OnceMeans ==
  ASSUME TypeOK, OnceOnly
  PROVE  OncePerRequest
<1> SUFFICES ASSUME Tolerated, NEW v \in Services, NEW n \in 1 .. MaxRequests
             PROVE  runs[v][n] <= 1 /\ Served(v, n)
  BY DEF OncePerRequest, Tolerated
<1>1. Executed(v)
  BY DEF OnceOnly, AllInStep, InStep
<1>2. n \in Nat /\ request[v] \in Nat /\ n # 0
  <2>1. request \in [Services -> 0 .. MaxRequests] /\ MaxRequests \in Nat
    BY BoundsAssumption DEF TypeOK
  <2>2. request[v] \in 0 .. MaxRequests
    BY <2>1
  <2> QED
    BY <2>1, <2>2
<1>3. runs[v][n] \in {0, 1}
  <2>1. n < request[v] \/ n = request[v] \/ n > request[v]
    BY <1>2
  <2> QED
    BY <1>1, <2>1 DEF Executed
<1>4. Served(v, n)
  BY <1>1, <1>2 DEF Executed, Served
<1> QED
  BY <1>3, <1>4

\* Each request of the controller is executed once and before it is answered, through
\* any loss and delay of the reads, any timing of the services and any starts and stops
\* of the server (rpc_server.cpp:64-119), as long as no write of a status times out and
\* the network neither reorders nor duplicates.
THEOREM ExecutedOnce == Spec => []OncePerRequest
<1>1. Init => TypeOK /\ Counts /\ OnceOnly
  BY InitCounts, InitInStep
<1>2. TypeOK /\ Counts /\ OnceOnly /\ [Next]_vars => (TypeOK /\ Counts /\ OnceOnly)'
  BY CountedStep, OnceStep
<1>3. TypeOK /\ Counts /\ OnceOnly => OncePerRequest
  BY OnceMeans
<1> QED
  BY <1>1, <1>2, <1>3, PTL DEF Spec

=============================================================================
