----------------------------- MODULE ToolsProofs -----------------------------
(***************************************************************************)
(* Proofs about Connection and Tools, for any number of attempts,          *)
(* endpoints and variables: a tool is one of the applications of           *)
(* Connection, each attempt is reported once, there is one receive loop,   *)
(* and a tool reads what it wrote.                                         *)
(***************************************************************************)
EXTENDS Tools, HandlerQueues

\* The handlers of an attempt, by their operation, and those that receive again.
Resolves(a) == {h \in Handlers : h.op = "resolve" /\ h.a = a}
Connects(a) == {h \in Handlers : h.op = "connect" /\ h.a = a}
Timers(a) == {h \in Handlers : h.op = "timer" /\ h.a = a}
Again == {h \in Handlers : h.op = "receive" /\ h.ec # "canceled"}

LEMMA HandlerTypes ==
  /\ \A a \in Attempts, ec \in {"ok", "error"} :
       Handler("resolve", a, ec) \in Handlers /\ Handler("connect", a, ec) \in Handlers
  /\ \A a \in Attempts, ec \in {"ok", "canceled"} : Handler("timer", a, ec) \in Handlers
  /\ \A ec \in {"ok", "canceled"} : Handler("receive", NoAttempt, ec) \in Handlers
  /\ \A h \in Handlers :
       /\ h.op \in {"resolve", "connect", "timer"} => h.a \in Attempts
       /\ h.op \in {"resolve", "connect", "timer", "receive"}
       /\ h.op = "receive" /\ h.ec # "canceled" => h = Handler("receive", NoAttempt, "ok")
BY DEF Handler, Handlers

\* How many handlers of a set are queued when the head has left and others came.
LEMMA NumberMoved ==
  ASSUME NEW q \in Seq(Handlers), NEW e \in Seq(Handlers), NEW P
  PROVE  /\ Number(q, P) \in Nat /\ Number(e, P) \in Nat
         /\ q \o e \in Seq(Handlers)
         /\ Number(q \o e, P) = Number(q, P) + Number(e, P)
         /\ q # << >> =>
              /\ Tail(q) \in Seq(Handlers) /\ Head(q) \in Handlers
              /\ Number(Tail(q), P) \in Nat
              /\ Number(q, P) = Number(Tail(q), P) + (IF Head(q) \in P THEN 1 ELSE 0)
              /\ Tail(q) \o e \in Seq(Handlers)
              /\ Number(Tail(q) \o e, P) = Number(Tail(q), P) + Number(e, P)
<1>1. /\ Number(q, P) \in Nat /\ Number(e, P) \in Nat
      /\ q \o e \in Seq(Handlers)
      /\ Number(q \o e, P) = Number(q, P) + Number(e, P)
  BY NumberType, NumberOfConcat, ConcatProperties
<1>2. ASSUME q # << >>
      PROVE  /\ Tail(q) \in Seq(Handlers) /\ Head(q) \in Handlers
             /\ Number(Tail(q), P) \in Nat
             /\ Number(q, P) = Number(Tail(q), P) + (IF Head(q) \in P THEN 1 ELSE 0)
             /\ Tail(q) \o e \in Seq(Handlers)
             /\ Number(Tail(q) \o e, P) = Number(Tail(q), P) + Number(e, P)
  <2> DEFINE h == <<Head(q)>>
             t == Tail(q)
  <2>1. t \in Seq(Handlers) /\ Head(q) \in Handlers
    BY <1>2, TailPlaces
  <2>2. h \in Seq(Handlers)
    BY <2>1
  <2>3. q = h \o t
    BY <1>2, HeadTailProperties, ConcatProperties, SeqEqual
  <2>4. Number(h, P) = IF Head(q) \in P THEN 1 ELSE 0
    BY NumberOfShort
  <2> HIDE DEF h, t
  <2>5. Number(h \o t, P) = Number(h, P) + Number(t, P)
    BY <2>1, <2>2, NumberOfConcat
  <2>6. /\ Number(t, P) \in Nat /\ Number(h, P) \in Nat
        /\ t \o e \in Seq(Handlers)
        /\ Number(t \o e, P) = Number(t, P) + Number(e, P)
    BY <2>1, <2>2, NumberType, NumberOfConcat, ConcatProperties
  <2>7. Number(q, P) = Number(t, P) + (IF Head(q) \in P THEN 1 ELSE 0)
    <3>1. Number(q, P) = Number(h, P) + Number(t, P)
      BY <2>3, <2>5
    <3>2. CASE Head(q) \in P
      <4>1. Number(h, P) = 1
        BY <2>4, <3>2
      <4> QED
        BY <2>6, <3>1, <3>2, <4>1
    <3>3. CASE Head(q) \notin P
      <4>1. Number(h, P) = 0
        BY <2>4, <3>3
      <4> QED
        BY <2>6, <3>1, <3>3, <4>1
    <3> QED
      BY <3>2, <3>3
  <2> QED
    BY <2>1, <2>6, <2>7 DEF t
<1> QED
  BY <1>1, <1>2

\* What the canceled receives of a closed socket add to the queue.
LEMMA AbortedType ==
  ASSUME receiving \in Nat
  PROVE  /\ Aborted \in Seq(Handlers)
         /\ \A a : /\ Number(Aborted, Resolves(a)) = 0 /\ Number(Aborted, Connects(a)) = 0
                   /\ Number(Aborted, Timers(a)) = 0
         /\ Number(Aborted, Again) = 0
         /\ \A k \in DOMAIN Aborted : Aborted[k].op = "receive" /\ Aborted[k].ec = "canceled"
<1> DEFINE c == Handler("receive", NoAttempt, "canceled")
<1>1. c \in Handlers /\ c.op = "receive" /\ c.ec = "canceled"
  BY HandlerTypes DEF Handler
<1> HIDE DEF c
<1>2. Aborted = [k \in 1 .. receiving |-> c]
  BY DEF Aborted, c
<1>3. /\ Aborted \in Seq(Handlers)
      /\ \A k \in DOMAIN Aborted : Aborted[k] = c
  BY <1>1, <1>2
<1>4. ASSUME NEW P, c \notin P
      PROVE  Number(Aborted, P) = 0
  <2>1. Places(Aborted, P) = {}
    BY <1>3, <1>4 DEF Places
  <2> QED
    BY <2>1, FS_EmptySet DEF Number
<1>5. c \notin Again /\ \A a : c \notin Resolves(a) /\ c \notin Connects(a) /\ c \notin Timers(a)
  BY <1>1 DEF Resolves, Connects, Timers, Again
<1> QED
  BY <1>1, <1>3, <1>4, <1>5

\* A handler is queued exactly when their number is not zero.
LEMMA NumberIsPositive ==
  ASSUME NEW q \in Seq(Handlers), NEW P
  PROVE  /\ Number(q, P) \in Nat
         /\ Number(q, P) = 0 <=> \A k \in DOMAIN q : q[k] \notin P
<1>1. IsFiniteSet(Places(q, P)) /\ Number(q, P) \in Nat
  BY NumberType
<1>2. Number(q, P) = 0 <=> Places(q, P) = {}
  BY <1>1, FS_EmptySet DEF Number
<1> QED
  BY <1>1, <1>2 DEF Places

-----------------------------------------------------------------------------
(* What becomes of the queue.                                              *)

\* Queue q has the handlers of r and h; it has those of r and canceled receives.
With(q, h, r) ==
  /\ \A a \in Attempts :
       /\ Number(q, Resolves(a)) =
            Number(r, Resolves(a)) + (IF h.op = "resolve" /\ h.a = a THEN 1 ELSE 0)
       /\ Number(q, Connects(a)) =
            Number(r, Connects(a)) + (IF h.op = "connect" /\ h.a = a THEN 1 ELSE 0)
       /\ Number(q, Timers(a)) =
            Number(r, Timers(a)) + (IF h.op = "timer" /\ h.a = a THEN 1 ELSE 0)
  /\ Number(q, Again) =
       Number(r, Again) + (IF h.op = "receive" /\ h.ec # "canceled" THEN 1 ELSE 0)

Same(q, r) ==
  /\ \A a \in Attempts :
       /\ Number(q, Resolves(a)) = Number(r, Resolves(a))
       /\ Number(q, Connects(a)) = Number(r, Connects(a))
       /\ Number(q, Timers(a)) = Number(r, Timers(a))
  /\ Number(q, Again) = Number(r, Again)

\* The numbers are numbers.
Counted(q) ==
  /\ q \in Seq(Handlers)
  /\ \A a \in Attempts :
       /\ Number(q, Resolves(a)) \in Nat
       /\ Number(q, Connects(a)) \in Nat
       /\ Number(q, Timers(a)) \in Nat
  /\ Number(q, Again) \in Nat

\* The loop that ends runs before a has resolved.
Behind(q, a) ==
  \A j, k \in DOMAIN q : q[j] \in Again /\ q[k] \in Resolves(a) => j < k

LEMMA QueueCounted ==
  ASSUME NEW q \in Seq(Handlers)
  PROVE  Counted(q)
BY NumberType DEF Counted

LEMMA MemberOfKind ==
  ASSUME NEW h \in Handlers
  PROVE  /\ h \in Again <=> h.op = "receive" /\ h.ec # "canceled"
         /\ \A a : /\ h \in Resolves(a) <=> h.op = "resolve" /\ h.a = a
                   /\ h \in Connects(a) <=> h.op = "connect" /\ h.a = a
                   /\ h \in Timers(a) <=> h.op = "timer" /\ h.a = a
BY DEF Again, Resolves, Connects, Timers

LEMMA HeadLeaves ==
  ASSUME NEW q \in Seq(Handlers), q # << >>
  PROVE  /\ Counted(q) /\ Counted(Tail(q))
         /\ Head(q) \in Handlers
         /\ With(q, Head(q), Tail(q))
         /\ \A a : Behind(q, a) => Behind(Tail(q), a)
         /\ \A a : Behind(q, a) /\ Head(q) \in Resolves(a) => Number(q, Again) = 0
<1>1. /\ Tail(q) \in Seq(Handlers) /\ Head(q) \in Handlers
      /\ Head(q) = q[1] /\ 1 \in DOMAIN q
      /\ \A k \in DOMAIN Tail(q) : k + 1 \in DOMAIN q /\ Tail(q)[k] = q[k + 1]
      /\ DOMAIN q \subseteq Nat \ {0} /\ DOMAIN Tail(q) \subseteq Nat \ {0}
  BY TailPlaces
<1>2. << >> \in Seq(Handlers)
  OBVIOUS
<1>3. ASSUME NEW P
      PROVE  Number(q, P) = Number(Tail(q), P) + (IF Head(q) \in P THEN 1 ELSE 0)
  BY <1>2, NumberMoved
<1>4. With(q, Head(q), Tail(q))
  BY <1>1, <1>3, MemberOfKind DEF With
<1>5. ASSUME NEW a, Behind(q, a)
      PROVE  Behind(Tail(q), a)
  <2>1. ASSUME NEW j \in DOMAIN Tail(q), NEW k \in DOMAIN Tail(q),
               Tail(q)[j] \in Again, Tail(q)[k] \in Resolves(a)
        PROVE  j < k
    <3>1. j + 1 < k + 1
      BY <1>1, <1>5, <2>1 DEF Behind
    <3> QED
      BY <1>1, <3>1
  <2> QED
    BY <2>1 DEF Behind
<1>6. ASSUME NEW a, Behind(q, a), Head(q) \in Resolves(a)
      PROVE  Number(q, Again) = 0
  <2>1. ASSUME NEW j \in DOMAIN q, q[j] \in Again
        PROVE  FALSE
    <3>1. j < 1
      BY <1>1, <1>6, <2>1 DEF Behind
    <3> QED
      BY <1>1, <3>1
  <2> QED
    BY <2>1, NumberIsPositive
<1> QED
  BY <1>1, <1>4, <1>5, <1>6, QueueCounted

LEMMA OneComes ==
  ASSUME NEW q \in Seq(Handlers), NEW h \in Handlers
  PROVE  /\ Append(q, h) = q \o <<h>>
         /\ Counted(q) /\ Counted(Append(q, h))
         /\ With(Append(q, h), h, q)
         /\ \A a : Behind(q, a) /\ h \notin Again => Behind(Append(q, h), a)
<1> DEFINE e == <<h>>
<1>1. e \in Seq(Handlers) /\ Append(q, h) = q \o e /\ Append(q, h) \in Seq(Handlers)
  BY AppendIsConcat, AppendProperties
<1>6. ASSUME NEW P
      PROVE  Number(e, P) = IF h \in P THEN 1 ELSE 0
  BY NumberOfShort
<1>2. \A k \in DOMAIN e : e[k] = h
  OBVIOUS
<1> HIDE DEF e
<1>3. ASSUME NEW P
      PROVE  Number(q \o e, P) = Number(q, P) + (IF h \in P THEN 1 ELSE 0)
  BY <1>1, <1>6, NumberOfConcat
<1>4. With(q \o e, h, q)
  BY <1>3, MemberOfKind DEF With
<1>5. ASSUME NEW a, Behind(q, a), h \notin Again
      PROVE  Behind(q \o e, a)
  <2> DEFINE r == q \o e
  <2>1. /\ \A k \in DOMAIN r :
             \/ k \in DOMAIN q /\ r[k] = q[k] /\ k <= Len(q)
             \/ k - Len(q) \in DOMAIN e /\ r[k] = e[k - Len(q)] /\ k > Len(q)
        /\ Len(q) \in Nat /\ DOMAIN r \subseteq Nat \ {0}
    BY <1>1, ConcatPlaces
  <2> HIDE DEF r
  <2>2. ASSUME NEW j \in DOMAIN r, NEW k \in DOMAIN r, r[j] \in Again, r[k] \in Resolves(a)
        PROVE  j < k
    <3>1. j \in DOMAIN q /\ r[j] = q[j] /\ j <= Len(q)
      BY <1>2, <1>5, <2>1, <2>2
    <3> QED
      BY <1>5, <2>1, <2>2, <3>1 DEF Behind
  <2> QED
    BY <2>2 DEF Behind, r
<1> QED
  BY <1>1, <1>4, <1>5, QueueCounted DEF e

LEMMA AbortedCome ==
  ASSUME receiving \in Nat, NEW q \in Seq(Handlers)
  PROVE  /\ Counted(q) /\ Counted(q \o Aborted)
         /\ Same(q \o Aborted, q)
         /\ \A a : Behind(q, a) => Behind(q \o Aborted, a)
<1>1. /\ Aborted \in Seq(Handlers)
      /\ \A a : /\ Number(Aborted, Resolves(a)) = 0 /\ Number(Aborted, Connects(a)) = 0
                /\ Number(Aborted, Timers(a)) = 0
      /\ Number(Aborted, Again) = 0
      /\ \A k \in DOMAIN Aborted : Aborted[k].op = "receive" /\ Aborted[k].ec = "canceled"
  BY AbortedType
<1> DEFINE e == Aborted
           r == q \o e
<1> HIDE DEF e
<1>2. e = Aborted
  BY DEF e
<1>3. r \in Seq(Handlers) /\ \A P : Number(r, P) = Number(q, P) + Number(e, P)
  BY <1>1, <1>2, NumberOfConcat, ConcatProperties
<1>4. Counted(q) /\ Counted(r)
  BY <1>3, QueueCounted
<1>5. Same(r, q)
  BY <1>1, <1>2, <1>3, <1>4 DEF Same, Counted
<1>6. ASSUME NEW a, Behind(q, a)
      PROVE  Behind(r, a)
  <2>1. /\ \A k \in DOMAIN r :
             \/ k \in DOMAIN q /\ r[k] = q[k] /\ k <= Len(q)
             \/ k - Len(q) \in DOMAIN e /\ r[k] = e[k - Len(q)] /\ k > Len(q)
        /\ Len(q) \in Nat /\ DOMAIN r \subseteq Nat \ {0}
    BY <1>1, <1>2, ConcatPlaces
  <2> HIDE DEF r
  <2>2. \A k \in DOMAIN e : e[k] \notin Again /\ e[k] \notin Resolves(a)
    BY <1>1, <1>2 DEF Again, Resolves
  <2>3. ASSUME NEW j \in DOMAIN r, NEW k \in DOMAIN r, r[j] \in Again, r[k] \in Resolves(a)
        PROVE  j < k
    <3>1. j \in DOMAIN q /\ r[j] = q[j] /\ k \in DOMAIN q /\ r[k] = q[k]
      BY <2>1, <2>2, <2>3
    <3> QED
      BY <1>6, <2>3, <3>1 DEF Behind
  <2> QED
    BY <2>3 DEF Behind
<1> QED
  BY <1>2, <1>4, <1>5, <1>6

-----------------------------------------------------------------------------
(* The invariants of Connection.                                           *)

\* What an attempt has reported; a finished one may go on connecting.
Reported ==
  \A a \in Attempts :
    /\ finished[a] => Len(reports[a]) <= 1 /\ (Running => reports[a] # << >>)
    /\ ~finished[a] => reports[a] = << >> /\ phase[a] # "over"

\* What is queued for an attempt.
Queued ==
  \A a \in Attempts :
    /\ Number(queue, Resolves(a)) + Number(queue, Connects(a)) <= 1
    /\ Number(queue, Resolves(a)) > 0 => phase[a] = "resolving"
    /\ Number(queue, Connects(a)) > 0 => phase[a] = "connecting"
    /\ Number(queue, Timers(a)) > 0 \/ timed[a] => phase[a] # "idle"

Pending(a) == phase[a] # "idle" /\ ~finished[a]

\* While one attempt is in progress, there is no other and no connection.
OnePending ==
  \A a \in Attempts : Pending(a) =>
    ~connected /\ \A b \in Attempts : Pending(b) => a = b

\* A loop that outlived its connection ends before the next one is made.
Dying ==
  Number(queue, Again) > 0 =>
    ~open /\ \A a \in Attempts : Pending(a) => phase[a] # "connecting" /\ Behind(queue, a)

RunningLoops == receiving + Number(queue, Again)

\* The receive loops and what they depend on.
LoopState ==
  /\ ~open => receiving = 0
  /\ \A a \in Attempts : finished[a] /\ phase[a] = "connecting" => late
  /\ ~misused =>
       /\ OnePending
       /\ RunningLoops <= 1
       /\ connected /\ ~late => open /\ RunningLoops = 1
       /\ ~connected => receiving = 0 /\ Dying

Inv == TypeOK /\ Reported /\ Queued /\ LoopState

\* The type of the queue is that of its handlers.
LEMMA TypeCounted ==
  ASSUME TypeOK
  PROVE  Counted(queue)
BY QueueCounted DEF TypeOK

LEMMA InitInv ==
  ASSUME Init
  PROVE  Inv
<1>1. << >> \in Seq(Handlers) /\ << >> \in Seq({"success", "failure", "timeout"})
  OBVIOUS
<1>2. TypeOK
  <2>1. left \in [Attempts -> 0 .. MaxEndpoints]
    BY MaxAssumption DEF Init
  <2>2. {open, connected, misused, late} \subseteq BOOLEAN
    BY DEF Init
  <2>3. reports \in [Attempts -> Seq({"success", "failure", "timeout"})]
    BY <1>1 DEF Init
  <2> QED
    BY <1>1, <2>1, <2>2, <2>3 DEF Init, TypeOK
<1>3. Number(queue, Again) = 0 /\ \A P : Number(queue, P) = 0
  BY NumberOfShort DEF Init
<1>4. Reported /\ Queued
  BY <1>3 DEF Init, Reported, Queued
<1>5. LoopState
  BY <1>3 DEF Init, LoopState, OnePending, Dying, Pending, RunningLoops
<1> QED
  BY <1>2, <1>4, <1>5 DEF Inv

LEMMA ConnectStep ==
  ASSUME Inv, NEW a \in Attempts, Connect(a)
  PROVE  Inv'
<1>1. /\ phase[a] = "idle" /\ phase' = [phase EXCEPT ![a] = "resolving"]
      /\ timed' \in [Attempts -> BOOLEAN]
      /\ \A b \in Attempts : b # a => timed'[b] = timed[b]
      /\ misused' = (misused \/ connected \/ \E b \in Attempts : phase[b] # "idle" /\ reports[b] = << >>)
      /\ status' = status /\ open' = open /\ receiving' = receiving /\ queue' = queue
      /\ left' = left /\ finished' = finished /\ reports' = reports
      /\ connected' = connected /\ late' = late
  BY DEF Connect, Inv, TypeOK
<1>2. TypeOK'
  BY <1>1 DEF Inv, TypeOK
<1>3. /\ phase' \in [Attempts -> {"idle", "resolving", "connecting", "over"}]
      /\ phase'[a] = "resolving" /\ \A b \in Attempts : b # a => phase'[b] = phase[b]
  BY <1>1 DEF Inv, TypeOK
<1>4. Reported'
  BY <1>1, <1>3 DEF Inv, Reported, Running
<1>5. Counted(queue)
  BY TypeCounted DEF Inv
<1>6. Queued'
  BY <1>1, <1>3, <1>5 DEF Inv, Queued, Counted
<1>7. Number(queue, Resolves(a)) = 0
  BY <1>1, <1>5 DEF Inv, Queued, Counted
<1>8. Behind(queue, a)
  BY <1>5, <1>7, NumberIsPositive DEF Behind, Counted
<1>9. LoopState'
  <2>1. (~open => receiving = 0)'
    BY <1>1 DEF Inv, LoopState
  <2>2. (\A b \in Attempts : finished[b] /\ phase[b] = "connecting" => late)'
    BY <1>1, <1>3 DEF Inv, LoopState
  <2>3. ASSUME ~misused'
        PROVE  /\ ~misused /\ ~connected /\ \A b \in Attempts : ~Pending(b)
               /\ receiving = 0 /\ Dying /\ RunningLoops <= 1
    BY <1>1, <2>3 DEF Inv, LoopState, Reported, Pending
  <2>4. ASSUME ~misused'
        PROVE  OnePending' /\ Dying'
    <3>1. \A b \in Attempts : Pending(b)' => b = a
      BY <1>1, <1>3, <2>3, <2>4 DEF Pending
    <3>2. OnePending'
      BY <1>1, <2>3, <2>4, <3>1 DEF OnePending
    <3>3. Dying'
      BY <1>1, <1>3, <1>8, <2>3, <2>4, <3>1 DEF Dying
    <3> QED
      BY <3>2, <3>3
  <2>5. RunningLoops' = RunningLoops
    BY <1>1 DEF RunningLoops
  <2> QED
    BY <1>1, <2>1, <2>2, <2>3, <2>4, <2>5 DEF LoopState
<1> QED
  BY <1>2, <1>4, <1>6, <1>9 DEF Inv

LEMMA CloseStep ==
  ASSUME Inv, Close
  PROVE  Inv'
<1>1. /\ open /\ ~open' /\ receiving' = 0 /\ queue' = queue \o Aborted /\ ~connected'
      /\ open' \in BOOLEAN /\ connected' \in BOOLEAN
      /\ status' = status /\ phase' = phase /\ left' = left /\ timed' = timed
      /\ finished' = finished /\ reports' = reports /\ misused' = misused /\ late' = late
  BY DEF Close, attempt
<1>2. /\ Counted(queue) /\ Counted(queue') /\ Same(queue', queue)
      /\ \A a : Behind(queue, a) => Behind(queue', a)
  BY <1>1, AbortedCome DEF Inv, TypeOK
<1>3. TypeOK'
  BY <1>1, <1>2 DEF Inv, TypeOK, Counted
<1>4. Reported'
  BY <1>1 DEF Inv, Reported, Running
<1>5. Queued'
  BY <1>1, <1>2 DEF Inv, Queued, Counted, Same
<1>6. LoopState'
  <2>1. ASSUME ~misused'
        PROVE  OnePending' /\ RunningLoops' <= 1 /\ Dying'
    <3>1. OnePending'
      BY <1>1, <2>1 DEF Inv, LoopState, OnePending, Pending
    <3>2. RunningLoops' <= 1
      BY <1>1, <1>2, <2>1 DEF Inv, TypeOK, LoopState, RunningLoops, Same, Counted
    <3>3. Dying'
      BY <1>1, <1>2, <2>1 DEF Inv, LoopState, OnePending, Pending, Dying, Same
    <3> QED
      BY <3>1, <3>2, <3>3
  <2> QED
    BY <1>1, <2>1 DEF Inv, LoopState
<1> QED
  BY <1>3, <1>4, <1>5, <1>6 DEF Inv

LEMMA ResolveEndsStep ==
  ASSUME Inv, NEW a \in Attempts, NEW ec \in {"ok", "error"}, ResolveEnds(a, ec)
  PROVE  Inv'
<1> DEFINE h == Handler("resolve", a, ec)
<1>1. /\ phase[a] = "resolving" /\ queue' = Append(queue, h)
      /\ \A k \in DOMAIN queue : queue[k].op = "resolve" => queue[k].a # a
      /\ status' = status /\ open' = open /\ receiving' = receiving /\ phase' = phase
      /\ left' = left /\ timed' = timed /\ finished' = finished /\ reports' = reports
      /\ connected' = connected /\ misused' = misused /\ late' = late
  BY DEF ResolveEnds, Enqueue, attempt, history
<1>2. h \in Handlers /\ h.op = "resolve" /\ h.a = a /\ h \notin Again
  BY HandlerTypes DEF Handler, Again
<1> HIDE DEF h
<1>3. /\ Counted(queue) /\ Counted(queue') /\ With(queue', h, queue)
      /\ \A b : Behind(queue, b) => Behind(queue', b)
  BY <1>1, <1>2, OneComes DEF Inv, TypeOK
<1>4. /\ Number(queue, Resolves(a)) = 0 /\ Number(queue, Connects(a)) = 0
      /\ Number(queue', Resolves(a)) = 1 /\ Number(queue', Connects(a)) = 0
  <2>1. Number(queue, Resolves(a)) = 0
    BY <1>1, NumberIsPositive DEF Inv, TypeOK, Resolves
  <2>2. Number(queue, Connects(a)) = 0
    BY <1>1, <1>3 DEF Inv, Queued, Counted
  <2> QED
    BY <1>2, <1>3, <2>1, <2>2 DEF With
<1>5. TypeOK'
  BY <1>1, <1>3 DEF Inv, TypeOK, Counted
<1>6. Reported'
  BY <1>1 DEF Inv, Reported, Running
<1>7. Queued'
  <2>1. ASSUME NEW b \in Attempts, b # a
        PROVE  /\ Number(queue', Resolves(b)) = Number(queue, Resolves(b))
               /\ Number(queue', Connects(b)) = Number(queue, Connects(b))
    BY <1>2, <1>3, <2>1 DEF With, Counted
  <2>2. \A b \in Attempts : Number(queue', Timers(b)) = Number(queue, Timers(b))
    BY <1>2, <1>3 DEF With, Counted
  <2> QED
    BY <1>1, <1>4, <2>1, <2>2 DEF Inv, Queued
<1>8. Number(queue', Again) = Number(queue, Again)
  BY <1>2, <1>3 DEF With, Counted
<1>9. LoopState'
  BY <1>1, <1>3, <1>8 DEF Inv, LoopState, OnePending, Pending, RunningLoops, Dying
<1> QED
  BY <1>5, <1>6, <1>7, <1>9 DEF Inv

LEMMA TimerEndsStep ==
  ASSUME Inv, NEW a \in Attempts, TimerEnds(a)
  PROVE  Inv'
<1> DEFINE h == Handler("timer", a, "ok")
<1>1. /\ timed[a] /\ timed' = [timed EXCEPT ![a] = FALSE] /\ queue' = Append(queue, h)
      /\ status' = status /\ open' = open /\ receiving' = receiving /\ phase' = phase
      /\ left' = left /\ finished' = finished /\ reports' = reports
      /\ connected' = connected /\ misused' = misused /\ late' = late
  BY DEF TimerEnds, Enqueue, history
<1>2. h \in Handlers /\ h.op = "timer" /\ h.a = a /\ h \notin Again
  BY HandlerTypes DEF Handler, Again
<1> HIDE DEF h
<1>3. /\ Counted(queue) /\ Counted(queue') /\ With(queue', h, queue)
      /\ \A b : Behind(queue, b) => Behind(queue', b)
  BY <1>1, <1>2, OneComes DEF Inv, TypeOK
<1>4. timed' \in [Attempts -> BOOLEAN] /\ \A b \in Attempts : timed'[b] => timed[b]
  BY <1>1 DEF Inv, TypeOK
<1>5. TypeOK'
  BY <1>1, <1>3, <1>4 DEF Inv, TypeOK, Counted
<1>6. Reported'
  BY <1>1 DEF Inv, Reported, Running
<1>7. Queued'
  BY <1>1, <1>2, <1>3, <1>4 DEF Inv, Queued, Counted, With
<1>8. Number(queue', Again) = Number(queue, Again)
  BY <1>2, <1>3 DEF With, Counted
<1>9. LoopState'
  BY <1>1, <1>3, <1>8 DEF Inv, LoopState, OnePending, Pending, RunningLoops, Dying
<1> QED
  BY <1>5, <1>6, <1>7, <1>9 DEF Inv

LEMMA ReceiveEndsStep ==
  ASSUME Inv, ReceiveEnds
  PROVE  Inv'
<1> DEFINE h == Handler("receive", NoAttempt, "ok")
<1>1. /\ receiving > 0 /\ receiving' = receiving - 1 /\ queue' = Append(queue, h)
      /\ status' = status /\ open' = open /\ phase' = phase /\ left' = left
      /\ timed' = timed /\ finished' = finished /\ reports' = reports
      /\ connected' = connected /\ misused' = misused /\ late' = late
  BY DEF ReceiveEnds, Enqueue, attempt, history
<1>2. h \in Handlers /\ h.op = "receive" /\ h.ec = "ok"
  BY HandlerTypes DEF Handler
<1> HIDE DEF h
<1>3. Counted(queue) /\ Counted(queue') /\ With(queue', h, queue)
  BY <1>1, <1>2, OneComes DEF Inv, TypeOK
<1>4. TypeOK'
  BY <1>1, <1>3 DEF Inv, TypeOK, Counted
<1>5. Reported'
  BY <1>1 DEF Inv, Reported, Running
<1>6. Queued'
  BY <1>1, <1>2, <1>3 DEF Inv, Queued, Counted, With
<1>7. RunningLoops' = RunningLoops
  BY <1>1, <1>2, <1>3 DEF Inv, TypeOK, RunningLoops, With, Counted
<1>8. LoopState'
  BY <1>1, <1>7 DEF Inv, TypeOK, LoopState, OnePending, Pending
<1> QED
  BY <1>4, <1>5, <1>6, <1>8 DEF Inv

\* What a callback of the application changes.
LEMMA ApplicationReturns ==
  ASSUME receiving \in Nat, open \in BOOLEAN, NEW rest \in Seq(Handlers),
         NEW closes \in BOOLEAN, NEW again \in BOOLEAN, Application(closes, rest, again)
  PROVE  /\ Counted(rest) /\ Counted(queue') /\ Same(queue', rest)
         /\ \A a : Behind(rest, a) => Behind(queue', a)
         /\ open' \in BOOLEAN /\ open' = (open /\ ~closes)
         /\ receiving' \in Nat
         /\ receiving' = (IF closes THEN 0 ELSE receiving) + (IF again /\ open' THEN 1 ELSE 0)
<1>1. /\ open' \in BOOLEAN /\ open' = (open /\ ~closes)
      /\ receiving' \in Nat
      /\ receiving' = (IF closes THEN 0 ELSE receiving) + (IF again /\ open' THEN 1 ELSE 0)
  BY DEF Application, Receives
<1>2. CASE closes
  <2>1. queue' = rest \o Aborted
    BY <1>2 DEF Application
  <2> QED
    BY <1>1, <2>1, AbortedCome
<1>3. CASE ~closes
  <2>1. queue' = rest
    BY <1>3, ConcatEmptySeq DEF Application
  <2> QED
    BY <1>1, <2>1, QueueCounted DEF Same
<1> QED
  BY <1>2, <1>3

LEMMA ReceiveStep ==
  ASSUME Inv, OnReceive
  PROVE  Inv'
<1> DEFINE h == Head(queue)
           rest == Tail(queue)
<1> HIDE DEF h, rest
<1>1. /\ queue # << >> /\ h.op = "receive"
      /\ status' = status /\ phase' = phase /\ left' = left
      /\ timed' = timed /\ finished' = finished /\ reports' = reports
      /\ misused' = misused /\ late' = late
  BY DEF OnReceive, Ready, attempt, h
<1>2. /\ Counted(queue) /\ Counted(rest) /\ With(queue, h, rest)
      /\ \A a : Behind(queue, a) => Behind(rest, a)
  BY <1>1, HeadLeaves DEF Inv, TypeOK, h, rest
<1>3. /\ Counted(queue') /\ Same(queue', rest)
      /\ \A a : Behind(queue, a) => Behind(queue', a)
      /\ open' \in BOOLEAN /\ receiving' \in Nat /\ connected' \in BOOLEAN
      /\ \/ /\ h.ec = "canceled"
            /\ open' = open /\ receiving' = receiving /\ connected' = connected
         \/ /\ h.ec # "canceled"
            /\ \E closes \in BOOLEAN :
                 /\ open' = (open /\ ~closes) /\ connected' = (connected /\ ~closes)
                 /\ receiving' = (IF closes THEN 0 ELSE receiving) + (IF open' THEN 1 ELSE 0)
  <2>1. CASE h.ec = "canceled"
    <3>1. queue' = rest /\ open' = open /\ receiving' = receiving /\ connected' = connected
      BY <2>1 DEF OnReceive, h, rest
    <3> QED
      BY <1>2, <2>1, <3>1 DEF Inv, TypeOK, Same
  <2>2. CASE h.ec # "canceled"
    <3>1. PICK closes \in BOOLEAN :
            Application(closes, rest, TRUE) /\ connected' = (connected /\ ~closes)
      BY <2>2 DEF OnReceive, h, rest
    <3>2. /\ Counted(queue') /\ Same(queue', rest)
          /\ \A a : Behind(rest, a) => Behind(queue', a)
          /\ open' \in BOOLEAN /\ open' = (open /\ ~closes)
          /\ receiving' \in Nat
          /\ receiving' = (IF closes THEN 0 ELSE receiving) + (IF TRUE /\ open' THEN 1 ELSE 0)
      BY <1>2, <3>1, ApplicationReturns DEF Inv, TypeOK, Counted
    <3> QED
      BY <1>2, <2>2, <3>1, <3>2
  <2> QED
    BY <2>1, <2>2
<1>4. TypeOK'
  BY <1>1, <1>3 DEF Inv, TypeOK, Counted
<1>5. Reported'
  BY <1>1 DEF Inv, Reported, Running
<1>6. Queued'
  <2>1. \A a \in Attempts :
          /\ Number(queue', Resolves(a)) = Number(queue, Resolves(a))
          /\ Number(queue', Connects(a)) = Number(queue, Connects(a))
          /\ Number(queue', Timers(a)) = Number(queue, Timers(a))
    BY <1>1, <1>2, <1>3 DEF With, Same, Counted
  <2> QED
    BY <1>1, <2>1 DEF Inv, Queued
<1>7. Number(queue', Again) = Number(queue, Again) - (IF h.ec # "canceled" THEN 1 ELSE 0)
  BY <1>1, <1>2, <1>3 DEF With, Same, Counted
<1>8. /\ Number(queue, Again) \in Nat /\ Number(queue', Again) \in Nat
      /\ receiving \in Nat /\ open \in BOOLEAN /\ connected \in BOOLEAN
  BY <1>2, <1>3 DEF Counted, Inv, TypeOK
<1>9. LoopState'
  <2>1. (~open => receiving = 0)'
    BY <1>3, <1>8 DEF Inv, LoopState
  <2>2. ASSUME ~misused
        PROVE  /\ RunningLoops' <= 1
               /\ connected' /\ ~late => open' /\ RunningLoops' = 1
               /\ ~connected' => receiving' = 0
    BY <1>3, <1>7, <1>8, <2>2 DEF Inv, LoopState, RunningLoops, Dying
  <2>3. ASSUME ~misused
        PROVE  OnePending'
    BY <1>1, <1>3, <2>3 DEF Inv, LoopState, OnePending, Pending
  <2>4. ASSUME ~misused, ~connected'
        PROVE  Dying'
    <3>1. CASE connected
      <4>1. ~open' /\ \A a \in Attempts : ~Pending(a)
        BY <1>3, <2>4, <3>1 DEF Inv, LoopState, OnePending
      <4> QED
        BY <1>1, <4>1 DEF Dying, Pending
    <3>2. CASE ~connected
      <4>1. Dying
        BY <2>4, <3>2 DEF Inv, LoopState
      <4>2. Number(queue', Again) > 0 => Number(queue, Again) > 0
        BY <1>7, <1>8
      <4> QED
        BY <1>1, <1>3, <4>1, <4>2 DEF Dying, Pending
    <3> QED
      BY <3>1, <3>2
  <2>5. \A a \in Attempts : finished'[a] /\ phase'[a] = "connecting" => late'
    BY <1>1 DEF Inv, LoopState
  <2> QED
    BY <1>1, <2>1, <2>2, <2>3, <2>4, <2>5 DEF LoopState
<1> QED
  BY <1>4, <1>5, <1>6, <1>9 DEF Inv

\* What trying the next endpoint changes.
LEMMA EndpointTried ==
  ASSUME TypeOK, NEW a \in Attempts, NEW n \in 0 .. MaxEndpoints,
         NEW rest \in Seq(Handlers), TryNext(a, n, rest)
  PROVE  /\ Counted(rest) /\ Counted(queue') /\ left' \in [Attempts -> 0 .. MaxEndpoints]
         /\ Number(queue', Connects(a)) = Number(rest, Connects(a)) + 1
         /\ \A b \in Attempts :
              /\ b # a => Number(queue', Connects(b)) = Number(rest, Connects(b))
              /\ Number(queue', Resolves(b)) = Number(rest, Resolves(b))
              /\ Number(queue', Timers(b)) = Number(rest, Timers(b))
         /\ Number(queue', Again) = Number(rest, Again)
         /\ \A b : Behind(rest, b) => Behind(queue', b)
         /\ \/ open' = TRUE /\ receiving' = 0
            \/ open' = open /\ receiving' = receiving
<1>1. ASSUME NEW q \in Seq(Handlers), Same(q, rest), \A b : Behind(rest, b) => Behind(q, b),
             NEW ec \in {"ok", "error"}, queue' = Append(q, Handler("connect", a, ec))
      PROVE  /\ Counted(rest) /\ Counted(queue')
             /\ Number(queue', Connects(a)) = Number(rest, Connects(a)) + 1
             /\ \A b \in Attempts :
                  /\ b # a => Number(queue', Connects(b)) = Number(rest, Connects(b))
                  /\ Number(queue', Resolves(b)) = Number(rest, Resolves(b))
                  /\ Number(queue', Timers(b)) = Number(rest, Timers(b))
             /\ Number(queue', Again) = Number(rest, Again)
             /\ \A b : Behind(rest, b) => Behind(queue', b)
  <2> DEFINE h == Handler("connect", a, ec)
  <2>1. h \in Handlers /\ h.op = "connect" /\ h.a = a /\ h \notin Again
    BY HandlerTypes DEF Handler, Again
  <2> HIDE DEF h
  <2>2. /\ Counted(q) /\ Counted(queue') /\ With(queue', h, q)
        /\ \A b : Behind(q, b) => Behind(queue', b)
    BY <1>1, <2>1, OneComes DEF h
  <2>3. Counted(rest)
    BY QueueCounted
  <2>4. /\ Number(queue', Connects(a)) = Number(q, Connects(a)) + 1
        /\ \A b \in Attempts :
             /\ b # a => Number(queue', Connects(b)) = Number(q, Connects(b))
             /\ Number(queue', Resolves(b)) = Number(q, Resolves(b))
             /\ Number(queue', Timers(b)) = Number(q, Timers(b))
        /\ Number(queue', Again) = Number(q, Again)
    BY <2>1, <2>2 DEF With, Counted
  <2> QED
    BY <1>1, <2>2, <2>3, <2>4 DEF Same
<1>2. CASE n > 0 /\ TryEndpoint(a, n, rest)
  <2>1. PICK ec \in {"ok", "error"} :
          queue' = rest \o Aborted \o <<Handler("connect", a, ec)>>
    BY <1>2 DEF TryEndpoint
  <2> DEFINE q == rest \o Aborted
  <2>2. /\ q \in Seq(Handlers) /\ Same(q, rest) /\ \A b : Behind(rest, b) => Behind(q, b)
    BY AbortedCome DEF TypeOK, Counted
  <2> HIDE DEF q
  <2>3. queue' = Append(q, Handler("connect", a, ec))
    <3>1. Handler("connect", a, ec) \in Handlers
      BY HandlerTypes
    <3>2. Append(q, Handler("connect", a, ec)) = q \o <<Handler("connect", a, ec)>>
      BY <2>2, <3>1, OneComes
    <3> QED
      BY <2>1, <3>2 DEF q
  <2>4. /\ open' = TRUE /\ receiving' = 0
        /\ left' = [left EXCEPT ![a] = n - 1] /\ n - 1 \in 0 .. MaxEndpoints
    BY <1>2, MaxAssumption DEF TryEndpoint
  <2>5. left' \in [Attempts -> 0 .. MaxEndpoints]
    BY <2>4 DEF TypeOK
  <2> QED
    BY <1>1, <2>2, <2>3, <2>4, <2>5
<1>3. CASE n = 0 /\ queue' = Append(rest, Handler("connect", a, "error"))
             /\ UNCHANGED <<open, receiving, left>>
  <2>1. Same(rest, rest) /\ left' \in [Attempts -> 0 .. MaxEndpoints]
    BY <1>3 DEF Same, TypeOK
  <2> QED
    BY <1>1, <1>3, <2>1
<1> QED
  BY <1>2, <1>3 DEF TryNext

\* What a report changes.
LEMMA ReportMade ==
  ASSUME TypeOK, Reported, NEW a \in Attempts, ~finished[a],
         NEW result \in {"success", "failure", "timeout"}, Report(a, result),
         status' = status, \A b \in Attempts : b # a => phase'[b] = phase[b]
  PROVE  /\ finished' \in [Attempts -> BOOLEAN]
         /\ finished'[a] /\ \A b \in Attempts : b # a => finished'[b] = finished[b]
         /\ reports' \in [Attempts -> Seq({"success", "failure", "timeout"})]
         /\ reports'[a] = <<result>>
         /\ \A b \in Attempts : b # a => reports'[b] = reports[b]
         /\ Reported'
<1>1. /\ finished' \in [Attempts -> BOOLEAN]
      /\ finished'[a] /\ \A b \in Attempts : b # a => finished'[b] = finished[b]
  BY DEF TypeOK, Report
<1>2. /\ reports' \in [Attempts -> Seq({"success", "failure", "timeout"})]
      /\ reports'[a] = <<result>>
      /\ \A b \in Attempts : b # a => reports'[b] = reports[b]
  <2>1. reports[a] = << >> /\ reports' = [reports EXCEPT ![a] = Append(reports[a], result)]
    BY DEF Reported, Report
  <2>2. /\ Append(reports[a], result) = <<result>>
        /\ <<result>> \in Seq({"success", "failure", "timeout"})
    BY <2>1
  <2> QED
    BY <2>1, <2>2 DEF TypeOK
<1>3. Len(reports'[a]) = 1 /\ reports'[a] # << >>
  BY <1>2
<1>4. ASSUME NEW b \in Attempts, b # a
      PROVE  /\ finished'[b] => Len(reports'[b]) <= 1 /\ (status' = "running" => reports'[b] # << >>)
             /\ ~finished'[b] => reports'[b] = << >> /\ phase'[b] # "over"
  BY <1>1, <1>2, <1>4 DEF Reported, Running
<1>5. finished'[a] /\ Len(reports'[a]) <= 1 /\ reports'[a] # << >>
  BY <1>1, <1>3
<1>6. Reported'
  BY <1>4, <1>5 DEF Reported, Running
<1> QED
  BY <1>1, <1>2, <1>6

LEMMA ResolveStep ==
  ASSUME Inv, OnResolve
  PROVE  Inv'
<1> DEFINE h == Head(queue)
           rest == Tail(queue)
           a == h.a
<1> HIDE DEF h, rest
<1>1. /\ queue # << >> /\ h.op = "resolve"
      /\ status' = status /\ timed' = timed /\ misused' = misused /\ late' = late
  BY DEF OnResolve, Ready, h
<1>2. /\ Counted(queue) /\ Counted(rest) /\ h \in Handlers /\ With(queue, h, rest)
      /\ \A b : Behind(queue, b) => Behind(rest, b)
      /\ \A b : Behind(queue, b) /\ h \in Resolves(b) => Number(queue, Again) = 0
  BY <1>1, HeadLeaves DEF Inv, TypeOK, h, rest
<1>3. a \in Attempts /\ h \in Resolves(a)
  BY <1>1, <1>2, HandlerTypes, MemberOfKind
<1> HIDE DEF a
<1>4. /\ Number(queue, Resolves(a)) = Number(rest, Resolves(a)) + 1
      /\ \A b \in Attempts :
           /\ b # a => Number(queue, Resolves(b)) = Number(rest, Resolves(b))
           /\ Number(queue, Connects(b)) = Number(rest, Connects(b))
           /\ Number(queue, Timers(b)) = Number(rest, Timers(b))
      /\ Number(queue, Again) = Number(rest, Again)
  BY <1>1, <1>2, <1>3 DEF With, Counted, a
<1>5. /\ phase[a] = "resolving" /\ Number(rest, Resolves(a)) = 0 /\ Number(rest, Connects(a)) = 0
  BY <1>2, <1>3, <1>4 DEF Inv, Queued, Counted
<1>6. ASSUME ~misused, ~finished[a]
      PROVE  /\ ~connected /\ receiving = 0 /\ Number(queue, Again) = 0
             /\ \A b \in Attempts : Pending(b) => b = a
  <2>1. Pending(a) /\ ~connected /\ receiving = 0 /\ Dying
        /\ \A b \in Attempts : Pending(b) => b = a
    BY <1>3, <1>5, <1>6 DEF Inv, LoopState, OnePending, Pending
  <2>2. Number(queue, Again) > 0 => Number(queue, Again) = 0
    BY <1>2, <1>3, <2>1 DEF Dying
  <2> QED
    BY <1>2, <2>1, <2>2 DEF Counted
<1>7. CASE /\ ~finished[a]
           /\ phase' = [phase EXCEPT ![a] = "connecting"]
           /\ \E n \in 0 .. MaxEndpoints : TryNext(a, n, rest)
           /\ UNCHANGED <<finished, reports, connected>>
  <2>1. PICK n \in 0 .. MaxEndpoints : TryNext(a, n, rest)
    BY <1>7
  <2>2. /\ Counted(queue') /\ left' \in [Attempts -> 0 .. MaxEndpoints]
        /\ Number(queue', Connects(a)) = Number(rest, Connects(a)) + 1
        /\ \A b \in Attempts :
             /\ b # a => Number(queue', Connects(b)) = Number(rest, Connects(b))
             /\ Number(queue', Resolves(b)) = Number(rest, Resolves(b))
             /\ Number(queue', Timers(b)) = Number(rest, Timers(b))
        /\ Number(queue', Again) = Number(rest, Again)
        /\ \/ open' = TRUE /\ receiving' = 0
           \/ open' = open /\ receiving' = receiving
    BY <1>2, <1>3, <2>1, EndpointTried DEF Inv, Counted
  <2>3. /\ phase' \in [Attempts -> {"idle", "resolving", "connecting", "over"}]
        /\ phase'[a] = "connecting" /\ \A b \in Attempts : b # a => phase'[b] = phase[b]
        /\ finished' = finished /\ reports' = reports /\ connected' = connected
    BY <1>3, <1>7 DEF Inv, TypeOK
  <2>4. TypeOK'
    <3>1. open' \in BOOLEAN /\ receiving' \in Nat
      <4>1. open \in BOOLEAN /\ receiving \in Nat
        BY DEF Inv, TypeOK
      <4>2. CASE open' = TRUE /\ receiving' = 0
        BY <4>2
      <4>3. CASE open' = open /\ receiving' = receiving
        BY <4>1, <4>3
      <4> QED
        BY <2>2, <4>2, <4>3
    <3>2. {open', connected', misused', late'} \subseteq BOOLEAN
      BY <1>1, <2>3, <3>1 DEF Inv, TypeOK
    <3>3. status' \in {"running", "threw"} /\ queue' \in Seq(Handlers)
      BY <1>1, <2>2 DEF Inv, TypeOK, Counted
    <3> QED
      BY <1>1, <2>2, <2>3, <3>1, <3>2, <3>3 DEF Inv, TypeOK
  <2>5. Reported'
    BY <1>1, <2>3 DEF Inv, Reported, Running
  <2>6. Queued'
    <3>1. /\ Number(queue', Resolves(a)) = 0 /\ Number(queue', Connects(a)) = 1
          /\ phase'[a] = "connecting"
      BY <1>3, <1>5, <2>2, <2>3
    <3>2. \A b \in Attempts : b # a =>
            /\ Number(queue', Resolves(b)) = Number(queue, Resolves(b))
            /\ Number(queue', Connects(b)) = Number(queue, Connects(b))
            /\ phase'[b] = phase[b]
      BY <1>4, <2>2, <2>3
    <3>3. \A b \in Attempts : Number(queue', Timers(b)) = Number(queue, Timers(b))
      BY <1>4, <2>2
    <3> QED
      BY <1>1, <3>1, <3>2, <3>3 DEF Inv, Queued
  <2>7. LoopState'
    <3>1. (~open => receiving = 0)'
      BY <2>2 DEF Inv, LoopState
    <3>2. \A b \in Attempts : finished'[b] /\ phase'[b] = "connecting" => late'
      BY <1>1, <1>7, <2>3 DEF Inv, LoopState
    <3>3. ASSUME ~misused
          PROVE  /\ ~connected' /\ receiving' = 0 /\ RunningLoops' <= 1 /\ Dying'
                 /\ \A b \in Attempts : Pending(b)' => b = a
      <4>1. \A b \in Attempts : Pending(b)' => b = a
        BY <1>6, <1>7, <2>3, <3>3 DEF Pending
      <4>2. receiving' = 0 /\ Number(queue', Again) = 0
        BY <1>4, <1>6, <1>7, <2>2, <3>3
      <4>3. RunningLoops' <= 1 /\ Dying'
        BY <4>2 DEF RunningLoops, Dying
      <4> QED
        BY <1>6, <1>7, <2>3, <3>3, <4>1, <4>2, <4>3
    <3> QED
      BY <1>1, <3>1, <3>2, <3>3 DEF LoopState, OnePending
  <2> QED
    BY <2>4, <2>5, <2>6, <2>7 DEF Inv
<1>8. CASE /\ ~finished[a]
           /\ Report(a, "failure")
           /\ phase' = [phase EXCEPT ![a] = "over"]
           /\ \E closes \in BOOLEAN :
                Application(closes, rest, FALSE) /\ connected' = (connected /\ ~closes)
           /\ UNCHANGED left
  <2>1. PICK closes \in BOOLEAN :
          Application(closes, rest, FALSE) /\ connected' = (connected /\ ~closes)
    BY <1>8
  <2>2. /\ Counted(queue') /\ Same(queue', rest)
        /\ open' \in BOOLEAN /\ open' = (open /\ ~closes)
        /\ receiving' \in Nat
        /\ receiving' = (IF closes THEN 0 ELSE receiving) + (IF FALSE /\ open' THEN 1 ELSE 0)
    BY <1>2, <2>1, ApplicationReturns DEF Inv, TypeOK, Counted
  <2>3. /\ phase' \in [Attempts -> {"idle", "resolving", "connecting", "over"}]
        /\ phase'[a] = "over" /\ \A b \in Attempts : b # a => phase'[b] = phase[b]
    BY <1>3, <1>8 DEF Inv, TypeOK
  <2>4. /\ finished' \in [Attempts -> BOOLEAN]
        /\ finished'[a] /\ \A b \in Attempts : b # a => finished'[b] = finished[b]
        /\ reports' \in [Attempts -> Seq({"success", "failure", "timeout"})]
        /\ Reported'
    BY <1>1, <1>3, <1>8, <2>3, ReportMade DEF Inv
  <2>5. TypeOK'
    BY <1>1, <1>8, <2>1, <2>2, <2>3, <2>4 DEF Inv, TypeOK, Counted
  <2>6. Reported'
    BY <2>4
  <2>7. Queued'
    <3>1. /\ Number(queue', Resolves(a)) = 0 /\ Number(queue', Connects(a)) = 0
          /\ phase'[a] = "over"
      BY <1>3, <1>5, <2>2, <2>3 DEF Same
    <3>2. \A b \in Attempts : b # a =>
            /\ Number(queue', Resolves(b)) = Number(queue, Resolves(b))
            /\ Number(queue', Connects(b)) = Number(queue, Connects(b))
            /\ phase'[b] = phase[b]
      BY <1>4, <2>2, <2>3 DEF Same
    <3>3. \A b \in Attempts : Number(queue', Timers(b)) = Number(queue, Timers(b))
      BY <1>4, <2>2 DEF Same
    <3> QED
      BY <1>1, <3>1, <3>2, <3>3 DEF Inv, Queued
  <2>8. LoopState'
    <3>1. (~open => receiving = 0)'
      BY <2>2 DEF Inv, TypeOK, LoopState
    <3>2. \A b \in Attempts : finished'[b] /\ phase'[b] = "connecting" => late'
      BY <1>1, <2>3, <2>4 DEF Inv, LoopState
    <3>3. ASSUME ~misused
          PROVE  /\ ~connected' /\ receiving' = 0 /\ RunningLoops' <= 1 /\ Dying'
                 /\ \A b \in Attempts : ~Pending(b)'
      <4>1. \A b \in Attempts : ~Pending(b)'
        BY <1>6, <1>8, <2>3, <2>4, <3>3 DEF Pending
      <4>2. receiving' = 0 /\ Number(queue', Again) = 0
        BY <1>4, <1>6, <1>8, <2>2, <3>3 DEF Same
      <4>3. RunningLoops' <= 1 /\ Dying'
        BY <4>2 DEF RunningLoops, Dying
      <4> QED
        BY <1>6, <1>8, <2>1, <3>3, <4>1, <4>2, <4>3
    <3> QED
      BY <1>1, <3>1, <3>2, <3>3 DEF LoopState, OnePending
  <2> QED
    BY <2>5, <2>6, <2>7, <2>8 DEF Inv
<1>9. CASE /\ finished[a]
           /\ phase' = [phase EXCEPT ![a] = "over"]
           /\ queue' = rest
           /\ UNCHANGED <<open, receiving, left, finished, reports, connected>>
  <2>1. /\ phase' \in [Attempts -> {"idle", "resolving", "connecting", "over"}]
        /\ phase'[a] = "over" /\ \A b \in Attempts : b # a => phase'[b] = phase[b]
        /\ open' = open /\ receiving' = receiving /\ left' = left
        /\ finished' = finished /\ reports' = reports /\ connected' = connected
    BY <1>3, <1>9 DEF Inv, TypeOK
  <2>2. TypeOK'
    BY <1>1, <1>2, <1>9, <2>1 DEF Inv, TypeOK, Counted
  <2>3. Reported'
    BY <1>1, <1>9, <2>1 DEF Inv, Reported, Running
  <2>4. Queued'
    BY <1>1, <1>2, <1>3, <1>4, <1>5, <1>9, <2>1 DEF Inv, Queued, Counted
  <2>5. LoopState'
    <3>1. \A b \in Attempts : Pending(b)' => Pending(b) /\ b # a
      BY <1>9, <2>1 DEF Pending
    <3>2. RunningLoops' = RunningLoops
      BY <1>4, <1>9, <2>1 DEF RunningLoops
    <3>3. Dying => Dying'
      BY <1>2, <1>4, <1>9, <2>1, <3>1 DEF Dying
    <3>4. OnePending => OnePending'
      BY <2>1, <3>1 DEF OnePending
    <3> QED
      BY <1>1, <2>1, <3>2, <3>3, <3>4 DEF Inv, LoopState
  <2> QED
    BY <2>2, <2>3, <2>4, <2>5 DEF Inv
<1> QED
  BY <1>7, <1>8, <1>9 DEF OnResolve, WasFinished, h, rest, a

LEMMA TimeoutStep ==
  ASSUME Inv, OnConnectTimeout
  PROVE  Inv'
<1> DEFINE h == Head(queue)
           rest == Tail(queue)
           a == h.a
<1> HIDE DEF h, rest
<1>1. /\ queue # << >> /\ h.op = "timer"
      /\ phase' = phase /\ left' = left /\ timed' = timed /\ misused' = misused
  BY DEF OnConnectTimeout, Ready, h
<1>2. /\ Counted(queue) /\ Counted(rest) /\ h \in Handlers /\ With(queue, h, rest)
      /\ \A b : Behind(queue, b) => Behind(rest, b)
  BY <1>1, HeadLeaves DEF Inv, TypeOK, h, rest
<1>3. a \in Attempts
  BY <1>1, <1>2, HandlerTypes
<1> HIDE DEF a
<1>4. /\ \A b \in Attempts :
           /\ Number(queue, Resolves(b)) = Number(rest, Resolves(b))
           /\ Number(queue, Connects(b)) = Number(rest, Connects(b))
           /\ Number(rest, Timers(b)) <= Number(queue, Timers(b))
      /\ Number(queue, Timers(a)) > 0
      /\ Number(queue, Again) = Number(rest, Again)
  BY <1>1, <1>2, <1>3 DEF With, Counted, a
<1>5. phase[a] # "idle"
  BY <1>3, <1>4 DEF Inv, Queued
<1>6. CASE /\ finished[a] /\ queue' = rest
           /\ UNCHANGED <<status, open, receiving, finished, reports, connected, late>>
  <2>1. /\ status' = status /\ open' = open /\ receiving' = receiving /\ finished' = finished
        /\ reports' = reports /\ connected' = connected /\ late' = late
    BY <1>6
  <2>2. TypeOK'
    BY <1>1, <1>2, <1>6, <2>1 DEF Inv, TypeOK, Counted
  <2>3. Reported'
    BY <1>1, <2>1 DEF Inv, Reported, Running
  <2>4. Queued'
    BY <1>1, <1>2, <1>4, <1>6 DEF Inv, Queued, Counted
  <2>5. RunningLoops' = RunningLoops /\ (Dying => Dying')
    BY <1>1, <1>2, <1>4, <1>6, <2>1 DEF RunningLoops, Dying, Pending
  <2>6. LoopState'
    BY <1>1, <2>1, <2>5 DEF Inv, LoopState, OnePending, Pending
  <2> QED
    BY <2>2, <2>3, <2>4, <2>6 DEF Inv
<1>7. CASE ~finished[a]
  <2> DEFINE resolving == /\ phase[a] = "resolving"
                          /\ \A k \in DOMAIN queue : queue[k].op = "resolve" => queue[k].a # a
             more == rest \o (IF resolving THEN <<Handler("resolve", a, "error")>> ELSE << >>)
  <2> HIDE DEF resolving, more
  <2>1. /\ late' = (late \/ phase[a] = "connecting")
        /\ \/ /\ open /\ receiving' = 0 /\ queue' = more \o Aborted
              /\ Report(a, "timeout") /\ open' \in BOOLEAN
              /\ connected' = (connected /\ open') /\ status' = status
           \/ /\ ~open /\ status' = "threw" /\ finished' = [finished EXCEPT ![a] = TRUE]
              /\ queue' = more /\ open' = open /\ receiving' = receiving
              /\ reports' = reports /\ connected' = connected
    BY <1>7 DEF OnConnectTimeout, WasFinished, h, rest, a, resolving, more
  <2>2. /\ Counted(more)
        /\ \A b \in Attempts :
             /\ Number(more, Connects(b)) = Number(rest, Connects(b))
             /\ Number(more, Timers(b)) = Number(rest, Timers(b))
             /\ \/ Number(more, Resolves(b)) = Number(rest, Resolves(b))
                \/ /\ b = a /\ phase[a] = "resolving"
                   /\ Number(rest, Resolves(b)) = 0 /\ Number(more, Resolves(b)) = 1
        /\ Number(more, Again) = Number(rest, Again)
        /\ \A b : Behind(rest, b) => Behind(more, b)
    <3>1. CASE resolving
      <4> DEFINE g == Handler("resolve", a, "error")
      <4>1. g \in Handlers /\ g.op = "resolve" /\ g.a = a /\ g \notin Again
        BY <1>3, HandlerTypes DEF Handler, Again
      <4> HIDE DEF g
      <4>2. more = Append(rest, g)
        BY <1>2, <3>1, <4>1, OneComes DEF more, g, Counted
      <4>3. /\ Counted(more) /\ With(more, g, rest)
            /\ \A b : Behind(rest, b) => Behind(more, b)
        BY <1>2, <4>1, <4>2, OneComes DEF Counted
      <4>4. Number(queue, Resolves(a)) = 0 /\ phase[a] = "resolving"
        BY <3>1, NumberIsPositive DEF Inv, TypeOK, Resolves, resolving
      <4>5. Number(rest, Resolves(a)) = 0
        BY <1>3, <1>4, <4>4
      <4>6. \A b \in Attempts :
             /\ Number(more, Connects(b)) = Number(rest, Connects(b))
             /\ Number(more, Timers(b)) = Number(rest, Timers(b))
             /\ b # a => Number(more, Resolves(b)) = Number(rest, Resolves(b))
        BY <1>2, <4>1, <4>3 DEF With, Counted
      <4>7. Number(more, Resolves(a)) = 1 /\ Number(more, Again) = Number(rest, Again)
        BY <1>2, <1>3, <4>1, <4>3, <4>5 DEF With, Counted
      <4> QED
        BY <4>3, <4>4, <4>5, <4>6, <4>7
    <3>2. CASE ~resolving
      <4>1. more = rest
        BY <1>2, <3>2, ConcatEmptySeq DEF more, Counted
      <4> QED
        BY <1>2, <4>1
    <3> QED
      BY <3>1, <3>2
  <2>3. /\ Counted(queue') /\ Same(queue', more)
        /\ \A b : Behind(more, b) => Behind(queue', b)
        /\ open' \in BOOLEAN /\ receiving' \in Nat /\ (receiving' = 0 \/ receiving' = receiving)
        /\ ~open' => receiving' = 0
        /\ status' \in {"running", "threw"}
    <3>1. CASE open
      <4>1. queue' = more \o Aborted /\ receiving' = 0 /\ open' \in BOOLEAN /\ status' = status
        BY <2>1, <3>1
      <4> QED
        BY <2>2, <4>1, AbortedCome DEF Inv, TypeOK, Counted
    <3>2. CASE ~open
      <4>1. queue' = more /\ receiving' = receiving /\ open' = open /\ status' = "threw"
        BY <2>1, <3>2
      <4> QED
        BY <2>2, <3>2, <4>1 DEF Inv, TypeOK, LoopState, Same
    <3> QED
      BY <3>1, <3>2 DEF Inv, TypeOK
  <2>4. /\ finished' \in [Attempts -> BOOLEAN]
        /\ finished'[a] /\ \A b \in Attempts : b # a => finished'[b] = finished[b]
        /\ reports' \in [Attempts -> Seq({"success", "failure", "timeout"})]
        /\ Reported'
    <3>1. CASE open
      <4>1. Report(a, "timeout") /\ status' = status
        BY <2>1, <3>1
      <4> QED
        BY <1>1, <1>3, <1>7, <4>1, ReportMade DEF Inv
    <3>2. CASE ~open
      <4>1. /\ finished' = [finished EXCEPT ![a] = TRUE] /\ reports' = reports
            /\ status' = "threw"
        BY <2>1, <3>2
      <4>2. /\ finished' \in [Attempts -> BOOLEAN]
            /\ finished'[a] /\ \A b \in Attempts : b # a => finished'[b] = finished[b]
        BY <1>3, <4>1 DEF Inv, TypeOK
      <4>3. reports[a] = << >> /\ Len(reports[a]) = 0
        BY <1>3, <1>7 DEF Inv, Reported
      <4>4. Reported'
        BY <1>1, <1>3, <4>1, <4>2, <4>3 DEF Inv, Reported, Running
      <4> QED
        BY <4>1, <4>2, <4>4 DEF Inv, TypeOK
    <3> QED
      BY <3>1, <3>2
  <2>5. connected' \in BOOLEAN /\ late' \in BOOLEAN
        /\ (connected' => connected) /\ (late \/ phase[a] = "connecting" <=> late')
    <3>1. connected \in BOOLEAN /\ late \in BOOLEAN
      BY DEF Inv, TypeOK
    <3>2. late' \in BOOLEAN /\ (late \/ phase[a] = "connecting" <=> late')
      BY <2>1, <3>1
    <3>3. connected' = connected \/ connected' = (connected /\ open')
      BY <2>1
    <3>4. connected' \in BOOLEAN /\ (connected' => connected)
      <4>1. CASE connected' = connected
        BY <3>1, <4>1
      <4>2. CASE connected' = (connected /\ open')
        BY <3>1, <4>2
      <4> QED
        BY <3>3, <4>1, <4>2
    <3> QED
      BY <3>2, <3>4
  <2>6. TypeOK'
    BY <1>1, <2>3, <2>4, <2>5 DEF Inv, TypeOK, Counted
  <2>7. Queued'
    <3>1. ASSUME NEW b \in Attempts
          PROVE  /\ Number(queue', Connects(b)) = Number(queue, Connects(b))
                 /\ Number(queue', Timers(b)) <= Number(queue, Timers(b))
                 /\ Number(queue', Timers(b)) \in Nat /\ Number(queue, Timers(b)) \in Nat
                 /\ \/ Number(queue', Resolves(b)) = Number(queue, Resolves(b))
                    \/ /\ phase[b] = "resolving" /\ Number(queue', Resolves(b)) = 1
      BY <1>2, <1>4, <2>2, <2>3 DEF Same, Counted
    <3>2. ASSUME NEW b \in Attempts, phase[b] = "resolving"
          PROVE  Number(queue, Connects(b)) = 0
      BY <1>2, <3>2 DEF Inv, Queued, Counted
    <3> QED
      BY <1>1, <3>1, <3>2 DEF Inv, Queued
  <2>8. LoopState'
    <3>1. (~open => receiving = 0)'
      BY <2>3
    <3>2. \A b \in Attempts : finished'[b] /\ phase'[b] = "connecting" => late'
      BY <1>1, <2>4, <2>5 DEF Inv, LoopState
    <3>3. \A b \in Attempts : Pending(b)' => Pending(b) /\ b # a
      BY <1>1, <2>4 DEF Pending
    <3>4. Number(queue', Again) = Number(queue, Again) /\ Number(queue, Again) \in Nat
      BY <1>2, <1>4, <2>2, <2>3 DEF Same, Counted
    <3>5. ASSUME ~misused
          PROVE  /\ ~connected /\ receiving = 0 /\ Dying
                 /\ \A b \in Attempts : Pending(b) => b = a
      BY <1>3, <1>5, <1>7, <3>5 DEF Inv, LoopState, OnePending, Pending
    <3>6. ASSUME ~misused
          PROVE  OnePending' /\ RunningLoops' <= 1 /\ ~connected' /\ receiving' = 0
      <4>1. \A b \in Attempts : ~Pending(b)'
        BY <3>3, <3>5, <3>6
      <4>2. receiving' = 0 /\ ~connected'
        BY <2>3, <2>5, <3>5, <3>6
      <4>3. RunningLoops' <= 1
        BY <3>4, <3>5, <3>6, <4>2 DEF Inv, LoopState, RunningLoops
      <4> QED
        BY <4>1, <4>2, <4>3 DEF OnePending
    <3>7. ASSUME ~misused
          PROVE  Dying'
      <4>1. Number(queue', Again) > 0 => ~open'
        BY <2>1, <3>4, <3>5, <3>7 DEF Dying
      <4>2. \A b \in Attempts : ~Pending(b)'
        BY <3>3, <3>5, <3>7
      <4> QED
        BY <4>1, <4>2 DEF Dying
    <3> QED
      BY <1>1, <3>1, <3>2, <3>6, <3>7 DEF LoopState
  <2> QED
    BY <2>4, <2>6, <2>7, <2>8 DEF Inv
<1> QED
  BY <1>6, <1>7 DEF OnConnectTimeout, WasFinished, h, rest, a

\* What the end of an attempt changes, when its handler has left the queue.
LEMMA FinishStep ==
  ASSUME Inv, NEW a \in Attempts, NEW ec \in {"ok", "error"}, NEW rest \in Seq(Handlers),
         phase[a] = "connecting", ec = "ok" => open,
         With(queue, Handler("connect", a, "ok"), rest),
         \A b : Behind(queue, b) => Behind(rest, b),
         Finish(a, ec, rest), status' = status, misused' = misused, late' = late
  PROVE  Inv'
<1>1. /\ phase' = [phase EXCEPT ![a] = "over"] /\ left' = left
      /\ phase' \in [Attempts -> {"idle", "resolving", "connecting", "over"}]
      /\ phase'[a] = "over" /\ \A b \in Attempts : b # a => phase'[b] = phase[b]
  BY DEF Finish, Inv, TypeOK
<1>2. Counted(queue) /\ Counted(rest)
  BY QueueCounted DEF Inv, TypeOK
<1>3. /\ Number(rest, Connects(a)) = 0 /\ Number(rest, Resolves(a)) = 0
      /\ \A b \in Attempts :
           /\ b # a => Number(queue, Connects(b)) = Number(rest, Connects(b))
           /\ Number(queue, Resolves(b)) = Number(rest, Resolves(b))
           /\ Number(queue, Timers(b)) = Number(rest, Timers(b))
      /\ Number(queue, Again) = Number(rest, Again) /\ Number(queue, Again) \in Nat
  <2> DEFINE h == Handler("connect", a, "ok")
  <2>1. h.op = "connect" /\ h.a = a
    BY DEF Handler
  <2> HIDE DEF h
  <2>2. With(queue, h, rest)
    BY DEF h
  <2>3. /\ Number(queue, Connects(a)) = Number(rest, Connects(a)) + 1
        /\ \A b \in Attempts :
             /\ b # a => Number(queue, Connects(b)) = Number(rest, Connects(b))
             /\ Number(queue, Resolves(b)) = Number(rest, Resolves(b))
             /\ Number(queue, Timers(b)) = Number(rest, Timers(b))
        /\ Number(queue, Again) = Number(rest, Again)
    BY <1>2, <2>1, <2>2 DEF With, Counted
  <2>4. Number(rest, Connects(a)) = 0 /\ Number(rest, Resolves(a)) = 0
    BY <1>2, <2>3 DEF Inv, Queued, Counted
  <2> QED
    BY <1>2, <2>3, <2>4 DEF Counted
<1>4. CASE /\ finished[a] /\ open' = FALSE /\ receiving' = 0 /\ queue' = rest \o Aborted
           /\ UNCHANGED <<timed, finished, reports, connected>>
  <2>1. /\ Counted(queue') /\ Same(queue', rest)
        /\ \A b : Behind(rest, b) => Behind(queue', b)
    BY <1>2, <1>4, AbortedCome DEF Inv, TypeOK
  <2>2. TypeOK'
    BY <1>1, <1>4, <2>1 DEF Inv, TypeOK, Counted
  <2>3. Reported'
    BY <1>1, <1>4 DEF Inv, Reported, Running
  <2>4. Queued'
    <3>1. ASSUME NEW b \in Attempts, b # a
          PROVE  /\ Number(queue', Connects(b)) = Number(queue, Connects(b))
                 /\ Number(queue', Resolves(b)) = Number(queue, Resolves(b))
      BY <1>3, <2>1, <3>1 DEF Same
    <3>2. Number(queue', Connects(a)) = 0 /\ Number(queue', Resolves(a)) = 0
      BY <1>3, <2>1 DEF Same
    <3>3. \A b \in Attempts : Number(queue', Timers(b)) = Number(queue, Timers(b))
      BY <1>3, <2>1 DEF Same
    <3> QED
      BY <1>1, <1>4, <3>1, <3>2, <3>3 DEF Inv, Queued
  <2>5. LoopState'
    <3>1. late
      BY <1>4 DEF Inv, LoopState
    <3>2. \A b \in Attempts : Pending(b)' => Pending(b) /\ b # a
      BY <1>1, <1>4 DEF Pending
    <3>3. Number(queue', Again) = Number(queue, Again)
      BY <1>3, <2>1 DEF Same
    <3>4. ASSUME ~misused
          PROVE  RunningLoops' <= 1
      BY <1>3, <1>4, <3>3, <3>4 DEF Inv, LoopState, RunningLoops, TypeOK
    <3>5. Dying => Dying'
      BY <1>1, <1>4, <2>1, <3>2, <3>3 DEF Dying
    <3>6. OnePending => OnePending'
      BY <1>4, <3>2 DEF OnePending
    <3> QED
      BY <1>4, <3>1, <3>4, <3>5, <3>6 DEF Inv, LoopState
  <2> QED
    BY <2>2, <2>3, <2>4, <2>5 DEF Inv
<1>5. CASE ~finished[a]
  <2> DEFINE result == IF ec = "ok" THEN "success" ELSE "failure"
             more == rest \o CancelTimer(a)
  <2>1. /\ timed' = [timed EXCEPT ![a] = FALSE]
        /\ Report(a, result) /\ result \in {"success", "failure", "timeout"}
    BY <1>5 DEF Finish, WasFinished
  <2>2. PICK closes \in BOOLEAN :
          /\ Application(closes, more, ec = "ok")
          /\ connected' = ((connected \/ ec = "ok") /\ ~closes)
    BY <1>5 DEF Finish, WasFinished
  <2> HIDE DEF result, more
  <2>3. /\ Counted(more)
        /\ \A b \in Attempts :
             /\ Number(more, Connects(b)) = Number(rest, Connects(b))
             /\ Number(more, Resolves(b)) = Number(rest, Resolves(b))
             /\ b # a => Number(more, Timers(b)) = Number(rest, Timers(b))
        /\ Number(more, Again) = Number(rest, Again)
    <3>1. CASE timed[a]
      <4> DEFINE g == Handler("timer", a, "canceled")
      <4>1. g \in Handlers /\ g.op = "timer" /\ g.a = a /\ g \notin Again
        BY HandlerTypes DEF Handler, Again
      <4> HIDE DEF g
      <4>2. more = Append(rest, g)
        BY <3>1, <4>1, OneComes DEF more, CancelTimer, g
      <4>3. Counted(more) /\ With(more, g, rest)
        BY <4>1, <4>2, OneComes
      <4>4. \A b \in Attempts :
              /\ Number(more, Connects(b)) = Number(rest, Connects(b))
              /\ Number(more, Resolves(b)) = Number(rest, Resolves(b))
        BY <1>2, <4>1, <4>3 DEF With, Counted
      <4>5. \A b \in Attempts : b # a => Number(more, Timers(b)) = Number(rest, Timers(b))
        BY <1>2, <4>1, <4>3 DEF With, Counted
      <4>6. Number(more, Again) = Number(rest, Again)
        BY <1>2, <4>1, <4>3 DEF With, Counted
      <4> QED
        BY <4>3, <4>4, <4>5, <4>6
    <3>2. CASE ~timed[a]
      <4>1. more = rest
        BY <3>2, ConcatEmptySeq DEF more, CancelTimer
      <4> QED
        BY <1>2, <4>1
    <3> QED
      BY <3>1, <3>2
  <2>4. /\ Counted(queue') /\ Same(queue', more)
        /\ open' \in BOOLEAN /\ open' = (open /\ ~closes)
        /\ receiving' \in Nat
        /\ receiving' = (IF closes THEN 0 ELSE receiving) + (IF ec = "ok" /\ open' THEN 1 ELSE 0)
    <3>1. (ec = "ok") \in BOOLEAN
      OBVIOUS
    <3> QED
      BY <2>2, <2>3, <3>1, ApplicationReturns DEF Inv, TypeOK, Counted
  <2>5. /\ finished' \in [Attempts -> BOOLEAN]
        /\ finished'[a] /\ \A b \in Attempts : b # a => finished'[b] = finished[b]
        /\ reports' \in [Attempts -> Seq({"success", "failure", "timeout"})]
        /\ Reported'
    BY <1>1, <1>5, <2>1, ReportMade DEF Inv
  <2>6. TypeOK'
    <3>1. connected' \in BOOLEAN /\ timed' \in [Attempts -> BOOLEAN]
      BY <2>1, <2>2 DEF Inv, TypeOK
    <3> QED
      BY <1>1, <2>4, <2>5, <3>1 DEF Inv, TypeOK, Counted
  <2>7. Queued'
    <3>1. ASSUME NEW b \in Attempts, b # a
          PROVE  /\ Number(queue', Connects(b)) = Number(queue, Connects(b))
                 /\ Number(queue', Resolves(b)) = Number(queue, Resolves(b))
                 /\ Number(queue', Timers(b)) = Number(queue, Timers(b))
                 /\ timed'[b] = timed[b]
      BY <1>3, <2>1, <2>3, <2>4, <3>1 DEF Same, Inv, TypeOK
    <3>2. Number(queue', Connects(a)) = 0 /\ Number(queue', Resolves(a)) = 0
      BY <1>3, <2>3, <2>4 DEF Same
    <3> QED
      BY <1>1, <3>1, <3>2 DEF Inv, Queued
  <2>8. LoopState'
    <3>1. (~open => receiving = 0)'
      <4>1. ~open => receiving = 0
        BY DEF Inv, LoopState
      <4> QED
        BY <2>4, <4>1 DEF Inv, TypeOK
    <3>2. \A b \in Attempts : finished'[b] /\ phase'[b] = "connecting" => late'
      BY <1>1, <2>5 DEF Inv, LoopState
    <3>3. \A b \in Attempts : Pending(b)' => Pending(b) /\ b # a
      BY <1>1, <2>5 DEF Pending
    <3>4. ASSUME ~misused
          PROVE  /\ ~connected /\ receiving = 0 /\ Number(queue, Again) = 0
                 /\ \A b \in Attempts : ~Pending(b)'
      <4>1. Pending(a)
        BY <1>5 DEF Pending
      <4>2. ~connected /\ receiving = 0 /\ Dying /\ \A b \in Attempts : Pending(b) => b = a
        BY <3>4, <4>1 DEF Inv, LoopState, OnePending
      <4>3. Number(queue, Again) = 0
        BY <1>3, <4>1, <4>2 DEF Dying
      <4> QED
        BY <3>3, <4>2, <4>3
    <3>5. Number(queue', Again) = Number(queue, Again)
      BY <1>3, <2>3, <2>4 DEF Same
    <3>6. ASSUME ~misused
          PROVE  /\ RunningLoops' <= 1
                 /\ connected' => open' /\ RunningLoops' = 1
                 /\ ~connected' => receiving' = 0
      <4>1. RunningLoops' = receiving'
        BY <2>4, <3>4, <3>5, <3>6 DEF RunningLoops
      <4>2. CASE ec = "ok" /\ ~closes
        BY <2>2, <2>4, <3>4, <3>6, <4>1, <4>2
      <4>3. CASE ~(ec = "ok" /\ ~closes)
        <5>1. ~connected'
          BY <2>2, <3>4, <3>6, <4>3
        <5>2. receiving' = 0
          <6>1. CASE closes
            <7>1. ~open'
              BY <2>4, <6>1
            <7> QED
              BY <2>4, <6>1, <7>1
          <6>2. CASE ec # "ok"
            BY <2>4, <3>4, <3>6, <6>2
          <6> QED
            BY <4>3, <6>1, <6>2
        <5> QED
          BY <4>1, <5>1, <5>2
      <4> QED
        BY <4>2, <4>3
    <3>7. ASSUME ~misused
          PROVE  OnePending' /\ Dying'
      BY <3>4, <3>5, <3>7 DEF OnePending, Dying
    <3> QED
      BY <3>1, <3>2, <3>6, <3>7 DEF LoopState
  <2> QED
    BY <2>5, <2>6, <2>7, <2>8 DEF Inv
<1> QED
  BY <1>4, <1>5 DEF Finish, WasFinished

LEMMA ConnectedStep ==
  ASSUME Inv, OnConnect
  PROVE  Inv'
<1> DEFINE h == Head(queue)
           rest == Tail(queue)
           a == h.a
<1> HIDE DEF h, rest
<1>1. /\ queue # << >> /\ h.op = "connect"
      /\ status' = status /\ misused' = misused /\ late' = late
  BY DEF OnConnect, Ready, h
<1>2. /\ Counted(queue) /\ Counted(rest) /\ h \in Handlers /\ With(queue, h, rest)
      /\ \A b : Behind(queue, b) => Behind(rest, b)
  BY <1>1, HeadLeaves DEF Inv, TypeOK, h, rest
<1>3. a \in Attempts /\ h.ec \in {"ok", "error"}
  BY <1>1, <1>2 DEF Handlers
<1> HIDE DEF a
<1>4. With(queue, Handler("connect", a, "ok"), rest)
  BY <1>1, <1>2 DEF With, Handler, a
<1>5. /\ Number(queue, Connects(a)) = Number(rest, Connects(a)) + 1
      /\ \A b \in Attempts :
           /\ b # a => Number(queue, Connects(b)) = Number(rest, Connects(b))
           /\ Number(queue, Resolves(b)) = Number(rest, Resolves(b))
           /\ Number(queue, Timers(b)) = Number(rest, Timers(b))
      /\ Number(queue, Again) = Number(rest, Again)
  BY <1>1, <1>2, <1>3 DEF With, Counted, a
<1>6. phase[a] = "connecting" /\ Number(rest, Connects(a)) = 0 /\ Number(rest, Resolves(a)) = 0
  BY <1>2, <1>3, <1>5 DEF Inv, Queued, Counted
<1>7. CASE (h.ec = "ok" \/ ~open \/ left[a] = 0)
           /\ Finish(a, IF open THEN h.ec ELSE "error", rest)
  <2> DEFINE ec == IF open THEN h.ec ELSE "error"
  <2>1. ec \in {"ok", "error"} /\ (ec = "ok" => open)
    BY <1>3
  <2>2. Finish(a, ec, rest)
    BY <1>7
  <2> HIDE DEF ec
  <2> QED
    BY <1>1, <1>2, <1>3, <1>4, <1>6, <2>1, <2>2, FinishStep DEF Counted
<1>8. CASE /\ h.ec # "ok" /\ open /\ left[a] > 0
           /\ TryNext(a, left[a], rest)
           /\ UNCHANGED <<phase, timed, finished, reports, connected>>
  <2>1. left[a] \in 0 .. MaxEndpoints
    BY <1>3 DEF Inv, TypeOK
  <2>2. /\ Counted(queue') /\ left' \in [Attempts -> 0 .. MaxEndpoints]
        /\ Number(queue', Connects(a)) = Number(rest, Connects(a)) + 1
        /\ \A b \in Attempts :
             /\ b # a => Number(queue', Connects(b)) = Number(rest, Connects(b))
             /\ Number(queue', Resolves(b)) = Number(rest, Resolves(b))
             /\ Number(queue', Timers(b)) = Number(rest, Timers(b))
        /\ Number(queue', Again) = Number(rest, Again)
    BY <1>2, <1>3, <1>8, <2>1, EndpointTried DEF Inv, Counted
  <2>3. open' = TRUE /\ receiving' = 0
    <3>1. left[a] # 0
      BY <1>8, <2>1, MaxAssumption
    <3>2. TryEndpoint(a, left[a], rest)
      BY <1>8, <3>1 DEF TryNext
    <3> QED
      BY <3>2 DEF TryEndpoint
  <2>4. /\ phase' = phase /\ timed' = timed /\ finished' = finished /\ reports' = reports
        /\ connected' = connected
    BY <1>8
  <2>5. TypeOK'
    BY <1>1, <2>2, <2>3, <2>4 DEF Inv, TypeOK, Counted
  <2>6. Reported'
    BY <1>1, <2>4 DEF Inv, Reported, Running
  <2>7. Queued'
    <3>1. ASSUME NEW b \in Attempts
          PROVE  /\ Number(queue', Connects(b)) = Number(queue, Connects(b))
                 /\ Number(queue', Resolves(b)) = Number(queue, Resolves(b))
                 /\ Number(queue', Timers(b)) = Number(queue, Timers(b))
      BY <1>5, <2>2
    <3> QED
      BY <2>4, <3>1 DEF Inv, Queued
  <2>8. LoopState'
    <3>1. Number(queue', Again) = Number(queue, Again) /\ Number(queue, Again) \in Nat
      BY <1>2, <1>5, <2>2 DEF Counted
    <3>2. ASSUME ~misused
          PROVE  RunningLoops' <= 1
      BY <2>3, <3>1, <3>2 DEF Inv, LoopState, RunningLoops, TypeOK
    <3>3. ASSUME ~misused, ~connected
          PROVE  Number(queue', Again) = 0
      BY <1>8, <3>1, <3>3 DEF Inv, LoopState, Dying
    <3>4. ASSUME ~misused
          PROVE  connected => late
      <4>1. ~Pending(a) => late
        BY <1>1, <1>3, <1>6 DEF Inv, LoopState, Pending
      <4>2. Pending(a) => ~connected
        BY <1>3, <3>4 DEF Inv, LoopState, OnePending
      <4> QED
        BY <4>1, <4>2
    <3>5. OnePending => OnePending'
      BY <2>4 DEF OnePending, Pending
    <3>6. ASSUME ~misused, ~connected
          PROVE  Dying'
      BY <3>3, <3>6 DEF Dying
    <3>7. \A b \in Attempts : finished'[b] /\ phase'[b] = "connecting" => late'
      BY <1>1, <2>4 DEF Inv, LoopState
    <3> QED
      BY <1>1, <2>3, <2>4, <3>2, <3>4, <3>5, <3>6, <3>7 DEF Inv, LoopState
  <2> QED
    BY <2>5, <2>6, <2>7, <2>8 DEF Inv
<1> QED
  BY <1>7, <1>8 DEF OnConnect, h, rest, a

\* Inv is inductive.
LEMMA NextInv ==
  ASSUME Inv, [Next]_vars
  PROVE  Inv'
<1>1. CASE UNCHANGED vars
  <2>1. /\ status' = status /\ open' = open /\ receiving' = receiving /\ queue' = queue
        /\ phase' = phase /\ left' = left /\ timed' = timed /\ finished' = finished
        /\ reports' = reports /\ connected' = connected /\ misused' = misused /\ late' = late
    BY <1>1 DEF vars, attempt, history
  <2>2. TypeOK' /\ Reported' /\ Queued'
    BY <2>1 DEF Inv, TypeOK, Reported, Running, Queued
  <2>3. LoopState'
    BY <2>1 DEF Inv, LoopState, OnePending, Pending, RunningLoops, Dying
  <2> QED
    BY <2>2, <2>3 DEF Inv
<1>2. CASE Next
  <2>1. ASSUME NEW a \in Attempts, Connect(a) \/ TimerEnds(a)
        PROVE  Inv'
    BY <2>1, ConnectStep, TimerEndsStep
  <2>2. ASSUME NEW a \in Attempts, NEW ec \in {"ok", "error"}, ResolveEnds(a, ec)
        PROVE  Inv'
    BY <2>2, ResolveEndsStep
  <2>3. CASE Close
    BY <2>3, CloseStep
  <2>4. CASE ReceiveEnds
    BY <2>4, ReceiveEndsStep
  <2>5. CASE Dispatch
    BY <2>5, ResolveStep, ConnectedStep, TimeoutStep, ReceiveStep DEF Dispatch
  <2> QED
    BY <1>2, <2>1, <2>2, <2>3, <2>4, <2>5 DEF Next
<1> QED
  BY <1>1, <1>2

\* Every state of Connection, with any number of attempts and endpoints, satisfies Inv.
THEOREM Invariant == Spec => []Inv
<1>1. Init => Inv
  BY InitInv
<1>2. Inv /\ [Next]_vars => Inv'
  BY NextInv
<1> QED
  BY <1>1, <1>2, PTL DEF Spec

\* The callback of connect is called once for each attempt (connect.hpp:88-123),
\* by whichever of resolver, connection and timeout comes first, unless the
\* timeout threw.
THEOREM CalledBackOnce == Spec => []ReportedOnce
<1>1. ASSUME Inv
      PROVE  ReportedOnce
  <2> SUFFICES ASSUME NEW a \in Attempts
               PROVE  /\ Len(reports[a]) <= 1
                      /\ Running => (finished[a] <=> reports[a] # << >>)
                      /\ Running /\ phase[a] = "over" => reports[a] # << >>
    BY DEF ReportedOnce
  <2>1. finished[a] \in BOOLEAN
    BY <1>1 DEF Inv, TypeOK
  <2>2. CASE finished[a]
    BY <1>1, <2>2 DEF Inv, Reported
  <2>3. CASE ~finished[a]
    <3>1. reports[a] = << >> /\ phase[a] # "over"
      BY <1>1, <2>3 DEF Inv, Reported
    <3>2. Len(reports[a]) = 0
      BY <3>1
    <3> QED
      BY <2>3, <3>1, <3>2
  <2> QED
    BY <2>2, <2>3
<1> QED
  BY <1>1, Invariant, PTL

\* Two receive loops never use the one read_buffer_ (client.cpp:79-81), and there is
\* one while the application is connected (client.cpp:115-118), as long as the
\* application does not connect while it is connected or connecting.
THEOREM LoopIsUnique == Spec => []OneLoop
<1>1. ASSUME Inv
      PROVE  OneLoop
  <2>1. queue \in Seq(Handlers) /\ \A k \in DOMAIN queue : queue[k] \in Handlers
    BY <1>1, LenProperties, ElementOfSeq DEF Inv, TypeOK
  <2>2. LiveReceives = Places(queue, Again)
    BY <2>1 DEF LiveReceives, Places, Again
  <2>3. Loops = RunningLoops
    BY <2>2 DEF Loops, RunningLoops, Number
  <2> QED
    BY <1>1, <2>3 DEF Inv, LoopState, OneLoop
<1> QED
  BY <1>1, Invariant, PTL

-----------------------------------------------------------------------------
(* The tools.                                                              *)

\* A tool does with its connection what any application may do.
LEMMA ToolStep ==
  ASSUME ToolNext
  PROVE  [Next]_vars
<1>1. CASE Alive /\ Start
  <2> DEFINE first == CHOOSE a \in Attempts : TRUE
  <2>1. first \in Attempts /\ Connect(first) /\ Running
    <3>1. PICK a \in Attempts : timed'[a]
      BY <1>1 DEF Start
    <3> QED
      BY <1>1, <3>1 DEF Start, Alive
  <2> HIDE DEF first
  <2> QED
    BY <2>1 DEF Next
<1>2. CASE Alive /\ (OtherApplication \/ Environment) /\ UNCHANGED toolVars
  <2>1. CASE OtherApplication
    BY <1>2, <2>1 DEF OtherApplication, Alive, Next
  <2>2. CASE Environment
    BY <1>2, <2>2 DEF Environment, Alive, Next
  <2> QED
    BY <1>2, <2>1, <2>2
<1>3. CASE ToolDispatch
  BY <1>3 DEF ToolDispatch, Connecting, Receiving, Alive, Dispatch, Next
<1>4. ASSUME NEW c \in Chains, Alive /\ Fails(c)
      PROVE  [Next]_vars
  BY <1>4 DEF Fails, Alive, Next
<1>5. ASSUME NEW v \in Variables, Alive /\ StrayArrives(v)
      PROVE  UNCHANGED vars
  BY <1>5 DEF StrayArrives
<1> QED
  BY <1>1, <1>2, <1>3, <1>4, <1>5 DEF ToolNext

\* Every program is an application of Connection: what is proved of connections holds
\* of each tool (src/tools, src/file_manager), and its own steps take nothing from it.
THEOREM ToolsConnect == ToolSpec => Spec
<1>1. ToolInit => Init
  BY DEF ToolInit
<1>2. [ToolNext]_allVars => [Next]_vars
  <2>1. UNCHANGED allVars => UNCHANGED vars
    BY DEF allVars
  <2> QED
    BY <2>1, ToolStep
<1> QED
  BY <1>1, <1>2, PTL DEF ToolSpec, Spec

\* Chains with a command in flight have no variable in common.
Disjoint ==
  \A c, d \in Chains :
    op[c] # "none" /\ op[d] # "none" /\ c \intersect d # {} => c = d

\* The types of what Tools adds.
ToolTypes ==
  /\ tool \in Programs
  /\ ended \in {"no", "exited", "crashed"}
  /\ op \in [Chains -> Commands]
  /\ value \in [Variables -> 0 .. Values - 1]
  /\ memory \in [Variables -> 0 .. Values - 1]
  /\ stray \in [Variables -> SUBSET (0 .. Values - 1)]
  /\ doubt \subseteq Variables

ToolInv == ToolTypes /\ Disjoint /\ ReadsWhatItWrote

LEMMA InitToolInv ==
  ASSUME ToolInit
  PROVE  ToolInv
<1>1. 0 \in 0 .. Values - 1
  BY ToolAssumption
<1>2. ToolTypes
  BY <1>1 DEF ToolInit, ToolTypes, Commands
<1>3. Disjoint /\ ReadsWhatItWrote
  BY DEF ToolInit, Disjoint, ReadsWhatItWrote
<1> QED
  BY <1>2, <1>3 DEF ToolInv

\* The counters wrap.
LEMMA WrapInRange ==
  ASSUME NEW x \in 0 .. Values - 1
  PROVE  Wrap(x + 1) \in 0 .. Values - 1
<1>1. Values \in Nat \ {0}
  BY ToolAssumption
<1>2. CASE x = Values - 1
  <2>1. x + 1 = Values /\ Values % Values = 0
    BY <1>1, <1>2
  <2> QED
    BY <1>1, <2>1 DEF Wrap
<1>3. CASE x # Values - 1
  <2>1. x + 1 \in 0 .. Values - 1
    BY <1>1, <1>3
  <2>2. (x + 1) % Values = x + 1
    BY <1>1, <2>1
  <2> QED
    BY <2>1, <2>2 DEF Wrap
<1> QED
  BY <1>2, <1>3

\* The first commands of a tool are on different variables, and none is a read.
LEMMA FirstCommands ==
  /\ \A c \in Chains : First(c) \in Commands /\ First(c) # "read"
  /\ \A c, d \in Chains :
       First(c) # "none" /\ First(d) # "none" /\ c \intersect d # {} => c = d
<1>1. \A c \in Chains : First(c) \in Commands /\ First(c) # "read"
  BY DEF First, Commands
<1>2. ASSUME NEW c \in Chains, First(c) # "none"
      PROVE  \/ c = {}
             \/ tool = "udp_test" /\ Cardinality(c) = 1
             \/ tool = "multi_command_test" /\ c = Variables
  BY <1>2 DEF First
<1>3. ASSUME NEW c \in Chains, Cardinality(c) = 1, NEW v \in c
      PROVE  c = {v}
  <2>1. IsFiniteSet(c)
    BY ToolAssumption, FS_Subset DEF Chains
  <2> QED
    BY <1>3, <2>1, FS_Singleton
<1> QED
  BY <1>1, <1>2, <1>3

\* What an answered command changes.
LEMMA AnsweredStep ==
  ASSUME ToolInv, NEW c \in Chains, NEW ok \in BOOLEAN, Answered(c, ok), tool' = tool
  PROVE  ToolInv'
<1>1. /\ op[c] # "none" /\ op' = [op EXCEPT ![c] = After(op[c], ok)]
      /\ ended' \in {"no", "exited", "crashed"}
      /\ Counts(c, op[c], ok)
      /\ op[c] = "write" => Writes(c, ok)
      /\ op[c] # "write" => memory' = memory /\ stray' = stray /\ doubt' = doubt
  BY DEF Answered, ToolInv, ToolTypes
<1>2. After(op[c], ok) \in Commands /\ (After(op[c], ok) = "read" => op[c] = "write")
  BY DEF After, Commands
<1>3. /\ op' \in [Chains -> Commands] /\ op'[c] = After(op[c], ok)
      /\ \A d \in Chains : d # c => op'[d] = op[d]
  BY <1>1, <1>2 DEF ToolInv, ToolTypes
<1>4. /\ value' \in [Variables -> 0 .. Values - 1]
      /\ \A v \in Variables : v \notin c \/ op[c] = "write" => value'[v] = value[v]
  <2>1. value' = [v \in Variables |->
                    IF op[c] = "read" /\ ok /\ v \in c THEN Wrap(value[v] + 1) ELSE value[v]]
    BY <1>1 DEF Counts
  <2>2. \A v \in Variables : value[v] \in 0 .. Values - 1 /\ Wrap(value[v] + 1) \in 0 .. Values - 1
    BY WrapInRange DEF ToolInv, ToolTypes
  <2> QED
    BY <2>1, <2>2
<1>5. /\ memory' \in [Variables -> 0 .. Values - 1]
      /\ stray' \in [Variables -> SUBSET (0 .. Values - 1)]
      /\ doubt' \subseteq Variables
      /\ \A v \in Variables : v \notin c => memory'[v] = memory[v] /\ (v \in doubt => v \in doubt')
      /\ op[c] = "write" => \A v \in c : v \in doubt' \/ memory'[v] = value[v]
  <2>1. CASE op[c] = "write"
    <3>1. PICK done \in SUBSET c, again \in SUBSET c :
            /\ ok => done = c
            /\ memory' = [v \in Variables |-> IF v \in done THEN value[v] ELSE memory[v]]
            /\ Strays(again)
            /\ doubt' = IF ok THEN doubt \ c ELSE doubt \union c
      BY <1>1, <2>1 DEF Writes
    <3>2. stray' = [v \in Variables |->
                      IF v \in again THEN stray[v] \union {value[v]} ELSE stray[v]]
      BY <3>1 DEF Strays
    <3>3. stray' \in [Variables -> SUBSET (0 .. Values - 1)]
      BY <3>2 DEF ToolInv, ToolTypes
    <3>4. memory' \in [Variables -> 0 .. Values - 1] /\ doubt' \subseteq Variables
      BY <3>1 DEF ToolInv, ToolTypes, Chains
    <3>5. \A v \in Variables : v \notin c => memory'[v] = memory[v] /\ (v \in doubt => v \in doubt')
      BY <3>1
    <3>6. \A v \in c : v \in doubt' \/ memory'[v] = value[v]
      BY <3>1 DEF Chains
    <3> QED
      BY <3>3, <3>4, <3>5, <3>6
  <2>2. CASE op[c] # "write"
    BY <1>1, <2>2 DEF ToolInv, ToolTypes
  <2> QED
    BY <2>1, <2>2
<1>6. ToolTypes'
  BY <1>1, <1>3, <1>4, <1>5 DEF ToolInv, ToolTypes
<1>7. Disjoint'
  <2>1. \A d \in Chains : op'[d] # "none" => op[d] # "none"
    BY <1>1, <1>3
  <2> QED
    BY <2>1 DEF ToolInv, Disjoint
<1>8. ReadsWhatItWrote'
  <2> SUFFICES ASSUME NEW d \in Chains, op'[d] = "read", NEW v \in d
               PROVE  v \in doubt' \/ memory'[v] = value'[v]
    BY DEF ReadsWhatItWrote
  <2>1. v \in Variables
    BY DEF Chains
  <2>2. CASE d = c
    BY <1>2, <1>3, <1>4, <1>5, <2>1, <2>2
  <2>3. CASE d # c
    <3>1. op[d] = "read"
      BY <1>3, <2>3
    <3>2. v \notin c
      BY <1>1, <2>3, <3>1 DEF ToolInv, Disjoint
    <3>3. v \in doubt \/ memory[v] = value[v]
      BY <3>1 DEF ToolInv, ReadsWhatItWrote
    <3> QED
      BY <1>4, <1>5, <2>1, <3>2, <3>3
  <2> QED
    BY <2>2, <2>3
<1> QED
  BY <1>6, <1>7, <1>8 DEF ToolInv

LEMMA NextToolInv ==
  ASSUME ToolInv, [ToolNext]_allVars
  PROVE  ToolInv'
<1>1. ASSUME UNCHANGED <<tool, numbers>>, op' = op,
             ended' \in {"no", "exited", "crashed"}
      PROVE  ToolInv'
  <2>1. /\ tool' = tool /\ value' = value /\ memory' = memory /\ stray' = stray
        /\ doubt' = doubt
    BY <1>1 DEF numbers
  <2>2. ToolTypes' /\ Disjoint' /\ ReadsWhatItWrote'
    BY <1>1, <2>1 DEF ToolInv, ToolTypes, Disjoint, ReadsWhatItWrote
  <2> QED
    BY <2>2 DEF ToolInv
<1>2. ended \in {"no", "exited", "crashed"}
  BY DEF ToolInv, ToolTypes
<1>3. CASE UNCHANGED toolVars
  BY <1>1, <1>2, <1>3 DEF toolVars
<1>4. CASE Connecting
  <2>1. UNCHANGED <<tool, numbers>>
    BY <1>4 DEF Connecting
  <2>2. CASE UNCHANGED <<ended, op>>
    BY <1>1, <1>2, <2>1, <2>2
  <2>3. ASSUME NEW result, OnConnected(result)
        PROVE  ToolInv'
    <3>1. ended' \in {"no", "exited", "crashed"}
      BY <1>2, <2>3 DEF OnConnected, OnSuccess, OnFailure
    <3>2. op' = op \/ op' = [c \in Chains |-> First(c)]
      BY <2>3 DEF OnConnected, OnSuccess, OnFailure
    <3>3. CASE op' = [c \in Chains |-> First(c)]
      <4>1. /\ tool' = tool /\ value' = value /\ memory' = memory /\ stray' = stray
            /\ doubt' = doubt
        BY <2>1 DEF numbers
      <4>2. \A c \in Chains : op'[c] = First(c)
        BY <3>3
      <4>3. ToolTypes'
        BY <3>1, <3>3, <4>1, FirstCommands DEF ToolInv, ToolTypes
      <4>4. Disjoint' /\ ReadsWhatItWrote'
        BY <4>2, FirstCommands DEF Disjoint, ReadsWhatItWrote
      <4> QED
        BY <4>3, <4>4 DEF ToolInv
    <3> QED
      BY <1>1, <2>1, <3>1, <3>2, <3>3
  <2> QED
    BY <1>4, <2>2, <2>3 DEF Connecting
<1>5. CASE Receiving
  <2>1. CASE UNCHANGED <<ended, op, numbers>>
    BY <1>1, <1>2, <1>5, <2>1 DEF Receiving
  <2>2. ASSUME NEW c \in Chains, NEW ok \in BOOLEAN, Answered(c, ok)
        PROVE  ToolInv'
    BY <1>5, <2>2, AnsweredStep DEF Receiving
  <2> QED
    BY <1>5, <2>1, <2>2 DEF Receiving
<1>6. ASSUME NEW c \in Chains, Fails(c)
      PROVE  ToolInv'
  <2>1. Answered(c, FALSE) /\ tool' = tool /\ FALSE \in BOOLEAN
    BY <1>6 DEF Fails
  <2> QED
    BY <2>1, AnsweredStep
<1>7. ASSUME NEW v \in Variables, StrayArrives(v)
      PROVE  ToolInv'
  <2>1. PICK x \in stray[v] :
          /\ memory' = [memory EXCEPT ![v] = x]
          /\ stray' = [stray EXCEPT ![v] = stray[v] \ {x}]
          /\ doubt' = doubt \union {v}
          /\ tool' = tool /\ ended' = ended /\ op' = op /\ value' = value
    BY <1>7 DEF StrayArrives
  <2>2. x \in 0 .. Values - 1 /\ stray[v] \ {x} \in SUBSET (0 .. Values - 1)
    BY <2>1 DEF ToolInv, ToolTypes
  <2>3. ToolTypes'
    BY <2>1, <2>2 DEF ToolInv, ToolTypes
  <2>4. Disjoint'
    BY <2>1 DEF ToolInv, Disjoint
  <2>5. \A w \in Variables : w = v \/ memory'[w] = memory[w]
    BY <2>1 DEF ToolInv, ToolTypes
  <2>6. ReadsWhatItWrote'
    BY <2>1, <2>5 DEF ToolInv, ReadsWhatItWrote, Chains
  <2> QED
    BY <2>3, <2>4, <2>6 DEF ToolInv
<1>8. CASE UNCHANGED allVars
  BY <1>3, <1>8 DEF allVars
<1>9. CASE ToolNext
  <2>1. CASE Alive /\ Start
    BY <1>3, <2>1 DEF Start
  <2> QED
    BY <1>3, <1>4, <1>5, <1>6, <1>7, <1>9, <2>1 DEF ToolNext, ToolDispatch
<1> QED
  BY <1>8, <1>9

LEMMA ToolInvariant == ToolSpec => []ToolInv
<1>1. ToolInit => ToolInv
  BY InitToolInv
<1>2. ToolInv /\ [ToolNext]_allVars => ToolInv'
  BY NextToolInv
<1> QED
  BY <1>1, <1>2, PTL DEF ToolSpec

\* Types, for any number of attempts, endpoints, variables and values of the counters.
THEOREM TypeCorrect == ToolSpec => []ToolTypeOK
<1>1. Inv /\ ToolInv => ToolTypeOK
  BY DEF Inv, ToolInv, ToolTypes, ToolTypeOK
<1> QED
  BY <1>1, Invariant, ToolsConnect, ToolInvariant, PTL

\* "Read wrong byte value" (tools/udp_test.cpp:98) is only printed after a write that
\* failed or that a late one overwrote, whatever the network does with the commands.
THEOREM ToolsReadWhatTheyWrote == ToolSpec => []ReadsWhatItWrote
<1>1. ToolInv => ReadsWhatItWrote
  BY DEF ToolInv
<1> QED
  BY <1>1, ToolInvariant, PTL

=============================================================================
