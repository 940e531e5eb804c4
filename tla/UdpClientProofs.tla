--------------------------- MODULE UdpClientProofs ---------------------------
(***************************************************************************)
(* Theorems about UdpClient for every set of commands and every number of  *)
(* request ids: what it keeps in its table and its queue, that it has one  *)
(* receive loop, that ids are confused only after a wrap, and that it      *)
(* implements CommandPromise.                                              *)
(***************************************************************************)
EXTENDS UdpClient, SequenceTheorems, TLAPS

-----------------------------------------------------------------------------
(* The operators the actions are built from.                               *)

\* The next request id is an id, the next higher one but for the wrap.
LEMMA IncrementIdWraps ==
  ASSUME NEW i \in Ids
  PROVE  /\ IncrementId(i) \in Ids
         /\ IncrementId(i) = IF i = IdSpace - 1 THEN 0 ELSE i + 1
<1> USE IdSpaceAssumption DEF Ids, IncrementId
<1>1. CASE i = IdSpace - 1
  BY <1>1
<1>2. CASE i # IdSpace - 1
  <2>1. i + 1 \in 0 .. IdSpace - 1
    BY <1>2
  <2>2. (i + 1) % IdSpace = i + 1
    BY <2>1
  <2> QED
    BY <2>1, <2>2, <1>2
<1> QED
  BY <1>1, <1>2

\* Every handler that has to do with a session is a handler.
LEMMA SessionHandlers ==
  ASSUME NEW s \in Sessions
  PROVE  /\ \A ec \in {"ok", "error"} : Handler("send", s, ec) \in Handlers
         /\ \A ec \in {"ok", "canceled"} : Handler("timer", s, ec) \in Handlers
         /\ Handler("reset", s, "ok") \in Handlers
         /\ Handler("receive", s, "ok") \in Handlers
  BY DEF Handler, Handlers

\* And so are those of the other receives.
LEMMA ReceiveHandlers ==
  ASSUME NEW ec \in {"error", "canceled"}
  PROVE  Handler("receive", NoSession, ec) \in Handlers
  BY DEF Handler, Handlers

\* Closing the socket queues a sequence of handlers.
LEMMA AbortedType ==
  ASSUME TypeOK
  PROVE  Aborted \in Seq(Handlers)
<1> DEFINE receives == [i \in 1 .. receiving |-> Handler("receive", NoSession, "canceled")]
           sends == [i \in 1 .. Len(sendq) |-> Handler("send", sendq[i], "error")]
<1>1. receives \in Seq(Handlers)
  BY ReceiveHandlers, IsASeq DEF TypeOK
<1>2. sends \in Seq(Handlers)
  <2>1. \A i \in 1 .. Len(sendq) : Handler("send", sendq[i], "error") \in Handlers
    BY SessionHandlers, ElementOfSeq DEF TypeOK
  <2>2. Len(sendq) \in Nat
    BY LenProperties DEF TypeOK
  <2> QED
    BY <2>1, <2>2, IsASeq
<1> QED
  BY <1>1, <1>2, ConcatProperties DEF Aborted

\* Application code leaves typed queues behind when it is given typed ones.
LEMMA ApplicationType ==
  ASSUME TypeOK,
         NEW before \in Seq(Handlers), NEW after \in Seq(Handlers),
         Application(before, after)
  PROVE  open' \in BOOLEAN /\ sendq' \in Seq(Sessions) /\ queue' \in Seq(Handlers)
<1>1. /\ before \o after \in Seq(Handlers)
      /\ before \o Aborted \o after \in Seq(Handlers)
  BY AbortedType, ConcatProperties
<1>2. << >> \in Seq(Sessions)
  BY EmptySeq
<1> QED
  BY <1>1, <1>2 DEF Application, TypeOK

\* Cancelling the timer of a session queues at most one handler.
LEMMA AbortedWaitType ==
  ASSUME NEW s \in Sessions
  PROVE  AbortedWait(s) \in Seq(Handlers)
  BY SessionHandlers DEF AbortedWait

\* What Resolve assigns has the type of what it is assigned to.
LEMMA ResolveType ==
  ASSUME TypeOK,
         NEW s \in Sessions, NEW from \in Senders, NEW q \in Seq(Handlers),
         Resolve(s, from, q)
  PROVE  /\ status' \in {"running", "threw", "crashed"}
         /\ open' \in BOOLEAN
         /\ sendq' \in Seq(Sessions)
         /\ queue' \in Seq(Handlers)
         /\ requests' \in [Ids -> Senders]
         /\ phase' \in [Sessions -> Phases]
         /\ timer' \in [Sessions -> {"off", "waiting"}]
         /\ answers' \in [Sessions -> Seq(Senders)]
<1>1. CASE AlreadyDone(s)
  BY <1>1 DEF Resolve, TypeOK
<1>2. CASE ~AlreadyDone(s)
  <2>1. /\ q \o AbortedWait(s) \in Seq(Handlers)
        /\ <<Handler("reset", s, "ok")>> \in Seq(Handlers)
    BY AbortedWaitType, SessionHandlers, ConcatProperties
  <2>2. Application(q \o AbortedWait(s), <<Handler("reset", s, "ok")>>)
    BY <1>2 DEF Resolve
  <2>3. open' \in BOOLEAN /\ sendq' \in Seq(Sessions) /\ queue' \in Seq(Handlers)
    BY <2>1, <2>2, ApplicationType
  <2>4. Append(answers[s], from) \in Seq(Senders)
    BY AppendProperties DEF TypeOK
  <2>5. requests' \in [Ids -> Senders]
    BY <1>2 DEF Resolve, Unregister, TypeOK, Senders
  <2>6. /\ status' = status
        /\ phase' = [phase EXCEPT ![s] = "done"]
        /\ timer' = [timer EXCEPT ![s] = "off"]
        /\ answers' = [answers EXCEPT ![s] = Append(@, from)]
    BY <1>2 DEF Resolve
  <2>7. phase' \in [Sessions -> Phases] /\ timer' \in [Sessions -> {"off", "waiting"}]
    BY <2>6 DEF TypeOK, Phases
  <2>8. answers' \in [Sessions -> Seq(Senders)]
    BY <2>4, <2>6 DEF TypeOK
  <2> QED
    BY <2>3, <2>5, <2>6, <2>7, <2>8 DEF TypeOK
<1> QED
  BY <1>1, <1>2

\* The handler about to run is for a session unless it is of a receive that
\* did not bring a reply.
LEMMA HeadType ==
  ASSUME TypeOK, queue # << >>
  PROVE  /\ Tail(queue) \in Seq(Handlers)
         /\ Head(queue) \in Handlers
         /\ Head(queue).s \in Senders
         /\ Head(queue).op # "receive" => Head(queue).s \in Sessions
         /\ Head(queue).ec = "ok" => Head(queue).s \in Sessions
  BY HeadTailProperties DEF TypeOK, Handlers, Senders

\* The handler onReceive finds is that of a session.
LEMMA RegisteredType ==
  ASSUME TypeOK, NEW s \in Sessions
  PROVE  requests[sid[s]] \in Senders
  BY DEF TypeOK

-----------------------------------------------------------------------------
(* Type correctness.                                                       *)

THEOREM TypeCorrect == Spec => []TypeOK
<1>1. Init => TypeOK
  BY IdSpaceAssumption, EmptySeq DEF Init, TypeOK, Ids, Senders, Phases
<1>2. TypeOK /\ [Next]_vars => TypeOK'
  <2> SUFFICES ASSUME TypeOK, [Next]_vars
               PROVE  TypeOK'
    OBVIOUS
  <2>1. ASSUME NEW s \in Sessions, SendCommand(s)
        PROVE  TypeOK'
    <3>1. nextId' \in Ids
      BY <2>1, IncrementIdWraps DEF SendCommand, TypeOK
    <3>2. Append(sendq, s) \in Seq(Sessions)
      BY AppendProperties DEF TypeOK
    <3>3. Append(queue, Handler("send", s, "error")) \in Seq(Handlers)
      BY SessionHandlers, AppendProperties DEF TypeOK
    <3>4. timer' \in [Sessions -> {"off", "waiting"}]
      BY <2>1 DEF SendCommand, StartTimer, TypeOK
    <3>5. requests' \in [Ids -> Senders]
      BY <2>1 DEF SendCommand, TypeOK, Senders
    <3>6. phase' \in [Sessions -> Phases]
      BY <2>1 DEF SendCommand, TypeOK, Phases
    <3>7. /\ sid' \in [Sessions -> Ids]
          /\ serial' \in [Sessions -> Nat]
          /\ allocs' \in Nat
      BY <2>1 DEF SendCommand, TypeOK
    <3>8. /\ status' \in {"running", "threw", "crashed"}
          /\ sendq' \in Seq(Sessions)
          /\ queue' \in Seq(Handlers)
      BY <2>1, <3>2, <3>3 DEF SendCommand, TypeOK
    <3> QED
      BY <2>1, <3>1, <3>4, <3>5, <3>6, <3>7, <3>8 DEF SendCommand, TypeOK
  <2>2. ASSUME NEW s \in Sessions, TimerEnds(s)
        PROVE  TypeOK'
    <3>1. queue' \in Seq(Handlers)
      BY <2>2, SessionHandlers, AppendProperties DEF TimerEnds, Enqueue, TypeOK
    <3> QED
      BY <2>2, <3>1 DEF TimerEnds, network, history, TypeOK
  <2>3. ASSUME NEW s \in Senders, NEW ec \in {"ok", "error"}, ReceiveEnds(s, ec)
        PROVE  TypeOK'
    <3>1. Handler("receive", s, ec) \in Handlers
      BY <2>3, SessionHandlers, ReceiveHandlers DEF ReceiveEnds, TypeOK
    <3>2. queue' \in Seq(Handlers)
      BY <2>3, <3>1, AppendProperties DEF ReceiveEnds, Enqueue, TypeOK
    <3> QED
      BY <2>3, <3>2 DEF ReceiveEnds, network, history, TypeOK
  <2>4. CASE Close
    <3>1. open' \in BOOLEAN /\ sendq' \in Seq(Sessions) /\ queue' \in Seq(Handlers)
      BY <2>4, ApplicationType, EmptySeq DEF Close, TypeOK
    <3> QED
      BY <2>4, <3>1 DEF Close, StillReceiving, history, TypeOK
  <2>5. CASE SendEnds
    <3>1. Head(sendq) \in Sessions /\ Tail(sendq) \in Seq(Sessions)
      BY <2>5, HeadTailProperties DEF SendEnds, TypeOK
    <3>2. /\ Handler("send", Head(sendq), "ok") \in Handlers
          /\ Handler("send", Head(sendq), "error") \in Handlers
      BY <3>1, SessionHandlers
    <3>3. queue' \in Seq(Handlers)
      <4>1. ASSUME NEW h \in Handlers, queue' = Append(queue, h)
            PROVE  queue' \in Seq(Handlers)
        BY <4>1, AppendProperties DEF TypeOK
      <4> QED
        BY <2>5, <3>2, <4>1 DEF SendEnds, Enqueue
    <3>4. sent' \subseteq Sessions
      BY <2>5, <3>1 DEF SendEnds, TypeOK
    <3> QED
      BY <2>5, <3>1, <3>3, <3>4 DEF SendEnds, history, TypeOK
  <2>6. CASE OnReceive
    <3>1. queue # << >>
      BY <2>6 DEF OnReceive, Ready
    <3> DEFINE h == Head(queue)
               handler == IF h.ec = "ok" THEN requests[sid[h.s]] ELSE NoSession
    <3>2. handler \in Senders
      BY <3>1, HeadType, RegisteredType DEF Senders
    <3>3. CASE h.ec = "canceled"
      BY <2>6, <3>1, <3>3, HeadType DEF OnReceive, history, TypeOK
    <3>4. CASE h.ec # "canceled" /\ handler = NoSession
      <4>1. Application(Tail(queue), << >>) /\ Receive
        BY <2>6, <3>4 DEF OnReceive
      <4>2. open' \in BOOLEAN /\ sendq' \in Seq(Sessions) /\ queue' \in Seq(Handlers)
        BY <3>1, <4>1, HeadType, ApplicationType, EmptySeq
      <4> QED
        BY <2>6, <3>4, <4>1, <4>2 DEF OnReceive, Receive, StillReceiving, history, TypeOK
    <3>5. CASE h.ec # "canceled" /\ handler # NoSession
      <4>1. Resolve(handler, h.s, Tail(queue)) /\ Receive
        BY <2>6, <3>5 DEF OnReceive
      <4>2. handler \in Sessions /\ h.s \in Senders /\ Tail(queue) \in Seq(Handlers)
        BY <3>1, <3>2, <3>5, HeadType DEF Senders
      <4> HIDE DEF h, handler
      <4>3. /\ status' \in {"running", "threw", "crashed"}
            /\ open' \in BOOLEAN
            /\ sendq' \in Seq(Sessions)
            /\ queue' \in Seq(Handlers)
            /\ requests' \in [Ids -> Senders]
            /\ phase' \in [Sessions -> Phases]
            /\ timer' \in [Sessions -> {"off", "waiting"}]
            /\ answers' \in [Sessions -> Seq(Senders)]
        BY <4>1, <4>2, ResolveType
      <4>4. receiving' \in Nat
        BY <4>1 DEF Receive, StillReceiving, TypeOK
      <4> QED
        BY <2>6, <4>3, <4>4 DEF OnReceive, history, TypeOK
    <3> QED
      BY <3>3, <3>4, <3>5
  <2>7. CASE OnSend
    <3>1. queue # << >> /\ Head(queue).op # "receive"
      BY <2>7 DEF OnSend, Ready
    <3>2. CASE Head(queue).ec = "ok"
      BY <2>7, <3>1, <3>2, HeadType DEF OnSend, StillReceiving, history, TypeOK
    <3>3. CASE Head(queue).ec # "ok"
      <4>1. Resolve(Head(queue).s, NoSession, Tail(queue))
        BY <2>7, <3>3 DEF OnSend
      <4> QED
        BY <2>7, <3>1, <4>1, HeadType, ResolveType
        DEF OnSend, StillReceiving, history, TypeOK, Senders
    <3> QED
      BY <3>2, <3>3
  <2>8. CASE OnTimer
    <3>1. queue # << >> /\ Head(queue).op # "receive"
      BY <2>8 DEF OnTimer, Ready
    <3>2. CASE Head(queue).ec = "canceled"
      BY <2>8, <3>1, <3>2, HeadType DEF OnTimer, StillReceiving, history, TypeOK
    <3>3. CASE Head(queue).ec # "canceled"
      <4>1. Resolve(Head(queue).s, NoSession, Tail(queue))
        BY <2>8, <3>3 DEF OnTimer
      <4> QED
        BY <2>8, <3>1, <4>1, HeadType, ResolveType
        DEF OnTimer, StillReceiving, history, TypeOK, Senders
    <3> QED
      BY <3>2, <3>3
  <2>9. CASE OnReset
    BY <2>9, HeadType DEF OnReset, Ready, network, history, TypeOK, Phases
  <2>10. CASE UNCHANGED vars
    BY <2>10 DEF vars, network, history, TypeOK
  <2> QED
    BY <2>1, <2>2, <2>3, <2>4, <2>5, <2>6, <2>7, <2>8, <2>9, <2>10
    DEF Next, Dispatch, DeadlinePasses
<1> QED
  BY <1>1, <1>2, PTL DEF Spec

-----------------------------------------------------------------------------
(* What a step does to the sessions and to the handlers of their timers and *)
(* resets: one of six things.                                               *)

\* Handlers that a session's life does not depend on.
Plain(e) ==
  \A k \in DOMAIN e : ~(e[k].op = "timer" /\ e[k].ec = "ok") /\ e[k].op # "reset"

\* Nothing happens to a session.
Quiet == UNCHANGED <<requests, phase, timer, answers, nextId, sid, history>>

\* The session s is resolved.
Settles(s, from) ==
  /\ phase[s] = "started"
  /\ phase' = [phase EXCEPT ![s] = "done"]
  /\ requests' = [requests EXCEPT ![sid[s]] = NoSession]
  /\ timer' = [timer EXCEPT ![s] = "off"]
  /\ answers' = [answers EXCEPT ![s] = Append(@, from)]
  /\ UNCHANGED <<nextId, sid, history>>

\* Handlers are queued.
Grows == Quiet /\ \E e \in Seq(Handlers) : Plain(e) /\ queue' = queue \o e

HeadOf(op, s) == Head(queue).op = op /\ Head(queue).s = s

\* A handler runs that resolves nothing.
Idles ==
  /\ Quiet
  /\ queue # << >>
  /\ Head(queue).op # "reset"
  /\ \A s \in Sessions :
       HeadOf("timer", s) /\ Head(queue).ec = "ok" => phase[s] # "started"
  /\ \E e \in Seq(Handlers) : Plain(e) /\ queue' = Tail(queue) \o e

\* A handler runs that resolves s.
Completes(s, from) ==
  /\ Settles(s, from)
  /\ queue # << >>
  /\ Head(queue).op # "reset"
  /\ \A r \in Sessions :
       HeadOf("timer", r) /\ Head(queue).ec = "ok" => phase[r] # "started" \/ r = s
  /\ \E e \in Seq(Handlers) :
       Plain(e) /\ queue' = Tail(queue) \o e \o <<Handler("reset", s, "ok")>>

\* The handlers of a closed socket are plain.
LEMMA AbortedPlain ==
  ASSUME TypeOK
  PROVE  Plain(Aborted)
<1> DEFINE receives == [i \in 1 .. receiving |-> Handler("receive", NoSession, "canceled")]
           sends == [i \in 1 .. Len(sendq) |-> Handler("send", sendq[i], "error")]
<1>1. Len(sendq) \in Nat /\ receiving \in Nat
  BY LenProperties DEF TypeOK
<1>2. Plain(receives) /\ Plain(sends)
  BY <1>1 DEF Plain, Handler
<1>3. receives \in Seq(Handlers) /\ sends \in Seq(Handlers)
  <2>1. \A i \in 1 .. Len(sendq) : Handler("send", sendq[i], "error") \in Handlers
    BY SessionHandlers, ElementOfSeq DEF TypeOK
  <2> QED
    BY <1>1, <2>1, ReceiveHandlers, IsASeq
<1>4. ASSUME NEW a \in Seq(Handlers), NEW b \in Seq(Handlers), Plain(a), Plain(b)
      PROVE  Plain(a \o b)
  BY <1>4, ConcatProperties, LenProperties DEF Plain
<1> QED
  BY <1>2, <1>3, <1>4 DEF Aborted

LEMMA PlainConcat ==
  ASSUME NEW a \in Seq(Handlers), NEW b \in Seq(Handlers), Plain(a), Plain(b)
  PROVE  a \o b \in Seq(Handlers) /\ Plain(a \o b)
  BY ConcatProperties, LenProperties DEF Plain

LEMMA PlainEmpty == << >> \in Seq(Handlers) /\ Plain(<< >>)
  BY EmptySeq DEF Plain

\* One handler that is neither of a deadline nor a reset is plain.
LEMMA PlainSingle ==
  ASSUME NEW h \in Handlers, ~(h.op = "timer" /\ h.ec = "ok"), h.op # "reset"
  PROVE  <<h>> \in Seq(Handlers) /\ Plain(<<h>>)
  BY DEF Plain

\* Application code can only add plain handlers.
LEMMA ApplicationPlain ==
  ASSUME TypeOK,
         NEW before \in Seq(Handlers), NEW after \in Seq(Handlers),
         Application(before, after)
  PROVE  \E e \in Seq(Handlers) : Plain(e) /\ queue' = before \o e \o after
<1>1. CASE queue' = before \o after
  BY <1>1, PlainEmpty, ConcatEmptySeq
<1>2. CASE queue' = before \o Aborted \o after
  BY <1>2, AbortedPlain, AbortedType
<1> QED
  BY <1>1, <1>2 DEF Application

\* A cancelled wait is plain.
LEMMA AbortedWaitPlain ==
  ASSUME NEW s \in Sessions
  PROVE  AbortedWait(s) \in Seq(Handlers) /\ Plain(AbortedWait(s))
<1>1. Handler("timer", s, "canceled") \in Handlers
  BY SessionHandlers
<1> QED
  BY <1>1, PlainSingle, PlainEmpty DEF AbortedWait, Handler

\* Resolving a session that waits completes it; any other is left alone.
LEMMA ResolveCases ==
  ASSUME TypeOK,
         NEW s \in Sessions, NEW from \in Senders, NEW q \in Seq(Handlers),
         Resolve(s, from, q), UNCHANGED <<nextId, sid, history>>
  PROVE  \/ phase[s] # "started" /\ Quiet /\ queue' = q
         \/ /\ Settles(s, from)
            /\ \E e \in Seq(Handlers) :
                 Plain(e) /\ queue' = q \o e \o <<Handler("reset", s, "ok")>>
<1>1. CASE AlreadyDone(s)
  BY <1>1 DEF Resolve, AlreadyDone, Quiet
<1>2. CASE ~AlreadyDone(s)
  <2> DEFINE reset == <<Handler("reset", s, "ok")>>
  <2>1. Settles(s, from)
    BY <1>2 DEF Resolve, AlreadyDone, Unregister, Settles
  <2>2. /\ AbortedWait(s) \in Seq(Handlers) /\ Plain(AbortedWait(s))
        /\ q \o AbortedWait(s) \in Seq(Handlers)
        /\ reset \in Seq(Handlers)
    BY AbortedWaitPlain, SessionHandlers, ConcatProperties
  <2>3. PICK e \in Seq(Handlers) :
          Plain(e) /\ queue' = (q \o AbortedWait(s)) \o e \o reset
    BY <1>2, <2>2, ApplicationPlain DEF Resolve
  <2>4. /\ AbortedWait(s) \o e \in Seq(Handlers)
        /\ Plain(AbortedWait(s) \o e)
        /\ queue' = q \o (AbortedWait(s) \o e) \o reset
    BY <2>2, <2>3, PlainConcat, ConcatAssociative
  <2> QED
    BY <2>1, <2>4
<1> QED
  BY <1>1, <1>2

\* Every step is one of six things.
LEMMA StepCases ==
  ASSUME TypeOK, [Next]_vars
  PROVE  \/ \E s \in Sessions : SendCommand(s)
         \/ \E s \in Sessions : TimerEnds(s)
         \/ Grows
         \/ Idles
         \/ \E s \in Sessions, from \in Senders : Completes(s, from)
         \/ OnReset
<1>1. CASE \E s \in Sessions : SendCommand(s)
  BY <1>1
<1>2. CASE \E s \in Sessions : TimerEnds(s)
  BY <1>2
<1>3. ASSUME NEW s \in Senders, NEW ec \in {"ok", "error"}, ReceiveEnds(s, ec)
      PROVE  Grows
  <2> DEFINE h == Handler("receive", s, ec)
  <2>1. h \in Handlers
    BY <1>3, SessionHandlers, ReceiveHandlers DEF ReceiveEnds, TypeOK
  <2>2. h.op = "receive"
    BY DEF Handler
  <2>3. <<h>> \in Seq(Handlers) /\ Plain(<<h>>)
    BY <2>1, <2>2, PlainSingle
  <2>4. queue' = queue \o <<h>>
    BY <1>3, <2>1, AppendIsConcat DEF ReceiveEnds, Enqueue, TypeOK
  <2>5. Quiet
    BY <1>3 DEF ReceiveEnds, Quiet
  <2> QED
    BY <2>3, <2>4, <2>5 DEF Grows
<1>4. CASE Close
  <2>0. queue \in Seq(Handlers)
    BY DEF TypeOK
  <2>1. \E e \in Seq(Handlers) : Plain(e) /\ queue' = queue \o e \o << >>
    BY <1>4, <2>0, EmptySeq, ApplicationPlain DEF Close
  <2>2. \E e \in Seq(Handlers) : Plain(e) /\ queue' = queue \o e
    BY <2>0, <2>1, ConcatEmptySeq, ConcatProperties
  <2> QED
    BY <1>4, <2>2 DEF Close, Grows, Quiet
<1>5. CASE SendEnds
  <2>1. Head(sendq) \in Sessions
    BY <1>5, HeadTailProperties DEF SendEnds, TypeOK
  <2>2. \A ec \in {"ok", "error"} :
          queue' = Append(queue, Handler("send", Head(sendq), ec)) =>
            \E e \in Seq(Handlers) : Plain(e) /\ queue' = queue \o e
    <3> SUFFICES ASSUME NEW ec \in {"ok", "error"},
                        queue' = Append(queue, Handler("send", Head(sendq), ec))
                 PROVE  \E e \in Seq(Handlers) : Plain(e) /\ queue' = queue \o e
      OBVIOUS
    <3> DEFINE h == Handler("send", Head(sendq), ec)
    <3>1. h \in Handlers
      BY <2>1, SessionHandlers
    <3>2. h.op = "send"
      BY DEF Handler
    <3>3. <<h>> \in Seq(Handlers) /\ Plain(<<h>>)
      BY <3>1, <3>2, PlainSingle
    <3>4. queue' = queue \o <<h>>
      BY <3>1, AppendIsConcat DEF TypeOK
    <3> QED
      BY <3>3, <3>4
  <2>3. \E ec \in {"ok", "error"} :
          queue' = Append(queue, Handler("send", Head(sendq), ec))
    BY <1>5 DEF SendEnds, Enqueue
  <2>4. Quiet
    BY <1>5 DEF SendEnds, Quiet
  <2> QED
    BY <2>2, <2>3, <2>4 DEF Grows
<1>6. CASE OnReceive
  <2> DEFINE h == Head(queue)
             handler == IF h.ec = "ok" THEN requests[sid[h.s]] ELSE NoSession
  <2>1. /\ queue # << >>
        /\ h.op = "receive"
        /\ UNCHANGED <<nextId, sid, history>>
        /\ Tail(queue) \in Seq(Handlers) /\ h.s \in Senders
    BY <1>6, HeadType DEF OnReceive, Ready
  <2>2. handler \in Senders
    BY <2>1, HeadType, RegisteredType DEF Senders
  <2>3. CASE queue' = Tail(queue) /\ Quiet
    BY <2>1, <2>3, PlainEmpty, ConcatEmptySeq DEF Idles, HeadOf
  <2>4. CASE Application(Tail(queue), << >>) /\ Quiet
    <3>1. \E e \in Seq(Handlers) : Plain(e) /\ queue' = Tail(queue) \o e \o << >>
      BY <2>1, <2>4, EmptySeq, ApplicationPlain
    <3>2. \E e \in Seq(Handlers) : Plain(e) /\ queue' = Tail(queue) \o e
      BY <2>1, <3>1, ConcatEmptySeq, ConcatProperties
    <3> QED
      BY <2>1, <2>4, <3>2 DEF Idles, HeadOf
  <2>5. CASE handler # NoSession /\ Resolve(handler, h.s, Tail(queue))
    <3> HIDE DEF handler
    <3>1. handler \in Sessions
      BY <2>2, <2>5 DEF Senders
    <3>2. CASE Quiet /\ queue' = Tail(queue)
      BY <2>3, <3>2
    <3>3. CASE /\ Settles(handler, h.s)
               /\ \E e \in Seq(Handlers) :
                    Plain(e) /\ queue' = Tail(queue) \o e \o <<Handler("reset", handler, "ok")>>
      BY <2>1, <3>1, <3>3 DEF Completes, HeadOf
    <3> QED
      BY <2>1, <2>5, <3>1, <3>2, <3>3, ResolveCases
  <2>6. \/ queue' = Tail(queue) /\ Quiet
        \/ Application(Tail(queue), << >>) /\ Quiet
        \/ handler # NoSession /\ Resolve(handler, h.s, Tail(queue))
    BY <1>6 DEF OnReceive, Quiet
  <2> QED
    BY <2>3, <2>4, <2>5, <2>6
<1>7. CASE OnSend \/ OnTimer
  <2> DEFINE h == Head(queue)
  <2>1. /\ queue # << >>
        /\ h.op \in {"send", "timer"}
        /\ UNCHANGED <<nextId, sid, history>>
        /\ Tail(queue) \in Seq(Handlers) /\ h.s \in Sessions
    BY <1>7, HeadType DEF OnSend, OnTimer, Ready
  <2>2. CASE queue' = Tail(queue) /\ Quiet /\ (h.op = "send" \/ h.ec = "canceled")
    BY <2>1, <2>2, PlainEmpty, ConcatEmptySeq DEF Idles, HeadOf
  <2>3. CASE Resolve(h.s, NoSession, Tail(queue))
    <3>1. CASE phase[h.s] # "started" /\ Quiet /\ queue' = Tail(queue)
      BY <2>1, <3>1, PlainEmpty, ConcatEmptySeq DEF Idles, HeadOf
    <3>2. CASE /\ Settles(h.s, NoSession)
               /\ \E e \in Seq(Handlers) :
                    Plain(e) /\ queue' = Tail(queue) \o e \o <<Handler("reset", h.s, "ok")>>
      BY <2>1, <3>2 DEF Completes, HeadOf, Senders
    <3> QED
      BY <2>1, <2>3, <3>1, <3>2, ResolveCases DEF Senders
  <2>4. \/ queue' = Tail(queue) /\ Quiet /\ (h.op = "send" \/ h.ec = "canceled")
        \/ Resolve(h.s, NoSession, Tail(queue))
    BY <1>7 DEF OnSend, OnTimer, Ready, Quiet
  <2> QED
    BY <2>2, <2>3, <2>4
<1>8. CASE OnReset
  BY <1>8
<1>9. CASE UNCHANGED vars
  BY <1>9, PlainEmpty, ConcatEmptySeq DEF vars, history, Grows, Quiet, TypeOK
<1> QED
  BY <1>1, <1>2, <1>3, <1>4, <1>5, <1>6, <1>7, <1>8, <1>9
  DEF Next, Dispatch, DeadlinePasses

-----------------------------------------------------------------------------
(* The order of a session's handlers.                                      *)

Life(s) == DeadlineArmed(s) /\ DeadlineBeforeReset(s) /\ ResetOnce(s)

\* ResetIsLast without its condition: the model keeps it when it has stopped.
Lives == \A s \in Sessions : Life(s)

\* The d oldest handlers leave the queue and those of e come in at the back.
Shifts(d, e) ==
  /\ Len(queue') = Len(queue) - d + Len(e)
  /\ DOMAIN queue' = 1 .. Len(queue')
  /\ \A k \in 1 .. Len(queue) - d : queue'[k] = queue[k + d]
  /\ \A k \in 1 .. Len(e) : queue'[Len(queue) - d + k] = e[k]

\* What is queued after the whole queue, or after its tail, shifts it.
LEMMA ShiftsByConcat ==
  ASSUME TypeOK, NEW e \in Seq(Handlers)
  PROVE  /\ queue' = queue \o e => Shifts(0, e)
         /\ queue # << >> /\ queue' = Tail(queue) \o e => Shifts(1, e)
<1>1. queue \in Seq(Handlers)
  BY DEF TypeOK
<1>2. ASSUME queue' = queue \o e
      PROVE  Shifts(0, e)
  <2>1. /\ queue' \in Seq(Handlers)
        /\ Len(queue') = Len(queue) + Len(e)
        /\ \A k \in 1 .. Len(queue) + Len(e) :
             queue'[k] = IF k <= Len(queue) THEN queue[k] ELSE e[k - Len(queue)]
    BY <1>1, <1>2, ConcatProperties
  <2>2. Len(queue) \in Nat /\ Len(e) \in Nat /\ DOMAIN queue' = 1 .. Len(queue')
    BY <1>1, <2>1, LenProperties
  <2> QED
    BY <2>1, <2>2 DEF Shifts
<1>3. ASSUME queue # << >>, queue' = Tail(queue) \o e
      PROVE  Shifts(1, e)
  <2>1. /\ Tail(queue) \in Seq(Handlers)
        /\ Len(Tail(queue)) = Len(queue) - 1
        /\ \A k \in 1 .. Len(Tail(queue)) : Tail(queue)[k] = queue[k + 1]
    BY <1>1, <1>3, HeadTailProperties
  <2>2. /\ queue' \in Seq(Handlers)
        /\ Len(queue') = Len(Tail(queue)) + Len(e)
        /\ \A k \in 1 .. Len(Tail(queue)) + Len(e) :
             queue'[k] = IF k <= Len(Tail(queue)) THEN Tail(queue)[k]
                         ELSE e[k - Len(Tail(queue))]
    BY <1>3, <2>1, ConcatProperties
  <2>3. Len(queue) \in Nat /\ Len(e) \in Nat /\ DOMAIN queue' = 1 .. Len(queue')
    BY <1>1, <2>2, LenProperties
  <2>4. \A k \in 1 .. Len(queue) - 1 : queue'[k] = queue[k + 1]
    BY <2>1, <2>2, <2>3
  <2>5. \A k \in 1 .. Len(e) : queue'[Len(queue) - 1 + k] = e[k]
    <3> SUFFICES ASSUME NEW k \in 1 .. Len(e)
                 PROVE  queue'[Len(Tail(queue)) + k] = e[k]
      BY <2>1
    <3>1. Len(Tail(queue)) \in Nat /\ k \in Nat \ {0} /\ k <= Len(e)
      BY <2>1, <2>3, LenProperties
    <3>2. /\ Len(Tail(queue)) + k \in 1 .. Len(Tail(queue)) + Len(e)
          /\ ~ Len(Tail(queue)) + k <= Len(Tail(queue))
          /\ Len(Tail(queue)) + k - Len(Tail(queue)) = k
      BY <3>1, <2>3
    <3> QED
      BY <2>2, <3>2
  <2> QED
    BY <2>1, <2>2, <2>3, <2>4, <2>5 DEF Shifts
<1> QED
  BY <1>2, <1>3

\* Handlers that the life of s does not depend on.
PlainFor(e, s) ==
  \A k \in 1 .. Len(e) :
    e[k] # Handler("timer", s, "ok") /\ e[k] # Handler("reset", s, "ok")

\* A session that a step does not touch keeps the order of its handlers.
LEMMA LifeGoesOn ==
  ASSUME TypeOK, NEW s \in Sessions, Life(s),
         NEW d \in {0, 1}, d <= Len(queue), NEW e \in Seq(Handlers),
         Shifts(d, e), PlainFor(e, s),
         d = 1 => /\ Head(queue) # Handler("reset", s, "ok")
                  /\ Head(queue) = Handler("timer", s, "ok") => phase[s] # "started",
         phase'[s] = phase[s], timer'[s] = timer[s]
  PROVE  Life(s)'
<1>1. /\ queue \in Seq(Handlers)
      /\ Len(queue) \in Nat /\ Len(e) \in Nat
      /\ DOMAIN queue = 1 .. Len(queue)
  BY LenProperties DEF TypeOK
<1>2. \A k \in DOMAIN queue : k > d => k - d \in DOMAIN queue' /\ queue'[k - d] = queue[k]
  BY <1>1 DEF Shifts
<1>3. \A k \in DOMAIN queue' :
        \/ k + d \in DOMAIN queue /\ queue'[k] = queue[k + d]
        \/ /\ queue'[k] # Handler("timer", s, "ok")
           /\ queue'[k] # Handler("reset", s, "ok")
  <2> SUFFICES ASSUME NEW k \in DOMAIN queue'
               PROVE  \/ k + d \in DOMAIN queue /\ queue'[k] = queue[k + d]
                      \/ /\ queue'[k] # Handler("timer", s, "ok")
                         /\ queue'[k] # Handler("reset", s, "ok")
    OBVIOUS
  <2>1. k \in 1 .. Len(queue) - d + Len(e) /\ Len(queue) - d \in Nat
    BY <1>1 DEF Shifts
  <2>2. CASE k <= Len(queue) - d
    <3>1. k \in 1 .. Len(queue) - d /\ k + d \in 1 .. Len(queue)
      BY <1>1, <2>1, <2>2
    <3> QED
      BY <1>1, <3>1 DEF Shifts
  <2>3. CASE k > Len(queue) - d
    <3>1. k - (Len(queue) - d) \in 1 .. Len(e)
      BY <1>1, <2>1, <2>3
    <3>2. queue'[k] = e[k - (Len(queue) - d)]
      BY <1>1, <2>1, <3>1 DEF Shifts
    <3> QED
      BY <3>1, <3>2 DEF PlainFor
  <2> QED
    BY <2>1, <2>2, <2>3
<1>4. d = 1 => 1 \in DOMAIN queue /\ Head(queue) = queue[1]
  BY <1>1
<1>5. \A k \in DOMAIN queue : k > d \/ (d = 1 /\ k = 1)
  BY <1>1
<1>6. DeadlineArmed(s)'
  BY <1>1, <1>2, <1>4, <1>5 DEF Life, DeadlineArmed, IsHandler
<1>7. DeadlineBeforeReset(s)'
  <2> SUFFICES ASSUME NEW k \in DOMAIN queue', queue'[k] = Handler("timer", s, "ok"),
                      phase'[s] # "started"
               PROVE  \E j \in DOMAIN queue' : j > k /\ queue'[j] = Handler("reset", s, "ok")
    BY DEF DeadlineBeforeReset, IsHandler
  <2>1. k + d \in DOMAIN queue /\ queue[k + d] = Handler("timer", s, "ok")
    BY <1>3
  <2>2. PICK j \in DOMAIN queue : j > k + d /\ queue[j] = Handler("reset", s, "ok")
    BY <2>1 DEF Life, DeadlineBeforeReset, IsHandler
  <2>3. j - d \in DOMAIN queue' /\ queue'[j - d] = queue[j] /\ j - d > k
    BY <1>1, <1>2, <2>1, <2>2 DEF Shifts
  <2> QED
    BY <2>2, <2>3
<1>8. ResetOnce(s)'
  <2>1. phase'[s] = "done" => \E k \in DOMAIN queue' : queue'[k] = Handler("reset", s, "ok")
    <3> SUFFICES ASSUME phase[s] = "done"
                 PROVE  \E k \in DOMAIN queue' : queue'[k] = Handler("reset", s, "ok")
      OBVIOUS
    <3>1. PICK k \in DOMAIN queue : queue[k] = Handler("reset", s, "ok")
      BY DEF Life, ResetOnce, IsHandler
    <3>2. k > d
      BY <1>4, <1>5, <3>1
    <3> QED
      BY <1>2, <3>1, <3>2
  <2>2. ASSUME NEW k \in DOMAIN queue', queue'[k] = Handler("reset", s, "ok"),
               NEW j \in DOMAIN queue', queue'[j] = Handler("reset", s, "ok")
        PROVE  phase'[s] = "done" /\ j = k
    <3>1. /\ k + d \in DOMAIN queue /\ queue[k + d] = Handler("reset", s, "ok")
          /\ j + d \in DOMAIN queue /\ queue[j + d] = Handler("reset", s, "ok")
      BY <1>3, <2>2
    <3>2. phase[s] = "done" /\ j + d = k + d
      BY <3>1 DEF Life, ResetOnce, IsHandler
    <3> QED
      BY <1>1, <3>2 DEF Shifts
  <2> QED
    BY <2>1, <2>2 DEF ResetOnce, IsHandler
<1> QED
  BY <1>6, <1>7, <1>8 DEF Life

\* Plain handlers are plain for every session.
LEMMA PlainForAll ==
  ASSUME NEW e \in Seq(Handlers), Plain(e), NEW s \in Sessions
  PROVE  PlainFor(e, s)
  BY LenProperties DEF Plain, PlainFor, Handler

\* A reset that is queued after plain handlers concerns only its session.
LEMMA PlainForOthers ==
  ASSUME NEW e \in Seq(Handlers), Plain(e),
         NEW s \in Sessions, NEW h \in Handlers, h.s # s
  PROVE  /\ e \o <<h>> \in Seq(Handlers)
         /\ PlainFor(e \o <<h>>, s)
<1>1. <<h>> \in Seq(Handlers) /\ Len(<<h>>) = 1
  OBVIOUS
<1>2. /\ e \o <<h>> \in Seq(Handlers)
      /\ Len(e \o <<h>>) = Len(e) + 1
      /\ \A k \in 1 .. Len(e) + 1 :
           (e \o <<h>>)[k] = IF k <= Len(e) THEN e[k] ELSE <<h>>[k - Len(e)]
  BY <1>1, ConcatProperties
<1>3. Len(e) \in Nat
  BY LenProperties
<1>4. \A k \in 1 .. Len(e) + 1 : (e \o <<h>>)[k] = IF k <= Len(e) THEN e[k] ELSE h
  BY <1>2, <1>3
<1>5. PlainFor(e, s)
  BY PlainForAll
<1> QED
  BY <1>2, <1>3, <1>4, <1>5 DEF PlainFor, Handler

\* Resolving a session queues its reset behind whatever its deadline queued.
LEMMA LifeOfResolved ==
  ASSUME TypeOK, NEW s \in Sessions, Life(s), NEW from \in Senders, Completes(s, from)
  PROVE  Life(s)'
<1> DEFINE reset == Handler("reset", s, "ok")
<1>1. PICK e \in Seq(Handlers) : Plain(e) /\ queue' = Tail(queue) \o e \o <<reset>>
  BY DEF Completes
<1>2. /\ queue # << >>
      /\ phase[s] = "started" /\ phase'[s] = "done" /\ timer'[s] = "off"
  BY DEF Completes, Settles, TypeOK
<1>3. /\ reset \in Handlers
      /\ <<reset>> \in Seq(Handlers)
      /\ Tail(queue) \in Seq(Handlers)
  BY <1>2, SessionHandlers, HeadType
<1>4. /\ e \o <<reset>> \in Seq(Handlers)
      /\ Len(e \o <<reset>>) = Len(e) + 1
      /\ \A k \in 1 .. Len(e) + 1 :
           (e \o <<reset>>)[k] = IF k <= Len(e) THEN e[k] ELSE <<reset>>[k - Len(e)]
  BY <1>3, ConcatProperties
<1>5. queue' = Tail(queue) \o (e \o <<reset>>)
  BY <1>1, <1>3, ConcatAssociative
<1>6. Shifts(1, e \o <<reset>>)
  BY <1>2, <1>4, <1>5, ShiftsByConcat
<1>7. Len(e) \in Nat /\ Len(queue) \in Nat \ {0} /\ DOMAIN queue = 1 .. Len(queue)
  BY <1>2, LenProperties, EmptySeq DEF TypeOK
<1> DEFINE n == Len(queue')
<1>8. n = Len(queue) + Len(e) /\ DOMAIN queue' = 1 .. n
  BY <1>4, <1>6, <1>7 DEF Shifts
<1>9. n \in DOMAIN queue' /\ queue'[n] = reset
  <2>1. Len(e) + 1 \in 1 .. Len(e \o <<reset>>) /\ n = Len(queue) - 1 + (Len(e) + 1)
    BY <1>4, <1>7, <1>8
  <2>2. queue'[n] = (e \o <<reset>>)[Len(e) + 1]
    BY <1>6, <2>1 DEF Shifts
  <2>3. (e \o <<reset>>)[Len(e) + 1] = reset
    BY <1>4, <1>7
  <2> QED
    BY <1>7, <1>8, <2>2, <2>3
<1>10. \A k \in DOMAIN queue' : queue'[k] = reset => k = n
  <2> SUFFICES ASSUME NEW k \in DOMAIN queue', k # n
               PROVE  queue'[k] # reset
    OBVIOUS
  <2>1. k \in 1 .. Len(queue) + Len(e) - 1
    BY <1>7, <1>8
  <2>2. CASE k <= Len(queue) - 1
    <3>1. k \in 1 .. Len(queue) - 1 /\ k + 1 \in DOMAIN queue
      BY <1>7, <2>1, <2>2
    <3>2. queue'[k] = queue[k + 1]
      BY <1>6, <3>1 DEF Shifts
    <3> QED
      BY <1>2, <3>1, <3>2 DEF Life, ResetOnce, IsHandler
  <2>3. CASE k > Len(queue) - 1
    <3> DEFINE j == k - (Len(queue) - 1)
    <3>1. j \in 1 .. Len(e) /\ k = Len(queue) - 1 + j
      BY <1>7, <2>1, <2>3
    <3>2. queue'[k] = (e \o <<reset>>)[j]
      <4>1. j \in 1 .. Len(e \o <<reset>>)
        BY <1>4, <1>7, <3>1
      <4> HIDE DEF j
      <4> QED
        BY <1>6, <3>1, <4>1 DEF Shifts
    <3>3. (e \o <<reset>>)[j] = e[j]
      BY <1>4, <1>7, <3>1
    <3> QED
      BY <1>1, <1>7, <3>1, <3>2, <3>3, LenProperties DEF Plain, Handler
  <2> QED
    BY <1>7, <2>1, <2>2, <2>3
<1> HIDE DEF n
<1>11. DeadlineArmed(s)'
  BY <1>2 DEF DeadlineArmed
<1>12. DeadlineBeforeReset(s)'
  <2> SUFFICES ASSUME NEW k \in DOMAIN queue', queue'[k] = Handler("timer", s, "ok")
               PROVE  n > k
    BY <1>9 DEF DeadlineBeforeReset, IsHandler
  <2>1. k # n
    BY <1>9 DEF Handler
  <2> QED
    BY <1>7, <1>8, <2>1
<1>13. ResetOnce(s)'
  BY <1>2, <1>9, <1>10 DEF ResetOnce, IsHandler
<1> QED
  BY <1>11, <1>12, <1>13 DEF Life

\* What an appended handler does to the queue.
LEMMA ShiftsByAppend ==
  ASSUME TypeOK, NEW h \in Handlers, queue' = Append(queue, h)
  PROVE  /\ <<h>> \in Seq(Handlers)
         /\ Shifts(0, <<h>>)
         /\ Len(queue) + 1 \in DOMAIN queue' /\ queue'[Len(queue) + 1] = h
<1>1. queue \in Seq(Handlers) /\ <<h>> \in Seq(Handlers)
  BY DEF TypeOK
<1>2. queue' = queue \o <<h>>
  BY <1>1, AppendIsConcat
<1>3. Shifts(0, <<h>>)
  BY <1>1, <1>2, ShiftsByConcat
<1>4. queue' \in Seq(Handlers) /\ Len(queue') = Len(queue) + 1 /\ queue'[Len(queue) + 1] = h
  BY <1>1, AppendProperties
<1>5. Len(queue) \in Nat /\ DOMAIN queue' = 1 .. Len(queue')
  BY <1>1, <1>4, LenProperties
<1> QED
  BY <1>1, <1>3, <1>4, <1>5

\* One handler is plain for a session it has nothing to do with.
LEMMA PlainForOne ==
  ASSUME NEW s \in Sessions, NEW h \in Handlers,
         h # Handler("timer", s, "ok"), h # Handler("reset", s, "ok")
  PROVE  PlainFor(<<h>>, s)
  BY DEF PlainFor

LEMMA LifeAfterSend ==
  ASSUME TypeOK, Lives, NEW r \in Sessions, SendCommand(r), NEW s \in Sessions
  PROVE  Life(s)'
<1>1. Life(s) /\ Life(r)
  BY DEF Lives, Life
<1> DEFINE h == Handler("send", r, "error")
<1>2. h \in Handlers /\ PlainFor(<<h>>, s)
  BY SessionHandlers, PlainForOne DEF Handler
<1>3. Len(queue) \in Nat /\ queue \in Seq(Handlers)
  BY LenProperties DEF TypeOK
<1>4. \E e \in Seq(Handlers) : PlainFor(e, s) /\ Shifts(0, e)
  <2>1. CASE queue' = Append(queue, h)
    BY <1>2, <2>1, ShiftsByAppend
  <2>2. CASE queue' = queue
    <3>1. << >> \in Seq(Handlers) /\ queue' = queue \o << >> /\ PlainFor(<< >>, s)
      BY <1>3, <2>2, EmptySeq, ConcatEmptySeq DEF PlainFor
    <3> QED
      BY <3>1, ShiftsByConcat
  <2> QED
    BY <2>1, <2>2 DEF SendCommand
<1>5. CASE s # r
  <2>1. phase'[s] = phase[s] /\ timer'[s] = timer[s]
    BY <1>5 DEF SendCommand, StartTimer, TypeOK
  <2> QED
    BY <1>1, <1>3, <1>4, <2>1, LifeGoesOn
<1>6. CASE s = r
  <2>1. /\ phase[s] = "idle"
        /\ \/ phase'[s] = "leaked" /\ timer'[s] = timer[s]
           \/ phase'[s] = "started" /\ timer'[s] = "waiting"
    BY <1>6 DEF SendCommand, StartTimer, TypeOK
  <2>2. \A k \in DOMAIN queue : /\ queue[k] # Handler("timer", s, "ok")
                                /\ queue[k] # Handler("reset", s, "ok")
    BY <1>1, <2>1 DEF Life, DeadlineBeforeReset, ResetOnce, IsHandler
  <2>3. \A k \in DOMAIN queue' : /\ queue'[k] # Handler("timer", s, "ok")
                                 /\ queue'[k] # Handler("reset", s, "ok")
    <3>1. PICK e \in Seq(Handlers) : PlainFor(e, s) /\ Shifts(0, e)
      BY <1>4
    <3>2. /\ DOMAIN queue = 1 .. Len(queue) /\ Len(e) \in Nat
          /\ DOMAIN queue' = 1 .. Len(queue) + Len(e)
      BY <1>3, <3>1, LenProperties DEF Shifts
    <3> SUFFICES ASSUME NEW k \in DOMAIN queue'
                 PROVE  /\ queue'[k] # Handler("timer", s, "ok")
                        /\ queue'[k] # Handler("reset", s, "ok")
      OBVIOUS
    <3>3. CASE k <= Len(queue)
      BY <1>3, <2>2, <3>1, <3>2, <3>3 DEF Shifts
    <3>4. CASE k > Len(queue)
      <4>1. k - Len(queue) \in 1 .. Len(e)
        BY <1>3, <3>2, <3>4
      <4>2. queue'[k] = e[k - Len(queue)]
        BY <1>3, <3>1, <3>2, <4>1 DEF Shifts
      <4> QED
        BY <3>1, <4>1, <4>2 DEF PlainFor
    <3> QED
      BY <1>3, <3>2, <3>3, <3>4
  <2> QED
    BY <1>1, <2>1, <2>3 DEF Life, DeadlineArmed, DeadlineBeforeReset, ResetOnce, IsHandler
<1> QED
  BY <1>5, <1>6

LEMMA LifeAfterDeadline ==
  ASSUME TypeOK, Lives, NEW r \in Sessions, TimerEnds(r), NEW s \in Sessions
  PROVE  Life(s)'
<1>1. Life(s) /\ Life(r)
  BY DEF Lives, Life
<1> DEFINE h == Handler("timer", r, "ok")
<1>2. h \in Handlers /\ queue' = Append(queue, h)
  BY SessionHandlers DEF TimerEnds, Enqueue
<1>3. /\ <<h>> \in Seq(Handlers) /\ Shifts(0, <<h>>)
      /\ Len(queue) + 1 \in DOMAIN queue' /\ queue'[Len(queue) + 1] = h
  BY <1>2, ShiftsByAppend
<1>4. Len(queue) \in Nat /\ queue \in Seq(Handlers) /\ DOMAIN queue = 1 .. Len(queue)
  BY LenProperties DEF TypeOK
<1>5. CASE s # r
  <2>1. phase'[s] = phase[s] /\ timer'[s] = timer[s]
    BY <1>5 DEF TimerEnds, TypeOK
  <2>2. PlainFor(<<h>>, s)
    BY <1>2, <1>5, PlainForOne DEF Handler
  <2>3. \E e \in Seq(Handlers) : PlainFor(e, s) /\ Shifts(0, e)
    BY <1>3, <2>2
  <2> QED
    BY <1>1, <1>4, <2>1, <2>3, LifeGoesOn
<1>6. CASE s = r
  <2>1. phase[s] = "started" /\ phase'[s] = "started" /\ timer'[s] = "off"
    BY <1>1, <1>6 DEF TimerEnds, Life, DeadlineArmed, TypeOK
  <2>2. \A k \in DOMAIN queue' : queue'[k] # Handler("reset", s, "ok")
    <3>1. \A k \in DOMAIN queue : queue[k] # Handler("reset", s, "ok")
      BY <1>1, <2>1 DEF Life, ResetOnce, IsHandler
    <3>2. \A k \in 1 .. Len(queue) : queue'[k] = queue[k]
      BY <1>2, <1>4, AppendProperties
    <3>3. DOMAIN queue' = 1 .. Len(queue) + 1
      BY <1>2, <1>4, AppendProperties, LenProperties
    <3>4. h # Handler("reset", s, "ok")
      BY DEF Handler
    <3> QED
      BY <1>3, <1>4, <3>1, <3>2, <3>3, <3>4
  <2> QED
    BY <1>3, <1>6, <2>1, <2>2
    DEF Life, DeadlineArmed, DeadlineBeforeReset, ResetOnce, IsHandler
<1> QED
  BY <1>5, <1>6

LEMMA LifeAfterReset ==
  ASSUME TypeOK, Lives, OnReset, NEW s \in Sessions
  PROVE  Life(s)'
<1> DEFINE h == Head(queue)
           r == Head(queue).s
<1>1. /\ queue # << >> /\ h.op = "reset" /\ r \in Sessions
      /\ phase' = [phase EXCEPT ![r] = "freed"]
      /\ timer' = timer
      /\ queue' = Tail(queue)
  BY HeadType DEF OnReset, Ready
<1>2. Life(s)
  BY DEF Lives, Life
<1>3. /\ queue \in Seq(Handlers) /\ Tail(queue) \in Seq(Handlers)
      /\ Len(queue) \in Nat \ {0} /\ DOMAIN queue = 1 .. Len(queue)
      /\ h = queue[1]
  BY <1>1, HeadType, LenProperties, EmptySeq DEF TypeOK
<1>4. /\ DOMAIN queue' = 1 .. Len(queue) - 1
      /\ \A k \in 1 .. Len(queue) - 1 : queue'[k] = queue[k + 1]
  BY <1>1, <1>3, HeadTailProperties, LenProperties
<1>5. CASE s # r
  <2>1. \E e \in Seq(Handlers) : PlainFor(e, s) /\ Shifts(1, e)
    <3>1. << >> \in Seq(Handlers) /\ queue' = Tail(queue) \o << >> /\ PlainFor(<< >>, s)
      BY <1>1, <1>3, EmptySeq, ConcatEmptySeq DEF PlainFor
    <3> QED
      BY <1>1, <3>1, ShiftsByConcat
  <2>2. phase'[s] = phase[s] /\ timer'[s] = timer[s]
    BY <1>1, <1>5 DEF TypeOK
  <2>3. h # Handler("reset", s, "ok") /\ h # Handler("timer", s, "ok")
    BY <1>1, <1>5 DEF Handler
  <2> QED
    BY <1>2, <1>3, <2>1, <2>2, <2>3, LifeGoesOn
<1>6. CASE s = r
  <2>1. h = Handler("reset", s, "ok")
    BY <1>1, <1>6, HeadType DEF Handler, Handlers
  <2>2. phase[s] = "done"
    BY <1>2, <1>3, <2>1 DEF Life, ResetOnce, IsHandler
  <2>3. phase'[s] = "freed" /\ timer'[s] = "off"
    BY <1>1, <1>2, <1>6, <2>2 DEF Life, DeadlineArmed, TypeOK
  <2>4. \A k \in DOMAIN queue : queue[k] = Handler("reset", s, "ok") => k = 1
    BY <1>2, <1>3, <2>1 DEF Life, ResetOnce, IsHandler
  <2>5. \A k \in DOMAIN queue : queue[k] # Handler("timer", s, "ok")
    BY <1>2, <1>3, <2>2, <2>4 DEF Life, DeadlineBeforeReset, IsHandler
  <2>6. \A k \in DOMAIN queue' : /\ queue'[k] # Handler("timer", s, "ok")
                                 /\ queue'[k] # Handler("reset", s, "ok")
    BY <1>3, <1>4, <2>4, <2>5
  <2> QED
    BY <2>3, <2>6 DEF Life, DeadlineArmed, DeadlineBeforeReset, ResetOnce, IsHandler
<1> QED
  BY <1>5, <1>6

\* A step that neither starts, resolves nor destroys a session.
LEMMA LifeAfterOther ==
  ASSUME TypeOK, NEW s \in Sessions, Life(s), Grows \/ Idles
  PROVE  Life(s)'
<1>1. phase'[s] = phase[s] /\ timer'[s] = timer[s]
  BY DEF Grows, Idles, Quiet
<1>2. Len(queue) \in Nat /\ (queue # << >> => Len(queue) \in Nat \ {0})
  BY EmptySeq, LenProperties DEF TypeOK
<1>3. CASE Grows
  <2>1. PICK e \in Seq(Handlers) : Plain(e) /\ queue' = queue \o e
    BY <1>3 DEF Grows
  <2>2. PlainFor(e, s) /\ Shifts(0, e)
    BY <2>1, PlainForAll, ShiftsByConcat
  <2> QED
    BY <1>1, <1>2, <2>2, LifeGoesOn
<1>4. CASE Idles
  <2>1. PICK e \in Seq(Handlers) : Plain(e) /\ queue' = Tail(queue) \o e
    BY <1>4 DEF Idles
  <2>2. PlainFor(e, s) /\ Shifts(1, e)
    BY <1>4, <2>1, PlainForAll, ShiftsByConcat DEF Idles
  <2>3. /\ Head(queue) # Handler("reset", s, "ok")
        /\ Head(queue) = Handler("timer", s, "ok") => phase[s] # "started"
    BY <1>4 DEF Idles, HeadOf, Handler
  <2> QED
    BY <1>1, <1>2, <1>4, <2>2, <2>3, LifeGoesOn DEF Idles
<1> QED
  BY <1>3, <1>4

\* Resolving a session leaves the others alone.
LEMMA LifeOfOthers ==
  ASSUME TypeOK, NEW s \in Sessions, Life(s),
         NEW r \in Sessions, r # s, NEW from \in Senders, Completes(r, from)
  PROVE  Life(s)'
<1> DEFINE reset == Handler("reset", r, "ok")
<1>1. PICK e \in Seq(Handlers) : Plain(e) /\ queue' = Tail(queue) \o e \o <<reset>>
  BY DEF Completes
<1>2. /\ queue # << >>
      /\ phase'[s] = phase[s] /\ timer'[s] = timer[s]
      /\ Head(queue) # Handler("reset", s, "ok")
      /\ Head(queue) = Handler("timer", s, "ok") => phase[s] # "started"
  BY DEF Completes, Settles, TypeOK, HeadOf, Handler
<1>3. Len(queue) \in Nat \ {0}
  BY <1>2, EmptySeq DEF TypeOK
<1>4. reset \in Handlers /\ reset.s # s
  BY SessionHandlers DEF Handler
<1>5. e \o <<reset>> \in Seq(Handlers) /\ PlainFor(e \o <<reset>>, s)
  BY <1>1, <1>4, PlainForOthers
<1>6. queue' = Tail(queue) \o (e \o <<reset>>)
  BY <1>1, <1>2, <1>4, HeadType, ConcatAssociative
<1>7. Shifts(1, e \o <<reset>>)
  BY <1>2, <1>5, <1>6, ShiftsByConcat
<1>8. \E x \in Seq(Handlers) : PlainFor(x, s) /\ Shifts(1, x)
  BY <1>5, <1>7
<1> QED
  BY <1>2, <1>3, <1>8, LifeGoesOn

LEMMA LivesInvariant == Spec => []Lives
<1>1. Init => Lives
  <2> SUFFICES ASSUME Init, NEW s \in Sessions
               PROVE  DeadlineArmed(s) /\ DeadlineBeforeReset(s) /\ ResetOnce(s)
    BY DEF Lives, Life
  <2>1. phase[s] = "idle" /\ timer[s] = "off" /\ queue = << >>
    BY DEF Init
  <2>2. DOMAIN queue = {}
    BY <2>1
  <2> QED
    BY <2>1, <2>2 DEF DeadlineArmed, DeadlineBeforeReset, ResetOnce
<1>2. TypeOK /\ Lives /\ [Next]_vars => Lives'
  <2> SUFFICES ASSUME TypeOK, Lives, [Next]_vars, NEW s \in Sessions
               PROVE  Life(s)'
    BY DEF Lives, Life
  <2>1. Life(s)
    BY DEF Lives, Life
  <2>2. CASE \E r \in Sessions : SendCommand(r)
    BY <2>2, LifeAfterSend
  <2>3. CASE \E r \in Sessions : TimerEnds(r)
    BY <2>3, LifeAfterDeadline
  <2>4. CASE Grows \/ Idles
    BY <2>1, <2>4, LifeAfterOther
  <2>5. ASSUME NEW r \in Sessions, NEW from \in Senders, Completes(r, from)
        PROVE  Life(s)'
    BY <2>1, <2>5, LifeOfResolved, LifeOfOthers
  <2>6. CASE OnReset
    BY <2>6, LifeAfterReset
  <2> QED
    BY <2>2, <2>3, <2>4, <2>5, <2>6, StepCases
<1> QED
  BY <1>1, <1>2, TypeCorrect, PTL DEF Spec

\* While the program runs a deadline's handler always finds its session alive,
\* and a session is destroyed once, after the last of its timer's handlers.
THEOREM SessionOutlivesDeadline == Spec => []ResetIsLast
<1>1. Lives => ResetIsLast
  BY DEF Lives, Life, ResetIsLast
<1> QED
  BY <1>1, LivesInvariant, PTL

-----------------------------------------------------------------------------
(* The table of handlers and the application's callbacks.                  *)

\* A reset runs only for a session that is done.
LEMMA ResetOfDone ==
  ASSUME TypeOK, Lives, OnReset
  PROVE  /\ Head(queue).s \in Sessions
         /\ phase[Head(queue).s] = "done"
         /\ phase' = [phase EXCEPT ![Head(queue).s] = "freed"]
         /\ UNCHANGED <<requests, timer, answers, nextId, sid, history>>
<1>1. /\ queue # << >> /\ Head(queue).op = "reset" /\ Head(queue).s \in Sessions
      /\ Head(queue) \in Handlers
  BY HeadType DEF OnReset, Ready
<1>2. Head(queue) = Handler("reset", Head(queue).s, "ok")
  BY <1>1 DEF Handler, Handlers
<1>3. 1 \in DOMAIN queue /\ Head(queue) = queue[1]
  <2>1. queue \in Seq(Handlers) /\ Len(queue) \in Nat \ {0} /\ DOMAIN queue = 1 .. Len(queue)
    BY <1>1, EmptySeq, LenProperties DEF TypeOK
  <2> QED
    BY <2>1
<1>4. phase[Head(queue).s] = "done"
  BY <1>1, <1>2, <1>3 DEF Lives, Life, ResetOnce, IsHandler
<1> QED
  BY <1>1, <1>4 DEF OnReset

\* onReceive never calls into a session that is not waiting for an answer, and
\* no id stays taken.
THEOREM TableIsExact == Spec => []HandlerTable
<1>1. Init => HandlerTable
  BY NoSessionAssumption DEF Init, HandlerTable
<1>2. TypeOK /\ Lives /\ HandlerTable /\ [Next]_vars => HandlerTable'
  <2> SUFFICES ASSUME TypeOK, Lives, HandlerTable, [Next]_vars
               PROVE  HandlerTable'
    OBVIOUS
  <2>1. ASSUME NEW r \in Sessions, SendCommand(r)
        PROVE  HandlerTable'
    <3> SUFFICES ASSUME NEW i \in Ids, NEW s \in Sessions
                 PROVE  requests'[i] = s <=> phase'[s] = "started" /\ sid'[s] = i
      BY DEF HandlerTable
    <3>1. /\ requests[i] = s <=> phase[s] = "started" /\ sid[s] = i
          /\ requests[i] # r
          /\ phase[r] = "idle"
      BY <2>1 DEF HandlerTable, SendCommand
    <3>2. CASE IdTaken(nextId)
      BY <2>1, <3>1, <3>2 DEF SendCommand, TypeOK
    <3>3. CASE ~IdTaken(nextId)
      BY <2>1, <3>1, <3>3, NoSessionAssumption DEF SendCommand, IdTaken, TypeOK
    <3> QED
      BY <3>2, <3>3
  <2>2. CASE \E r \in Sessions : TimerEnds(r)
    BY <2>2 DEF TimerEnds, HandlerTable
  <2>3. CASE Grows \/ Idles
    BY <2>3 DEF Grows, Idles, Quiet, HandlerTable
  <2>4. ASSUME NEW r \in Sessions, NEW from \in Senders, Completes(r, from)
        PROVE  HandlerTable'
    BY <2>4, NoSessionAssumption DEF Completes, Settles, HandlerTable, TypeOK
  <2>5. CASE OnReset
    BY <2>5, ResetOfDone DEF HandlerTable, TypeOK
  <2> QED
    BY <2>1, <2>2, <2>3, <2>4, <2>5, StepCases
<1> QED
  BY <1>1, <1>2, TypeCorrect, LivesInvariant, PTL DEF Spec

\* The application's callback is called exactly once per command: by the first
\* of reply, failed send and deadline.
THEOREM CallbackOnce == Spec => []AnsweredOnce
<1>1. Init => AnsweredOnce
  <2>1. Len(<< >>) = 0
    BY EmptySeq
  <2> QED
    BY <2>1 DEF Init, AnsweredOnce
<1>2. TypeOK /\ Lives /\ AnsweredOnce /\ [Next]_vars => AnsweredOnce'
  <2> SUFFICES ASSUME TypeOK, Lives, AnsweredOnce, [Next]_vars,
                      NEW s \in Sessions
               PROVE  Len(answers'[s]) = IF phase'[s] \in {"done", "freed"} THEN 1 ELSE 0
    BY DEF AnsweredOnce
  <2>0. Len(answers[s]) = IF phase[s] \in {"done", "freed"} THEN 1 ELSE 0
    BY DEF AnsweredOnce
  <2>1. CASE \E r \in Sessions : SendCommand(r)
    BY <2>0, <2>1 DEF SendCommand, TypeOK
  <2>2. CASE \E r \in Sessions : TimerEnds(r)
    BY <2>0, <2>2 DEF TimerEnds
  <2>3. CASE Grows \/ Idles
    BY <2>0, <2>3 DEF Grows, Idles, Quiet
  <2>4. ASSUME NEW r \in Sessions, NEW from \in Senders, Completes(r, from)
        PROVE  Len(answers'[s]) = IF phase'[s] \in {"done", "freed"} THEN 1 ELSE 0
    <3>1. CASE s # r
      BY <2>0, <2>4, <3>1 DEF Completes, Settles, TypeOK
    <3>2. CASE s = r
      <4>1. answers[s] \in Seq(Senders) /\ Len(answers[s]) = 0
        BY <2>0, <2>4, <3>2 DEF Completes, Settles, TypeOK
      <4>2. answers'[s] = Append(answers[s], from) /\ phase'[s] = "done"
        BY <2>4, <3>2 DEF Completes, Settles, TypeOK
      <4> QED
        BY <4>1, <4>2, AppendProperties
    <3> QED
      BY <3>1, <3>2
  <2>5. CASE OnReset
    BY <2>0, <2>5, ResetOfDone DEF TypeOK
  <2> QED
    BY <2>1, <2>2, <2>3, <2>4, <2>5, StepCases
<1> QED
  BY <1>1, <1>2, TypeCorrect, LivesInvariant, PTL DEF Spec

-----------------------------------------------------------------------------
(* The receive loop.                                                       *)

\* Handlers none of which calls Client::receive.
Silent(e) == \A k \in DOMAIN e : ~(e[k].op = "receive" /\ e[k].ec # "canceled")

LEMMA SilentConcat ==
  ASSUME NEW a \in Seq(Handlers), NEW b \in Seq(Handlers), Silent(a), Silent(b)
  PROVE  a \o b \in Seq(Handlers) /\ Silent(a \o b)
  BY ConcatProperties, LenProperties DEF Silent

LEMMA SilentEmpty == << >> \in Seq(Handlers) /\ Silent(<< >>)
  BY EmptySeq DEF Silent

LEMMA SilentSingle ==
  ASSUME NEW h \in Handlers, h.op # "receive" \/ h.ec = "canceled"
  PROVE  <<h>> \in Seq(Handlers) /\ Silent(<<h>>)
  BY DEF Silent

LEMMA AbortedSilent ==
  ASSUME TypeOK
  PROVE  Aborted \in Seq(Handlers) /\ Silent(Aborted)
<1> DEFINE receives == [i \in 1 .. receiving |-> Handler("receive", NoSession, "canceled")]
           sends == [i \in 1 .. Len(sendq) |-> Handler("send", sendq[i], "error")]
<1>1. Len(sendq) \in Nat /\ receiving \in Nat
  BY LenProperties DEF TypeOK
<1>2. Silent(receives) /\ Silent(sends)
  BY <1>1 DEF Silent, Handler
<1>3. receives \in Seq(Handlers) /\ sends \in Seq(Handlers)
  <2>1. \A i \in 1 .. Len(sendq) : Handler("send", sendq[i], "error") \in Handlers
    BY SessionHandlers, ElementOfSeq DEF TypeOK
  <2> QED
    BY <1>1, <2>1, ReceiveHandlers, IsASeq
<1> QED
  BY <1>2, <1>3, SilentConcat DEF Aborted

\* A socket is never opened again: connect is another matter.
Closing == open' => open

\* Application code calls no receive.
LEMMA ApplicationSilent ==
  ASSUME TypeOK,
         NEW before \in Seq(Handlers), NEW after \in Seq(Handlers), Silent(after),
         Application(before, after)
  PROVE  Closing /\ \E e \in Seq(Handlers) : Silent(e) /\ queue' = before \o e
<1>1. CASE queue' = before \o after /\ UNCHANGED <<open, sendq>>
  BY <1>1 DEF Closing
<1>2. CASE queue' = before \o Aborted \o after /\ ~open' /\ sendq' = << >>
  <2>1. Aborted \o after \in Seq(Handlers) /\ Silent(Aborted \o after)
    BY AbortedSilent, SilentConcat
  <2>2. queue' = before \o (Aborted \o after)
    BY <1>2, AbortedType, ConcatAssociative
  <2> QED
    BY <1>2, <2>1, <2>2 DEF Closing
<1> QED
  BY <1>1, <1>2 DEF Application

LEMMA ResolveSilent ==
  ASSUME TypeOK,
         NEW s \in Sessions, NEW from \in Senders, NEW q \in Seq(Handlers),
         Resolve(s, from, q)
  PROVE  Closing /\ \E e \in Seq(Handlers) : Silent(e) /\ queue' = q \o e
<1>1. CASE AlreadyDone(s)
  <2>1. queue' = q /\ UNCHANGED <<open, sendq>>
    BY <1>1 DEF Resolve
  <2>2. queue' = q \o << >>
    BY <2>1, ConcatEmptySeq
  <2> QED
    BY <2>1, <2>2, SilentEmpty DEF Closing
<1>2. CASE ~AlreadyDone(s)
  <2> DEFINE reset == Handler("reset", s, "ok")
             wait == Handler("timer", s, "canceled")
  <2>1. reset \in Handlers /\ wait \in Handlers /\ reset.op = "reset" /\ wait.ec = "canceled"
    BY SessionHandlers DEF Handler
  <2>2. <<reset>> \in Seq(Handlers) /\ Silent(<<reset>>)
    BY <2>1, SilentSingle
  <2>3. AbortedWait(s) \in Seq(Handlers) /\ Silent(AbortedWait(s))
    BY <2>1, SilentSingle, SilentEmpty DEF AbortedWait
  <2>4. q \o AbortedWait(s) \in Seq(Handlers)
    BY <2>3, ConcatProperties
  <2>5. Application(q \o AbortedWait(s), <<reset>>)
    BY <1>2 DEF Resolve
  <2> HIDE DEF reset
  <2>6. Closing
    BY <2>2, <2>4, <2>5, ApplicationSilent
  <2>7. PICK e \in Seq(Handlers) : Silent(e) /\ queue' = (q \o AbortedWait(s)) \o e
    BY <2>2, <2>4, <2>5, ApplicationSilent
  <2>8. /\ AbortedWait(s) \o e \in Seq(Handlers)
        /\ Silent(AbortedWait(s) \o e)
        /\ queue' = q \o (AbortedWait(s) \o e)
    BY <2>3, <2>7, SilentConcat, ConcatAssociative
  <2> QED
    BY <2>6, <2>8
<1> QED
  BY <1>1, <1>2

\* What a step does to the receives in progress unless it starts or ends one.
Keeps ==
  /\ Closing
  /\ \/ UNCHANGED <<open, receiving>>
     \/ receiving' = StillReceiving

\* No receive ends or is called for.
Elsewhere == Keeps /\ \E e \in Seq(Handlers) : Silent(e) /\ queue' = queue \o e

LiveHead == Head(queue).op = "receive" /\ Head(queue).ec # "canceled"

\* A handler runs that does not call receive.
RunsSilent ==
  /\ queue # << >> /\ ~LiveHead
  /\ Keeps
  /\ \E e \in Seq(Handlers) : Silent(e) /\ queue' = Tail(queue) \o e

\* One that does.
RunsLive ==
  /\ queue # << >> /\ LiveHead
  /\ Closing
  /\ Receive
  /\ \E e \in Seq(Handlers) : Silent(e) /\ queue' = Tail(queue) \o e

\* Every step is one of these, or a receive ends.
LEMMA ReceiveCases ==
  ASSUME TypeOK, [Next]_vars
  PROVE  \/ Elsewhere
         \/ \E s \in Senders, ec \in {"ok", "error"} : ReceiveEnds(s, ec)
         \/ RunsSilent
         \/ RunsLive
<1>0. queue \in Seq(Handlers) /\ queue \o << >> = queue
  BY ConcatEmptySeq DEF TypeOK
<1> DEFINE Queues(h) == queue' = Append(queue, h)
<1>1. ASSUME NEW h \in Handlers, h.op # "receive", Queues(h)
      PROVE  \E e \in Seq(Handlers) : Silent(e) /\ queue' = queue \o e
  <2>1. <<h>> \in Seq(Handlers) /\ Silent(<<h>>)
    BY <1>1, SilentSingle
  <2>2. queue' = queue \o <<h>>
    BY <1>0, <1>1, AppendIsConcat
  <2> QED
    BY <2>1, <2>2
<1>2. ASSUME queue' = queue
      PROVE  \E e \in Seq(Handlers) : Silent(e) /\ queue' = queue \o e
  BY <1>0, <1>2, SilentEmpty
<1>3. ASSUME NEW s \in Sessions, SendCommand(s)
      PROVE  Elsewhere
  <2>1. /\ Handler("send", s, "error") \in Handlers
        /\ Handler("send", s, "error").op # "receive"
    BY SessionHandlers DEF Handler
  <2>2. queue' = queue \/ Queues(Handler("send", s, "error"))
    BY <1>3 DEF SendCommand
  <2>3. Keeps
    BY <1>3 DEF SendCommand, Keeps, Closing
  <2> HIDE DEF Queues
  <2> QED
    BY <1>1, <1>2, <2>1, <2>2, <2>3 DEF Elsewhere
<1>4. ASSUME NEW s \in Sessions, TimerEnds(s)
      PROVE  Elsewhere
  <2>1. /\ Handler("timer", s, "ok") \in Handlers
        /\ Handler("timer", s, "ok").op # "receive"
    BY SessionHandlers DEF Handler
  <2>2. Queues(Handler("timer", s, "ok")) /\ Keeps
    BY <1>4 DEF TimerEnds, Enqueue, Keeps, Closing
  <2> HIDE DEF Queues
  <2> QED
    BY <1>1, <2>1, <2>2 DEF Elsewhere
<1>5. CASE Close
  <2>1. Closing /\ \E e \in Seq(Handlers) : Silent(e) /\ queue' = queue \o e
    BY <1>0, <1>5, SilentEmpty, ApplicationSilent DEF Close
  <2> QED
    BY <1>5, <2>1 DEF Close, Elsewhere, Keeps
<1>6. CASE SendEnds
  <2>1. Head(sendq) \in Sessions
    BY <1>6, HeadTailProperties DEF SendEnds, TypeOK
  <2>2. \A ec \in {"ok", "error"} :
          /\ Handler("send", Head(sendq), ec) \in Handlers
          /\ Handler("send", Head(sendq), ec).op # "receive"
    BY <2>1, SessionHandlers DEF Handler
  <2>3. \E ec \in {"ok", "error"} : Queues(Handler("send", Head(sendq), ec))
    BY <1>6 DEF SendEnds, Enqueue
  <2>4. Keeps
    BY <1>6 DEF SendEnds, Keeps, Closing
  <2> HIDE DEF Queues
  <2> QED
    BY <1>1, <2>2, <2>3, <2>4 DEF Elsewhere
<1>7. CASE UNCHANGED vars
  BY <1>2, <1>7 DEF vars, network, Elsewhere, Keeps, Closing
<1> DEFINE q == Tail(queue)
<1>8. ASSUME queue # << >>
      PROVE  /\ q \in Seq(Handlers) /\ Head(queue) \in Handlers
             /\ queue' = q => \E e \in Seq(Handlers) : Silent(e) /\ queue' = q \o e
  BY <1>8, HeadType, SilentEmpty, ConcatEmptySeq
<1>9. CASE OnReceive
  <2> DEFINE h == Head(queue)
             handler == IF h.ec = "ok" THEN requests[sid[h.s]] ELSE NoSession
  <2>1. queue # << >> /\ h.op = "receive" /\ h.s \in Senders /\ handler \in Senders
    BY <1>9, HeadType, RegisteredType DEF OnReceive, Ready, Senders
  <2>2. CASE h.ec = "canceled"
    <3>1. queue' = q /\ UNCHANGED <<open, receiving>>
      BY <1>9, <2>2 DEF OnReceive
    <3> QED
      BY <1>8, <2>1, <2>2, <3>1 DEF RunsSilent, LiveHead, Keeps, Closing
  <2>3. CASE h.ec # "canceled" /\ handler = NoSession
    <3>1. Application(q, << >>) /\ Receive
      BY <1>9, <2>3 DEF OnReceive
    <3>2. Closing /\ \E e \in Seq(Handlers) : Silent(e) /\ queue' = q \o e
      BY <1>8, <2>1, <3>1, SilentEmpty, ApplicationSilent
    <3> QED
      BY <2>1, <2>3, <3>1, <3>2 DEF RunsLive, LiveHead
  <2>4. CASE h.ec # "canceled" /\ handler # NoSession
    <3>1. Resolve(handler, h.s, q) /\ Receive
      BY <1>9, <2>4 DEF OnReceive
    <3>2. handler \in Sessions
      BY <2>1, <2>4 DEF Senders
    <3> HIDE DEF handler
    <3>3. Closing /\ \E e \in Seq(Handlers) : Silent(e) /\ queue' = q \o e
      BY <1>8, <2>1, <3>1, <3>2, ResolveSilent
    <3> QED
      BY <2>1, <2>4, <3>1, <3>3 DEF RunsLive, LiveHead
  <2> QED
    BY <2>2, <2>3, <2>4
<1>10. CASE OnSend \/ OnTimer
  <2> DEFINE h == Head(queue)
  <2>1. queue # << >> /\ h.op # "receive" /\ h.s \in Sessions /\ NoSession \in Senders
    BY <1>10, HeadType DEF OnSend, OnTimer, Ready, Senders
  <2>2. \/ queue' = q /\ open' = open
        \/ Resolve(h.s, NoSession, q)
    BY <1>10 DEF OnSend, OnTimer
  <2>3. Closing /\ \E e \in Seq(Handlers) : Silent(e) /\ queue' = q \o e
    <3>1. CASE queue' = q /\ open' = open
      BY <1>8, <2>1, <3>1 DEF Closing
    <3>2. CASE Resolve(h.s, NoSession, q)
      BY <1>8, <2>1, <3>2, ResolveSilent
    <3> QED
      BY <2>2, <3>1, <3>2
  <2>4. receiving' = StillReceiving
    BY <1>10 DEF OnSend, OnTimer
  <2> QED
    BY <2>1, <2>3, <2>4 DEF RunsSilent, LiveHead, Keeps
<1>11. CASE OnReset
  <2>1. queue # << >> /\ Head(queue).op # "receive" /\ queue' = q
    BY <1>11 DEF OnReset, Ready
  <2> QED
    BY <1>8, <1>11, <2>1 DEF OnReset, RunsSilent, LiveHead, Keeps, Closing
<1> QED
  BY <1>3, <1>4, <1>5, <1>6, <1>7, <1>9, <1>10, <1>11
  DEF Next, Dispatch, DeadlinePasses

\* What becomes of the receives that are queued when the queue shifts.
LEMMA LiveShift ==
  ASSUME TypeOK, NEW d \in {0, 1}, d <= Len(queue),
         NEW e \in Seq(Handlers), Silent(e), Shifts(d, e)
  PROVE  /\ \A k \in LiveReceives' : k + d \in LiveReceives /\ queue'[k] = queue[k + d]
         /\ \A k \in LiveReceives : k > d => k - d \in LiveReceives'
<1>1. /\ queue \in Seq(Handlers) /\ Len(queue) \in Nat /\ DOMAIN queue = 1 .. Len(queue)
      /\ Len(e) \in Nat /\ DOMAIN e = 1 .. Len(e)
  BY LenProperties DEF TypeOK
<1>2. ASSUME NEW k \in LiveReceives'
      PROVE  k + d \in LiveReceives /\ queue'[k] = queue[k + d]
  <2>1. k \in 1 .. Len(queue) - d + Len(e)
    BY <1>2 DEF Shifts, LiveReceives
  <2>2. CASE k <= Len(queue) - d
    <3>1. queue'[k] = queue[k + d] /\ k + d \in DOMAIN queue
      BY <1>1, <2>1, <2>2 DEF Shifts
    <3> QED
      BY <1>2, <3>1 DEF LiveReceives
  <2>3. CASE k > Len(queue) - d
    <3> DEFINE j == k - (Len(queue) - d)
    <3>1. j \in 1 .. Len(e) /\ Len(queue) - d + j = k
      BY <1>1, <2>1, <2>3
    <3>2. queue'[k] = e[j]
      <4> HIDE DEF j
      <4> QED
        BY <3>1 DEF Shifts
    <3> QED
      BY <1>1, <1>2, <3>1, <3>2 DEF LiveReceives, Silent
  <2> QED
    BY <1>1, <2>1, <2>2, <2>3
<1>3. ASSUME NEW k \in LiveReceives, k > d
      PROVE  k - d \in LiveReceives'
  <2>1. /\ k - d \in 1 .. Len(queue) - d
        /\ k - d \in 1 .. Len(queue) - d + Len(e)
        /\ k - d + d = k
    BY <1>1, <1>3 DEF LiveReceives
  <2>2. queue'[k - d] = queue[k] /\ k - d \in DOMAIN queue'
    BY <2>1 DEF Shifts
  <2> QED
    BY <1>3, <2>2 DEF LiveReceives
<1> QED
  BY <1>2, <1>3

\* ReceiveLoop without its condition: the model keeps it when it has stopped.
LoopState ==
  /\ open => IF receiving = 1 THEN LiveReceives = {}
             ELSE receiving = 0 /\ \E k \in LiveReceives : LiveReceives = {k}
  /\ ~open => receiving = 0 /\ \A j, k \in LiveReceives : j = k

LEMMA LoopInvariant == Spec => []LoopState
<1>1. Init => LoopState
  BY DEF Init, LoopState, LiveReceives
<1>2. TypeOK /\ LoopState /\ [Next]_vars => LoopState'
  <2> SUFFICES ASSUME TypeOK, LoopState, [Next]_vars
               PROVE  LoopState'
    OBVIOUS
  <2>1. /\ queue \in Seq(Handlers) /\ Len(queue) \in Nat /\ DOMAIN queue = 1 .. Len(queue)
        /\ LiveReceives \subseteq DOMAIN queue
        /\ queue # << >> => 1 <= Len(queue) /\ Head(queue) = queue[1]
    BY LenProperties, EmptySeq DEF TypeOK, LiveReceives
  <2>2. CASE Elsewhere
    <3>1. PICK e \in Seq(Handlers) : Silent(e) /\ queue' = queue \o e
      BY <2>2 DEF Elsewhere
    <3>2. Shifts(0, e)
      BY <3>1, ShiftsByConcat
    <3>3. /\ \A k \in LiveReceives' : k + 0 \in LiveReceives
          /\ \A k \in LiveReceives : k > 0 => k - 0 \in LiveReceives'
      BY <2>1, <3>1, <3>2, LiveShift
    <3>4. LiveReceives' = LiveReceives
      <4>1. \A k \in LiveReceives' : k \in Nat
        BY <3>2 DEF LiveReceives, Shifts
      <4>2. \A k \in LiveReceives : k \in Nat /\ k > 0
        BY <2>1
      <4>3. \A k \in LiveReceives' : k \in LiveReceives
        BY <3>3, <4>1
      <4>4. \A k \in LiveReceives : k \in LiveReceives'
        BY <3>3, <4>2
      <4> QED
        BY <4>3, <4>4
    <3> QED
      BY <2>2, <3>4 DEF LoopState, Elsewhere, Keeps, Closing, StillReceiving
  <2>3. ASSUME NEW s \in Senders, NEW ec \in {"ok", "error"}, ReceiveEnds(s, ec)
        PROVE  LoopState'
    <3> DEFINE h == Handler("receive", s, ec)
    <3>1. h \in Handlers /\ h.op = "receive" /\ h.ec # "canceled"
      BY <2>3, SessionHandlers, ReceiveHandlers DEF ReceiveEnds, Handler, TypeOK
    <3>2. open /\ open' /\ LiveReceives = {} /\ receiving' = 0
      BY <2>3 DEF ReceiveEnds, LoopState, TypeOK
    <3>3. /\ queue' \in Seq(Handlers) /\ Len(queue') = Len(queue) + 1
          /\ DOMAIN queue' = 1 .. Len(queue) + 1
          /\ \A k \in 1 .. Len(queue) : queue'[k] = queue[k]
          /\ queue'[Len(queue) + 1] = h
      <4>1. queue' = Append(queue, h)
        BY <2>3 DEF ReceiveEnds, Enqueue
      <4> HIDE DEF h
      <4> QED
        BY <2>1, <3>1, <4>1, AppendProperties, LenProperties
    <3>4. LiveReceives' = {Len(queue) + 1}
      <4> HIDE DEF h
      <4> QED
        BY <2>1, <3>1, <3>2, <3>3 DEF LiveReceives
    <3>5. Len(queue) + 1 \in LiveReceives'
      BY <3>4
    <3> QED
      BY <3>2, <3>4, <3>5 DEF LoopState
  <2>4. CASE RunsSilent \/ RunsLive
    <3>1. PICK e \in Seq(Handlers) : Silent(e) /\ queue' = Tail(queue) \o e
      BY <2>4 DEF RunsSilent, RunsLive
    <3>2. queue # << >>
      BY <2>4 DEF RunsSilent, RunsLive
    <3>3. Shifts(1, e)
      BY <3>1, <3>2, ShiftsByConcat
    <3>4. /\ \A k \in LiveReceives' : k + 1 \in LiveReceives
          /\ \A k \in LiveReceives : k > 1 => k - 1 \in LiveReceives'
      BY <2>1, <3>1, <3>2, <3>3, LiveShift
    <3>5. \A k \in LiveReceives' : k \in Nat \ {0}
      BY <3>3 DEF LiveReceives, Shifts
    <3>6. CASE RunsSilent
      <4>1. 1 \notin LiveReceives
        BY <2>1, <3>2, <3>6 DEF RunsSilent, LiveHead, LiveReceives
      <4>2. \A k \in LiveReceives : k - 1 \in LiveReceives'
        BY <2>1, <3>4, <4>1
      <4>3. \A j, k \in LiveReceives : j = k
        BY DEF LoopState
      <4>4. \A j, k \in LiveReceives' : j = k
        BY <3>4, <3>5, <4>3
      <4>5. LiveReceives = {} <=> LiveReceives' = {}
        BY <3>4, <4>2
      <4>6. LiveReceives # {} => \E k \in LiveReceives' : LiveReceives' = {k}
        BY <4>4, <4>5
      <4> QED
        BY <3>6, <4>4, <4>5, <4>6
        DEF RunsSilent, Keeps, Closing, StillReceiving, LoopState
    <3>7. CASE RunsLive
      <4>1. 1 \in LiveReceives
        BY <2>1, <3>2, <3>7 DEF RunsLive, LiveHead, LiveReceives
      <4>2. LiveReceives = {1} /\ receiving = 0
        BY <4>1 DEF LoopState
      <4>3. LiveReceives' = {}
        BY <3>4, <3>5, <4>2
      <4> QED
        BY <3>7, <4>2, <4>3 DEF RunsLive, Closing, Receive, StillReceiving, LoopState
    <3> QED
      BY <2>4, <3>6, <3>7
  <2> QED
    BY <2>2, <2>3, <2>4, ReceiveCases
<1> QED
  BY <1>1, <1>2, TypeCorrect, PTL DEF Spec

\* There is one receive loop while the socket is open, and it ends when the socket is
\* closed, even where the close came after the receive had completed.
THEOREM OneReceiveLoop == Spec => []ReceiveLoop
<1>1. LoopState => ReceiveLoop
  BY DEF LoopState, ReceiveLoop
<1> QED
  BY <1>1, LoopInvariant, PTL

-----------------------------------------------------------------------------
(* Request ids.  An id comes from the place of a command in the order of   *)
(* allocation; what the two have to do with each other is said without the *)
(* remainder of a division, by counting back from the next id.             *)

\* The handler of s was registered.
Begun(s) == phase[s] \in {"started", "done", "freed"}

\* The id that was allocated n allocations ago.
IdBefore(n) == IF n <= nextId THEN nextId - n ELSE nextId - n + IdSpace

\* An id among the last IdSpace allocated ones is known by its place.
SidBehind(s) ==
  phase[s] # "idle" =>
    /\ serial[s] < allocs
    /\ \/ allocs - serial[s] >= IdSpace
       \/ sid[s] = IdBefore(allocs - serial[s])

\* Commands with the same id are IdSpace allocations apart,
SidsApart(r, s) ==
  phase[r] # "idle" /\ phase[s] # "idle" /\ r # s /\ sid[r] = sid[s] =>
    \/ serial[r] - serial[s] >= IdSpace
    \/ serial[s] - serial[r] >= IdSpace

\* and when the later one was registered the earlier one waited no more.
Superseded(r, s) ==
  phase[r] # "idle" /\ Begun(s) /\ sid[r] = sid[s] /\ serial[r] < serial[s] =>
    phase[r] # "started"

Serials ==
  \A r, s \in Sessions : SidBehind(s) /\ SidsApart(r, s) /\ Superseded(r, s)

\* A session goes its way, and only the allocation of an id touches what ids are about.
LEMMA PhasesProceed ==
  ASSUME TypeOK, Lives, [Next]_vars
  PROVE  \/ \E s \in Sessions : SendCommand(s)
         \/ /\ UNCHANGED <<nextId, sid, serial, allocs>>
            /\ \A s \in Sessions :
                 \/ phase'[s] = phase[s]
                 \/ phase[s] = "started" /\ phase'[s] = "done"
                 \/ phase[s] = "done" /\ phase'[s] = "freed"
<1>1. CASE \E s \in Sessions : TimerEnds(s)
  BY <1>1 DEF TimerEnds, history
<1>2. CASE Grows \/ Idles
  BY <1>2 DEF Grows, Idles, Quiet, history
<1>3. CASE \E s \in Sessions, from \in Senders : Completes(s, from)
  BY <1>3 DEF Completes, Settles, history, TypeOK
<1>4. CASE OnReset
  BY <1>4, ResetOfDone DEF history, TypeOK
<1> QED
  BY <1>1, <1>2, <1>3, <1>4, StepCases

\* What a command is given: the next id and the next place.
LEMMA SendSerial ==
  ASSUME TypeOK, NEW x \in Sessions, SendCommand(x)
  PROVE  /\ phase[x] = "idle" /\ phase'[x] \in {"leaked", "started"}
         /\ sid'[x] = nextId /\ serial'[x] = allocs /\ allocs' = allocs + 1
         /\ nextId' = IF nextId = IdSpace - 1 THEN 0 ELSE nextId + 1
         /\ \A s \in Sessions \ {x} : /\ phase'[s] = phase[s]
                                      /\ sid'[s] = sid[s]
                                      /\ serial'[s] = serial[s]
         /\ phase'[x] = "started" => requests[nextId] = NoSession
         /\ phase'[x] = "leaked" => requests[nextId] # NoSession
<1>1. nextId' = IF nextId = IdSpace - 1 THEN 0 ELSE nextId + 1
  BY IncrementIdWraps DEF SendCommand, TypeOK
<1> QED
  BY <1>1 DEF SendCommand, IdTaken, TypeOK

LEMMA BehindAfterSend ==
  ASSUME TypeOK, NEW x \in Sessions, SendCommand(x), NEW s \in Sessions, SidBehind(s)
  PROVE  SidBehind(s)'
<1>1. /\ nextId \in 0 .. IdSpace - 1 /\ IdSpace \in Nat \ {0, 1}
      /\ allocs \in Nat /\ serial[s] \in Nat
  BY IdSpaceAssumption DEF TypeOK, Ids
<1>2. CASE s = x
  BY <1>1, <1>2, SendSerial DEF SidBehind, IdBefore
<1>3. CASE s # x
  <2>1. /\ phase'[s] = phase[s] /\ sid'[s] = sid[s] /\ serial'[s] = serial[s]
        /\ allocs' = allocs + 1
        /\ nextId' = IF nextId = IdSpace - 1 THEN 0 ELSE nextId + 1
    BY <1>3, SendSerial
  <2> QED
    BY <1>1, <2>1 DEF SidBehind, IdBefore
<1> QED
  BY <1>2, <1>3

\* A command that has the next id already is IdSpace allocations back.
LEMMA SameIdIsOld ==
  ASSUME TypeOK, NEW s \in Sessions, SidBehind(s), phase[s] # "idle", sid[s] = nextId
  PROVE  allocs - serial[s] >= IdSpace
<1>1. /\ nextId \in 0 .. IdSpace - 1 /\ IdSpace \in Nat \ {0, 1}
      /\ allocs \in Nat /\ serial[s] \in Nat
  BY IdSpaceAssumption DEF TypeOK, Ids
<1> QED
  BY <1>1 DEF SidBehind, IdBefore

LEMMA SerialsInvariant == Spec => []Serials
<1>1. Init => Serials
  BY DEF Init, Serials, SidBehind, SidsApart, Superseded, Begun
<1>2. TypeOK /\ Lives /\ HandlerTable /\ Serials /\ [Next]_vars => Serials'
  <2> SUFFICES ASSUME TypeOK, Lives, HandlerTable, Serials, [Next]_vars,
                      NEW r \in Sessions, NEW s \in Sessions
               PROVE  (SidBehind(s) /\ SidsApart(r, s) /\ Superseded(r, s))'
    BY DEF Serials
  <2>1. /\ SidBehind(s) /\ SidBehind(r)
        /\ SidsApart(r, s) /\ SidsApart(s, r) /\ Superseded(r, s)
    BY DEF Serials
  <2>2. ASSUME NEW x \in Sessions, SendCommand(x)
        PROVE  (SidBehind(s) /\ SidsApart(r, s) /\ Superseded(r, s))'
    <3>1. SidBehind(s)'
      BY <2>1, <2>2, BehindAfterSend
    <3>2. /\ IdSpace \in Nat /\ allocs \in Nat /\ serial[r] \in Nat /\ serial[s] \in Nat
      BY IdSpaceAssumption DEF TypeOK
    <3>3. CASE s # x /\ r # x
      BY <2>1, <2>2, <3>1, <3>3, SendSerial DEF SidsApart, Superseded, Begun
    <3>4. CASE s = x /\ r # x
      <4>1. phase'[r] # "idle" /\ sid'[r] = sid'[s] => allocs - serial[r] >= IdSpace
        BY <2>1, <2>2, <3>4, SendSerial, SameIdIsOld
      <4>2. SidsApart(r, s)'
        BY <2>2, <3>2, <3>4, <4>1, SendSerial DEF SidsApart
      <4>3. phase'[s] = "started" => requests[nextId] # r
        BY <2>2, <3>4, SendSerial, NoSessionAssumption
      <4>4. phase'[s] = "started" /\ sid'[r] = sid'[s] => phase'[r] # "started"
        BY <2>2, <3>4, <4>3, SendSerial DEF HandlerTable, TypeOK
      <4>5. Superseded(r, s)'
        BY <2>2, <3>4, <4>4, SendSerial DEF Superseded, Begun
      <4> QED
        BY <3>1, <4>2, <4>5
    <3>5. CASE r = x /\ s # x
      <4>1. phase'[s] # "idle" /\ sid'[r] = sid'[s] => allocs - serial[s] >= IdSpace
        BY <2>1, <2>2, <3>5, SendSerial, SameIdIsOld
      <4>2. SidsApart(r, s)'
        BY <2>2, <3>2, <3>5, <4>1, SendSerial DEF SidsApart
      <4>3. phase[s] # "idle" => serial[s] < allocs
        BY <2>1 DEF SidBehind
      <4>4. Superseded(r, s)'
        BY <2>2, <3>2, <3>5, <4>3, SendSerial DEF Superseded, Begun
      <4> QED
        BY <3>1, <4>2, <4>4
    <3>6. CASE r = x /\ s = x
      BY <2>2, <3>1, <3>2, <3>6 DEF SidsApart, Superseded, TypeOK, SendCommand
    <3> QED
      BY <3>3, <3>4, <3>5, <3>6
  <2>3. CASE /\ UNCHANGED <<nextId, sid, serial, allocs>>
             /\ \A x \in Sessions :
                  \/ phase'[x] = phase[x]
                  \/ phase[x] = "started" /\ phase'[x] = "done"
                  \/ phase[x] = "done" /\ phase'[x] = "freed"
    BY <2>1, <2>3 DEF SidBehind, IdBefore, SidsApart, Superseded, Begun
  <2> QED
    BY <2>2, <2>3, PhasesProceed
<1> QED
  BY <1>1, <1>2, TypeCorrect, LivesInvariant, TableIsExact, PTL DEF Spec

\* registerHandler throws only when a command sent at least IdSpace commands earlier is
\* still waiting for its answer.
THEOREM CollisionsAreWraps == Spec => []CollisionNeedsWrap
<1>1. Init => CollisionNeedsWrap
  BY DEF Init, CollisionNeedsWrap
<1>2. TypeOK /\ HandlerTable /\ Serials /\ CollisionNeedsWrap /\ [Next]_vars
        => CollisionNeedsWrap'
  <2> SUFFICES ASSUME TypeOK, HandlerTable, Serials, CollisionNeedsWrap, [Next]_vars,
                      status' = "threw"
               PROVE  CollisionNeedsWrap'
    BY DEF CollisionNeedsWrap
  <2>1. CASE UNCHANGED vars
    BY <2>1 DEF vars, history, CollisionNeedsWrap
  <2>2. ASSUME NEW s \in Sessions, SendCommand(s), status # "threw"
        PROVE  CollisionNeedsWrap'
    <3>1. phase'[s] = "leaked"
      BY <2>2 DEF SendCommand, TypeOK
    <3> DEFINE r == requests[nextId]
    <3>2. r \in Sessions
      BY <2>2, <3>1, SendSerial DEF TypeOK, Senders
    <3>3. phase[r] = "started" /\ sid[r] = nextId
      <4> HIDE DEF r
      <4>1. requests[nextId] = r /\ nextId \in Ids
        BY DEF r, TypeOK
      <4> QED
        BY <3>2, <4>1 DEF HandlerTable
    <3> HIDE DEF r
    <3>4. allocs - serial[r] >= IdSpace
      BY <3>2, <3>3, SameIdIsOld DEF Serials
    <3>5. r # s /\ phase'[r] = "started" /\ sid'[r] = sid'[s] /\ serial'[r] = serial[r]
          /\ serial'[s] = allocs
      BY <2>2, <3>2, <3>3, SendSerial
    <3> QED
      BY <3>1, <3>2, <3>4, <3>5 DEF CollisionNeedsWrap
  <2>3. \/ UNCHANGED vars
        \/ status # "threw" /\ \E s \in Sessions : SendCommand(s)
    BY DEF Next, Running, DeadlinePasses, Dispatch, TimerEnds, ReceiveEnds, Close,
           SendEnds, OnReceive, OnSend, OnTimer, OnReset, Resolve
  <2> QED
    BY <2>1, <2>2, <2>3
<1> QED
  BY <1>1, <1>2, TypeCorrect, TableIsExact, SerialsInvariant, PTL DEF Spec

-----------------------------------------------------------------------------
(* Replies.                                                                *)

\* Only the requests of registered commands are sent, and what is received answers a
\* request that was sent.
OnTheWire ==
  /\ \A s \in sent : Begun(s)
  /\ \A k \in DOMAIN sendq : Begun(sendq[k])
  /\ \A k \in LiveReceives : queue[k].ec = "ok" => queue[k].s \in sent

\* The sends in progress of a step: none begin but that of a command.
SendsRemain == sendq' \in {sendq, << >>} /\ sent' = sent

LEMMA SendCases ==
  ASSUME [Next]_vars
  PROVE  \/ \E s \in Sessions : SendCommand(s)
         \/ SendEnds
         \/ SendsRemain
<1>1. ASSUME NEW b, NEW a, Application(b, a)
      PROVE  sendq' \in {sendq, << >>}
  BY <1>1 DEF Application
<1>2. ASSUME NEW s, NEW from, NEW q, Resolve(s, from, q)
      PROVE  sendq' \in {sendq, << >>}
  BY <1>1, <1>2 DEF Resolve
<1>3. CASE \/ \E s \in Sessions : TimerEnds(s)
           \/ \E s \in Senders, ec \in {"ok", "error"} : ReceiveEnds(s, ec)
           \/ OnReset
           \/ UNCHANGED vars
  BY <1>3 DEF TimerEnds, ReceiveEnds, OnReset, vars, network, SendsRemain
<1>4. CASE Close
  BY <1>1, <1>4 DEF Close, SendsRemain
<1>5. CASE OnReceive
  BY <1>1, <1>2, <1>5 DEF OnReceive, SendsRemain
<1>6. CASE OnSend
  BY <1>2, <1>6 DEF OnSend, SendsRemain
<1>7. CASE OnTimer
  BY <1>2, <1>7 DEF OnTimer, SendsRemain
<1> QED
  BY <1>3, <1>4, <1>5, <1>6, <1>7 DEF Next, Dispatch, DeadlinePasses

LEMMA OnTheWireInvariant == Spec => []OnTheWire
<1>1. Init => OnTheWire
  BY DEF Init, OnTheWire, LiveReceives
<1>2. TypeOK /\ Lives /\ OnTheWire /\ [Next]_vars => OnTheWire'
  <2> SUFFICES ASSUME TypeOK, Lives, OnTheWire, [Next]_vars
               PROVE  OnTheWire'
    OBVIOUS
  <2>1. \A s \in Sessions : Begun(s) => Begun(s)'
    BY PhasesProceed, SendSerial DEF Begun
  <2>2. /\ sendq \in Seq(Sessions) /\ sent \subseteq Sessions
        /\ Len(sendq) \in Nat /\ DOMAIN sendq = 1 .. Len(sendq)
    BY LenProperties DEF TypeOK
  <2>3. \A k \in DOMAIN sendq : sendq[k] \in Sessions
    BY <2>2, ElementOfSeq
  <2>4. /\ sent \subseteq sent'
        /\ \A s \in sent' : Begun(s)'
        /\ \A k \in DOMAIN sendq' : Begun(sendq[k])'
    <3>1. ASSUME NEW s \in Sessions, SendCommand(s)
          PROVE  /\ sent \subseteq sent'
                 /\ \A t \in sent' : Begun(t)'
                 /\ \A k \in DOMAIN sendq' : Begun(sendq[k])'
      <4>1. /\ sent' = sent
            /\ \/ sendq' = sendq
               \/ phase'[s] = "started" /\ sendq' = Append(sendq, s)
        <5>1. phase' = [phase EXCEPT ![s] = "started"] => phase'[s] = "started"
          BY DEF TypeOK
        <5> QED
          BY <3>1, <5>1 DEF SendCommand
      <4>2. CASE sendq' = sendq
        BY <2>1, <2>2, <2>3, <4>1, <4>2 DEF OnTheWire, Begun
      <4>3. CASE phase'[s] = "started" /\ sendq' = Append(sendq, s)
        <5>1. /\ DOMAIN sendq' = 1 .. Len(sendq) + 1
              /\ \A k \in 1 .. Len(sendq) : sendq'[k] = sendq[k]
              /\ sendq'[Len(sendq) + 1] = s
          BY <2>2, <4>3, AppendProperties, LenProperties
        <5> QED
          BY <2>1, <2>2, <2>3, <4>1, <4>3, <5>1 DEF OnTheWire, Begun
      <4> QED
        BY <4>1, <4>2, <4>3
    <3>2. CASE SendEnds
      <4>1. /\ sendq # << >> /\ sendq' = Tail(sendq)
            /\ sent' = sent \/ sent' = sent \union {Head(sendq)}
        BY <3>2 DEF SendEnds
      <4>2. /\ Head(sendq) = sendq[1] /\ 1 \in DOMAIN sendq
            /\ DOMAIN sendq' = 1 .. Len(sendq) - 1
            /\ \A k \in 1 .. Len(sendq) - 1 : sendq'[k] = sendq[k + 1] /\ k + 1 \in DOMAIN sendq
        BY <2>2, <4>1, EmptySeq, HeadTailProperties, LenProperties
      <4> QED
        BY <2>1, <2>2, <2>3, <4>1, <4>2 DEF OnTheWire, Begun
    <3>3. CASE SendsRemain
      <4>1. DOMAIN << >> = {}
        OBVIOUS
      <4> QED
        BY <2>1, <2>2, <2>3, <3>3, <4>1 DEF SendsRemain, OnTheWire, Begun
    <3> QED
      BY <3>1, <3>2, <3>3, SendCases
  <2>5. ASSUME NEW k \in LiveReceives', queue'[k].ec = "ok"
        PROVE  queue'[k].s \in sent
    <3>1. ASSUME NEW d \in {0, 1}, d <= Len(queue),
                 NEW e \in Seq(Handlers), Silent(e), Shifts(d, e)
          PROVE  queue'[k].s \in sent
      <4>1. k + d \in LiveReceives /\ queue'[k] = queue[k + d]
        BY <2>5, <3>1, LiveShift
      <4> QED
        BY <2>5, <4>1 DEF OnTheWire
    <3>2. /\ queue \in Seq(Handlers) /\ Len(queue) \in Nat
          /\ queue # << >> => 1 <= Len(queue)
      BY EmptySeq, LenProperties DEF TypeOK
    <3>3. CASE Elsewhere
      <4>1. PICK e \in Seq(Handlers) : Silent(e) /\ queue' = queue \o e
        BY <3>3 DEF Elsewhere
      <4>2. Shifts(0, e) /\ 0 \in {0, 1} /\ 0 <= Len(queue)
        BY <3>2, <4>1, ShiftsByConcat
      <4> QED
        BY <3>1, <4>1, <4>2
    <3>4. CASE RunsSilent \/ RunsLive
      <4>1. PICK e \in Seq(Handlers) : Silent(e) /\ queue' = Tail(queue) \o e
        BY <3>4 DEF RunsSilent, RunsLive
      <4>2. Shifts(1, e) /\ 1 <= Len(queue)
        BY <3>2, <3>4, <4>1, ShiftsByConcat DEF RunsSilent, RunsLive
      <4> QED
        BY <3>1, <4>1, <4>2
    <3>5. ASSUME NEW s \in Senders, NEW ec \in {"ok", "error"}, ReceiveEnds(s, ec)
          PROVE  queue'[k].s \in sent
      <4> DEFINE h == Handler("receive", s, ec)
      <4>1. h \in Handlers /\ h.s = s /\ h.ec = ec
        BY <3>5, SessionHandlers, ReceiveHandlers DEF ReceiveEnds, Handler, TypeOK
      <4>2. queue' = Append(queue, h)
        BY <3>5 DEF ReceiveEnds, Enqueue
      <4> HIDE DEF h
      <4>3. /\ DOMAIN queue' = 1 .. Len(queue) + 1 /\ DOMAIN queue = 1 .. Len(queue)
            /\ \A j \in 1 .. Len(queue) : queue'[j] = queue[j]
            /\ queue'[Len(queue) + 1] = h
        BY <3>2, <4>1, <4>2, AppendProperties, LenProperties
      <4>4. CASE k = Len(queue) + 1
        BY <2>5, <3>5, <4>1, <4>3, <4>4 DEF ReceiveEnds
      <4>5. CASE k \in 1 .. Len(queue)
        BY <2>5, <4>3, <4>5 DEF OnTheWire, LiveReceives
      <4> QED
        BY <3>2, <4>3, <4>4, <4>5 DEF LiveReceives
    <3> QED
      BY <3>3, <3>4, <3>5, ReceiveCases
  <2> QED
    BY <2>4, <2>5 DEF OnTheWire, Begun
<1> QED
  BY <1>1, <1>2, TypeCorrect, LivesInvariant, PTL DEF Spec

\* A session is resolved by a reply with its id, or with no reply.
LEMMA ResolvedById ==
  ASSUME TypeOK, [Next]_vars, NEW s \in Sessions, NEW from \in Senders, Completes(s, from)
  PROVE  \/ from = NoSession
         \/ /\ queue # << >> /\ LiveHead
            /\ Head(queue).ec = "ok" /\ Head(queue).s = from
            /\ requests[sid[from]] = s
<1>1. /\ phase[s] = "started" /\ phase'[s] = "done"
      /\ answers[s] \in Seq(Senders) /\ answers'[s] = Append(answers[s], from)
  BY DEF Completes, Settles, TypeOK
<1>2. ASSUME NEW r \in Sessions, NEW f \in Senders, NEW q, Resolve(r, f, q)
      PROVE  r = s /\ f = from
  <2>1. CASE AlreadyDone(r)
    BY <1>1, <1>2, <2>1 DEF Resolve, AlreadyDone
  <2>2. CASE ~AlreadyDone(r)
    <3>1. r = s
      BY <1>1, <1>2, <2>2 DEF Resolve, TypeOK
    <3>2. answers'[s] = Append(answers[s], f)
      BY <1>2, <2>2, <3>1 DEF Resolve, TypeOK
    <3> QED
      <4>1. Append(answers[s], f) = Append(answers[s], from)
        BY <1>1, <3>2
      <4>2. f = from
        BY <1>1, <1>2, <4>1, AppendInjective
      <4> QED
        BY <3>1, <4>2
  <2> QED
    BY <2>1, <2>2
<1>3. ASSUME UNCHANGED phase
      PROVE  FALSE
  BY <1>1, <1>3
<1>4. ASSUME NEW r \in Sessions, SendCommand(r)
      PROVE  FALSE
  BY <1>1, <1>4, SendSerial
<1>5. CASE OnReset
  <2>1. Head(queue).s \in Sessions /\ phase' = [phase EXCEPT ![Head(queue).s] = "freed"]
    BY <1>5, HeadType DEF OnReset, Ready
  <2> QED
    BY <1>1, <2>1 DEF TypeOK
<1>6. CASE OnSend \/ OnTimer
  <2>1. Head(queue).s \in Sessions /\ NoSession \in Senders
    BY <1>6, HeadType DEF OnSend, OnTimer, Ready, Senders
  <2>2. Resolve(Head(queue).s, NoSession, Tail(queue))
    BY <1>3, <1>6 DEF OnSend, OnTimer
  <2> QED
    BY <1>2, <2>1, <2>2
<1>7. CASE OnReceive
  <2> DEFINE h == Head(queue)
             handler == IF h.ec = "ok" THEN requests[sid[h.s]] ELSE NoSession
  <2>1. /\ queue # << >> /\ h.op = "receive" /\ h.s \in Senders /\ handler \in Senders
        /\ h \in Handlers
    BY <1>7, HeadType, RegisteredType DEF OnReceive, Ready, Senders
  <2>2. h.ec # "canceled" /\ handler # NoSession /\ Resolve(handler, h.s, Tail(queue))
    BY <1>3, <1>7 DEF OnReceive
  <2>3. handler = s /\ h.s = from
    <3> HIDE DEF handler
    <3>1. handler \in Sessions
      BY <2>1, <2>2 DEF Senders
    <3> QED
      BY <1>2, <2>1, <2>2, <3>1
  <2>4. h.ec = "ok" /\ requests[sid[h.s]] = s
    BY <2>2, <2>3
  <2> QED
    BY <2>1, <2>2, <2>3, <2>4 DEF LiveHead
<1>8. \/ UNCHANGED phase
      \/ \E r \in Sessions : SendCommand(r)
      \/ OnReset \/ OnSend \/ OnTimer \/ OnReceive
  BY DEF Next, Dispatch, DeadlinePasses, TimerEnds, ReceiveEnds, Close, SendEnds, vars
<1> QED
  BY <1>3, <1>4, <1>5, <1>6, <1>7, <1>8

\* A reply to another command is one to a command sent at least IdSpace before.
LEMMA ReplyIsOldOrOwn ==
  ASSUME TypeOK, HandlerTable, Serials, OnTheWire, [Next]_vars,
         NEW s \in Sessions, NEW from \in Senders, Completes(s, from),
         from \notin {s, NoSession}
  PROVE  from \in Sessions /\ phase[from] # "idle" /\ serial[s] - serial[from] >= IdSpace
<1>1. /\ from \in Sessions /\ from # s /\ phase[s] = "started"
      /\ serial[s] \in Nat /\ serial[from] \in Nat /\ IdSpace \in Nat \ {0}
  BY IdSpaceAssumption DEF Senders, Completes, Settles, TypeOK
<1>2. /\ queue # << >> /\ LiveHead /\ Head(queue).ec = "ok" /\ Head(queue).s = from
      /\ requests[sid[from]] = s
  BY ResolvedById
<1>3. 1 \in LiveReceives /\ queue[1] = Head(queue)
  <2>1. queue \in Seq(Handlers) /\ Len(queue) \in Nat \ {0} /\ DOMAIN queue = 1 .. Len(queue)
    BY <1>2, EmptySeq, LenProperties DEF TypeOK
  <2> QED
    BY <1>2, <2>1 DEF LiveReceives, LiveHead
<1>4. Begun(from)
  BY <1>2, <1>3 DEF OnTheWire
<1>5. sid[s] = sid[from]
  BY <1>1, <1>2 DEF HandlerTable, TypeOK
<1>6. ~(serial[s] < serial[from])
  BY <1>1, <1>4, <1>5 DEF Serials, Superseded
<1>7. \/ serial[s] - serial[from] >= IdSpace
      \/ serial[from] - serial[s] >= IdSpace
  BY <1>1, <1>4, <1>5 DEF Serials, SidsApart, Begun
<1> QED
  BY <1>1, <1>4, <1>6, <1>7 DEF Begun

\* What a command was answered with stays true when later commands are sent.
RepliesAreOld ==
  \A s \in Sessions : \A k \in DOMAIN answers[s] :
    \/ answers[s][k] \in {s, NoSession}
    \/ /\ phase[s] # "idle" /\ phase[answers[s][k]] # "idle"
       /\ answers[s][k] \in Sessions
       /\ serial[s] - serial[answers[s][k]] >= IdSpace

LEMMA RepliesAreOldInvariant == Spec => []RepliesAreOld
<1>1. Init => RepliesAreOld
  BY DEF Init, RepliesAreOld
<1>2. /\ TypeOK /\ Lives /\ HandlerTable /\ Serials /\ OnTheWire
      /\ RepliesAreOld /\ [Next]_vars
      => RepliesAreOld'
  <2> SUFFICES ASSUME TypeOK, Lives, HandlerTable, Serials, OnTheWire,
                      RepliesAreOld, [Next]_vars,
                      NEW s \in Sessions, NEW k \in DOMAIN answers'[s]
               PROVE  \/ answers'[s][k] \in {s, NoSession}
                      \/ /\ phase'[s] # "idle" /\ phase'[answers'[s][k]] # "idle"
                         /\ answers'[s][k] \in Sessions
                         /\ serial'[s] - serial'[answers'[s][k]] >= IdSpace
    BY DEF RepliesAreOld
  <2>1. \A r \in Sessions : phase[r] # "idle" => phase'[r] # "idle" /\ serial'[r] = serial[r]
    BY PhasesProceed, SendSerial
  <2>2. ASSUME k \in DOMAIN answers[s], answers'[s][k] = answers[s][k]
        PROVE  \/ answers'[s][k] \in {s, NoSession}
               \/ /\ phase'[s] # "idle" /\ phase'[answers'[s][k]] # "idle"
                  /\ answers'[s][k] \in Sessions
                  /\ serial'[s] - serial'[answers'[s][k]] >= IdSpace
    BY <2>1, <2>2 DEF RepliesAreOld
  <2>3. CASE UNCHANGED answers
    BY <2>2, <2>3
  <2>4. ASSUME NEW r \in Sessions, NEW from \in Senders, Completes(r, from)
        PROVE  \/ answers'[s][k] \in {s, NoSession}
               \/ /\ phase'[s] # "idle" /\ phase'[answers'[s][k]] # "idle"
                  /\ answers'[s][k] \in Sessions
                  /\ serial'[s] - serial'[answers'[s][k]] >= IdSpace
    <3>1. CASE r # s
      <4>1. answers'[s] = answers[s]
        BY <2>4, <3>1 DEF Completes, Settles, TypeOK
      <4> QED
        BY <2>2, <4>1
    <3>2. CASE r = s
      <4>1. answers[s] \in Seq(Senders) /\ answers'[s] = Append(answers[s], from)
        BY <2>4, <3>2 DEF Completes, Settles, TypeOK
      <4>2. /\ DOMAIN answers'[s] = 1 .. Len(answers[s]) + 1
            /\ DOMAIN answers[s] = 1 .. Len(answers[s]) /\ Len(answers[s]) \in Nat
            /\ \A j \in 1 .. Len(answers[s]) : answers'[s][j] = answers[s][j]
            /\ answers'[s][Len(answers[s]) + 1] = from
        BY <4>1, AppendProperties, LenProperties
      <4>3. CASE k \in DOMAIN answers[s]
        BY <2>2, <4>2, <4>3
      <4>4. CASE k = Len(answers[s]) + 1 /\ from \notin {s, NoSession}
        <5>1. /\ from \in Sessions /\ phase[from] # "idle"
              /\ serial[s] - serial[from] >= IdSpace
          BY <2>4, <3>2, <4>4, ReplyIsOldOrOwn
        <5>2. phase[s] # "idle"
          BY <2>4, <3>2 DEF Completes, Settles
        <5> QED
          BY <2>1, <4>2, <4>4, <5>1, <5>2
      <4> QED
        BY <4>2, <4>3, <4>4
    <3> QED
      BY <3>1, <3>2
  <2>5. \/ UNCHANGED answers
        \/ \E r \in Sessions, from \in Senders : Completes(r, from)
    BY StepCases, ResetOfDone DEF SendCommand, TimerEnds, Grows, Idles, Quiet
  <2> QED
    BY <2>3, <2>4, <2>5
<1> QED
  BY <1>1, <1>2, TypeCorrect, LivesInvariant, TableIsExact, SerialsInvariant,
     OnTheWireInvariant, PTL DEF Spec

\* Only a command that reuses the id of one sent at least IdSpace commands earlier can be
\* answered with the reply to another.
THEOREM WrongRepliesAreWraps == Spec => []WrongReplyNeedsWrap
<1>1. RepliesAreOld => WrongReplyNeedsWrap
  BY DEF RepliesAreOld, WrongReplyNeedsWrap
<1> QED
  BY <1>1, RepliesAreOldInvariant, PTL

-----------------------------------------------------------------------------
(* The promise.                                                            *)

\* The state of a command as its caller sees it.
PromiseState(s) ==
  CASE phase[s] = "idle"    -> "unsent"
    [] phase[s] = "leaked"  -> "refused"
    [] phase[s] = "started" -> "pending"
    [] OTHER                -> "answered"

PromiseAnswer(s) == IF answers[s] = << >> THEN NoSession ELSE answers[s][1]

\* A step that a caller does not see.
LEMMA StutterStep ==
  ASSUME UNCHANGED <<answers, serial, allocs>>, Running' = Running,
         \A s \in Sessions : PromiseState(s)' = PromiseState(s)
  PROVE  UNCHANGED Promise!vars
<1>1. [s \in Sessions |-> PromiseState(s)'] = [s \in Sessions |-> PromiseState(s)]
  OBVIOUS
<1> QED
  BY <1>1 DEF Promise!vars, PromiseState

\* Sending is sending, or being refused.
LEMMA SendStep ==
  ASSUME TypeOK, HandlerTable, Serials, Running, NEW x \in Sessions, SendCommand(x)
  PROVE  Promise!Send(x) \/ Promise!Refuse(x)
<1>1. /\ phase[x] = "idle" /\ UNCHANGED answers
      /\ serial' = [serial EXCEPT ![x] = allocs] /\ allocs' = allocs + 1
  BY DEF SendCommand
<1>2. Promise!Take(x)
  BY <1>1 DEF Promise!Take, Running
<1>3. CASE phase' = [phase EXCEPT ![x] = "started"] /\ status' = status
  BY <1>1, <1>2, <1>3 DEF Promise!Send, Running, TypeOK
<1>4. CASE phase' = [phase EXCEPT ![x] = "leaked"] /\ status' = "threw" /\ IdTaken(nextId)
  <2> DEFINE r == requests[nextId]
  <2>1. r \in Sessions /\ nextId \in Ids
    BY <1>4 DEF IdTaken, TypeOK, Senders
  <2>2. phase[r] = "started" /\ sid[r] = nextId
    BY <2>1 DEF HandlerTable
  <2> HIDE DEF r
  <2>3. allocs - serial[r] >= IdSpace
    BY <2>1, <2>2, SameIdIsOld DEF Serials
  <2> QED
    BY <1>1, <1>2, <1>4, <2>1, <2>2, <2>3
    DEF Promise!Refuse, Promise!MayShareId, Running, TypeOK
<1> QED
  BY <1>3, <1>4 DEF SendCommand

\* Resolving is answering.
LEMMA AnswerStep ==
  ASSUME TypeOK, HandlerTable, AnsweredOnce, Serials, OnTheWire, [Next]_vars,
         Running, UNCHANGED status,
         NEW s \in Sessions, NEW from \in Senders, Completes(s, from)
  PROVE  Promise!Answer(s, from)
<1>1. /\ phase[s] = "started" /\ phase' = [phase EXCEPT ![s] = "done"]
      /\ answers' = [answers EXCEPT ![s] = Append(@, from)]
      /\ UNCHANGED <<serial, allocs>>
  BY DEF Completes, Settles, history
<1>2. answers[s] = << >> /\ answers'[s] = <<from>>
  <2>1. answers[s] \in Seq(Senders) /\ Len(answers[s]) = 0
    BY <1>1 DEF AnsweredOnce, TypeOK
  <2>2. answers[s] = << >>
    BY <2>1, EmptySeq
  <2> QED
    BY <1>1, <2>2 DEF TypeOK
<1>3. from \in {s, NoSession} \/ Promise!MayShareId(serial[s], from)
  BY <1>1, ReplyIsOldOrOwn DEF Promise!MayShareId
<1>4. [t \in Sessions |-> PromiseState(t)']
        = [[t \in Sessions |-> PromiseState(t)] EXCEPT ![s] = "answered"]
  BY <1>1 DEF PromiseState, TypeOK
<1>5. [t \in Sessions |-> PromiseAnswer(t)']
        = [[t \in Sessions |-> PromiseAnswer(t)] EXCEPT ![s] = from]
  <2>1. \A t \in Sessions \ {s} : answers'[t] = answers[t]
    BY <1>1 DEF TypeOK
  <2>2. <<from>> # << >> /\ <<from>>[1] = from
    OBVIOUS
  <2>3. PromiseAnswer(s)' = from
    BY <1>2, <2>2 DEF PromiseAnswer
  <2>4. \A t \in Sessions \ {s} : PromiseAnswer(t)' = PromiseAnswer(t)
    BY <2>1 DEF PromiseAnswer
  <2> QED
    BY <2>3, <2>4
<1> QED
  BY <1>1, <1>3, <1>4, <1>5 DEF Promise!Answer, PromiseState, PromiseAnswer, Running

\* The program stops for three reasons: a request was refused, it had stopped before, or a
\* handler used a destroyed session, of a command that was answered long ago.
LEMMA StatusCases ==
  ASSUME TypeOK, [Next]_vars
  PROVE  \/ UNCHANGED vars
         \/ /\ Running
            /\ \/ UNCHANGED status
               \/ \E s \in Sessions : SendCommand(s)
               \/ /\ status' = "crashed" /\ UNCHANGED <<phase, answers, serial, allocs>>
                  /\ \E s \in Sessions : phase[s] = "freed"
<1> DEFINE Stopped == /\ status' = "crashed" /\ UNCHANGED <<phase, answers, serial, allocs>>
                      /\ \E s \in Sessions : phase[s] = "freed"
<1>1. ASSUME Running, UNCHANGED <<serial, allocs>>,
             NEW s \in Sessions, NEW from, NEW q, Resolve(s, from, q)
      PROVE  UNCHANGED status \/ Stopped
  <2>1. CASE AlreadyDone(s) /\ phase[s] = "freed"
    BY <1>1, <2>1 DEF Resolve, AlreadyDone, Running
  <2>2. CASE AlreadyDone(s) /\ phase[s] # "freed"
    BY <1>1, <2>2 DEF Resolve, AlreadyDone
  <2>3. CASE ~AlreadyDone(s)
    BY <1>1, <2>3 DEF Resolve, AlreadyDone
  <2> QED
    BY <2>1, <2>2, <2>3
<1>2. CASE Running /\ (OnSend \/ OnTimer)
  <2>1. Head(queue).s \in Sessions
    BY <1>2, HeadType DEF OnSend, OnTimer, Ready
  <2>2. UNCHANGED status \/ Resolve(Head(queue).s, NoSession, Tail(queue))
    BY <1>2 DEF OnSend, OnTimer
  <2>3. UNCHANGED <<serial, allocs>>
    BY <1>2 DEF OnSend, OnTimer, history
  <2> QED
    BY <1>1, <1>2, <2>1, <2>2, <2>3
<1>3. CASE Running /\ OnReceive
  <2> DEFINE h == Head(queue)
             handler == IF h.ec = "ok" THEN requests[sid[h.s]] ELSE NoSession
  <2>1. handler \in Senders
    BY <1>3, HeadType, RegisteredType DEF OnReceive, Ready, Senders
  <2>2. \/ UNCHANGED status
        \/ handler # NoSession /\ Resolve(handler, h.s, Tail(queue))
    BY <1>3 DEF OnReceive
  <2>3. UNCHANGED <<serial, allocs>>
    BY <1>3 DEF OnReceive, history
  <2> HIDE DEF handler
  <2>4. handler # NoSession => handler \in Sessions
    BY <2>1 DEF Senders
  <2> QED
    BY <1>1, <1>3, <2>2, <2>3, <2>4
<1>4. CASE Running /\ OnReset
  BY <1>4 DEF OnReset
<1> QED
  BY <1>2, <1>3, <1>4
  DEF Next, Dispatch, DeadlinePasses, TimerEnds, ReceiveEnds, Close, SendEnds

\* The client keeps the promise of sendCommand: it answers a command once, with its own
\* reply or an error, and what it does beyond that needs a wrap of the ids.
THEOREM ImplementsPromise == Spec => KeepsPromise
<1>1. Init => Promise!Init
  BY DEF Init, Promise!Init, Running
<1>2. /\ TypeOK /\ Lives /\ HandlerTable /\ AnsweredOnce /\ Serials /\ OnTheWire
      /\ [Next]_vars
      => [Promise!Next]_(Promise!vars)
  <2> SUFFICES ASSUME TypeOK, Lives, HandlerTable, AnsweredOnce, Serials, OnTheWire,
                      [Next]_vars
               PROVE  Promise!Next \/ UNCHANGED Promise!vars
    OBVIOUS
  <2>1. CASE UNCHANGED vars
    BY <2>1, StutterStep DEF vars, history, Running, PromiseState
  <2>2. CASE Running /\ \E s \in Sessions : SendCommand(s)
    BY <2>2, SendStep DEF Promise!Next
  <2>3. CASE /\ Running /\ status' = "crashed" /\ UNCHANGED <<phase, answers, serial, allocs>>
             /\ \E s \in Sessions : phase[s] = "freed"
    <3>1. \E s \in Sessions : PromiseState(s) = "answered"
      BY <2>3 DEF PromiseState
    <3> QED
      BY <2>3, <3>1 DEF Promise!Next, Promise!Stop, Running, PromiseState
  <2>4. CASE Running /\ UNCHANGED status
    <3>1. CASE \E s \in Sessions : SendCommand(s)
      BY <2>2, <2>4, <3>1
    <3>2. CASE \/ \E s \in Sessions : TimerEnds(s)
               \/ Grows
               \/ Idles
      <4>1. UNCHANGED <<phase, answers, serial, allocs>>
        BY <3>2 DEF TimerEnds, Grows, Idles, Quiet, history
      <4> QED
        BY <2>4, <4>1, StutterStep DEF PromiseState, Running
    <3>3. ASSUME NEW s \in Sessions, NEW from \in Senders, Completes(s, from)
          PROVE  Promise!Next
      BY <2>4, <3>3, AnswerStep DEF Promise!Next, Senders
    <3>4. CASE OnReset
      <4>1. \A s \in Sessions : PromiseState(s)' = PromiseState(s)
        BY <3>4, ResetOfDone DEF PromiseState, TypeOK
      <4>2. UNCHANGED <<answers, serial, allocs>>
        BY <3>4 DEF OnReset, history
      <4> QED
        BY <2>4, <4>1, <4>2, StutterStep DEF Running
    <3> QED
      BY <3>1, <3>2, <3>3, <3>4, StepCases
  <2> QED
    BY <2>1, <2>2, <2>3, <2>4, StatusCases
<1> QED
  BY <1>1, <1>2, TypeCorrect, LivesInvariant, TableIsExact, CallbackOnce,
     SerialsInvariant, OnTheWireInvariant, PTL
  DEF Spec, KeepsPromise, Promise!Spec

=============================================================================
