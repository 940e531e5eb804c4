----------------------------- MODULE FileSession -----------------------------
(***************************************************************************)
(* What ReadFileSession and WriteFileSession have in common: one transfer  *)
(* over a connected client, from its start to stopSession.  ReadFile and   *)
(* WriteFile extend this module with their onResponse and with the         *)
(* controller's half of the protocol.                                      *)
(*                                                                         *)
(* The io_context is as in UdpClient: a first-in first-out queue of ready  *)
(* handlers, with one receive in progress while none is queued.  Every     *)
(* handler holds a shared_ptr to the session, so its life needs no model.  *)
(* A datagram that was sent stays in its set: it may be delivered late,    *)
(* again, or never, and in any order.                                      *)
(***************************************************************************)
EXTENDS Integers, Sequences

CONSTANT MaxBlocks   \* bound on the length of a file, in blocks

ASSUME MaxBlocksAssumption == MaxBlocks \in Nat

VARIABLES
  started,       \* start was called
  done,          \* done_
  registered,    \* the client has a handler for request_id_
  timer,         \* whether timer_ has a wait in progress
  open,          \* the socket is open
  sending,       \* the datagrams of the sends in progress, oldest first
  queue,         \* the handlers that are ready, in the order they will run
  results,       \* history: what on_done_ was called with
  toController,  \* datagrams sent to the controller
  toClient       \* datagrams sent to the client

session == <<started, done, registered, timer, results>>
network == <<toController, toClient>>

Request == [block |-> 0, last |-> FALSE]

\* A handler: of which operation, how it ended, and the datagram of a receive.
Handler(op, ec, datagram) == [op |-> op, ec |-> ec, datagram |-> datagram]

InitSession ==
  /\ started = FALSE
  /\ done = FALSE
  /\ registered = FALSE
  /\ timer = "off"
  /\ open = TRUE
  /\ sending = << >>
  /\ queue = << >>
  /\ results = << >>
  /\ toController = {}
  /\ toClient = {}

\* async_send: on a closed socket it fails at once.
Sends(datagram) ==
  IF open THEN sending' = Append(sending, datagram) /\ UNCHANGED queue
          ELSE queue' = Append(queue, Handler("send", "error", datagram)) /\ UNCHANGED sending

\* Mutant: the timeout is never started.
ResetTimeoutNot == timer

\* resetTimeout
ResetTimeout == "waiting"

\* start: register the handler, send the command, start the timeout.
Start ==
  /\ ~started
  /\ started' = TRUE
  /\ registered' = TRUE
  /\ timer' = ResetTimeout
  /\ Sends(Request)
  /\ UNCHANGED <<done, open, results, network>>

\* Client::close: the sends in progress fail, the receive is canceled.  A call of it
\* from a callback comes to the same as one right after the handler.
Close ==
  /\ open
  /\ open' = FALSE
  /\ sending' = << >>
  /\ queue' = queue \o [i \in 1 .. Len(sending) |-> Handler("send", "error", sending[i])]
  /\ UNCHANGED <<session, network>>

-----------------------------------------------------------------------------
(* Operations that end.                                                    *)

SendEnds ==
  /\ sending # << >>
  /\ sending' = Tail(sending)
  /\ \E ec \in {"ok", "error"} :
       /\ queue' = Append(queue, Handler("send", ec, Head(sending)))
       /\ toController' = IF ec = "ok" THEN toController \union {Head(sending)}
                                       ELSE toController
  /\ UNCHANGED <<session, open, toClient>>

DeadlinePasses ==
  /\ timer = "waiting"
  /\ timer' = "off"
  /\ queue' = Append(queue, Handler("timer", "ok", Request))
  /\ UNCHANGED <<started, done, registered, results, open, sending, network>>

Receiving == open /\ \A k \in DOMAIN queue : queue[k].op # "receive"

Arrives(datagram) ==
  /\ Receiving
  /\ datagram \in toClient
  /\ queue' = Append(queue, Handler("receive", "ok", datagram))
  /\ UNCHANGED <<session, open, sending, network>>

-----------------------------------------------------------------------------
(* Handlers.                                                               *)

\* Mutant: a session that is done is stopped again.
IsDoneNot == FALSE

IsDone == done

AbortedWait ==
  IF timer = "waiting" THEN <<Handler("timer", "canceled", Request)>> ELSE << >>

\* stopSession, with q the queue as it is by then.
StopSession(result, q) ==
  IF IsDone
  THEN queue' = q /\ UNCHANGED session
  ELSE /\ done' = TRUE
       /\ timer' = "off"
       /\ queue' = q \o AbortedWait
       /\ registered' = FALSE
       /\ results' = Append(results, result)
       /\ UNCHANGED started

Ready(op) == queue # << >> /\ Head(queue).op = op

\* The handler of an async_send, of the request or of an acknowledgement.
OnSend ==
  /\ Ready("send")
  /\ IF Head(queue).ec = "ok" THEN queue' = Tail(queue) /\ UNCHANGED session
                              ELSE StopSession("sendError", Tail(queue))
  /\ UNCHANGED <<open, sending, network>>

\* The handler of the wait that resetTimeout began.
OnTimer ==
  /\ Ready("timer")
  /\ IF Head(queue).ec = "canceled" THEN queue' = Tail(queue) /\ UNCHANGED session
                                    ELSE StopSession("timedOut", Tail(queue))
  /\ UNCHANGED <<open, sending, network>>

\* onReceive finds no handler: the session has ended.
OnStray ==
  /\ Ready("receive")
  /\ ~registered
  /\ queue' = Tail(queue)
  /\ UNCHANGED <<session, open, sending, network>>

-----------------------------------------------------------------------------
(* Properties of every transfer.                                           *)

\* on_done_ is called once, however reply, failed sends and deadline race, and
\* exactly then the handler is gone and no wait is in progress.
EndsOnce ==
  /\ Len(results) = IF done THEN 1 ELSE 0
  /\ registered <=> started /\ ~done
  /\ timer = "waiting" => registered
  /\ registered => \/ timer = "waiting"
                   \/ \E k \in DOMAIN queue : queue[k].op = "timer" /\ queue[k].ec = "ok"

=============================================================================
