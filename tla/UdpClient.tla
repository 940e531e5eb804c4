------------------------------ MODULE UdpClient ------------------------------
(***************************************************************************)
(* A connected udp::Client and the commands sent through it with           *)
(* Client::sendCommand: the table of request ids, the receive loop, and    *)
(* for each command the CommandSession inside its DeadlineSession.         *)
(*                                                                         *)
(* Everything runs on one io_context thread.  `queue' is its queue of      *)
(* ready completion handlers: it is first-in first-out, and each handler   *)
(* runs to its end before the next (asio's guarantee for a single thread   *)
(* in run()).  Operations that are still in progress (a send, a receive,   *)
(* a timer wait) are not in the queue; completing or cancelling one puts   *)
(* its handler at the back.                                                *)
(*                                                                         *)
(* The network loses, delays, duplicates and reorders datagrams: once the  *)
(* request of a session is on the wire, a reply to it may arrive at any    *)
(* later time, any number of times, or never.                              *)
(***************************************************************************)
EXTENDS Integers, Sequences

CONSTANTS
  Sessions,   \* the commands the application sends, one CommandSession each
  NoSession,  \* stands for "no handler" and "no sender"
  IdSpace     \* number of request ids: 256 for the std::uint8_t of the code

ASSUME NoSessionAssumption == NoSession \notin Sessions
ASSUME IdSpaceAssumption == IdSpace \in Nat \ {0, 1}

VARIABLES
  status,     \* "running"; "threw": a std::logic_error left io_context::run();
              \* "crashed": a handler used a destroyed session
  open,       \* Client::socket_ is open
  receiving,  \* number of async_receive operations in progress
  sendq,      \* the async_send operations in progress, oldest first
  queue,      \* handlers ready to run, in the order they will run
  nextId,     \* Client::request_id_
  requests,   \* Client::requests_: whose handler is registered for each id
  phase,      \* life of each session object
  sid,        \* CommandSession::request_id_
  timer,      \* whether DeadlineSession::timer_ has a wait in progress
  sent,       \* sessions whose request datagram is on the wire
  answers,    \* history: the calls of the application's callback, each by the
              \* session whose reply it got, NoSession for a local error
  serial,     \* history: place of a session in the order of allocation
  allocs      \* history: number of ids allocated so far

network == <<sendq, sent>>
history == <<serial, allocs>>
vars == <<status, open, receiving, network, queue, nextId, requests, phase,
          sid, timer, answers, history>>

Ids == 0 .. IdSpace - 1
Senders == Sessions \union {NoSession}

\* "idle": not constructed yet.  "leaked": start threw, so the object is kept
\* alive by its own callback and is never resolved.  "started": registered.
\* "done": done_ is set.  "freed": the last shared_ptr was reset.
Phases == {"idle", "leaked", "started", "done", "freed"}

\* A completion handler: of which operation, for which session (for a receive:
\* the session whose request the datagram answers), and how the operation
\* ended.  A receive with "error" is an error of the socket or a datagram that
\* decodeResponseHeader refuses.
Handlers ==
  [op : {"send"}, s : Sessions, ec : {"ok", "error"}]
    \union [op : {"timer"}, s : Sessions, ec : {"ok", "canceled"}]
    \union [op : {"reset"}, s : Sessions, ec : {"ok"}]
    \union [op : {"receive"}, s : Sessions, ec : {"ok"}]
    \union [op : {"receive"}, s : {NoSession}, ec : {"error", "canceled"}]

Handler(op, s, ec) == [op |-> op, s |-> s, ec |-> ec]

\* Type correctness: among others request ids stay in the range of the
\* std::uint8_t they are stored in (client.hpp: request_id_, requests_).
TypeOK ==
  /\ status \in {"running", "threw", "crashed"}
  /\ open \in BOOLEAN
  /\ receiving \in Nat
  /\ sendq \in Seq(Sessions)
  /\ queue \in Seq(Handlers)
  /\ nextId \in Ids
  /\ requests \in [Ids -> Senders]
  /\ phase \in [Sessions -> Phases]
  /\ sid \in [Sessions -> Ids]
  /\ timer \in [Sessions -> {"off", "waiting"}]
  /\ sent \subseteq Sessions
  /\ answers \in [Sessions -> Seq(Senders)]
  /\ serial \in [Sessions -> Nat]
  /\ allocs \in Nat

\* A client whose connection attempt just succeeded: onConnect called receive().
Init ==
  /\ status = "running"
  /\ open = TRUE
  /\ receiving = 1
  /\ sendq = << >>
  /\ queue = << >>
  /\ nextId = 1
  /\ requests = [i \in Ids |-> NoSession]
  /\ phase = [s \in Sessions |-> "idle"]
  /\ sid = [s \in Sessions |-> 0]
  /\ timer = [s \in Sessions |-> "off"]
  /\ sent = {}
  /\ answers = [s \in Sessions |-> << >>]
  /\ serial = [s \in Sessions |-> 0]
  /\ allocs = 0

-----------------------------------------------------------------------------
(* Sending a command and closing the client.                               *)

\* Mutants: an id that does not wrap, and one that is never advanced.
IncrementIdNoWrap(i) == i + 1
IncrementIdNot(i) == i

\* Client::allocateId post-increments a std::uint8_t, which wraps.
IncrementId(i) == (i + 1) % IdSpace

\* Mutant: the deadline is never armed.
StartTimerNot(s) == timer

StartTimer(s) == [timer EXCEPT ![s] = "waiting"]

\* Client::registerHandler inserts only where the id has no handler.
IdTaken(i) == requests[i] # NoSession

\* impl::sendCommand: the constructor takes an id and encodes the command,
\* then DeadlineSession::start calls CommandSession::start (register the
\* handler, begin the send) and arms the timer.  registerHandler throws when
\* the id still has a handler; nothing in the repository catches it.
SendCommand(s) ==
  /\ phase[s] = "idle"
  /\ sid' = [sid EXCEPT ![s] = nextId]
  /\ nextId' = IncrementId(nextId)
  /\ serial' = [serial EXCEPT ![s] = allocs]
  /\ allocs' = allocs + 1
  /\ UNCHANGED <<open, receiving, sent, answers>>
  /\ \/ /\ IdTaken(nextId)
        /\ status' = "threw"
        /\ phase' = [phase EXCEPT ![s] = "leaked"]
        /\ UNCHANGED <<requests, timer, sendq, queue>>
     \/ /\ ~IdTaken(nextId)
        /\ phase' = [phase EXCEPT ![s] = "started"]
        /\ requests' = [requests EXCEPT ![nextId] = s]
        /\ timer' = StartTimer(s)
        /\ UNCHANGED status
        /\ \/ /\ open
              /\ sendq' = Append(sendq, s)
              /\ UNCHANGED queue
           \/ /\ ~open   \* async_send on a closed socket fails at once
              /\ queue' = Append(queue, Handler("send", s, "error"))
              /\ UNCHANGED sendq

\* The handlers asio queues when the socket is closed: those of everything in
\* progress on it.
Aborted ==
  [i \in 1 .. receiving |-> Handler("receive", NoSession, "canceled")]
    \o [i \in 1 .. Len(sendq) |-> Handler("send", sendq[i], "error")]

\* Mutant: the reset is dispatched, ahead of the queue, instead of posted.
ApplicationDispatch(before, after) ==
  queue' = after \o before /\ UNCHANGED <<open, sendq>>

\* Application code that runs with `before' queued, after which the client
\* queues `after'.  It may call Client::close, as the repository's tools do in
\* on_error and in the callbacks of their commands.  A command that it sends is
\* a SendCommand right after the handler: its id is free or taken just as it was
\* inside, and nothing runs in between.  Only when that SendCommand throws does
\* the order show: the `after' and the receive that follow here are never
\* reached in the code, where the throw skips them.  Nothing runs any more then,
\* and what is said of the queue and of the receives is said while Running.
Application(before, after) ==
  \/ /\ queue' = before \o after
     /\ UNCHANGED <<open, sendq>>
  \/ /\ open
     /\ open' = FALSE
     /\ sendq' = << >>
     /\ queue' = before \o Aborted \o after

StillReceiving == IF open' THEN receiving ELSE 0

\* Client::close, called from elsewhere.
Close ==
  /\ Application(queue, << >>)
  /\ ~open'
  /\ receiving' = StillReceiving
  /\ UNCHANGED <<status, nextId, requests, phase, sid, timer, sent, answers,
                 history>>

-----------------------------------------------------------------------------
(* Operations that end: the kernel, the clock and the controller.          *)

Enqueue(h) == queue' = Append(queue, h)

\* The oldest send ends.  The write buffer belongs to the session: when the
\* session is gone already, what is sent need not be its request any more.
SendEnds ==
  /\ sendq # << >>
  /\ sendq' = Tail(sendq)
  /\ LET s == Head(sendq) IN
     \/ /\ Enqueue(Handler("send", s, "ok"))
        /\ \/ sent' = sent \union {s}
           \/ phase[s] = "freed" /\ sent' = sent
     \/ /\ Enqueue(Handler("send", s, "error"))
        /\ UNCHANGED sent
  /\ UNCHANGED <<status, open, receiving, nextId, requests, phase, sid, timer,
                 answers, history>>

\* The deadline passes.  (A wait that ends with another error resolves twice,
\* which differs only in the error reported.)
TimerEnds(s) ==
  /\ timer[s] = "waiting"
  /\ timer' = [timer EXCEPT ![s] = "off"]
  /\ Enqueue(Handler("timer", s, "ok"))
  /\ UNCHANGED <<status, open, receiving, network, nextId, requests, phase,
                 sid, answers, history>>

\* A receive ends: with a reply to the request of s or without a usable header.
ReceiveEnds(s, ec) ==
  /\ receiving > 0
  /\ receiving' = receiving - 1
  /\ \/ s \in sent /\ ec = "ok"
     \/ s = NoSession /\ ec = "error"
  /\ Enqueue(Handler("receive", s, ec))
  /\ UNCHANGED <<status, open, network, nextId, requests, phase, sid, timer,
                 answers, history>>

-----------------------------------------------------------------------------
(* Handlers, each run to its end by the io_context.                        *)

Ready(op) == queue # << >> /\ Head(queue).op = op

\* Mutant: resolve does not look at done_.
AlreadyDoneNot(s) == FALSE

\* done_.test_and_set() in CommandSession::resolve.
AlreadyDone(s) == phase[s] # "started"

\* Mutant: resolve leaves the handler registered.
UnregisterNot(s) == requests

\* Client::removeHandler
Unregister(s) == [requests EXCEPT ![sid[s]] = NoSession]

\* DeadlineSession::cancelTimeout: the wait in progress, if any, is aborted.
AbortedWait(s) ==
  IF timer[s] = "waiting" THEN <<Handler("timer", s, "canceled")>> ELSE << >>

\* CommandSession::resolve, which calls the callback impl::sendCommand gave it:
\* cancel the timer, call the application, post the reset of the session.
\* `from' is the session whose reply this is, and q the rest of the queue.
\* Called on a destroyed session, it reads the done_ of a dead object.
Resolve(s, from, q) ==
  \/ /\ AlreadyDone(s)
     /\ queue' = q
     /\ status' \in IF phase[s] = "freed" THEN {"running", "crashed"} ELSE {status}
     /\ UNCHANGED <<open, sendq, phase, requests, timer, answers>>
  \/ /\ ~AlreadyDone(s)
     /\ UNCHANGED status
     /\ phase' = [phase EXCEPT ![s] = "done"]
     /\ requests' = Unregister(s)
     /\ timer' = [timer EXCEPT ![s] = "off"]
     /\ answers' = [answers EXCEPT ![s] = Append(@, from)]
     /\ Application(q \o AbortedWait(s), <<Handler("reset", s, "ok")>>)

\* Mutant: receive does not look whether the socket is open.
ReceiveAlways == receiving' = receiving + 1

\* Client::receive, after the rest of the handler.
Receive == receiving' = IF open' THEN receiving + 1 ELSE StillReceiving

\* Client::onReceive: a canceled receive ends the loop; without a handler for
\* the datagram on_error is called; otherwise the handler is.
OnReceive ==
  /\ Ready("receive")
  /\ UNCHANGED <<sent, nextId, sid, history>>
  /\ LET h == Head(queue)
         handler == IF h.ec = "ok" THEN requests[sid[h.s]] ELSE NoSession
     IN
     \/ /\ h.ec = "canceled"
        /\ queue' = Tail(queue)
        /\ UNCHANGED <<status, open, sendq, receiving, phase, requests, timer,
                       answers>>
     \/ /\ h.ec # "canceled"
        /\ handler = NoSession
        /\ Application(Tail(queue), << >>)
        /\ Receive
        /\ UNCHANGED <<status, phase, requests, timer, answers>>
     \/ /\ h.ec # "canceled"
        /\ handler # NoSession
        /\ Resolve(handler, h.s, Tail(queue))
        /\ Receive

\* The async_send handler of CommandSession::start: it looks at the session
\* only after an error.
OnSend ==
  /\ Ready("send")
  /\ UNCHANGED <<sent, nextId, sid, history>>
  /\ LET h == Head(queue) IN
     \/ /\ h.ec = "ok"
        /\ queue' = Tail(queue)
        /\ UNCHANGED <<status, open, sendq, phase, requests, timer, answers>>
     \/ /\ h.ec # "ok"
        /\ Resolve(h.s, NoSession, Tail(queue))
  /\ receiving' = StillReceiving

\* The async_wait handler of DeadlineSession::start.
OnTimer ==
  /\ Ready("timer")
  /\ UNCHANGED <<sent, nextId, sid, history>>
  /\ LET h == Head(queue) IN
     \/ /\ h.ec = "canceled"
        /\ queue' = Tail(queue)
        /\ UNCHANGED <<status, open, sendq, phase, requests, timer, answers>>
     \/ /\ h.ec # "canceled"
        /\ Resolve(h.s, NoSession, Tail(queue))
  /\ receiving' = StillReceiving

\* The handler posted by impl::sendCommand drops the last shared_ptr.
OnReset ==
  /\ Ready("reset")
  /\ queue' = Tail(queue)
  /\ phase' = [phase EXCEPT ![Head(queue).s] = "freed"]
  /\ UNCHANGED <<status, open, receiving, network, nextId, requests, sid,
                 timer, answers, history>>

Running == status = "running"

Dispatch == Running /\ (OnReceive \/ OnSend \/ OnTimer \/ OnReset)

DeadlinePasses(s) == Running /\ TimerEnds(s)

Next ==
  \/ \E s \in Sessions : Running /\ SendCommand(s)
  \/ \E s \in Sessions : DeadlinePasses(s)
  \/ \E s \in Senders, ec \in {"ok", "error"} : Running /\ ReceiveEnds(s, ec)
  \/ Running /\ Close
  \/ Running /\ SendEnds
  \/ Dispatch

Spec == Init /\ [][Next]_vars

\* io_context::run() runs every handler that is ready, and every deadline
\* passes.  Nothing is assumed of the network, not even that a send ends.
FairSpec ==
  Spec /\ WF_vars(Dispatch) /\ \A s \in Sessions : WF_vars(DeadlinePasses(s))

-----------------------------------------------------------------------------
(* Properties.                                                             *)

\* Client::requests_ holds exactly the sessions that still wait for an answer,
\* each under its own id, so that onReceive never calls into a session that is
\* done or destroyed and no id stays taken.
HandlerTable ==
  \A i \in Ids, s \in Sessions :
    requests[i] = s <=> phase[s] = "started" /\ sid[s] = i

\* A reply, a failed send and the deadline may all be queued for one session:
\* its callback is called by the first of them and by no other.
AnsweredOnce ==
  \A s \in Sessions :
    Len(answers[s]) = IF phase[s] \in {"done", "freed"} THEN 1 ELSE 0

IsHandler(k, op, s, ec) == queue[k] = Handler(op, s, ec)

\* A session that waits for its answer has a deadline ahead of it, and no other
\* session has.
DeadlineArmed(s) ==
  /\ timer[s] = "waiting" => phase[s] = "started"
  /\ phase[s] = "started" =>
       \/ timer[s] = "waiting"
       \/ \E k \in DOMAIN queue : IsHandler(k, "timer", s, "ok")

\* A deadline's handler that is queued finds the session alive.
DeadlineBeforeReset(s) ==
  \A k \in DOMAIN queue : IsHandler(k, "timer", s, "ok") =>
    \/ phase[s] = "started"
    \/ \E j \in DOMAIN queue : j > k /\ IsHandler(j, "reset", s, "ok")

\* A session is destroyed once.
ResetOnce(s) ==
  /\ phase[s] = "done" => \E k \in DOMAIN queue : IsHandler(k, "reset", s, "ok")
  /\ \A k \in DOMAIN queue : IsHandler(k, "reset", s, "ok") =>
       /\ phase[s] = "done"
       /\ \A j \in DOMAIN queue : IsHandler(j, "reset", s, "ok") => j = k

\* The posted reset is the last handler of a session but for its send: the
\* deadline's handler that was queued when the session was resolved still
\* finds it alive, and neither a timer nor a second reset is left after it.
ResetIsLast ==
  Running =>
    \A s \in Sessions : DeadlineArmed(s) /\ DeadlineBeforeReset(s) /\ ResetOnce(s)

\* The receives that will call Client::receive again when they are handled.
LiveReceives ==
  {k \in DOMAIN queue : queue[k].op = "receive" /\ queue[k].ec # "canceled"}

\* There is one receive loop while the socket is open (two would share
\* read_buffer_), and it ends when the socket is closed, even where the close
\* came after the receive had completed (the comment in Client::receive).
ReceiveLoop ==
  Running =>
    /\ open => IF receiving = 1 THEN LiveReceives = {}
               ELSE receiving = 0 /\ \E k \in LiveReceives : LiveReceives = {k}
    /\ ~open => receiving = 0 /\ \A j, k \in LiveReceives : j = k

\* Only a command that reuses the id of one sent at least IdSpace commands
\* earlier can be answered with the reply to another.
WrongReplyNeedsWrap ==
  \A s \in Sessions : \A k \in DOMAIN answers[s] :
    LET from == answers[s][k] IN
    from \in {s, NoSession} \/ serial[s] - serial[from] >= IdSpace

\* registerHandler throws only when a command sent at least IdSpace commands
\* earlier is still waiting for its answer.
CollisionNeedsWrap ==
  status = "threw" =>
    \E s, r \in Sessions :
      /\ phase[s] = "leaked"
      /\ phase[r] = "started"
      /\ sid[s] = sid[r]
      /\ serial[s] - serial[r] >= IdSpace

\* Every command ends, whatever the network does and wherever the client is
\* closed: its callback is called and its session destroyed.
EverySessionEnds ==
  \A s \in Sessions :
    phase[s] = "started" ~> phase[s] = "freed" \/ ~Running

Promise == INSTANCE CommandPromise WITH
  state <- [s \in Sessions |-> CASE phase[s] = "idle"    -> "unsent"
                                 [] phase[s] = "leaked"  -> "refused"
                                 [] phase[s] = "started" -> "pending"
                                 [] OTHER                -> "answered"],
  answer <- [s \in Sessions |->
               IF answers[s] = << >> THEN NoSession ELSE answers[s][1]],
  halted <- ~Running

\* The client keeps the promise of sendCommand: no step does what it forbids.
KeepsPromise == Promise!Spec

\* And every command it sent is answered.
KeepsWholePromise == Promise!FairSpec

-----------------------------------------------------------------------------
(* What the repository says and the code does not do.                      *)

\* send_command.hpp: the session is kept alive until it is ready to be
\* destroyed, so that its event handlers can still complete.
NoUseAfterDestruction == status # "crashed"

=============================================================================
