---------------------------- MODULE MultiCommand ----------------------------
(***************************************************************************)
(* Client::sendCommands: one MultiCommandSession inside its                *)
(* DeadlineSession, with a CommandSession (here: a sub-session) for each   *)
(* of its commands, all sent at once over a connected client and bound by  *)
(* one deadline.                                                           *)
(*                                                                         *)
(* The io_context and the network are those of UdpClient; the receive loop *)
(* and the reuse of request ids, which that module treats in full, are     *)
(* reduced here: at most one receive is ready at a time, and a datagram is *)
(* a reply to the sub-session it names.                                    *)
(***************************************************************************)
EXTENDS Integers, Sequences, FiniteSets

CONSTANT Count   \* number of commands

ASSUME CountAssumption == Count \in Nat \ {0}

VARIABLES
  status,    \* "running"; "threw": an exception that the application did not
             \* catch; "crashed": what was not there was used
  open,      \* the socket is open
  sendq,     \* the async_send operations in progress, oldest first
  queue,     \* handlers ready to run, in the order they will run
  phase,     \* life of the session, as in UdpClient
  sub,       \* life of each sub-session; "started": its handler is registered
  timer,     \* whether DeadlineSession::timer_ has a wait in progress
  sent,      \* sub-sessions whose request datagram is on the wire
  finished_commands,
  result,    \* result_: the elements that were assigned
  results    \* history: what the application's callback was called with

work == <<phase, sub, timer, finished_commands, result, results>>
vars == <<status, open, sendq, queue, sent, work>>

Subs == 1 .. Count

\* A handler: of which operation and sub-session (0: none), and its outcome.
Handler(op, i, ec) == [op |-> op, i |-> i, ec |-> ec]

Handlers ==
  [op : {"send"}, i : Subs, ec : {"ok", "error"}]
    \union [op : {"receive"}, i : Subs, ec : {"ok", "failed"}]
    \union [op : {"timer"}, i : {0}, ec : {"ok", "canceled"}]
    \union [op : {"reset"}, i : {0}, ec : {"ok"}]

\* Type correctness; finished_commands_ counts up to the number of commands.
TypeOK ==
  /\ status \in {"running", "threw", "crashed"}
  /\ open \in BOOLEAN
  /\ sendq \in Seq(Subs)
  /\ queue \in Seq(Handlers)
  /\ phase \in {"idle", "started", "done", "freed"}
  /\ sub \in [Subs -> {"new", "started", "done"}]
  /\ timer \in {"off", "waiting"}
  /\ sent \subseteq Subs
  /\ finished_commands \in 0 .. Count
  /\ result \subseteq Subs
  /\ results \in Seq({"success", "error"})

\* The sub-sessions are constructed with the session.
Init ==
  /\ status = "running"
  /\ open = TRUE
  /\ sendq = << >>
  /\ queue = << >>
  /\ phase = "idle"
  /\ sub = [i \in Subs |-> "new"]
  /\ timer = "off"
  /\ sent = {}
  /\ finished_commands = 0
  /\ result = {}
  /\ results = << >>

-----------------------------------------------------------------------------
(* Starting and closing.                                                   *)

\* Mutant: the deadline is never armed.
StartTimerNot == "off"

StartTimer == "waiting"

\* sendMultipleCommands: start_sessions_ starts the sub-sessions one after the
\* other, then the deadline is armed.  With k <= Count, the id of sub-session
\* k is still taken by another command: registerHandler throws, the ones
\* before k stay registered and there is no deadline.  The application may
\* catch the exception and go on.
SendCommands ==
  /\ phase = "idle"
  /\ phase' = "started"
  /\ \E k \in 1 .. Count + 1 :
       LET begun == [i \in 1 .. k - 1 |-> i] IN
       /\ sub' = [i \in Subs |-> IF i < k THEN "started" ELSE "new"]
       /\ status' \in IF k <= Count THEN {"threw", status} ELSE {status}
       /\ timer' = IF k <= Count THEN timer ELSE StartTimer
       /\ IF open
          THEN sendq' = sendq \o begun /\ UNCHANGED queue
          ELSE /\ queue' = queue \o [i \in 1 .. k - 1 |-> Handler("send", i, "error")]
               /\ UNCHANGED sendq
  /\ UNCHANGED <<open, sent, finished_commands, result, results>>

Aborted == [k \in 1 .. Len(sendq) |-> Handler("send", sendq[k], "error")]

\* Mutant: the reset is dispatched, ahead of the queue, instead of posted.
ApplicationDispatch(before, after) ==
  queue' = after \o before /\ UNCHANGED <<open, sendq>>

\* Application code, as in UdpClient: it may close the client.
Application(before, after) ==
  \/ /\ queue' = before \o after
     /\ UNCHANGED <<open, sendq>>
  \/ /\ open
     /\ open' = FALSE
     /\ sendq' = << >>
     /\ queue' = before \o Aborted \o after

Close ==
  /\ Application(queue, << >>)
  /\ ~open'
  /\ UNCHANGED <<status, sent, work>>

-----------------------------------------------------------------------------
(* Operations that end.                                                    *)

Enqueue(h) == queue' = Append(queue, h)

\* A send that outlives the session sends whatever its buffer holds by then.
SendEnds ==
  /\ sendq # << >>
  /\ sendq' = Tail(sendq)
  /\ LET i == Head(sendq) IN
     \/ /\ Enqueue(Handler("send", i, "ok"))
        /\ \/ sent' = sent \union {i}
           \/ phase = "freed" /\ sent' = sent
     \/ /\ Enqueue(Handler("send", i, "error"))
        /\ UNCHANGED sent
  /\ UNCHANGED <<status, open, work>>

TimerEnds ==
  /\ timer = "waiting"
  /\ timer' = "off"
  /\ Enqueue(Handler("timer", 0, "ok"))
  /\ UNCHANGED <<status, open, sendq, sent, phase, sub, finished_commands,
                 result, results>>

\* A reply to sub-session i, with its result or with an error of the controller
\* (or one that does not decode).
ReceiveEnds(i, ec) ==
  /\ open
  /\ \A k \in DOMAIN queue : queue[k].op # "receive"
  /\ i \in sent
  /\ Enqueue(Handler("receive", i, ec))
  /\ UNCHANGED <<status, open, sendq, sent, work>>

-----------------------------------------------------------------------------
(* Handlers.                                                               *)

Ready(op) == queue # << >> /\ Head(queue).op = op

\* The rest of the queue runs, and nothing else happens.
Nothing ==
  /\ queue' = Tail(queue)
  /\ UNCHANGED <<open, sendq, work>>

AbortedWait ==
  IF timer = "waiting" THEN <<Handler("timer", 0, "canceled")>> ELSE << >>

\* The callback that sendMultipleCommands passes to the session: cancel the
\* timer, call the application, post the reset.
Finish(outcome) ==
  /\ phase' = "done"
  /\ timer' = "off"
  /\ results' = Append(results, outcome)
  /\ Application(Tail(queue) \o AbortedWait, <<Handler("reset", 0, "ok")>>)

\* The sub-sessions in `own' are resolved.
SubDone(own) == [i \in Subs |-> IF i \in own THEN "done" ELSE sub[i]]

\* Mutant: only the sub-session whose error this is is resolved.
StopSessionsNot(own) == SubDone(own)

\* stop_sessions_: every sub-session is resolved.
StopSessions(own) == SubDone(Subs)

\* Mutant: MultiCommandSession::resolve does not look at done_.
AlreadyDoneNot == FALSE

\* done_.test_and_set() in MultiCommandSession::resolve.
AlreadyDone == phase # "started"

\* A handler with the address of a destroyed session: it reads a dead object.
MayCrash ==
  status' \in IF phase = "freed" THEN {"running", "crashed"} ELSE {status}

\* Those that start did not reach, or whose handler was refused.
Unstarted == {i \in Subs : sub[i] = "new"}

\* MultiCommandSession::resolve with an error: of the sub-session in `own', if
\* there is one, whose CommandSession::resolve came first.  Of the unstarted ones
\* it removes a handler that was never registered, which is undefined, and all but
\* the first have no callback to call, which throws.
Resolve(own) ==
  /\ UNCHANGED <<finished_commands, result>>
  /\ \/ /\ AlreadyDone
        /\ MayCrash
        /\ queue' = Tail(queue)
        /\ sub' = SubDone(own)
        /\ UNCHANGED <<open, sendq, phase, timer, results>>
     \/ /\ ~AlreadyDone /\ Cardinality(Unstarted) <= 1
        /\ status' \in IF Unstarted = {} THEN {status} ELSE {status, "crashed"}
        /\ sub' = StopSessions(own)
        /\ Finish("error")
     \/ /\ ~AlreadyDone /\ Cardinality(Unstarted) > 1
        /\ status' \in {"threw", "crashed"}
        /\ queue' = Tail(queue)
        /\ sub' = StopSessions(own)
        /\ UNCHANGED <<open, sendq, phase, timer, results>>

IsLast == finished_commands + 1 = Count

\* CommandSession::resolve with a result, then callback<I>.
Collect(i) ==
  /\ sub' = SubDone({i})
  /\ result' = result \union {i}
  /\ finished_commands' = finished_commands + 1
  /\ IF IsLast THEN Finish("success")
               ELSE /\ queue' = Tail(queue)
                    /\ UNCHANGED <<open, sendq, phase, timer, results>>

\* Mutant: CommandSession::resolve does not remove its handler.
RegisteredNot(i) == sub[i] # "new"

\* Client::requests_ holds a handler for sub-session i.
Registered(i) == sub[i] = "started"

\* Client::onReceive with a reply to sub-session i.
OnReceive ==
  /\ Ready("receive")
  /\ LET h == Head(queue) IN
     \/ ~Registered(h.i) /\ Nothing /\ UNCHANGED status
     \/ Registered(h.i) /\ h.ec = "ok" /\ Collect(h.i) /\ UNCHANGED status
     \/ Registered(h.i) /\ h.ec # "ok" /\ Resolve({h.i})
  /\ UNCHANGED sent

\* The async_send handler of sub-session i.
OnSend ==
  /\ Ready("send")
  /\ LET h == Head(queue) IN
     \/ h.ec = "ok" /\ Nothing /\ UNCHANGED status
     \/ h.ec # "ok" /\ sub[h.i] = "done" /\ Nothing /\ MayCrash
     \/ h.ec # "ok" /\ sub[h.i] # "done" /\ Resolve({h.i})
  /\ UNCHANGED sent

\* The async_wait handler of DeadlineSession::start.
OnTimer ==
  /\ Ready("timer")
  /\ IF Head(queue).ec = "canceled" THEN Nothing /\ UNCHANGED status
                                    ELSE Resolve({})
  /\ UNCHANGED sent

\* The handler posted by sendMultipleCommands drops the last shared_ptr.
OnReset ==
  /\ Ready("reset")
  /\ queue' = Tail(queue)
  /\ phase' = "freed"
  /\ UNCHANGED <<status, open, sendq, sent, sub, timer, finished_commands,
                 result, results>>

Running == status = "running"

Dispatch == Running /\ (OnReceive \/ OnSend \/ OnTimer \/ OnReset)

DeadlinePasses == Running /\ TimerEnds

Next ==
  \/ Running /\ SendCommands
  \/ Running /\ Close
  \/ Running /\ SendEnds
  \/ DeadlinePasses
  \/ \E i \in Subs, ec \in {"ok", "failed"} : Running /\ ReceiveEnds(i, ec)
  \/ Dispatch

Spec == Init /\ [][Next]_vars

\* io_context::run() runs every handler that is ready, and the deadline passes.
FairSpec == Spec /\ WF_vars(Dispatch) /\ WF_vars(DeadlinePasses)

-----------------------------------------------------------------------------
(* Properties.                                                             *)

\* The callback is called once, with success only when every command has its
\* result, whichever of them failed or was late.
OneResult ==
  /\ Len(results) = IF phase \in {"done", "freed"} THEN 1 ELSE 0
  /\ finished_commands = Cardinality(result)
  /\ \A k \in DOMAIN results : results[k] = "success" <=> result = Subs

\* The application caught what start threw.
Caught == Running /\ phase = "started" /\ Unstarted # {}

\* A sub-session has a handler registered only while the session waits, and
\* then exactly those have that no reply resolved: no reply and no failed send
\* reaches a session that is done (stop_sessions_).
NoneLeft ==
  Running =>
    \A i \in Subs :
      /\ sub[i] = "started" => phase = "started" /\ i \notin result
      /\ phase = "started" /\ i \notin result => sub[i] = "started" \/ Caught

\* The deadline is armed exactly while the session waits, unless it was refused when
\* it started, and its handler, once queued, runs before the session is destroyed.
DeadlineKeepsUp ==
  LET at(op) == {k \in DOMAIN queue : queue[k].op = op /\ queue[k].ec = "ok"} IN
  Running =>
    /\ phase = "started" /\ ~Caught <=> \/ timer = "waiting"
                                        \/ at("timer") # {} /\ at("reset") = {}
    /\ \A k \in at("timer") : phase # "started" => \E j \in at("reset") : j > k

\* What the caller knows of the call.
CallState ==
  CASE phase = "idle" -> "unsent"
    [] phase = "started" -> IF Running /\ Unstarted = {} THEN "pending" ELSE "refused"
    [] OTHER -> IF results[1] = "success" THEN "succeeded" ELSE "failed"

Promise == INSTANCE AllOrNothing WITH
  state <- CallState,
  replied <- result,
  halted <- ~Running

\* All results or one error, once: no step does what AllOrNothing forbids, and the
\* callback is called.
KeepsWholePromise == Promise!FairSpec

=============================================================================
