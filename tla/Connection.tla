------------------------------ MODULE Connection ------------------------------
(***************************************************************************)
(* Client::connect: the ConnectionAttempts on the one socket of a client,  *)
(* and the receive loops that the successful ones start.                   *)
(*                                                                         *)
(* The io_context is that of UdpClient.  asio's part: async_connect closes *)
(* the socket before each endpoint it tries, then opens and connects it;   *)
(* for UDP a connect never waits, so its handler is queued at once.        *)
(* Canceling a socket that is not open throws.                             *)
(***************************************************************************)
EXTENDS Integers, Sequences, FiniteSets

CONSTANTS
  Attempts,       \* the calls of connect, one ConnectionAttempt each
  NoAttempt,      \* stands for "not a handler of an attempt"
  MaxEndpoints    \* bound on the endpoints that a name resolves to

ASSUME NoAttemptAssumption == NoAttempt \notin Attempts
ASSUME MaxAssumption == MaxEndpoints \in Nat

VARIABLES
  status,     \* "running"; "threw": an exception left io_context::run()
  open,       \* socket_ is open
  receiving,  \* number of async_receive operations in progress
  queue,      \* handlers ready to run, in the order they will run
  phase,      \* of each attempt: "idle", "resolving", "connecting" or "over"
  left,       \* the endpoints that async_connect has not tried, of each attempt
  timed,      \* whether the timer of each attempt has a wait in progress
  finished,   \* ConnectionAttempt::finished
  reports,    \* history: what the callback of each attempt was called with
  connected,  \* history: a success was reported and close was not called since
  misused,    \* history: connect was called while connected or connecting
  late        \* history: an attempt timed out while it was connecting

attempt == <<phase, left, timed, finished, reports>>
history == <<connected, misused, late>>
vars == <<status, open, receiving, queue, attempt, history>>

Handler(op, a, ec) == [op |-> op, a |-> a, ec |-> ec]

Handlers ==
  [op : {"resolve", "connect"}, a : Attempts, ec : {"ok", "error"}]
    \union [op : {"timer"}, a : Attempts, ec : {"ok", "canceled"}]
    \union [op : {"receive"}, a : {NoAttempt}, ec : {"ok", "canceled"}]

\* Type correctness.
TypeOK ==
  /\ status \in {"running", "threw"}
  /\ {open, connected, misused, late} \subseteq BOOLEAN
  /\ receiving \in Nat
  /\ queue \in Seq(Handlers)
  /\ phase \in [Attempts -> {"idle", "resolving", "connecting", "over"}]
  /\ left \in [Attempts -> 0 .. MaxEndpoints]
  /\ timed \in [Attempts -> BOOLEAN]
  /\ finished \in [Attempts -> BOOLEAN]
  /\ reports \in [Attempts -> Seq({"success", "failure", "timeout"})]

\* A new client: its socket was never open.
Init ==
  /\ status = "running"
  /\ open = FALSE
  /\ receiving = 0
  /\ queue = << >>
  /\ phase = [a \in Attempts |-> "idle"]
  /\ left = [a \in Attempts |-> 0]
  /\ timed = [a \in Attempts |-> FALSE]
  /\ finished = [a \in Attempts |-> FALSE]
  /\ reports = [a \in Attempts |-> << >>]
  /\ connected = FALSE
  /\ misused = FALSE
  /\ late = FALSE

-----------------------------------------------------------------------------
(* The application.                                                        *)

\* Client::connect with a timeout or, at 0, without.
Connect(a) ==
  /\ phase[a] = "idle"
  /\ phase' = [phase EXCEPT ![a] = "resolving"]
  /\ \E timeout \in BOOLEAN : timed' = [timed EXCEPT ![a] = timeout]
  /\ misused' = (misused \/ connected \/ \E b \in Attempts : phase[b] # "idle" /\ reports[b] = << >>)
  /\ UNCHANGED <<status, open, receiving, queue, left, finished, reports,
                 connected, late>>

Aborted == [k \in 1 .. receiving |-> Handler("receive", NoAttempt, "canceled")]

\* Client::close, called from elsewhere than a callback.
Close ==
  /\ open
  /\ open' = FALSE
  /\ receiving' = 0
  /\ queue' = queue \o Aborted
  /\ connected' = FALSE
  /\ UNCHANGED <<status, attempt, misused, late>>

\* Mutant: receive does not look whether the socket is open.
ReceivesNot == TRUE

\* Client::receive returns at once when the socket is closed.
Receives == open'

\* A callback of the application returns, having closed the client or not;
\* then the client receives, if it is to receive again.
Application(closes, rest, again) ==
  /\ open' = (open /\ ~closes)
  /\ queue' = rest \o (IF closes THEN Aborted ELSE << >>)
  /\ receiving' = (IF closes THEN 0 ELSE receiving) + (IF again /\ Receives THEN 1 ELSE 0)

-----------------------------------------------------------------------------
(* Operations that end.                                                    *)

Enqueue(h) == queue' = Append(queue, h)

ResolveEnds(a, ec) ==
  /\ phase[a] = "resolving"
  /\ \A k \in DOMAIN queue : queue[k].op = "resolve" => queue[k].a # a
  /\ Enqueue(Handler("resolve", a, ec))
  /\ UNCHANGED <<status, open, receiving, attempt, history>>

TimerEnds(a) ==
  /\ timed[a]
  /\ timed' = [timed EXCEPT ![a] = FALSE]
  /\ Enqueue(Handler("timer", a, "ok"))
  /\ UNCHANGED <<status, open, receiving, phase, left, finished, reports, history>>

\* A receive ends, with a datagram or an error: the loop goes on after either.
ReceiveEnds ==
  /\ receiving > 0
  /\ receiving' = receiving - 1
  /\ Enqueue(Handler("receive", NoAttempt, "ok"))
  /\ UNCHANGED <<status, open, attempt, history>>

-----------------------------------------------------------------------------
(* Handlers.                                                               *)

Ready(op) == queue # << >> /\ Head(queue).op = op

\* Close the socket, open it, and connect it to one of the n endpoints left.
TryEndpoint(a, n, rest) ==
  /\ open' = TRUE
  /\ receiving' = 0
  /\ \E ec \in {"ok", "error"} :
       queue' = rest \o Aborted \o <<Handler("connect", a, ec)>>
  /\ left' = [left EXCEPT ![a] = n - 1]

\* Mutant: the end of the endpoints is not looked for.
TryNextPastEnd(a, n, rest) == TryEndpoint(a, n, rest)

\* async_connect with the next of its endpoints, if any is left.
TryNext(a, n, rest) ==
  \/ n > 0 /\ TryEndpoint(a, n, rest)
  \/ /\ n = 0
     /\ queue' = Append(rest, Handler("connect", a, "error"))
     /\ UNCHANGED <<open, receiving, left>>

\* Mutants: the flag is set but its old value is not looked at, and the result
\* is that of a compare-exchange, true for the one that sets it.
WasFinishedNot(a) == FALSE
WasFinishedInverted(a) == ~finished[a]

\* finished.exchange(true), and finished.load() where nothing else follows.
WasFinished(a) == finished[a]

Report(a, result) ==
  /\ finished' = [finished EXCEPT ![a] = TRUE]
  /\ reports' = [reports EXCEPT ![a] = Append(@, result)]

OnResolve ==
  /\ Ready("resolve")
  /\ LET a == Head(queue).a IN
     \/ /\ ~WasFinished(a) /\ Head(queue).ec = "ok"
        /\ phase' = [phase EXCEPT ![a] = "connecting"]
        /\ \E n \in 0 .. MaxEndpoints : TryNext(a, n, Tail(queue))
        /\ UNCHANGED <<finished, reports, connected>>
     \/ /\ ~WasFinished(a) /\ Head(queue).ec # "ok"   \* the timer keeps running
        /\ Report(a, "failure")
        /\ phase' = [phase EXCEPT ![a] = "over"]
        /\ \E closes \in BOOLEAN :
             Application(closes, Tail(queue), FALSE) /\ connected' = (connected /\ ~closes)
        /\ UNCHANGED left
     \/ /\ WasFinished(a)
        /\ phase' = [phase EXCEPT ![a] = "over"]
        /\ queue' = Tail(queue)
        /\ UNCHANGED <<open, receiving, left, finished, reports, connected>>
  /\ UNCHANGED <<status, timed, misused, late>>

CancelTimer(a) ==
  IF timed[a] THEN <<Handler("timer", a, "canceled")>> ELSE << >>

\* ConnectionAttempt::onConnect, after async_connect ended with ec.  An attempt
\* that is finished closes the socket, whoever uses it by now; another tells the
\* application, and Client::onConnect receives after a success.
Finish(a, ec, rest) ==
  /\ phase' = [phase EXCEPT ![a] = "over"]
  /\ UNCHANGED left
  /\ IF WasFinished(a)
     THEN /\ open' = FALSE
          /\ receiving' = 0
          /\ queue' = rest \o Aborted
          /\ UNCHANGED <<timed, finished, reports, connected>>
     ELSE /\ timed' = [timed EXCEPT ![a] = FALSE]
          /\ Report(a, IF ec = "ok" THEN "success" ELSE "failure")
          /\ \E closes \in BOOLEAN :
               /\ Application(closes, rest \o CancelTimer(a), ec = "ok")
               /\ connected' = ((connected \/ ec = "ok") /\ ~closes)

\* The handler of async_connect: done, given up because the socket was closed,
\* or the next endpoint.
OnConnect ==
  /\ Ready("connect")
  /\ LET a == Head(queue).a
         ec == Head(queue).ec
     IN
     \/ /\ ec = "ok" \/ ~open \/ left[a] = 0
        /\ Finish(a, IF open THEN ec ELSE "error", Tail(queue))
     \/ /\ ec # "ok" /\ open /\ left[a] > 0
        /\ TryNext(a, left[a], Tail(queue))
        /\ UNCHANGED <<phase, timed, finished, reports, connected>>
  /\ UNCHANGED <<status, misused, late>>

\* ConnectionAttempt::onConnectTimeout, which also sees a canceled wait: the
\* attempt is finished by then.  resolver.cancel() ends a resolve in progress;
\* socket->cancel() ends the receives, and throws when the socket is not open.
OnConnectTimeout ==
  /\ Ready("timer")
  /\ LET a == Head(queue).a
         resolving == /\ phase[a] = "resolving"
                      /\ \A k \in DOMAIN queue : queue[k].op = "resolve" => queue[k].a # a
         rest == Tail(queue) \o (IF resolving THEN <<Handler("resolve", a, "error")>>
                                              ELSE << >>)
     IN
     IF WasFinished(a)
     THEN /\ queue' = Tail(queue)
          /\ UNCHANGED <<status, open, receiving, finished, reports, connected, late>>
     ELSE /\ late' = (late \/ phase[a] = "connecting")
          /\ IF open
             THEN /\ receiving' = 0
                  /\ queue' = rest \o Aborted
                  /\ Report(a, "timeout")
                  /\ open' \in BOOLEAN   \* the application may close the client
                  /\ connected' = (connected /\ open')
                  /\ UNCHANGED status
             ELSE /\ status' = "threw"
                  /\ finished' = [finished EXCEPT ![a] = TRUE]
                  /\ queue' = rest
                  /\ UNCHANGED <<open, receiving, reports, connected>>
  /\ UNCHANGED <<phase, left, timed, misused>>

\* Client::onReceive: the application hears of an error, or a session of a reply.
OnReceive ==
  /\ Ready("receive")
  /\ IF Head(queue).ec = "canceled"
     THEN queue' = Tail(queue) /\ UNCHANGED <<open, receiving, connected>>
     ELSE \E closes \in BOOLEAN :
            Application(closes, Tail(queue), TRUE) /\ connected' = (connected /\ ~closes)
  /\ UNCHANGED <<status, attempt, misused, late>>

Running == status = "running"

Dispatch == Running /\ (OnResolve \/ OnConnect \/ OnConnectTimeout \/ OnReceive)

Next ==
  \/ \E a \in Attempts : Running /\ (Connect(a) \/ TimerEnds(a))
  \/ \E a \in Attempts, ec \in {"ok", "error"} : Running /\ ResolveEnds(a, ec)
  \/ Running /\ Close
  \/ Running /\ ReceiveEnds
  \/ Dispatch

Spec == Init /\ [][Next]_vars

\* io_context::run() runs every handler that is ready, and deadlines pass.
\* Nothing is assumed of the resolver.
FairSpec ==
  Spec /\ WF_vars(Dispatch) /\ \A a \in Attempts : WF_vars(Running /\ TimerEnds(a))

-----------------------------------------------------------------------------
(* Properties.                                                             *)

\* The callback of an attempt is called once, by whichever of resolver,
\* connection and timeout comes first, unless the timeout threw.
ReportedOnce ==
  \A a \in Attempts :
    /\ Len(reports[a]) <= 1
    /\ Running => (finished[a] <=> reports[a] # << >>)
    /\ Running /\ phase[a] = "over" => reports[a] # << >>

LiveReceives ==
  {k \in DOMAIN queue : queue[k].op = "receive" /\ queue[k].ec # "canceled"}

Loops == receiving + Cardinality(LiveReceives)

\* An application that connects only when it is not connected and no attempt is
\* in progress never has two receive loops (on one read_buffer_), and while the
\* success it was told of holds it has one; only an attempt that timed out while
\* it was connecting can, late, take the connection from another.  The loop ends
\* with the socket.
OneLoop ==
  ~misused =>
    /\ Loops <= 1
    /\ ~open => receiving = 0
    /\ connected /\ ~late => open /\ Loops = 1

\* An attempt with a timeout ends, whatever the resolver does.
AttemptEnds == \A a \in Attempts : timed[a] ~> finished[a] \/ ~Running

\* connect.hpp: the callback is invoked on success, failure or timeout.
TimeoutIsReported == \A a \in Attempts : finished[a] => reports[a] # << >>

=============================================================================
