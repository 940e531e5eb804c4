------------------------------ MODULE RpcServer ------------------------------
(***************************************************************************)
(* An RpcServer: it polls a block of byte variables of the controller, one *)
(* per service, executes the services it finds requested, and writes a     *)
(* status back when they resolve.                                          *)
(*                                                                         *)
(* The client below it is taken at its promise (CommandPromise): each      *)
(* command is answered once, with its reply or with an error.  The network *)
(* loses, delays, duplicates and reorders what the commands send; `faults' *)
(* keeps what it has done, so that properties can say what they tolerate.  *)
(* Handlers run one after the other on one io_context thread.              *)
(***************************************************************************)
EXTENDS Integers, Sequences, FiniteSets, Functions

CONSTANTS
  NumServices,   \* services_.size()
  CountSpace,    \* number of values of count, a std::uint8_t
  MaxStarts,     \* bound on the calls of start that start the server
  MaxRequests,   \* bound on the requests the controller makes of one service
  MaxOutside,    \* bound on the starts and the requests together
  MaxStray       \* bound on the writes on their way that nobody waits for

\* From CountSpace - 1 services on count wraps, and readCommands indexes past the
\* end of what it read.
ASSUME ServicesAssumption ==
  /\ CountSpace \in Nat /\ CountSpace % 2 = 0
  /\ NumServices < CountSpace - 1

ASSUME BoundsAssumption ==
  /\ {NumServices, MaxRequests} \subseteq Nat \ {0}
  /\ {MaxStarts, MaxStray, MaxOutside} \subseteq Nat

VARIABLES
  zero_delay,  \* read_commands_delay_.count() == 0
  started,     \* started_
  waiting,     \* read_commands_timer_ has a wait in progress
  due,         \* handlers of ended waits that are ready, by their error code
  busy,        \* the services whose busy flag is set
  executing,   \* the services that were called and have not resolved
  calls,       \* the commands on their way, in the order they were sent
  register,    \* the controller's status variables
  request,     \* history: number of requests the controller made of each service
  runs,        \* history: executions for each request of each service (2: more)
  starts,      \* history: number of times the server was started
  faults       \* history: what went wrong

server == <<zero_delay, started, waiting, due, busy, executing>>
controller == <<register, request>>
history == <<runs, starts>>
vars == <<server, calls, controller, history, faults>>

Services == 0 .. NumServices - 1
NoService == NumServices

\* A command: a write to the status of service v, or, for NoService, the read of
\* all.  "asked": the controller does not have it yet; "answered": the reply is
\* on its way and says which request of each service was seen, 0 for none;
\* "lost": one of the two never arrives.  waited: the client waits for the reply.
Call(v, value) ==
  [v |-> v, value |-> value, stage |-> "asked", seen |-> [w \in Services |-> 0],
   waited |-> TRUE]

Read == Call(NoService, "read")

\* Mutant: an odd number of services is rounded down.
CountDown == ((NumServices \div 2) * 2) % CountSpace

\* The number of registers that a read asks for: the next even number, in a byte.
Count == (((NumServices + 1) \div 2) * 2) % CountSpace

CallSet ==
  [v : Services, value : {"idle", "error"}, stage : {"asked", "answered", "lost"},
   seen : [Services -> {0}], waited : BOOLEAN]
    \union [v : {NoService}, value : {"read"}, stage : {"asked", "answered", "lost"},
            seen : [Services -> 0 .. MaxRequests], waited : {TRUE}]

\* Type correctness; nobody waits for what timed out, and a read that timed out
\* is of no consequence.
TypeOK ==
  /\ {zero_delay, started, waiting} \subseteq BOOLEAN
  /\ due \in Seq({"ok", "error"})
  /\ busy \subseteq Services
  /\ executing \subseteq Services
  /\ calls \in Seq(CallSet)
  /\ register \in [Services -> {"idle", "requested", "error"}]
  /\ request \in [Services -> 0 .. MaxRequests]
  /\ runs \in [Services -> [1 .. MaxRequests -> 0 .. 2]]
  /\ starts \in 0 .. MaxStarts
  /\ faults \subseteq {"read timed out", "write timed out", "reordered", "duplicated"}

Init ==
  /\ zero_delay \in BOOLEAN
  /\ started = FALSE
  /\ waiting = FALSE
  /\ due = << >>
  /\ busy = {}
  /\ executing = {}
  /\ calls = << >>
  /\ register = [v \in Services |-> "idle"]
  /\ request = [v \in Services |-> 0]
  /\ runs = [v \in Services |-> [n \in 1 .. MaxRequests |-> 0]]
  /\ starts = 0
  /\ faults = {}

-----------------------------------------------------------------------------
(* The controller and the network.                                         *)

\* How often the server was started and asked for something.
Outside == FoldFunction(+, starts, request)

Without(k) == SubSeq(calls, 1, k - 1) \o SubSeq(calls, k + 1, Len(calls))

\* The controller's job asks for service v, once the last request is answered.
Request(v) ==
  /\ register[v] # "requested"
  /\ request[v] < MaxRequests
  /\ Outside < MaxOutside
  /\ register' = [register EXCEPT ![v] = "requested"]
  /\ request' = [request EXCEPT ![v] = @ + 1]
  /\ UNCHANGED <<server, calls, history, faults>>

\* What does not happen in the order of sending is a fault.
InOrder(k, stages) ==
  faults' = IF \E j \in 1 .. k - 1 : calls[j].stage \in stages
            THEN faults \union {"reordered"} ELSE faults

\* The controller executes command k and replies, to whom may have gone.
Handle(k) ==
  LET c == calls[k]
      seen == [v \in Services |->
                 IF v < Count /\ register[v] = "requested" THEN request[v] ELSE 0]
      reply == [c EXCEPT !.stage = "answered", !.seen = IF c.v = NoService THEN seen ELSE @]
  IN
  /\ c.stage = "asked"
  /\ register' = [v \in Services |-> IF v = c.v THEN c.value ELSE register[v]]
  /\ calls' = IF c.waited THEN [calls EXCEPT ![k] = reply] ELSE Without(k)
  /\ InOrder(k, {"asked"})
  /\ UNCHANGED <<server, request, history>>

Stray == {k \in DOMAIN calls : ~calls[k].waited}

\* A write that is on its way arrives twice.
Duplicate(k) ==
  /\ calls[k].stage = "asked"
  /\ calls[k].v # NoService
  /\ Cardinality(Stray) < MaxStray
  /\ calls' = SubSeq(calls, 1, k) \o <<[calls[k] EXCEPT !.waited = FALSE]>>
                \o SubSeq(calls, k + 1, Len(calls))
  /\ faults' = faults \union {"duplicated"}
  /\ UNCHANGED <<server, controller, history>>

\* A command or its reply is lost.
Lose(k) ==
  /\ calls[k].stage # "lost"
  /\ calls' = IF k \in Stray THEN Without(k)
                ELSE [calls EXCEPT ![k].stage = "lost", ![k].seen = [v \in Services |-> 0]]
  /\ UNCHANGED <<server, controller, history, faults>>

-----------------------------------------------------------------------------
(* Starting, stopping and polling.                                         *)

\* Mutant: start does not look whether the server is started already.
AlreadyStartedNot == FALSE

AlreadyStarted == started

Start ==
  /\ started' = TRUE
  /\ IF AlreadyStarted
     THEN UNCHANGED <<calls, starts>>
     ELSE /\ starts < MaxStarts
          /\ Outside < MaxOutside
          /\ starts' = IF started THEN starts ELSE starts + 1
          /\ calls' = Append(calls, Read)
  /\ UNCHANGED <<zero_delay, waiting, due, busy, executing, controller, runs, faults>>

Stop ==
  /\ started
  /\ started' = FALSE
  /\ UNCHANGED <<zero_delay, waiting, due, busy, executing, calls, controller,
                 history, faults>>

\* startReadCommandsTimer, with `sent' the commands on their way by then.
\* A wait that is in progress is aborted: its handler does nothing.
StartReadCommandsTimer(sent) ==
  IF zero_delay THEN calls' = Append(sent, Read) /\ UNCHANGED waiting
                ELSE calls' = sent /\ waiting' = TRUE

\* Mutant: the polling does not go on after an answer.
PollAgainNot(sent) == calls' = sent /\ UNCHANGED waiting

\* Mutant: the polling goes on although the server was stopped.
PollAgainAlways(sent) == StartReadCommandsTimer(sent)

\* if (started_) startReadCommandsTimer();
PollAgain(sent) ==
  IF started THEN StartReadCommandsTimer(sent) ELSE calls' = sent /\ UNCHANGED waiting

TimerEnds(ec) ==
  /\ waiting
  /\ waiting' = FALSE
  /\ due' = Append(due, ec)
  /\ UNCHANGED <<zero_delay, started, busy, executing, calls, controller, history, faults>>

\* The async_wait handler: readCommands, or on an error the timer again.  It
\* does not look at started_.
OnTimer ==
  /\ due # << >>
  /\ due' = Tail(due)
  /\ IF Head(due) = "ok" THEN calls' = Append(calls, Read) /\ UNCHANGED waiting
                         ELSE StartReadCommandsTimer(calls)
  /\ UNCHANGED <<zero_delay, started, busy, executing, controller, history, faults>>

-----------------------------------------------------------------------------
(* Executing services.                                                     *)

\* Mutant: the busy flag is set but not tested.
TestAndSetNot(v) == FALSE

TestAndSet(v) == v \in busy

\* The services that readCommands executes: requested, and not busy.
Called(seen) == {v \in Services : seen[v] # 0 /\ ~TestAndSet(v)}

\* Mutant: the status is written to the register after the service's.
StatusNext(v, failing) == Call(v + 1, IF v \in failing THEN "error" ELSE "idle")

\* WriteUint8Var of the status, at base_register_ + index.
Status(v, failing) == Call(v, IF v \in failing THEN "error" ELSE "idle")

\* The writes of those that resolve now, in the order of the services: a set with
\* that one sequence.
StatusWrites(resolved, failing) ==
  {[i \in DOMAIN order |-> Status(order[i], failing)] :
     order \in {o \in Bijection(1 .. Cardinality(resolved), resolved) :
                  \A i, j \in DOMAIN o : i < j => o[i] < o[j]}}

\* The callback of readCommands with the statuses that were read.  A service
\* may resolve before it returns, as disabledService does, or later.
OnStatuses(k) ==
  /\ calls[k].v = NoService
  /\ LET called == Called(calls[k].seen) IN
     /\ busy' = busy \union called
     /\ runs' = [v \in Services |->
                   IF v \in called
                   THEN [runs[v] EXCEPT ![calls[k].seen[v]] = IF @ = 0 THEN 1 ELSE 2]
                   ELSE runs[v]]
     /\ \E resolved \in SUBSET called : \E failing \in SUBSET resolved :
          /\ executing' = (executing \union called) \ resolved
          /\ \E writes \in StatusWrites(resolved, failing) : PollAgain(Without(k) \o writes)
  /\ UNCHANGED <<zero_delay, started, due, starts>>

\* A service resolves: write its status, also after an error.
Resolve(v) ==
  /\ v \in executing
  /\ executing' = executing \ {v}
  /\ \E failing \in SUBSET {v} : \E writes \in StatusWrites({v}, failing) :
       calls' = calls \o writes
  /\ UNCHANGED <<zero_delay, started, waiting, due, busy, controller, history, faults>>

\* Mutant: the flag is left set.
ClearNot(v) == busy

\* service.busy.clear()
Clear(v) == busy \ {v}

\* The callback of the command that writes a status, with or without an error.
OnWritten(k, rest) ==
  /\ calls[k].v # NoService
  /\ busy' = Clear(calls[k].v)
  /\ calls' = rest
  /\ UNCHANGED <<zero_delay, started, waiting, due, executing, history>>

\* The reply to command k.
Receive(k) ==
  /\ calls[k].waited
  /\ calls[k].stage = "answered"
  /\ OnStatuses(k) \/ OnWritten(k, Without(k))
  /\ InOrder(k, {"asked", "answered"})
  /\ UNCHANGED controller

\* Command k ends with an error.  A write that the controller does not have may
\* reach it later.
TimesOut(k) ==
  /\ calls[k].waited
  /\ \/ /\ calls[k].v = NoService
        /\ PollAgain(Without(k))
        /\ faults' = faults \union {"read timed out"}
        /\ UNCHANGED <<zero_delay, started, due, busy, executing, history>>
     \/ /\ OnWritten(k, Without(k))
        /\ faults' = faults \union {"write timed out"}
     \/ /\ calls[k].stage = "asked"
        /\ Cardinality(Stray) < MaxStray
        /\ OnWritten(k, [calls EXCEPT ![k].waited = FALSE])
        /\ faults' = faults \union {"write timed out"}
  /\ UNCHANGED controller

Next ==
  \/ \E v \in Services : Request(v) \/ Resolve(v)
  \/ \E k \in DOMAIN calls : Handle(k) \/ Duplicate(k) \/ Lose(k) \/ Receive(k) \/ TimesOut(k)
  \/ Start \/ Stop
  \/ \E ec \in {"ok", "error"} : TimerEnds(ec)
  \/ OnTimer

Spec == Init /\ [][Next]_vars

\* The first command that the client waits for.
Oldest == {k \in DOMAIN calls : calls[k].waited /\ \A j \in 1 .. k - 1 : ~calls[j].waited}

\* Every command is answered (UdpClient, EverySessionEnds), the oldest first as
\* all have the same timeout; handlers run; the timer's waits end, and not all
\* of them with an error; services resolve.
FairSpec ==
  /\ Spec
  /\ WF_vars(\E k \in Oldest : Receive(k) \/ TimesOut(k))
  /\ WF_vars(OnTimer)
  /\ WF_vars(\E ec \in {"ok", "error"} : TimerEnds(ec)) /\ SF_vars(TimerEnds("ok"))
  /\ \A v \in Services : WF_vars(Resolve(v))

-----------------------------------------------------------------------------
(* Properties.                                                             *)

WritesOf(v) == {k \in DOMAIN calls : calls[k].v = v /\ calls[k].waited}

\* A service is never called while it is executing or while its status is still
\* being written, and the flag that prevents it is never left set.
OneAtATime ==
  \A v \in Services :
    Cardinality(WritesOf(v)) + (IF v \in executing THEN 1 ELSE 0)
      = IF v \in busy THEN 1 ELSE 0

\* A request that the controller sees answered was executed.
Served(v, n) ==
  n < request[v] \/ (n = request[v] /\ register[v] # "requested") => runs[v][n] = 1

\* Each request is executed once, and before it is answered, through any loss of
\* the reads and any number of poll loops; only a write of a status that timed
\* out, or datagrams that overtook others or came twice, can break it.
OncePerRequest ==
  faults \subseteq {"read timed out"} =>
    \A v \in Services : \A n \in 1 .. MaxRequests : runs[v][n] <= 1 /\ Served(v, n)

\* The poll loops: reads in flight, the wait in progress, handlers of ended waits.
Loops ==
  Cardinality(WritesOf(NoService)) + (IF waiting THEN 1 ELSE 0) + Len(due)

\* A started server polls, whatever errors it meets, and has no more loops than
\* the times it was started.
KeepsPolling == (started => Loops > 0) /\ Loops <= starts

\* The network delivers.
Delivers == WF_vars(\E k \in Oldest : Handle(k)) /\ WF_vars(\E k \in Oldest : Receive(k))

\* Over a network that delivers, a request is answered unless the server is
\* stopped or something goes wrong all the same.
EveryRequestAnswered ==
  Delivers =>
    \A v \in Services :
      register[v] = "requested" /\ started
        ~> register[v] # "requested" \/ ~started \/ faults # {}

\* A stopped server stops polling (RpcServer::stop), at the latest with the poll that a
\* timer that was waiting still makes, since its handler does not look at started_.
StopsPolling == ~started ~> started \/ Loops = 0

=============================================================================
