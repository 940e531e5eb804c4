-------------------------------- MODULE Tools --------------------------------
(***************************************************************************)
(* The command line tools: each connects once and then sends commands, the *)
(* next one from the callback of the one before.                           *)
(*                                                                         *)
(* A chain of commands is named by the variables that it writes and reads: *)
(* udp_test has a chain for each variable, multi_command_test one for all  *)
(* of them, and the empty chain is that of commands on no variable.  There *)
(* is one command at a time in a chain; it is answered once, with its own  *)
(* reply or an error, as CommandPromise says.  Replies come through the    *)
(* receive loop of Connection.  "application" is any other program.  The   *)
(* timer that prints the rate each second touches nothing else.            *)
(***************************************************************************)
EXTENDS Connection

CONSTANTS
  Variables,  \* of the controller, one for each type that a tool tests
  Values,     \* the counters of the tools wrap at this number
  MaxStray    \* bound on the late writes that are on their way

ASSUME ToolAssumption ==
  IsFiniteSet(Variables) /\ Values \in Nat \ {0} /\ MaxStray \in Nat

VARIABLES
  tool,    \* the program that runs
  ended,   \* "no", "exited" (std::exit) or "crashed"
  op,      \* the command in flight of each chain
  value,   \* byte_value, int16_value, ...: what is written next
  memory,  \* the variables of the controller
  stray,   \* late or repeated writes that have not arrived
  doubt    \* history: variables whose last write failed or was overwritten since

numbers == <<value, memory, stray, doubt>>
toolVars == <<tool, ended, op, numbers>>
allVars == <<vars, toolVars>>

Programs == {"application", "read_status", "udp_test", "multi_command_test", "file_manager"}
Commands == {"none", "write", "read", "once", "readStatus", "readPosition", "transfer"}
Chains == SUBSET Variables

\* Type correctness, with Connection's.
ToolTypeOK ==
  /\ TypeOK
  /\ tool \in Programs
  /\ ended \in {"no", "exited", "crashed"}
  /\ op \in [Chains -> Commands]
  /\ value \in [Variables -> 0 .. Values - 1]
  /\ memory \in [Variables -> 0 .. Values - 1]
  /\ stray \in [Variables -> SUBSET (0 .. Values - 1)]
  /\ doubt \subseteq Variables

\* What the controller holds at first does not matter: a write comes first.
ToolInit ==
  /\ Init
  /\ tool \in Programs
  /\ ended = "no"
  /\ op = [c \in Chains |-> "none"]
  /\ value = [v \in Variables |-> 0]
  /\ memory = [v \in Variables |-> 0]
  /\ stray = [v \in Variables |-> {}]
  /\ doubt = {}

-----------------------------------------------------------------------------
(* Connecting.                                                             *)

\* main: one attempt, with a timeout.
Start ==
  /\ tool # "application"
  /\ Connect(CHOOSE a \in Attempts : TRUE)
  /\ \E a \in Attempts : timed'[a]
  /\ UNCHANGED toolVars

\* The first command of each chain.
First(c) ==
  CASE tool = "read_status" /\ c = {} -> "readStatus"
    [] tool = "file_manager" /\ c = {} -> "transfer"
    [] tool = "udp_test" /\ c = {} -> "once"      \* writeFloat32, writePosition
    [] tool = "udp_test" /\ Cardinality(c) = 1 -> "write"
    [] tool = "multi_command_test" /\ c = Variables -> "write"
    [] OTHER -> "none"

\* "delete" has no argument to read; for other words nothing is sent.
OnSuccess ==
  /\ open' = open
  /\ \/ op' = [c \in Chains |-> First(c)] /\ UNCHANGED ended
     \/ tool = "file_manager" /\ ended' = "crashed" /\ UNCHANGED op
     \/ tool = "file_manager" /\ UNCHANGED <<ended, op>>

OnFailure ==
  /\ open' = (open /\ tool # "read_status")
  /\ ended' = IF tool = "file_manager" THEN "exited" ELSE ended
  /\ UNCHANGED op

\* The callback of connect, which is called with the result.
OnConnected(result) == IF result = "success" THEN OnSuccess ELSE OnFailure

\* A step of the attempt, of which the tool is told or not.
Connecting ==
  /\ OnResolve \/ OnConnect \/ OnConnectTimeout
  /\ IF reports' = reports \/ tool = "application"
     THEN UNCHANGED <<ended, op>>
     ELSE \E a \in Attempts : reports'[a] # reports[a] /\ OnConnected(Head(reports'[a]))
  /\ UNCHANGED <<tool, numbers>>

-----------------------------------------------------------------------------
(* Commands.                                                               *)

\* Mutants: a chain ends with the first error, and read_status goes on after one.
AfterOrNothing(command, ok) ==
  CASE command = "write" /\ ok -> "read"
    [] command = "read" /\ ok -> "write"
    [] command = "readStatus" /\ ok -> "readPosition"
    [] command = "readPosition" /\ ok -> "readStatus"
    [] OTHER -> "none"
AfterAnyway(command, ok) ==
  CASE command = "write" -> "read"
    [] command = "read" -> "write"
    [] command = "readStatus" -> "readPosition"
    [] command = "readPosition" -> "readStatus"
    [] OTHER -> "none"

\* The command that the callback of a command sends.
After(command, ok) ==
  CASE command = "write" -> "read"
    [] command = "read" -> "write"
    [] command = "readStatus" /\ ok -> "readPosition"
    [] command = "readPosition" /\ ok -> "readStatus"
    [] OTHER -> "none"

\* Writes on their way: what came too late or was repeated.
Strays(again) ==
  /\ stray' = [v \in Variables |->
                 IF v \in again THEN stray[v] \union {value[v]} ELSE stray[v]]
  /\ Cardinality({w \in Variables \X (0 .. Values - 1) : w[2] \in stray'[w[1]]}) <= MaxStray

\* What an answered write leaves behind; one that failed was carried out or not.
Writes(c, ok) ==
  \E done, again \in SUBSET c :
    /\ ok => done = c
    /\ memory' = [v \in Variables |-> IF v \in done THEN value[v] ELSE memory[v]]
    /\ Strays(again)
    /\ doubt' = IF ok THEN doubt \ c ELSE doubt \union c

Wrap(n) == n % Values

\* Mutant: the counters go up when the write was answered.
CountsEarly(c, command, ok) ==
  value' = [v \in Variables |->
              IF command = "write" /\ ok /\ v \in c THEN Wrap(value[v] + 1) ELSE value[v]]

\* The counters go up when a read was answered, right or wrong.
Counts(c, command, ok) ==
  value' = [v \in Variables |->
              IF command = "read" /\ ok /\ v \in c THEN Wrap(value[v] + 1) ELSE value[v]]

\* The id of the next command may be taken still by a command of another chain, if the
\* ids came round since that was sent: registerHandler throws, and nobody catches it.
Refused(c, ok) ==
  After(op[c], ok) # "none" /\ \E d \in Chains \ {c} : op[d] # "none"

\* The callback of the command of chain c.  read_status asks a position in pulses
\* for its cartesian form, which throws; file_manager exits after a failed transfer.
Answered(c, ok) ==
  /\ op[c] # "none"
  /\ op' = [op EXCEPT ![c] = After(op[c], ok)]
  /\ \/ op[c] = "transfer" /\ ~ok /\ ended' = "exited"
     \/ op[c] = "readPosition" /\ ok /\ ended' = "crashed"
     \/ Refused(c, ok) /\ ended' = "crashed"
     \/ ~(op[c] = "transfer" /\ ~ok) /\ UNCHANGED ended
  /\ Counts(c, op[c], ok)
  /\ IF op[c] = "write" THEN Writes(c, ok) ELSE UNCHANGED <<memory, stray, doubt>>

\* read_status closes the client after any error.
ClosesAfter(ok) == tool = "read_status" /\ ~ok

\* A command fails without a reply: its deadline passed or it was not sent.
Fails(c) ==
  /\ Answered(c, FALSE)
  /\ IF ClosesAfter(FALSE) /\ open THEN Close ELSE UNCHANGED vars
  /\ UNCHANGED tool

\* A datagram answers a command, is one of several that a command takes, or goes
\* to on_error.
Receiving ==
  /\ OnReceive
  /\ \/ /\ tool = "application" \/ Head(queue).ec = "canceled"
           \/ open' = (open /\ ~ClosesAfter(FALSE))
        /\ UNCHANGED <<ended, op, numbers>>
     \/ /\ Head(queue).ec # "canceled"
        /\ \E c \in Chains, ok \in BOOLEAN :
             Answered(c, ok) /\ open' = (open /\ ~ClosesAfter(ok))
  /\ UNCHANGED tool

\* The network delivers a late or repeated write.
StrayArrives(v) ==
  \E x \in stray[v] :
    /\ memory' = [memory EXCEPT ![v] = x]
    /\ stray' = [stray EXCEPT ![v] = @ \ {x}]
    /\ doubt' = doubt \union {v}
    /\ UNCHANGED <<vars, tool, ended, op, value>>

-----------------------------------------------------------------------------

Alive == Running /\ ended = "no"

ToolDispatch == Alive /\ (Connecting \/ Receiving)

Environment ==
  \/ \E a \in Attempts : TimerEnds(a)
  \/ \E a \in Attempts, ec \in {"ok", "error"} : ResolveEnds(a, ec)
  \/ ReceiveEnds

OtherApplication ==
  tool = "application" /\ (Close \/ \E a \in Attempts : Connect(a))

ToolNext ==
  \/ Alive /\ Start
  \/ Alive /\ (OtherApplication \/ Environment) /\ UNCHANGED toolVars
  \/ ToolDispatch
  \/ \E c \in Chains : Alive /\ Fails(c)
  \/ \E v \in Variables : Alive /\ StrayArrives(v)

ToolSpec == ToolInit /\ [][ToolNext]_allVars

\* As FairSpec of Connection; and every command is answered, as CommandPromise has it.
FairToolSpec ==
  /\ ToolSpec
  /\ WF_allVars(ToolDispatch)
  /\ \A a \in Attempts : WF_allVars(Alive /\ TimerEnds(a) /\ UNCHANGED toolVars)
  /\ \A c \in Chains : WF_allVars(Alive /\ Fails(c))

-----------------------------------------------------------------------------
(* Properties.                                                             *)

\* checkValue, "Read wrong byte value": a tool reads the value it wrote last, unless
\* that write failed or a late one came after it; then it reads right again as soon
\* as a write succeeds, whatever went wrong before.
ReadsWhatItWrote ==
  \A c \in Chains : op[c] = "read" =>
    \A v \in c : v \in doubt \/ memory[v] = value[v]

\* A command that was refused because of another chain ended the tool.
Collided(c) == ended = "crashed" /\ \E d \in Chains \ {c} : op[d] # "none"

\* A chain goes on for ever, after errors too: writes are followed by reads and reads
\* by writes; unless another chain has a command whose id comes round.
ChainsGoOn ==
  \A c \in Chains \ {{}} :
    /\ op[c] = "write" ~> op[c] = "read" \/ Collided(c)
    /\ op[c] = "read" ~> op[c] = "write" \/ Collided(c)

\* io_context::run() returned, or the program ended before.
Over ==
  \/ ~Alive
  \/ /\ queue = << >> /\ receiving = 0
     /\ \A a \in Attempts : ~timed[a] /\ phase[a] \in {"idle", "over"}
     /\ \A c \in Chains : op[c] = "none"

GaveUp ==
  /\ tool # "application"
  /\ \E a \in Attempts :
       \/ reports[a] \in {<<"failure">>, <<"timeout">>}
       \/ reports[a] # << >> /\ ~open

\* A tool that could not connect ends, even while a late connection is under way, and
\* so does read_status once it closed the client, whatever is pending by then.
ToolEnds == GaveUp ~> Over

=============================================================================
