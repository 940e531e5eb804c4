-------------------------------- MODULE Codec --------------------------------
(***************************************************************************)
(* The commands as the application and the controller see them, one at a   *)
(* time: a command is encoded, carried out by the controller or not, and   *)
(* the reply, if one arrives and whatever became of it on the way, is      *)
(* decoded.  The robot's variables are of one type, chosen at the start,   *)
(* since the templates of protocol.cpp differ in nothing else.             *)
(*                                                                         *)
(* The controller is modelled as far as the encoders and decoders imply    *)
(* it.  Sessions, ids and more than one command at a time are in UdpClient.*)
(***************************************************************************)
EXTENDS Text

CONSTANTS
  NumSlots,   \* number of variables
  Writes,     \* by type: the sequences of values the application writes
  Reads,      \* the <<index, count>> it reads
  Indices,    \* the indices of single reads and of writes
  Targets,    \* the positions it moves to
  Groups,     \* the control groups it asks the position of
  Flags       \* the statuses the robot may be in

ASSUME CodecAssumption ==
  /\ NumSlots \in 1 .. 256
  /\ DOMAIN Writes \subseteq Types
  /\ \A t \in DOMAIN Writes : Writes[t] \subseteq Seq(ValuesOf(t))
  /\ Targets \subseteq Cartesians
  /\ Reads \subseteq (0 .. 255) \X (0 .. 255)
  /\ Indices \subseteq 0 .. 255
  /\ Groups \subseteq Nat
  /\ Flags \subseteq SUBSET DOMAIN StatusFlags

VARIABLES
  type,    \* the type of the variables
  memory,  \* the variables, as fields
  files,   \* the names of the controller's files
  flags,   \* the robot's status
  asked,   \* the last command
  stage,   \* "idle"; or the command was "sent", "replied" to, or its reply "dropped"
  wire,    \* the datagram on its way
  did,     \* history: what the controller did for the command
  clean,   \* history: nothing happened to the reply
  result   \* of the last command

controller == <<memory, files, flags>>
vars == <<type, controller, asked, stage, wire, did, clean, result>>

Slots == 0 .. NumSlots - 1
Systems == DOMAIN PositionInstances
Nothing == [op |-> "none"]
Outcome(o) == [outcome |-> o, value |-> << >>]

Commands(t) ==
  [op : {"readOne"}, index : Indices]
    \union {[op |-> "read", index |-> r[1], count |-> r[2]] : r \in Reads}
    \union [op : {"write"}, index : Indices, values : Writes[t]]
    \union [op : {"where"}, group : Groups, system : Systems]
    \union [op : {"status"}]
    \union [op : {"moveL"}, group : Groups, speed : {[type |-> 1, value |-> 100]}, target : Targets]
    \union [op : {"delete"}, name : {1, 2}]

\* The variables hold one value that was written before.
InitialValues(t) ==
  {w[1] : w \in {w \in Writes[t] : Len(w) = 1 /\ Encodes(t, [op |-> "write", values |-> w])}}

Init ==
  /\ type \in DOMAIN Writes
  /\ \E v \in InitialValues(type) : memory = [s \in Slots |-> EncodeValue(type, v)]
  /\ files = {1}
  /\ flags \in Flags
  /\ asked = Nothing
  /\ stage = "idle"
  /\ wire = << >>
  /\ did = "nothing"
  /\ clean = TRUE
  /\ result = Outcome("none")

-----------------------------------------------------------------------------
(* The application.                                                        *)

\* CommandSession: the constructor encodes the command, and may throw.
Send(c) ==
  /\ stage = "idle"
  /\ asked' = c
  /\ did' = "nothing"
  /\ clean' = TRUE
  /\ IF Encodes(type, c)
     THEN stage' = "sent" /\ wire' = <<EncodeCommand(type, c)>> /\ result' = Outcome("none")
     ELSE result' = Outcome("thrown") /\ UNCHANGED <<stage, wire>>
  /\ UNCHANGED <<type, controller>>

\* What was read is written back as it is.
WriteBack ==
  /\ asked.op \in {"read", "readOne"}
  /\ result.outcome = "ok"
  /\ Len(result.value) \in 1 .. 2
  /\ Send([op |-> "write", index |-> asked.index, values |-> result.value])

\* What a hand may make of a document: another frame, one that does not exist, a
\* configuration that is out of range, a key too few, or one with another name.
Edited(node) ==
  LET others == DOMAIN node \ {"tool"}
  IN  {[node EXCEPT !["frame"] = "master"], [node EXCEPT !["frame"] = "user17"],
       [node EXCEPT !["configuration"] = -@ - 1],
       [key \in others |-> node[key]],
       [key \in others \union {"tcp"} |-> IF key = "tcp" THEN 0 ELSE node[key]]}

\* The Cartesian positions that were read, if any were.
PositionRead ==
  IF type = "position" /\ asked.op \in {"read", "readOne"}
  THEN {v \in Range(result.value) : v.kind = "cartesian"}
  ELSE {}

\* A position that was read is saved as YAML, edited or not, and written back.
Restore ==
  \E v \in PositionRead : \E node \in {EncodeYaml(v)} \union Edited(EncodeYaml(v)) :
    LET p == DecodeYaml(node) IN
    \/ p # << >> /\ Send([op |-> "write", index |-> asked.index, values |-> p])
    \/ /\ p = << >>
       /\ stage = "idle"
       /\ result' = Outcome("thrown")
       /\ UNCHANGED <<type, controller, asked, stage, wire, did, clean>>

-----------------------------------------------------------------------------
(* The controller.                                                         *)

\* The instances of ReadCurrentPosition that stand for axes of each kind: those of the
\* control groups that there are.
AxisInstances ==
  [robot_pulse |-> 1 .. 10, base_pulse |-> 11 .. 20, station_pulse |-> 21 .. 100,
   robot_cartesian |-> 101 .. 110]

\* The position of the axes that an instance stands for: the tool tells which.
CurrentPosition(instance) ==
  LET system == CHOOSE s \in Systems : instance \in AxisInstances[s]
  IN  IF system = "robot_cartesian"
      THEN encodeCartesian([frame |-> base, configuration |-> 0, tool |-> instance,
                            coordinates |-> <<0, 0, 0, 0, 0, 0>>])
      ELSE encodePulse([tool |-> instance, joints |-> <<1, 2, 3, 4, 5, 6, 0, 0>>])

StatusData ==
  LET bit(k, n) == IF \E f \in flags : StatusFlags[f] = <<k, n>> THEN 2^n ELSE 0
  IN  [k \in 1 .. 8 |->
        writeLittleEndian(1, bit(k, 0) + bit(k, 1) + bit(k, 2) + bit(k, 3)
                               + bit(k, 4) + bit(k, 5) + bit(k, 6) + bit(k, 7))]

Datagram(payload, status) ==
  [magic |-> TRUE, header_size |-> header_size, payload_size |-> Size(payload), ack |-> 1,
   status |-> status, payload |-> payload, size |-> header_size + Size(payload)]

Reply(what, payload) ==
  /\ stage = "sent"
  /\ stage' = "replied"
  /\ did' = what
  /\ wire' = <<Datagram(payload, 0)>>
  /\ UNCHANGED <<type, flags, asked, clean, result>>

Asks(division, command, service) ==
  /\ stage = "sent"
  /\ wire[1].division = division
  /\ wire[1].command = command
  /\ wire[1].service = service

\* n variables from the instance of the request on.
Within(n) == wire[1].instance + n <= NumSlots

ServeRead ==
  \/ /\ Asks("robot", single_command[type], get_all)
     /\ Within(1)
     /\ Reply("read", memory[wire[1].instance])
     /\ UNCHANGED <<memory, files>>
  \/ /\ Asks("robot", multiple_command[type], read_multiple)
     /\ LET n == Unsigned(wire[1].payload[1])
            data == Joined(type, [k \in 1 .. n |-> memory[wire[1].instance + k - 1]])
        IN  Within(n) /\ Reply("read", <<Word(n)>> \o data)
     /\ UNCHANGED <<memory, files>>

\* The variables after data was written from the instance of the request on.
Written(data) ==
  LET at(s) == FieldsOf(type) * (s - wire[1].instance)
  IN  [s \in Slots |-> IF at(s) >= 0 /\ at(s) < Len(data)
                       THEN SubSeq(data, at(s) + 1, at(s) + FieldsOf(type)) ELSE memory[s]]

ServeWrite ==
  \/ /\ Asks("robot", single_command[type], set_all)
     /\ Within(1)
     /\ Size(wire[1].payload) = encoded_size[type]
     /\ memory' = Written(wire[1].payload)
     /\ Reply("write", << >>)
     /\ UNCHANGED files
  \/ /\ Asks("robot", multiple_command[type], write_multiple)
     /\ LET n == Unsigned(wire[1].payload[1])
        IN  /\ Within(n)
            /\ Size(wire[1].payload) = 4 + n * encoded_size[type]
            /\ memory' = Written(Tail(wire[1].payload))
     /\ Reply("write", << >>)
     /\ UNCHANGED files

\* A position may be sent without the words of the axes that are not there.
ServeOther ==
  \/ /\ Asks("robot", read_robot_position, get_all)
     /\ \E s \in Systems : wire[1].instance \in AxisInstances[s]
     /\ \E k \in {12, 13} :
          Reply("where", SubSeq(CurrentPosition(wire[1].instance), 1, k))
     /\ UNCHANGED <<memory, files>>
  \/ /\ Asks("robot", read_status_information, get_all)
     /\ Reply("status", StatusData)
     /\ UNCHANGED <<memory, files>>
  \/ /\ Asks("file", 0, delete_file)
     /\ Unsigned(wire[1].payload[1]) \in files
     /\ files' = files \ {Unsigned(wire[1].payload[1])}
     /\ Reply("delete", << >>)
     /\ UNCHANGED memory

\* The controller refuses, for a reason of its own.
Refuse ==
  /\ stage = "sent"
  /\ stage' = "replied"
  /\ wire' = <<Datagram(<< >>, 1)>>
  /\ UNCHANGED <<type, controller, asked, did, clean, result>>

-----------------------------------------------------------------------------
(* The reply.                                                              *)

\* What may come instead of datagram d: a header of another protocol, a request,
\* less than a header, less than the header says; or the reply to another command,
\* with less data (UdpClient tells when the id lets it through).
Spoilt(d) ==
  LET less == SubSeq(d.payload, 1, Len(d.payload) - 1)
  IN  {[d EXCEPT !.magic = FALSE], [d EXCEPT !.header_size = 0], [d EXCEPT !.ack = 0],
       [d EXCEPT !.size = 20, !.payload = << >>],
       [d EXCEPT !.size = header_size + Size(less), !.payload = less],
       Datagram(less, d.status), Datagram(<< >>, d.status)}

Spoil ==
  /\ stage = "replied"
  /\ clean
  /\ clean' = FALSE
  /\ \E d \in Spoilt(wire[1]) : wire' = <<d>>
  /\ UNCHANGED <<type, controller, asked, stage, did, result>>

\* What is left of a datagram in the buffer of the client.
Received(d) == IF d.size > read_buffer_size THEN [d EXCEPT !.size = read_buffer_size] ELSE d

\* Client::onReceive, and the handler of the session.
Receive ==
  /\ stage = "replied"
  /\ LET d == Received(wire[1])
         header == decodeResponseHeader(d)
     IN  CASE header.outcome = "overrun" -> stage' = "idle" /\ result' = header
           [] header.outcome = "malformed" -> stage' = "dropped" /\ UNCHANGED result
           [] header.outcome = "ok" /\ d.status # 0 -> stage' = "idle" /\ result' = Outcome("failed")
           [] OTHER -> stage' = "idle" /\ result' = DecodeReply(type, asked, d.payload)
  /\ wire' = << >>
  /\ UNCHANGED <<type, controller, asked, did, clean>>

\* Mutant: the handler of a session that timed out stays, and takes the reply.
TimeoutLeavesReply ==
  /\ stage # "idle"
  /\ stage' = "idle"
  /\ result' = Outcome("timed out")
  /\ UNCHANGED <<type, controller, asked, wire, did, clean>>

\* The deadline of the session passes.
Timeout ==
  /\ stage # "idle"
  /\ stage' = "idle"
  /\ wire' = << >>
  /\ result' = Outcome("timed out")
  /\ UNCHANGED <<type, controller, asked, did, clean>>

Next ==
  \/ \E c \in Commands(type) : Send(c)
  \/ WriteBack
  \/ Restore
  \/ ServeRead
  \/ ServeWrite
  \/ ServeOther
  \/ Refuse
  \/ Spoil
  \/ Receive
  \/ Timeout

Spec == Init /\ [][Next]_vars

-----------------------------------------------------------------------------
(* Properties.                                                             *)

Outcomes == {"none", "ok", "malformed", "overrun", "failed", "timed out", "thrown"}

\* Type correctness; every variable has the size of its type.
TypeOK ==
  /\ type \in Types
  /\ DOMAIN memory = Slots
  /\ \A s \in Slots : Size(memory[s]) = encoded_size[type]
  /\ files \subseteq {1, 2}
  /\ flags \in Flags
  /\ stage \in {"idle", "sent", "replied", "dropped"}
  /\ wire = << >> <=> stage \in {"idle", "dropped"}
  /\ did \in {"nothing", "read", "write", "where", "status", "delete"}
  /\ clean \in BOOLEAN
  /\ result.outcome \in Outcomes

Abs(n) == IF n < 0 THEN -n ELSE n

\* What the robot may hold for value v (decodePosition of encodePosition): the
\* joints padded to eight; each coordinate nearer to zero by less than the unit
\* that was cut off, or by one unit; and nothing readable for user frame 16.
Near(v, h) ==
  \/ h = <<v>>
  \/ /\ v.kind = "pulse"
     /\ h = <<[v EXCEPT !.joints = [i \in 1 .. 8 |-> IF i \in DOMAIN @ THEN @[i] ELSE 0]]>>
  \/ /\ v.kind = "cartesian"
     /\ h = << >> <=> v.frame = user16
     /\ h # << >> =>
          /\ h[1] = [v EXCEPT !.coordinates = h[1].coordinates]
          /\ \A i \in 1 .. 6 :
               LET old == v.coordinates[i]
                   new == h[1].coordinates[i]
               IN  old * new >= 0 /\ Abs(old) - Abs(new) \in 0 .. 10

Carried == did \in {"read", "write", "where", "status", "delete"}

Held == [s \in Slots |-> DecodeValue(type, memory[s])]

\* A command, and the one in progress, for the store.
ForStore(c) ==
  CASE c.op = "readOne" -> [op |-> "read", index |-> c.index, count |-> 1]
    [] c.op \in {"read", "write"} -> c
    [] OTHER -> [op |-> "other"]

Command == IF stage = "idle" THEN Nothing ELSE ForStore(asked)

Store == INSTANCE VariableStore WITH
  memory <- Held,
  asked <- Command,
  done <- stage # "idle" /\ Carried,
  seen <- IF Command.op = "read" /\ Carried
          THEN [k \in 1 .. Command.count |-> Held[Command.index + k - 1]] ELSE << >>,
  answer <- result

\* The encoders, the decoders and the choice between one and many variables
\* (protocol.cpp:170-255) implement a store: writes and reads of one variable and of
\* many agree, no value is taken for another, and success is not reported otherwise.
KeepsPromise == Store!Spec

\* No decoder reads past the end of the data, whatever arrives.
NoOverrun == result.outcome # "overrun"

\* A command only succeeds if the controller did that very operation, but for a reply
\* to another command that comes in its place: only the size of the data is compared.
SuccessMeansDone ==
  clean /\ result.outcome = "ok" => did = IF asked.op = "readOne" THEN "read" ELSE asked.op

Large == asked.op = "read" /\ 4 + asked.count * encoded_size[type] > max_payload_size

Unreadable ==
  /\ asked.op \in {"read", "readOne"}
  /\ \E k \in 1 .. IF asked.op = "read" THEN asked.count ELSE 1 : Held[asked.index + k - 1] = << >>

\* A reply that arrives as the controller sent it is understood, except that to MoveL
\* (which is to another command), a position in user frame 16, and what does not fit
\* in a reply, which is dropped until the command times out.
CleanRepliesAreUnderstood ==
  clean =>
    /\ result.outcome = "malformed" => asked.op = "moveL" \/ Unreadable
    /\ stage = "dropped" => Large

\* The control groups that there are of every kind.
ControlGroups == 0 .. 9

\* What is reported of the robot is its status, and the position of the very axes that
\* were asked for (ReadCurrentPosition's instances of different axes never meet), for a
\* control group that exists: no group is checked, and a higher one gives the position
\* of axes of the next kind.  Not so for a reply that came short: one without any data
\* is decoded as a position.
ReportsTheRobot ==
  clean /\ result.outcome = "ok" =>
    /\ asked.op = "status" => result.value = <<flags>>
    /\ asked.op = "where" /\ asked.group \in ControlGroups =>
         /\ result.value[1].tool \in AxisInstances[asked.system]
         /\ \A i \in AxisInstances[asked.system] : i >= result.value[1].tool - asked.group
         /\ result.value[1].tool - asked.group \in AxisInstances[asked.system]

\* A position that was read from the robot and saved is loaded as it was, in whichever
\* frame; a document that was edited gives a position that can be, or none.
LoadedIsSaved ==
  \A v \in PositionRead :
    LET node == EncodeYaml(v) IN
    /\ DecodeYaml(node) = <<v>>
    /\ \A n \in Edited(node) : Range(DecodeYaml(n)) \subseteq Cartesians

==============================================================================
