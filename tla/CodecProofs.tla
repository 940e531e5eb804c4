----------------------------- MODULE CodecProofs -----------------------------
(***************************************************************************)
(* Theorems about Codec for any number of variables and any values: what   *)
(* is on its way is the command or the answer to it, so that success is    *)
(* only reported of what was done, replies are understood, the robot is    *)
(* reported as it is, and the commands on variables implement a store.     *)
(***************************************************************************)
EXTENDS Codec, WireProofs, SequenceTheorems, FiniteSetTheorems, TLAPS

LEMMA SmallFits ==
  ASSUME NEW n \in 0 .. 6
  PROVE  n \in Int32
BY Int32Facts DEF Int32

-----------------------------------------------------------------------------
(* Documents.                                                              *)

\* Whatever a document says, a position that is made of it can be a position.
LEMMA AnyDocument ==
  ASSUME NEW node, node["configuration"] \in Int, node["tool"] \in Int32,
         \A i \in 1 .. 6 : node[Axes[i]] \in Coordinates, NEW p \in Range(DecodeYaml(node))
  PROVE  p \in Cartesians
<1> DEFINE frame == toCoordinateSystem(node["frame"])
<1> HIDE DEF frame
<1> DEFINE P(f) == [kind |-> "cartesian", frame |-> f,
                    configuration |-> (node["configuration"] % 256) % 64, tool |-> node["tool"],
                    coordinates |-> [i \in 1 .. 6 |-> node[Axes[i]]]]
<1>1. DecodeYaml(node) = << >> \/ DecodeYaml(node) = [k \in DOMAIN frame |-> P(frame[k])]
  BY DEF DecodeYaml, frame
<1>2. PICK k \in DOMAIN frame : p = P(frame[k])
  <2> HIDE DEF P
  <2> QED
    BY <1>1 DEF Range
<1>3. frame[k] \in base .. master
  <2>1. frame[k] \in Range(frame)
    BY DEF Range
  <2> QED
    BY <2>1, NamedFrames DEF frame
<1>4. (node["configuration"] % 256) % 64 \in 0 .. 63
  <2>1. \A x \in Int : (x % 256) % 64 \in 0 .. 63
    OBVIOUS
  <2> QED
    BY <2>1
<1>5. [i \in 1 .. 6 |-> node[Axes[i]]] \in [1 .. 6 -> Coordinates]
  OBVIOUS
<1> QED
  BY <1>2, <1>3, <1>4, <1>5 DEF Cartesians, Configurations

LEMMA SavedAndEdited ==
  ASSUME NEW v \in Cartesians
  PROVE  LET node == EncodeYaml(v) IN
         /\ DecodeYaml(node) = <<v>>
         /\ \A n \in Edited(node) : Range(DecodeYaml(n)) \subseteq Cartesians
<1>1. PICK f \in base .. master, c \in 0 .. 63, t \in Int32, xs \in [1 .. 6 -> Coordinates] :
        v = [kind |-> "cartesian", frame |-> f, configuration |-> c, tool |-> t,
             coordinates |-> xs]
  BY DEF Cartesians, Configurations
<1> DEFINE name == toString(f)
           node == [x |-> xs[1], y |-> xs[2], z |-> xs[3], rx |-> xs[4], ry |-> xs[5],
                    rz |-> xs[6], frame |-> name, configuration |-> c, tool |-> t]
<1> HIDE DEF name
<1>3. EncodeYaml(v) = node
  BY <1>1 DEF EncodeYaml, name
<1>4. DecodeYaml(node) = <<v>>
  <2>1. DecodeYaml(EncodeYaml(v)) = <<v>>
    <3> HIDE DEF node
    <3> QED BY <1>1, Int32IsInt, CoordinateFits, YamlRoundTrip
  <2> QED
    BY <1>3, <2>1
<1>5. /\ DOMAIN node = Keys /\ node["configuration"] = c /\ node["tool"] = t
      /\ node["x"] = xs[1] /\ node["y"] = xs[2] /\ node["z"] = xs[3]
      /\ node["rx"] = xs[4] /\ node["ry"] = xs[5] /\ node["rz"] = xs[6]
  BY DEF Keys
<1> HIDE DEF node
<1>6. \A i \in 1 .. 6 : Axes[i] \in {"x", "y", "z", "rx", "ry", "rz"} /\ node[Axes[i]] \in Coordinates
  BY <1>5 DEF Axes
<1>7. ASSUME NEW n \in Edited(node), NEW p \in Range(DecodeYaml(n))
      PROVE  p \in Cartesians
  <2> DEFINE others == DOMAIN node \ {"tool"}
  <2>1. CASE n = [node EXCEPT !["frame"] = "master"] \/ n = [node EXCEPT !["frame"] = "user17"]
    <3>1. n["configuration"] \in Int /\ n["tool"] \in Int32 /\ \A i \in 1 .. 6 : n[Axes[i]] = node[Axes[i]]
      BY <1>5, <1>6, <2>1 DEF Keys
    <3> QED
      BY <1>6, <1>7, <3>1, AnyDocument
  <2>2. CASE n = [node EXCEPT !["configuration"] = -node["configuration"] - 1]
    <3>1. n["configuration"] = -c - 1 /\ n["tool"] = t /\ \A i \in 1 .. 6 : n[Axes[i]] = node[Axes[i]]
      BY <1>5, <1>6, <2>2 DEF Keys
    <3> QED
      BY <1>6, <1>7, <3>1, AnyDocument
  <2>3. CASE "tool" \notin DOMAIN n
    <3>1. DecodeYaml(n) = << >>
      BY <2>3 DEF DecodeYaml
    <3> QED
      BY <1>7, <3>1 DEF Range
  <2>4. CASE \/ n = [key \in others |-> node[key]]
             \/ n = [key \in others \union {"tcp"} |-> IF key = "tcp" THEN 0 ELSE node[key]]
    <3>1. "tool" \notin DOMAIN n
      BY <2>4
    <3> QED
      BY <2>3, <3>1
  <2> QED
    BY <1>7, <2>1, <2>2, <2>4 DEF Edited
<1>8. \A n \in Edited(node) : Range(DecodeYaml(n)) \subseteq Cartesians
  BY <1>7
<1> QED
  BY <1>3, <1>4, <1>8

-----------------------------------------------------------------------------
(* The invariant.                                                          *)

\* The commands that may be given, with any value of the type.
Possible(t) ==
  [op : {"readOne"}, index : 0 .. 255]
    \union [op : {"read"}, index : 0 .. 255, count : 0 .. 255]
    \union [op : {"write"}, index : 0 .. 255, values : Seq(ValuesOf(t))]
    \union [op : {"where"}, group : Groups, system : Systems]
    \union [op : {"status"}]
    \union [op : {"moveL"}, group : Groups, speed : {[type |-> 1, value |-> 100]}, target : Cartesians]
    \union [op : {"delete"}, name : {1, 2}]

\* What the controller does for a command: MoveL is taken for another one.
Does(c) ==
  CASE c.op = "readOne" -> "read"
    [] c.op = "moveL" -> "where"
    [] OTHER -> c.op

Single(c) == c.op = "readOne" \/ (c.op = "read" /\ c.count = 1)

\* The variables that a command reads.
Slice(c) == [k \in 1 .. c.count |-> memory[c.index + k - 1]]

Instance(c) == IF c.op = "moveL" THEN 2 ELSE (c.group + PositionInstances[c.system]) % 2^16

\* What the controller answers, once it did what is asked.
Payloads ==
  CASE Single(asked) -> {memory[asked.index]}
    [] asked.op = "read" /\ ~Single(asked) -> {<<Word(asked.count)>> \o Joined(type, Slice(asked))}
    [] asked.op \in {"write", "delete"} -> {<< >>}
    [] asked.op = "status" -> {StatusData}
    [] asked.op \in {"where", "moveL"} ->
         {SubSeq(CurrentPosition(Instance(asked)), 1, k) : k \in {12, 13}}

Answers ==
  IF did = "nothing" THEN {Datagram(<< >>, 1)} ELSE {Datagram(p, 0) : p \in Payloads}

InReach(c) ==
  /\ c.op = "readOne" => c.index \in Slots
  /\ c.op = "read" => c.index + c.count <= NumSlots

\* The robot: its variables hold what their type allows.
Robot ==
  /\ type \in Types
  /\ memory \in [Slots -> Stored(type)]
  /\ files \subseteq {1, 2}
  /\ flags \in Flags

\* A command in progress: what is on its way is the command, or the answer to it, or
\* what became of the answer.
InProgress ==
  /\ asked \in Possible(type) /\ Encodes(type, asked)
  /\ result = Outcome("none")
  /\ \/ stage = "sent" /\ wire = <<EncodeCommand(type, asked)>> /\ did = "nothing" /\ clean
     \/ /\ stage \in {"replied", "dropped"}
        /\ did \in {"nothing", Does(asked)}
        /\ did # "nothing" => InReach(asked)
        /\ stage = "replied" =>
             IF clean THEN wire \in {<<d>> : d \in Answers}
             ELSE \E d \in Answers : wire \in {<<s>> : s \in Spoilt(d)}
        /\ stage = "dropped" => wire = << >> /\ (clean => Large)

\* What was reported of the robot.
Reported ==
  clean /\ result.outcome = "ok" =>
    /\ asked.op = "status" => result.value = <<flags>>
    /\ asked.op = "where" => result.value[1].tool = Instance(asked)

\* A command that ended, or none.
Ended ==
  /\ asked \in Possible(type) \union {Nothing}
  /\ wire = << >>
  /\ stage = "idle"
  /\ did = "nothing" \/ (asked \in Possible(type) /\ did = Does(asked))
  /\ clean \in BOOLEAN
  /\ result.outcome \in Outcomes \ {"overrun"}
  /\ asked.op \in {"read", "readOne"} => result.value \in Seq(ValuesOf(type))
  /\ SuccessMeansDone
  /\ CleanRepliesAreUnderstood
  /\ Reported

CodecInv == Robot /\ clean \in BOOLEAN /\ (InProgress \/ Ended)

-----------------------------------------------------------------------------
(* Requests.                                                               *)

LEMMA CommandNumbers ==
  ASSUME NEW t \in Types
  PROVE  /\ single_command[t] % 2^16 = single_command[t]
         /\ multiple_command[t] % 2^16 = multiple_command[t]
         /\ single_command[t] \in 122 .. 127 /\ multiple_command[t] \in 770 .. 775
         /\ read_robot_position % 2^16 = 117 /\ read_status_information % 2^16 = 114
         /\ read_robot_position = 117 /\ read_status_information = 114
         /\ get_all = 1 /\ set_all = 2 /\ read_multiple = 51 /\ write_multiple = 52
<1>1. single_command[t] \in 122 .. 127 /\ multiple_command[t] \in 770 .. 775
  BY DEF Types, single_command, multiple_command
<1>2. \A n \in 0 .. 1000 : n % 2^16 = n
  OBVIOUS
<1>3. /\ single_command[t] % 2^16 = single_command[t]
      /\ multiple_command[t] % 2^16 = multiple_command[t]
  BY <1>1, <1>2
<1>4. read_robot_position = 117 /\ read_status_information = 114
  BY DEF read_robot_position, read_status_information
<1>5. read_robot_position % 2^16 = 117 /\ read_status_information % 2^16 = 114
  BY <1>2, <1>4
<1>6. get_all = 1 /\ set_all = 2 /\ read_multiple = 51 /\ write_multiple = 52
  BY DEF get_all, set_all, read_multiple, write_multiple
<1> QED
  BY <1>1, <1>3, <1>4, <1>5, <1>6

\* The fields of the commands.
LEMMA CommandFields ==
  ASSUME NEW t \in Types, NEW c \in Possible(t)
  PROVE  /\ c.op \in Operations
         /\ c.op \in {"readOne", "read", "write"} => c.index \in 0 .. 255
         /\ c.op = "read" => c.count \in 0 .. 255
         /\ c.op = "write" => c.values \in Seq(ValuesOf(t))
         /\ c.op = "where" => c.group \in Groups /\ c.system \in Systems
         /\ c.op = "moveL" => c.target \in Cartesians
         /\ c.op = "delete" => c.name \in {1, 2}
BY DEF Possible, Operations

\* The request for each command.
LEMMA Requests ==
  ASSUME NEW t \in Types, NEW c \in Possible(t), NEW r, r = EncodeCommand(t, c)
  PROVE  /\ Single(c) =>
              /\ r.division = "robot" /\ r.command = single_command[t] /\ r.service = get_all
              /\ r.instance = c.index
         /\ c.op = "read" /\ ~Single(c) =>
              /\ r.division = "robot" /\ r.command = multiple_command[t]
              /\ r.service = read_multiple
              /\ r.instance = c.index /\ r.payload = <<Word(c.count)>>
         /\ c.op = "write" =>
              /\ r.division = "robot" /\ r.instance = c.index
              /\ Len(c.values) = 1 => r.command = single_command[t] /\ r.service = set_all
              /\ Len(c.values) # 1 =>
                   r.command = multiple_command[t] /\ r.service = write_multiple
         /\ c.op \in {"where", "moveL"} =>
              /\ r.division = "robot" /\ r.command = read_robot_position
              /\ r.service = get_all /\ r.instance = Instance(c)
         /\ c.op = "status" =>
              /\ r.division = "robot" /\ r.command = read_status_information
              /\ r.service = get_all
         /\ c.op = "delete" => r.division = "file" /\ r.service = delete_file
<1> DEFINE one == single_command[t]
           many == multiple_command[t]
<1>1. one % 2^16 = one /\ many % 2^16 = many
  BY CommandNumbers
<1>2. \A n \in 0 .. 255 : n % 2^16 = n
  OBVIOUS
<1>3. c.op \in {"readOne", "read", "write"} => c.index % 2^16 = c.index
  BY <1>2, CommandFields
<1> HIDE DEF one, many
<1>4. CASE Single(c)
  <2>1. r = makeRobotRequest(0, one, c.index, 0, get_all, << >>)
    BY <1>4 DEF EncodeCommand, encodeReadVar, encodeReadVars, Single, one
  <2>2. c.op \in {"readOne", "read"}
    BY <1>4 DEF Single
  <2>3. r.division = "robot" /\ r.command = one /\ r.service = get_all /\ r.instance = c.index
    BY <1>1, <1>3, <2>1, <2>2 DEF makeRobotRequest, Request
  <2> QED
    BY <1>4, <2>2, <2>3 DEF one
<1>5. CASE c.op = "read" /\ ~Single(c)
  <2>1. r = makeRobotRequest(4, many, c.index, 0, read_multiple, <<Word(c.count)>>)
    BY <1>5 DEF EncodeCommand, encodeReadVars, Single, many
  <2>2. /\ r.division = "robot" /\ r.command = many /\ r.service = read_multiple
        /\ r.instance = c.index /\ r.payload = <<Word(c.count)>>
    BY <1>1, <1>3, <1>5, <2>1 DEF makeRobotRequest, Request
  <2> QED
    BY <1>5, <2>2 DEF many
<1>6. CASE c.op = "write"
  <2> DEFINE data == Joined(t, [k \in DOMAIN c.values |-> EncodeValue(t, c.values[k])])
             size == Len(c.values) * encoded_size[t]
  <2>1. r = IF Len(c.values) = 1
            THEN makeRobotRequest(encoded_size[t], one, c.index, 0, set_all, data)
            ELSE makeRobotRequest(4 + size, many, c.index, 0, write_multiple,
                                  <<Word(Len(c.values))>> \o data)
    BY <1>6 DEF EncodeCommand, encodeWriteVars, one, many
  <2> HIDE DEF data, size
  <2>2. CASE Len(c.values) = 1
    <3>1. /\ r.division = "robot" /\ r.command = one /\ r.service = set_all
          /\ r.instance = c.index
      BY <1>1, <1>3, <1>6, <2>1, <2>2 DEF makeRobotRequest, Request
    <3> QED
      BY <1>6, <2>2, <3>1 DEF one, Single
  <2>3. CASE Len(c.values) # 1
    <3>1. /\ r.division = "robot" /\ r.command = many /\ r.service = write_multiple
          /\ r.instance = c.index
      BY <1>1, <1>3, <1>6, <2>1, <2>3 DEF makeRobotRequest, Request
    <3> QED
      BY <1>6, <2>3, <3>1 DEF many, Single
  <2> QED
    BY <2>2, <2>3
<1>7. CASE c.op = "where"
  <2> DEFINE i == c.group + PositionInstances[c.system]
  <2>1. r = makeRobotRequest(0, read_robot_position, i, 0, get_all, << >>)
    BY <1>7 DEF EncodeCommand, encodeReadCurrentPosition
  <2> HIDE DEF i
  <2>2. Instance(c) = i % 2^16
    BY <1>7 DEF Instance, i
  <2>3. /\ r.division = "robot" /\ r.command = read_robot_position /\ r.service = get_all
        /\ r.instance = i % 2^16
    BY <2>1, CommandNumbers DEF makeRobotRequest, Request
  <2> QED
    BY <1>7, <2>2, <2>3 DEF Single
<1>8. CASE c.op = "moveL"
  <2>1. PICK size, payload :
          r = makeRobotRequest(size, read_robot_position, 2, 1, get_all, payload)
    <3>1. r = encodeMoveL(c.group, c.speed, c.target)
      BY <1>8 DEF EncodeCommand
    <3> QED
      BY <3>1 DEF encodeMoveL
  <2>2. Instance(c) = 2 /\ 2 % 2^16 = 2
    BY <1>2, <1>8 DEF Instance
  <2>3. /\ r.division = "robot" /\ r.command = read_robot_position /\ r.service = get_all
        /\ r.instance = 2
    BY <2>1, <2>2, CommandNumbers DEF makeRobotRequest, Request
  <2> QED
    BY <1>8, <2>2, <2>3 DEF Single
<1>9. CASE c.op = "status"
  <2>1. r = makeRobotRequest(0, read_status_information, 1, 0, get_all, << >>)
    BY <1>9 DEF EncodeCommand, encodeReadStatus
  <2>2. r.division = "robot" /\ r.command = read_status_information /\ r.service = get_all
    BY <2>1, CommandNumbers DEF makeRobotRequest, Request
  <2> QED
    BY <1>9, <2>2 DEF Single
<1>10. CASE c.op = "delete"
  <2>1. r.division = "file" /\ r.service = delete_file
    BY <1>10 DEF EncodeCommand, encodeDeleteFile, makeFileRequest, Request
  <2> QED
    BY <1>10, <2>1 DEF Single
<1>11. c.op \in {"readOne", "read", "write", "where", "status", "moveL", "delete"}
  BY CommandFields DEF Operations
<1>12. c.op = "readOne" => Single(c)
  BY DEF Single
<1> QED
  BY <1>4, <1>5, <1>6, <1>7, <1>8, <1>9, <1>10, <1>11, <1>12

\* Which command a request stands for: only MoveL is taken for another one.
LEMMA RequestsDiffer ==
  ASSUME NEW t \in Types, NEW c \in Possible(t), NEW r, r = EncodeCommand(t, c)
  PROVE  /\ r.division = "robot" /\ r.command = single_command[t] /\ r.service = get_all
              => Single(c)
         /\ r.division = "robot" /\ r.command = multiple_command[t] /\ r.service = read_multiple
              => c.op = "read" /\ ~Single(c)
         /\ r.division = "robot" /\ r.command = single_command[t] /\ r.service = set_all
              => c.op = "write" /\ Len(c.values) = 1
         /\ r.division = "robot" /\ r.command = multiple_command[t] /\ r.service = write_multiple
              => c.op = "write" /\ Len(c.values) # 1
         /\ r.division = "robot" /\ r.command = read_robot_position /\ r.service = get_all
              => c.op \in {"where", "moveL"}
         /\ r.division = "robot" /\ r.command = read_status_information /\ r.service = get_all
              => c.op = "status"
         /\ r.division = "file" => c.op = "delete"
<1> DEFINE one == single_command[t]
           many == multiple_command[t]
<1>1. /\ one \in 122 .. 127 /\ many \in 770 .. 775
      /\ read_robot_position = 117 /\ read_status_information = 114
      /\ get_all = 1 /\ set_all = 2 /\ read_multiple = 51 /\ write_multiple = 52
  BY CommandNumbers
<1>2. c.op \in {"readOne", "read", "write", "where", "status", "moveL", "delete"}
  BY CommandFields DEF Operations
<1>3. c.op = "readOne" => Single(c)
  BY DEF Single
<1>4. \/ Single(c) /\ r.division = "robot" /\ r.command = one /\ r.service = get_all
      \/ /\ c.op = "read" /\ ~Single(c)
         /\ r.division = "robot" /\ r.command = many /\ r.service = read_multiple
      \/ /\ c.op = "write" /\ Len(c.values) = 1
         /\ r.division = "robot" /\ r.command = one /\ r.service = set_all
      \/ /\ c.op = "write" /\ Len(c.values) # 1
         /\ r.division = "robot" /\ r.command = many /\ r.service = write_multiple
      \/ /\ c.op \in {"where", "moveL"}
         /\ r.division = "robot" /\ r.command = read_robot_position /\ r.service = get_all
      \/ /\ c.op = "status"
         /\ r.division = "robot" /\ r.command = read_status_information /\ r.service = get_all
      \/ c.op = "delete" /\ r.division = "file"
  <2>1. CASE Single(c)
    BY <2>1, Requests, Zenon
  <2>2. CASE c.op = "read" /\ ~Single(c)
    BY <2>2, Requests, Zenon
  <2>3. CASE c.op = "write" /\ Len(c.values) = 1
    BY <2>3, Requests, Zenon
  <2>4. CASE c.op = "write" /\ Len(c.values) # 1
    BY <2>4, Requests, Zenon
  <2>5. CASE c.op \in {"where", "moveL"}
    BY <2>5, Requests, Zenon
  <2>6. CASE c.op = "status"
    BY <2>6, Requests, Zenon
  <2>7. CASE c.op = "delete"
    BY <2>7, Requests, Zenon
  <2> QED
    BY <1>2, <1>3, <2>1, <2>2, <2>3, <2>4, <2>5, <2>6, <2>7
<1> HIDE DEF one, many
<1>5. /\ one # many /\ one # 117 /\ one # 114 /\ many # 117 /\ many # 114
  BY <1>1
<1>6. /\ r.division = "robot" /\ r.command = one /\ r.service = get_all => Single(c)
      /\ r.division = "robot" /\ r.command = many /\ r.service = read_multiple
           => c.op = "read" /\ ~Single(c)
      /\ r.division = "robot" /\ r.command = one /\ r.service = set_all
           => c.op = "write" /\ Len(c.values) = 1
      /\ r.division = "robot" /\ r.command = many /\ r.service = write_multiple
           => c.op = "write" /\ Len(c.values) # 1
      /\ r.division = "robot" /\ r.command = read_robot_position /\ r.service = get_all
           => c.op \in {"where", "moveL"}
      /\ r.division = "robot" /\ r.command = read_status_information /\ r.service = get_all
           => c.op = "status"
      /\ r.division = "file" => c.op = "delete"
  BY <1>1, <1>4, <1>5
<1> QED
  BY <1>6 DEF one, many

-----------------------------------------------------------------------------
(* The robot's answers.                                                    *)

\* The flags are in different bits.
LEMMA FlagsDiffer ==
  /\ \A f \in DOMAIN StatusFlags : StatusFlags[f] \in {1, 5} \X (0 .. 7)
  /\ \A f \in DOMAIN StatusFlags, g \in DOMAIN StatusFlags :
       StatusFlags[f] = StatusFlags[g] => f = g
  BY DEF StatusFlags

\* The status that is sent is the status that is read.
LEMMA StatusIsRead ==
  ASSUME flags \subseteq DOMAIN StatusFlags
  PROVE  /\ StatusData \in Seq(Fields) /\ Size(StatusData) = 8
         /\ decodeStatus(StatusData) = Decoded(<<flags>>)
<1> DEFINE has(k, n) == \E f \in flags : StatusFlags[f] = <<k, n>>
           bit(k, n) == IF has(k, n) THEN 2^n ELSE 0
           sum(k) == bit(k, 0) + bit(k, 1) + bit(k, 2) + bit(k, 3)
                       + bit(k, 4) + bit(k, 5) + bit(k, 6) + bit(k, 7)
<1> HIDE DEF has
<1>1. /\ 2^0 = 1 /\ 2^1 = 2 /\ 2^2 = 4 /\ 2^3 = 8 /\ 2^4 = 16 /\ 2^5 = 32 /\ 2^6 = 64
      /\ 2^7 = 128
  OBVIOUS
<1>2. ASSUME NEW k
      PROVE  /\ sum(k) \in 0 .. 255
             /\ \A n \in 0 .. 7 : (sum(k) \div 2^n) % 2 = 1 <=> has(k, n)
  <2>1. /\ bit(k, 0) \in {0, 1} /\ bit(k, 1) \in {0, 2} /\ bit(k, 2) \in {0, 4}
        /\ bit(k, 3) \in {0, 8} /\ bit(k, 4) \in {0, 16} /\ bit(k, 5) \in {0, 32}
        /\ bit(k, 6) \in {0, 64} /\ bit(k, 7) \in {0, 128}
    BY <1>1
  <2>2. /\ bit(k, 0) # 0 <=> has(k, 0)
        /\ bit(k, 1) # 0 <=> has(k, 1)
        /\ bit(k, 2) # 0 <=> has(k, 2)
        /\ bit(k, 3) # 0 <=> has(k, 3)
        /\ bit(k, 4) # 0 <=> has(k, 4)
        /\ bit(k, 5) # 0 <=> has(k, 5)
        /\ bit(k, 6) # 0 <=> has(k, 6)
        /\ bit(k, 7) # 0 <=> has(k, 7)
    BY <1>1
  <2> DEFINE s == sum(k)
  <2>3. /\ s \in 0 .. 255
        /\ (s % 2 = 1 <=> bit(k, 0) # 0) /\ ((s \div 2) % 2 = 1 <=> bit(k, 1) # 0)
        /\ ((s \div 4) % 2 = 1 <=> bit(k, 2) # 0) /\ ((s \div 8) % 2 = 1 <=> bit(k, 3) # 0)
        /\ ((s \div 16) % 2 = 1 <=> bit(k, 4) # 0) /\ ((s \div 32) % 2 = 1 <=> bit(k, 5) # 0)
        /\ ((s \div 64) % 2 = 1 <=> bit(k, 6) # 0) /\ ((s \div 128) % 2 = 1 <=> bit(k, 7) # 0)
    <3> DEFINE b0 == bit(k, 0)  b1 == bit(k, 1)  b2 == bit(k, 2)  b3 == bit(k, 3)
               b4 == bit(k, 4)  b5 == bit(k, 5)  b6 == bit(k, 6)  b7 == bit(k, 7)
    <3>1. s = b0 + b1 + b2 + b3 + b4 + b5 + b6 + b7
      OBVIOUS
    <3>2. /\ b0 \in {0, 1} /\ b1 \in {0, 2} /\ b2 \in {0, 4} /\ b3 \in {0, 8}
          /\ b4 \in {0, 16} /\ b5 \in {0, 32} /\ b6 \in {0, 64} /\ b7 \in {0, 128}
      BY <2>1
    <3> HIDE DEF s, b0, b1, b2, b3, b4, b5, b6, b7
    \* The bits of a byte that is put together from bits.
    <3>3. /\ s \in 0 .. 255
          /\ (s % 2 = 1 <=> b0 # 0) /\ ((s \div 2) % 2 = 1 <=> b1 # 0)
          /\ ((s \div 4) % 2 = 1 <=> b2 # 0) /\ ((s \div 8) % 2 = 1 <=> b3 # 0)
          /\ ((s \div 16) % 2 = 1 <=> b4 # 0) /\ ((s \div 32) % 2 = 1 <=> b5 # 0)
          /\ ((s \div 64) % 2 = 1 <=> b6 # 0) /\ ((s \div 128) % 2 = 1 <=> b7 # 0)
      BY <3>1, <3>2, SMTT(20)
    <3> QED
      BY <3>3 DEF b0, b1, b2, b3, b4, b5, b6, b7
  <2> HIDE DEF bit, s
  <2>4. s \div 1 = s
    BY <2>3
  <2>5. \A n \in 0 .. 7 : (s \div 2^n) % 2 = 1 <=> has(k, n)
    <3> SUFFICES ASSUME NEW n \in 0 .. 7
                 PROVE  (s \div 2^n) % 2 = 1 <=> has(k, n)
      OBVIOUS
    <3>1. CASE n = 0
      BY <1>1, <2>2, <2>3, <2>4, <3>1
    <3>2. CASE n = 1
      BY <1>1, <2>2, <2>3, <3>2
    <3>3. CASE n = 2
      BY <1>1, <2>2, <2>3, <3>3
    <3>4. CASE n = 3
      BY <1>1, <2>2, <2>3, <3>4
    <3>5. CASE n = 4
      BY <1>1, <2>2, <2>3, <3>5
    <3>6. CASE n = 5
      BY <1>1, <2>2, <2>3, <3>6
    <3>7. CASE n = 6
      BY <1>1, <2>2, <2>3, <3>7
    <3>8. CASE n = 7
      BY <1>1, <2>2, <2>3, <3>8
    <3> QED
      BY <3>1, <3>2, <3>3, <3>4, <3>5, <3>6, <3>7, <3>8
  <2> QED
    BY <2>3, <2>5 DEF s
<1> DEFINE byte(k) == writeLittleEndian(1, sum(k))
<1>3. StatusData = [k \in 1 .. 8 |-> byte(k)]
  BY DEF StatusData, has
<1> HIDE DEF sum
<1>4. \A k \in 1 .. 8 : byte(k) = <<1, sum(k)>>
  <2>1. \A n \in 0 .. 255 : n % 256^1 = n
    OBVIOUS
  <2> QED
    BY <1>2, <2>1 DEF writeLittleEndian
<1> DEFINE data == [k \in 1 .. 8 |-> <<1, sum(k)>>]
<1>5. StatusData = data
  BY <1>3, <1>4
<1>6. data \in Seq({1} \X Int) /\ Len(data) = 8
  <2>1. \A k \in 1 .. 8 : <<1, sum(k)>> \in {1} \X Int
    BY <1>2
  <2> QED
    BY <2>1
<1>7. data \in Seq(Fields) /\ Size(data) = 8
  <2> DEFINE S == {1} \X Int
  <2>1. S \subseteq Fields /\ \A f \in S : f[1] = 1
    BY DEF Fields
  <2> HIDE DEF data, S
  <2>2. data \in Seq(S) /\ Len(data) = 8
    BY <1>6 DEF S
  <2>3. Size(data) = 1 * Len(data)
    BY <2>1, <2>2, SizeOfFields
  <2> QED
    BY <2>1, <2>2, <2>3
<1>8. ASSUME NEW f \in DOMAIN StatusFlags
      PROVE  Bit(data[StatusFlags[f][1]], StatusFlags[f][2]) <=> f \in flags
  <2> DEFINE k == StatusFlags[f][1]
             n == StatusFlags[f][2]
  <2>1. k \in {1, 5} /\ n \in 0 .. 7 /\ StatusFlags[f] = <<k, n>>
    BY FlagsDiffer, Pairs
  <2>2. has(k, n) <=> f \in flags
    BY <2>1, FlagsDiffer DEF has
  <2> HIDE DEF k, n
  <2>3. data[k] = <<1, sum(k)>>
    BY <2>1
  <2> HIDE DEF data
  <2>4. Bit(data[k], n) <=> (sum(k) \div 2^n) % 2 = 1
    BY <2>3 DEF Bit
  <2>5. Bit(data[k], n) <=> f \in flags
    BY <1>2, <2>1, <2>2, <2>4
  <2> QED
    BY <2>5 DEF k, n
<1> HIDE DEF data
<1>9. {f \in DOMAIN StatusFlags : Bit(data[StatusFlags[f][1]], StatusFlags[f][2])} = flags
  BY <1>8
<1>10. decodeStatus(data) = Decoded(<<flags>>)
  BY <1>7, <1>9 DEF decodeStatus, expectSize
<1> QED
  BY <1>5, <1>7, <1>10

\* What is encoded and decoded is near to what it was: the store that is promised.
LEMMA NearIsHeld ==
  ASSUME NEW t \in Types, NEW v \in Encodable(t)
  PROVE  Near(v, DecodeValue(t, EncodeValue(t, v)))
<1>1. v \in ValuesOf(t) /\ (t = "position" /\ v.kind = "cartesian" => v.frame # master)
  BY DEF Encodable
<1>2. CASE t # "position"
  <2> DEFINE f == writeLittleEndian(encoded_size[t], v)
  <2>1. EncodeValue(t, v) = <<f>> /\ \A h : h = <<v>> => Near(v, h)
    BY <1>2 DEF EncodeValue, Near
  <2>2. CASE t = "uint8"
    <3>1. v \in 0 .. 255
      BY <1>1, <2>2, Bytes
    <3>2. \A n \in 0 .. 255 : n % 256^1 = n
      OBVIOUS
    <3>3. Unsigned(f) = v
      BY <2>2, <3>1, <3>2, Bytes DEF writeLittleEndian, Unsigned
    <3> HIDE DEF f
    <3> QED
      BY <2>1, <2>2, <3>3 DEF DecodeValue
  <2>3. CASE t = "int16"
    <3>1. v \in -(2^15) .. 2^15 - 1
      BY <1>1, <2>3, Shorts
    <3>2. ASSUME NEW n \in -(2^15) .. 2^15 - 1
          PROVE  Signed(<<2, n % 256^2>>) = n
      <4>1. 256^2 = 65536 /\ 2^15 = 32768
        OBVIOUS
      <4>2. n % 65536 = IF n < 0 THEN n + 65536 ELSE n
        BY <4>1
      <4> QED
        BY <4>1, <4>2 DEF Signed
    <3>3. f = <<2, v % 256^2>>
      BY <2>3, Shorts DEF writeLittleEndian
    <3>4. Signed(f) = v
      BY <3>1, <3>2, <3>3
    <3> HIDE DEF f
    <3> QED
      BY <2>1, <2>3, <3>4 DEF DecodeValue
  <2>4. CASE t \in {"int32", "float"}
    <3>1. v \in Int32 /\ v \in Int /\ encoded_size[t] = 4
      BY <1>1, <2>4, Longs, Int32IsInt
    <3>2. f = Word(v)
      BY <3>1 DEF Word, writeLittleEndian
    <3>3. Signed(f) = v
      BY <3>1, <3>2, WordIsSigned
    <3> HIDE DEF f
    <3> QED
      BY <2>1, <2>4, <3>3 DEF DecodeValue
  <2>5. t \in {"uint8", "int16", "int32", "float"}
    BY <1>2 DEF Types
  <2> QED
    BY <2>2, <2>3, <2>4, <2>5
<1>3. CASE t = "position" /\ v \in Pulses
  <2> DEFINE e == encodePulse(v)
             js == [i \in 1 .. 8 |-> IF i \in DOMAIN v.joints THEN v.joints[i] ELSE 0]
  <2>1. v.kind = "pulse" /\ v.tool \in Int32 /\ v = [kind |-> "pulse", tool |-> v.tool, joints |-> v.joints]
    BY <1>3 DEF Pulses
  <2>2. \A i \in 1 .. 8 : js[i] \in Int32
    <3>1. v.joints \in Seq(Int32)
      BY <1>3 DEF Pulses
    <3>2. 0 \in Int32
      BY SmallFits
    <3>3. \A i \in DOMAIN v.joints : v.joints[i] \in Int32
      BY <3>1
    <3> QED
      BY <3>2, <3>3
  <2>3. EncodeValue(t, v) = e
    BY <1>3, <2>1 DEF EncodeValue
  <2>4. e[1] = Word(0) /\ e[3] = Word(v.tool) /\ \A i \in 1 .. 8 : e[5 + i] = Word(js[i])
    BY <1>3, PulseWords
  <2> HIDE DEF e, js
  <2>5. Unsigned(e[1]) = 0 /\ Signed(e[3]) = v.tool /\ \A i \in 1 .. 8 : Signed(e[5 + i]) = js[i]
    BY <2>1, <2>2, <2>4, WordIsSigned, Int32IsInt
  <2>6. decodePosition(e)
          = <<[kind |-> "pulse", tool |-> v.tool, joints |-> [i \in 1 .. 8 |-> js[i]]]>>
    BY <2>5 DEF decodePosition
  <2>7. [v EXCEPT !.joints = [i \in 1 .. 8 |-> js[i]]]
          = [kind |-> "pulse", tool |-> v.tool, joints |-> [i \in 1 .. 8 |-> js[i]]]
    BY <2>1
  <2>8. [i \in 1 .. 8 |-> js[i]] = [i \in 1 .. 8 |-> IF i \in DOMAIN v.joints THEN v.joints[i] ELSE 0]
    BY DEF js
  <2>9. DecodeValue(t, e) = <<[v EXCEPT !.joints = [i \in 1 .. 8 |-> js[i]]]>>
    BY <1>3, <2>6, <2>7 DEF DecodeValue
  <2> QED
    BY <2>1, <2>3, <2>8, <2>9 DEF Near
<1>4. CASE t = "position" /\ v \in Cartesians
  <2> DEFINE e == encodeCartesian(v)
             old == v.coordinates
             f == v.frame
             new == [i \in 1 .. 6 |-> 10 * Fixed(old[i], i)]
  <2>1. /\ v.kind = "cartesian" /\ v.tool \in Int32 /\ v.configuration \in 0 .. 63
        /\ \A i \in 1 .. 6 : old[i] \in Coordinates
        /\ v = [kind |-> "cartesian", frame |-> f, configuration |-> v.configuration,
                tool |-> v.tool, coordinates |-> old]
    BY <1>4 DEF Cartesians, Configurations
  <2>2. f # master
    BY <1>1, <1>4, <2>1
  <2>3. EncodeValue(t, v) = e
    BY <1>4, <2>1 DEF EncodeValue
  <2>4. /\ e[1] = Word(encodeFrameType(f)) /\ e[2] = Word(v.configuration)
        /\ e[3] = Word(v.tool) /\ e[4] = Word(userCoordinateNumber(f))
        /\ \A i \in 1 .. 6 : e[5 + i] = Word(Fixed(old[i], i))
        /\ f \in base .. tool
    BY <1>4, <2>2, CartesianWords
  <2>5. encodeFrameType(f) \in 16 .. 19 /\ userCoordinateNumber(f) \in Nat
    BY <2>4, FrameNumbers
  <2>6. \A i \in 1 .. 6 : old[i] \in Int /\ Fixed(old[i], i) \in Int32
    BY <2>1, CoordinateFits
  <2>7. \A i \in 1 .. 6 :
          old[i] * new[i] >= 0 /\ Abs(old[i]) - Abs(new[i]) \in 0 .. 10
    <3> SUFFICES ASSUME NEW i \in 1 .. 6
                 PROVE  old[i] * new[i] >= 0 /\ Abs(old[i]) - Abs(new[i]) \in 0 .. 10
      OBVIOUS
    <3> DEFINE c == old[i]
               n == Fixed(old[i], i)
               m == 10 * Fixed(old[i], i)
    <3>1. /\ c \in Int /\ n \in Int
          /\ c >= 0 => m \in c - 10 .. c /\ n >= 0
          /\ c <= 0 => m \in c .. c + 10 /\ n <= 0
      BY <2>6, FixedIsNear
    <3>2. m = 10 * n
      OBVIOUS
    <3> HIDE DEF c, n, m
    <3>3. m \in Int /\ (c >= 0 => m >= 0) /\ (c <= 0 => m <= 0)
      BY <3>1, <3>2
    <3>4. c * m >= 0
      <4>1. \A x \in Int, y \in Int : (x >= 0 /\ y >= 0) \/ (x <= 0 /\ y <= 0) => x * y >= 0
        OBVIOUS
      <4> QED
        BY <3>1, <3>3, <4>1
    <3>5. Abs(c) - Abs(m) \in 0 .. 10
      BY <3>1, <3>3 DEF Abs
    <3> QED
      BY <3>4, <3>5 DEF c, m
  <2> HIDE DEF e, old, f
  <2>8. /\ Unsigned(e[1]) # 0 /\ Signed(e[1]) = encodeFrameType(f)
        /\ Signed(e[4]) = userCoordinateNumber(f)
        /\ Unsigned(e[2]) = v.configuration /\ Signed(e[3]) = v.tool
        /\ \A i \in 1 .. 6 : Signed(e[5 + i]) = Fixed(old[i], i)
    BY <2>1, <2>4, <2>5, <2>6, WordIsSigned, Int32IsInt
  <2> DEFINE frame == decodeCartesianFrame(encodeFrameType(f), userCoordinateNumber(f))
             P(g) == [kind |-> "cartesian", frame |-> g, configuration |-> v.configuration,
                      tool |-> v.tool, coordinates |-> new]
  <2>9. v.configuration % 64 = v.configuration
    BY <2>1
  <2>10. decodePosition(e) = [k \in DOMAIN frame |-> P(frame[k])]
    <3>1. [i \in 1 .. 6 |-> 10 * Signed(e[5 + i])] = new
      BY <2>8
    <3> HIDE DEF new
    <3> QED
      BY <2>8, <2>9, <3>1 DEF decodePosition
  <2>11. frame = IF f = user16 THEN << >> ELSE <<f>>
    BY <2>4, FrameRoundTrip
  <2> HIDE DEF frame, new
  <2>12. DecodeValue(t, e) = IF f = user16 THEN << >> ELSE <<P(f)>>
    <3>1. DecodeValue(t, e) = decodePosition(e)
      BY <1>4 DEF DecodeValue
    <3>2. CASE f = user16
      <4>1. frame = << >>
        BY <2>11, <3>2
      <4> HIDE DEF P
      <4> QED
        BY <2>10, <3>1, <3>2, <4>1
    <3>3. CASE f # user16
      <4>1. DOMAIN frame = {1} /\ frame[1] = f
        BY <2>11, <3>3
      <4> HIDE DEF P
      <4>2. decodePosition(e) = [k \in {1} |-> P(f)]
        BY <2>10, <4>1
      <4> QED
        BY <3>1, <3>3, <4>2
    <3> QED
      BY <3>2, <3>3
  <2>13. P(f) = [v EXCEPT !.coordinates = new]
    BY <2>1
  <2>14. P(f).coordinates = new
    OBVIOUS
  <2> DEFINE h == DecodeValue(t, e)
  <2>15. h = << >> <=> f = user16
    <3> HIDE DEF P
    <3> QED
      BY <2>12
  <2>16. h # << >> => h[1] = P(f)
    <3> HIDE DEF P
    <3> QED
      BY <2>12
  <2>17. h # << >> => h[1] = [v EXCEPT !.coordinates = new] /\ h[1].coordinates = new
    BY <2>13, <2>14, <2>16
  <2> HIDE DEF h, P
  <2>18. Near(v, h)
    BY <2>1, <2>7, <2>15, <2>17 DEF Near, f, old
  <2> QED
    BY <2>3, <2>18 DEF h
<1> QED
  BY <1>1, <1>2, <1>3, <1>4 DEF ValuesOf

\* The words of a position of the robot.
LEMMA PositionWords ==
  ASSUME NEW instance \in Int32, NEW e, e = CurrentPosition(instance)
  PROVE  /\ e \in Seq(Words) /\ Len(e) = 13 /\ e[3] = Word(instance)
         /\ e[1] = Word(0) \/ (e[1] = Word(16) /\ e[4] = Word(0))
<1> DEFINE xs == <<0, 0, 0, 0, 0, 0>>
           js == <<1, 2, 3, 4, 5, 6, 0, 0>>
           pose == [kind |-> "cartesian", frame |-> base, configuration |-> 0,
                    tool |-> instance, coordinates |-> xs]
           pulse == [kind |-> "pulse", tool |-> instance, joints |-> js]
<1>1. CASE e = encodePulse([tool |-> instance, joints |-> js])
  <2>1. e = encodePulse(pulse)
    BY <1>1 DEF encodePulse
  <2>2. js \in Seq(Int32) /\ Len(js) = 8
    <3>1. \A n \in 0 .. 6 : n \in Int32
      BY SmallFits
    <3>2. js \in Seq(0 .. 6)
      OBVIOUS
    <3> QED
      BY <3>1, <3>2
  <2> HIDE DEF js
  <2>3. pulse \in Pulses /\ pulse.tool = instance
    <3>1. 8 <= 8
      OBVIOUS
    <3> QED
      BY <2>2, <3>1 DEF Pulses
  <2> HIDE DEF pulse
  <2> QED
    BY <2>1, <2>3, PulseWords
<1>2. CASE e = encodeCartesian([frame |-> base, configuration |-> 0, tool |-> instance,
                                coordinates |-> xs])
  <2>1. e = encodeCartesian(pose)
    BY <1>2 DEF encodeCartesian
  <2>2. xs \in [1 .. 6 -> Coordinates]
    <3>1. 0 \in Int32
      BY SmallFits
    <3>2. 0 \in Coordinates
      BY <3>1, CoordinateFits
    <3> QED
      BY <3>1, <3>2
  <2> HIDE DEF xs
  <2>3. base \in base .. master /\ base # master /\ 0 \in 0 .. 63
    BY DEF base, master
  <2>4. pose \in Cartesians /\ pose.frame = base /\ pose.tool = instance /\ pose.frame # master
    BY <2>2, <2>3 DEF Cartesians, Configurations
  <2> HIDE DEF pose
  <2>5. encodeFrameType(base) = 16 /\ userCoordinateNumber(base) = 0
    BY DEF encodeFrameType, userCoordinateNumber, isUserCoordinateSystem,
           base, robot, user1, user16, tool
  <2> QED
    BY <2>1, <2>4, <2>5, CartesianWords
<1> QED
  BY <1>1, <1>2 DEF CurrentPosition

\* A position of the robot, with or without its last words, is read with the tool it has.
LEMMA PositionIsRead ==
  ASSUME NEW instance \in Int32, NEW k \in {12, 13},
         NEW x, x = SubSeq(CurrentPosition(instance), 1, k)
  PROVE  /\ x \in Seq(Words) /\ Size(x) = 4 * k
         /\ \E v : v.tool = instance /\ decodeCurrentPosition(x) = Decoded(<<v>>)
<1> DEFINE e == CurrentPosition(instance)
           z == [i \in 1 .. 13 - Len(x) |-> Word(0)]
           data == x \o z
<1>1. /\ e \in Seq(Words) /\ Len(e) = 13 /\ e[3] = Word(instance)
      /\ e[1] = Word(0) \/ (e[1] = Word(16) /\ e[4] = Word(0))
  BY PositionWords
<1> HIDE DEF e
<1>2. x \in Seq(Words) /\ Len(x) = k /\ \A i \in 1 .. 12 : x[i] = e[i]
  <2>1. \A i \in 1 .. k : e[i] \in Words
    <3>1. \A i \in 1 .. 13 : e[i] \in Words
      BY <1>1, ElementOfSeq
    <3>2. \A i \in 1 .. k : i \in 1 .. 13
      OBVIOUS
    <3> QED
      BY <3>1, <3>2, Zenon
  <2>2. 1 \in Int /\ k \in Int /\ 1 <= k /\ k - 1 + 1 = k
    OBVIOUS
  <2>3. x = SubSeq(e, 1, k)
    BY DEF e
  <2>4. /\ SubSeq(e, 1, k) \in Seq(Words) /\ Len(SubSeq(e, 1, k)) = k
        /\ \A i \in 1 .. k : SubSeq(e, 1, k)[i] = e[1 + i - 1]
    BY <2>1, <2>2, SubSeqProperties
  <2>5. \A i \in 1 .. 12 : i \in 1 .. k /\ 1 + i - 1 = i
    OBVIOUS
  <2> QED
    BY <2>3, <2>4, <2>5
<1>3. \A w \in Words : w[1] = 4
  BY WordIsSigned
<1>4. Size(x) = 4 * k
  BY <1>2, <1>3, SizeOfWords
<1>5. z \in Seq(Words) /\ Len(z) = 13 - k
  <2>1. Word(0) \in Words
    BY SmallFits, WordIsSigned
  <2>2. z = [i \in 1 .. 13 - k |-> Word(0)] /\ 13 - k \in Nat
    BY <1>2
  <2> QED
    BY <2>1, <2>2
<1>6. data \in Seq(Words) /\ Len(data) = 13 /\ \A i \in 1 .. 12 : data[i] = e[i]
  <2>1. x \in Seq(Words) /\ z \in Seq(Words)
    BY <1>2, <1>5
  <2> HIDE DEF z
  <2>2. /\ x \o z \in Seq(Words) /\ Len(x \o z) = Len(x) + Len(z)
        /\ \A i \in 1 .. Len(x) : (x \o z)[i] = x[i]
    BY <2>1, ConcatPlaces
  <2>3. \A i \in 1 .. 12 : i \in 1 .. Len(x)
    BY <1>2
  <2>4. Len(x) + Len(z) = 13
    BY <1>2, <1>5
  <2> QED
    BY <1>2, <2>2, <2>3, <2>4
<1>7. decodeCurrentPosition(x) = DecodeValues("position", 1, data)
  <2>1. expectSizeMax(Size(x), 13 * 4)
    BY <1>4 DEF expectSizeMax
  <2> QED
    BY <2>1 DEF decodeCurrentPosition
<1> HIDE DEF data
<1>8. Size(data) = 52
  <2>1. data \in Seq(Words) /\ Len(data) = 13
    BY <1>6
  <2>2. Size(data) = 4 * Len(data)
    BY <1>3, <2>1, SizeOfWords
  <2> QED
    BY <2>1, <2>2
<1>9. \E v : v.tool = instance /\ decodePosition(data) = <<v>>
  <2>1. /\ data[1] = e[1] /\ Signed(data[3]) = instance
        /\ e[1] = Word(16) => Signed(data[4]) = 0
    BY <1>1, <1>6, WordIsSigned, Int32IsInt
  <2> DEFINE js == [i \in 1 .. 8 |-> Signed(data[5 + i])]
             xs == [i \in 1 .. 6 |-> 10 * Signed(data[5 + i])]
             v == [kind |-> "pulse", tool |-> instance, joints |-> js]
             c == Unsigned(data[2]) % 64
             P(f) == [kind |-> "cartesian", frame |-> f, configuration |-> c,
                      tool |-> instance, coordinates |-> xs]
  <2>2. CASE e[1] = Word(0)
    <3>1. Unsigned(data[1]) = 0
      BY <2>1, <2>2, WordIsSigned
    <3>2. decodePosition(data) = <<v>>
      BY <2>1, <3>1 DEF decodePosition
    <3>3. v.tool = instance
      OBVIOUS
    <3> QED
      BY <3>2, <3>3
  <2>3. CASE e[1] = Word(16) /\ e[4] = Word(0)
    <3>1. Unsigned(data[1]) = 16 /\ Signed(data[1]) = 16
      BY <2>1, <2>3, WordIsSigned
    <3> DEFINE frame == decodeCartesianFrame(Signed(data[1]), Signed(data[4]))
    <3>2. DOMAIN frame = {1} /\ frame[1] = base
      BY <3>1 DEF decodeCartesianFrame
    <3>3. decodePosition(data) = [i \in DOMAIN frame |-> P(frame[i])]
      BY <2>1, <3>1 DEF decodePosition
    <3> HIDE DEF frame
    <3>4. P(base).tool = instance
      OBVIOUS
    <3> HIDE DEF P
    <3>5. decodePosition(data) = [i \in {1} |-> P(base)]
      BY <3>2, <3>3
    <3>6. decodePosition(data) = <<P(base)>>
      BY <3>5
    <3> QED
      BY <3>4, <3>6
  <2> QED
    BY <1>1, <2>2, <2>3
<1>10. PICK v : v.tool = instance /\ decodePosition(data) = <<v>>
  BY <1>9
<1>11. DecodeValues("position", 1, data) = Decoded(<<v>>)
  <2> DEFINE Part(i) == SubSeq(data, (i - 1) * FieldsOf("position") + 1, i * FieldsOf("position"))
  <2>1. Part(1) = data
    <3>1. FieldsOf("position") = 13 /\ (1 - 1) * 13 + 1 = 1 /\ 1 * 13 = 13
      BY DEF FieldsOf
    <3>2. SubSeq(data, 1, 13) = data
      <4>1. SubSeq(data, 1, Len(data)) = data
        BY <1>6
      <4> QED
        BY <1>6, <4>1
    <3> QED
      BY <3>1, <3>2
  <2>2. DecodeValue("position", data) = <<v>>
    BY <1>10 DEF DecodeValue
  <2>3. DecodeValues("position", 1, data) =
          IF \E i \in 1 .. 1 : DecodeValue("position", Part(i)) = << >> THEN Malformed
          ELSE Decoded([i \in 1 .. 1 |-> DecodeValue("position", Part(i))[1]])
    <3>1. encoded_size["position"] = 52 /\ ~(52 < 1 * 52)
      BY DEF encoded_size
    <3> QED
      BY <1>8, <3>1 DEF DecodeValues
  <2> HIDE DEF Part
  <2>4. DecodeValue("position", Part(1)) = <<v>>
    BY <2>1, <2>2
  <2>5. ~\E i \in 1 .. 1 : DecodeValue("position", Part(i)) = << >>
    BY <2>4
  <2>6. [i \in 1 .. 1 |-> DecodeValue("position", Part(i))[1]] = <<v>>
    BY <2>4
  <2> QED
    BY <2>3, <2>5, <2>6
<1> QED
  BY <1>2, <1>4, <1>7, <1>10, <1>11

-----------------------------------------------------------------------------
(* Replies.                                                                *)

LEMMA SizeOfNone == Size(<< >>) = 0
<1>1. << >> \in Seq(Words) /\ Len(<< >>) = 0
  OBVIOUS
<1>2. Size(<< >>) = 4 * Len(<< >>)
  BY <1>1, WordIsSigned, SizeOfWords
<1> QED
  BY <1>1, <1>2

LEMMA SizeIsNat ==
  ASSUME NEW q \in Seq(Fields)
  PROVE  Size(q) \in Nat
<1>1. CASE q = << >>
  BY <1>1, SizeOfNone
<1>2. CASE q # << >>
  BY <1>2, TailSize
<1> QED
  BY <1>1, <1>2

\* The fields of a datagram.
Has(s, magic, header, payload, ack, status, size, data) ==
  /\ s.magic = magic /\ s.header_size = header /\ s.payload_size = payload
  /\ s.ack = ack /\ s.status = status /\ s.size = size /\ s.payload = data
  /\ "size" \in DOMAIN s

\* What becomes of a datagram: it is refused for its header, or it has the data that
\* was sent, the front of it, or none; what was not spoilt is only too large.
LEMMA Arrivals ==
  ASSUME NEW p \in Seq(Fields), NEW status, NEW d, d = Datagram(p, status),
         NEW s, s = d \/ s \in Spoilt(d), NEW a, a = Received(s),
         NEW h, h = decodeResponseHeader(a)
  PROVE  /\ h.outcome \in {"ok", "malformed"}
         /\ a.status = status
         /\ a.payload \in {p, Front(p), << >>}
         /\ s = d => a.payload = p /\ (h.outcome = "malformed" => Size(p) > max_payload_size)
<1> DEFINE less == Front(p)
           n == Size(p)
           m == Size(less)
<1>1. n \in Nat /\ m \in Nat
  <2>1. less = SubSeq(p, 1, Len(p) - 1)
    BY DEF Front
  <2> HIDE DEF less
  <2>2. less \in Seq(Fields)
    BY <2>1, FrontSize
  <2> QED
    BY <2>2, SizeIsNat
<1>2. /\ header_size = 32 /\ max_payload_size = 479 /\ read_buffer_size = 512
  BY DEF header_size, max_payload_size, read_buffer_size
<1>3. Size(<< >>) = 0
  BY SizeOfNone
<1>4. d = [magic |-> TRUE, header_size |-> 32, payload_size |-> n, ack |-> 1,
           status |-> status, payload |-> p, size |-> 32 + n]
  BY <1>2 DEF Datagram
<1>5. \/ s = d
      \/ s = [d EXCEPT !.magic = FALSE]
      \/ s = [d EXCEPT !.header_size = 0]
      \/ s = [d EXCEPT !.ack = 0]
      \/ s = [d EXCEPT !.size = 20, !.payload = << >>]
      \/ s = [d EXCEPT !.size = 32 + m, !.payload = less]
      \/ s = Datagram(less, status)
      \/ s = Datagram(<< >>, status)
  <2>1. d.payload = p /\ d.status = status
    BY <1>4
  <2> QED
    BY <1>2, <2>1 DEF Spoilt, Front
<1> HIDE DEF n, m, less
<1>6. PICK magic, header, payload, ack, size, q :
        /\ Has(s, magic, header, payload, ack, status, size, q)
        /\ payload \in Nat /\ size \in Nat /\ q \in {p, less, << >>}
        /\ s = d => Has(s, TRUE, 32, n, 1, status, 32 + n, p)
  <2>1. 32 + n \in Nat /\ 32 + m \in Nat /\ 20 \in Nat /\ 0 \in Nat
    BY <1>1
  <2>2. CASE s = d
    <3>1. Has(s, TRUE, 32, n, 1, status, 32 + n, p)
      BY <1>4, <2>2 DEF Has
    <3> QED
      BY <1>1, <2>1, <3>1
  <2>3. CASE s # d
    <3>1. CASE s = [d EXCEPT !.magic = FALSE]
      <4>1. Has(s, FALSE, 32, n, 1, status, 32 + n, p)
        BY <1>4, <3>1 DEF Has
      <4> QED
        BY <1>1, <2>1, <2>3, <4>1
    <3>2. CASE s = [d EXCEPT !.header_size = 0]
      <4>1. Has(s, TRUE, 0, n, 1, status, 32 + n, p)
        BY <1>4, <3>2 DEF Has
      <4> QED
        BY <1>1, <2>1, <2>3, <4>1
    <3>3. CASE s = [d EXCEPT !.ack = 0]
      <4>1. Has(s, TRUE, 32, n, 0, status, 32 + n, p)
        BY <1>4, <3>3 DEF Has
      <4> QED
        BY <1>1, <2>1, <2>3, <4>1
    <3>4. CASE s = [d EXCEPT !.size = 20, !.payload = << >>]
      <4>1. Has(s, TRUE, 32, n, 1, status, 20, << >>)
        BY <1>4, <3>4 DEF Has
      <4> QED
        BY <1>1, <2>1, <2>3, <4>1
    <3>5. CASE s = [d EXCEPT !.size = 32 + m, !.payload = less]
      <4>1. Has(s, TRUE, 32, n, 1, status, 32 + m, less)
        BY <1>4, <3>5 DEF Has
      <4> QED
        BY <1>1, <2>1, <2>3, <4>1
    <3>6. CASE s = Datagram(less, status)
      <4>1. Has(s, TRUE, 32, m, 1, status, 32 + m, less)
        BY <1>2, <3>6 DEF Has, Datagram, m
      <4> QED
        BY <1>1, <2>1, <2>3, <4>1
    <3>7. CASE s = Datagram(<< >>, status)
      <4>1. Has(s, TRUE, 32, 0, 1, status, 32 + 0, << >>) /\ 32 + 0 \in Nat
        BY <1>2, <1>3, <3>7 DEF Has, Datagram
      <4> QED
        BY <1>1, <2>1, <2>3, <4>1
    <3> QED
      BY <1>5, <2>3, <3>1, <3>2, <3>3, <3>4, <3>5, <3>6, <3>7
  <2> QED
    BY <2>2, <2>3
<1> DEFINE cut == IF size > 512 THEN 512 ELSE size
<1>7. Has(a, magic, header, payload, ack, status, cut, q) /\ cut \in Nat
  <2>1. Has(s, magic, header, payload, ack, status, size, q) /\ size \in Nat
    BY <1>6
  <2>2. a = IF s.size > 512 THEN [s EXCEPT !.size = 512] ELSE s
    BY <1>2 DEF Received
  <2>3. CASE size > 512
    <3>1. a = [s EXCEPT !.size = 512]
      BY <2>1, <2>2, <2>3 DEF Has
    <3>2. "size" \in DOMAIN s
      BY <2>1 DEF Has
    <3>3. Has(a, magic, header, payload, ack, status, 512, q)
      BY <2>1, <3>1, <3>2 DEF Has
    <3> QED
      BY <2>3, <3>3
  <2>4. CASE ~(size > 512)
    BY <2>1, <2>2, <2>4 DEF Has
  <2> QED
    BY <2>3, <2>4
<1> HIDE DEF cut
<1>8. a.status = status /\ a.payload = q
  BY <1>7 DEF Has
<1>9. h = IF ~(cut >= 32) THEN Malformed
          ELSE IF cut < 32 THEN Overrun
          ELSE IF magic /\ header = 32 /\ payload <= 479 /\ ack = 1 /\ cut = 32 + payload
               THEN Decoded(<<status>>) ELSE Malformed
  BY <1>2, <1>7 DEF Has, decodeResponseHeader, expectSizeMin, expectValue, expectValueMax
<1>10. /\ h.outcome \in {"ok", "malformed"}
       /\ h.outcome = "malformed" =>
            ~(cut >= 32 /\ magic /\ header = 32 /\ payload <= 479 /\ ack = 1 /\ cut = 32 + payload)
  <2>1. Malformed.outcome = "malformed" /\ Decoded(<<status>>).outcome = "ok"
    BY DEF Malformed, Decoded
  <2> QED
    BY <1>7, <1>9, <2>1
<1>11. ASSUME s = d
       PROVE  q = p /\ (h.outcome = "malformed" => n > 479)
  <2>1. magic = TRUE /\ header = 32 /\ payload = n /\ ack = 1 /\ size = 32 + n /\ q = p
    BY <1>6, <1>11 DEF Has
  <2>2. n <= 479 => cut = 32 + n
    BY <1>1, <2>1 DEF cut
  <2> QED
    BY <1>1, <1>10, <2>1, <2>2
<1> QED
  BY <1>2, <1>6, <1>8, <1>10, <1>11 DEF n, less

LEMMA NumberOfSlots == NumSlots \in Nat
  BY CodecAssumption

\* The variables that a command reads.
LEMMA SliceStored ==
  ASSUME memory \in [Slots -> Stored(type)], NEW i \in Nat, NEW n \in Nat, i + n <= NumSlots,
         NEW q, q = [k \in 1 .. n |-> memory[i + k - 1]]
  PROVE  /\ q \in Seq(Stored(type)) /\ Len(q) = n
         /\ \A k \in 1 .. n : i + k - 1 \in Slots /\ q[k] = memory[i + k - 1]
<1>1. NumSlots \in Nat
  BY NumberOfSlots
<1>2. \A k \in 1 .. n : i + k - 1 \in Slots
  BY <1>1 DEF Slots
<1>3. \A k \in 1 .. n : memory[i + k - 1] \in Stored(type)
  BY <1>2
<1>4. q \in Seq(Stored(type)) /\ Len(q) = n
  BY <1>3
<1> QED
  BY <1>2, <1>4

\* How many variables a command reads, and what is in them.
Count(c) == IF c.op = "read" THEN c.count ELSE 1
Seen(c) == [k \in 1 .. Count(c) |-> Held[c.index + k - 1]]

LEMMA ReadsInReach ==
  ASSUME type \in Types, asked \in Possible(type), asked.op \in {"read", "readOne"},
         InReach(asked)
  PROVE  asked.index \in Nat /\ Count(asked) \in Nat /\ asked.index + Count(asked) <= NumSlots
<1>1. asked.index \in 0 .. 255 /\ (asked.op = "read" => asked.count \in 0 .. 255)
  BY CommandFields
<1>2. NumSlots \in Nat
  BY NumberOfSlots
<1>3. asked.op = "readOne" => asked.index + 1 <= NumSlots
  BY <1>1, <1>2 DEF InReach, Slots
<1> QED
  BY <1>1, <1>3 DEF Count, InReach

\* What is read is what is in the variables; part of the answer is refused.
LEMMA ReadReplies ==
  ASSUME Robot, asked \in Possible(type), asked.op \in {"read", "readOne"}, InReach(asked),
         NEW p \in Payloads
  PROVE  /\ p \in Seq(Fields)
         /\ DecodeReply(type, asked, p) =
              IF Unreadable THEN Malformed
              ELSE Decoded([k \in 1 .. Count(asked) |-> Seen(asked)[k][1]])
         /\ \A q \in {Front(p), << >>} : DecodeReply(type, asked, q) = Malformed
         /\ Size(p) > max_payload_size => Large
<1> DEFINE n == Count(asked)
           i == asked.index
           values == [k \in 1 .. n |-> Seen(asked)[k][1]]
<1>1. /\ type \in Types /\ memory \in [Slots -> Stored(type)]
  BY DEF Robot
<1>2. i \in Nat /\ n \in Nat /\ i + n <= NumSlots
  BY <1>1, ReadsInReach
<1>3. \A k \in 1 .. n : Seen(asked)[k] = DecodeValue(type, memory[i + k - 1])
  <2>1. \A k \in 1 .. n : i + k - 1 \in Slots
    <3>1. NumSlots \in Nat
      BY NumberOfSlots
    <3> HIDE DEF i, n
    <3> QED
      BY <1>2, <3>1 DEF Slots
  <2> QED
    BY <2>1 DEF Seen, Held
<1>4. Unreadable <=> \E k \in 1 .. n : Seen(asked)[k] = << >>
  BY DEF Unreadable, Seen, Count
<1>5. Size(<< >>) = 0
  BY SizeOfNone
<1>6. ASSUME NEW size \in Nat, p \in Seq(Fields), Size(p) = size, size > 0,
             \A q : Size(q) # size => DecodeReply(type, asked, q) = Malformed
      PROVE  \A q \in {Front(p), << >>} : DecodeReply(type, asked, q) = Malformed
  <2>1. p # << >>
    BY <1>5, <1>6
  <2>2. Size(Front(p)) \in Nat /\ Size(Front(p)) < Size(p)
    BY <1>6, <2>1, FrontSize DEF Front
  <2>3. Size(Front(p)) # size /\ Size(<< >>) # size
    BY <1>5, <1>6, <2>2
  <2> QED
    BY <1>6, <2>3
<1>7. encoded_size[type] \in 1 .. 52 /\ Field(type) \subseteq Fields
  BY <1>1, FieldFacts
<1>8. CASE Single(asked)
  <2>1. n = 1 /\ p = memory[i]
    BY <1>8 DEF Single, Count, Payloads
  <2>2. i \in Slots /\ i + 1 - 1 = i
    <3>1. NumSlots \in Nat
      BY NumberOfSlots
    <3> HIDE DEF i, n
    <3> QED
      BY <1>2, <2>1, <3>1 DEF Slots
  <2>3. p \in Stored(type)
    BY <1>1, <2>1, <2>2
  <2>4. \A q : DecodeReply(type, asked, q) = decodeReadVar(type, q)
    BY <1>8 DEF DecodeReply, decodeReadVars, Single
  <2>5. Seen(asked)[1] = DecodeValue(type, p)
    <3>1. 1 \in 1 .. n
      BY <2>1
    <3> QED
      BY <1>3, <2>1, <2>2, <3>1
  <2> DEFINE h == DecodeValue(type, p)
  <2>6. DecodeReply(type, asked, p) = IF h = << >> THEN Malformed ELSE Decoded(h)
    BY <1>1, <2>3, <2>4, DecodedOne
  <2>7. h = << >> \/ \E v : h = <<v>>
    BY <1>1, <2>3, DecodedIsValue
  <2>8. Unreadable <=> h = << >>
    <3> HIDE DEF h
    <3>1. Seen(asked)[1] = h
      BY <2>5 DEF h
    <3> QED
      BY <1>4, <2>1, <3>1
  <2>9. h # << >> => h = values
    <3> SUFFICES ASSUME h # << >>
                 PROVE  h = values
      OBVIOUS
    <3>1. PICK v : h = <<v>>
      BY <2>7
    <3> HIDE DEF h
    <3>2. Seen(asked)[1][1] = v
      BY <2>5, <3>1 DEF h
    <3>3. values = [k \in {1} |-> v]
      <4>1. 1 .. n = {1}
        BY <2>1
      <4> HIDE DEF n
      <4> QED
        BY <3>2, <4>1
    <3> QED
      BY <3>1, <3>3
  <2>10. p \in Seq(Fields) /\ Size(p) = encoded_size[type]
    <3>1. p \in Seq(Field(type)) /\ Size(p) = encoded_size[type]
      BY <1>1, <2>3, StoredSize
    <3> QED
      BY <1>7, <3>1
  <2>11. \A q : Size(q) # encoded_size[type] => DecodeReply(type, asked, q) = Malformed
    BY <2>4 DEF decodeReadVar, expectSize
  <2>12. \A q \in {Front(p), << >>} : DecodeReply(type, asked, q) = Malformed
    <3>1. encoded_size[type] \in Nat /\ encoded_size[type] > 0
      BY <1>7
    <3> QED
      BY <1>6, <2>10, <2>11, <3>1
  <2> HIDE DEF h, values
  <2>13. DecodeReply(type, asked, p) = IF Unreadable THEN Malformed ELSE Decoded(values)
    BY <2>6, <2>8, <2>9
  <2>14. ~(Size(p) > max_payload_size)
    <3>1. max_payload_size = 479
      BY DEF max_payload_size
    <3> DEFINE size == encoded_size[type]
    <3>2. size \in 1 .. 52 /\ Size(p) = size
      BY <1>7, <2>10
    <3> HIDE DEF size
    <3> QED
      BY <3>1, <3>2
  <2> QED
    BY <2>10, <2>12, <2>13, <2>14 DEF values
<1>9. CASE ~Single(asked)
  <2>1. /\ asked.op = "read" /\ n = asked.count /\ n # 1
        /\ p = <<Word(n)>> \o Joined(type, Slice(asked))
    BY <1>9 DEF Single, Count, Payloads
  <2> DEFINE s == Slice(asked)
  <2>2. s = [k \in 1 .. n |-> memory[i + k - 1]]
    BY <2>1 DEF Slice
  <2> HIDE DEF s, i, n
  <2>3. /\ s \in Seq(Stored(type)) /\ Len(s) = n
        /\ \A k \in 1 .. n : i + k - 1 \in Slots /\ s[k] = memory[i + k - 1]
    BY <1>1, <1>2, <2>2, SliceStored
  <2>4. /\ p \in Seq(Fields) /\ Size(p) = 4 + n * encoded_size[type]
        /\ n * encoded_size[type] \in Nat
        /\ decodeReadVars(type, n, p) =
             IF \E k \in 1 .. n : DecodeValue(type, s[k]) = << >> THEN Malformed
             ELSE Decoded([k \in 1 .. n |-> DecodeValue(type, s[k])[1]])
    <3>1. p = <<Word(Len(s))>> \o Joined(type, s) /\ Len(s) # 1
      BY <2>1, <2>3 DEF s
    <3>2. /\ p \in Seq(Fields) /\ Size(p) = 4 + Len(s) * encoded_size[type]
          /\ Len(s) * encoded_size[type] \in Nat
          /\ decodeReadVars(type, Len(s), p) =
               IF \E k \in 1 .. Len(s) : DecodeValue(type, s[k]) = << >> THEN Malformed
               ELSE Decoded([k \in 1 .. Len(s) |-> DecodeValue(type, s[k])[1]])
      BY <1>1, <2>3, <3>1, DecodedMany
    <3> QED
      BY <2>3, <3>2
  <2>5. \A q : DecodeReply(type, asked, q) = decodeReadVars(type, n, q)
    BY <2>1 DEF DecodeReply
  <2>6. \A k \in 1 .. n : Seen(asked)[k] = DecodeValue(type, s[k])
    BY <1>3, <2>3
  <2>7. DecodeReply(type, asked, p) = IF Unreadable THEN Malformed ELSE Decoded(values)
    <3>1. values = [k \in 1 .. n |-> DecodeValue(type, s[k])[1]]
      BY <2>6
    <3>2. Unreadable <=> \E k \in 1 .. n : DecodeValue(type, s[k]) = << >>
      BY <1>4, <2>6
    <3> HIDE DEF values
    <3> QED
      BY <2>4, <2>5, <3>1, <3>2
  <2>8. ASSUME NEW q, Size(q) # 4 + n * encoded_size[type]
        PROVE  DecodeReply(type, asked, q) = Malformed
    BY <2>1, <2>5, <2>8 DEF decodeReadVars, expectSize
  <2>9. \A q \in {Front(p), << >>} : DecodeReply(type, asked, q) = Malformed
    <3> DEFINE size == 4 + n * encoded_size[type]
    <3>1. size \in Nat /\ size > 0
      BY <2>4
    <3>2. Size(p) = size /\ \A q : Size(q) # size => DecodeReply(type, asked, q) = Malformed
      BY <2>4, <2>8
    <3> HIDE DEF size
    <3> QED
      BY <1>6, <2>4, <3>1, <3>2
  <2>10. Size(p) > max_payload_size => Large
    BY <2>1, <2>4 DEF Large
  <2> QED
    BY <2>4, <2>7, <2>9, <2>10 DEF n
<1> QED
  BY <1>8, <1>9

LEMMA OutcomeOfValues ==
  ASSUME NEW t, NEW n, NEW data
  PROVE  DecodeValues(t, n, data).outcome \in {"ok", "malformed", "overrun"}
<1>1. \/ DecodeValues(t, n, data) \in {Overrun, Malformed}
      \/ \E v : DecodeValues(t, n, data) = Decoded(v)
  BY DEF DecodeValues
<1> QED
  BY <1>1 DEF Overrun, Malformed, Decoded

LEMMA PositionReplies ==
  ASSUME asked \in Possible(type), type \in Types, asked.op \in {"where", "moveL"},
         NEW p \in Payloads
  PROVE  /\ p \in Seq(Words) /\ Size(p) \in {48, 52}
         /\ \E v : v.tool = Instance(asked) /\ decodeCurrentPosition(p) = Decoded(<<v>>)
<1>1. PICK k \in {12, 13} : p = SubSeq(CurrentPosition(Instance(asked)), 1, k)
  <2>1. Payloads = {SubSeq(CurrentPosition(Instance(asked)), 1, k) : k \in {12, 13}}
    BY DEF Payloads, Single
  <2> QED
    BY <2>1
<1>2. Instance(asked) \in Int32
  <2>1. CASE asked.op = "moveL"
    BY <2>1, SmallFits DEF Instance
  <2>2. CASE asked.op = "where"
    <3>1. asked.group \in Nat /\ asked.system \in Systems
      BY <2>2, CommandFields, CodecAssumption
    <3>2. PositionInstances[asked.system] \in Nat
      BY <3>1 DEF Systems, PositionInstances
    <3> DEFINE i == asked.group + PositionInstances[asked.system]
    <3>3. i \in Int
      BY <3>1, <3>2
    <3> HIDE DEF i
    <3>4. i % 2^16 \in Int32
      BY <3>3, Int32Facts, SMT DEF Int32
    <3> QED
      BY <2>2, <3>4 DEF Instance, i
  <2> QED
    BY <2>1, <2>2
<1> DEFINE i == Instance(asked)
<1>3. i \in Int32 /\ p = SubSeq(CurrentPosition(i), 1, k)
  BY <1>1, <1>2
<1> HIDE DEF i
<1>4. /\ p \in Seq(Words) /\ Size(p) = 4 * k
      /\ \E v : v.tool = i /\ decodeCurrentPosition(p) = Decoded(<<v>>)
  <2>1. \A j \in {12, 13} : \A x : x = SubSeq(CurrentPosition(i), 1, j) =>
          /\ x \in Seq(Words) /\ Size(x) = 4 * j
          /\ \E v : v.tool = i /\ decodeCurrentPosition(x) = Decoded(<<v>>)
    BY <1>3, PositionIsRead
  <2>2. k \in {12, 13}
    BY <1>1
  <2> QED
    BY <1>3, <2>1, <2>2
<1>5. 4 * k \in {48, 52}
  OBVIOUS
<1> QED
  BY <1>4, <1>5 DEF i

\* The data that the controller answers with.
LEMMA PayloadSizes ==
  ASSUME Robot, asked \in Possible(type), InReach(asked), NEW p \in Payloads
  PROVE  /\ p \in Seq(Fields)
         /\ asked.op = "where" => p \in Seq(Words)
         /\ Size(p) > max_payload_size => Large
<1>1. type \in Types /\ flags \subseteq DOMAIN StatusFlags
  BY CodecAssumption DEF Robot
<1>2. Words \subseteq Fields
  BY Int32IsInt DEF Words, Fields
<1>3. ~(0 > max_payload_size) /\ ~(8 > max_payload_size) /\ ~(48 > max_payload_size)
      /\ ~(52 > max_payload_size)
  BY DEF max_payload_size
<1>4. CASE asked.op \in {"read", "readOne"}
  BY <1>4, ReadReplies
<1>5. CASE asked.op \in {"where", "moveL"}
  <2>1. p \in Seq(Words) /\ Size(p) \in {48, 52}
    BY <1>1, <1>5, PositionReplies
  <2>2. p \in Seq(Fields)
    BY <1>2, <2>1
  <2> QED
    BY <1>3, <2>1, <2>2
<1>6. CASE asked.op = "status"
  <2>1. p = StatusData
    BY <1>6 DEF Payloads, Single
  <2>2. p \in Seq(Fields) /\ Size(p) = 8
    BY <1>1, <2>1, StatusIsRead
  <2> QED
    BY <1>3, <1>6, <2>2
<1>7. CASE asked.op \in {"write", "delete"}
  <2>1. p = << >>
    BY <1>7 DEF Payloads, Single
  <2>2. << >> \in Seq(Fields)
    OBVIOUS
  <2> QED
    BY <1>3, <1>7, <2>1, <2>2, SizeOfNone
<1> QED
  BY <1>1, <1>4, <1>5, <1>6, <1>7, CommandFields DEF Operations

\* What a session makes of the data of an answer, or of part of it.
LEMMA Replies ==
  ASSUME Robot, asked \in Possible(type), InReach(asked), NEW p \in Payloads,
         NEW q \in {p, Front(p), << >>}, NEW r, r = DecodeReply(type, asked, q)
  PROVE  /\ r.outcome \in {"ok", "malformed"}
         /\ asked.op \in {"read", "readOne"} =>
              /\ r.value \in Seq(ValuesOf(type))
              /\ r.outcome = "ok" => [k \in DOMAIN r.value |-> <<r.value[k]>>] = Seen(asked)
         /\ asked.op = "write" => r.value = << >>
         /\ q = p =>
              /\ r.outcome = "malformed" => asked.op = "moveL" \/ Unreadable
              /\ r.outcome = "ok" =>
                   /\ asked.op # "moveL"
                   /\ asked.op = "status" => r.value = <<flags>>
                   /\ asked.op = "where" => r.value[1].tool = Instance(asked)
<1>1. type \in Types /\ flags \subseteq DOMAIN StatusFlags
  BY CodecAssumption DEF Robot
<1>2. /\ Malformed.outcome = "malformed" /\ Malformed.value = << >>
      /\ \A v : Decoded(v).outcome = "ok" /\ Decoded(v).value = v
  BY DEF Malformed, Decoded
<1>3. p \in Seq(Fields) /\ (asked.op = "where" => p \in Seq(Words))
  BY PayloadSizes
<1>4. q \in Seq(Fields) /\ (asked.op = "where" => q \in Seq({4} \X Int))
  <2>1. ASSUME NEW S, S \subseteq Fields, p \in Seq(S)
        PROVE  q \in Seq(S)
    <3>1. Front(p) \in Seq(S)
      BY <2>1, FrontSize DEF Front
    <3>2. << >> \in Seq(S)
      OBVIOUS
    <3> QED
      BY <2>1, <3>1, <3>2
  <2>2. Words \subseteq Fields /\ Words \subseteq {4} \X Int
    BY Int32IsInt DEF Words, Fields
  <2> QED
    BY <1>3, <2>1, <2>2
<1>5. CASE asked.op \in {"read", "readOne"}
  <2> DEFINE n == Count(asked)
             values == [k \in 1 .. n |-> Seen(asked)[k][1]]
  <2>1. \/ q # p /\ r = Malformed
        \/ r = IF Unreadable THEN Malformed ELSE Decoded(values)
    BY <1>5, ReadReplies
  <2>2. /\ n \in Nat
        /\ \A k \in 1 .. n : Seen(asked)[k] = << >> \/
             \E v \in ValuesOf(type) : Seen(asked)[k] = <<v>>
    <3>1. memory \in [Slots -> Stored(type)]
      BY DEF Robot
    <3>2. /\ asked.index \in Nat /\ n \in Nat /\ asked.index + n <= NumSlots
      BY <1>1, <1>5, ReadsInReach
    <3> DEFINE s == [k \in 1 .. n |-> memory[asked.index + k - 1]]
    <3>3. \A k \in 1 .. n : asked.index + k - 1 \in Slots
      <4> DEFINE i == asked.index
      <4> HIDE DEF i, n
      <4>1. \A k \in 1 .. n : i + k - 1 \in Slots
        BY <3>1, <3>2, SliceStored DEF i
      <4> QED
        BY <4>1 DEF i
    <3>4. ASSUME NEW k \in 1 .. n
          PROVE  Seen(asked)[k] = << >> \/ \E v \in ValuesOf(type) : Seen(asked)[k] = <<v>>
      <4> DEFINE e == memory[asked.index + k - 1]
      <4>1. e \in Stored(type) /\ Seen(asked)[k] = DecodeValue(type, e)
        BY <3>1, <3>3 DEF Seen, Held
      <4> HIDE DEF e
      <4> QED
        BY <1>1, <4>1, DecodedIsValue
    <3> QED
      BY <3>2, <3>4
  <2>3. Unreadable <=> \E k \in 1 .. n : Seen(asked)[k] = << >>
    BY <1>5 DEF Unreadable, Seen, Count
  <2>4. ASSUME ~Unreadable
        PROVE  /\ values \in Seq(ValuesOf(type))
               /\ [k \in DOMAIN values |-> <<values[k]>>] = Seen(asked)
    <3>1. \A k \in 1 .. n : \E v \in ValuesOf(type) : Seen(asked)[k] = <<v>>
      BY <2>2, <2>3, <2>4
    <3>2. \A k \in 1 .. n :
            /\ Seen(asked)[k][1] \in ValuesOf(type)
            /\ Seen(asked)[k] = <<Seen(asked)[k][1]>>
      BY <3>1
    <3>3. values \in Seq(ValuesOf(type))
      BY <2>2, <3>2
    <3>4. [k \in DOMAIN values |-> <<values[k]>>] = [k \in 1 .. n |-> Seen(asked)[k]]
      BY <3>2
    <3>5. [k \in 1 .. n |-> Seen(asked)[k]] = Seen(asked)
      BY DEF Seen
    <3> QED
      BY <3>3, <3>4, <3>5
  <2>5. << >> \in Seq(ValuesOf(type))
    OBVIOUS
  <2> HIDE DEF values
  <2>6. CASE r = Malformed
    BY <1>2, <1>5, <2>1, <2>5, <2>6
  <2>7. CASE ~Unreadable /\ r = Decoded(values)
    BY <1>2, <1>5, <2>4, <2>7
  <2> QED
    BY <2>1, <2>6, <2>7
<1>6. CASE asked.op = "where"
  <2>1. r = decodeCurrentPosition(q)
    BY <1>6 DEF DecodeReply
  <2>2. r.outcome \in {"ok", "malformed", "overrun"}
    BY <1>2, <2>1, OutcomeOfValues DEF decodeCurrentPosition
  <2>3. r.outcome # "overrun"
    BY <1>1, <1>4, <1>6, DecodersStayInside DEF Operations
  <2>4. \E v : v.tool = Instance(asked) /\ decodeCurrentPosition(p) = Decoded(<<v>>)
    BY <1>1, <1>6, PositionReplies
  <2>5. PICK v : v.tool = Instance(asked) /\ decodeCurrentPosition(p) = Decoded(<<v>>)
    BY <2>4
  <2>6. q = p => r.outcome = "ok" /\ r.value = <<v>>
    BY <1>2, <2>1, <2>5
  <2> QED
    BY <1>6, <2>2, <2>3, <2>5, <2>6
<1>7. CASE asked.op = "status"
  <2>1. r = decodeStatus(q)
    BY <1>7 DEF DecodeReply
  <2>2. r.outcome \in {"ok", "malformed"}
    BY <1>2, <2>1 DEF decodeStatus
  <2>3. p = StatusData
    BY <1>7 DEF Payloads, Single
  <2>4. q = p => r = Decoded(<<flags>>)
    BY <1>1, <2>1, <2>3, StatusIsRead
  <2> QED
    BY <1>2, <1>7, <2>2, <2>4
<1>8. CASE asked.op \in {"write", "delete"}
  <2>1. p = << >>
    BY <1>8 DEF Payloads, Single
  <2>2. r = decodeNothing(q)
    BY <1>8 DEF DecodeReply
  <2>3. q = p => r = Decoded(<< >>)
    BY <2>1, <2>2, SizeOfNone DEF decodeNothing, expectSize
  <2>4. r \in {Malformed, Decoded(<< >>)}
    BY <2>2 DEF decodeNothing
  <2> QED
    BY <1>2, <1>8, <2>3, <2>4
<1>9. CASE asked.op = "moveL"
  <2>1. r = decodeNothing(q)
    BY <1>9 DEF DecodeReply
  <2>2. r \in {Malformed, Decoded(<< >>)}
    BY <2>1 DEF decodeNothing
  <2>3. q = p => r = Malformed
    <3>1. Size(p) # 0
      BY <1>1, <1>9, PositionReplies
    <3> QED
      BY <2>1, <3>1 DEF decodeNothing, expectSize
  <2> QED
    BY <1>2, <1>9, <2>2, <2>3
<1> QED
  BY <1>1, <1>5, <1>6, <1>7, <1>8, <1>9, CommandFields DEF Operations

-----------------------------------------------------------------------------
(* The invariant is kept.                                                  *)

\* What the answers depend on.
LEMMA SameAnswers ==
  ASSUME UNCHANGED <<type, memory, flags, asked>>
  PROVE  /\ Payloads' = Payloads /\ Possible(type)' = Possible(type)
         /\ InReach(asked)' = InReach(asked) /\ Does(asked)' = Does(asked)
         /\ Instance(asked)' = Instance(asked)
         /\ Encodes(type, asked)' = Encodes(type, asked)
         /\ EncodeCommand(type, asked)' = EncodeCommand(type, asked)
         /\ Large' = Large /\ Unreadable' = Unreadable
         /\ (did' = did => Answers' = Answers)
<1>1. Payloads' = Payloads
  BY DEF Payloads, Slice, StatusData
<1>2. Large' = Large
  BY DEF Large
<1>3. Unreadable' = Unreadable
  BY DEF Unreadable, Held
<1>4. did' = did => Answers' = Answers
  BY <1>1 DEF Answers
<1> QED
  BY <1>1, <1>2, <1>3, <1>4

\* A command that ended, and not well.
LEMMA FailureEnds ==
  ASSUME Robot, type' = type, memory' = memory, files' = files, flags' = flags,
         stage' = "idle", wire' = << >>, clean' \in BOOLEAN,
         NEW o \in {"failed", "timed out", "thrown"}, result' = Outcome(o),
         asked' \in Possible(type) \union {Nothing},
         did' = "nothing" \/ (asked' \in Possible(type) /\ did' = Does(asked'))
  PROVE  CodecInv'
<1>1. Robot'
  BY DEF Robot
<1>2. result'.outcome = o /\ result'.value = << >> /\ << >> \in Seq(ValuesOf(type))
  <2>1. result'.outcome = o /\ result'.value = << >>
    BY DEF Outcome
  <2>2. << >> \in Seq(ValuesOf(type))
    BY EmptySeq
  <2> QED
    BY <2>1, <2>2
<1>3. o \in Outcomes \ {"overrun"} /\ o # "ok" /\ o # "malformed"
  BY DEF Outcomes
<1>4. SuccessMeansDone' /\ CleanRepliesAreUnderstood' /\ Reported'
  BY <1>2, <1>3 DEF SuccessMeansDone, CleanRepliesAreUnderstood, Reported
<1>5. Possible(type)' = Possible(type)
  OBVIOUS
<1>6. Ended'
  BY <1>2, <1>3, <1>4, <1>5 DEF Ended
<1> QED
  BY <1>1, <1>6 DEF CodecInv

LEMMA SendKeeps ==
  ASSUME CodecInv, NEW c \in Possible(type), Send(c)
  PROVE  CodecInv'
<1>1. /\ stage = "idle" /\ asked' = c /\ did' = "nothing" /\ clean' = TRUE
      /\ UNCHANGED <<type, memory, files, flags>>
  BY DEF Send, controller
<1>2. Robot /\ Robot' /\ wire = << >>
  <2>1. Robot /\ wire = << >>
    BY <1>1 DEF CodecInv, InProgress, Ended
  <2> QED
    BY <1>1, <2>1 DEF Robot
<1>3. CASE Encodes(type, c)
  <2>1. /\ stage' = "sent" /\ wire' = <<EncodeCommand(type, c)>> /\ result' = Outcome("none")
    BY <1>3 DEF Send
  <2>2. InProgress'
    BY <1>1, <1>3, <2>1 DEF InProgress
  <2> QED
    BY <1>1, <1>2, <2>2 DEF CodecInv
<1>4. CASE ~Encodes(type, c)
  <2>1. result' = Outcome("thrown") /\ stage' = "idle" /\ wire' = << >>
    BY <1>1, <1>2, <1>4 DEF Send
  <2> QED
    BY <1>1, <1>2, <2>1, FailureEnds
<1> QED
  BY <1>3, <1>4

\* An answer to the command.
LEMMA AnswerKeeps ==
  ASSUME CodecInv, Robot', NEW p, Reply(Does(asked), p),
         p \in Payloads', InReach(asked)
  PROVE  CodecInv'
<1>1. /\ stage = "sent" /\ stage' = "replied" /\ did' = Does(asked)
      /\ wire' = <<Datagram(p, 0)>>
      /\ UNCHANGED <<type, flags, asked, clean, result>>
  BY DEF Reply
<1>2. /\ asked \in Possible(type) /\ Encodes(type, asked) /\ result = Outcome("none") /\ clean
      /\ clean \in BOOLEAN
  BY <1>1 DEF CodecInv, InProgress, Ended
<1>3. Does(asked) # "nothing"
  BY <1>2, CommandFields DEF Does, Operations, CodecInv, Robot
<1>4. Answers' = {Datagram(q, 0) : q \in Payloads'}
  BY <1>1, <1>3 DEF Answers
<1>5. wire' \in {<<d>> : d \in Answers'}
  BY <1>1, <1>4
<1>6. InReach(asked)' /\ Possible(type)' = Possible(type) /\ Does(asked)' = Does(asked)
  BY <1>1 DEF InReach, Does
<1>7. InProgress'
  BY <1>1, <1>2, <1>5, <1>6 DEF InProgress
<1> QED
  BY <1>1, <1>2, <1>7 DEF CodecInv

\* The command that the controller receives.
LEMMA RequestOnTheWay ==
  ASSUME CodecInv, stage = "sent"
  PROVE  /\ type \in Types /\ asked \in Possible(type) /\ Encodes(type, asked)
         /\ wire = <<EncodeCommand(type, asked)>> /\ wire[1] = EncodeCommand(type, asked)
         /\ did = "nothing" /\ clean = TRUE /\ result = Outcome("none") /\ Robot
BY DEF CodecInv, InProgress, Ended, Robot

\* What a write leaves in the variables.
LEMMA WrittenIs ==
  ASSUME type \in Types, memory \in [Slots -> Stored(type)],
         NEW values \in Seq(Encodable(type)), NEW i \in Nat, i = wire[1].instance,
         NEW data, data = Joined(type, [k \in DOMAIN values |-> EncodeValue(type, values[k])])
  PROVE  /\ DOMAIN Written(data) = Slots
         /\ \A s \in Slots :
              Written(data)[s] = IF s - i + 1 \in DOMAIN values
                                 THEN EncodeValue(type, values[s - i + 1]) ELSE memory[s]
         /\ Written(data) \in [Slots -> Stored(type)]
<1> DEFINE n == Len(values)
           F == FieldsOf(type)
           enc == [k \in 1 .. n |-> EncodeValue(type, values[k])]
<1>1. /\ n \in Nat /\ DOMAIN values = 1 .. n /\ \A k \in 1 .. n : values[k] \in Encodable(type)
  <2>1. n \in Nat /\ DOMAIN values = 1 .. n
    BY LenProperties
  <2> QED
    BY <2>1, ElementOfSeq
<1>2. \A k \in 1 .. n : EncodeValue(type, values[k]) \in Stored(type)
  BY <1>1, EncodedIsStored
<1>3. enc \in Seq(Stored(type)) /\ Len(enc) = n /\ data = Joined(type, enc)
  BY <1>1, <1>2
<1>4. \A k \in 1 .. n : enc[k] = EncodeValue(type, values[k])
  OBVIOUS
<1> HIDE DEF enc
<1>5. /\ Len(data) = n * F
      /\ \A k \in 1 .. n : SubSeq(data, (k - 1) * F + 1, k * F) = enc[k]
  <2>1. /\ Len(data) = Len(enc) * F
        /\ \A k \in 1 .. Len(enc) : SubSeq(data, (k - 1) * F + 1, k * F) = enc[k]
    BY <1>3, JoinedParts
  <2> QED
    BY <1>3, <2>1
<1>6. F \in {1, 13}
  BY FieldFacts
<1>7. NumSlots \in Nat
  BY NumberOfSlots
<1> DEFINE at(s) == F * (s - i)
           new(s) == IF at(s) >= 0 /\ at(s) < Len(data)
                     THEN SubSeq(data, at(s) + 1, at(s) + F) ELSE memory[s]
<1>8. Written(data) = [s \in Slots |-> new(s)]
  BY DEF Written
<1>9. ASSUME NEW s \in Slots
      PROVE  new(s) = IF s - i + 1 \in DOMAIN values
                      THEN EncodeValue(type, values[s - i + 1]) ELSE memory[s]
  <2> DEFINE k == s - i + 1
  <2>1. k \in Int /\ s - i = k - 1
    BY <1>7 DEF Slots
  <2>2. /\ F * (k - 1) >= 0 /\ F * (k - 1) < n * F <=> k \in 1 .. n
        /\ F * (k - 1) = (k - 1) * F /\ F * (k - 1) + F = k * F
    <3> HIDE DEF k, n
    <3>1. CASE F = 1
      BY <1>1, <2>1, <3>1
    <3>2. CASE F = 13
      BY <1>1, <2>1, <3>2
    <3> QED
      BY <1>6, <3>1, <3>2
  <2>3. at(s) = F * (k - 1)
    BY <2>1
  <2> HIDE DEF k, F, n, at
  <2>4. CASE k \in 1 .. n
    <3>1. new(s) = SubSeq(data, (k - 1) * F + 1, k * F)
      BY <1>5, <2>2, <2>3, <2>4
    <3>2. new(s) = EncodeValue(type, values[k])
      BY <1>4, <1>5, <2>4, <3>1
    <3> QED
      BY <1>1, <2>4, <3>2 DEF k
  <2>5. CASE k \notin 1 .. n
    <3>1. new(s) = memory[s]
      BY <1>5, <2>2, <2>3, <2>5
    <3> QED
      BY <1>1, <2>5, <3>1 DEF k
  <2> QED
    BY <2>4, <2>5
<1> HIDE DEF new
<1>10. DOMAIN Written(data) = Slots /\ \A s \in Slots : Written(data)[s] = new(s)
  BY <1>8
<1>11. \A s \in Slots : new(s) \in Stored(type)
  BY <1>1, <1>2, <1>9
<1>12. Written(data) \in [Slots -> Stored(type)]
  BY <1>8, <1>11
<1> QED
  BY <1>9, <1>10, <1>12

\* The data of a write.
LEMMA WriteData ==
  ASSUME NEW t \in Types, NEW c \in Possible(t), c.op = "write", NEW r, r = EncodeCommand(t, c),
         NEW data, data = Joined(t, [k \in DOMAIN c.values |-> EncodeValue(t, c.values[k])])
  PROVE  r.payload = IF Len(c.values) = 1 THEN data ELSE <<Word(Len(c.values))>> \o data
<1> DEFINE size == Len(c.values) * encoded_size[t]
<1>1. r = IF Len(c.values) = 1
          THEN makeRobotRequest(encoded_size[t], single_command[t], c.index, 0, set_all, data)
          ELSE makeRobotRequest(4 + size, multiple_command[t], c.index, 0, write_multiple,
                                <<Word(Len(c.values))>> \o data)
  BY DEF EncodeCommand, encodeWriteVars
<1> HIDE DEF size
<1> QED
  BY <1>1 DEF makeRobotRequest, Request

\* A write is carried out as it was asked.
LEMMA WriteIsDone ==
  ASSUME CodecInv, ServeWrite
  PROVE  /\ asked.op = "write" /\ asked.index \in Nat /\ asked.values \in Seq(Encodable(type))
         /\ memory' \in [Slots -> Stored(type)]
         /\ \A s \in Slots :
              memory'[s] = IF s - asked.index + 1 \in DOMAIN asked.values
                           THEN EncodeValue(type, asked.values[s - asked.index + 1])
                           ELSE memory[s]
         /\ Reply("write", << >>) /\ files' = files
<1> DEFINE r == wire[1]
           data == Joined(type, [k \in DOMAIN asked.values |-> EncodeValue(type, asked.values[k])])
<1>1. stage = "sent" /\ Reply("write", << >>) /\ files' = files
  BY DEF ServeWrite, Reply
<1>2. /\ type \in Types /\ asked \in Possible(type) /\ Encodes(type, asked)
      /\ r = EncodeCommand(type, asked) /\ memory \in [Slots -> Stored(type)]
  BY <1>1, RequestOnTheWay DEF Robot
<1>3. \/ /\ r.division = "robot" /\ r.command = single_command[type] /\ r.service = set_all
         /\ memory' = Written(r.payload)
      \/ /\ r.division = "robot" /\ r.command = multiple_command[type]
         /\ r.service = write_multiple
         /\ memory' = Written(Tail(r.payload))
  BY DEF ServeWrite, Asks
<1> HIDE DEF r
<1>4. asked.op = "write"
  BY <1>2, <1>3, RequestsDiffer
<1>5. asked.index \in Nat /\ asked.values \in Seq(ValuesOf(type))
  <2>1. asked.index \in 0 .. 255 /\ asked.values \in Seq(ValuesOf(type))
    BY <1>2, <1>4, CommandFields
  <2>2. \A n \in 0 .. 255 : n \in Nat
    OBVIOUS
  <2> QED
    BY <2>1, <2>2, Zenon
<1>6. asked.values \in Seq(Encodable(type))
  <2>1. \A k \in 1 .. Len(asked.values) : asked.values[k] \in ValuesOf(type)
    BY <1>5, ElementOfSeq
  <2>2. DOMAIN asked.values = 1 .. Len(asked.values)
    BY <1>5
  <2>3. \A k \in 1 .. Len(asked.values) : asked.values[k] \in Encodable(type)
    BY <1>2, <1>4, <2>1, <2>2 DEF Encodes, Encodable
  <2> QED
    BY <1>5, <2>3
<1>7. r.instance = asked.index /\ memory' = Written(data)
  <2>0. r.payload = IF Len(asked.values) = 1 THEN data ELSE <<Word(Len(asked.values))>> \o data
    BY <1>2, <1>4, WriteData, Zenon
  <2>1. CASE Len(asked.values) = 1
    <3>1. r.instance = asked.index /\ r.service = set_all /\ r.payload = data
      <4>1. r.instance = asked.index /\ r.service = set_all
        BY <1>2, <1>4, <2>1, Requests
      <4> QED
        BY <2>0, <2>1, <4>1
    <3>2. set_all # write_multiple
      BY DEF set_all, write_multiple
    <3> QED
      BY <1>3, <3>1, <3>2
  <2>2. CASE Len(asked.values) # 1
    <3>1. /\ r.instance = asked.index /\ r.service = write_multiple
          /\ r.payload = <<Word(Len(asked.values))>> \o data
      <4>1. r.instance = asked.index /\ r.service = write_multiple
        BY <1>2, <1>4, <2>2, Requests
      <4> QED
        BY <2>0, <2>2, <4>1
    <3>2. set_all # write_multiple
      BY DEF set_all, write_multiple
    <3>3. Tail(r.payload) = data
      <4> DEFINE enc == [k \in DOMAIN asked.values |-> EncodeValue(type, asked.values[k])]
      <4>1. enc \in Seq(Stored(type))
        <5>1. \A k \in 1 .. Len(asked.values) : EncodeValue(type, asked.values[k]) \in Stored(type)
          <6>1. \A k \in 1 .. Len(asked.values) : asked.values[k] \in Encodable(type)
            BY <1>6, ElementOfSeq
          <6> QED
            BY <1>2, <6>1, EncodedIsStored
        <5>2. DOMAIN asked.values = 1 .. Len(asked.values) /\ Len(asked.values) \in Nat
          BY <1>5
        <5> QED
          BY <5>1, <5>2
      <4> HIDE DEF enc
      <4>2. Joined(type, enc) \in Seq(Field(type)) /\ Field(type) \subseteq Fields
        BY <1>2, <4>1, JoinedParts, FieldFacts
      <4>3. data = Joined(type, enc)
        BY DEF enc
      <4>4. Len(asked.values) \in Int
        BY <1>5
      <4> HIDE DEF data
      <4> QED
        BY <3>1, <4>2, <4>3, <4>4, Headed
    <3> QED
      BY <1>3, <3>1, <3>2, <3>3
  <2> QED
    BY <2>1, <2>2
<1>8. asked.index = wire[1].instance
  BY <1>7 DEF r
<1> DEFINE values == asked.values
           i == asked.index
<1>9. data = Joined(type, [k \in DOMAIN values |-> EncodeValue(type, values[k])])
  OBVIOUS
<1> HIDE DEF data, values, i
<1>10. /\ \A s \in Slots :
            Written(data)[s] = IF s - i + 1 \in DOMAIN values
                               THEN EncodeValue(type, values[s - i + 1]) ELSE memory[s]
       /\ Written(data) \in [Slots -> Stored(type)]
  <2>1. values \in Seq(Encodable(type)) /\ i \in Nat /\ i = wire[1].instance
    BY <1>5, <1>6, <1>8 DEF values, i
  <2> QED
    BY <1>2, <1>9, <2>1, WrittenIs
<1> QED
  BY <1>1, <1>4, <1>5, <1>6, <1>7, <1>10 DEF values, i

\* A read is carried out as it was asked.
LEMMA ReadIsDone ==
  ASSUME CodecInv, ServeRead
  PROVE  /\ asked.op \in {"read", "readOne"} /\ InReach(asked)
         /\ memory' = memory /\ files' = files
         /\ \E p \in Payloads : Reply("read", p)
<1> DEFINE r == wire[1]
<1>1. stage = "sent"
  BY DEF ServeRead, Reply
<1>2. /\ type \in Types /\ asked \in Possible(type) /\ r = EncodeCommand(type, asked)
      /\ memory \in [Slots -> Stored(type)]
  BY <1>1, RequestOnTheWay DEF Robot
<1>3. memory' = memory /\ files' = files
  BY DEF ServeRead
<1>4. NumSlots \in Nat
  BY NumberOfSlots
<1>5. CASE /\ Asks("robot", single_command[type], get_all)
           /\ Within(1) /\ Reply("read", memory[r.instance])
  <2>1. r.division = "robot" /\ r.command = single_command[type] /\ r.service = get_all
    BY <1>5 DEF Asks
  <2> HIDE DEF r
  <2>2. Single(asked)
    BY <1>2, <2>1, RequestsDiffer
  <2>3. r.instance = asked.index
    BY <1>2, <2>2, Requests
  <2>4. asked.index \in 0 .. 255 /\ asked.op \in {"read", "readOne"}
    BY <1>2, <2>2, CommandFields DEF Single
  <2>5. asked.index + 1 <= NumSlots
    BY <1>5, <2>3 DEF Within, r
  <2>6. InReach(asked)
    <3>1. asked.index \in Slots
      BY <1>4, <2>4, <2>5 DEF Slots
    <3> QED
      BY <2>2, <2>5, <3>1 DEF InReach, Single
  <2>7. memory[r.instance] \in Payloads
    BY <2>2, <2>3 DEF Payloads, Single
  <2> QED
    BY <1>3, <1>5, <2>4, <2>6, <2>7
<1>6. CASE /\ Asks("robot", multiple_command[type], read_multiple)
           /\ LET n == Unsigned(r.payload[1])
                  data == Joined(type, [k \in 1 .. n |-> memory[r.instance + k - 1]])
              IN  Within(n) /\ Reply("read", <<Word(n)>> \o data)
  <2> DEFINE n == Unsigned(r.payload[1])
             data == Joined(type, [k \in 1 .. n |-> memory[r.instance + k - 1]])
  <2>1. /\ r.division = "robot" /\ r.command = multiple_command[type]
        /\ r.service = read_multiple /\ Within(n) /\ Reply("read", <<Word(n)>> \o data)
    BY <1>6 DEF Asks
  <2>2. r.instance + n <= NumSlots
    BY <2>1 DEF Within
  <2> HIDE DEF r
  <2>3. asked.op = "read" /\ ~Single(asked)
    BY <1>2, <2>1, RequestsDiffer
  <2>4. r.instance = asked.index /\ r.payload = <<Word(asked.count)>>
    BY <1>2, <2>3, Requests
  <2>5. asked.count \in 0 .. 255
    BY <1>2, <2>3, CommandFields
  <2>6. n = asked.count
    <3>1. asked.count \in Int /\ r.payload[1] = Word(asked.count)
      BY <2>4, <2>5
    <3> QED
      BY <3>1, WordIsSigned
  <2>7. InReach(asked)
    BY <2>2, <2>3, <2>4, <2>6 DEF InReach
  <2>8. data = Joined(type, Slice(asked))
    BY <2>4, <2>6 DEF Slice
  <2> HIDE DEF n, data
  <2>9. <<Word(n)>> \o data \in Payloads
    BY <2>3, <2>6, <2>8 DEF Payloads
  <2> QED
    BY <1>3, <2>1, <2>3, <2>7, <2>9
<1> QED
  BY <1>5, <1>6 DEF ServeRead

\* So is every other command; only MoveL is taken for another.
LEMMA OtherIsDone ==
  ASSUME CodecInv, ServeOther
  PROVE  /\ asked.op \in {"where", "moveL", "status", "delete"} /\ memory' = memory
         /\ files' \subseteq files
         /\ \E p \in Payloads : Reply(Does(asked), p)
<1> DEFINE r == wire[1]
<1>1. stage = "sent"
  BY DEF ServeOther, Reply
<1>2. type \in Types /\ asked \in Possible(type) /\ r = EncodeCommand(type, asked)
  BY <1>1, RequestOnTheWay
<1>3. CASE /\ Asks("robot", read_robot_position, get_all)
           /\ \E k \in {12, 13} : Reply("where", SubSeq(CurrentPosition(r.instance), 1, k))
           /\ UNCHANGED <<memory, files>>
  <2>1. r.division = "robot" /\ r.command = read_robot_position /\ r.service = get_all
    BY <1>3 DEF Asks
  <2> HIDE DEF r
  <2>2. asked.op \in {"where", "moveL"}
    BY <1>2, <2>1, RequestsDiffer
  <2>3. r.instance = Instance(asked)
    BY <1>2, <2>2, Requests
  <2>4. PICK k \in {12, 13} : Reply("where", SubSeq(CurrentPosition(r.instance), 1, k))
    BY <1>3 DEF r
  <2>5. SubSeq(CurrentPosition(r.instance), 1, k) \in Payloads
    BY <2>2, <2>3, <2>4 DEF Payloads, Single
  <2>6. Does(asked) = "where"
    BY <2>2 DEF Does
  <2> QED
    BY <1>3, <2>2, <2>4, <2>5, <2>6
<1>4. CASE /\ Asks("robot", read_status_information, get_all)
           /\ Reply("status", StatusData) /\ UNCHANGED <<memory, files>>
  <2>1. r.division = "robot" /\ r.command = read_status_information /\ r.service = get_all
    BY <1>4 DEF Asks
  <2> HIDE DEF r
  <2>2. asked.op = "status"
    BY <1>2, <2>1, RequestsDiffer
  <2>3. StatusData \in Payloads /\ Does(asked) = "status"
    BY <2>2 DEF Payloads, Single, Does
  <2> QED
    BY <1>4, <2>2, <2>3
<1>5. CASE /\ Asks("file", 0, delete_file)
           /\ files' = files \ {Unsigned(r.payload[1])}
           /\ Reply("delete", << >>) /\ UNCHANGED memory
  <2>1. r.division = "file"
    BY <1>5 DEF Asks
  <2> HIDE DEF r
  <2>2. asked.op = "delete"
    BY <1>2, <2>1, RequestsDiffer
  <2>3. << >> \in Payloads /\ Does(asked) = "delete"
    BY <2>2 DEF Payloads, Single, Does
  <2> QED
    BY <1>5, <2>2, <2>3
<1> QED
  BY <1>3, <1>4, <1>5 DEF ServeOther

\* What the controller does leaves the answer to the command on its way.
LEMMA ServeKeeps ==
  ASSUME CodecInv, ServeRead \/ ServeWrite \/ ServeOther
  PROVE  CodecInv'
<1>1. stage = "sent" /\ UNCHANGED <<type, flags, asked>>
  BY DEF ServeRead, ServeWrite, ServeOther, Reply
<1>2. Robot
  BY <1>1, RequestOnTheWay
<1>3. CASE ServeRead
  <2>1. /\ asked.op \in {"read", "readOne"} /\ InReach(asked) /\ UNCHANGED <<memory, files>>
        /\ \E p \in Payloads : Reply("read", p)
    BY <1>3, ReadIsDone
  <2>2. PICK p \in Payloads : Reply("read", p)
    BY <2>1
  <2>3. Does(asked) = "read" /\ p \in Payloads'
    BY <1>1, <2>1, <2>2, SameAnswers DEF Does
  <2>4. Robot'
    BY <1>1, <1>2, <2>1 DEF Robot
  <2> QED
    BY <2>1, <2>2, <2>3, <2>4, AnswerKeeps
<1>4. CASE ServeOther
  <2>1. /\ asked.op \in {"where", "moveL", "status", "delete"} /\ memory' = memory
        /\ files' \subseteq files
        /\ \E p \in Payloads : Reply(Does(asked), p)
    BY <1>4, OtherIsDone
  <2>2. PICK p \in Payloads : Reply(Does(asked), p)
    BY <2>1
  <2>3. p \in Payloads'
    BY <1>1, <2>1, <2>2, SameAnswers
  <2>4. Robot' /\ InReach(asked)
    BY <1>1, <1>2, <2>1 DEF Robot, InReach
  <2> QED
    BY <2>2, <2>3, <2>4, AnswerKeeps
<1>5. CASE ServeWrite
  <2>1. /\ asked.op = "write" /\ memory' \in [Slots -> Stored(type)]
        /\ Reply("write", << >>) /\ files' = files
    BY <1>5, WriteIsDone
  <2>2. << >> \in Payloads' /\ Does(asked) = "write" /\ InReach(asked)
    BY <1>1, <2>1 DEF Payloads, Single, Does, InReach
  <2>3. Robot'
    BY <1>1, <1>2, <2>1 DEF Robot
  <2> QED
    BY <2>1, <2>2, <2>3, AnswerKeeps
<1> QED
  BY <1>3, <1>4, <1>5

LEMMA RefuseKeeps ==
  ASSUME CodecInv, Refuse
  PROVE  CodecInv'
<1>1. /\ stage = "sent" /\ stage' = "replied" /\ wire' = <<Datagram(<< >>, 1)>>
      /\ UNCHANGED <<type, memory, files, flags, asked, did, clean, result>>
  BY DEF Refuse, controller
<1>2. /\ asked \in Possible(type) /\ Encodes(type, asked) /\ did = "nothing" /\ clean = TRUE
      /\ result = Outcome("none") /\ Robot
  BY <1>1, RequestOnTheWay
<1>3. wire' \in {<<d>> : d \in Answers'}
  BY <1>1, <1>2 DEF Answers
<1>4. Robot' /\ Possible(type)' = Possible(type)
  BY <1>1, <1>2 DEF Robot
<1>5. InProgress'
  BY <1>1, <1>2, <1>3, <1>4 DEF InProgress
<1> QED
  BY <1>1, <1>2, <1>4, <1>5 DEF CodecInv

\* What is known of a reply that is on its way.
LEMMA ReplyOnTheWay ==
  ASSUME CodecInv, stage = "replied"
  PROVE  /\ Robot /\ clean \in BOOLEAN
         /\ asked \in Possible(type) /\ Encodes(type, asked) /\ result = Outcome("none")
         /\ did \in {"nothing", Does(asked)} /\ (did # "nothing" => InReach(asked))
         /\ \E d \in Answers : IF clean THEN wire = <<d>> ELSE \E s \in Spoilt(d) : wire = <<s>>
<1>1. Robot /\ clean \in BOOLEAN /\ InProgress
  BY DEF CodecInv, Ended
<1>2. IF clean THEN wire \in {<<d>> : d \in Answers}
      ELSE \E d \in Answers : wire \in {<<s>> : s \in Spoilt(d)}
  BY <1>1 DEF InProgress
<1> QED
  BY <1>1, <1>2 DEF InProgress

LEMMA SpoilKeeps ==
  ASSUME CodecInv, Spoil
  PROVE  CodecInv'
<1>1. /\ stage = "replied" /\ stage' = "replied" /\ clean /\ clean' = FALSE
      /\ UNCHANGED <<type, memory, files, flags, asked, did, result>>
  BY DEF Spoil, controller
<1>2. PICK s \in Spoilt(wire[1]) : wire' = <<s>>
  BY DEF Spoil
<1>3. PICK d \in Answers : wire = <<d>>
  BY <1>1, ReplyOnTheWay
<1>4. d \in Answers' /\ s \in Spoilt(d) /\ wire' = <<s>>
  <2>1. Answers' = Answers
    BY <1>1, SameAnswers
  <2> QED
    BY <1>2, <1>3, <2>1
<1>5. Robot' /\ Possible(type)' = Possible(type) /\ InReach(asked)' = InReach(asked)
      /\ Does(asked)' = Does(asked)
  BY <1>1, ReplyOnTheWay, SameAnswers DEF Robot
<1>6. \E e \in Answers' : wire' \in {<<z>> : z \in Spoilt(e)}
  BY <1>4
<1>7. InProgress'
  BY <1>1, <1>5, <1>6, ReplyOnTheWay DEF InProgress
<1> QED
  BY <1>1, <1>5, <1>7 DEF CodecInv

\* What the client makes of what arrives: less than the header says is dropped, and
\* what is decoded is the answer, or part of it if anything happened to it.
LEMMA WhatArrives ==
  ASSUME CodecInv, Receive
  PROVE  /\ stage = "replied" /\ wire' = << >>
         /\ UNCHANGED <<type, memory, files, flags, asked, did, clean>>
         /\ \/ stage' = "dropped" /\ result' = result /\ (clean => Large)
            \/ stage' = "idle" /\ result' = Outcome("failed")
            \/ /\ stage' = "idle" /\ did = Does(asked) /\ InReach(asked)
               /\ \E p \in Payloads : \E q \in {p, Front(p), << >>} :
                    result' = DecodeReply(type, asked, q) /\ (clean => q = p)
<1> DEFINE a == Received(wire[1])
           h == decodeResponseHeader(a)
<1>1. /\ stage = "replied" /\ wire' = << >>
      /\ UNCHANGED <<type, memory, files, flags, asked, did, clean>>
  BY DEF Receive, controller
<1>2. /\ Robot /\ clean \in BOOLEAN
      /\ asked \in Possible(type) /\ Encodes(type, asked) /\ result = Outcome("none")
      /\ did \in {"nothing", Does(asked)} /\ (did # "nothing" => InReach(asked))
  BY <1>1, ReplyOnTheWay
<1>3. PICK d \in Answers : IF clean THEN wire = <<d>> ELSE \E s \in Spoilt(d) : wire = <<s>>
  BY <1>1, ReplyOnTheWay
<1>4. PICK s : wire[1] = s /\ (s = d \/ s \in Spoilt(d)) /\ (clean => s = d)
  BY <1>3
<1>5. PICK p, status :
        /\ p \in Seq(Fields) /\ d = Datagram(p, status)
        /\ IF did = "nothing" THEN p = << >> /\ status = 1 ELSE p \in Payloads /\ status = 0
  <2>1. CASE did = "nothing"
    <3>1. d = Datagram(<< >>, 1)
      BY <1>3, <2>1 DEF Answers
    <3>2. << >> \in Seq(Fields)
      BY EmptySeq
    <3> QED
      BY <2>1, <3>1, <3>2
  <2>2. CASE did # "nothing"
    <3>1. PICK p \in Payloads : d = Datagram(p, 0)
      BY <1>3, <2>2 DEF Answers
    <3>2. p \in Seq(Fields)
      BY <1>2, <2>2, PayloadSizes
    <3> QED
      BY <2>2, <3>1, <3>2
  <2> QED
    BY <2>1, <2>2
<1>6. /\ h.outcome \in {"ok", "malformed"} /\ a.status = status
      /\ a.payload \in {p, Front(p), << >>}
      /\ s = d => a.payload = p /\ (h.outcome = "malformed" => Size(p) > max_payload_size)
  BY <1>4, <1>5, Arrivals
<1>7. \/ h.outcome = "malformed" /\ stage' = "dropped" /\ result' = result
      \/ h.outcome = "ok" /\ a.status # 0 /\ stage' = "idle" /\ result' = Outcome("failed")
      \/ /\ h.outcome = "ok" /\ a.status = 0
         /\ stage' = "idle" /\ result' = DecodeReply(type, asked, a.payload)
  BY <1>6 DEF Receive
<1> HIDE DEF a, h
<1>8. CASE h.outcome = "malformed" /\ stage' = "dropped" /\ result' = result
  <2> SUFFICES ASSUME clean PROVE Large
    BY <1>1, <1>8
  <2>1. Size(p) > max_payload_size
    BY <1>4, <1>6, <1>8
  <2>2. did # "nothing"
    <3>1. ~(0 > max_payload_size)
      BY DEF max_payload_size
    <3> QED
      BY <1>5, <2>1, <3>1, SizeOfNone
  <2> QED
    BY <1>2, <1>5, <2>1, <2>2, PayloadSizes
<1>9. CASE /\ h.outcome = "ok" /\ a.status = 0
           /\ stage' = "idle" /\ result' = DecodeReply(type, asked, a.payload)
  <2>1. did = Does(asked) /\ InReach(asked) /\ p \in Payloads
    BY <1>2, <1>5, <1>6, <1>9
  <2>2. clean => a.payload = p
    BY <1>4, <1>6
  <2> QED
    BY <1>1, <1>6, <1>9, <2>1, <2>2
<1> QED
  BY <1>1, <1>7, <1>8, <1>9

LEMMA ReceiveKeeps ==
  ASSUME CodecInv, Receive
  PROVE  CodecInv'
<1>1. /\ stage = "replied" /\ wire' = << >>
      /\ UNCHANGED <<type, memory, files, flags, asked, did, clean>>
  BY WhatArrives
<1>2. /\ Robot /\ clean \in BOOLEAN
      /\ asked \in Possible(type) /\ Encodes(type, asked) /\ result = Outcome("none")
      /\ did \in {"nothing", Does(asked)} /\ (did # "nothing" => InReach(asked))
  BY <1>1, ReplyOnTheWay
<1>3. /\ Robot' /\ Possible(type)' = Possible(type) /\ Encodes(type, asked)'
      /\ InReach(asked)' = InReach(asked) /\ Does(asked)' = Does(asked)
      /\ Large' = Large /\ Unreadable' = Unreadable /\ Instance(asked)' = Instance(asked)
  BY <1>1, <1>2, SameAnswers DEF Robot
<1>4. CASE stage' = "dropped" /\ result' = result /\ (clean => Large)
  <2>1. InProgress'
    BY <1>1, <1>2, <1>3, <1>4 DEF InProgress
  <2> QED
    BY <1>1, <1>2, <1>3, <2>1 DEF CodecInv
<1>5. CASE stage' = "idle" /\ result' = Outcome("failed")
  BY <1>1, <1>2, <1>5, FailureEnds
<1>6. ASSUME stage' = "idle", did = Does(asked), InReach(asked),
             NEW p \in Payloads, NEW q \in {p, Front(p), << >>},
             result' = DecodeReply(type, asked, q), clean => q = p
      PROVE  CodecInv'
  <2>1. PICK r : r = DecodeReply(type, asked, q)
    OBVIOUS
  <2>2. /\ r.outcome \in {"ok", "malformed"}
        /\ asked.op \in {"read", "readOne"} => r.value \in Seq(ValuesOf(type))
        /\ q = p =>
              /\ r.outcome = "malformed" => asked.op = "moveL" \/ Unreadable
              /\ r.outcome = "ok" =>
                   /\ asked.op # "moveL"
                   /\ asked.op = "status" => r.value = <<flags>>
                   /\ asked.op = "where" => r.value[1].tool = Instance(asked)
    BY <1>2, <1>6, <2>1, Replies
  <2>3. result' = r /\ (clean => q = p)
    BY <1>6, <2>1
  <2>4. SuccessMeansDone'
    BY <1>1, <1>6, <2>2, <2>3 DEF SuccessMeansDone, Does
  <2>5. CleanRepliesAreUnderstood'
    BY <1>1, <1>3, <1>6, <2>2, <2>3 DEF CleanRepliesAreUnderstood
  <2>6. Reported'
    BY <1>1, <1>3, <2>2, <2>3 DEF Reported
  <2>7. /\ result'.outcome \in Outcomes \ {"overrun"}
        /\ asked'.op \in {"read", "readOne"} => result'.value \in Seq(ValuesOf(type))
    BY <1>1, <2>2, <2>3 DEF Outcomes
  <2>8. did' = Does(asked)' /\ asked' \in Possible(type)'
    BY <1>1, <1>2, <1>3, <1>6
  <2>9. Ended'
    BY <1>1, <1>2, <1>6, <2>4, <2>5, <2>6, <2>7, <2>8 DEF Ended
  <2> QED
    BY <1>1, <1>2, <1>3, <2>9 DEF CodecInv
<1> QED
  BY <1>4, <1>5, <1>6, WhatArrives

LEMMA TimeoutKeeps ==
  ASSUME CodecInv, Timeout
  PROVE  CodecInv'
<1>1. /\ stage # "idle" /\ stage' = "idle" /\ wire' = << >> /\ result' = Outcome("timed out")
      /\ UNCHANGED <<type, memory, files, flags, asked, did, clean>>
  BY DEF Timeout, controller
<1>2. /\ Robot /\ clean \in BOOLEAN /\ asked \in Possible(type)
      /\ did \in {"nothing", Does(asked)}
  BY <1>1 DEF CodecInv, InProgress, Ended
<1> QED
  BY <1>1, <1>2, FailureEnds

\* What a document says is at most one position.
LEMMA AtMostOne ==
  ASSUME NEW S, NEW node, Range(DecodeYaml(node)) \subseteq S
  PROVE  DecodeYaml(node) \in Seq(S)
<1> DEFINE frame == toCoordinateSystem(node["frame"])
           P(f) == [kind |-> "cartesian", frame |-> f,
                    configuration |-> (node["configuration"] % 256) % 64, tool |-> node["tool"],
                    coordinates |-> [i \in 1 .. 6 |-> node[Axes[i]]]]
           q == DecodeYaml(node)
<1>1. q = << >> \/ q = [k \in DOMAIN frame |-> P(frame[k])]
  BY DEF DecodeYaml
<1>2. DOMAIN frame = {} \/ DOMAIN frame = 1 .. 1
  BY DEF toCoordinateSystem
<1> HIDE DEF frame, P
<1>3. q = << >> \/ (DOMAIN q = 1 .. 1 /\ q = [k \in 1 .. 1 |-> q[k]])
  BY <1>1, <1>2
<1>4. \A k \in DOMAIN q : q[k] \in S
  BY DEF Range
<1> HIDE DEF q
<1>5. CASE q = << >>
  BY <1>5, EmptySeq DEF q
<1>6. CASE DOMAIN q = 1 .. 1 /\ q = [k \in 1 .. 1 |-> q[k]]
  <2>1. q[1] \in S
    BY <1>4, <1>6
  <2>2. q = <<q[1]>>
    BY <1>6
  <2>3. \A x \in S : <<x>> \in Seq(S)
    OBVIOUS
  <2>4. q \in Seq(S)
    BY <2>1, <2>2, <2>3, Zenon
  <2> QED
    BY <2>4 DEF q
<1> QED
  BY <1>3, <1>5, <1>6

\* The positions that may be saved are positions that were read.
LEMMA PositionsRead ==
  ASSUME CodecInv, stage = "idle"
  PROVE  /\ PositionRead \subseteq Cartesians
         /\ PositionRead # {} => type = "position" /\ asked \in Possible(type)
                                   /\ asked.op \in {"read", "readOne"}
<1>1. /\ asked \in Possible(type) \union {Nothing}
      /\ asked.op \in {"read", "readOne"} => result.value \in Seq(ValuesOf(type))
  BY DEF CodecInv, InProgress, Ended
<1>2. ASSUME NEW v \in PositionRead
      PROVE  v \in Cartesians /\ type = "position" /\ asked \in Possible(type)
               /\ asked.op \in {"read", "readOne"}
  <2>1. /\ type = "position" /\ asked.op \in {"read", "readOne"}
        /\ v \in Range(result.value) /\ v.kind = "cartesian"
    BY <1>2 DEF PositionRead
  <2>2. asked # Nothing
    BY <2>1 DEF Nothing
  <2>3. v \in Pulses \union Cartesians
    <3>1. ValuesOf(type) = Pulses \union Cartesians
      BY <2>1 DEF ValuesOf
    <3>2. PICK k \in DOMAIN result.value : v = result.value[k]
      BY <2>1 DEF Range
    <3>3. result.value[k] \in ValuesOf(type)
      BY <1>1, <2>1, <3>2, ElementOfSeq
    <3> QED
      BY <3>1, <3>2, <3>3
  <2>4. \A w \in Pulses : w.kind = "pulse"
    BY DEF Pulses
  <2> QED
    BY <1>1, <2>1, <2>2, <2>3, <2>4
<1> QED
  BY <1>2

\* What is restored, or refused, and what is written back.
Rejected ==
  /\ stage = "idle" /\ result' = Outcome("thrown")
  /\ UNCHANGED <<type, controller, asked, stage, wire, did, clean>>

LEMMA WhatIsRestored ==
  ASSUME CodecInv, Restore
  PROVE  Rejected \/ \E c \in Possible(type) : Send(c)
<1>1. PICK v \in PositionRead : \E node \in {EncodeYaml(v)} \union Edited(EncodeYaml(v)) :
        \/ Send([op |-> "write", index |-> asked.index, values |-> DecodeYaml(node)])
        \/ Rejected
  BY DEF Restore, Rejected
<1> DEFINE saved == EncodeYaml(v)
<1> HIDE DEF saved
<1>2. PICK node \in {saved} \union Edited(saved) :
        \/ Send([op |-> "write", index |-> asked.index, values |-> DecodeYaml(node)])
        \/ Rejected
  BY <1>1 DEF saved
<1> DEFINE p == DecodeYaml(node)
<1>3. CASE Send([op |-> "write", index |-> asked.index, values |-> p])
  <2>1. stage = "idle"
    BY <1>3 DEF Send
  <2>2. /\ v \in Cartesians /\ type = "position" /\ asked \in Possible(type)
        /\ asked.op \in {"read", "readOne"} /\ type \in Types
    BY <1>1, <2>1, PositionsRead DEF CodecInv, Robot
  <2>3. Range(p) \subseteq Cartesians
    <3>1. DecodeYaml(saved) = <<v>> /\ \A n \in Edited(saved) : Range(DecodeYaml(n)) \subseteq Cartesians
      BY <2>2, SavedAndEdited DEF saved
    <3>2. Range(<<v>>) = {v}
      BY DEF Range
    <3>3. node = saved \/ node \in Edited(saved)
      BY <1>2
    <3> QED
      BY <2>2, <3>1, <3>2, <3>3
  <2>4. p \in Seq(Cartesians)
    BY <2>3, AtMostOne
  <2> HIDE DEF p
  <2>5. p \in Seq(ValuesOf(type))
    <3>1. Cartesians \subseteq ValuesOf(type)
      BY <2>2 DEF ValuesOf
    <3> QED
      BY <2>4, <3>1
  <2>6. asked.index \in 0 .. 255
    BY <2>2, CommandFields
  <2>7. [op |-> "write", index |-> asked.index, values |-> p] \in Possible(type)
    BY <2>5, <2>6 DEF Possible
  <2> QED
    BY <1>3, <2>7
<1> QED
  BY <1>2, <1>3

LEMMA WhatIsWrittenBack ==
  ASSUME CodecInv, WriteBack
  PROVE  \E c \in Possible(type) : Send(c)
<1> DEFINE c == [op |-> "write", index |-> asked.index, values |-> result.value]
<1>1. stage = "idle" /\ asked.op \in {"read", "readOne"} /\ Send(c)
  BY DEF WriteBack, Send
<1>2. /\ asked \in Possible(type) \union {Nothing} /\ type \in Types
      /\ result.value \in Seq(ValuesOf(type))
  BY <1>1 DEF CodecInv, Robot, InProgress, Ended
<1>3. asked \in Possible(type)
  BY <1>1, <1>2 DEF Nothing
<1>4. asked.index \in 0 .. 255
  BY <1>1, <1>2, <1>3, CommandFields
<1>5. c \in Possible(type)
  BY <1>2, <1>4 DEF Possible
<1> HIDE DEF c
<1> QED
  BY <1>1, <1>5

LEMMA RejectedKeeps ==
  ASSUME CodecInv, Rejected
  PROVE  CodecInv'
<1>1. /\ stage = "idle" /\ result' = Outcome("thrown")
      /\ UNCHANGED <<type, memory, files, flags, asked, stage, wire, did, clean>>
  BY DEF Rejected, controller
<1>2. Robot /\ clean \in BOOLEAN /\ Ended
  BY <1>1 DEF CodecInv, InProgress
<1> QED
  BY <1>1, <1>2, FailureEnds DEF Ended

\* The commands that are given are possible ones.
LEMMA CommandsArePossible ==
  ASSUME NEW t \in DOMAIN Writes
  PROVE  Commands(t) \subseteq Possible(t)
<1>1. /\ Indices \subseteq 0 .. 255 /\ Writes[t] \subseteq Seq(ValuesOf(t))
      /\ Targets \subseteq Cartesians
      /\ \A r \in Reads : r[1] \in 0 .. 255 /\ r[2] \in 0 .. 255
  BY CodecAssumption
<1>2. ASSUME NEW c \in Commands(t)
      PROVE  c \in Possible(t)
  <2>1. CASE c \in [op : {"readOne"}, index : Indices]
    <3>1. c \in [op : {"readOne"}, index : 0 .. 255]
      BY <1>1, <2>1
    <3> QED
      BY <3>1 DEF Possible
  <2>2. CASE c \in {[op |-> "read", index |-> r[1], count |-> r[2]] : r \in Reads}
    <3>1. PICK r \in Reads : c = [op |-> "read", index |-> r[1], count |-> r[2]]
      BY <2>2
    <3> DEFINE i == r[1]
               n == r[2]
    <3>2. i \in 0 .. 255 /\ n \in 0 .. 255 /\ c = [op |-> "read", index |-> i, count |-> n]
      BY <1>1, <3>1
    <3> HIDE DEF i, n
    <3>3. c \in [op : {"read"}, index : 0 .. 255, count : 0 .. 255]
      BY <3>2
    <3> QED
      BY <3>3 DEF Possible
  <2>3. CASE c \in [op : {"write"}, index : Indices, values : Writes[t]]
    <3>1. c \in [op : {"write"}, index : 0 .. 255, values : Seq(ValuesOf(t))]
      BY <1>1, <2>3
    <3> QED
      BY <3>1 DEF Possible
  <2>4. CASE c \in [op : {"moveL"}, group : Groups, speed : {[type |-> 1, value |-> 100]},
                    target : Targets]
    BY <1>1, <2>4 DEF Possible
  <2>5. CASE c \in [op : {"where"}, group : Groups, system : Systems]
                     \union [op : {"status"}] \union [op : {"delete"}, name : {1, 2}]
    BY <2>5 DEF Possible
  <2> QED
    BY <1>2, <2>1, <2>2, <2>3, <2>4, <2>5 DEF Commands
<1> QED
  BY <1>2

LEMMA InitKeeps == Init => CodecInv
<1> SUFFICES ASSUME Init
             PROVE  CodecInv
  OBVIOUS
<1>1. type \in Types /\ type \in DOMAIN Writes
  BY CodecAssumption DEF Init
<1>2. memory \in [Slots -> Stored(type)]
  <2>1. PICK v \in InitialValues(type) : memory = [s \in Slots |-> EncodeValue(type, v)]
    BY DEF Init
  <2>2. PICK w \in Writes[type] :
          /\ v = w[1] /\ Len(w) = 1
          /\ Encodes(type, [op |-> "write", values |-> w])
    BY <2>1 DEF InitialValues
  <2>3. w \in Seq(ValuesOf(type))
    BY <1>1, <2>2, CodecAssumption
  <2>4. 1 \in DOMAIN w /\ v \in ValuesOf(type)
    <3>1. Len(w) = 1 /\ v = w[1]
      BY <2>2
    <3>2. 1 \in 1 .. Len(w)
      BY <3>1
    <3>3. w[1] \in ValuesOf(type)
      BY <2>3, <3>2, ElementOfSeq
    <3>4. DOMAIN w = 1 .. Len(w)
      BY <2>3, LenProperties
    <3> QED
      BY <3>1, <3>2, <3>3, <3>4
  <2>5. v \in Encodable(type)
    BY <2>2, <2>4 DEF Encodes, Encodable
  <2>6. EncodeValue(type, v) \in Stored(type)
    BY <1>1, <2>5, EncodedIsStored
  <2> QED
    BY <2>1, <2>6
<1>3. Robot
  BY <1>1, <1>2 DEF Init, Robot
<1>4. /\ asked = Nothing /\ asked.op = "none" /\ result.outcome = "none" /\ stage = "idle"
      /\ wire = << >> /\ did = "nothing" /\ clean = TRUE
  BY DEF Init, Nothing, Outcome
<1>5. Ended
  BY <1>4 DEF Ended, SuccessMeansDone, CleanRepliesAreUnderstood, Reported, Outcomes
<1> QED
  BY <1>3, <1>4, <1>5 DEF CodecInv

\* The type never changes, and is one that is written.
LEMMA TypeIsWritten ==
  /\ Init => type \in DOMAIN Writes
  /\ type \in DOMAIN Writes /\ [Next]_vars => type' = type
<1>1. Init => type \in DOMAIN Writes
  BY DEF Init
<1>2. ASSUME [Next]_vars
      PROVE  type' = type
  BY <1>2 DEF Next, vars, Send, WriteBack, Restore, ServeRead, ServeWrite, ServeOther, Reply,
              Refuse, Spoil, Receive, Timeout
<1> QED
  BY <1>1, <1>2

LEMMA StutterKeeps ==
  ASSUME CodecInv, UNCHANGED vars
  PROVE  CodecInv'
<1>1. UNCHANGED <<type, memory, files, flags, asked, stage, wire, did, clean, result>>
  BY DEF vars, controller
<1>2. /\ Possible(type)' = Possible(type) /\ InReach(asked)' = InReach(asked)
      /\ Does(asked)' = Does(asked) /\ Instance(asked)' = Instance(asked)
      /\ Encodes(type, asked)' = Encodes(type, asked)
      /\ EncodeCommand(type, asked)' = EncodeCommand(type, asked)
      /\ Large' = Large /\ Unreadable' = Unreadable /\ Answers' = Answers
  BY <1>1, SameAnswers
<1>3. Robot' = Robot
  BY <1>1 DEF Robot
<1>4. InProgress' = InProgress
  BY <1>1, <1>2 DEF InProgress
<1>5. Ended' = Ended
  BY <1>1, <1>2 DEF Ended, SuccessMeansDone, CleanRepliesAreUnderstood, Reported
<1> QED
  BY <1>1, <1>3, <1>4, <1>5 DEF CodecInv

\* Every step sends a command, or is one of the others.
LEMMA StepCases ==
  ASSUME CodecInv, type \in DOMAIN Writes, [Next]_vars
  PROVE  \/ \E c \in Possible(type) : Send(c)
         \/ Rejected
         \/ ServeRead \/ ServeWrite \/ ServeOther
         \/ Refuse \/ Spoil \/ Receive \/ Timeout
         \/ UNCHANGED vars
  BY CommandsArePossible, WhatIsWrittenBack, WhatIsRestored DEF Next

LEMMA StepKeeps ==
  ASSUME CodecInv, type \in DOMAIN Writes, [Next]_vars
  PROVE  CodecInv'
  BY StepCases, SendKeeps, RejectedKeeps, ServeKeeps, RefuseKeeps, SpoilKeeps, ReceiveKeeps,
     TimeoutKeeps, StutterKeeps

Inv == CodecInv /\ type \in DOMAIN Writes

\* In every state, what is on its way is the command, the answer to it or what became
\* of the answer, and what a command ended with agrees with what was done for it.
THEOREM OnTheWay == Spec => []Inv
<1>1. Init => Inv
  BY InitKeeps, TypeIsWritten DEF Inv
<1>2. Inv /\ [Next]_vars => Inv'
  BY StepKeeps, TypeIsWritten DEF Inv
<1> QED
  BY <1>1, <1>2, PTL DEF Spec

-----------------------------------------------------------------------------
(* The properties.                                                         *)

\* Type correctness: every variable of the robot keeps the size of its type, whatever
\* is written to it and however much of it (protocol.cpp:228-253).
THEOREM TypeCorrect == Spec => []TypeOK
<1>1. CodecInv => TypeOK
  <2> SUFFICES ASSUME CodecInv
               PROVE  TypeOK
    OBVIOUS
  <2>1. /\ type \in Types /\ memory \in [Slots -> Stored(type)] /\ files \subseteq {1, 2}
        /\ flags \in Flags /\ clean \in BOOLEAN
    BY DEF CodecInv, Robot
  <2>2. \A s \in Slots : Size(memory[s]) = encoded_size[type]
    BY <2>1, StoredSize
  <2>3. \A c \in Possible(type) : Does(c) \in {"read", "write", "where", "status", "delete"}
    BY <2>1, CommandFields DEF Does, Operations
  <2>4. did \in {"nothing", "read", "write", "where", "status", "delete"}
    BY <2>3 DEF CodecInv, InProgress, Ended
  <2>5. /\ stage \in {"idle", "sent", "replied", "dropped"}
        /\ wire = << >> <=> stage \in {"idle", "dropped"}
        /\ result.outcome \in Outcomes
    <3>1. CASE InProgress
      <4>1. stage = "sent" => wire # << >>
        BY <3>1 DEF InProgress
      <4>2. stage = "replied" => wire # << >>
        BY <3>1 DEF InProgress
      <4> QED
        BY <3>1, <4>1, <4>2 DEF InProgress, Outcome, Outcomes
    <3>2. CASE Ended
      BY <3>2 DEF Ended
    <3> QED
      BY <3>1, <3>2 DEF CodecInv
  <2> QED
    BY <2>1, <2>2, <2>4, <2>5 DEF TypeOK
<1> QED
  BY <1>1, OnTheWay, PTL DEF Inv

\* No decoder reads past the end of the data, whatever becomes of a reply: each first
\* compares the size with the one it expects (protocol.cpp:58-114, 192-267, error.cpp:126-151).
THEOREM NeverOverruns == Spec => []NoOverrun
<1>1. CodecInv => NoOverrun
  BY DEF CodecInv, InProgress, Ended, Outcome, NoOverrun
<1> QED
  BY <1>1, OnTheWay, PTL DEF Inv

\* A command that succeeds was carried out, that very one, unless the reply to another
\* came in its place: although MoveL goes out as ReadCurrentPosition does
\* (protocol.cpp:127-166), it never takes the position for its own reply.
THEOREM SuccessIsDone == Spec => []SuccessMeansDone
<1>1. CodecInv => SuccessMeansDone
  BY DEF CodecInv, InProgress, Ended, Outcome, SuccessMeansDone
<1> QED
  BY <1>1, OnTheWay, PTL DEF Inv

\* A reply that arrives as it was sent is understood, but for the three exceptions.
THEOREM RepliesUnderstood == Spec => []CleanRepliesAreUnderstood
<1>1. CodecInv => CleanRepliesAreUnderstood
  <2>1. ASSUME Robot, InProgress
        PROVE  CleanRepliesAreUnderstood
    <3>1. result.outcome = "none" /\ (stage = "dropped" /\ clean => Large)
      BY <2>1 DEF InProgress, Outcome
    <3> QED
      BY <3>1 DEF CleanRepliesAreUnderstood
  <2> QED
    BY <2>1 DEF CodecInv, Ended
<1> QED
  BY <1>1, OnTheWay, PTL DEF Inv

\* The instances of the axes of one kind never meet those of another, for the control
\* groups that a controller has (protocol.cpp:81-102): the status and the position that
\* are reported are the robot's, and of the axes that were asked for.
THEOREM RobotReported == Spec => []ReportsTheRobot
<1>1. CodecInv => ReportsTheRobot
  <2> SUFFICES ASSUME CodecInv, clean, result.outcome = "ok"
               PROVE  /\ asked.op = "status" => result.value = <<flags>>
                      /\ asked.op = "where" /\ asked.group \in ControlGroups =>
                           LET i == result.value[1].tool IN
                           /\ i \in AxisInstances[asked.system]
                           /\ \A j \in AxisInstances[asked.system] : j >= i - asked.group
                           /\ i - asked.group \in AxisInstances[asked.system]
    BY DEF ReportsTheRobot
  <2>1. type \in Types /\ Ended
    BY DEF CodecInv, Robot, InProgress, Outcome
  <2>2. Reported /\ asked \in Possible(type) \union {Nothing}
    BY <2>1 DEF Ended
  <2>3. ASSUME asked.op = "where", asked.group \in ControlGroups
        PROVE  LET i == result.value[1].tool IN
               /\ i \in AxisInstances[asked.system]
               /\ \A j \in AxisInstances[asked.system] : j >= i - asked.group
               /\ i - asked.group \in AxisInstances[asked.system]
    <3>1. asked \in Possible(type)
      BY <2>2, <2>3 DEF Nothing
    <3> DEFINE g == asked.group
               s == asked.system
               i == result.value[1].tool
    <3>2. g \in 0 .. 9 /\ s \in Systems
      <4>1. asked.system \in Systems
        BY <2>1, <2>3, <3>1, CommandFields
      <4> QED
        BY <2>3, <4>1 DEF ControlGroups
    <3>3. i = (g + PositionInstances[s]) % 2^16
      BY <2>2, <2>3 DEF Reported, Instance
    <3> HIDE DEF g, s, i
    <3>4. s \in {"robot_pulse", "base_pulse", "station_pulse", "robot_cartesian"}
      BY <3>2 DEF Systems, PositionInstances
    <3>5. \A n \in 0 .. 200 : n % 2^16 = n
      OBVIOUS
    <3>6. CASE s = "robot_pulse"
      <4>1. PositionInstances[s] = 1 /\ AxisInstances[s] = 1 .. 10
        BY <3>6 DEF PositionInstances, AxisInstances
      <4>2. i = g + 1
        BY <3>2, <3>3, <3>5, <4>1
      <4> QED
        BY <3>2, <4>1, <4>2 DEF g, s, i
    <3>7. CASE s = "base_pulse"
      <4>1. PositionInstances[s] = 11 /\ AxisInstances[s] = 11 .. 20
        BY <3>7 DEF PositionInstances, AxisInstances
      <4>2. i = g + 11
        BY <3>2, <3>3, <3>5, <4>1
      <4> QED
        BY <3>2, <4>1, <4>2 DEF g, s, i
    <3>8. CASE s = "station_pulse"
      <4>1. PositionInstances[s] = 21 /\ AxisInstances[s] = 21 .. 100
        BY <3>8 DEF PositionInstances, AxisInstances
      <4>2. i = g + 21
        BY <3>2, <3>3, <3>5, <4>1
      <4> QED
        BY <3>2, <4>1, <4>2 DEF g, s, i
    <3>9. CASE s = "robot_cartesian"
      <4>1. PositionInstances[s] = 101 /\ AxisInstances[s] = 101 .. 110
        BY <3>9 DEF PositionInstances, AxisInstances
      <4>2. i = g + 101
        BY <3>2, <3>3, <3>5, <4>1
      <4> QED
        BY <3>2, <4>1, <4>2 DEF g, s, i
    <3> QED
      BY <3>4, <3>6, <3>7, <3>8, <3>9
  <2> QED
    BY <2>2, <2>3 DEF Reported
<1> QED
  BY <1>1, OnTheWay, PTL DEF Inv

\* A position that was read and saved is loaded as it was, in whichever frame, and an
\* edited document gives a position that can be, or none (types.cpp:34-83, yaml.cpp:32-70).
THEOREM SavedIsLoaded == Spec => []LoadedIsSaved
<1>1. CodecInv => LoadedIsSaved
  <2> SUFFICES ASSUME CodecInv, NEW v \in PositionRead
               PROVE  LET node == EncodeYaml(v) IN
                      /\ DecodeYaml(node) = <<v>>
                      /\ \A n \in Edited(node) : Range(DecodeYaml(n)) \subseteq Cartesians
    BY DEF LoadedIsSaved
  <2>1. CASE stage = "idle"
    BY <2>1, PositionsRead, SavedAndEdited
  <2>2. CASE stage # "idle"
    <3>1. result.value = << >>
      BY <2>2 DEF CodecInv, InProgress, Ended, Outcome
    <3>2. Range(result.value) = {}
      BY <3>1 DEF Range
    <3> QED
      BY <3>2 DEF PositionRead
  <2> QED
    BY <2>1, <2>2
<1> QED
  BY <1>1, OnTheWay, PTL DEF Inv



-----------------------------------------------------------------------------
(* The store.                                                              *)

StoreDone == stage # "idle" /\ Carried
StoreSeen == IF Command.op = "read" /\ Carried
             THEN [k \in 1 .. Command.count |-> Held[Command.index + k - 1]] ELSE << >>

\* There is none between commands.
LEMMA StoreIdle ==
  /\ stage = "idle" => Command = Nothing /\ ~StoreDone /\ StoreSeen = << >>
  /\ stage' = "idle" => Command' = Nothing /\ ~StoreDone' /\ StoreSeen' = << >>
<1>1. stage = "idle" => Command = Nothing
  BY DEF Command
<1>2. stage' = "idle" => Command' = Nothing
  BY DEF Command
<1>3. Nothing.op # "read" /\ Nothing' = Nothing
  BY DEF Nothing
<1>4. stage = "idle" => ~StoreDone /\ StoreSeen = << >>
  BY <1>1, <1>3 DEF StoreDone, StoreSeen
<1>5. stage' = "idle" => ~StoreDone' /\ StoreSeen' = << >>
  BY <1>2, <1>3 DEF StoreDone, StoreSeen
<1> QED
  BY <1>1, <1>2, <1>4, <1>5

LEMMA StoreBusy ==
  /\ stage # "idle" => Command = ForStore(asked)
  /\ stage' # "idle" => Command' = ForStore(asked')
  BY DEF Command, ForStore

LEMMA StoreOperations ==
  ASSUME NEW c \in Possible(type)
  PROVE  /\ ForStore(c).op \in {"read", "write", "other"}
         /\ ForStore(c).op = "read" <=> c.op \in {"read", "readOne"}
         /\ ForStore(c).op = "read" =>
              ForStore(c).index = c.index /\ ForStore(c).count = Count(c)
         /\ ForStore(c).op = "write" <=> c.op = "write"
         /\ c.op = "write" => ForStore(c) = c
         /\ Does(c) \in {"read", "write", "where", "status", "delete"}
<1>1. c.op \in {"readOne", "read", "write", "where", "status", "moveL", "delete"}
  BY DEF Possible
<1> QED
  BY <1>1 DEF ForStore, Count, Does

\* A step that the store does not see.
LEMMA StoreStutters ==
  ASSUME UNCHANGED <<type, memory, asked, did, result>>, stage # "idle", stage' # "idle"
  PROVE  UNCHANGED Store!vars
<1>1. Held' = Held /\ Command' = Command /\ Carried' = Carried
  BY StoreBusy DEF Held, Carried
<1> QED
  BY <1>1 DEF Store!vars

\* A command that fails, or is refused before it begins.
LEMMA StoreFails ==
  ASSUME UNCHANGED <<type, memory>>, stage' = "idle", result'.outcome # "ok"
  PROVE  Store!Fail
<1>1. Held' = Held
  BY DEF Held
<1> QED
  BY <1>1, StoreIdle DEF Store!Fail, Store!None, Nothing, StoreDone, StoreSeen

\* Sending is asking, or fails.
LEMMA SendIsAsk ==
  ASSUME CodecInv, NEW c \in Possible(type), Send(c)
  PROVE  Store!Ask \/ Store!Fail
<1>1. /\ stage = "idle" /\ asked' = c /\ did' = "nothing"
      /\ UNCHANGED <<type, memory>>
  BY DEF Send, controller
<1>2. CASE Encodes(type, c)
  <2>1. stage' = "sent" /\ result' = [outcome |-> "none", value |-> << >>]
    BY <1>2 DEF Send, Outcome
  <2>2. Command' = ForStore(c) /\ Command'.op # "none"
    <3>1. Command' = ForStore(c)
      BY <1>1, <2>1, StoreBusy
    <3>2. ForStore(c).op # "none"
      BY StoreOperations
    <3> QED
      BY <3>1, <3>2
  <2>3. ~Carried' /\ Held' = Held
    BY <1>1 DEF Carried, Held
  <2>4. Store!Ask
    BY <1>1, <2>1, <2>2, <2>3, StoreIdle DEF Store!Ask, Store!None, Nothing
  <2> QED
    BY <2>4
<1>3. CASE ~Encodes(type, c)
  <2>1. stage' = "idle" /\ result'.outcome # "ok"
    BY <1>1, <1>3 DEF Send, Outcome
  <2> QED
    BY <1>1, <2>1, StoreFails
<1> QED
  BY <1>2, <1>3

LEMMA AnswerIsGiven ==
  ASSUME UNCHANGED <<type, memory>>, stage # "idle", Carried, stage' = "idle",
         result'.outcome = "ok",
         Command.op # "other" =>
           [k \in DOMAIN result'.value |-> <<result'.value[k]>>] = StoreSeen
  PROVE  Store!Answer
<1>1. Held' = Held
  BY DEF Held
<1> QED
  BY <1>1, StoreIdle DEF Store!Answer, Store!None, Nothing, StoreDone, StoreSeen

\* What the controller does, the store does.
LEMMA ServeIsServe ==
  ASSUME CodecInv, ServeRead \/ ServeWrite \/ ServeOther
  PROVE  Store!Read \/ Store!Write \/ Store!Other
<1>1. stage = "sent" /\ stage' = "replied" /\ UNCHANGED <<type, asked, result>>
  BY DEF ServeRead, ServeWrite, ServeOther, Reply
<1>2. type \in Types /\ asked \in Possible(type) /\ did = "nothing"
  BY <1>1, RequestOnTheWay
<1>3. Command = ForStore(asked) /\ Command' = Command /\ ~Carried
  <2>1. Command = ForStore(asked) /\ Command' = ForStore(asked')
    BY <1>1, StoreBusy
  <2> QED
    BY <1>1, <1>2, <2>1 DEF Carried
<1>4. CASE ServeRead
  <2>1. /\ asked.op \in {"read", "readOne"} /\ memory' = memory
        /\ \E p : Reply("read", p)
    BY <1>4, ReadIsDone
  <2>2. Carried' /\ Held' = Held
    BY <1>1, <2>1 DEF Reply, Carried, Held
  <2>3. Command.op = "read"
    BY <1>2, <1>3, <2>1, StoreOperations
  <2>4. Store!Read
    BY <1>1, <1>3, <2>2, <2>3 DEF Store!Read
  <2> QED
    BY <2>4
<1>5. CASE ServeOther
  <2>1. /\ asked.op \in {"where", "moveL", "status", "delete"} /\ memory' = memory
        /\ \E p : Reply(Does(asked), p)
    BY <1>5, OtherIsDone
  <2>2. did' = Does(asked) /\ Held' = Held
    BY <1>1, <2>1 DEF Reply, Held
  <2>3. Carried'
    BY <1>2, <2>2, StoreOperations DEF Carried
  <2>4. Command.op = "other"
    BY <1>2, <1>3, <2>1, StoreOperations
  <2>5. Store!Other
    BY <1>1, <1>3, <2>2, <2>3, <2>4 DEF Store!Other
  <2> QED
    BY <2>5
<1>6. CASE ServeWrite
  <2>1. /\ asked.op = "write" /\ asked.index \in Nat /\ asked.values \in Seq(Encodable(type))
        /\ \A s \in Slots :
              memory'[s] = IF s - asked.index + 1 \in DOMAIN asked.values
                           THEN EncodeValue(type, asked.values[s - asked.index + 1])
                           ELSE memory[s]
        /\ Reply("write", << >>)
    BY <1>6, WriteIsDone
  <2>2. Carried'
    BY <2>1 DEF Reply, Carried
  <2>3. Command = asked
    BY <1>2, <1>3, <2>1, StoreOperations
  <2>4. DOMAIN Held' = Slots
    BY DEF Held
  <2>5. ASSUME NEW s \in Slots
        PROVE  IF s - asked.index + 1 \in DOMAIN asked.values
               THEN Near(asked.values[s - asked.index + 1], Held'[s])
               ELSE Held'[s] = Held[s]
    <3>1. Held'[s] = DecodeValue(type, memory'[s]) /\ Held[s] = DecodeValue(type, memory[s])
      BY <1>1 DEF Held
    <3>2. CASE s - asked.index + 1 \in DOMAIN asked.values
      <4> DEFINE v == asked.values[s - asked.index + 1]
      <4>1. v \in Encodable(type)
        <5>1. DOMAIN asked.values = 1 .. Len(asked.values)
          BY <2>1, LenProperties
        <5> QED
          BY <2>1, <3>2, <5>1, ElementOfSeq
      <4>2. Held'[s] = DecodeValue(type, EncodeValue(type, v))
        BY <2>1, <3>1, <3>2
      <4> HIDE DEF v
      <4>3. Near(v, Held'[s])
        BY <1>2, <4>1, <4>2, NearIsHeld
      <4> QED
        BY <3>2, <4>3 DEF v
    <3>3. CASE s - asked.index + 1 \notin DOMAIN asked.values
      BY <2>1, <3>1, <3>3
    <3> QED
      BY <3>2, <3>3
  <2>6. Store!Write
    BY <1>1, <1>3, <2>1, <2>2, <2>3, <2>4, <2>5 DEF Store!Write
  <2> QED
    BY <2>6
<1> QED
  BY <1>4, <1>5, <1>6

\* What is received is the answer of the store, or a failure, or dropped.
LEMMA ReceiveIsAnswer ==
  ASSUME CodecInv, Receive
  PROVE  Store!Answer \/ Store!Fail \/ UNCHANGED Store!vars
<1>1. /\ stage = "replied" /\ UNCHANGED <<type, memory, asked, did>>
  BY WhatArrives
<1>2. Robot /\ asked \in Possible(type)
  BY <1>1, ReplyOnTheWay
<1>3. CASE stage' = "dropped" /\ result' = result
  BY <1>1, <1>3, StoreStutters
<1>4. CASE stage' = "idle" /\ result' = Outcome("failed")
  <2>1. result'.outcome # "ok"
    BY <1>4 DEF Outcome
  <2> QED
    BY <1>1, <1>4, <2>1, StoreFails
<1>5. ASSUME stage' = "idle", did = Does(asked), InReach(asked),
             NEW p \in Payloads, NEW q \in {p, Front(p), << >>},
             result' = DecodeReply(type, asked, q)
      PROVE  Store!Answer \/ Store!Fail
  <2>1. CASE result'.outcome # "ok"
    BY <1>1, <1>5, <2>1, StoreFails
  <2>2. CASE result'.outcome = "ok"
    <3>1. PICK r : r = DecodeReply(type, asked, q)
      OBVIOUS
    <3>2. /\ asked.op \in {"read", "readOne"} =>
               (r.outcome = "ok" => [k \in DOMAIN r.value |-> <<r.value[k]>>] = Seen(asked))
          /\ asked.op = "write" => r.value = << >>
      BY <1>2, <1>5, <3>1, Replies
    <3>3. result' = r /\ r.outcome = "ok"
      BY <1>5, <2>2, <3>1
    <3>4. Command = ForStore(asked) /\ Carried
      <4>1. Command = ForStore(asked)
        BY <1>1, StoreBusy
      <4> QED
        BY <1>2, <1>5, <4>1, StoreOperations DEF Carried
    <3>5. CASE Command.op = "read"
      <4>1. asked.op \in {"read", "readOne"} /\ Command.index = asked.index /\ Command.count = Count(asked)
        BY <1>2, <3>4, <3>5, StoreOperations
      <4>2. Seen(asked) = StoreSeen
        BY <3>4, <3>5, <4>1 DEF Seen, StoreSeen
      <4> QED
        BY <1>1, <1>5, <3>2, <3>3, <3>4, <4>1, <4>2, AnswerIsGiven
    <3>6. CASE Command.op = "write"
      <4>1. r.value = << >> /\ StoreSeen = << >>
        BY <1>2, <3>2, <3>4, <3>6, StoreOperations DEF StoreSeen
      <4>2. [k \in DOMAIN r.value |-> <<r.value[k]>>] = << >>
        BY <4>1
      <4> QED
        BY <1>1, <1>5, <3>3, <3>4, <4>1, <4>2, AnswerIsGiven
    <3>7. CASE Command.op = "other"
      BY <1>1, <1>5, <3>3, <3>4, <3>7, AnswerIsGiven
    <3> QED
      BY <1>2, <3>4, <3>5, <3>6, <3>7, StoreOperations
  <2> QED
    BY <2>1, <2>2
<1> QED
  BY <1>3, <1>4, <1>5, WhatArrives

\* The encoders, the decoders and the choice between one and many variables
\* (protocol.cpp:170-255) implement a store: what is written is what is read, up to what
\* the units cut off, and success is not reported of anything that was not done.
THEOREM ImplementsStore == Spec => KeepsPromise
<1>1. Init => Store!Init
  <2> SUFFICES ASSUME Init
               PROVE  Store!Init
    OBVIOUS
  <2>1. stage = "idle" /\ result = [outcome |-> "none", value |-> << >>]
    BY DEF Init, Outcome
  <2>2. DOMAIN Held = Slots
    BY DEF Held
  <2> QED
    BY <2>1, <2>2, StoreIdle DEF Store!Init, Store!None, Nothing, StoreDone, StoreSeen
<1>2. Inv /\ [Next]_vars => [Store!Next]_(Store!vars)
  <2> SUFFICES ASSUME Inv, [Next]_vars
               PROVE  Store!Next \/ UNCHANGED Store!vars
    OBVIOUS
  <2>1. CodecInv /\ type \in DOMAIN Writes
    BY DEF Inv
  <2>2. CASE \E c \in Possible(type) : Send(c)
    BY <2>1, <2>2, SendIsAsk DEF Store!Next
  <2>3. CASE Rejected
    <3>1. UNCHANGED <<type, memory>> /\ stage' = "idle" /\ result'.outcome # "ok"
      BY <2>3 DEF Rejected, controller, Outcome
    <3> QED
      BY <3>1, StoreFails DEF Store!Next
  <2>4. CASE ServeRead \/ ServeWrite \/ ServeOther
    BY <2>1, <2>4, ServeIsServe DEF Store!Next
  <2>5. CASE Refuse \/ Spoil
    <3>1. /\ stage # "idle" /\ stage' # "idle"
          /\ UNCHANGED <<type, memory, asked, did, result>>
      BY <2>5 DEF Refuse, Spoil, controller
    <3> QED
      BY <3>1, StoreStutters
  <2>6. CASE Receive
    BY <2>1, <2>6, ReceiveIsAnswer DEF Store!Next
  <2>7. CASE Timeout
    <3>1. UNCHANGED <<type, memory>> /\ stage' = "idle" /\ result'.outcome # "ok"
      BY <2>7 DEF Timeout, controller, Outcome
    <3> QED
      BY <3>1, StoreFails DEF Store!Next
  <2>8. CASE UNCHANGED vars
    <3>1. Held' = Held /\ Command' = Command /\ Carried' = Carried
      BY <2>8 DEF vars, controller, Held, Command, Nothing, Carried
    <3> QED
      BY <2>8, <3>1 DEF vars, Store!vars
  <2> QED
    BY <2>1, <2>2, <2>3, <2>4, <2>5, <2>6, <2>7, <2>8, StepCases
<1> QED
  BY <1>1, <1>2, OnTheWay, PTL DEF Spec, KeepsPromise, Store!Spec

=============================================================================
