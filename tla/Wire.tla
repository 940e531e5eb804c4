-------------------------------- MODULE Wire --------------------------------
(***************************************************************************)
(* The wire format of the commands: what a request carries and what the    *)
(* decoders make of a reply.                                               *)
(*                                                                         *)
(* A payload is a sequence of fields <<width, bits>>: the width in bytes   *)
(* and the bits as a number, unsigned when the width is 1 or 2, and read   *)
(* as an int32 when it is 4.  Coordinates are in tenths of the unit of the *)
(* wire (a micrometre, or 0.0001 degree), to have values between units.    *)
(* A decoder that needs more bytes than the payload has "overruns".        *)
(***************************************************************************)
EXTENDS Integers, Sequences, FiniteSets, SequencesExt

CONSTANT FallsShort  \* by scale: the wire values n for which the double
                     \* (n / scale) * scale is nearer to zero than n

ASSUME FallsShortAssumption == FallsShort \in [{1000, 10000} -> SUBSET (Nat \ {0})]

header_size == \h20
max_payload_size == \h1df
read_buffer_size == 512

-----------------------------------------------------------------------------
(* The checks of error.cpp: TRUE stands for no error.                      *)

expectValue(value, expected) == value = expected
expectValueMax(value, max) == value <= max

\* Mutants: data that is too short, or too long, passes.
expectSizeAtMost(actual, expected) == actual <= expected
expectSizeAtLeast(actual, expected) == actual >= expected

expectSize(actual, expected) == actual = expected
expectSizeMin(actual, min) == actual >= min
expectSizeMax(actual, max) == actual <= max

Decoded(values) == [outcome |-> "ok", value |-> values]
Malformed == [outcome |-> "malformed", value |-> << >>]
Overrun == [outcome |-> "overrun", value |-> << >>]

-----------------------------------------------------------------------------
(* Fields.                                                                 *)

writeLittleEndian(w, v) == <<w, IF w < 4 THEN v % 256^w ELSE v>>

\* The field as a signed integer of its width.
Signed(f) ==
  IF f[1] < 4 /\ 2 * f[2] >= 256^f[1] THEN f[2] - 256^f[1] ELSE f[2]

Unsigned(f) == f[2]

Size(payload) ==
  LET wide(w) == Cardinality({k \in DOMAIN payload : payload[k][1] = w})
  IN  wide(1) + 2 * wide(2) + 4 * wide(4)

Word(v) == writeLittleEndian(4, v)

Bit(f, n) == (f[2] \div 2^n) % 2 = 1

-----------------------------------------------------------------------------
(* Coordinate systems, by their number in the enumeration.                 *)

base == 0
robot == 1
user1 == 2
user16 == 17
tool == 18
master == 19

isUserCoordinateSystem(system) == system \in user1 .. user16

userCoordinateNumber(system) ==
  IF isUserCoordinateSystem(system) THEN system - user1 + 1 ELSE 0

userCoordinateSystem(number) == user1 + number - 1

\* Not for master: encodeFrameType throws.
encodeFrameType(frame) ==
  CASE isUserCoordinateSystem(frame) -> 19
    [] frame = base -> 16
    [] frame = robot -> 17
    [] frame = tool -> 18

\* Mutant: user coordinate systems taken to be numbered from 0.
decodeFrameFromZero(type, number) ==
  CASE type = 16 -> <<base>>
    [] type = 17 -> <<robot>>
    [] type = 18 -> <<tool>>
    [] type = 19 /\ expectValueMax(number, 15) -> <<user1 + number>>
    [] OTHER -> << >>

\* decodeCartesianFrame: << >> is an error.
decodeCartesianFrame(type, number) ==
  CASE type = 16 -> <<base>>
    [] type = 17 -> <<robot>>
    [] type = 18 -> <<tool>>
    [] type = 19 /\ expectValueMax(number, 15) -> <<userCoordinateSystem(number)>>
    [] OTHER -> << >>

\* Not for master: systemToMoveLSystem throws.
systemToMoveLSystem(frame) ==
  CASE frame = base -> 16
    [] frame = robot -> 17
    [] isUserCoordinateSystem(frame) -> 18
    [] frame = tool -> 19

-----------------------------------------------------------------------------
(* Values.                                                                 *)

\* What the int and std::int32_t of the code can represent.
MinInt == -(2^30) - 2^30
MaxInt == 2^30 - 1 + 2^30
Int32 == MinInt .. MaxInt

Scale(axis) == IF axis <= 3 THEN 1000 ELSE 10000

\* In whole units of the wire: towards zero.
Truncated(coordinate) ==
  IF coordinate < 0 THEN -((-coordinate) \div 10) ELSE coordinate \div 10

\* What may be given: beyond it the conversion of the double is undefined.
Coordinates == {c \in Int : Truncated(c) \in Int32}

\* The double is multiplied by the scale and cut off to an int32.
Fixed(coordinate, axis) ==
  LET size == IF coordinate < 0 THEN -coordinate ELSE coordinate
      cut == size \div 10
      units == IF size % 10 = 0 /\ cut \in FallsShort[Scale(axis)] THEN cut - 1 ELSE cut
  IN  IF coordinate < 0 THEN -units ELSE units

encodePulse(p) ==
  <<Word(0), Word(0), Word(p.tool), Word(0), Word(0)>>
    \o [i \in 1 .. 8 |-> Word(IF i \in DOMAIN p.joints THEN p.joints[i] ELSE 0)]

encodeCartesian(p) ==
  <<Word(encodeFrameType(p.frame)), Word(p.configuration), Word(p.tool),
    Word(userCoordinateNumber(p.frame)), Word(0)>>
    \o [i \in 1 .. 6 |-> Word(Fixed(p.coordinates[i], i))] \o <<Word(0), Word(0)>>

\* The configuration is cut to a byte and then to the six bits of a bitset.
decodePosition(d) ==
  LET frame == decodeCartesianFrame(Signed(d[1]), Signed(d[4]))
  IN
  IF Unsigned(d[1]) = 0
  THEN <<[kind |-> "pulse", tool |-> Signed(d[3]), joints |-> [i \in 1 .. 8 |-> Signed(d[5 + i])]]>>
  ELSE [k \in DOMAIN frame |->
         [kind |-> "cartesian", frame |-> frame[k], configuration |-> Unsigned(d[2]) % 64,
          tool |-> Signed(d[3]), coordinates |-> [i \in 1 .. 6 |-> 10 * Signed(d[5 + i])]]]

\* By type of variable: VAR_TRAITS.
Types == {"uint8", "int16", "int32", "float", "position"}

encoded_size == [uint8 |-> 1, int16 |-> 2, int32 |-> 4, float |-> 4, position |-> 52]
single_command == [uint8 |-> \h7a, int16 |-> \h7b, int32 |-> \h7c, float |-> \h7d, position |-> \h7f]
multiple_command ==
  [uint8 |-> \h302, int16 |-> \h303, int32 |-> \h304, float |-> \h305, position |-> \h307]

\* Up to eight joints; a Position is one without any when nothing else is given.
Pulses ==
  [kind : {"pulse"}, tool : Int32, joints : {j \in Seq(Int32) : Len(j) <= 8}]

Configurations == 0 .. 63

\* Any coordinate system; six bits of configuration.
Cartesians ==
  [kind : {"cartesian"}, frame : base .. master, configuration : Configurations,
   tool : Int32, coordinates : [1 .. 6 -> Coordinates]]

\* What a variable of each type may be given.
ValuesOf(t) ==
  CASE t = "uint8" -> 0 .. 255
    [] t = "int16" -> -(2^15) .. 2^15 - 1
    [] t = "position" -> Pulses \union Cartesians
    [] OTHER -> Int32

\* A float is given by its bits.
EncodeValue(t, v) ==
  IF t # "position" THEN <<writeLittleEndian(encoded_size[t], v)>>
  ELSE IF v.kind = "pulse" THEN encodePulse(v) ELSE encodeCartesian(v)

\* The fields of one value; << >> for a value that is refused.
DecodeValue(t, d) ==
  CASE t = "position" -> decodePosition(d)
    [] t = "uint8" -> <<Unsigned(d[1])>>
    [] OTHER -> <<Signed(d[1])>>

FieldsOf(t) == IF t = "position" THEN 13 ELSE 1

\* The fields of many values, one value after the other.
Joined(t, values) ==
  [i \in 1 .. Len(values) * FieldsOf(t) |->
    values[(i - 1) \div FieldsOf(t) + 1][((i - 1) % FieldsOf(t)) + 1]]

\* n values, one after the other.
DecodeValues(t, n, data) ==
  LET Part(k) == SubSeq(data, (k - 1) * FieldsOf(t) + 1, k * FieldsOf(t))
  IN  IF Size(data) < n * encoded_size[t] THEN Overrun
      ELSE IF \E k \in 1 .. n : DecodeValue(t, Part(k)) = << >> THEN Malformed
      ELSE Decoded([k \in 1 .. n |-> DecodeValue(t, Part(k))[1]])

-----------------------------------------------------------------------------
(* Commands to requests.                                                   *)

get_all == \h01
set_all == \h02
read_multiple == \h33
write_multiple == \h34
read_status_information == \h72
read_robot_position == \h75
delete_file == \h09

\* The header as it is encoded, its numbers cut to their width; and the payload.
Request(size, division, command, instance, attribute, service, payload) ==
  [magic |-> TRUE, header_size |-> header_size, payload_size |-> size % 2^16,
   division |-> division, ack |-> 0, command |-> command % 2^16,
   instance |-> instance % 2^16, attribute |-> attribute % 2^8, service |-> service,
   payload |-> payload]

makeRobotRequest(size, command, instance, attribute, service, payload) ==
  Request(size, "robot", command, instance, attribute, service, payload)

makeFileRequest(size, service, payload) == Request(size, "file", 0, 0, 0, service, payload)

encodeReadVar(t, index) ==
  makeRobotRequest(0, single_command[t], index, 0, get_all, << >>)

\* Mutant: no exception for one variable.
encodeReadVarsAlways(t, index, count) ==
  makeRobotRequest(4, multiple_command[t], index, 0, read_multiple, <<Word(count)>>)

encodeReadVars(t, index, count) ==
  IF count = 1 THEN encodeReadVar(t, index)
  ELSE makeRobotRequest(4, multiple_command[t], index, 0, read_multiple, <<Word(count)>>)

\* WriteVars of one value is encoded as WriteVar is.
encodeWriteVars(t, index, values) ==
  LET encoded == Joined(t, [k \in DOMAIN values |-> EncodeValue(t, values[k])])
  IN
  IF Len(values) = 1
  THEN makeRobotRequest(encoded_size[t], single_command[t], index, 0, set_all, encoded)
  ELSE makeRobotRequest(4 + Len(values) * encoded_size[t], multiple_command[t], index, 0,
                        write_multiple, <<Word(Len(values))>> \o encoded)

\* Mutant: the instances of stations follow those of bases one too early.
PositionInstancesEarly ==
  [robot_pulse |-> 1, base_pulse |-> 11, station_pulse |-> 20, robot_cartesian |-> 101]

\* What is added to the control group, by the type of coordinate system.
PositionInstances ==
  [robot_pulse |-> 1, base_pulse |-> 11, station_pulse |-> 21, robot_cartesian |-> 101]

encodeReadCurrentPosition(group, system) ==
  makeRobotRequest(0, read_robot_position, group + PositionInstances[system], 0, get_all, << >>)

encodeReadStatus == makeRobotRequest(0, read_status_information, 1, 0, get_all, << >>)

\* MoveL has the command number and the service of ReadCurrentPosition.
encodeMoveL(group, speed, target) ==
  makeRobotRequest(26 * 4, read_robot_position, 2, 1, get_all,
    <<Word(group + 1), Word(0), Word(speed.type), Word(speed.value),
      Word(systemToMoveLSystem(target.frame))>>
      \o [i \in 1 .. 6 |-> Word(Fixed(target.coordinates[i], i))]
      \o <<Word(0), Word(0), Word(target.configuration), Word(0), Word(target.tool),
           Word(userCoordinateNumber(target.frame))>>
      \o [i \in 1 .. 9 |-> Word(0)])

\* A name is one byte here.
encodeDeleteFile(name) ==
  makeFileRequest(1, delete_file, <<writeLittleEndian(1, name)>>)

\* encode throws for the master coordinate system.
Encodes(t, c) ==
  /\ c.op = "moveL" => c.target.frame # master
  /\ c.op = "write" /\ t = "position" =>
       \A k \in DOMAIN c.values : c.values[k].kind = "cartesian" => c.values[k].frame # master

\* The request for command c, on variables of type t.
EncodeCommand(t, c) ==
  CASE c.op = "readOne" -> encodeReadVar(t, c.index)
    [] c.op = "read" -> encodeReadVars(t, c.index, c.count)
    [] c.op = "write" -> encodeWriteVars(t, c.index, c.values)
    [] c.op = "where" -> encodeReadCurrentPosition(c.group, c.system)
    [] c.op = "status" -> encodeReadStatus
    [] c.op = "moveL" -> encodeMoveL(c.group, c.speed, c.target)
    [] c.op = "delete" -> encodeDeleteFile(c.name)

-----------------------------------------------------------------------------
(* Replies.                                                                *)

\* d.size is the number of bytes that were received.
decodeResponseHeader(d) ==
  IF ~expectSizeMin(d.size, header_size) THEN Malformed
  ELSE IF d.size < header_size THEN Overrun
  ELSE IF /\ d.magic
          /\ expectValue(d.header_size, header_size)
          /\ expectValueMax(d.payload_size, max_payload_size)
          /\ expectValue(d.ack, 1)
          /\ d.size = header_size + d.payload_size
       THEN Decoded(<<d.status>>)
       ELSE Malformed

decodeReadVar(t, data) ==
  IF expectSize(Size(data), encoded_size[t]) THEN DecodeValues(t, 1, data) ELSE Malformed

\* Many values come after their number.
decodeReadVars(t, count, data) ==
  IF count = 1 THEN decodeReadVar(t, data)
  ELSE IF ~expectSize(Size(data), 4 + count * encoded_size[t]) THEN Malformed
  ELSE IF Size(data) < 4 THEN Overrun
  ELSE IF ~expectValue(Unsigned(data[1]), count) THEN Malformed
  ELSE DecodeValues(t, count, Tail(data))

\* The replies to writes, to MoveL and to DeleteFile.
decodeNothing(data) == IF expectSize(Size(data), 0) THEN Decoded(<< >>) ELSE Malformed

\* The byte and the bit of each flag of Status.
StatusFlags ==
  [step |-> <<1, 0>>, one_cycle |-> <<1, 1>>, continuous |-> <<1, 2>>, running |-> <<1, 3>>,
   speed_limited |-> <<1, 4>>, teach |-> <<1, 5>>, play |-> <<1, 6>>, remote |-> <<1, 7>>,
   teach_pendant_hold |-> <<5, 1>>, external_hold |-> <<5, 2>>, command_hold |-> <<5, 3>>,
   alarm |-> <<5, 4>>, error |-> <<5, 5>>, servo_on |-> <<5, 6>>]

decodeStatus(data) ==
  IF ~expectSize(Size(data), 8) THEN Malformed
  ELSE Decoded(<<{f \in DOMAIN StatusFlags : Bit(data[StatusFlags[f][1]], StatusFlags[f][2])}>>)

\* A position may come with fewer words; the rest are zero.
decodeCurrentPosition(data) ==
  IF ~expectSizeMax(Size(data), 13 * 4) THEN Malformed
  ELSE DecodeValues("position", 1, data \o [k \in 1 .. 13 - Len(data) |-> Word(0)])

DecodeReply(t, c, data) ==
  CASE c.op = "readOne" -> decodeReadVar(t, data)
    [] c.op = "read" -> decodeReadVars(t, c.count, data)
    [] c.op \in {"write", "moveL", "delete"} -> decodeNothing(data)
    [] c.op = "status" -> decodeStatus(data)
    [] c.op = "where" -> decodeCurrentPosition(data)

=============================================================================
