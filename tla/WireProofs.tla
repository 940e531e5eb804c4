----------------------------- MODULE WireProofs -----------------------------
(***************************************************************************)
(* What the encodings of Wire and Text keep of a value, for every value,   *)
(* and that no decoder reads past its data.                                *)
(***************************************************************************)
EXTENDS Text, SequenceTheorems, FiniteSetTheorems, TLAPS

\* decodeCartesianFrame inverts encodeFrameType and userCoordinateNumber on every frame
\* that can be encoded, but for the last user frame, which is refused.
THEOREM FrameRoundTrip ==
  ASSUME NEW f \in base .. tool
  PROVE  decodeCartesianFrame(encodeFrameType(f), userCoordinateNumber(f))
           = IF f = user16 THEN << >> ELSE <<f>>
<1> USE DEF base, robot, user1, user16, tool
<1>1. CASE isUserCoordinateSystem(f)
  <2>1. encodeFrameType(f) = 19
    BY <1>1 DEF encodeFrameType, isUserCoordinateSystem
  <2>2. userCoordinateNumber(f) = f - 1 /\ f \in 2 .. 17
    BY <1>1 DEF userCoordinateNumber, isUserCoordinateSystem
  <2>3. expectValueMax(f - 1, 15) <=> f # 17
    BY <2>2 DEF expectValueMax
  <2>4. userCoordinateSystem(f - 1) = f
    BY <2>2 DEF userCoordinateSystem
  <2> QED
    BY <2>1, <2>2, <2>3, <2>4 DEF decodeCartesianFrame
<1>2. CASE ~isUserCoordinateSystem(f)
  <2>1. f \in {0, 1, 18}
    BY <1>2 DEF isUserCoordinateSystem
  <2>2. CASE f = 0
    BY <1>2, <2>2 DEF encodeFrameType, decodeCartesianFrame
  <2>3. CASE f = 1
    BY <1>2, <2>3 DEF encodeFrameType, decodeCartesianFrame
  <2>4. CASE f = 18
    BY <1>2, <2>4 DEF encodeFrameType, decodeCartesianFrame
  <2> QED
    BY <2>1, <2>2, <2>3, <2>4
<1> QED
  BY <1>1, <1>2

\* A coordinate that is encoded loses less than the unit it is cut off to, or one unit
\* where the product of doubles falls short, and never changes its sign.
THEOREM FixedIsNear ==
  ASSUME NEW c \in Int, NEW axis \in 1 .. 6
  PROVE  /\ Fixed(c, axis) \in Int
         /\ c >= 0 => 10 * Fixed(c, axis) \in c - 10 .. c /\ Fixed(c, axis) >= 0
         /\ c <= 0 => 10 * Fixed(c, axis) \in c .. c + 10 /\ Fixed(c, axis) <= 0
<1> DEFINE size == IF c < 0 THEN -c ELSE c
           cut == size \div 10
           units == IF size % 10 = 0 /\ cut \in FallsShort[Scale(axis)] THEN cut - 1 ELSE cut
<1>1. FallsShort[Scale(axis)] \subseteq Nat \ {0}
  BY FallsShortAssumption DEF Scale
<1>2. size \in Nat
  OBVIOUS
<1>3. cut \in Nat /\ 10 * cut =< size /\ size < 10 * cut + 10 /\ (size % 10 = 0 => size = 10 * cut)
  <2> HIDE DEF size
  <2> QED
    BY <1>2
<1>4. units \in Nat /\ 10 * units =< size /\ size =< 10 * units + 10
  <2> HIDE DEF size, cut
  <2> QED
    BY <1>1, <1>3, <1>2
<1>5. Fixed(c, axis) = IF c < 0 THEN -units ELSE units
  BY DEF Fixed
<1> QED
  <2> HIDE DEF units
  <2> QED
    BY <1>4, <1>5

\* An int32 holds the numbers that the encoders put in a field themselves.
LEMMA Int32Facts ==
  /\ MinInt \in Int /\ MinInt < 0
  /\ MaxInt \in Int /\ MaxInt > 65535
<1>1. MinInt \in Int /\ MinInt < 0
  BY SMT DEF MinInt
<1>2. MaxInt \in Int /\ MaxInt > 65535
  BY SMT DEF MaxInt
<1> QED
  BY <1>1, <1>2

LEMMA Int32IsInt == Int32 \subseteq Int
  BY Int32Facts DEF Int32

\* A coordinate that may be given fits into an int32 once it is encoded, and what is
\* decoded may be given again.
LEMMA CoordinateFits ==
  /\ Coordinates \subseteq Int
  /\ \A c \in Coordinates, axis \in 1 .. 6 : Fixed(c, axis) \in Int32
  /\ \A n \in Int32 : 10 * n \in Coordinates
<1>1. Coordinates \subseteq Int
  BY DEF Coordinates
<1>2. ASSUME NEW c \in Coordinates, NEW axis \in 1 .. 6
      PROVE  Fixed(c, axis) \in Int32
  <2> DEFINE n == Fixed(c, axis)
  <2>1. c \in Int /\ Truncated(c) \in Int32
    BY DEF Coordinates
  <2>2. /\ n \in Int
        /\ c >= 0 => 10 * n \in c - 10 .. c /\ n >= 0
        /\ c <= 0 => 10 * n \in c .. c + 10 /\ n <= 0
    BY <2>1, FixedIsNear
  <2> HIDE DEF n
  <2>3. CASE c >= 0
    <3>1. Truncated(c) = c \div 10
      BY <2>1, <2>3 DEF Truncated
    <3>2. 0 <= n /\ n <= c \div 10
      BY <2>1, <2>2, <2>3
    <3> QED
      BY <2>1, <3>1, <3>2, <2>2, Int32Facts DEF n, Int32
  <2>4. CASE c < 0
    <3>1. Truncated(c) = -((-c) \div 10)
      BY <2>1, <2>4 DEF Truncated
    <3>2. n <= 0 /\ -n <= (-c) \div 10
      BY <2>1, <2>2, <2>4
    <3> QED
      BY <2>1, <3>1, <3>2, <2>2, Int32Facts DEF n, Int32
  <2> QED
    BY <2>1, <2>3, <2>4 DEF n
<1>3. ASSUME NEW n \in Int32
      PROVE  10 * n \in Coordinates
  <2>1. n \in Int
    BY Int32IsInt
  <2>2. Truncated(10 * n) = n
    <3>1. CASE n >= 0
      BY <2>1, <3>1 DEF Truncated
    <3>2. CASE n < 0
      <4>1. (-(10 * n)) \div 10 = -n
        BY <2>1, <3>2
      <4>2. Truncated(10 * n) = -((-(10 * n)) \div 10)
        BY <2>1, <3>2 DEF Truncated
      <4> QED
        BY <2>1, <4>1, <4>2
    <3> QED
      BY <2>1, <3>1, <3>2
  <2> QED
    BY <2>1, <2>2 DEF Coordinates
<1> QED
  BY <1>1, <1>2, <1>3

-----------------------------------------------------------------------------

LEMMA UserNamesDiffer ==
  ASSUME NEW m \in 1 .. 16, NEW n \in 1 .. 16, UserNames[m] = UserNames[n]
  PROVE  m = n
BY DEF UserNames

\* The names of frames are told apart: toCoordinateSystem inverts toString on all of
\* the twenty frames (types.cpp:34-83), whichever of them a caller saves.
THEOREM NamesRoundTrip ==
  ASSUME NEW f \in base .. master
  PROVE  toCoordinateSystem(toString(f)) = <<f>>
<1> USE DEF base, robot, user1, tool, master
<1>1. CASE f \in {0, 1, 18, 19}
  <2>1. \A n \in 1 .. 16 : UserNames[n] \notin {"base", "robot", "tool", "master"}
    BY DEF UserNames
  <2>2. CASE f = 0
    <3>1. toString(f) = "base"
      BY <2>2 DEF toString
    <3> QED
      BY <2>1, <2>2, <3>1 DEF toCoordinateSystem
  <2>3. CASE f = 1
    <3>1. toString(f) = "robot"
      BY <2>3 DEF toString
    <3> QED
      BY <2>1, <2>3, <3>1 DEF toCoordinateSystem
  <2>4. CASE f = 18
    <3>1. toString(f) = "tool"
      BY <2>4 DEF toString
    <3> QED
      BY <2>1, <2>4, <3>1 DEF toCoordinateSystem
  <2>5. CASE f = 19
    <3>1. toString(f) = "master"
      BY <2>5 DEF toString
    <3> QED
      BY <2>1, <2>5, <3>1 DEF toCoordinateSystem
  <2> QED
    BY <1>1, <2>2, <2>3, <2>4, <2>5
<1>2. CASE f \in 2 .. 17
  <2> DEFINE n == f - 1
  <2>1. n \in 1 .. 16 /\ f = 1 + n
    BY <1>2
  <2>2. toString(f) = UserNames[n]
    BY <1>2 DEF toString
  <2>3. UserNames[n] \notin {"base", "robot", "tool", "master"}
    BY <2>1 DEF UserNames
  <2>4. \A m \in 1 .. 16 : UserNames[m] = UserNames[n] <=> m = n
    BY <2>1, UserNamesDiffer
  <2>5. (CHOOSE m \in 1 .. 16 : UserNames[m] = UserNames[n]) = n
    BY <2>1, <2>4
  <2> HIDE DEF n
  <2>6. toCoordinateSystem(UserNames[n]) = <<2 + n - 1>>
    BY <2>1, <2>3, <2>5 DEF toCoordinateSystem
  <2> QED
    BY <2>1, <2>2, <2>6
<1> QED
  BY <1>1, <1>2

Keys == {"x", "y", "z", "rx", "ry", "rz", "frame", "configuration", "tool"}

LEMMA NineKeys == Cardinality(Keys) = 9
<1> DEFINE A == {"x", "y", "z"}
           B == {"rx", "ry", "rz"}
           C == {"frame", "configuration", "tool"}
<1>1. \A a, b, c : a # b /\ a # c /\ b # c =>
        IsFiniteSet({a, b, c}) /\ Cardinality({a, b, c}) = 3
  <2> SUFFICES ASSUME NEW a, NEW b, NEW c, a # b, a # c, b # c
               PROVE  IsFiniteSet({a, b, c}) /\ Cardinality({a, b, c}) = 3
    OBVIOUS
  <2>1. IsFiniteSet({a}) /\ Cardinality({a}) = 1
    BY FS_Singleton
  <2>2. IsFiniteSet({a} \union {b}) /\ Cardinality({a} \union {b}) = 2
    BY <2>1, FS_AddElement
  <2>3. IsFiniteSet(({a} \union {b}) \union {c}) /\ Cardinality(({a} \union {b}) \union {c}) = 3
    BY <2>2, FS_AddElement
  <2>4. ({a} \union {b}) \union {c} = {a, b, c}
    OBVIOUS
  <2> QED
    BY <2>3, <2>4
<1>2. /\ IsFiniteSet(A) /\ Cardinality(A) = 3
      /\ IsFiniteSet(B) /\ Cardinality(B) = 3
      /\ IsFiniteSet(C) /\ Cardinality(C) = 3
  BY <1>1
<1>3. A \cap B = {} /\ (A \union B) \cap C = {} /\ (A \union B) \union C = Keys
  BY DEF Keys
<1>4. IsFiniteSet(A \union B) /\ Cardinality(A \union B) = 6
  BY <1>2, <1>3, FS_Union, FS_EmptySet
<1>5. Cardinality((A \union B) \union C) = 9
  BY <1>2, <1>3, <1>4, FS_Union, FS_EmptySet
<1> QED
  BY <1>3, <1>5

\* A Cartesian position that is saved as YAML is loaded as it was, whatever its frame,
\* configuration, tool and coordinates (yaml.cpp:32-60).
THEOREM YamlRoundTrip ==
  ASSUME NEW f \in base .. master, NEW c \in 0 .. 63, NEW t,
         NEW xs \in [1 .. 6 -> Int],
         NEW p, p = [kind |-> "cartesian", frame |-> f, configuration |-> c, tool |-> t,
                     coordinates |-> xs]
  PROVE  DecodeYaml(EncodeYaml(p)) = <<p>>
<1> DEFINE node == EncodeYaml(p)
           name == toString(f)
           frame == toCoordinateSystem(node["frame"])
           q == [kind |-> "cartesian", frame |-> f, configuration |-> (c % 256) % 64,
                 tool |-> t, coordinates |-> [i \in 1 .. 6 |-> node[Axes[i]]]]
<1>1. node = [x |-> xs[1], y |-> xs[2], z |-> xs[3], rx |-> xs[4], ry |-> xs[5], rz |-> xs[6],
              frame |-> name, configuration |-> c, tool |-> t]
  BY DEF EncodeYaml
<1>2. DOMAIN node = Keys
  <2> HIDE DEF name
  <2> QED BY <1>1 DEF Keys
<1>3. node["frame"] = name /\ node["configuration"] = c /\ node["tool"] = t
  <2> HIDE DEF name
  <2> QED BY <1>1
<1>4. [i \in 1 .. 6 |-> node[Axes[i]]] = xs
  <2>1. \A i \in 1 .. 6 : node[Axes[i]] = xs[i]
    <3> HIDE DEF name
    <3> QED BY <1>1 DEF Axes
  <2> HIDE DEF node
  <2> QED BY <2>1
<1>5. frame = <<f>>
  <2> HIDE DEF node
  <2> QED BY <1>3, NamesRoundTrip
<1>6. (c % 256) % 64 = c
  OBVIOUS
<1>7. q = p
  <2> HIDE DEF node
  <2> QED BY <1>4, <1>6
<1>8. ~ (\/ Cardinality(DOMAIN node) # 9
         \/ ~ (Range(Axes) \union {"frame", "configuration", "tool"} \subseteq DOMAIN node))
  <2>1. Range(Axes) = {"x", "y", "z", "rx", "ry", "rz"}
    BY DEF Axes, Range
  <2> HIDE DEF node
  <2> QED BY <1>2, <2>1, NineKeys DEF Keys
<1>9. DecodeYaml(node) = [k \in DOMAIN frame |->
             [kind |-> "cartesian", frame |-> frame[k],
              configuration |-> (node["configuration"] % 256) % 64, tool |-> node["tool"],
              coordinates |-> [i \in 1 .. 6 |-> node[Axes[i]]]]]
  <2> HIDE DEF node
  <2> QED BY <1>8 DEF DecodeYaml
<1>10. DecodeYaml(node) = [k \in {1} |-> q]
  <2> HIDE DEF node
  <2> QED BY <1>9, <1>5, <1>3
<1> QED
  BY <1>10, <1>7

-----------------------------------------------------------------------------
(* Documents and requests.                                                 *)

\* Every name that is understood is that of a frame.
LEMMA NamedFrames ==
  ASSUME NEW string, NEW f \in Range(toCoordinateSystem(string))
  PROVE  f \in base .. master
<1> USE DEF base, robot, user1, tool, master
<1>1. CASE \E n \in 1 .. 16 : UserNames[n] = string
  <2> DEFINE n == CHOOSE n \in 1 .. 16 : UserNames[n] = string
  <2>1. n \in 1 .. 16
    BY <1>1
  <2> HIDE DEF n
  <2>2. toCoordinateSystem(string) \in {<<0>>, <<1>>, <<18>>, <<19>>, <<2 + n - 1>>}
    BY <1>1 DEF toCoordinateSystem, n
  <2>3. f \in {0, 1, 18, 19, 2 + n - 1}
    BY <2>2 DEF Range
  <2> QED
    BY <2>1, <2>3
<1>2. CASE ~ \E n \in 1 .. 16 : UserNames[n] = string
  <2>1. toCoordinateSystem(string) \in {<<0>>, <<1>>, <<18>>, <<19>>, << >>}
    BY <1>2 DEF toCoordinateSystem
  <2> QED
    BY <2>1 DEF Range
<1> QED
  BY <1>1, <1>2

Operations == {"readOne", "read", "write", "where", "status", "moveL", "delete"}

\* The size of a payload of fields of one width.
LEMMA SizeOfFields ==
  ASSUME NEW width \in {1, 2, 4}, NEW S, \A f \in S : f[1] = width, NEW q \in Seq(S)
  PROVE  Size(q) = width * Len(q)
<1>1. Len(q) \in Nat /\ DOMAIN q = 1 .. Len(q) /\ \A k \in DOMAIN q : q[k][1] = width
  BY LenProperties, ElementOfSeq
<1> DEFINE wide(w) == {k \in DOMAIN q : q[k][1] = w}
<1>2. \A w : wide(w) = IF w = width THEN 1 .. Len(q) ELSE {}
  BY <1>1
<1>3. Cardinality({}) = 0 /\ Cardinality(1 .. Len(q)) = Len(q)
  <2>1. 1 \in Int /\ Len(q) \in Int /\ Len(q) >= 0
    BY <1>1
  <2>2. Cardinality(1 .. Len(q)) = IF 1 > Len(q) THEN 0 ELSE Len(q) - 1 + 1
    BY <2>1, FS_Interval
  <2> QED
    BY <2>1, <2>2, FS_EmptySet
<1>4. Size(q) = Cardinality(wide(1)) + 2 * Cardinality(wide(2)) + 4 * Cardinality(wide(4))
  BY DEF Size
<1> HIDE DEF wide
<1>5. \A w : Cardinality(wide(w)) = IF w = width THEN Len(q) ELSE 0
  BY <1>2, <1>3
<1>6. CASE width = 1
  BY <1>1, <1>4, <1>5, <1>6
<1>7. CASE width = 2
  BY <1>1, <1>4, <1>5, <1>7
<1>8. CASE width = 4
  BY <1>1, <1>4, <1>5, <1>8
<1> QED
  BY <1>6, <1>7, <1>8

LEMMA SizeOfWords ==
  ASSUME NEW S, \A w \in S : w[1] = 4, NEW q \in Seq(S)
  PROVE  Size(q) = 4 * Len(q)
BY SizeOfFields

-----------------------------------------------------------------------------
(* No decoder reads past the end of the data.                              *)

Fields == {1, 2, 4} \X Int

\* The size of a payload is that of its first field and of the rest.
LEMMA TailSize ==
  ASSUME NEW q \in Seq(Fields), q # << >>
  PROVE  /\ Size(q) \in Nat /\ Size(Tail(q)) \in Nat
         /\ q[1][1] \in {1, 2, 4} /\ Size(q) = Size(Tail(q)) + q[1][1]
<1> DEFINE wide(w) == {k \in DOMAIN q : q[k][1] = w}
           left(w) == {k \in DOMAIN Tail(q) : Tail(q)[k][1] = w}
<1>1. /\ Len(q) \in Nat /\ DOMAIN q = 1 .. Len(q) /\ Len(q) >= 1
      /\ DOMAIN Tail(q) = 1 .. Len(q) - 1
      /\ \A k \in 1 .. Len(q) - 1 : Tail(q)[k] = q[k + 1]
  <2>1. Tail(q) \in Seq(Fields) /\ Len(Tail(q)) = Len(q) - 1
        /\ \A k \in 1 .. Len(Tail(q)) : Tail(q)[k] = q[k + 1]
    BY HeadTailProperties
  <2> QED
    BY <2>1, LenProperties, EmptySeq
<1>2. ASSUME NEW w
      PROVE  /\ IsFiniteSet(wide(w)) /\ IsFiniteSet(left(w))
             /\ Cardinality(wide(w)) = Cardinality(left(w)) + IF q[1][1] = w THEN 1 ELSE 0
  <2> DEFINE f == [k \in left(w) |-> k + 1]
  <2>1. left(w) \subseteq 1 .. Len(q) - 1 /\ wide(w) \subseteq 1 .. Len(q)
    BY <1>1
  <2>2. IsFiniteSet(left(w)) /\ IsFiniteSet(wide(w))
    <3>1. Len(q) \in Int /\ Len(q) - 1 \in Int /\ 1 \in Int
      BY <1>1
    <3>2. IsFiniteSet(1 .. Len(q) - 1) /\ IsFiniteSet(1 .. Len(q))
      BY <3>1, FS_Interval
    <3> QED
      BY <2>1, <3>2, FS_Subset
  <2>3. f \in Bijection(left(w), wide(w) \ {1})
    <3>1. \A k \in left(w) : k + 1 \in wide(w) \ {1}
      BY <1>1, <2>1
    <3>2. \A j \in wide(w) \ {1} : j - 1 \in left(w) /\ j - 1 + 1 = j
      BY <1>1, <2>1
    <3>3. \A j, k \in left(w) : j + 1 = k + 1 => j = k
      BY <2>1
    <3> HIDE DEF wide, left
    <3>4. f \in [left(w) -> wide(w) \ {1}]
      BY <3>1
    <3>5. f \in Injection(left(w), wide(w) \ {1})
      BY <3>3, <3>4 DEF Injection, IsInjective
    <3>6. f \in Surjection(left(w), wide(w) \ {1})
      BY <3>2, <3>4 DEF Surjection
    <3> QED
      BY <3>5, <3>6 DEF Bijection
  <2>4. 1 \in wide(w) <=> q[1][1] = w
    BY <1>1
  <2> HIDE DEF wide, left, f
  <2>5. Cardinality(wide(w) \ {1}) = Cardinality(left(w))
    BY <2>2, <2>3, FS_Bijection DEF ExistsBijection
  <2>6. Cardinality(wide(w) \ {1})
          = IF 1 \in wide(w) THEN Cardinality(wide(w)) - 1 ELSE Cardinality(wide(w))
    BY <2>2, FS_RemoveElement
  <2>7. Cardinality(wide(w)) \in Nat /\ Cardinality(left(w)) \in Nat
    BY <2>2, FS_CardinalityType
  <2> QED
    BY <2>2, <2>4, <2>5, <2>6, <2>7
<1>3. \A w : Cardinality(wide(w)) \in Nat /\ Cardinality(left(w)) \in Nat
  <2> HIDE DEF wide, left
  <2> QED
    BY <1>2, FS_CardinalityType
<1>4. /\ Size(q) = Cardinality(wide(1)) + 2 * Cardinality(wide(2)) + 4 * Cardinality(wide(4))
      /\ Size(Tail(q)) = Cardinality(left(1)) + 2 * Cardinality(left(2)) + 4 * Cardinality(left(4))
  BY DEF Size
<1>5. q[1][1] \in {1, 2, 4}
  <2>1. q[1] \in Fields
    BY <1>1, ElementOfSeq
  <2> QED
    BY <2>1 DEF Fields
<1> HIDE DEF wide, left
<1>6. \A w : Cardinality(wide(w)) = Cardinality(left(w)) + IF q[1][1] = w THEN 1 ELSE 0
  BY <1>2
<1>7. PICK a \in Nat, b \in Nat, c \in Nat :
        Cardinality(left(1)) = a /\ Cardinality(left(2)) = b /\ Cardinality(left(4)) = c
  BY <1>3
<1>8. Size(Tail(q)) = a + 2 * b + 4 * c
  BY <1>4, <1>7
<1>9. Size(q) = (a + IF q[1][1] = 1 THEN 1 ELSE 0) + 2 * (b + IF q[1][1] = 2 THEN 1 ELSE 0)
                  + 4 * (c + IF q[1][1] = 4 THEN 1 ELSE 0)
  BY <1>4, <1>6, <1>7
<1>10. Size(q) = a + 2 * b + 4 * c + q[1][1]
  <2>1. CASE q[1][1] = 1
    BY <1>9, <2>1
  <2>2. CASE q[1][1] = 2
    BY <1>9, <2>2
  <2>3. CASE q[1][1] = 4
    BY <1>9, <2>3
  <2> QED
    BY <1>5, <2>1, <2>2, <2>3
<1> QED
  BY <1>5, <1>8, <1>10

LEMMA EnoughForAll ==
  ASSUME NEW t, NEW n, NEW data, Size(data) \in Int, n * encoded_size[t] \in Int,
         Size(data) >= n * encoded_size[t]
  PROVE  DecodeValues(t, n, data).outcome # "overrun"
<1>1. ~(Size(data) < n * encoded_size[t])
  OBVIOUS
<1>2. DecodeValues(t, n, data) = Malformed \/ \E v : DecodeValues(t, n, data) = Decoded(v)
  BY <1>1 DEF DecodeValues
<1> QED
  BY <1>2 DEF Malformed, Decoded

\* No decoder reads past the end of the data, of whatever type and however many values,
\* whatever the fields are that arrive (protocol.cpp:59-76, 105-114, 194-226): the size that is
\* compared covers all that is read.  A position is padded with zeros to its full size.
THEOREM DecodersStayInside ==
  ASSUME NEW t \in Types, NEW c, c.op \in Operations, c.op = "read" => c.count \in Nat,
         NEW data \in Seq(Fields), c.op = "where" => data \in Seq({4} \X Int)
  PROVE  DecodeReply(t, c, data).outcome # "overrun"
<1>1. /\ Malformed.outcome = "malformed" /\ Overrun.outcome = "overrun"
      /\ \A v : Decoded(v).outcome = "ok"
  BY DEF Malformed, Overrun, Decoded
<1>2. encoded_size[t] \in Nat
  <2>1. t \in {"uint8", "int16", "int32", "float", "position"}
    BY DEF Types
  <2>2. /\ encoded_size["uint8"] = 1 /\ encoded_size["int16"] = 2 /\ encoded_size["int32"] = 4
        /\ encoded_size["float"] = 4 /\ encoded_size["position"] = 52
    BY DEF encoded_size
  <2> QED
    BY <2>1, <2>2
<1>3. decodeReadVar(t, data).outcome # "overrun"
  <2>1. CASE Size(data) = encoded_size[t]
    <3>1. Size(data) \in Int /\ 1 * encoded_size[t] \in Int /\ Size(data) >= 1 * encoded_size[t]
      BY <1>2, <2>1
    <3>2. DecodeValues(t, 1, data).outcome # "overrun"
      BY <3>1, EnoughForAll
    <3> QED
      BY <2>1, <3>2 DEF decodeReadVar, expectSize
  <2>2. CASE Size(data) # encoded_size[t]
    BY <1>1, <2>2 DEF decodeReadVar, expectSize
  <2> QED
    BY <2>1, <2>2
<1>4. CASE c.op = "readOne"
  BY <1>3, <1>4 DEF DecodeReply
<1>5. CASE c.op = "read"
  <2> DEFINE all == c.count * encoded_size[t]
  <2>1. all \in Nat
    <3>1. \A m, n \in Nat : m * n \in Nat
      OBVIOUS
    <3>2. c.count \in Nat
      BY <1>5
    <3> QED
      BY <1>2, <3>1, <3>2
  <2>2. CASE c.count # 1 /\ Size(data) = 4 + all
    <3>1. Size(data) \in Nat /\ Size(data) >= 4 /\ ~(Size(data) < 4)
      <4> HIDE DEF all
      <4> QED
        BY <2>1, <2>2
    <3>2. data # << >>
      <4>1. Size(<< >>) = 0
        BY FS_EmptySet DEF Size
      <4> QED
        BY <3>1, <4>1
    <3>3. Size(Tail(data)) \in Int /\ Size(Tail(data)) >= all
      <4>1. /\ Size(Tail(data)) \in Nat /\ data[1][1] \in {1, 2, 4}
            /\ Size(data) = Size(Tail(data)) + data[1][1]
        BY <3>2, TailSize
      <4> HIDE DEF all
      <4> QED
        BY <2>1, <2>2, <4>1
    <3>4. DecodeValues(t, c.count, Tail(data)).outcome # "overrun"
      BY <2>1, <3>3, EnoughForAll
    <3>5. decodeReadVars(t, c.count, data) \in {Malformed, DecodeValues(t, c.count, Tail(data))}
      BY <2>2, <3>1 DEF decodeReadVars, expectSize
    <3> QED
      BY <1>1, <1>5, <3>4, <3>5 DEF DecodeReply
  <2>3. CASE c.count # 1 /\ Size(data) # 4 + all
    <3>1. decodeReadVars(t, c.count, data) = Malformed
      BY <2>3 DEF decodeReadVars, expectSize
    <3> QED
      BY <1>1, <1>5, <3>1 DEF DecodeReply
  <2>4. CASE c.count = 1
    <3>1. decodeReadVars(t, c.count, data) = decodeReadVar(t, data)
      BY <2>4 DEF decodeReadVars
    <3> QED
      BY <1>3, <1>5, <3>1 DEF DecodeReply
  <2> QED
    BY <2>2, <2>3, <2>4
<1>6. CASE c.op \in {"write", "moveL", "delete"}
  BY <1>1, <1>6 DEF DecodeReply, decodeNothing
<1>7. CASE c.op = "status"
  <2>1. decodeStatus(data) = Malformed \/ \E v : decodeStatus(data) = Decoded(v)
    BY DEF decodeStatus
  <2> QED
    BY <1>1, <1>7, <2>1 DEF DecodeReply
<1>8. CASE c.op = "where"
  <2> DEFINE zeros == [k \in 1 .. 13 - Len(data) |-> Word(0)]
  <2>1. CASE Size(data) <= 52
    <3>1. data \in Seq({4} \X Int) /\ \A w \in {4} \X Int : w[1] = 4
      BY <1>8
    <3>2. Size(data) = 4 * Len(data) /\ Len(data) \in Nat
      BY <3>1, SizeOfWords, LenProperties
    <3>3. Len(data) <= 13
      BY <2>1, <3>2
    <3>4. zeros \in Seq({4} \X Int) /\ Len(zeros) = 13 - Len(data)
      <4>1. Word(0) \in {4} \X Int
        BY DEF Word, writeLittleEndian
      <4>2. 13 - Len(data) \in Nat
        BY <3>2, <3>3
      <4> QED
        BY <4>1, <4>2
    <3> HIDE DEF zeros
    <3>5. data \o zeros \in Seq({4} \X Int) /\ Len(data \o zeros) = 13
      <4>1. data \o zeros \in Seq({4} \X Int) /\ Len(data \o zeros) = Len(data) + Len(zeros)
        BY <3>1, <3>4, ConcatProperties
      <4> QED
        BY <3>2, <3>3, <3>4, <4>1
    <3> DEFINE padded == data \o zeros
    <3> HIDE DEF padded
    <3>6. padded \in Seq({4} \X Int) /\ Len(padded) = 13
      BY <3>5 DEF padded
    <3>7. Size(padded) = 4 * 13
      BY <3>1, <3>6, SizeOfWords
    <3>8. Size(padded) \in Int /\ 1 * encoded_size["position"] \in Int
          /\ Size(padded) >= 1 * encoded_size["position"]
      BY <3>7 DEF encoded_size
    <3>9. DecodeValues("position", 1, padded).outcome # "overrun"
      BY <3>8, EnoughForAll
    <3> QED
      BY <1>8, <2>1, <3>9 DEF DecodeReply, decodeCurrentPosition, expectSizeMax, padded, zeros
  <2>2. CASE ~(Size(data) <= 52)
    <3>1. decodeCurrentPosition(data) = Malformed
      BY <2>2 DEF decodeCurrentPosition, expectSizeMax
    <3> QED
      BY <1>1, <1>8, <3>1 DEF DecodeReply
  <2> QED
    BY <2>1, <2>2
<1> QED
  BY <1>4, <1>5, <1>6, <1>7, <1>8 DEF Operations

-----------------------------------------------------------------------------
(* What a variable holds.                                                  *)

\* Without its last field, a payload is smaller.
LEMMA FrontSize ==
  ASSUME NEW S, S \subseteq Fields, NEW q \in Seq(S),
         NEW less, less = SubSeq(q, 1, Len(q) - 1)
  PROVE  /\ less \in Seq(S) /\ Size(less) \in Nat
         /\ q = << >> => less = << >>
         /\ q # << >> => Len(less) = Len(q) - 1 /\ Size(less) < Size(q)
<1> DEFINE n == Len(q)
           wide(w) == {k \in DOMAIN q : q[k][1] = w}
           left(w) == {k \in DOMAIN less : less[k][1] = w}
<1>1. n \in Nat /\ DOMAIN q = 1 .. n /\ (n = 0 <=> q = << >>) /\ \A k \in 1 .. n : q[k] \in S
  BY LenProperties, EmptySeq, ElementOfSeq
<1>2. /\ less \in Seq(S) /\ Len(less) = (IF n = 0 THEN 0 ELSE n - 1)
      /\ DOMAIN less = 1 .. n - 1 /\ \A k \in 1 .. n - 1 : less[k] = q[k]
  <2> HIDE DEF n
  <2>1. \A k \in 1 .. n - 1 : q[k] \in S
    BY <1>1
  <2>2. 1 \in Int /\ n - 1 \in Int /\ 1 - 1 = 0
    BY <1>1
  <2>3. /\ SubSeq(q, 1, n - 1) \in Seq(S)
        /\ Len(SubSeq(q, 1, n - 1)) = (IF 1 <= n - 1 THEN n - 1 - 1 + 1 ELSE 0)
        /\ \A i \in 1 .. n - 1 - 1 + 1 : SubSeq(q, 1, n - 1)[i] = q[1 + i - 1]
    BY <2>1, <2>2, SubSeqProperties
  <2>4. less = SubSeq(q, 1, n - 1)
    BY DEF n
  <2>5. Len(less) = (IF n = 0 THEN 0 ELSE n - 1)
    BY <1>1, <2>3, <2>4
  <2>6. DOMAIN less = 1 .. n - 1
    <3>1. DOMAIN less = 1 .. Len(less)
      BY <2>3, <2>4, LenProperties
    <3>2. CASE n = 0
      BY <2>5, <3>1, <3>2
    <3>3. CASE n # 0
      BY <2>5, <3>1, <3>3
    <3> QED
      BY <3>2, <3>3
  <2>7. \A k \in 1 .. n - 1 : less[k] = q[k]
    <3>1. \A k \in 1 .. n - 1 : k \in 1 .. n - 1 - 1 + 1 /\ 1 + k - 1 = k
      BY <1>1
    <3> QED
      BY <2>3, <2>4, <3>1
  <2> QED
    BY <2>3, <2>4, <2>5, <2>6, <2>7
<1>3. \A w : /\ IsFiniteSet(wide(w)) /\ IsFiniteSet(left(w))
             /\ Cardinality(wide(w)) \in Nat /\ Cardinality(left(w)) \in Nat
  <2>1. IsFiniteSet(1 .. n) /\ IsFiniteSet(1 .. n - 1)
    BY <1>1, FS_Interval
  <2>2. \A w : wide(w) \subseteq 1 .. n /\ left(w) \subseteq 1 .. n - 1
    BY <1>1, <1>2
  <2> HIDE DEF wide, left
  <2> QED
    BY <2>1, <2>2, FS_Subset, FS_CardinalityType
<1>4. /\ Size(q) = Cardinality(wide(1)) + 2 * Cardinality(wide(2)) + 4 * Cardinality(wide(4))
      /\ Size(less) = Cardinality(left(1)) + 2 * Cardinality(left(2)) + 4 * Cardinality(left(4))
  BY DEF Size
<1>5. Size(less) \in Nat
  <2> HIDE DEF left, wide
  <2>1. PICK a \in Nat, b \in Nat, c \in Nat :
          Cardinality(left(1)) = a /\ Cardinality(left(2)) = b /\ Cardinality(left(4)) = c
    BY <1>3
  <2>2. Size(less) = a + 2 * b + 4 * c
    BY <1>4, <2>1
  <2> QED
    BY <2>2
<1>6. CASE n = 0
  <2>1. q = << >> /\ less = << >>
    BY <1>1, <1>2, <1>6, EmptySeq
  <2> QED
    BY <1>2, <1>5, <2>1
<1>7. CASE n # 0
  <2> DEFINE v == q[n][1]
  <2>1. v \in {1, 2, 4}
    <3>1. q[n] \in Fields
      BY <1>1, <1>7
    <3> QED
      BY <3>1 DEF Fields
  <2>2. \A w : n \notin left(w) /\ wide(w) = IF v = w THEN left(w) \union {n} ELSE left(w)
    BY <1>1, <1>2, <1>7
  <2> HIDE DEF wide, left, v
  <2>3. \A w : Cardinality(wide(w)) = Cardinality(left(w)) + IF v = w THEN 1 ELSE 0
    BY <1>3, <2>2, FS_AddElement
  <2>4. PICK a \in Nat, b \in Nat, c \in Nat :
          Cardinality(left(1)) = a /\ Cardinality(left(2)) = b /\ Cardinality(left(4)) = c
    BY <1>3
  <2>5. Size(less) = a + 2 * b + 4 * c
    BY <1>4, <2>4
  <2>6. Size(q) = (a + IF v = 1 THEN 1 ELSE 0) + 2 * (b + IF v = 2 THEN 1 ELSE 0)
                    + 4 * (c + IF v = 4 THEN 1 ELSE 0)
    BY <1>4, <2>3, <2>4
  <2>7. Size(less) < Size(q)
    <3>1. CASE v = 1
      BY <2>5, <2>6, <3>1
    <3>2. CASE v = 2
      BY <2>5, <2>6, <3>2
    <3>3. CASE v = 4
      BY <2>5, <2>6, <3>3
    <3> QED
      BY <2>1, <3>1, <3>2, <3>3
  <2> QED
    BY <1>1, <1>2, <1>5, <1>7, <2>7
<1> QED
  BY <1>6, <1>7

Width(t) == CASE t = "uint8" -> 1 [] t = "int16" -> 2 [] OTHER -> 4

Bits(t) == CASE t = "uint8" -> 0 .. 255 [] t = "int16" -> 0 .. 2^16 - 1 [] OTHER -> Int32

\* The fields of a variable of each type.
Field(t) == {Width(t)} \X Bits(t)

\* A variable may hold any fields of its type, but for the number of a user frame.
Stored(t) ==
  {e \in Seq(Field(t)) : Len(e) = FieldsOf(t) /\ (t = "position" => e[4][2] \in Nat)}

\* The values that can be encoded.
Encodable(t) ==
  {v \in ValuesOf(t) : t = "position" /\ v.kind = "cartesian" => v.frame # master}

LEMMA Pairs ==
  ASSUME NEW A, NEW B, NEW f \in A \X B
  PROVE  f[1] \in A /\ f[2] \in B /\ f = <<f[1], f[2]>>
  OBVIOUS

LEMMA FieldFacts ==
  ASSUME NEW t \in Types
  PROVE  /\ Field(t) \subseteq Fields /\ \A f \in Field(t) : f[1] = Width(t)
         /\ Width(t) \in {1, 2, 4} /\ FieldsOf(t) \in {1, 13}
         /\ encoded_size[t] = Width(t) * FieldsOf(t)
         /\ encoded_size[t] \in 1 .. 52
<1>1. /\ Width(t) \in {1, 2, 4} /\ FieldsOf(t) \in {1, 13}
      /\ encoded_size[t] = Width(t) * FieldsOf(t) /\ encoded_size[t] \in 1 .. 52
  BY DEF Types, Width, FieldsOf, encoded_size
<1>2. Bits(t) \subseteq Int
  <2>1. Int32 \subseteq Int
    BY Int32IsInt
  <2>2. Bits(t) \in {0 .. 255, 0 .. 2^16 - 1, Int32}
    BY DEF Bits
  <2>3. 0 .. 255 \subseteq Int /\ 0 .. 2^16 - 1 \subseteq Int
    OBVIOUS
  <2> QED
    BY <2>1, <2>2, <2>3
<1>3. \A f \in Field(t) : f[1] = Width(t) /\ f \in Fields
  BY <1>1, <1>2 DEF Field, Fields
<1> QED
  BY <1>1, <1>3

LEMMA StoredSize ==
  ASSUME NEW t \in Types, NEW e \in Stored(t)
  PROVE  e \in Seq(Field(t)) /\ Len(e) = FieldsOf(t) /\ Size(e) = encoded_size[t]
<1>1. e \in Seq(Field(t)) /\ Len(e) = FieldsOf(t)
  BY DEF Stored
<1>2. Size(e) = Width(t) * Len(e)
  BY <1>1, FieldFacts, SizeOfFields
<1> QED
  BY <1>1, <1>2, FieldFacts

\* The frame and its number are not negative.
LEMMA FrameNumbers ==
  ASSUME NEW f \in base .. tool
  PROVE  encodeFrameType(f) \in 16 .. 19 /\ userCoordinateNumber(f) \in 0 .. 16
<1> USE DEF base, robot, user1, user16, tool
<1>1. CASE isUserCoordinateSystem(f)
  BY <1>1 DEF encodeFrameType, userCoordinateNumber, isUserCoordinateSystem
<1>2. CASE ~isUserCoordinateSystem(f)
  <2>1. f \in {0, 1, 18}
    BY <1>2 DEF isUserCoordinateSystem
  <2> QED
    BY <1>2, <2>1 DEF encodeFrameType, userCoordinateNumber
<1> QED
  BY <1>1, <1>2

\* Where the elements of two sequences are when they are joined.
LEMMA ConcatPlaces ==
  ASSUME NEW S, NEW a \in Seq(S), NEW b \in Seq(S)
  PROVE  /\ a \o b \in Seq(S) /\ Len(a \o b) = Len(a) + Len(b)
         /\ \A i \in 1 .. Len(a) : (a \o b)[i] = a[i]
         /\ \A i \in 1 .. Len(b) : (a \o b)[Len(a) + i] = b[i]
<1> DEFINE m == Len(a)
           n == Len(b)
<1>0. m \in Nat /\ n \in Nat
  BY LenProperties
<1>1. /\ a \o b \in Seq(S) /\ Len(a \o b) = Len(a) + Len(b)
      /\ \A i \in 1 .. Len(a) + Len(b) :
           (a \o b)[i] = IF i <= Len(a) THEN a[i] ELSE b[i - Len(a)]
  BY ConcatProperties
<1> DEFINE c == a \o b
<1> HIDE DEF c
<1>2. /\ c \in Seq(S) /\ Len(c) = m + n
      /\ \A i \in 1 .. m + n : c[i] = IF i <= m THEN a[i] ELSE b[i - m]
  BY <1>1 DEF c
<1> HIDE DEF m, n
<1>3. \A i \in 1 .. m : c[i] = a[i]
  <2>1. \A i \in 1 .. m : i \in 1 .. m + n /\ i <= m
    BY <1>0
  <2> QED
    BY <1>2, <2>1
<1>4. ASSUME NEW i \in 1 .. n PROVE c[m + i] = b[i]
  <2> DEFINE k == m + i
  <2>1. k \in 1 .. m + n /\ ~(k <= m) /\ k - m = i
    BY <1>0
  <2> HIDE DEF k
  <2>2. c[k] = b[k - m]
    BY <1>2, <2>1
  <2> QED
    BY <2>1, <2>2 DEF k
<1> QED
  BY <1>2, <1>3, <1>4 DEF c, m, n

Words == {4} \X Int32

\* The words of a position of either kind.
LEMMA PulseWords ==
  ASSUME NEW p \in Pulses
  PROVE  /\ encodePulse(p) \in Seq(Words) /\ Len(encodePulse(p)) = 13
         /\ encodePulse(p)[1] = Word(0) /\ encodePulse(p)[3] = Word(p.tool)
         /\ encodePulse(p)[4] = Word(0)
         /\ \A i \in 1 .. 8 : encodePulse(p)[5 + i]
                                 = Word(IF i \in DOMAIN p.joints THEN p.joints[i] ELSE 0)
<1> DEFINE js == [i \in 1 .. 8 |-> IF i \in DOMAIN p.joints THEN p.joints[i] ELSE 0]
           h == <<Word(0), Word(0), Word(p.tool), Word(0), Word(0)>>
           t == [i \in 1 .. 8 |-> Word(js[i])]
<1>0. 0 \in Int32 /\ p.tool \in Int32 /\ p.joints \in Seq(Int32)
  <2>1. 0 \in Int32
    BY Int32Facts DEF Int32
  <2> QED
    BY <2>1 DEF Pulses
<1>1. p.tool \in Int32 /\ \A i \in 1 .. 8 : js[i] \in Int32
  <2>1. \A i \in DOMAIN p.joints : p.joints[i] \in Int32
    BY <1>0
  <2> QED
    BY <1>0, <2>1
<1>2. encodePulse(p) = h \o t
  BY DEF encodePulse
<1> HIDE DEF js
<1>3. \A n \in Int32 : Word(n) \in Words
  BY DEF Word, Words, writeLittleEndian
<1>4. h \in Seq(Words) /\ Len(h) = 5
  BY <1>0, <1>1, <1>3
<1>5. t \in Seq(Words) /\ Len(t) = 8 /\ \A i \in 1 .. 8 : t[i] = Word(js[i])
  BY <1>1, <1>3
<1>6. h[1] = Word(0) /\ h[3] = Word(p.tool) /\ h[4] = Word(0)
  OBVIOUS
<1> HIDE DEF h, t
<1> DEFINE u == h \o t
<1>7. /\ u \in Seq(Words) /\ Len(u) = 13
      /\ \A i \in 1 .. 5 : u[i] = h[i]
      /\ \A i \in 1 .. 8 : u[5 + i] = t[i]
  <2>1. /\ u \in Seq(Words) /\ Len(u) = Len(h) + Len(t)
        /\ \A i \in 1 .. Len(h) : u[i] = h[i]
        /\ \A i \in 1 .. Len(t) : u[Len(h) + i] = t[i]
    <3>1. h \in Seq(Words) /\ t \in Seq(Words)
      BY <1>4, <1>5
    <3> QED
      BY <3>1, ConcatPlaces
  <2>2. Len(h) = 5 /\ Len(t) = 8
    BY <1>4, <1>5
  <2> HIDE DEF u
  <2> QED
    BY <2>1, <2>2
<1> HIDE DEF u
<1>8. encodePulse(p) = u
  BY <1>2 DEF u
<1>9. /\ \A i \in 1 .. 5 : encodePulse(p)[i] = h[i]
      /\ \A i \in 1 .. 8 : encodePulse(p)[5 + i] = Word(js[i])
  BY <1>8, <1>5, <1>7
<1>10. \A i \in 1 .. 8 : js[i] = IF i \in DOMAIN p.joints THEN p.joints[i] ELSE 0
  BY DEF js
<1>11. 1 \in 1 .. 5 /\ 3 \in 1 .. 5 /\ 4 \in 1 .. 5
  OBVIOUS
<1>12. /\ encodePulse(p)[1] = Word(0) /\ encodePulse(p)[3] = Word(p.tool)
       /\ encodePulse(p)[4] = Word(0)
  BY <1>6, <1>9, <1>11
<1>13. encodePulse(p) \in Seq(Words) /\ Len(encodePulse(p)) = 13
  BY <1>8, <1>7
<1>14. \A i \in 1 .. 8 : encodePulse(p)[5 + i]
                           = Word(IF i \in DOMAIN p.joints THEN p.joints[i] ELSE 0)
  BY <1>9, <1>10
<1> QED
  BY <1>12, <1>13, <1>14

LEMMA CartesianWords ==
  ASSUME NEW p \in Cartesians, p.frame # master
  PROVE  LET e == encodeCartesian(p) IN
         /\ e \in Seq(Words) /\ Len(e) = 13
         /\ e[1] = Word(encodeFrameType(p.frame)) /\ e[2] = Word(p.configuration)
         /\ e[3] = Word(p.tool) /\ e[4] = Word(userCoordinateNumber(p.frame))
         /\ \A i \in 1 .. 6 : e[5 + i] = Word(Fixed(p.coordinates[i], i))
         /\ p.frame \in base .. tool
<1> DEFINE xs == [i \in 1 .. 6 |-> Fixed(p.coordinates[i], i)]
           f == encodeFrameType(p.frame)
           n == userCoordinateNumber(p.frame)
           h == <<Word(f), Word(p.configuration), Word(p.tool), Word(n), Word(0)>>
           t == [i \in 1 .. 6 |-> Word(xs[i])]
           z == <<Word(0), Word(0)>>
<1>1. /\ p.tool \in Int32 /\ p.configuration \in Int32 /\ p.frame \in base .. tool
      /\ 0 \in Int32 /\ \A i \in 1 .. 6 : p.coordinates[i] \in Coordinates
  <2>1. 0 \in Int32 /\ \A k \in 0 .. 63 : k \in Int32
    BY Int32Facts DEF Int32
  <2> QED
    BY <2>1 DEF Cartesians, Configurations, base, master, tool
<1>2. f \in Int32 /\ n \in Int32
  <2>1. f \in 16 .. 19 /\ n \in 0 .. 16
    BY <1>1, FrameNumbers
  <2> HIDE DEF f, n
  <2> QED
    BY <2>1, Int32Facts DEF Int32
<1>3. \A i \in 1 .. 6 : xs[i] \in Int32
  BY <1>1, CoordinateFits
<1>4. encodeCartesian(p) = (h \o t) \o z
  BY DEF encodeCartesian
<1> HIDE DEF xs, f, n
<1>5. \A k \in Int32 : Word(k) \in Words
  BY DEF Word, Words, writeLittleEndian
<1>6. h \in Seq(Words) /\ Len(h) = 5
  BY <1>1, <1>2, <1>5
<1>7. t \in Seq(Words) /\ Len(t) = 6 /\ \A i \in 1 .. 6 : t[i] = Word(xs[i])
  BY <1>3, <1>5
<1>8. z \in Seq(Words) /\ Len(z) = 2
  BY <1>1, <1>5
<1>9. /\ h[1] = Word(f) /\ h[2] = Word(p.configuration) /\ h[3] = Word(p.tool)
      /\ h[4] = Word(n)
  OBVIOUS
<1> HIDE DEF h, t, z
<1> DEFINE u == h \o t
<1>10. /\ u \in Seq(Words) /\ Len(u) = 11
       /\ \A i \in 1 .. 5 : u[i] = h[i]
       /\ \A i \in 1 .. 6 : u[5 + i] = t[i]
  <2>1. /\ u \in Seq(Words) /\ Len(u) = Len(h) + Len(t)
        /\ \A i \in 1 .. Len(h) : u[i] = h[i]
        /\ \A i \in 1 .. Len(t) : u[Len(h) + i] = t[i]
    <3>1. h \in Seq(Words) /\ t \in Seq(Words)
      BY <1>6, <1>7
    <3> QED
      BY <3>1, ConcatPlaces
  <2>2. Len(h) = 5 /\ Len(t) = 6
    BY <1>6, <1>7
  <2> HIDE DEF u
  <2> QED
    BY <2>1, <2>2
<1> HIDE DEF u
<1>11. /\ u \o z \in Seq(Words) /\ Len(u \o z) = 13
       /\ \A i \in 1 .. 11 : (u \o z)[i] = u[i]
  <2>1. /\ u \o z \in Seq(Words) /\ Len(u \o z) = Len(u) + Len(z)
        /\ \A i \in 1 .. Len(u) : (u \o z)[i] = u[i]
    <3>1. u \in Seq(Words) /\ z \in Seq(Words)
      BY <1>8, <1>10
    <3> QED
      BY <3>1, ConcatPlaces
  <2>2. Len(u) = 11 /\ Len(z) = 2
    BY <1>8, <1>10
  <2> QED
    BY <2>1, <2>2
<1>12. encodeCartesian(p) = u \o z
  BY <1>4 DEF u
<1>13. \A i \in 1 .. 6 : (u \o z)[5 + i] = Word(Fixed(p.coordinates[i], i))
  <2>1. \A i \in 1 .. 6 : 5 + i \in 1 .. 11
    OBVIOUS
  <2>2. \A i \in 1 .. 6 : (u \o z)[5 + i] = Word(xs[i])
    BY <1>7, <1>10, <1>11, <2>1
  <2> QED
    BY <2>2 DEF xs
<1>14. \A i \in 1 .. 5 : (u \o z)[i] = h[i]
  <2>1. \A i \in 1 .. 5 : i \in 1 .. 11
    OBVIOUS
  <2> QED
    BY <1>10, <1>11, <2>1
<1>15. 1 \in 1 .. 5 /\ 2 \in 1 .. 5 /\ 3 \in 1 .. 5 /\ 4 \in 1 .. 5
  OBVIOUS
<1> QED
  BY <1>1, <1>9, <1>11, <1>12, <1>13, <1>14, <1>15 DEF f, n

LEMMA WordIsSigned ==
  /\ \A f \in Words : f[1] = 4 /\ f[2] \in Int32 /\ Signed(f) = f[2] /\ Unsigned(f) = f[2]
  /\ \A n \in Int32 : Word(n) \in Words
  /\ \A n \in Int : Word(n)[1] = 4 /\ Word(n)[2] = n
  /\ \A n \in Int : Signed(Word(n)) = n /\ Unsigned(Word(n)) = n
<1>1. ASSUME NEW f \in Words
      PROVE  f[1] = 4 /\ f[2] \in Int32 /\ Signed(f) = f[2] /\ Unsigned(f) = f[2]
  <2>1. f[1] = 4 /\ f[2] \in Int32
    BY DEF Words
  <2> QED
    BY <2>1 DEF Signed, Unsigned
<1>2. \A n \in Int32 : Word(n) \in Words
  BY DEF Word, Words, writeLittleEndian
<1>3. \A n \in Int : Word(n)[1] = 4 /\ Word(n)[2] = n
  BY DEF Word, writeLittleEndian
<1>4. \A n \in Int : Signed(Word(n)) = n /\ Unsigned(Word(n)) = n
  BY <1>3 DEF Signed, Unsigned
<1> QED
  BY <1>1, <1>2, <1>3, <1>4

\* The types, in numbers.
LEMMA Bytes ==
  /\ Width("uint8") = 1 /\ encoded_size["uint8"] = 1
  /\ \A v : v \in ValuesOf("uint8") <=> v \in 0 .. 255
  /\ \A v : v \in Bits("uint8") <=> v \in 0 .. 255
BY DEF Width, encoded_size, ValuesOf, Bits

LEMMA Shorts ==
  /\ Width("int16") = 2 /\ encoded_size["int16"] = 2
  /\ \A v : v \in ValuesOf("int16") <=> v \in -(2^15) .. 2^15 - 1
  /\ \A v : v \in Bits("int16") <=> v \in 0 .. 2^16 - 1
BY DEF Width, encoded_size, ValuesOf, Bits

LEMMA Longs ==
  ASSUME NEW t, t = "int32" \/ t = "float"
  PROVE  /\ Width(t) = 4 /\ encoded_size[t] = 4
         /\ ValuesOf(t) = Int32 /\ Bits(t) = Int32
<1>1. Width(t) = 4 /\ encoded_size[t] = 4
  BY DEF Width, encoded_size
<1>2. ValuesOf(t) = Int32
  BY DEF ValuesOf
<1>3. Bits(t) = Int32
  BY DEF Bits
<1> QED
  BY <1>1, <1>2, <1>3

\* What is encoded is what a variable of the type may hold.
LEMMA EncodedIsStored ==
  ASSUME NEW t \in Types, NEW v \in Encodable(t)
  PROVE  EncodeValue(t, v) \in Stored(t)
<1>1. CASE t # "position"
  <2> DEFINE f == writeLittleEndian(encoded_size[t], v)
  <2>1. f \in Field(t)
    <3>0. v \in ValuesOf(t)
      BY DEF Encodable
    <3>1. CASE t = "uint8"
      <4>1. v \in 0 .. 255 /\ v % 256^1 = v
        <5>1. v \in 0 .. 255
          BY <3>0, <3>1, Bytes
        <5> QED
          BY <5>1
      <4>2. f = <<1, v>>
        BY <3>1, <4>1, Bytes DEF writeLittleEndian
      <4>3. v \in Bits(t) /\ Width(t) = 1
        BY <3>1, <4>1, Bytes
      <4> HIDE DEF f
      <4> QED
        BY <4>2, <4>3 DEF Field
    <3>2. CASE t = "int16"
      <4> DEFINE n == v % 256^2
      <4>1. n \in 0 .. 2^16 - 1
        <5>1. v \in -(2^15) .. 2^15 - 1
          BY <3>0, <3>2, Shorts
        <5>2. \A m \in -(2^15) .. 2^15 - 1 : m % 256^2 \in 0 .. 2^16 - 1
          OBVIOUS
        <5> QED
          BY <5>1, <5>2
      <4>2. f = <<2, n>>
        BY <3>2, Shorts DEF writeLittleEndian
      <4> HIDE DEF n, f
      <4>3. n \in Bits(t) /\ Width(t) = 2
        BY <3>2, <4>1, Shorts
      <4> QED
        BY <4>2, <4>3 DEF Field
    <3>3. CASE t \in {"int32", "float"}
      <4>1. v \in Bits(t) /\ Width(t) = 4 /\ encoded_size[t] = 4
        BY <3>0, <3>3, Longs
      <4>2. f = <<4, v>>
        BY <4>1 DEF writeLittleEndian
      <4> HIDE DEF f
      <4> QED
        BY <4>1, <4>2 DEF Field
    <3> QED
      BY <1>1, <3>1, <3>2, <3>3 DEF Types
  <2>2. EncodeValue(t, v) = <<f>> /\ FieldsOf(t) = 1
    BY <1>1 DEF EncodeValue, FieldsOf
  <2> HIDE DEF f
  <2>3. <<f>> \in Seq(Field(t)) /\ Len(<<f>>) = 1
    BY <2>1
  <2> QED
    BY <1>1, <2>2, <2>3 DEF Stored
<1>2. CASE t = "position"
  <2>1. Field(t) = Words /\ FieldsOf(t) = 13
    BY <1>2 DEF Field, Width, Bits, Words, FieldsOf
  <2>2. CASE v.kind = "pulse"
    <3>1. v \in Pulses
      BY <1>2, <2>2 DEF Encodable, ValuesOf, Cartesians
    <3>2. EncodeValue(t, v) = encodePulse(v)
      BY <1>2, <2>2 DEF EncodeValue
    <3>3. encodePulse(v)[4][2] = 0
      BY <3>1, PulseWords, WordIsSigned
    <3> QED
      BY <2>1, <3>1, <3>2, <3>3, PulseWords DEF Stored
  <2>3. CASE v.kind # "pulse"
    <3>1. v \in Cartesians /\ v.frame # master
      BY <1>2, <2>3 DEF Encodable, ValuesOf, Cartesians, Pulses
    <3>2. EncodeValue(t, v) = encodeCartesian(v)
      BY <1>2, <2>3 DEF EncodeValue
    <3>3. /\ encodeCartesian(v) \in Seq(Words) /\ Len(encodeCartesian(v)) = 13
          /\ encodeCartesian(v)[4] = Word(userCoordinateNumber(v.frame))
          /\ v.frame \in base .. tool
      BY <3>1, CartesianWords
    <3>4. userCoordinateNumber(v.frame) \in Nat
      <4>1. userCoordinateNumber(v.frame) \in 0 .. 16
        BY <3>3, FrameNumbers
      <4> QED
        BY <4>1
    <3>5. encodeCartesian(v)[4][2] \in Nat
      BY <3>3, <3>4, WordIsSigned
    <3> QED
      BY <2>1, <3>2, <3>3, <3>5 DEF Stored
  <2> QED
    BY <2>2, <2>3
<1> QED
  BY <1>1, <1>2

\* What a variable may hold is decoded as a value of the type, or is refused.
LEMMA DecodedIsValue ==
  ASSUME NEW t \in Types, NEW e \in Stored(t)
  PROVE  DecodeValue(t, e) = << >> \/ \E v \in ValuesOf(t) : DecodeValue(t, e) = <<v>>
<1>1. e \in Seq(Field(t)) /\ Len(e) = FieldsOf(t)
  BY DEF Stored
<1>2. CASE t # "position"
  <2>1. e[1] \in Field(t)
    <3>1. Len(e) = 1
      BY <1>1, <1>2 DEF FieldsOf
    <3> QED
      BY <1>1, <3>1, ElementOfSeq
  <2>2. e[1][1] = Width(t) /\ e[1][2] \in Bits(t)
    BY <2>1, Pairs DEF Field
  <2> DEFINE n == e[1][2]
  <2>3. CASE t = "uint8"
    <3>1. n \in ValuesOf(t)
      <4> HIDE DEF n
      <4>1. n \in Bits(t)
        BY <2>2 DEF n
      <4> QED
        BY <2>3, <4>1, Bytes
    <3>2. DecodeValue(t, e) = <<n>>
      BY <2>3 DEF DecodeValue, Unsigned
    <3> QED
      BY <3>1, <3>2
  <2>4. CASE t = "int16"
    <3>1. n \in 0 .. 2^16 - 1 /\ e[1][1] = 2
      <4> HIDE DEF n
      <4>1. n \in Bits(t) /\ e[1][1] = Width(t)
        BY <2>2 DEF n
      <4> QED
        BY <2>4, <4>1, Shorts
    <3>2. Signed(e[1]) = IF 2 * n >= 256^2 THEN n - 256^2 ELSE n
      BY <3>1 DEF Signed
    <3> HIDE DEF n
    <3>3. Signed(e[1]) \in -(2^15) .. 2^15 - 1
      <4>1. \A m \in 0 .. 2^16 - 1 :
              (IF 2 * m >= 256^2 THEN m - 256^2 ELSE m) \in -(2^15) .. 2^15 - 1
        OBVIOUS
      <4> QED
        BY <3>1, <3>2, <4>1
    <3>4. Signed(e[1]) \in ValuesOf(t)
      BY <2>4, <3>3, Shorts
    <3>5. DecodeValue(t, e) = <<Signed(e[1])>>
      BY <2>4 DEF DecodeValue
    <3> QED
      BY <3>4, <3>5
  <2>5. CASE t \in {"int32", "float"}
    <3>1. n \in Int32 /\ e[1][1] = 4
      <4> HIDE DEF n
      <4>1. n \in Bits(t) /\ e[1][1] = Width(t)
        BY <2>2 DEF n
      <4> QED
        BY <2>5, <4>1, Longs
    <3>2. Signed(e[1]) = n
      BY <3>1 DEF Signed
    <3> HIDE DEF n
    <3>3. Signed(e[1]) \in ValuesOf(t)
      BY <2>5, <3>1, <3>2, Longs
    <3>4. DecodeValue(t, e) = <<Signed(e[1])>>
      BY <2>5 DEF DecodeValue
    <3> QED
      BY <3>3, <3>4
  <2> QED
    BY <1>2, <2>3, <2>4, <2>5 DEF Types
<1>3. CASE t = "position"
  <2>1. Len(e) = 13 /\ e[4][2] \in Nat
    BY <1>1, <1>3 DEF Stored, FieldsOf
  <2>2. \A k \in 1 .. 13 : e[k] \in Words
    <3>1. Field(t) = Words
      BY <1>3 DEF Field, Width, Bits, Words
    <3> QED
      BY <1>1, <2>1, <3>1, ElementOfSeq
  <2>3. \A k \in 1 .. 13 : Signed(e[k]) = e[k][2] /\ e[k][2] \in Int32
    BY <2>2, WordIsSigned
  <2>4. DecodeValue(t, e) = decodePosition(e) /\ ValuesOf(t) = Pulses \union Cartesians
    BY <1>3 DEF DecodeValue, ValuesOf
  <2>5. CASE Unsigned(e[1]) = 0
    <3> DEFINE js == [i \in 1 .. 8 |-> Signed(e[5 + i])]
               v == [kind |-> "pulse", tool |-> Signed(e[3]), joints |-> js]
    <3>1. decodePosition(e) = <<v>>
      BY <2>5 DEF decodePosition
    <3>2. \A i \in 1 .. 8 : Signed(e[5 + i]) \in Int32
      <4>1. \A i \in 1 .. 8 : 5 + i \in 1 .. 13
        OBVIOUS
      <4> QED
        BY <2>3, <4>1
    <3>3. js \in Seq(Int32) /\ Len(js) = 8
      BY <3>2
    <3>4. v \in Pulses
      <4>1. Signed(e[3]) \in Int32
        BY <2>3
      <4>2. 8 <= 8
        OBVIOUS
      <4> HIDE DEF js
      <4> QED
        BY <3>3, <4>1, <4>2 DEF Pulses
    <3> QED
      BY <2>4, <3>1, <3>4
  <2>6. CASE Unsigned(e[1]) # 0
    <3> DEFINE frame == decodeCartesianFrame(Signed(e[1]), Signed(e[4]))
               xs == [i \in 1 .. 6 |-> 10 * Signed(e[5 + i])]
               c == Unsigned(e[2]) % 64
               n == Signed(e[3])
               P(f) == [kind |-> "cartesian", frame |-> f, configuration |-> c, tool |-> n,
                        coordinates |-> xs]
    <3>1. decodePosition(e) = [k \in DOMAIN frame |-> P(frame[k])]
      BY <2>6 DEF decodePosition
    <3>2. frame = << >> \/ \E f \in base .. master : frame = <<f>>
      <4>1. Signed(e[4]) \in Nat
        BY <2>1, <2>3
      <4>2. expectValueMax(Signed(e[4]), 15)
              => userCoordinateSystem(Signed(e[4])) \in base .. master
        BY <4>1 DEF expectValueMax, userCoordinateSystem, base, user1, master
      <4>3. base \in base .. master /\ robot \in base .. master /\ tool \in base .. master
        BY DEF base, robot, tool, master
      <4> QED
        BY <4>2, <4>3 DEF decodeCartesianFrame
    <3>3. xs \in [1 .. 6 -> Coordinates] /\ c \in 0 .. 63 /\ n \in Int32
      <4>1. \A i \in 1 .. 6 : 5 + i \in 1 .. 13
        OBVIOUS
      <4>2. \A i \in 1 .. 6 : Signed(e[5 + i]) \in Int32
        BY <2>3, <4>1
      <4>3. Unsigned(e[2]) \in Int /\ n \in Int32
        <5>0. e[2][2] \in Int32 /\ Int32 \subseteq Int
          BY <2>3, Int32IsInt
        <5>1. e[2][2] \in Int
          BY <5>0
        <5>2. n \in Int32
          BY <2>3
        <5> QED
          BY <5>1, <5>2 DEF Unsigned
      <4>4. \A m \in Int : m % 64 \in 0 .. 63
        OBVIOUS
      <4>5. \A m \in Int32 : 10 * m \in Coordinates
        BY CoordinateFits
      <4> QED
        BY <4>2, <4>3, <4>4, <4>5
    <3> HIDE DEF frame, xs, c, n
    <3>4. ASSUME NEW f \in base .. master
          PROVE  P(f) \in Cartesians
      BY <3>3 DEF Cartesians, Configurations
    <3>5. CASE frame = << >>
      BY <2>4, <3>1, <3>5
    <3>6. ASSUME NEW f \in base .. master, frame = <<f>>
          PROVE  decodePosition(e) = <<P(f)>>
      <4>1. DOMAIN frame = {1} /\ frame[1] = f
        BY <3>6
      <4> HIDE DEF P
      <4>2. decodePosition(e) = [k \in {1} |-> P(f)]
        BY <3>1, <4>1
      <4> QED
        BY <4>2
    <3> QED
      BY <2>4, <3>2, <3>4, <3>5, <3>6
  <2> QED
    BY <2>5, <2>6
<1> QED
  BY <1>2, <1>3

\* The places of the fields of many values.
LEMMA Places ==
  ASSUME NEW t \in Types, NEW n \in Nat
  PROVE  /\ n * FieldsOf(t) \in Nat /\ FieldsOf(t) \in 1 .. 13
         /\ \A k \in 1 .. n : (k - 1) * FieldsOf(t) \in Nat /\ k * FieldsOf(t) \in Nat
         /\ \A k \in 1 .. n : k * FieldsOf(t) - ((k - 1) * FieldsOf(t) + 1) + 1 = FieldsOf(t)
         /\ \A i \in 1 .. n * FieldsOf(t) :
              (i - 1) \div FieldsOf(t) + 1 \in 1 .. n /\ ((i - 1) % FieldsOf(t)) + 1 \in 1 .. FieldsOf(t)
         /\ \A k \in 1 .. n : \A i \in 1 .. FieldsOf(t) :
              /\ (k - 1) * FieldsOf(t) + 1 + i - 1 \in 1 .. n * FieldsOf(t)
              /\ ((k - 1) * FieldsOf(t) + 1 + i - 1 - 1) \div FieldsOf(t) + 1 = k
              /\ (((k - 1) * FieldsOf(t) + 1 + i - 1 - 1) % FieldsOf(t)) + 1 = i
<1>1. CASE FieldsOf(t) = 1
  BY <1>1
<1>2. CASE FieldsOf(t) = 13
  <2>1. \A i \in 1 .. n * 13 : (i - 1) \div 13 + 1 \in 1 .. n /\ ((i - 1) % 13) + 1 \in 1 .. 13
    OBVIOUS
  <2>2. \A k \in 1 .. n : \A i \in 1 .. 13 :
          /\ (k - 1) * 13 + 1 + i - 1 \in 1 .. n * 13
          /\ ((k - 1) * 13 + 1 + i - 1 - 1) \div 13 + 1 = k
          /\ (((k - 1) * 13 + 1 + i - 1 - 1) % 13) + 1 = i
    OBVIOUS
  <2>3. \A k \in 1 .. n : k * 13 - ((k - 1) * 13 + 1) + 1 = 13
    OBVIOUS
  <2>4. n * 13 \in Nat /\ \A k \in 1 .. n : (k - 1) * 13 \in Nat /\ k * 13 \in Nat
    OBVIOUS
  <2> QED
    BY <1>2, <2>1, <2>2, <2>3, <2>4
<1> QED
  BY <1>1, <1>2, FieldFacts

\* The fields of many values, and where each value is.
LEMMA JoinedParts ==
  ASSUME NEW t \in Types, NEW q \in Seq(Stored(t)),
         NEW data, data = Joined(t, q)
  PROVE  /\ data \in Seq(Field(t)) /\ Len(data) = Len(q) * FieldsOf(t)
         /\ Size(data) = Len(q) * encoded_size[t]
         /\ \A k \in 1 .. Len(q) :
              SubSeq(data, (k - 1) * FieldsOf(t) + 1, k * FieldsOf(t)) = q[k]
<1> DEFINE F == FieldsOf(t)
           n == Len(q)
           N == n * F
           V(i) == (i - 1) \div F + 1
           P(i) == ((i - 1) % F) + 1
<1>1. n \in Nat /\ \A k \in 1 .. n : q[k] \in Seq(Field(t)) /\ Len(q[k]) = F
  <2>1. \A k \in 1 .. n : q[k] \in Stored(t)
    BY ElementOfSeq DEF n
  <2> QED
    BY <2>1, LenProperties DEF Stored, n, F
<1>2. /\ n * F \in Nat /\ F \in 1 .. 13
      /\ \A k \in 1 .. n : (k - 1) * F \in Nat /\ k * F \in Nat
      /\ \A k \in 1 .. n : k * F - ((k - 1) * F + 1) + 1 = F
      /\ \A i \in 1 .. n * F : (i - 1) \div F + 1 \in 1 .. n /\ ((i - 1) % F) + 1 \in 1 .. F
      /\ \A k \in 1 .. n : \A i \in 1 .. F :
           /\ (k - 1) * F + 1 + i - 1 \in 1 .. n * F
           /\ ((k - 1) * F + 1 + i - 1 - 1) \div F + 1 = k
           /\ (((k - 1) * F + 1 + i - 1 - 1) % F) + 1 = i
  BY <1>1, Places
<1>3. /\ N \in Nat /\ F \in 1 .. 13
      /\ \A i \in 1 .. N : V(i) \in 1 .. n /\ P(i) \in 1 .. F
      /\ \A k \in 1 .. n : \A i \in 1 .. F :
           /\ (k - 1) * F + 1 + i - 1 \in 1 .. N
           /\ V((k - 1) * F + 1 + i - 1) = k /\ P((k - 1) * F + 1 + i - 1) = i
  <2> HIDE DEF F, n
  <2> QED
    BY <1>2
<1>4. data = [i \in 1 .. N |-> q[V(i)][P(i)]]
  BY DEF Joined
<1> HIDE DEF N, V, P, F, n
<1>5. \A k \in 1 .. n : \A i \in 1 .. F : q[k][i] \in Field(t)
  BY <1>1, ElementOfSeq
<1>6. \A i \in 1 .. N : data[i] \in Field(t)
  BY <1>3, <1>4, <1>5
<1>7. data \in Seq(Field(t)) /\ Len(data) = N
  <2>1. data \in [1 .. N -> Field(t)]
    BY <1>4, <1>6
  <2> QED
    BY <1>3, <2>1
<1>8. Size(data) = n * encoded_size[t]
  <2>1. Size(data) = Width(t) * Len(data)
    BY <1>7, FieldFacts, SizeOfFields
  <2>2. encoded_size[t] = Width(t) * F /\ Width(t) \in {1, 2, 4} /\ F \in {1, 13}
    BY FieldFacts DEF F
  <2>3. Width(t) * (n * F) = n * (Width(t) * F)
    <3>1. CASE Width(t) = 1
      BY <1>1, <2>2, <3>1
    <3>2. CASE Width(t) = 2
      <4>1. CASE F = 1
        BY <1>1, <3>2, <4>1
      <4>2. CASE F = 13
        BY <1>1, <3>2, <4>2
      <4> QED
        BY <2>2, <4>1, <4>2
    <3>3. CASE Width(t) = 4
      <4>1. CASE F = 1
        BY <1>1, <3>3, <4>1
      <4>2. CASE F = 13
        BY <1>1, <3>3, <4>2
      <4> QED
        BY <2>2, <4>1, <4>2
    <3> QED
      BY <2>2, <3>1, <3>2, <3>3
  <2> QED
    BY <1>7, <2>1, <2>2, <2>3 DEF N
<1>9. ASSUME NEW k \in 1 .. n
      PROVE  SubSeq(data, (k - 1) * F + 1, k * F) = q[k]
  <2> DEFINE a == (k - 1) * F + 1
             b == k * F
             s == SubSeq(data, a, b)
  <2>1. a \in Int /\ b \in Int /\ b - a + 1 = F /\ a <= b
    <3>1. (k - 1) * F \in Nat /\ k * F \in Nat /\ k * F - ((k - 1) * F + 1) + 1 = F
      BY <1>2, <1>9
    <3> DEFINE x == (k - 1) * F
               y == k * F
    <3> HIDE DEF x, y
    <3>2. x \in Nat /\ y \in Nat /\ y - (x + 1) + 1 = F
      BY <3>1 DEF x, y
    <3>3. x + 1 \in Int /\ y \in Int /\ x + 1 <= y
      BY <1>2, <3>2
    <3> QED
      BY <3>2, <3>3 DEF x, y
  <2>2. \A i \in 1 .. F : a + i - 1 \in 1 .. N /\ V(a + i - 1) = k /\ P(a + i - 1) = i
    BY <1>3, <1>9
  <2> HIDE DEF a, b
  <2>3. \A i \in 1 .. F : data[a + i - 1] = q[k][i]
    BY <1>4, <2>2
  <2>4. \A j \in a .. b : data[j] \in Field(t)
    <3> SUFFICES ASSUME NEW j \in a .. b
                 PROVE  data[j] \in Field(t)
      OBVIOUS
    <3> DEFINE i == j - a + 1
    <3>1. i \in 1 .. F /\ a + i - 1 = j
      BY <1>2, <2>1
    <3> HIDE DEF i
    <3>2. data[a + i - 1] \in Field(t)
      BY <1>5, <1>9, <2>3, <3>1
    <3> QED
      BY <3>1, <3>2
  <2>5. /\ s \in Seq(Field(t)) /\ Len(s) = (IF a <= b THEN b - a + 1 ELSE 0)
        /\ \A i \in 1 .. b - a + 1 : s[i] = data[a + i - 1]
    BY <2>1, <2>4, SubSeqProperties
  <2> HIDE DEF s
  <2>6. Len(s) = F /\ \A i \in 1 .. F : s[i] = q[k][i]
    BY <2>1, <2>3, <2>5
  <2>7. s = q[k]
    BY <1>1, <1>9, <2>5, <2>6, SeqEqual
  <2> QED
    BY <2>7 DEF s, a, b
<1> QED
  BY <1>7, <1>8, <1>9 DEF N, n, F

\* What the decoder makes of many values.
LEMMA DecodedAll ==
  ASSUME NEW t \in Types, NEW q \in Seq(Stored(t))
  PROVE  DecodeValues(t, Len(q), Joined(t, q)) =
           IF \E k \in 1 .. Len(q) : DecodeValue(t, q[k]) = << >> THEN Malformed
           ELSE Decoded([k \in 1 .. Len(q) |-> DecodeValue(t, q[k])[1]])
<1> DEFINE data == Joined(t, q)
           n == Len(q)
           Part(k) == SubSeq(data, (k - 1) * FieldsOf(t) + 1, k * FieldsOf(t))
<1>1. Size(data) = n * encoded_size[t] /\ \A k \in 1 .. n : Part(k) = q[k]
  BY JoinedParts
<1>2. n * encoded_size[t] \in Nat
  <2>1. n \in Nat /\ encoded_size[t] \in 1 .. 52
    BY LenProperties, FieldFacts
  <2>2. \A x \in Nat, y \in 1 .. 52 : x * y \in Nat
    OBVIOUS
  <2> HIDE DEF n
  <2> QED
    BY <2>1, <2>2
<1>3. ~(Size(data) < n * encoded_size[t])
  BY <1>1, <1>2
<1>4. DecodeValues(t, n, data) =
        IF \E k \in 1 .. n : DecodeValue(t, Part(k)) = << >> THEN Malformed
        ELSE Decoded([k \in 1 .. n |-> DecodeValue(t, Part(k))[1]])
  BY <1>3 DEF DecodeValues
<1> HIDE DEF Part, data, n
<1>5. [k \in 1 .. n |-> DecodeValue(t, Part(k))[1]] = [k \in 1 .. n |-> DecodeValue(t, q[k])[1]]
  BY <1>1
<1>6. (\E k \in 1 .. n : DecodeValue(t, Part(k)) = << >>)
        <=> \E k \in 1 .. n : DecodeValue(t, q[k]) = << >>
  BY <1>1
<1>7. DecodeValues(t, n, data) =
        IF \E k \in 1 .. n : DecodeValue(t, q[k]) = << >> THEN Malformed
        ELSE Decoded([k \in 1 .. n |-> DecodeValue(t, q[k])[1]])
  BY <1>4, <1>5, <1>6
<1> QED
  BY <1>7 DEF n, data

\* What it makes of one value.
LEMMA DecodedOne ==
  ASSUME NEW t \in Types, NEW e \in Stored(t)
  PROVE  decodeReadVar(t, e) =
           IF DecodeValue(t, e) = << >> THEN Malformed ELSE Decoded(DecodeValue(t, e))
<1> DEFINE F == FieldsOf(t)
           Part(k) == SubSeq(e, (k - 1) * F + 1, k * F)
<1>1. Size(e) = encoded_size[t] /\ e \in Seq(Field(t)) /\ Len(e) = F
  BY StoredSize
<1>2. encoded_size[t] \in 1 .. 52 /\ F \in {1, 13}
  BY FieldFacts
<1>3. Part(1) = e
  <2>1. (1 - 1) * F + 1 = 1 /\ 1 * F = F
    BY <1>2
  <2>2. SubSeq(e, 1, F) = e
    BY <1>1, SubSeqFull
  <2> HIDE DEF F
  <2> QED
    BY <2>1, <2>2
<1>4. ~(Size(e) < 1 * encoded_size[t])
  <2>1. \A s \in 1 .. 52 : ~(s < 1 * s)
    OBVIOUS
  <2> QED
    BY <1>1, <1>2, <2>1
<1>5. DecodeValues(t, 1, e) =
        IF \E k \in 1 .. 1 : DecodeValue(t, Part(k)) = << >> THEN Malformed
        ELSE Decoded([k \in 1 .. 1 |-> DecodeValue(t, Part(k))[1]])
  BY <1>4 DEF DecodeValues
<1> HIDE DEF Part, F
<1>6. \A k : k \in 1 .. 1 <=> k = 1
  OBVIOUS
<1>7. (\E k \in 1 .. 1 : DecodeValue(t, Part(k)) = << >>) <=> DecodeValue(t, e) = << >>
  BY <1>3, <1>6
<1>8. DecodeValue(t, e) # << >> =>
        [k \in 1 .. 1 |-> DecodeValue(t, Part(k))[1]] = DecodeValue(t, e)
  <2> SUFFICES ASSUME DecodeValue(t, e) # << >>
               PROVE  [k \in 1 .. 1 |-> DecodeValue(t, Part(k))[1]] = DecodeValue(t, e)
    OBVIOUS
  <2>1. PICK v : DecodeValue(t, e) = <<v>>
    BY DecodedIsValue
  <2>2. [k \in 1 .. 1 |-> DecodeValue(t, Part(k))[1]] = [k \in 1 .. 1 |-> v]
    BY <1>3, <1>6, <2>1
  <2> QED
    BY <2>1, <2>2
<1>9. decodeReadVar(t, e) = DecodeValues(t, 1, e)
  BY <1>1 DEF decodeReadVar, expectSize
<1> QED
  BY <1>5, <1>7, <1>8, <1>9

\* A number in front of a payload.
LEMMA Headed ==
  ASSUME NEW S, S \subseteq Fields, NEW n \in Int, NEW q \in Seq(S),
         NEW r, r = <<Word(n)>> \o q
  PROVE  /\ r \in Seq(Fields) /\ r # << >> /\ r[1] = Word(n) /\ Tail(r) = q
         /\ Size(q) \in Nat /\ Size(r) = 4 + Size(q)
<1>1. Word(n) \in Fields /\ Word(n)[1] = 4
  <2>1. Word(n) = <<4, n>>
    BY DEF Word, writeLittleEndian
  <2> QED
    BY <2>1 DEF Words, Fields
<1>2. q \in Seq(Fields) /\ Len(q) \in Nat
  BY SeqMonotonic, LenProperties
<1> DEFINE h == <<Word(n)>>
<1>3. h \in Seq(Fields) /\ Len(h) = 1 /\ h[1] = Word(n)
  BY <1>1
<1> HIDE DEF h
<1>4. r = h \o q
  BY DEF h
<1>5. /\ r \in Seq(Fields) /\ Len(r) = Len(h) + Len(q)
      /\ \A i \in 1 .. Len(h) : r[i] = h[i]
      /\ \A i \in 1 .. Len(q) : r[Len(h) + i] = q[i]
  BY <1>2, <1>3, <1>4, ConcatPlaces
<1>6. r[1] = Word(n) /\ Len(r) = 1 + Len(q) /\ \A i \in 1 .. Len(q) : r[1 + i] = q[i]
  BY <1>3, <1>5
<1>7. r # << >>
  BY <1>2, <1>6, EmptySeq
<1>8. Tail(r) = q
  <2>1. /\ Tail(r) \in Seq(Fields) /\ Len(Tail(r)) = Len(r) - 1
        /\ \A i \in 1 .. Len(Tail(r)) : Tail(r)[i] = r[i + 1]
    BY <1>5, <1>7, HeadTailProperties
  <2>2. Len(Tail(r)) = Len(q)
    BY <1>2, <1>6, <2>1
  <2>3. \A i \in 1 .. Len(q) : Tail(r)[i] = q[i]
    <3>1. \A i \in 1 .. Len(q) : i + 1 = 1 + i
      BY <1>2
    <3> QED
      BY <1>6, <2>1, <2>2, <3>1
  <2> QED
    BY <1>2, <2>1, <2>2, <2>3, SeqEqual
<1>9. /\ Size(Tail(r)) \in Nat /\ r[1][1] \in {1, 2, 4}
      /\ Size(r) = Size(Tail(r)) + r[1][1]
  BY <1>5, <1>7, TailSize
<1>10. Size(q) \in Nat /\ Size(r) = Size(q) + 4
  BY <1>1, <1>6, <1>8, <1>9
<1> QED
  BY <1>5, <1>6, <1>7, <1>8, <1>10

\* What the decoder makes of many values and their number.
LEMMA DecodedMany ==
  ASSUME NEW t \in Types, NEW q \in Seq(Stored(t)), Len(q) # 1,
         NEW data, data = <<Word(Len(q))>> \o Joined(t, q)
  PROVE  /\ data \in Seq(Fields) /\ data # << >>
         /\ Size(data) = 4 + Len(q) * encoded_size[t] /\ Len(q) * encoded_size[t] \in Nat
         /\ decodeReadVars(t, Len(q), data) =
              IF \E k \in 1 .. Len(q) : DecodeValue(t, q[k]) = << >> THEN Malformed
              ELSE Decoded([k \in 1 .. Len(q) |-> DecodeValue(t, q[k])[1]])
<1> DEFINE n == Len(q)
           joined == Joined(t, q)
<1>1. joined \in Seq(Field(t)) /\ Size(joined) = n * encoded_size[t]
  BY JoinedParts
<1>2. Field(t) \subseteq Fields /\ n \in Int
  BY FieldFacts, LenProperties
<1> HIDE DEF joined, n
<1>3. data = <<Word(n)>> \o joined
  BY DEF joined, n
<1>4. /\ data \in Seq(Fields) /\ data # << >> /\ data[1] = Word(n) /\ Tail(data) = joined
      /\ Size(joined) \in Nat /\ Size(data) = 4 + Size(joined)
  BY <1>1, <1>2, <1>3, Headed
<1>5. ~(Size(data) < 4) /\ Size(data) = 4 + n * encoded_size[t]
  <2>1. \A s \in Nat : ~(4 + s < 4)
    OBVIOUS
  <2> QED
    BY <1>1, <1>4, <2>1
<1>6. Unsigned(data[1]) = n
  BY <1>2, <1>4, WordIsSigned
<1>7. decodeReadVars(t, n, data) = DecodeValues(t, n, joined)
  <2>1. n # 1
    BY DEF n
  <2> QED
    BY <1>4, <1>5, <1>6, <2>1 DEF decodeReadVars, expectSize, expectValue
<1> QED
  BY <1>1, <1>4, <1>5, <1>7, DecodedAll DEF n, joined

=============================================================================
