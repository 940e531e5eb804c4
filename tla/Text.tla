-------------------------------- MODULE Text --------------------------------
(***************************************************************************)
(* Positions in YAML.  A node is a map: a function from its keys to their  *)
(* scalars.  That yaml-cpp reads a number as the one that it wrote is      *)
(* external; the names of the frames and the fields are yaskawa_ethernet's.*)
(***************************************************************************)
EXTENDS Wire

UserNames ==
  <<"user1", "user2", "user3", "user4", "user5", "user6", "user7", "user8", "user9",
    "user10", "user11", "user12", "user13", "user14", "user15", "user16">>

toString(system) ==
  CASE system = base -> "base"
    [] system = robot -> "robot"
    [] system = tool -> "tool"
    [] system = master -> "master"
    [] OTHER -> UserNames[system - user1 + 1]

\* Mutant: the user frames follow the tool frame.
toCoordinateSystemLate(string) ==
  CASE string = "base" -> <<base>>
    [] string = "robot" -> <<robot>>
    [] string = "tool" -> <<user1>>
    [] string = "master" -> <<master>>
    [] \E n \in 1 .. 16 : UserNames[n] = string ->
         <<user1 + CHOOSE n \in 1 .. 16 : UserNames[n] = string>>
    [] OTHER -> << >>

\* << >> is an error.
toCoordinateSystem(string) ==
  CASE string = "base" -> <<base>>
    [] string = "robot" -> <<robot>>
    [] string = "tool" -> <<tool>>
    [] string = "master" -> <<master>>
    [] \E n \in 1 .. 16 : UserNames[n] = string ->
         <<user1 + (CHOOSE n \in 1 .. 16 : UserNames[n] = string) - 1>>
    [] OTHER -> << >>

Axes == <<"x", "y", "z", "rx", "ry", "rz">>

\* YAML::convert<CartesianPosition>::encode.
EncodeYaml(p) ==
  [x |-> p.coordinates[1], y |-> p.coordinates[2], z |-> p.coordinates[3],
   rx |-> p.coordinates[4], ry |-> p.coordinates[5], rz |-> p.coordinates[6],
   frame |-> toString(p.frame), configuration |-> p.configuration, tool |-> p.tool]

\* YAML::convert<CartesianPosition>::decode.  A map with other than nine keys is refused;
\* a key that is missing and an unknown frame throw (<< >>, all of them).  The configuration
\* is cut to a byte and then to six bits.
DecodeYaml(node) ==
  IF \/ Cardinality(DOMAIN node) # 9
     \/ ~ (Range(Axes) \union {"frame", "configuration", "tool"} \subseteq DOMAIN node)
  THEN << >>
  ELSE LET frame == toCoordinateSystem(node["frame"])
       IN  [k \in DOMAIN frame |->
             [kind |-> "cartesian", frame |-> frame[k],
              configuration |-> (node["configuration"] % 256) % 64, tool |-> node["tool"],
              coordinates |-> [i \in 1 .. 6 |-> node[Axes[i]]]]]

=============================================================================
