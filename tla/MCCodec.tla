------------------------------- MODULE MCCodec -------------------------------
(* Instance of Codec for TLC: values at the edges of their types and of the   *)
(* frames, and a store that does not fit in one reply.                        *)
EXTENDS Codec

MCFallsShort == (1000 :> {1001}) @@ (10000 :> {3})

Pose(f, c) ==
  [kind |-> "cartesian", frame |-> f, configuration |-> 63, tool |-> 4,
   coordinates |-> <<c, -15, 0, 30, -9, -10010>>]

Pulse == [kind |-> "pulse", tool |-> MinInt, joints |-> <<0, -1, 2, 3, 4, MaxInt>>]

MCWrites ==
  [uint8 |-> {<< >>, <<255>>, <<7, 0>>},
   int16 |-> {<<-1>>, <<300, -32768>>},
   int32 |-> {<<MinInt>>, <<MaxInt, -1>>},
   float |-> {<<0>>, <<-8388608, 1>>},
   position |-> {<<Pulse>>, <<Pose(tool, -10010)>>, <<Pose(user16, 5)>>, <<Pose(master, 5)>>,
                 <<Pose(base, 10010), Pose(16, 5)>>, <<Pose(robot, 30), [Pulse EXCEPT !.joints = << >>]>>}]

MCReads == {<<0, 0>>, <<0, 1>>, <<0, 2>>, <<1, 9>>, <<0, 10>>, <<9, 2>>}

MCTargets == {Pose(base, 5), Pose(master, 5)}

MCFlags == {{"step", "remote", "alarm"}}

==============================================================================
