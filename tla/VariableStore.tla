---------------------------- MODULE VariableStore ----------------------------
(***************************************************************************)
(* What the commands on variables promise to the application: the robot's  *)
(* variables are a store.  A write changes the variables it names, to      *)
(* values near the ones given, and no other; a read is answered with what  *)
(* the store held; success is only reported for what was done, and what    *)
(* failed may have been done or not.                                       *)
(***************************************************************************)
EXTENDS Integers, Sequences

CONSTANTS
  Slots,        \* the indices of the variables
  Near(_, _)    \* Near(v, h): a store that is given v may come to hold h

VARIABLES
  memory,  \* by slot: <<value>>, or << >> for what cannot be read
  asked,   \* the command in progress
  done,    \* it was carried out
  seen,    \* what a read that was carried out found
  answer   \* the result of the last command

vars == <<memory, asked, done, seen, answer>>

None == [op |-> "none"]

Init ==
  /\ DOMAIN memory = Slots
  /\ asked = None
  /\ ~done
  /\ seen = << >>
  /\ answer = [outcome |-> "none", value |-> << >>]

Ask ==
  /\ asked = None
  /\ asked' # None
  /\ ~done' /\ seen' = << >>
  /\ answer' = [outcome |-> "none", value |-> << >>]
  /\ UNCHANGED memory

Read ==
  /\ asked.op = "read"
  /\ ~done /\ done'
  /\ seen' = [k \in 1 .. asked.count |-> memory[asked.index + k - 1]]
  /\ UNCHANGED <<memory, asked, answer>>

Write ==
  /\ asked.op = "write"
  /\ ~done /\ done'
  /\ DOMAIN memory' = Slots
  /\ \A s \in Slots :
       IF s - asked.index + 1 \in DOMAIN asked.values
       THEN Near(asked.values[s - asked.index + 1], memory'[s])
       ELSE memory'[s] = memory[s]
  /\ UNCHANGED <<asked, seen, answer>>

\* What has nothing to do with the variables.
Other ==
  /\ asked.op = "other"
  /\ ~done /\ done'
  /\ UNCHANGED <<memory, asked, seen, answer>>

Answer ==
  /\ done
  /\ asked' = None
  /\ ~done' /\ seen' = << >>
  /\ answer'.outcome = "ok"
  /\ asked.op # "other" => [k \in DOMAIN answer'.value |-> <<answer'.value[k]>>] = seen
  /\ UNCHANGED memory

\* Also of a command that is refused before it begins.
Fail ==
  /\ asked' = None
  /\ ~done' /\ seen' = << >>
  /\ answer'.outcome # "ok"
  /\ UNCHANGED memory

Next == Ask \/ Read \/ Write \/ Other \/ Answer \/ Fail

Spec == Init /\ [][Next]_vars

==============================================================================
