---------------------------- MODULE CommandPromise ----------------------------
(***************************************************************************)
(* What Client::sendCommand promises whoever calls it, with everything     *)
(* about sockets, timers and handlers left out: each command that is sent  *)
(* is answered exactly once, with its own reply or with an error.          *)
(*                                                                         *)
(* Request ids are reused, so the promise has two exceptions, and both     *)
(* need IdSpace later commands: a command may be answered with the reply   *)
(* to a command sent that long before it, and a command may not be         *)
(* sendable (the program then stops) while one sent that long before it    *)
(* is still pending.                                                       *)
(***************************************************************************)
EXTENDS Integers

CONSTANTS Sessions, NoSession, IdSpace

VARIABLES
  state,    \* of each command
  answer,   \* whose reply a command was answered with, NoSession if none
  serial,   \* place of a command among those sent
  allocs,   \* number of commands sent
  halted    \* the program has stopped

vars == <<state, answer, serial, allocs, halted>>

Init ==
  /\ state = [s \in Sessions |-> "unsent"]
  /\ answer = [s \in Sessions |-> NoSession]
  /\ serial = [s \in Sessions |-> 0]
  /\ allocs = 0
  /\ halted = FALSE

\* The command sent as number n can share its id with the earlier command r.
MayShareId(n, r) == state[r] # "unsent" /\ n - serial[r] >= IdSpace

Take(s) ==
  /\ ~halted
  /\ state[s] = "unsent"
  /\ serial' = [serial EXCEPT ![s] = allocs]
  /\ allocs' = allocs + 1
  /\ UNCHANGED answer

Send(s) ==
  /\ Take(s)
  /\ state' = [state EXCEPT ![s] = "pending"]
  /\ UNCHANGED halted

Refuse(s) ==
  /\ Take(s)
  /\ \E r \in Sessions : state[r] = "pending" /\ MayShareId(allocs, r)
  /\ state' = [state EXCEPT ![s] = "refused"]
  /\ halted' = TRUE

Answer(s, from) ==
  /\ ~halted
  /\ state[s] = "pending"
  /\ from \in {s, NoSession} \/ MayShareId(serial[s], from)
  /\ state' = [state EXCEPT ![s] = "answered"]
  /\ answer' = [answer EXCEPT ![s] = from]
  /\ UNCHANGED <<serial, allocs, halted>>

\* The program may stop when a command was answered already (a send that is
\* still in progress then uses the destroyed session), never before.
Stop ==
  /\ ~halted
  /\ \E s \in Sessions : state[s] = "answered"
  /\ halted' = TRUE
  /\ UNCHANGED <<state, answer, serial, allocs>>

Next ==
  \/ \E s \in Sessions : Send(s) \/ Refuse(s)
  \/ \E s \in Sessions, from \in Sessions \union {NoSession} : Answer(s, from)
  \/ Stop

Spec == Init /\ [][Next]_vars

Answered(s) == \E from \in Sessions \union {NoSession} : Answer(s, from)

\* Every command that was sent is answered some day.
FairSpec == Spec /\ \A s \in Sessions : WF_vars(Answered(s))

=============================================================================
