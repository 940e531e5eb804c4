---------------------------- MODULE AllOrNothing ----------------------------
(***************************************************************************)
(* What Client::sendCommands promises whoever calls it: one call of the    *)
(* callback, with the results of all commands or with an error.  A call    *)
(* that is refused, since an id was taken, throws; of the commands that    *)
(* were sent before, the replies may still come and the callback may be    *)
(* called with an error, or never.                                         *)
(***************************************************************************)
EXTENDS Integers

CONSTANT Count   \* number of commands

VARIABLES
  state,     \* "unsent", "refused", "pending", "succeeded" or "failed"
  replied,   \* the commands whose result is in
  halted     \* the program has stopped

vars == <<state, replied, halted>>

Subs == 1 .. Count

Init == state = "unsent" /\ replied = {} /\ halted = FALSE

Send ==
  /\ ~halted
  /\ state = "unsent"
  /\ state' = "pending"
  /\ UNCHANGED <<replied, halted>>

Refuse ==
  /\ ~halted
  /\ state = "unsent"
  /\ state' = "refused"
  /\ halted' \in BOOLEAN
  /\ UNCHANGED replied

\* The result of one more command; the last one is the success of them all.
Reply(i) ==
  /\ ~halted
  /\ state = "pending"
  /\ i \notin replied
  /\ replied' = replied \union {i}
  /\ state' = IF replied' = Subs THEN "succeeded" ELSE "pending"
  /\ UNCHANGED halted

\* A result that completes nothing, since another command was never sent.
StrayReply(i) ==
  /\ ~halted
  /\ state = "refused"
  /\ replied' = replied \union {i}
  /\ replied' # Subs
  /\ UNCHANGED <<state, halted>>

Fail ==
  /\ ~halted
  /\ state = "pending"
  /\ state' = "failed"
  /\ UNCHANGED <<replied, halted>>

FailLate ==
  /\ ~halted
  /\ state = "refused"
  /\ state' = "failed"
  /\ halted' \in BOOLEAN
  /\ UNCHANGED replied

\* The program may stop when a call was refused, and when the callback was
\* called already (a send in progress outlives its session).
Stop ==
  /\ ~halted
  /\ state \notin {"unsent", "pending"}
  /\ halted' = TRUE
  /\ UNCHANGED <<state, replied>>

Next ==
  \/ Send \/ Refuse \/ Fail \/ FailLate \/ Stop
  \/ \E i \in Subs : Reply(i) \/ StrayReply(i)

Spec == Init /\ [][Next]_vars

Ends == Fail \/ \E i \in Subs : Reply(i)

\* The callback is called some day.
FairSpec == Spec /\ WF_vars(Ends)

=============================================================================
