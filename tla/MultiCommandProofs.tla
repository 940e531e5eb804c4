------------------------- MODULE MultiCommandProofs -------------------------
(***************************************************************************)
(* Proofs about MultiCommand, for any number of commands: types, one       *)
(* result for the whole call, no sub-session left behind, a deadline that  *)
(* is armed while the session waits and never outlives it, and that a call *)
(* keeps the promise of AllOrNothing.                                      *)
(*                                                                         *)
(* The argument is one inductive invariant, Inv.  What it says of the      *)
(* sub-sessions and of the deadline it says of a program that runs: one    *)
(* that threw or crashed takes no further step.                            *)
(***************************************************************************)
EXTENDS MultiCommand, HandlerQueues, FiniteSetTheorems

TimerHandler == Handler("timer", 0, "ok")
ResetHandler == Handler("reset", 0, "ok")

\* What is true of the results, whatever became of the program: the callback
\* is called when the session ends, and a session that waits misses a result.
Results ==
  /\ Len(results) = IF phase \in {"done", "freed"} THEN 1 ELSE 0
  /\ finished_commands = Cardinality(result)
  /\ phase \in {"idle", "started"} => result # Subs
  /\ \A k \in DOMAIN results : results[k] = "success" <=> result = Subs

\* Nothing happened yet.
Idle ==
  phase = "idle" =>
    /\ sendq = << >> /\ queue = << >> /\ sent = {} /\ timer = "off" /\ result = {}
    /\ \A i \in Subs : sub[i] = "new"

\* While the session waits, the sub-sessions that are resolved are those with
\* a result; afterwards no sub-session has a handler registered.
SubSessions ==
  \A i \in Subs :
    /\ phase = "started" => (i \in result <=> sub[i] = "done")
    /\ phase \in {"done", "freed"} => sub[i] # "started"

\* The deadline is armed, or has passed and its handler is queued, while a
\* session waits that started without an exception.  Of the handlers queued,
\* the deadline's runs before the reset, and the reset is the last of both.
Deadline ==
  /\ timer = "waiting" => phase = "started" /\ Unstarted = {}
  /\ phase = "started" /\ Unstarted = {} => timer = "waiting" \/ Holds(queue, TimerHandler)
  /\ Holds(queue, TimerHandler) => \/ phase = "started" /\ Unstarted = {}
                                   \/ phase = "done"
  /\ Holds(queue, ResetHandler) <=> phase = "done"
  /\ Once(queue, ResetHandler)
  /\ phase # "started" => Before(queue, TimerHandler, ResetHandler)

Inv ==
  /\ TypeOK
  /\ Results
  /\ Idle
  /\ Running => SubSessions /\ Deadline

-----------------------------------------------------------------------------
(* Types.                                                                  *)

LEMMA Subsessions ==
  /\ Subs \in SUBSET Int /\ IsFiniteSet(Subs) /\ Cardinality(Subs) = Count
  /\ 1 \in Subs
BY CountAssumption, FS_Interval DEF Subs

LEMMA HandlerTypes ==
  /\ TimerHandler \in Handlers /\ ResetHandler \in Handlers
  /\ Handler("timer", 0, "canceled") \in Handlers
  /\ \A i \in Subs : \A ec \in {"ok", "error"} : Handler("send", i, ec) \in Handlers
  /\ \A i \in Subs : \A ec \in {"ok", "failed"} : Handler("receive", i, ec) \in Handlers
BY DEF TimerHandler, ResetHandler, Handler, Handlers

\* A queue in which neither the deadline's handler nor the reset is.
Plain(e) == ~Holds(e, TimerHandler) /\ ~Holds(e, ResetHandler)

\* Sends that fail, for whatever sub-sessions, are plain.
LEMMA FailedSends ==
  ASSUME NEW n \in Nat, NEW s, \A k \in 1 .. n : s[k] \in Subs
  PROVE  LET e == [k \in 1 .. n |-> Handler("send", s[k], "error")] IN
         e \in Seq(Handlers) /\ Plain(e)
<1> DEFINE e == [k \in 1 .. n |-> Handler("send", s[k], "error")]
<1>1. e \in [1 .. n -> Handlers]
  BY HandlerTypes
<1>2. e \in Seq(Handlers)
  BY <1>1 DEF Seq
<1>3. Plain(e)
  BY DEF Plain, Holds, Handler, TimerHandler, ResetHandler
<1> QED
  BY <1>2, <1>3

LEMMA AbortedSends ==
  ASSUME sendq \in Seq(Subs)
  PROVE  Aborted \in Seq(Handlers) /\ Plain(Aborted)
<1>1. Len(sendq) \in Nat /\ \A k \in 1 .. Len(sendq) : sendq[k] \in Subs
  BY ElementOfSeq, LenProperties
<1> QED
  BY <1>1, FailedSends DEF Aborted

\* A plain queue at the end changes nothing that the invariant says.
LEMMA PlainAtEnd ==
  ASSUME NEW q \in Seq(Handlers), NEW e \in Seq(Handlers), Plain(e)
  PROVE  /\ q \o e \in Seq(Handlers)
         /\ Holds(q \o e, TimerHandler) <=> Holds(q, TimerHandler)
         /\ Holds(q \o e, ResetHandler) <=> Holds(q, ResetHandler)
         /\ Once(q, ResetHandler) => Once(q \o e, ResetHandler)
         /\ Before(q, TimerHandler, ResetHandler) =>
              Before(q \o e, TimerHandler, ResetHandler)
<1>1. Before(e, TimerHandler, ResetHandler)
  BY NothingBefore DEF Plain
<1>2. Before(q, TimerHandler, ResetHandler) => Before(q \o e, TimerHandler, ResetHandler)
  BY <1>1, ConcatBefore
<1>3. /\ Holds(q \o e, TimerHandler) <=> Holds(q, TimerHandler) \/ Holds(e, TimerHandler)
      /\ Holds(q \o e, ResetHandler) <=> Holds(q, ResetHandler) \/ Holds(e, ResetHandler)
      /\ Once(q, ResetHandler) /\ ~Holds(e, ResetHandler) => Once(q \o e, ResetHandler)
  BY ConcatHolds
<1> QED
  BY <1>2, <1>3, ConcatProperties DEF Plain

\* What the session's callback leaves in the queue: the reset, behind whatever
\* of the deadline was queued before.
LEMMA ResetAtEnd ==
  ASSUME NEW q \in Seq(Handlers), ~Holds(q, ResetHandler)
  PROVE  LET r == q \o <<ResetHandler>> IN
         /\ r \in Seq(Handlers)
         /\ Holds(r, ResetHandler)
         /\ Once(r, ResetHandler)
         /\ Before(r, TimerHandler, ResetHandler)
<1> DEFINE e == <<ResetHandler>>
<1>1. /\ e \in Seq(Handlers)
      /\ Holds(e, ResetHandler) /\ Once(e, ResetHandler) /\ ~Holds(e, TimerHandler)
  BY HandlerTypes, ShortQueues DEF TimerHandler, ResetHandler, Handler
<1> HIDE DEF e
<1>2. /\ Holds(q \o e, ResetHandler) <=> Holds(q, ResetHandler) \/ Holds(e, ResetHandler)
      /\ Once(e, ResetHandler) /\ ~Holds(q, ResetHandler) => Once(q \o e, ResetHandler)
  BY <1>1, ConcatHolds
<1>3. Before(e, TimerHandler, ResetHandler)
  BY <1>1, NothingBefore
<1>4. Before(q \o e, TimerHandler, ResetHandler)
  BY <1>1, <1>3, ConcatBefore
<1>5. q \o e \in Seq(Handlers)
  BY <1>1, ConcatProperties
<1>6. <<ResetHandler>> = e
  BY DEF e
<1> QED
  BY <1>1, <1>2, <1>4, <1>5, <1>6

\* The application's code types, and queues nothing but sends that fail.
LEMMA ApplicationRuns ==
  ASSUME TypeOK, NEW q \in Seq(Handlers), NEW after \in Seq(Handlers),
         Application(q, after)
  PROVE  /\ open' \in BOOLEAN /\ sendq' \in Seq(Subs)
         /\ sendq = << >> => sendq' = << >>
         /\ \E e \in Seq(Handlers) :
              /\ Plain(e) /\ queue' = (q \o e) \o after
              /\ sendq = << >> => e = << >>
<1>1. CASE queue' = q \o after /\ UNCHANGED <<open, sendq>>
  <2>1. << >> \in Seq(Handlers) /\ Plain(<< >>) /\ q \o << >> = q
    BY ShortQueues, ConcatEmptySeq DEF Plain
  <2> QED
    BY <1>1, <2>1 DEF TypeOK
<1>2. CASE open' = FALSE /\ sendq' = << >> /\ queue' = q \o Aborted \o after
  <2>1. Aborted \in Seq(Handlers) /\ Plain(Aborted)
    BY AbortedSends DEF TypeOK
  <2>2. sendq = << >> => Aborted = << >>
    BY DEF Aborted
  <2>3. open' \in BOOLEAN /\ sendq' \in Seq(Subs) /\ queue' = (q \o Aborted) \o after
    <3>1. << >> \in Seq(Subs) /\ FALSE \in BOOLEAN
      OBVIOUS
    <3> QED
      BY <1>2, <3>1, Zenon
  <2> QED
    BY <1>2, <2>1, <2>2, <2>3
<1> QED
  BY <1>1, <1>2 DEF Application

\* The handler at the head of the queue.
LEMMA HeadIsHandler ==
  ASSUME TypeOK, queue # << >>
  PROVE  /\ Head(queue) \in Handlers /\ Tail(queue) \in Seq(Handlers)
         /\ Head(queue).op = "reset" => Head(queue) = ResetHandler
         /\ Head(queue).op = "timer" /\ Head(queue).ec # "canceled"
              => Head(queue) = TimerHandler
         /\ Head(queue).op \in {"send", "receive"} => Head(queue).i \in Subs
<1>1. Head(queue) \in Handlers /\ Tail(queue) \in Seq(Handlers)
  BY HeadTailProperties DEF TypeOK
<1> QED
  BY <1>1 DEF Handlers, Handler, TimerHandler, ResetHandler

-----------------------------------------------------------------------------
(* The ends of a handler.                                                  *)

\* The session ends: its callback is called and the reset is posted.
LEMMA FinishKeeps ==
  ASSUME Inv, Running, queue # << >>, phase = "started",
         Head(queue) # ResetHandler,
         NEW outcome \in {"success", "error"}, Finish(outcome),
         status' \in {"running", "threw", "crashed"}, UNCHANGED sent,
         sub' \in [Subs -> {"new", "started", "done"}],
         \A i \in Subs : sub'[i] # "started",
         result' \subseteq Subs, finished_commands' \in 0 .. Count,
         finished_commands' = Cardinality(result'),
         outcome = "success" <=> result' = Subs
  PROVE  Inv'
<1>1. Tail(queue) \in Seq(Handlers) /\ ~Holds(Tail(queue), ResetHandler)
  <2>1. queue \in Seq(Handlers)
    BY DEF Inv, TypeOK
  <2>2. ~Holds(queue, ResetHandler)
    BY DEF Inv, Deadline
  <2>3. Holds(queue, ResetHandler) <=> Head(queue) = ResetHandler \/ Holds(Tail(queue), ResetHandler)
    BY <2>1, TailHolds
  <2> QED
    BY <2>1, <2>2, <2>3, HeadTailProperties
<1>2. AbortedWait \in Seq(Handlers) /\ ~Holds(AbortedWait, ResetHandler)
  BY HandlerTypes, ShortQueues DEF AbortedWait, Handler, ResetHandler
<1> DEFINE q == Tail(queue) \o AbortedWait
           after == <<ResetHandler>>
<1>3. q \in Seq(Handlers) /\ ~Holds(q, ResetHandler) /\ after \in Seq(Handlers)
  <2>1. Holds(q, ResetHandler) <=> Holds(Tail(queue), ResetHandler) \/ Holds(AbortedWait, ResetHandler)
    BY <1>1, <1>2, ConcatHolds
  <2> QED
    BY <1>1, <1>2, <2>1, ConcatProperties, HandlerTypes
<1>4. Application(q, after)
  BY DEF Finish, ResetHandler
<1> HIDE DEF q
<1>5. /\ open' \in BOOLEAN /\ sendq' \in Seq(Subs)
      /\ \E e \in Seq(Handlers) : Plain(e) /\ queue' = (q \o e) \o after
  BY <1>3, <1>4, ApplicationRuns DEF Inv
<1>6. PICK e \in Seq(Handlers) : Plain(e) /\ queue' = (q \o e) \o after
  BY <1>5
<1>7. q \o e \in Seq(Handlers) /\ ~Holds(q \o e, ResetHandler)
  BY <1>3, <1>6, PlainAtEnd
<1>8. /\ queue' \in Seq(Handlers)
      /\ Holds(queue', ResetHandler)
      /\ Once(queue', ResetHandler)
      /\ Before(queue', TimerHandler, ResetHandler)
  BY <1>6, <1>7, ResetAtEnd
<1>9. phase' = "done" /\ timer' = "off" /\ results' = Append(results, outcome)
  BY DEF Finish
<1>10. results' \in Seq({"success", "error"}) /\ Len(results') = 1 /\ results'[1] = outcome
  BY <1>9 DEF Inv, TypeOK, Results
<1>11. TypeOK'
  BY <1>5, <1>8, <1>9, <1>10 DEF Inv, TypeOK
<1>12. Results'
  <2>1. \A k \in DOMAIN results' : k = 1
    BY <1>10
  <2> QED
    BY <1>9, <1>10, <2>1 DEF Results
<1>13. Idle' /\ SubSessions'
  BY <1>9 DEF Idle, SubSessions
<1>14. Deadline'
  BY <1>8, <1>9 DEF Deadline
<1> QED
  BY <1>11, <1>12, <1>13, <1>14 DEF Inv

\* A handler leaves the queue and the session goes on, whatever happened to its
\* sub-sessions.
LEMMA PopKeeps ==
  ASSUME Inv, Running, queue # << >>, queue' = Tail(queue),
         Head(queue) # ResetHandler,
         Head(queue) = TimerHandler => phase # "started" \/ ~Running',
         status' \in {"running", "threw", "crashed"},
         UNCHANGED <<open, sendq, sent, phase, timer, results>>,
         sub' \in [Subs -> {"new", "started", "done"}],
         result' \subseteq Subs, finished_commands' \in 0 .. Count,
         Results', Running' => SubSessions',
         Running' /\ phase = "started" => Unstarted' = Unstarted
  PROVE  Inv'
<1>1. queue \in Seq(Handlers) /\ queue' \in Seq(Handlers)
  BY HeadTailProperties DEF Inv, TypeOK
<1>2. TypeOK'
  BY <1>1 DEF Inv, TypeOK
<1>3. phase # "idle"
  BY DEF Inv, Idle
<1>4. ASSUME Running'
      PROVE  Deadline'
  <2>1. /\ Holds(queue, TimerHandler) <=> Head(queue) = TimerHandler \/ Holds(queue', TimerHandler)
        /\ Holds(queue, ResetHandler) <=> Head(queue) = ResetHandler \/ Holds(queue', ResetHandler)
        /\ Once(queue, ResetHandler) => Once(queue', ResetHandler)
    BY <1>1, TailHolds
  <2>2. Before(queue, TimerHandler, ResetHandler) => Before(queue', TimerHandler, ResetHandler)
    BY <1>1, TailBefore
  <2>3. Deadline
    BY DEF Inv
  <2> QED
    BY <1>4, <2>1, <2>2, <2>3 DEF Deadline
<1> QED
  BY <1>2, <1>3, <1>4 DEF Inv, Idle

\* A handler that changes nothing but the queue, and that may crash.
LEMMA NothingKeeps ==
  ASSUME Inv, Running, queue # << >>, Nothing,
         Head(queue) # ResetHandler, Head(queue) # TimerHandler,
         status' \in {"running", "threw", "crashed"}, UNCHANGED sent
  PROVE  Inv'
<1>1. UNCHANGED <<phase, sub, timer, finished_commands, result, results>>
  BY DEF Nothing, work
<1>2. Results' /\ SubSessions' /\ Unstarted' = Unstarted
  BY <1>1 DEF Inv, Results, SubSessions, Unstarted
<1>3. /\ sub' \in [Subs -> {"new", "started", "done"}]
      /\ result' \subseteq Subs /\ finished_commands' \in 0 .. Count
  BY <1>1 DEF Inv, TypeOK
<1>4. queue' = Tail(queue) /\ UNCHANGED <<open, sendq, sent, phase, timer, results>>
  BY <1>1 DEF Nothing
<1> QED
  BY <1>2, <1>3, <1>4, PopKeeps

\* The session resolves with an error, or was done already.
LEMMA ResolveKeeps ==
  ASSUME Inv, Running, queue # << >>, NEW own \in SUBSET Subs, Resolve(own),
         Head(queue) # ResetHandler, UNCHANGED sent
  PROVE  Inv'
<1>1. /\ finished_commands' = finished_commands /\ result' = result
      /\ result' \subseteq Subs /\ finished_commands' \in 0 .. Count
      /\ finished_commands' = Cardinality(result')
  BY DEF Resolve, Inv, TypeOK, Results
<1>2. StopSessions(own) = [i \in Subs |-> "done"]
  BY DEF StopSessions, SubDone
<1>3. CASE /\ AlreadyDone /\ MayCrash /\ queue' = Tail(queue) /\ sub' = SubDone(own)
           /\ UNCHANGED <<open, sendq, phase, timer, results>>
  <2>1. status' \in {"running", "threw", "crashed"} /\ phase # "started"
    BY <1>3 DEF MayCrash, AlreadyDone, Running
  <2>2. /\ sub' \in [Subs -> {"new", "started", "done"}]
        /\ \A i \in Subs : sub'[i] = sub[i] \/ sub'[i] = "done"
    BY <1>3 DEF SubDone, Inv, TypeOK
  <2>3. Results' /\ SubSessions'
    BY <1>1, <1>3, <2>1, <2>2 DEF Inv, Results, SubSessions
  <2> QED
    BY <1>1, <1>3, <2>1, <2>2, <2>3, PopKeeps
<1>4. CASE /\ ~AlreadyDone
           /\ status' \in IF Unstarted = {} THEN {status} ELSE {status, "crashed"}
           /\ sub' = StopSessions(own)
           /\ Finish("error")
  <2>1. phase = "started" /\ result # Subs
    BY <1>4 DEF AlreadyDone, Inv, Results
  <2>2. status' \in {"running", "threw", "crashed"}
    BY <1>4 DEF Running
  <2>3. /\ sub' \in [Subs -> {"new", "started", "done"}]
        /\ \A i \in Subs : sub'[i] # "started"
    BY <1>2, <1>4
  <2> QED
    BY <1>1, <1>4, <2>1, <2>2, <2>3, FinishKeeps
<1>5. CASE /\ ~AlreadyDone /\ status' \in {"threw", "crashed"} /\ queue' = Tail(queue)
           /\ sub' = StopSessions(own)
           /\ UNCHANGED <<open, sendq, phase, timer, results>>
  <2>1. ~Running' /\ status' \in {"running", "threw", "crashed"}
    BY <1>5 DEF Running
  <2>2. sub' \in [Subs -> {"new", "started", "done"}]
    BY <1>2, <1>5
  <2>3. Results'
    BY <1>1, <1>5 DEF Inv, Results
  <2> QED
    BY <1>1, <1>5, <2>1, <2>2, <2>3, PopKeeps
<1> QED
  BY <1>3, <1>4, <1>5 DEF Resolve

\* One more result: of the commands one was missing, and if it was the last,
\* none is now.
LEMMA OneMoreResult ==
  ASSUME Inv, NEW i \in Subs, i \notin result
  PROVE  /\ result \union {i} \subseteq Subs
         /\ finished_commands + 1 = Cardinality(result \union {i})
         /\ finished_commands + 1 \in 0 .. Count
         /\ finished_commands + 1 = Count <=> result \union {i} = Subs
<1>1. /\ result \subseteq Subs /\ finished_commands = Cardinality(result)
      /\ IsFiniteSet(Subs) /\ Cardinality(Subs) = Count
  BY Subsessions DEF Inv, TypeOK, Results
<1>2. IsFiniteSet(result) /\ Cardinality(result) \in Nat
  BY <1>1, FS_Subset, FS_CardinalityType
<1>3. Cardinality(result \union {i}) = Cardinality(result) + 1
  BY <1>2, FS_AddElement
<1>4. /\ Cardinality(result \union {i}) <= Count
      /\ Cardinality(result \union {i}) = Count => result \union {i} = Subs
  BY <1>1, FS_Subset
<1>5. finished_commands + 1 = Cardinality(result \union {i})
  BY <1>1, <1>3
<1>6. finished_commands + 1 \in 0 .. Count
  BY <1>1, <1>2, <1>4, <1>5, CountAssumption
<1>7. result \union {i} = Subs => finished_commands + 1 = Count
  BY <1>1, <1>5
<1> QED
  BY <1>1, <1>4, <1>5, <1>6, <1>7

LEMMA CollectKeeps ==
  ASSUME Inv, Running, queue # << >>, NEW i \in Subs, Registered(i), Collect(i),
         Head(queue) # ResetHandler, Head(queue) # TimerHandler,
         UNCHANGED <<status, sent>>
  PROVE  Inv'
<1>1. phase = "started" /\ i \notin result
  BY DEF Inv, SubSessions, Registered, TypeOK, Idle
<1>2. /\ result' = result \union {i} /\ finished_commands' = finished_commands + 1
      /\ result' \subseteq Subs /\ finished_commands' \in 0 .. Count
      /\ finished_commands' = Cardinality(result')
      /\ finished_commands' = Count <=> result' = Subs
  BY <1>1, OneMoreResult DEF Collect
<1>3. /\ sub' \in [Subs -> {"new", "started", "done"}]
      /\ \A j \in Subs : sub'[j] = IF j = i THEN "done" ELSE sub[j]
  BY DEF Collect, SubDone, Inv, TypeOK
<1>4. SubSessions' \/ phase' # "started"
  BY <1>1, <1>2, <1>3 DEF Inv, SubSessions
<1>5. CASE IsLast /\ Finish("success")
  <2>1. result' = Subs
    BY <1>2, <1>5 DEF IsLast
  <2>2. \A j \in Subs : sub'[j] # "started"
    BY <1>1, <1>2, <1>3, <2>1 DEF Inv, SubSessions
  <2>3. status' \in {"running", "threw", "crashed"}
    BY DEF Running
  <2> QED
    BY <1>1, <1>2, <1>3, <1>5, <2>1, <2>2, <2>3, FinishKeeps
<1>6. CASE ~IsLast /\ queue' = Tail(queue) /\ UNCHANGED <<open, sendq, phase, timer, results>>
  <2>1. result' # Subs
    BY <1>2, <1>6 DEF IsLast
  <2>2. Results'
    <3>1. phase' = "started" /\ results' = results /\ Len(results) = 0
      BY <1>1, <1>6 DEF Inv, Results
    <3>2. DOMAIN results' = {}
      BY <3>1 DEF Inv, TypeOK
    <3> QED
      BY <1>2, <2>1, <3>1, <3>2 DEF Results
  <2>3. Unstarted' = Unstarted
    BY <1>3 DEF Unstarted, Registered
  <2>4. status' \in {"running", "threw", "crashed"} /\ SubSessions'
    BY <1>1, <1>4, <1>6 DEF Running
  <2> QED
    BY <1>2, <1>3, <1>6, <2>2, <2>3, <2>4, PopKeeps
<1> QED
  BY <1>5, <1>6 DEF Collect

-----------------------------------------------------------------------------
(* The invariant.                                                          *)

LEMMA InvInit == Init => Inv
<1> SUFFICES ASSUME Init
             PROVE  Inv
  OBVIOUS
<1>1. TypeOK
  BY CountAssumption DEF Init, TypeOK
<1>2. Results
  BY Subsessions, FS_EmptySet DEF Init, Results
<1>3. Idle
  BY DEF Init, Idle
<1>4. SubSessions
  BY DEF Init, SubSessions
<1>5. Deadline
  BY ShortQueues, NothingBefore DEF Init, Deadline
<1> QED
  BY <1>1, <1>2, <1>3, <1>4, <1>5 DEF Inv

\* The steps that queue plain handlers and leave the sessions alone.
LEMMA QueuePlain ==
  ASSUME Inv, Running, NEW e \in Seq(Handlers), Plain(e), queue' = queue \o e,
         UNCHANGED <<status, work>>, open' \in BOOLEAN, sendq' \in Seq(Subs),
         sent' \subseteq Subs,
         phase = "idle" => e = << >> /\ sendq' = << >> /\ sent' = {}
  PROVE  Inv'
<1>1. UNCHANGED <<phase, sub, timer, finished_commands, result, results>> /\ status' = status
  BY DEF work
<1>2. queue \in Seq(Handlers)
  BY DEF Inv, TypeOK
<1>3. /\ queue' \in Seq(Handlers)
      /\ Holds(queue', TimerHandler) <=> Holds(queue, TimerHandler)
      /\ Holds(queue', ResetHandler) <=> Holds(queue, ResetHandler)
      /\ Once(queue, ResetHandler) => Once(queue', ResetHandler)
      /\ Before(queue, TimerHandler, ResetHandler) =>
           Before(queue', TimerHandler, ResetHandler)
  BY <1>2, PlainAtEnd
<1>4. TypeOK'
  BY <1>1, <1>3 DEF Inv, TypeOK
<1>5. Results' /\ SubSessions'
  BY <1>1 DEF Inv, Running, Results, SubSessions
<1>6. Idle'
  <2>1. phase = "idle" => queue' = << >>
    BY <1>2, ConcatEmptySeq DEF Inv, Idle
  <2> QED
    BY <1>1, <2>1 DEF Inv, Idle
<1>7. Deadline'
  BY <1>1, <1>3 DEF Inv, Running, Deadline, Unstarted
<1> QED
  BY <1>4, <1>5, <1>6, <1>7 DEF Inv

LEMMA SendCommandsKeeps ==
  ASSUME Inv, Running, SendCommands
  PROVE  Inv'
<1>1. PICK k \in 1 .. Count + 1 :
        LET begun == [i \in 1 .. k - 1 |-> i] IN
        /\ sub' = [i \in Subs |-> IF i < k THEN "started" ELSE "new"]
        /\ status' \in IF k <= Count THEN {"threw", status} ELSE {status}
        /\ timer' = IF k <= Count THEN timer ELSE StartTimer
        /\ IF open
           THEN sendq' = sendq \o begun /\ UNCHANGED queue
           ELSE /\ queue' = queue \o [i \in 1 .. k - 1 |-> Handler("send", i, "error")]
                /\ UNCHANGED sendq
  BY DEF SendCommands
<1>2. /\ phase = "idle" /\ phase' = "started"
      /\ UNCHANGED <<open, sent, finished_commands, result, results>>
  BY DEF SendCommands
<1>3. /\ queue = << >> /\ sendq = << >> /\ timer = "off" /\ result = {}
      /\ queue \in Seq(Handlers)
  BY <1>2 DEF Inv, Idle, TypeOK
<1> DEFINE begun == [i \in 1 .. k - 1 |-> i]
           refused == [i \in 1 .. k - 1 |-> Handler("send", begun[i], "error")]
<1>4. /\ k - 1 \in Nat /\ begun \in Seq(Subs)
      /\ \A i \in 1 .. k - 1 : begun[i] \in Subs
  <2>1. k - 1 \in Nat /\ begun \in [1 .. k - 1 -> Subs]
    BY CountAssumption DEF Subs
  <2> QED
    BY <2>1 DEF Seq
<1>5. refused \in Seq(Handlers) /\ Plain(refused)
  BY <1>4, FailedSends
<1>6. refused = [i \in 1 .. k - 1 |-> Handler("send", i, "error")]
  OBVIOUS
<1>7. Plain(<< >>)
  BY ShortQueues DEF Plain
<1>8. /\ queue' \in Seq(Handlers) /\ sendq' \in Seq(Subs)
      /\ Plain(queue')
  <2>1. CASE open
    BY <1>1, <1>3, <1>4, <1>7, <2>1, ConcatEmptySeq DEF Inv, TypeOK
  <2>2. CASE ~open
    <3>1. queue' = << >> \o refused /\ sendq' = sendq
      BY <1>1, <1>3, <1>6, <2>2
    <3>2. queue' = refused
      BY <1>5, <3>1, ConcatEmptySeq
    <3> QED
      BY <1>5, <3>1, <3>2 DEF Inv, TypeOK
  <2> QED
    BY <2>1, <2>2
<1>9. status' \in {"running", "threw"} /\ timer' \in {"off", "waiting"}
  BY <1>1, <1>3 DEF Running, StartTimer
<1>10. sub' \in [Subs -> {"new", "started", "done"}]
  BY <1>1
<1>11. TypeOK'
  BY <1>2, <1>8, <1>9, <1>10 DEF Inv, TypeOK
<1>12. Results' /\ Idle'
  BY <1>2 DEF Inv, Results, Idle
<1>13. SubSessions'
  BY <1>1, <1>2, <1>3 DEF SubSessions
<1>14. Deadline'
  <2>1. timer' = "waiting" <=> k = Count + 1
    BY <1>1, <1>3, CountAssumption DEF StartTimer
  <2>2. Unstarted' = {} <=> k = Count + 1
    <3>1. k = Count + 1 => Unstarted' = {}
      BY <1>1, CountAssumption DEF Unstarted, Subs
    <3>2. k # Count + 1 => k \in Unstarted'
      BY <1>1, CountAssumption DEF Unstarted, Subs
    <3> QED
      BY <3>1, <3>2
  <2>3. ~Holds(queue', TimerHandler) /\ ~Holds(queue', ResetHandler)
    BY <1>8 DEF Plain
  <2>4. Once(queue', ResetHandler)
    BY <2>3, NothingBefore
  <2> QED
    BY <1>2, <2>1, <2>2, <2>3, <2>4 DEF Deadline
<1> QED
  BY <1>11, <1>12, <1>13, <1>14 DEF Inv

LEMMA SendEndsKeeps ==
  ASSUME Inv, Running, SendEnds
  PROVE  Inv'
<1>1. /\ sendq # << >> /\ sendq \in Seq(Subs) /\ sendq' = Tail(sendq)
      /\ UNCHANGED <<status, open, work>>
  BY DEF SendEnds, Inv, TypeOK
<1>2. Head(sendq) \in Subs /\ sendq' \in Seq(Subs)
  BY <1>1, HeadTailProperties
<1>3. phase # "idle"
  BY <1>1 DEF Inv, Idle
<1>4. PICK ec \in {"ok", "error"} :
        /\ queue' = Append(queue, Handler("send", Head(sendq), ec))
        /\ sent' \in {sent, sent \union {Head(sendq)}}
  BY DEF SendEnds, Enqueue
<1> DEFINE e == <<Handler("send", Head(sendq), ec)>>
<1>5. e \in Seq(Handlers) /\ Plain(e)
  <2>1. Handler("send", Head(sendq), ec) \in Handlers
    BY <1>2, HandlerTypes
  <2>2. Handler("send", Head(sendq), ec) \notin {TimerHandler, ResetHandler}
    BY DEF TimerHandler, ResetHandler, Handler
  <2> QED
    BY <2>1, <2>2, ShortQueues DEF Plain
<1>6. queue' = queue \o e
  BY <1>2, <1>4, HandlerTypes, AppendIsConcat DEF Inv, TypeOK
<1>7. sent' \subseteq Subs /\ open' \in BOOLEAN
  BY <1>1, <1>2, <1>4 DEF Inv, TypeOK
<1> HIDE DEF e
<1> QED
  BY <1>1, <1>2, <1>3, <1>5, <1>6, <1>7, QueuePlain

LEMMA ReceiveEndsKeeps ==
  ASSUME Inv, Running, NEW i \in Subs, NEW ec \in {"ok", "failed"}, ReceiveEnds(i, ec)
  PROVE  Inv'
<1>1. /\ i \in sent /\ queue' = Append(queue, Handler("receive", i, ec))
      /\ UNCHANGED <<status, open, sendq, sent, work>>
  BY DEF ReceiveEnds, Enqueue
<1>2. phase # "idle"
  BY <1>1 DEF Inv, Idle
<1> DEFINE e == <<Handler("receive", i, ec)>>
<1>3. e \in Seq(Handlers) /\ Plain(e)
  <2>1. Handler("receive", i, ec) \in Handlers
    BY HandlerTypes
  <2>2. Handler("receive", i, ec) \notin {TimerHandler, ResetHandler}
    BY DEF TimerHandler, ResetHandler, Handler
  <2> QED
    BY <2>1, <2>2, ShortQueues DEF Plain
<1>4. queue' = queue \o e
  BY <1>1, HandlerTypes, AppendIsConcat DEF Inv, TypeOK
<1>5. open' \in BOOLEAN /\ sendq' \in Seq(Subs) /\ sent' \subseteq Subs
  BY <1>1 DEF Inv, TypeOK
<1> HIDE DEF e
<1> QED
  BY <1>1, <1>2, <1>3, <1>4, <1>5, QueuePlain

LEMMA CloseKeeps ==
  ASSUME Inv, Running, Close
  PROVE  Inv'
<1>1. Application(queue, << >>) /\ UNCHANGED <<status, sent, work>>
  BY DEF Close
<1>2. queue \in Seq(Handlers) /\ << >> \in Seq(Handlers) /\ sent \subseteq Subs
  BY DEF Inv, TypeOK
<1>3. /\ open' \in BOOLEAN /\ sendq' \in Seq(Subs)
      /\ sendq = << >> => sendq' = << >>
      /\ \E e \in Seq(Handlers) :
           /\ Plain(e) /\ queue' = (queue \o e) \o << >>
           /\ sendq = << >> => e = << >>
  BY <1>1, <1>2, ApplicationRuns DEF Inv
<1>4. PICK e \in Seq(Handlers) : /\ Plain(e) /\ queue' = (queue \o e) \o << >>
                                 /\ sendq = << >> => e = << >>
  BY <1>3
<1>5. queue' = queue \o e
  BY <1>2, <1>4, ConcatProperties, ConcatEmptySeq
<1>6. phase = "idle" => e = << >> /\ sendq' = << >> /\ sent' = {}
  BY <1>1, <1>3, <1>4 DEF Inv, Idle
<1> QED
  BY <1>1, <1>2, <1>3, <1>4, <1>5, <1>6, QueuePlain

LEMMA TimerEndsKeeps ==
  ASSUME Inv, Running, TimerEnds
  PROVE  Inv'
<1>1. /\ timer = "waiting" /\ timer' = "off"
      /\ queue' = Append(queue, TimerHandler)
      /\ UNCHANGED <<status, open, sendq, sent, phase, sub, finished_commands, result,
                     results>>
  BY DEF TimerEnds, Enqueue, TimerHandler
<1>2. phase = "started" /\ Unstarted = {} /\ ~Holds(queue, ResetHandler)
  BY <1>1 DEF Inv, Deadline
<1> DEFINE e == <<TimerHandler>>
<1>3. queue \in Seq(Handlers) /\ e \in Seq(Handlers) /\ queue' = queue \o e
  BY <1>1, HandlerTypes, AppendIsConcat DEF Inv, TypeOK
<1>4. Holds(e, TimerHandler) /\ ~Holds(e, ResetHandler)
  BY ShortQueues DEF TimerHandler, ResetHandler, Handler
<1> HIDE DEF e
<1>5. /\ Holds(queue', TimerHandler) <=> Holds(queue, TimerHandler) \/ Holds(e, TimerHandler)
      /\ Holds(queue', ResetHandler) <=> Holds(queue, ResetHandler) \/ Holds(e, ResetHandler)
  BY <1>3, ConcatHolds
<1>6. Once(queue', ResetHandler)
  BY <1>2, <1>4, <1>5, NothingBefore
<1>7. Unstarted' = Unstarted
  BY <1>1 DEF Unstarted
<1>8. TypeOK'
  BY <1>1, <1>3, ConcatProperties DEF Inv, TypeOK
<1>9. Results' /\ Idle' /\ SubSessions'
  BY <1>1, <1>2 DEF Inv, Running, Results, Idle, SubSessions
<1>10. Deadline'
  BY <1>1, <1>2, <1>4, <1>5, <1>6, <1>7 DEF Deadline
<1> QED
  BY <1>8, <1>9, <1>10 DEF Inv

LEMMA ResetKeeps ==
  ASSUME Inv, Running, OnReset
  PROVE  Inv'
<1>1. /\ queue # << >> /\ Head(queue) = ResetHandler /\ queue \in Seq(Handlers)
      /\ queue' = Tail(queue) /\ phase' = "freed"
      /\ UNCHANGED <<status, open, sendq, sent, sub, timer, finished_commands, result,
                     results>>
  BY HeadIsHandler DEF OnReset, Ready, Inv, TypeOK
<1>2. /\ Holds(queue, ResetHandler) <=> Head(queue) = ResetHandler \/ Holds(queue', ResetHandler)
      /\ Once(queue, ResetHandler) /\ Head(queue) = ResetHandler => ~Holds(queue', ResetHandler)
  BY <1>1, TailHolds
<1>3. /\ phase = "done" /\ timer = "off" /\ ~Holds(queue', ResetHandler)
      /\ Before(queue, TimerHandler, ResetHandler)
  BY <1>1, <1>2 DEF Inv, Deadline, TypeOK
<1>4. Before(queue', TimerHandler, ResetHandler)
  BY <1>1, <1>3, TailBefore
<1>5. ~Holds(queue', TimerHandler)
  BY <1>3, <1>4 DEF Before, Holds
<1>6. Once(queue', ResetHandler)
  BY <1>3, NothingBefore
<1>7. TypeOK'
  BY <1>1, HeadTailProperties DEF Inv, TypeOK
<1>8. Results' /\ Idle' /\ SubSessions'
  BY <1>1, <1>3 DEF Inv, Running, Results, Idle, SubSessions
<1>9. Deadline'
  BY <1>1, <1>3, <1>4, <1>5, <1>6 DEF Deadline
<1> QED
  BY <1>7, <1>8, <1>9 DEF Inv

LEMMA DispatchKeeps ==
  ASSUME Inv, Dispatch
  PROVE  Inv'
<1>1. Running /\ TypeOK
  BY DEF Dispatch, Inv
<1>2. ASSUME OnReceive
      PROVE  Inv'
  <2> DEFINE h == Head(queue)
  <2>1. queue # << >> /\ h.op = "receive" /\ sent' = sent
    BY <1>2 DEF OnReceive, Ready
  <2>2. h.i \in Subs /\ h # ResetHandler /\ h # TimerHandler
    BY <1>1, <2>1, HeadIsHandler DEF ResetHandler, TimerHandler, Handler
  <2>3. \/ Nothing /\ UNCHANGED status
        \/ Registered(h.i) /\ Collect(h.i) /\ UNCHANGED status
        \/ Resolve({h.i})
    BY <1>2 DEF OnReceive
  <2>4. status \in {"running", "threw", "crashed"}
    BY <1>1 DEF Running
  <2>5. {h.i} \in SUBSET Subs
    BY <2>2
  <2> HIDE DEF h
  <2>6. h = Head(queue)
    BY DEF h
  <2>7. CASE Nothing /\ UNCHANGED status
    BY <1>1, <2>1, <2>2, <2>4, <2>6, <2>7, NothingKeeps
  <2>8. CASE Registered(h.i) /\ Collect(h.i) /\ UNCHANGED status
    BY <1>1, <2>1, <2>2, <2>6, <2>8, CollectKeeps
  <2>9. CASE Resolve({h.i})
    BY <1>1, <2>1, <2>2, <2>5, <2>6, <2>9, ResolveKeeps
  <2> QED
    BY <2>3, <2>7, <2>8, <2>9
<1>3. ASSUME OnSend
      PROVE  Inv'
  <2> DEFINE h == Head(queue)
  <2>1. queue # << >> /\ h.op = "send" /\ sent' = sent
    BY <1>3 DEF OnSend, Ready
  <2>2. h.i \in Subs /\ h # ResetHandler /\ h # TimerHandler
    BY <1>1, <2>1, HeadIsHandler DEF ResetHandler, TimerHandler, Handler
  <2>3. \/ Nothing /\ status' \in {"running", "threw", "crashed"}
        \/ Resolve({h.i})
    BY <1>1, <1>3 DEF OnSend, MayCrash, Running
  <2>5. {h.i} \in SUBSET Subs
    BY <2>2
  <2> HIDE DEF h
  <2>6. h = Head(queue)
    BY DEF h
  <2>7. CASE Nothing /\ status' \in {"running", "threw", "crashed"}
    BY <1>1, <2>1, <2>2, <2>6, <2>7, NothingKeeps
  <2>8. CASE Resolve({h.i})
    BY <1>1, <2>1, <2>2, <2>5, <2>6, <2>8, ResolveKeeps
  <2> QED
    BY <2>3, <2>7, <2>8
<1>4. ASSUME OnTimer
      PROVE  Inv'
  <2>1. /\ queue # << >> /\ Head(queue).op = "timer" /\ sent' = sent
        /\ Head(queue) # ResetHandler
    BY <1>4 DEF OnTimer, Ready, ResetHandler, Handler
  <2>2. CASE Head(queue).ec = "canceled" /\ Nothing /\ UNCHANGED status
    <3>1. Head(queue) # TimerHandler /\ status' \in {"running", "threw", "crashed"}
      BY <1>1, <2>2 DEF TimerHandler, Handler, Running
    <3> QED
      BY <1>1, <2>1, <2>2, <3>1, NothingKeeps
  <2>3. CASE Resolve({})
    BY <1>1, <2>1, <2>3, ResolveKeeps
  <2> QED
    BY <1>4, <2>2, <2>3 DEF OnTimer
<1>5. ASSUME OnReset
      PROVE  Inv'
  BY <1>1, <1>5, ResetKeeps
<1> QED
  BY <1>2, <1>3, <1>4, <1>5 DEF Dispatch

LEMMA InvNext == Inv /\ [Next]_vars => Inv'
<1> SUFFICES ASSUME Inv, [Next]_vars
             PROVE  Inv'
  OBVIOUS
<1>1. CASE Running /\ SendCommands
  BY <1>1, SendCommandsKeeps
<1>2. CASE Running /\ Close
  BY <1>2, CloseKeeps
<1>3. CASE Running /\ SendEnds
  BY <1>3, SendEndsKeeps
<1>4. CASE DeadlinePasses
  BY <1>4, TimerEndsKeeps DEF DeadlinePasses
<1>5. ASSUME NEW i \in Subs, NEW ec \in {"ok", "failed"}, Running, ReceiveEnds(i, ec)
      PROVE  Inv'
  BY <1>5, ReceiveEndsKeeps
<1>6. CASE Dispatch
  BY <1>6, DispatchKeeps
<1>7. CASE UNCHANGED vars
  BY <1>7 DEF vars, work, Inv, TypeOK, Results, Idle, Running, SubSessions, Deadline,
              Unstarted
<1> QED
  BY <1>1, <1>2, <1>3, <1>4, <1>5, <1>6, <1>7 DEF Next

THEOREM Invariant == Spec => []Inv
<1> QED
  BY InvInit, InvNext, PTL DEF Spec

-----------------------------------------------------------------------------
(* What follows from it.                                                   *)

\* Every variable keeps its type; finished_commands_ never passes the number of
\* commands.
THEOREM TypeCorrect == Spec => []TypeOK
<1>1. Inv => TypeOK
  BY DEF Inv
<1> QED
  BY Invariant, <1>1, PTL

\* However many commands there are and in whatever order their replies, their
\* failed sends and the deadline come, the callback of Client::sendCommands is
\* called once, and with success only when every command has its result.
THEOREM OneResultForAll == Spec => []OneResult
<1>1. Inv => OneResult
  BY DEF Inv, Results, OneResult
<1> QED
  BY Invariant, <1>1, PTL

\* stop_sessions_ leaves no sub-session registered behind a session that is done,
\* and while it waits every one without a result is registered.
THEOREM NoneLeftBehind == Spec => []NoneLeft
<1>1. Inv => NoneLeft
  <2> SUFFICES ASSUME Inv, Running, NEW i \in Subs
               PROVE  /\ sub[i] = "started" => phase = "started" /\ i \notin result
                      /\ phase = "started" /\ i \notin result => sub[i] = "started" \/ Caught
    BY DEF NoneLeft
  <2>1. /\ sub[i] \in {"new", "started", "done"}
        /\ phase \in {"idle", "started", "done", "freed"}
        /\ phase = "idle" => sub[i] = "new"
        /\ phase = "started" => (i \in result <=> sub[i] = "done")
        /\ phase \in {"done", "freed"} => sub[i] # "started"
    BY DEF Inv, TypeOK, Idle, SubSessions
  <2>2. phase = "started" /\ sub[i] = "new" => Caught
    BY DEF Caught, Unstarted
  <2> QED
    BY <2>1, <2>2
<1> QED
  BY Invariant, <1>1, PTL

\* The deadline is armed exactly while a session waits that started, and a deadline
\* that has passed is handled before the session is destroyed.
THEOREM DeadlineIsHandled == Spec => []DeadlineKeepsUp
<1>1. Inv => DeadlineKeepsUp
  <2> DEFINE at(op) == {k \in DOMAIN queue : queue[k].op = op /\ queue[k].ec = "ok"}
  <2> SUFFICES ASSUME Inv, Running
               PROVE  /\ phase = "started" /\ ~Caught <=>
                           \/ timer = "waiting"
                           \/ at("timer") # {} /\ at("reset") = {}
                      /\ \A k \in at("timer") :
                           phase # "started" => \E j \in at("reset") : j > k
    BY DEF DeadlineKeepsUp
  <2>1. \A k \in DOMAIN queue : queue[k] \in Handlers
    BY DEF Inv, TypeOK
  <2>2. /\ at("timer") = {k \in DOMAIN queue : queue[k] = TimerHandler}
        /\ at("reset") = {k \in DOMAIN queue : queue[k] = ResetHandler}
    BY <2>1 DEF Handlers, Handler, TimerHandler, ResetHandler
  <2> HIDE DEF at
  <2>3. /\ at("timer") # {} <=> Holds(queue, TimerHandler)
        /\ at("reset") # {} <=> Holds(queue, ResetHandler)
    BY <2>2 DEF Holds
  <2>4. Caught <=> phase = "started" /\ Unstarted # {}
    BY DEF Caught
  <2>5. Deadline
    BY DEF Inv
  <2>6. \A k \in at("timer") : phase # "started" => \E j \in at("reset") : j > k
    BY <2>2, <2>5 DEF Deadline, Before
  <2> QED
    BY <2>3, <2>4, <2>5, <2>6 DEF Deadline
<1> QED
  BY Invariant, <1>1, PTL

-----------------------------------------------------------------------------
(* Every step is one that AllOrNothing allows.                             *)

\* What the caller knows, by the life of the session.
LEMMA CallStates ==
  ASSUME TypeOK
  PROVE  /\ phase = "idle" => CallState = "unsent"
         /\ phase = "started" =>
              CallState = IF Running /\ Unstarted = {} THEN "pending" ELSE "refused"
         /\ phase \in {"done", "freed"} =>
              CallState = IF results[1] = "success" THEN "succeeded" ELSE "failed"
BY DEF TypeOK, CallState

\* The values of the abstract specification's variables after a step.
LEMMA PromiseSteps ==
  /\ Running /\ Running' /\ CallState' = CallState /\ result' = result
       => UNCHANGED Promise!vars
  /\ Running /\ ~Running' /\ CallState' = CallState /\ CallState \notin {"unsent", "pending"}
       /\ result' = result => Promise!Next
  /\ Running /\ CallState = "unsent" /\ CallState' = "pending" /\ Running'
       /\ result' = result => Promise!Next
  /\ Running /\ CallState = "unsent" /\ CallState' = "refused" /\ result' = result
       => Promise!Next
  /\ Running /\ CallState = "pending" /\ CallState' = "failed" /\ Running'
       /\ result' = result => Promise!Next
  /\ Running /\ CallState = "refused" /\ CallState' = "failed" /\ result' = result
       => Promise!Next
<1>1. Running \in BOOLEAN /\ Running' \in BOOLEAN
  BY DEF Running
<1> QED
  BY <1>1 DEF Promise!vars, Promise!Next, Promise!Stop, Promise!Send, Promise!Refuse,
              Promise!Fail, Promise!FailLate

LEMMA SendPromise ==
  ASSUME Inv, Running, SendCommands
  PROVE  Promise!Next
<1>1. Inv'
  BY SendCommandsKeeps
<1>2. phase = "idle" /\ phase' = "started" /\ result' = result
  BY DEF SendCommands
<1>3. CallState = "unsent" /\ CallState' \in {"pending", "refused"}
  BY <1>1, <1>2, CallStates DEF Inv, CallState
<1>4. CallState' = "pending" => Running'
  BY <1>2 DEF CallState
<1> QED
  BY <1>2, <1>3, <1>4, PromiseSteps

\* What leaves the session as it is, or finds it destroyed.
LEMMA QuietPromise ==
  ASSUME Inv, Running, UNCHANGED <<phase, result, results>>,
         phase = "started" => sub' = sub,
         status' = status \/ phase = "freed"
  PROVE  Promise!Next \/ UNCHANGED Promise!vars
<1>1. CallState' = CallState
  <2>1. CASE phase = "started"
    <3>1. status' = status /\ sub' = sub
      BY <2>1
    <3> QED
      BY <3>1 DEF CallState, Running, Unstarted
  <2>2. CASE phase # "started"
    BY <2>2 DEF CallState
  <2> QED
    BY <2>1, <2>2
<1>2. phase = "freed" => CallState \notin {"unsent", "pending"}
  BY CallStates DEF Inv
<1> QED
  BY <1>1, <1>2, PromiseSteps DEF Running

LEMMA ResolvePromise ==
  ASSUME Inv, Running, queue # << >>, NEW own \in SUBSET Subs, Resolve(own),
         Head(queue) # ResetHandler, UNCHANGED sent
  PROVE  Promise!Next \/ UNCHANGED Promise!vars
<1>1. result' = result /\ phase # "idle"
  BY DEF Resolve, Inv, Idle
<1>2. CASE AlreadyDone /\ MayCrash /\ UNCHANGED <<phase, results>>
  <2>1. status' = status \/ phase = "freed"
    BY <1>2 DEF MayCrash
  <2> QED
    BY <1>1, <1>2, <2>1, QuietPromise DEF AlreadyDone
<1>3. CASE /\ ~AlreadyDone
           /\ status' \in IF Unstarted = {} THEN {status} ELSE {status, "crashed"}
           /\ Finish("error")
  <2>1. phase = "started" /\ phase' = "done" /\ results' = Append(results, "error")
    BY <1>3 DEF AlreadyDone, Finish
  <2>2. Len(results) = 0 /\ results \in Seq({"success", "error"})
    BY <2>1 DEF Inv, Results, TypeOK
  <2>3. results'[1] = "error"
    BY <2>1, <2>2
  <2>4. CallState' = "failed"
    BY <2>1, <2>3 DEF CallState
  <2>5. CallState = IF Unstarted = {} THEN "pending" ELSE "refused"
    BY <2>1, CallStates DEF Inv
  <2>6. Unstarted = {} => Running'
    BY <1>3 DEF Running
  <2> QED
    BY <1>1, <2>4, <2>5, <2>6, PromiseSteps
<1>4. CASE /\ ~AlreadyDone /\ Cardinality(Unstarted) > 1
           /\ status' \in {"threw", "crashed"}
           /\ UNCHANGED <<phase, results>>
  <2>1. phase = "started" /\ Unstarted # {} /\ ~Running'
    BY <1>4, FS_EmptySet DEF AlreadyDone, Running
  <2>2. CallState = "refused" /\ CallState' = "refused"
    BY <1>4, <2>1, CallStates DEF Inv, CallState
  <2> QED
    BY <1>1, <2>1, <2>2, PromiseSteps
<1> QED
  BY <1>2, <1>3, <1>4 DEF Resolve

LEMMA CollectPromise ==
  ASSUME Inv, Running, NEW i \in Subs, Registered(i), Collect(i), UNCHANGED status
  PROVE  Promise!Next
<1>1. phase = "started" /\ i \notin result
  BY DEF Inv, SubSessions, Registered, TypeOK, Idle
<1>2. /\ result' = result \union {i}
      /\ finished_commands + 1 = Count <=> result' = Subs
  BY <1>1, OneMoreResult DEF Collect
<1>3. /\ sub \in [Subs -> {"new", "started", "done"}] /\ sub[i] = "started"
      /\ sub' = [j \in Subs |-> IF j \in {i} THEN "done" ELSE sub[j]]
  BY DEF Collect, SubDone, Registered, Inv, TypeOK
<1>4. Unstarted' = Unstarted /\ Running'
  BY <1>3 DEF Unstarted, Running
<1>5. CallState = IF Unstarted = {} THEN "pending" ELSE "refused"
  BY <1>1, CallStates DEF Inv
<1>6. CASE IsLast /\ Finish("success")
  <2>1. phase' = "done" /\ results' = Append(results, "success")
    BY <1>6 DEF Finish
  <2>2. Len(results) = 0 /\ results \in Seq({"success", "error"})
    BY <1>1 DEF Inv, Results, TypeOK
  <2>3. results'[1] = "success"
    BY <2>1, <2>2
  <2>4. CallState' = "succeeded"
    BY <2>1, <2>3 DEF CallState
  <2>5. result' = Subs
    BY <1>2, <1>6 DEF IsLast
  <2>6. Unstarted = {}
    BY <1>1, <1>2, <1>3, <2>5 DEF Inv, SubSessions, Unstarted
  <2>7. Promise!Reply(i)
    BY <1>1, <1>2, <1>4, <1>5, <2>4, <2>5, <2>6 DEF Promise!Reply, Promise!Subs, Subs, Running
  <2> QED
    BY <2>7 DEF Promise!Next, Promise!Subs, Subs
<1>7. CASE ~IsLast /\ UNCHANGED <<phase, results>>
  <2>1. result' # Subs
    BY <1>2, <1>7 DEF IsLast
  <2>2. CallState' = CallState
    BY <1>1, <1>4, <1>7 DEF CallState
  <2>3. CASE Unstarted = {}
    <3>1. Promise!Reply(i)
      BY <1>1, <1>2, <1>4, <1>5, <2>1, <2>2, <2>3
      DEF Promise!Reply, Promise!Subs, Subs, Running
    <3> QED
      BY <3>1 DEF Promise!Next, Promise!Subs, Subs
  <2>4. CASE Unstarted # {}
    <3>1. Promise!StrayReply(i)
      BY <1>2, <1>4, <1>5, <2>1, <2>2, <2>4
      DEF Promise!StrayReply, Promise!Subs, Subs, Running
    <3> QED
      BY <3>1 DEF Promise!Next, Promise!Subs, Subs
  <2> QED
    BY <2>3, <2>4
<1> QED
  BY <1>6, <1>7 DEF Collect

LEMMA DispatchPromise ==
  ASSUME Inv, Dispatch
  PROVE  Promise!Next \/ UNCHANGED Promise!vars
<1>1. Running /\ TypeOK
  BY DEF Dispatch, Inv
<1>2. ASSUME Nothing, status' = status \/ phase = "freed"
      PROVE  Promise!Next \/ UNCHANGED Promise!vars
  BY <1>1, <1>2, QuietPromise DEF Nothing, work
<1>3. ASSUME OnReceive
      PROVE  Promise!Next \/ UNCHANGED Promise!vars
  <2> DEFINE h == Head(queue)
  <2>1. queue # << >> /\ h.op = "receive" /\ sent' = sent
    BY <1>3 DEF OnReceive, Ready
  <2>2. h.i \in Subs /\ h # ResetHandler
    BY <1>1, <2>1, HeadIsHandler DEF ResetHandler, Handler
  <2>3. \/ Nothing /\ UNCHANGED status
        \/ Registered(h.i) /\ Collect(h.i) /\ UNCHANGED status
        \/ Resolve({h.i})
    BY <1>3 DEF OnReceive
  <2>4. {h.i} \in SUBSET Subs
    BY <2>2
  <2> HIDE DEF h
  <2>5. h = Head(queue)
    BY DEF h
  <2>6. CASE Registered(h.i) /\ Collect(h.i) /\ UNCHANGED status
    BY <1>1, <2>2, <2>6, CollectPromise
  <2>7. CASE Resolve({h.i})
    BY <1>1, <2>1, <2>2, <2>4, <2>5, <2>7, ResolvePromise
  <2> QED
    BY <1>2, <2>3, <2>6, <2>7
<1>4. ASSUME OnSend
      PROVE  Promise!Next \/ UNCHANGED Promise!vars
  <2> DEFINE h == Head(queue)
  <2>1. queue # << >> /\ h.op = "send" /\ sent' = sent
    BY <1>4 DEF OnSend, Ready
  <2>2. h.i \in Subs /\ h # ResetHandler
    BY <1>1, <2>1, HeadIsHandler DEF ResetHandler, Handler
  <2>3. \/ Nothing /\ (status' = status \/ phase = "freed")
        \/ Resolve({h.i})
    BY <1>4 DEF OnSend, MayCrash
  <2>4. {h.i} \in SUBSET Subs
    BY <2>2
  <2> HIDE DEF h
  <2>5. h = Head(queue)
    BY DEF h
  <2>6. CASE Resolve({h.i})
    BY <1>1, <2>1, <2>2, <2>4, <2>5, <2>6, ResolvePromise
  <2> QED
    BY <1>2, <2>3, <2>6
<1>5. ASSUME OnTimer
      PROVE  Promise!Next \/ UNCHANGED Promise!vars
  <2>1. /\ queue # << >> /\ Head(queue).op = "timer" /\ sent' = sent
        /\ Head(queue) # ResetHandler
    BY <1>5 DEF OnTimer, Ready, ResetHandler, Handler
  <2>2. CASE Resolve({})
    BY <1>1, <2>1, <2>2, ResolvePromise
  <2> QED
    BY <1>2, <1>5, <2>2 DEF OnTimer
<1>6. ASSUME OnReset
      PROVE  Promise!Next \/ UNCHANGED Promise!vars
  <2>1. /\ queue # << >> /\ Head(queue) = ResetHandler /\ queue \in Seq(Handlers)
        /\ phase' = "freed" /\ UNCHANGED <<status, result, results>>
    BY <1>1, <1>6, HeadIsHandler DEF OnReset, Ready, TypeOK
  <2>2. Holds(queue, ResetHandler)
    BY <2>1, TailHolds
  <2>3. phase = "done"
    BY <1>1, <2>2 DEF Inv, Deadline
  <2>4. CallState' = CallState /\ Running'
    BY <1>1, <2>1, <2>3 DEF CallState, Running
  <2> QED
    BY <1>1, <2>1, <2>4, PromiseSteps
<1> QED
  BY <1>3, <1>4, <1>5, <1>6 DEF Dispatch

\* A call of Client::sendCommands keeps the promise of AllOrNothing: all results or
\* one error, once; a refused call never succeeds, and the program stops only after
\* one was refused or answered.
THEOREM ImplementsAllOrNothing == Spec => Promise!Spec
<1>1. Init => Promise!Init
  BY DEF Init, Promise!Init, CallState, Running
<1>2. Inv /\ [Next]_vars => [Promise!Next]_(Promise!vars)
  <2> SUFFICES ASSUME Inv, [Next]_vars
               PROVE  Promise!Next \/ UNCHANGED Promise!vars
    OBVIOUS
  <2>1. CASE Running /\ SendCommands
    BY <2>1, SendPromise
  <2>2. ASSUME Running, UNCHANGED <<status, phase, sub, result, results>>
        PROVE  Promise!Next \/ UNCHANGED Promise!vars
    BY <2>2, QuietPromise
  <2>3. CASE Running /\ (Close \/ SendEnds)
    BY <2>2, <2>3 DEF Close, SendEnds, work
  <2>4. CASE DeadlinePasses
    BY <2>2, <2>4 DEF DeadlinePasses, TimerEnds
  <2>5. ASSUME NEW i \in Subs, NEW ec \in {"ok", "failed"}, Running, ReceiveEnds(i, ec)
        PROVE  Promise!Next \/ UNCHANGED Promise!vars
    BY <2>2, <2>5 DEF ReceiveEnds, work
  <2>6. CASE Dispatch
    BY <2>6, DispatchPromise
  <2>7. CASE UNCHANGED vars
    BY <2>7 DEF vars, work, Promise!vars, CallState, Unstarted, Running
  <2> QED
    BY <2>1, <2>3, <2>4, <2>5, <2>6, <2>7 DEF Next
<1> QED
  BY <1>1, <1>2, Invariant, PTL DEF Spec, Promise!Spec

=============================================================================
