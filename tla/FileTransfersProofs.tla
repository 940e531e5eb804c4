------------------------- MODULE FileTransfersProofs -------------------------
(***************************************************************************)
(* Proofs about FileTransfers, for files of any length: types, a transfer  *)
(* that ends once, a download that succeeds has the file and an upload     *)
(* that succeeds has stored it.                                            *)
(*                                                                         *)
(* Both directions share the session, so its invariants, Types and Life,   *)
(* are proved once, for whatever datagrams it sends (D) and receives (C).  *)
(* What is special to a direction is then which datagrams those are: of a  *)
(* download, the blocks of the file; of an upload, the acknowledgement of  *)
(* the request, since nothing but the request is ever sent.                *)
(***************************************************************************)
EXTENDS FileTransfers, HandlerQueues

TimerHandler == Handler("timer", "ok", Request)

HandlersOf(D, C) ==
  [op : {"send"}, ec : {"ok", "error"}, datagram : D]
    \union [op : {"timer"}, ec : {"ok", "canceled"}, datagram : {Request}]
    \union [op : {"receive"}, ec : {"ok"}, datagram : C]

Results == {"sendError", "timedOut", "commandFailed", "malformed", "success"}

\* The types of a session that sends datagrams of D and receives some of C.
Types(D, C) ==
  /\ {started, done, registered, open} \subseteq BOOLEAN
  /\ timer \in {"off", "waiting"}
  /\ sending \in Seq(D)
  /\ queue \in Seq(HandlersOf(D, C))
  /\ results \in Seq(Results)
  /\ toController \subseteq D
  /\ toClient \subseteq C

\* The life of a session: before start nothing is under way; from start to
\* stopSession its handler is registered and its deadline is due.
Life ==
  /\ Len(results) = IF done THEN 1 ELSE 0
  /\ registered <=> started /\ ~done
  /\ timer = "waiting" => registered
  /\ registered => timer = "waiting" \/ Holds(queue, TimerHandler)
  /\ ~started => /\ ~done /\ sending = << >> /\ queue = << >>
                 /\ toController = {} /\ toClient = {}

\* A download: the datagrams are of the file, and since blocks_received_ stays 0
\* only the first block is ever stored, which ends a file of one block.
FileData == {R!Block(k) : k \in 1 .. length} \union {R!Failed}

Download ==
  /\ length \in 1 .. MaxBlocks
  /\ blocks_received = 0
  /\ read_buffer \in Seq(1 .. MaxBlocks)
  /\ Types(R!Acks \union {Request}, FileData)
  /\ length = 1 /\ ~done => read_buffer = << >>
  /\ \A k \in DOMAIN results :
       results[k] = "success" => length = 1 /\ read_buffer = <<1>>

\* An upload: only the request is sent, and only that is answered.
Replies == {W!Ack(0), W!Failed, W!Nack}

Upload ==
  /\ size \in 0 .. MaxBlocks
  /\ blocks_sent = 0
  /\ stored = {}
  /\ Types({Request}, Replies)
  /\ \A k \in DOMAIN results : results[k] = "success" => size = 0

Inv ==
  /\ writing \in BOOLEAN
  /\ Life
  /\ IF writing THEN Upload ELSE Download

-----------------------------------------------------------------------------
(* The session: what every transfer does.                                  *)

LEMMA HandlerTypes ==
  ASSUME NEW D, NEW C
  PROVE  /\ TimerHandler \in HandlersOf(D, C)
         /\ Handler("timer", "canceled", Request) \in HandlersOf(D, C)
         /\ \A ec \in {"ok", "error"} : \A d \in D : Handler("send", ec, d) \in HandlersOf(D, C)
         /\ \A d \in C : Handler("receive", "ok", d) \in HandlersOf(D, C)
         /\ \A ec, d : /\ Handler("send", ec, d) # TimerHandler
                       /\ Handler("receive", ec, d) # TimerHandler
BY DEF TimerHandler, Handler, HandlersOf

LEMMA HeadIsHandler ==
  ASSUME NEW D, NEW C, Types(D, C), queue # << >>
  PROVE  /\ Head(queue) \in HandlersOf(D, C) /\ Tail(queue) \in Seq(HandlersOf(D, C))
         /\ Head(queue).op = "timer" /\ Head(queue).ec # "canceled"
              => Head(queue) = TimerHandler
         /\ Head(queue).op = "receive" => Head(queue).datagram \in C
<1>1. Head(queue) \in HandlersOf(D, C) /\ Tail(queue) \in Seq(HandlersOf(D, C))
  BY HeadTailProperties DEF Types
<1> QED
  BY <1>1 DEF HandlersOf, Handler, TimerHandler

\* Handlers are queued and nothing else happens to the session, but for a
\* deadline that passes.
LEMMA QueueGrows ==
  ASSUME NEW D, NEW C, Types(D, C), Life, started,
         NEW e \in Seq(HandlersOf(D, C)), queue' = queue \o e,
         UNCHANGED <<started, done, registered, results>>,
         timer' \in {timer, "off"}, timer' # timer => Holds(e, TimerHandler),
         open' \in BOOLEAN, sending' \in Seq(D), toController' \subseteq D, toClient' \subseteq C
  PROVE  Types(D, C)' /\ Life'
<1>1. queue' \in Seq(HandlersOf(D, C))
  BY ConcatProperties DEF Types
<1>2. Holds(queue', TimerHandler) <=> Holds(queue, TimerHandler) \/ Holds(e, TimerHandler)
  BY ConcatHolds DEF Types
<1> QED
  BY <1>1, <1>2 DEF Types, Life

\* A handler leaves the queue, others come, and the session stays as it is.
LEMMA HandlerLeaves ==
  ASSUME NEW D, NEW C, Types(D, C), Life, queue # << >>,
         NEW e \in Seq(HandlersOf(D, C)), queue' = Tail(queue) \o e, UNCHANGED session,
         Head(queue) = TimerHandler => ~registered,
         open' = open, sending' \in Seq(D), UNCHANGED network
  PROVE  Types(D, C)' /\ Life'
<1>1. queue' \in Seq(HandlersOf(D, C))
  BY HeadIsHandler, ConcatProperties
<1>2. Tail(queue) \in Seq(HandlersOf(D, C))
  BY HeadIsHandler
<1>3. Holds(queue, TimerHandler) <=> Head(queue) = TimerHandler \/ Holds(Tail(queue), TimerHandler)
  BY TailHolds DEF Types
<1>4. Holds(queue', TimerHandler) <=> Holds(Tail(queue), TimerHandler) \/ Holds(e, TimerHandler)
  BY <1>2, ConcatHolds
<1>5. started
  BY DEF Life
<1> QED
  BY <1>1, <1>3, <1>4, <1>5 DEF Types, Life, session, network

\* stopSession: the first call ends the session, and no other does anything.
LEMMA SessionStops ==
  ASSUME NEW D, NEW C, Types(D, C), Life, queue # << >>,
         NEW e \in Seq(HandlersOf(D, C)), NEW result \in Results,
         StopSession(result, Tail(queue) \o e),
         open' = open, sending' \in Seq(D), UNCHANGED network
  PROVE  /\ Types(D, C)' /\ Life' /\ started' = started
         /\ done => UNCHANGED session
         /\ ~done => done' /\ results' = <<result>>
<1>1. CASE done
  <2>1. queue' = Tail(queue) \o e /\ UNCHANGED session
    BY <1>1 DEF StopSession, IsDone
  <2>2. ~registered
    BY <1>1 DEF Life
  <2> QED
    BY <1>1, <2>1, <2>2, HandlerLeaves DEF session
<1>2. CASE ~done
  <2>1. /\ done' = TRUE /\ timer' = "off" /\ registered' = FALSE /\ started' = started
        /\ queue' = (Tail(queue) \o e) \o AbortedWait
        /\ results' = Append(results, result)
    BY <1>2 DEF StopSession, IsDone
  <2>2. AbortedWait \in Seq(HandlersOf(D, C))
    BY HandlerTypes DEF AbortedWait
  <2>3. queue' \in Seq(HandlersOf(D, C))
    BY <2>1, <2>2, HeadIsHandler, ConcatProperties
  <2>4. results = << >> /\ started
    BY <1>2 DEF Types, Life
  <2>5. results' = <<result>> /\ results' \in Seq(Results) /\ Len(results') = 1
    BY <2>1, <2>4
  <2> QED
    BY <1>2, <2>1, <2>3, <2>4, <2>5 DEF Types, Life, network
<1> QED
  BY <1>1, <1>2

\* The steps that the two directions have in common.
Common ==
  \/ Start \/ Close \/ SendEnds \/ DeadlinePasses
  \/ \E datagram \in toClient : Arrives(datagram)
  \/ OnSend \/ OnTimer \/ OnStray

\* A session of either direction keeps its types and its life in these steps, which
\* report no success.
LEMMA CommonKeeps ==
  ASSUME NEW D, NEW C, Types(D, C), Life, Common, Request \in D
  PROVE  /\ Types(D, C)' /\ Life'
         /\ done' = FALSE => done = FALSE
         /\ results' = results \/ \E r \in {"sendError", "timedOut"} : results' = <<r>>
<1> DEFINE H == HandlersOf(D, C)
<1>1. CASE Start
  <2>1. /\ ~started /\ started' = TRUE /\ registered' = TRUE /\ timer' = "waiting"
        /\ UNCHANGED <<done, open, results, network>>
    BY <1>1 DEF Start, ResetTimeout
  <2>2. queue = << >> /\ sending = << >> /\ ~done
    BY <2>1 DEF Life
  <2>3. queue' \in Seq(H) /\ sending' \in Seq(D)
    <3>1. CASE sending' = Append(sending, Request) /\ UNCHANGED queue
      BY <3>1 DEF Types
    <3>2. CASE queue' = Append(queue, Handler("send", "error", Request)) /\ UNCHANGED sending
      BY <3>2, HandlerTypes DEF Types
    <3> QED
      BY <1>1, <3>1, <3>2 DEF Start, Sends
  <2> QED
    BY <2>1, <2>2, <2>3 DEF Types, Life, network
<1>2. CASE Close
  <2> DEFINE e == [i \in 1 .. Len(sending) |-> Handler("send", "error", sending[i])]
  <2>1. /\ open' = FALSE /\ sending' = << >> /\ queue' = queue \o e
        /\ UNCHANGED <<session, network>>
    BY <1>2 DEF Close
  <2>2. /\ Len(sending) \in Nat
        /\ \A i \in 1 .. Len(sending) : sending[i] \in D
    BY ElementOfSeq, LenProperties DEF Types
  <2>3. e \in [1 .. Len(sending) -> H]
    BY <2>2, HandlerTypes
  <2>4. e \in Seq(H)
    BY <2>2, <2>3 DEF Seq
  <2>5. ~started => e = << >>
    BY DEF Life
  <2> HIDE DEF e
  <2>6. CASE started
    <3>1. << >> \in Seq(D) /\ FALSE \in BOOLEAN
      OBVIOUS
    <3>2. open' \in BOOLEAN /\ sending' \in Seq(D)
      BY <2>1, <3>1, Zenon
    <3>3. /\ UNCHANGED <<started, done, registered, results>> /\ timer' = timer
          /\ toController' \subseteq D /\ toClient' \subseteq C
      BY <2>1 DEF Types, session, network
    <3>4. Types(D, C)' /\ Life'
      BY <2>1, <2>4, <2>6, <3>2, <3>3, QueueGrows
    <3> QED
      BY <3>3, <3>4
  <2>7. CASE ~started
    <3>1. queue' = << >> /\ sending' = << >>
      BY <2>1, <2>5, <2>7, ConcatEmptySeq DEF Life
    <3>2. queue' \in Seq(H) /\ sending' \in Seq(D)
      BY <3>1
    <3> QED
      BY <2>1, <2>7, <3>1, <3>2 DEF Types, Life, session, network
  <2> QED
    BY <2>1, <2>6, <2>7 DEF session
<1>3. CASE SendEnds
  <2>1. /\ sending # << >> /\ sending' = Tail(sending) /\ UNCHANGED <<session, open, toClient>>
        /\ sending \in Seq(D)
    BY <1>3 DEF SendEnds, Types
  <2>2. PICK ec \in {"ok", "error"} :
          /\ queue' = Append(queue, Handler("send", ec, Head(sending)))
          /\ toController' \in {toController, toController \union {Head(sending)}}
    BY <1>3 DEF SendEnds
  <2>3. Head(sending) \in D /\ sending' \in Seq(D)
    BY <2>1, HeadTailProperties
  <2> DEFINE e == <<Handler("send", ec, Head(sending))>>
  <2>4. e \in Seq(H)
    BY <2>3, HandlerTypes
  <2>5. queue' = queue \o e
    BY <2>2, <2>3, HandlerTypes, AppendIsConcat DEF Types
  <2> HIDE DEF e
  <2>6. started /\ toController' \subseteq D /\ toClient' \subseteq C /\ open' \in BOOLEAN
    BY <2>1, <2>2, <2>3 DEF Types, Life
  <2>7. UNCHANGED <<started, done, registered, results>> /\ timer' = timer
    BY <2>1 DEF session
  <2>8. Types(D, C)' /\ Life'
    BY <2>1, <2>3, <2>4, <2>5, <2>6, <2>7, QueueGrows
  <2> QED
    BY <2>7, <2>8
<1>4. CASE DeadlinePasses
  <2>1. /\ timer = "waiting" /\ timer' = "off" /\ queue' = Append(queue, TimerHandler)
        /\ UNCHANGED <<started, done, registered, results, open, sending, network>>
    BY <1>4 DEF DeadlinePasses, TimerHandler
  <2> DEFINE e == <<TimerHandler>>
  <2>2. e \in Seq(H) /\ Holds(e, TimerHandler)
    BY HandlerTypes, ShortQueues
  <2>3. queue' = queue \o e
    BY <2>1, HandlerTypes, AppendIsConcat DEF Types
  <2> HIDE DEF e
  <2>4. started
    BY <2>1 DEF Life
  <2>5. /\ open' \in BOOLEAN /\ sending' \in Seq(D)
        /\ toController' \subseteq D /\ toClient' \subseteq C
    BY <2>1 DEF Types, network
  <2> QED
    BY <2>1, <2>2, <2>3, <2>4, <2>5, QueueGrows
<1>5. ASSUME NEW d \in toClient, Arrives(d)
      PROVE  Types(D, C)' /\ Life' /\ UNCHANGED session
  <2>1. /\ queue' = Append(queue, Handler("receive", "ok", d))
        /\ UNCHANGED <<session, open, sending, network>>
    BY <1>5 DEF Arrives
  <2> DEFINE e == <<Handler("receive", "ok", d)>>
  <2>2. d \in C /\ started
    BY DEF Types, Life
  <2>3. e \in Seq(H)
    BY <2>2, HandlerTypes
  <2>4. queue' = queue \o e
    BY <2>1, <2>2, HandlerTypes, AppendIsConcat DEF Types
  <2> HIDE DEF e
  <2>5. /\ open' \in BOOLEAN /\ sending' \in Seq(D)
        /\ toController' \subseteq D /\ toClient' \subseteq C
    BY <2>1 DEF Types, network
  <2>6. UNCHANGED <<started, done, registered, results>> /\ timer' = timer
    BY <2>1 DEF session
  <2>7. Types(D, C)' /\ Life'
    BY <2>1, <2>2, <2>3, <2>4, <2>5, <2>6, QueueGrows
  <2> QED
    BY <2>1, <2>7
<1>6. CASE OnSend \/ OnTimer \/ OnStray
  <2>1. queue # << >> /\ UNCHANGED <<open, sending, network>> /\ sending' \in Seq(D)
    BY <1>6 DEF OnSend, OnTimer, OnStray, Ready, Types
  <2>2. << >> \in Seq(H) /\ Tail(queue) \o << >> = Tail(queue)
    BY <2>1, HeadIsHandler, ConcatEmptySeq
  <2>3. ASSUME NEW result \in {"sendError", "timedOut"}, StopSession(result, Tail(queue))
        PROVE  /\ Types(D, C)' /\ Life'
               /\ done' = FALSE => done = FALSE
               /\ results' = results \/ results' = <<result>>
    <3>1. result \in Results /\ StopSession(result, Tail(queue) \o << >>)
      BY <2>2, <2>3 DEF Results
    <3>2. /\ Types(D, C)' /\ Life'
          /\ done => UNCHANGED session
          /\ ~done => done' /\ results' = <<result>>
      BY <2>1, <2>2, <3>1, SessionStops
    <3> QED
      BY <3>2 DEF session, Types
  <2>4. ASSUME queue' = Tail(queue), UNCHANGED session,
               Head(queue) = TimerHandler => ~registered
        PROVE  Types(D, C)' /\ Life'
    BY <2>1, <2>2, <2>4, HandlerLeaves
  <2>5. CASE OnSend
    <3>1. Head(queue) # TimerHandler
      BY <2>5 DEF OnSend, Ready, TimerHandler, Handler
    <3>2. \/ queue' = Tail(queue) /\ UNCHANGED session
          \/ StopSession("sendError", Tail(queue))
      BY <2>5 DEF OnSend
    <3> QED
      BY <2>3, <2>4, <3>1, <3>2 DEF session
  <2>6. CASE OnTimer
    <3>1. \/ queue' = Tail(queue) /\ UNCHANGED session /\ Head(queue) # TimerHandler
          \/ StopSession("timedOut", Tail(queue))
      BY <2>6 DEF OnTimer, TimerHandler, Handler
    <3> QED
      BY <2>3, <2>4, <3>1 DEF session
  <2>7. CASE OnStray
    <3>1. ~registered /\ queue' = Tail(queue) /\ UNCHANGED session
      BY <2>7 DEF OnStray
    <3> QED
      BY <2>4, <3>1 DEF session
  <2> QED
    BY <1>6, <2>5, <2>6, <2>7
<1>7. /\ DeadlinePasses => done' = done /\ results' = results
      /\ Start => done' = done /\ results' = results
      /\ SendEnds \/ Close => done' = done /\ results' = results
      /\ UNCHANGED session => done' = done /\ results' = results
  BY DEF DeadlinePasses, Start, SendEnds, Close, session
<1> QED
  BY <1>1, <1>2, <1>3, <1>4, <1>5, <1>6, <1>7 DEF Common

-----------------------------------------------------------------------------
(* The two directions.                                                     *)

\* The session of ReadFile is this module's.
LEMMA ReadSession ==
  /\ R!InitSession <=> InitSession
  /\ R!Start \/ R!Close \/ R!SendEnds \/ R!DeadlinePasses => Common
  /\ \A datagram \in toClient : R!Arrives(datagram) => Common
  /\ R!OnSend \/ R!OnTimer \/ R!OnStray => Common
  /\ \A result, q : R!StopSession(result, q) <=> StopSession(result, q)
  /\ \A op, ec, d : R!Handler(op, ec, d) = Handler(op, ec, d)
  /\ R!session = session /\ R!network = network
<1>1. /\ R!Request = Request /\ R!session = session /\ R!network = network
      /\ \A op, ec, d : R!Handler(op, ec, d) = Handler(op, ec, d)
  BY DEF R!Request, Request, R!Handler, Handler, R!session, session, R!network, network
<1>2. R!InitSession <=> InitSession
  BY DEF R!InitSession, InitSession
<1>3. R!Start => Start
  BY DEF R!Start, Start, R!ResetTimeout, ResetTimeout, R!Sends, Sends, R!Request, Request,
         R!Handler, Handler, R!network, network
<1>4. R!Close => Close
  BY DEF R!Close, Close, R!Handler, Handler, R!session, session, R!network, network
<1>5. R!SendEnds => SendEnds
  BY DEF R!SendEnds, SendEnds, R!Handler, Handler, R!session, session
<1>6. R!DeadlinePasses => DeadlinePasses
  BY DEF R!DeadlinePasses, DeadlinePasses, R!Handler, Handler, R!Request, Request,
         R!network, network
<1>7. \A d : R!Arrives(d) => Arrives(d)
  BY DEF R!Arrives, Arrives, R!Receiving, Receiving, R!Handler, Handler,
         R!session, session, R!network, network
<1>8. \A result, q : R!StopSession(result, q) <=> StopSession(result, q)
  BY DEF R!StopSession, StopSession, R!IsDone, IsDone, R!AbortedWait, AbortedWait,
         R!Handler, Handler, R!Request, Request, R!session, session
<1>9. R!OnSend => OnSend
  BY <1>8 DEF R!OnSend, OnSend, R!Ready, Ready, R!session, session, R!network, network
<1>10. R!OnTimer => OnTimer
  BY <1>8 DEF R!OnTimer, OnTimer, R!Ready, Ready, R!session, session, R!network, network
<1>11. R!OnStray => OnStray
  BY DEF R!OnStray, OnStray, R!Ready, Ready, R!session, session, R!network, network
<1> QED
  BY <1>1, <1>2, <1>3, <1>4, <1>5, <1>6, <1>7, <1>8, <1>9, <1>10, <1>11 DEF Common

\* The session of WriteFile is this module's.
LEMMA WriteSession ==
  /\ W!InitSession <=> InitSession
  /\ W!Start \/ W!Close \/ W!SendEnds \/ W!DeadlinePasses => Common
  /\ \A datagram \in toClient : W!Arrives(datagram) => Common
  /\ W!OnSend \/ W!OnTimer \/ W!OnStray => Common
  /\ \A result, q : W!StopSession(result, q) <=> StopSession(result, q)
  /\ W!session = session /\ W!network = network
<1>1. W!session = session /\ W!network = network
  BY DEF W!session, session, W!network, network
<1>2. W!InitSession <=> InitSession
  BY DEF W!InitSession, InitSession
<1>3. W!Start => Start
  BY DEF W!Start, Start, W!ResetTimeout, ResetTimeout, W!Sends, Sends, W!Request, Request,
         W!Handler, Handler, W!network, network
<1>4. W!Close => Close
  BY DEF W!Close, Close, W!Handler, Handler, W!session, session, W!network, network
<1>5. W!SendEnds => SendEnds
  BY DEF W!SendEnds, SendEnds, W!Handler, Handler, W!session, session
<1>6. W!DeadlinePasses => DeadlinePasses
  BY DEF W!DeadlinePasses, DeadlinePasses, W!Handler, Handler, W!Request, Request,
         W!network, network
<1>7. \A d : W!Arrives(d) => Arrives(d)
  BY DEF W!Arrives, Arrives, W!Receiving, Receiving, W!Handler, Handler,
         W!session, session, W!network, network
<1>8. \A result, q : W!StopSession(result, q) <=> StopSession(result, q)
  BY DEF W!StopSession, StopSession, W!IsDone, IsDone, W!AbortedWait, AbortedWait,
         W!Handler, Handler, W!Request, Request, W!session, session
<1>9. W!OnSend => OnSend
  BY <1>8 DEF W!OnSend, OnSend, W!Ready, Ready, W!session, session, W!network, network
<1>10. W!OnTimer => OnTimer
  BY <1>8 DEF W!OnTimer, OnTimer, W!Ready, Ready, W!session, session, W!network, network
<1>11. W!OnStray => OnStray
  BY DEF W!OnStray, OnStray, W!Ready, Ready, W!session, session, W!network, network
<1> QED
  BY <1>1, <1>2, <1>3, <1>4, <1>5, <1>6, <1>7, <1>8, <1>9, <1>10, <1>11 DEF Common

\* A block of the file that is expected is the first one, and the last if there
\* is no other.
LEMMA ExpectedBlock ==
  ASSUME Download, NEW d \in FileData, d # R!Failed, d.block = blocks_received + 1
  PROVE  d.block = 1 /\ (d.last <=> length = 1) /\ d.last \in BOOLEAN
<1>1. PICK k \in 1 .. length : d = R!Block(k)
  BY DEF FileData
<1>2. d.block = k /\ d.last = (k = length)
  BY <1>1 DEF R!Block
<1>3. k = 1
  BY <1>2 DEF Download
<1> QED
  BY <1>2, <1>3

LEMMA ControllerAnswers ==
  ASSUME Download, Life, R!Answer
  PROVE  Download' /\ Life'
<1>1. /\ UNCHANGED <<session, open, sending, queue, toController, length, read>>
      /\ UNCHANGED <<length, blocks_received, read_buffer>>
  BY DEF R!Answer, R!session, session, R!read, read
<1>2. PICK k \in 0 .. length - 1 :
        /\ (IF k = 0 THEN R!Request ELSE R!Ack(k)) \in toController
        /\ \E reply \in {R!Block(k + 1)} \union (IF k = 0 THEN {R!Failed} ELSE {}) :
             toClient' = toClient \union {reply}
  BY DEF R!Answer
<1>3. k + 1 \in 1 .. length
  BY DEF Download
<1>4. FileData' = FileData
  BY <1>1 DEF FileData, R!Block
<1>5. toClient' \subseteq FileData
  BY <1>2, <1>3 DEF FileData, Download, Types
<1>6. started
  BY <1>2 DEF Life
<1>7. Life'
  BY <1>1, <1>6 DEF Life, session
<1>8. Types(R!Acks \union {Request}, FileData)'
  BY <1>1, <1>4, <1>5 DEF Download, Types, session
<1> QED
  BY <1>1, <1>7, <1>8 DEF Download, session

LEMMA BlockArrives ==
  ASSUME Download, Life, R!OnResponse
  PROVE  Download' /\ Life'
<1> DEFINE D == R!Acks \union {Request}
<1>1. PICK C : C = FileData
  OBVIOUS
<1>2. /\ queue # << >> /\ Head(queue).op = "receive" /\ registered
      /\ UNCHANGED <<open, network, length>>
  BY DEF R!OnResponse, R!Ready, R!network, network
<1>3. FileData' = C /\ Types(D, C) /\ ~done /\ started
  BY <1>1, <1>2 DEF FileData, R!Block, Download, Life
<1> DEFINE reply == Head(queue).datagram
           rest == Tail(queue)
           ackFails == IF open THEN << >>
                       ELSE <<R!Handler("send", "error", R!Ack(reply.block))>>
<1>4. reply \in FileData
  BY <1>1, <1>2, <1>3, HeadIsHandler
<1>5. << >> \in Seq(HandlersOf(D, C)) /\ rest \o << >> = rest
  BY <1>2, <1>3, HeadIsHandler, ConcatEmptySeq
<1>6. ASSUME NEW result \in {"commandFailed", "malformed"},
             R!StopSession(result, rest), UNCHANGED <<sending, R!read>>
      PROVE  Download' /\ Life'
  <2>1. /\ StopSession(result, rest \o << >>) /\ result \in Results /\ sending' = sending
        /\ blocks_received' = blocks_received /\ read_buffer' = read_buffer
        /\ sending' \in Seq(D)
    BY <1>3, <1>5, <1>6, ReadSession DEF Results, R!read, Types
  <2>2. Types(D, C)' /\ Life' /\ done' /\ results' = <<result>>
    BY <1>2, <1>3, <1>5, <2>1, SessionStops DEF Download
  <2>3. \A k \in DOMAIN results' : results'[k] # "success"
    BY <2>2
  <2> QED
    BY <1>2, <1>3, <2>1, <2>2, <2>3 DEF Download, Types
<1>7. ASSUME reply # R!Failed, R!IsExpected(reply.block),
             sending' = (IF open THEN Append(sending, R!Ack(reply.block)) ELSE sending),
             read_buffer' = Append(read_buffer, reply.block),
             blocks_received' = blocks_received,
             IF reply.last THEN R!StopSession("success", rest \o ackFails)
                           ELSE queue' = rest \o ackFails /\ UNCHANGED R!session
      PROVE  Download' /\ Life'
  <2>1. reply.block = 1 /\ (reply.last <=> length = 1) /\ reply.last \in BOOLEAN
    BY <1>4, <1>7, ExpectedBlock DEF R!IsExpected
  <2>2. R!Ack(reply.block) \in D /\ 1 \in 1 .. MaxBlocks
    BY <2>1, MaxBlocksAssumption DEF Download, R!Ack, R!Acks
  <2> DEFINE failed == Handler("send", "error", R!Ack(reply.block))
  <2>3. ackFails \in Seq(HandlersOf(D, C))
    <3>1. failed \in HandlersOf(D, C)
      BY <2>2, HandlerTypes
    <3>2. ackFails = IF open THEN << >> ELSE <<failed>>
      BY ReadSession
    <3> HIDE DEF failed, ackFails
    <3>3. <<failed>> \in Seq(HandlersOf(D, C))
      BY <3>1
    <3> QED
      BY <1>5, <3>2, <3>3
  <2>4. sending' \in Seq(D)
    BY <1>3, <1>7, <2>2 DEF Types
  <2>5. read_buffer' \in Seq(1 .. MaxBlocks)
    BY <1>7, <2>1, <2>2 DEF Download
  <2> HIDE DEF ackFails
  <2>6. CASE reply.last
    <3>1. StopSession("success", rest \o ackFails) /\ "success" \in Results
      BY <1>7, <2>6, ReadSession DEF Results
    <3>2. Types(D, C)' /\ Life' /\ done' /\ results' = <<"success">>
      BY <1>2, <1>3, <2>3, <2>4, <3>1, SessionStops DEF Download
    <3>3. read_buffer = << >> /\ length = 1
      BY <1>3, <2>1, <2>6 DEF Download
    <3>4. read_buffer' = <<1>>
      BY <1>7, <2>1, <3>3
    <3> QED
      BY <1>2, <1>3, <1>7, <2>5, <3>2, <3>3, <3>4 DEF Download, Types
  <2>7. CASE ~reply.last
    <3>1. queue' = rest \o ackFails /\ UNCHANGED session
      BY <1>7, <2>7 DEF R!session, session
    <3>2. Head(queue) # TimerHandler
      BY <1>2 DEF TimerHandler, Handler
    <3>3. Types(D, C)' /\ Life'
      BY <1>2, <1>3, <2>3, <2>4, <3>1, <3>2, HandlerLeaves
    <3>4. length # 1 /\ results' = results /\ Len(results) = 0
      BY <1>3, <2>1, <2>7, <3>1 DEF session, Life
    <3>5. DOMAIN results' = {}
      BY <3>4 DEF Download, Types
    <3> QED
      BY <1>2, <1>3, <1>7, <2>5, <3>3, <3>4, <3>5 DEF Download
  <2> QED
    BY <2>6, <2>7
<1>8. \/ \E result \in {"commandFailed", "malformed"} :
           R!StopSession(result, rest) /\ UNCHANGED <<sending, R!read>>
      \/ /\ reply # R!Failed /\ R!IsExpected(reply.block)
         /\ sending' = (IF open THEN Append(sending, R!Ack(reply.block)) ELSE sending)
         /\ read_buffer' = Append(read_buffer, reply.block)
         /\ blocks_received' = blocks_received
         /\ IF reply.last THEN R!StopSession("success", rest \o ackFails)
                          ELSE queue' = rest \o ackFails /\ UNCHANGED R!session
  BY <1>3 DEF R!OnResponse
<1> QED
  BY <1>6, <1>7, <1>8

LEMMA ControllerAcknowledges ==
  ASSUME Upload, Life, W!Answer
  PROVE  Upload' /\ Life'
<1>1. UNCHANGED <<session, open, sending, queue, toController, size, blocks_sent>>
  BY DEF W!Answer, W!session, session, W!write
<1>2. PICK d \in toController :
        /\ stored' = stored \union ({d.block} \ {0})
        /\ \E reply \in {W!Ack(d.block)} \union (IF d.block = 0 THEN {W!Failed, W!Nack} ELSE {}) :
             toClient' = toClient \union {reply}
  BY DEF W!Answer
<1>3. d.block = 0 /\ started
  BY DEF Upload, Types, Request, Life
<1>4. stored' = {} /\ toClient' \subseteq Replies
  BY <1>2, <1>3 DEF Upload, Types, Replies
<1>5. Replies' = Replies
  BY DEF Replies, W!Ack, W!Failed, W!Nack
<1>6. Types({Request}, Replies)' /\ Life'
  BY <1>1, <1>3, <1>4, <1>5 DEF Upload, Types, Life, session
<1> QED
  BY <1>1, <1>4, <1>6 DEF Upload, session

LEMMA ReplyArrives ==
  ASSUME Upload, Life, W!OnResponse
  PROVE  Upload' /\ Life'
<1>1. /\ queue # << >> /\ Head(queue).op = "receive" /\ registered
      /\ UNCHANGED <<open, sending, network, size, blocks_sent, stored>>
  BY DEF W!OnResponse, W!Ready, W!network, network, W!write
<1>2. Types({Request}, Replies) /\ ~done /\ sending' \in Seq({Request})
  BY <1>1 DEF Upload, Life, Types
<1> DEFINE rest == Tail(queue)
<1>3. << >> \in Seq(HandlersOf({Request}, Replies)) /\ rest \o << >> = rest
  BY <1>1, <1>2, HeadIsHandler, ConcatEmptySeq
<1>4. ASSUME NEW result \in Results, W!StopSession(result, rest),
             result = "success" => size = 0
      PROVE  Upload' /\ Life'
  <2>1. StopSession(result, rest \o << >>)
    BY <1>3, <1>4, WriteSession
  <2>2. Types({Request}, Replies)' /\ Life' /\ results' = <<result>>
    BY <1>1, <1>2, <1>3, <2>1, SessionStops DEF Upload
  <2>3. \A k \in DOMAIN results' : results'[k] = result
    BY <2>2
  <2> QED
    BY <1>1, <1>4, <2>2, <2>3 DEF Upload
<1>5. ASSUME queue' = rest, UNCHANGED W!session
      PROVE  Upload' /\ Life'
  <2>1. queue' = rest \o << >> /\ UNCHANGED session
    BY <1>3, <1>5 DEF W!session, session
  <2>2. Head(queue) # TimerHandler
    BY <1>1 DEF TimerHandler, Handler
  <2>3. Types({Request}, Replies)' /\ Life'
    BY <1>1, <1>2, <1>3, <2>1, <2>2, HandlerLeaves DEF Upload
  <2> QED
    BY <1>1, <2>1, <2>3 DEF Upload, session
<1>6. \/ \E result \in {"commandFailed", "malformed"} : W!StopSession(result, rest)
      \/ W!BytesSent >= size /\ W!StopSession("success", rest)
      \/ queue' = rest /\ UNCHANGED W!session
  BY <1>2 DEF W!OnResponse
<1>7. W!BytesSent >= size => size = 0
  BY MaxBlocksAssumption DEF W!BytesSent, Upload
<1> QED
  BY <1>4, <1>5, <1>6, <1>7 DEF Results

-----------------------------------------------------------------------------
(* The invariant.                                                          *)

LEMMA InvInit == Init => Inv
<1>1. ASSUME InitSession, NEW D, NEW C
      PROVE  Types(D, C) /\ Life
  <2>1. /\ << >> \in Seq(D) /\ << >> \in Seq(HandlersOf(D, C)) /\ << >> \in Seq(Results)
        /\ Len(<< >>) = 0
    OBVIOUS
  <2>2. /\ {started, done, registered, open} \subseteq BOOLEAN /\ timer = "off"
        /\ ~started /\ ~done /\ ~registered
        /\ sending = << >> /\ queue = << >> /\ results = << >>
        /\ toController = {} /\ toClient = {}
    BY <1>1 DEF InitSession
  <2> QED
    BY <2>1, <2>2 DEF Types, Life
<1>2. CASE writing = FALSE /\ R!Init
  <2>1. /\ InitSession /\ length \in 1 .. MaxBlocks /\ blocks_received = 0
        /\ read_buffer = << >> /\ results = << >>
    BY <1>2, ReadSession DEF R!Init, InitSession
  <2>2. Types(R!Acks \union {Request}, FileData) /\ Life
    BY <1>1, <2>1
  <2>3. << >> \in Seq(1 .. MaxBlocks) /\ DOMAIN << >> = {}
    OBVIOUS
  <2>4. read_buffer \in Seq(1 .. MaxBlocks) /\ DOMAIN results = {}
    BY <2>1, <2>3
  <2> QED
    BY <1>2, <2>1, <2>2, <2>4 DEF Inv, Download
<1>3. CASE writing = TRUE /\ W!Init
  <2>1. /\ InitSession /\ size \in 0 .. MaxBlocks /\ blocks_sent = 0 /\ stored = {}
        /\ results = << >>
    BY <1>3, WriteSession DEF W!Init, InitSession
  <2>2. Types({Request}, Replies) /\ Life
    BY <1>1, <2>1
  <2> QED
    BY <1>3, <2>1, <2>2 DEF Inv, Upload
<1> QED
  BY <1>2, <1>3 DEF Init

LEMMA InvNext == Inv /\ [Next]_vars => Inv'
<1> SUFFICES ASSUME Inv, [Next]_vars
             PROVE  Inv'
  OBVIOUS
<1>1. ASSUME ~writing, R!Next, UNCHANGED writing
      PROVE  Inv'
  <2>1. Download /\ Life
    BY <1>1 DEF Inv
  <2>2. CASE Common /\ UNCHANGED <<length, blocks_received, read_buffer>>
    <3>1. PICK C : C = FileData
      OBVIOUS
    <3>2. /\ FileData' = C /\ Types(R!Acks \union {Request}, C)
          /\ Request \in R!Acks \union {Request}
      BY <2>1, <2>2, <3>1 DEF FileData, R!Block, Download
    <3>3. /\ Types(R!Acks \union {Request}, C)' /\ Life'
          /\ done' = FALSE => done = FALSE
          /\ results' = results \/ \E r \in {"sendError", "timedOut"} : results' = <<r>>
      BY <2>1, <2>2, <3>2, CommonKeeps
    <3>4. \A k \in DOMAIN results' :
            results'[k] = "success" => results' = results
      BY <3>3
    <3>5. length' = 1 /\ ~done' => read_buffer' = << >>
      BY <2>1, <2>2, <3>2, <3>3 DEF Download, Types
    <3>6. Types(R!Acks \union {Request}, FileData)'
      BY <3>2, <3>3 DEF Types
    <3> QED
      BY <1>1, <2>1, <2>2, <3>3, <3>4, <3>5, <3>6 DEF Inv, Download
  <2>3. CASE R!Answer
    BY <1>1, <2>1, <2>3, ControllerAnswers DEF Inv
  <2>4. CASE R!OnResponse
    BY <1>1, <2>1, <2>4, BlockArrives DEF Inv
  <2> QED
    BY <1>1, <2>2, <2>3, <2>4, ReadSession DEF R!Next, R!Dispatch, R!read
<1>2. ASSUME writing, W!Next, UNCHANGED writing
      PROVE  Inv'
  <2>1. Upload /\ Life
    BY <1>2 DEF Inv
  <2>2. CASE Common /\ UNCHANGED <<size, blocks_sent, stored>>
    <3>1. /\ Types({Request}, Replies)' /\ Life'
          /\ results' = results \/ \E r \in {"sendError", "timedOut"} : results' = <<r>>
      BY <2>1, <2>2, CommonKeeps DEF Upload
    <3>2. \A k \in DOMAIN results' :
            results'[k] = "success" => results' = results
      BY <3>1
    <3> QED
      BY <1>2, <2>1, <2>2, <3>1, <3>2 DEF Inv, Upload
  <2>3. CASE W!Answer
    BY <1>2, <2>1, <2>3, ControllerAcknowledges DEF Inv
  <2>4. CASE W!OnResponse
    BY <1>2, <2>1, <2>4, ReplyArrives DEF Inv
  <2> QED
    BY <1>2, <2>2, <2>3, <2>4, WriteSession DEF W!Next, W!Dispatch, W!write
<1>3. CASE UNCHANGED vars
  BY <1>3 DEF vars, session, network, read, write, Inv, Life, Upload, Download, Types,
              FileData, R!Block
<1> QED
  BY <1>1, <1>2, <1>3 DEF Next, Inv

THEOREM Invariant == Spec => []Inv
<1> QED
  BY InvInit, InvNext, PTL DEF Spec

-----------------------------------------------------------------------------
(* What follows from it.                                                   *)

\* Every variable keeps its type, in either direction.
THEOREM TypeCorrect == Spec => []TypeOK
<1>1. ASSUME Inv, ~writing
      PROVE  R!TypeOK
  <2>1. FileData \subseteq R!Blocks \union {R!Failed}
    <3>1. \A k \in 1 .. length : k \in 1 .. MaxBlocks
      BY <1>1, MaxBlocksAssumption DEF Inv, Download
    <3>2. \A k \in 1 .. length : R!Block(k) \in R!Blocks
      BY <3>1 DEF R!Block, R!Blocks
    <3> QED
      BY <3>2 DEF FileData
  <2>2. R!Request = Request /\ R!Acks \union {Request} = R!Acks \union {R!Request}
    BY DEF R!Request, Request
  <2>3. HandlersOf(R!Acks \union {Request}, FileData) \subseteq
          [op : {"send"}, ec : {"ok", "error"}, datagram : R!Acks \union {R!Request}]
            \union [op : {"timer"}, ec : {"ok", "canceled"}, datagram : {R!Request}]
            \union [op : {"receive"}, ec : {"ok"}, datagram : R!Blocks \union {R!Failed}]
    BY <2>1, <2>2 DEF HandlersOf
  <2>4. queue \in Seq([op : {"send"}, ec : {"ok", "error"}, datagram : R!Acks \union {R!Request}]
            \union [op : {"timer"}, ec : {"ok", "canceled"}, datagram : {R!Request}]
            \union [op : {"receive"}, ec : {"ok"}, datagram : R!Blocks \union {R!Failed}])
    BY <1>1, <2>3, WiderQueue DEF Inv, Download, Types
  <2>5. toClient \subseteq R!Blocks \union {R!Failed} /\ blocks_received \in 0 .. MaxBlocks
    BY <1>1, <2>1, MaxBlocksAssumption DEF Inv, Download, Types
  <2> QED
    BY <1>1, <2>2, <2>4, <2>5 DEF R!TypeOK, Inv, Download, Types, Results
<1>2. ASSUME Inv, writing
      PROVE  W!TypeOK
  <2>1. Request \in W!Blocks /\ W!Request = Request /\ W!Ack(0) \in W!Acks
    BY MaxBlocksAssumption DEF Request, W!Request, W!Blocks, W!Ack, W!Acks
  <2>2. Replies \subseteq W!Acks \union {W!Failed, W!Nack}
    BY <2>1 DEF Replies
  <2>3. HandlersOf({Request}, Replies) \subseteq
          [op : {"send"}, ec : {"ok", "error"}, datagram : W!Blocks]
            \union [op : {"timer"}, ec : {"ok", "canceled"}, datagram : {W!Request}]
            \union [op : {"receive"}, ec : {"ok"}, datagram : W!Acks \union {W!Failed, W!Nack}]
    BY <2>1, <2>2 DEF HandlersOf
  <2>4. queue \in Seq(
          [op : {"send"}, ec : {"ok", "error"}, datagram : W!Blocks]
            \union [op : {"timer"}, ec : {"ok", "canceled"}, datagram : {W!Request}]
            \union [op : {"receive"}, ec : {"ok"}, datagram : W!Acks \union {W!Failed, W!Nack}])
    BY <1>2, <2>3, WiderQueue DEF Inv, Upload, Types
  <2>5. /\ sending \in Seq(W!Blocks) /\ toController \subseteq W!Blocks
        /\ toClient \subseteq W!Acks \union {W!Failed, W!Nack}
        /\ blocks_sent \in 0 .. MaxBlocks /\ stored \subseteq 1 .. MaxBlocks
    BY <1>2, <2>1, <2>2, MaxBlocksAssumption DEF Inv, Upload, Types
  <2>6. results \in {<< >>} \union {<<result>> : result \in Results}
    <3>1. results \in Seq(Results) /\ (Len(results) = 0 \/ Len(results) = 1)
      BY <1>2 DEF Inv, Upload, Types, Life
    <3>2. CASE Len(results) = 0
      BY <3>1, <3>2
    <3>3. CASE Len(results) = 1
      <4>1. results[1] \in Results /\ results = <<results[1]>>
        BY <3>1, <3>3
      <4> QED
        BY <4>1
    <3> QED
      BY <3>1, <3>2, <3>3
  <2> QED
    BY <1>2, <2>4, <2>5, <2>6 DEF W!TypeOK, Inv, Upload, Types, Results
<1>3. Inv => TypeOK
  BY <1>1, <1>2 DEF TypeOK
<1> QED
  BY Invariant, <1>3, PTL

\* However replies, repeated ones, failed sends, close and the deadline race, the
\* callback of a transfer is called once, and from start until then its handler is
\* registered and its deadline is due (ReadFileSession and WriteFileSession,
\* stopSession).
THEOREM EveryTransferEndsOnce == Spec => []EndsOnce
<1>1. Inv => EndsOnce
  BY DEF Inv, Life, EndsOnce, Holds, TimerHandler, Handler
<1> QED
  BY Invariant, <1>1, PTL

\* A download that reports success has the whole file, in order.
THEOREM DownloadIsTheFile == Spec => []ReadIsTheFile
<1>1. ASSUME Inv, ~writing, NEW k \in DOMAIN results, results[k] = "success"
      PROVE  read_buffer = [i \in 1 .. length |-> i]
  <2>1. length = 1 /\ read_buffer = <<1>>
    BY <1>1 DEF Inv, Download
  <2>2. <<1>> = [i \in 1 .. 1 |-> i]
    OBVIOUS
  <2> QED
    BY <2>1, <2>2
<1>2. Inv => ReadIsTheFile
  BY <1>1 DEF ReadIsTheFile, R!ReadIsTheFile
<1> QED
  BY Invariant, <1>2, PTL

\* An upload that reports success has stored the whole file: since no block is ever
\* sent, that can only be the empty one.
THEOREM UploadIsStored == Spec => []SuccessMeansStored
<1>1. ASSUME Inv, writing, NEW k \in DOMAIN results, results[k] = "success"
      PROVE  stored = 1 .. size
  <2>1. size = 0 /\ stored = {}
    BY <1>1 DEF Inv, Upload
  <2> QED
    BY <2>1
<1>2. Inv => SuccessMeansStored
  BY <1>1 DEF SuccessMeansStored, W!SuccessMeansStored
<1> QED
  BY Invariant, <1>2, PTL

=============================================================================
