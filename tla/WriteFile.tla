------------------------------ MODULE WriteFile ------------------------------
(***************************************************************************)
(* An upload with Client::writeFile: the WriteFileSession, and a           *)
(* controller that acknowledges the request and then each block it stores. *)
(* The session never calls its writeNextBlock, so no block is ever sent.   *)
(***************************************************************************)
EXTENDS FileSession

VARIABLES
  size,         \* command_.data.size(), in blocks of max_payload_size
  blocks_sent,  \* blocks_sent_
  stored        \* the blocks the controller has stored

write == <<size, blocks_sent>>
vars == <<session, open, sending, queue, network, write, stored>>

Failed == [block |-> 0, last |-> TRUE]
Nack == [block |-> 1, last |-> TRUE]   \* a success that acknowledges nothing
Acks == [block : 0 .. MaxBlocks, last : {FALSE}]
Blocks == [block : 0 .. MaxBlocks, last : BOOLEAN]

\* Type correctness.
TypeOK ==
  /\ {started, done, registered, open} \subseteq BOOLEAN
  /\ timer \in {"off", "waiting"}
  /\ sending \in Seq(Blocks)
  /\ queue \in Seq([op : {"send"}, ec : {"ok", "error"}, datagram : Blocks]
                     \union [op : {"timer"}, ec : {"ok", "canceled"}, datagram : {Request}]
                     \union [op : {"receive"}, ec : {"ok"}, datagram : Acks \union {Failed, Nack}])
  /\ results \in {<< >>} \union {<<result>> : result \in
                                 {"sendError", "timedOut", "commandFailed", "malformed", "success"}}
  /\ toController \subseteq Blocks
  /\ toClient \subseteq Acks \union {Failed, Nack}
  /\ size \in 0 .. MaxBlocks
  /\ blocks_sent \in 0 .. MaxBlocks
  /\ stored \subseteq 1 .. MaxBlocks

Init ==
  /\ InitSession
  /\ size \in 0 .. MaxBlocks
  /\ blocks_sent = 0
  /\ stored = {}

-----------------------------------------------------------------------------
(* The controller, as the session expects it.                              *)

Ack(k) == [block |-> k, last |-> FALSE]

\* It acknowledges the request as block 0, or refuses it, or asks for it again,
\* and stores and acknowledges each block that follows those it has.
Answer ==
  /\ \E datagram \in toController :
       /\ datagram.block = 0 \/ datagram.block - 1 \in stored \union {0}
       /\ stored' = stored \union ({datagram.block} \ {0})
       /\ \E reply \in {Ack(datagram.block)} \union (IF datagram.block = 0 THEN {Failed, Nack} ELSE {}) :
            toClient' = toClient \union {reply}
  /\ UNCHANGED <<session, open, sending, queue, toController, write>>

-----------------------------------------------------------------------------
(* The session.                                                            *)

\* Mutant: everything counts as sent.
BytesSentAll == size

\* bytesSent(), in blocks.
BytesSent == IF blocks_sent <= size THEN blocks_sent ELSE size

\* expectValue of "ack" and of "block number"
IsExpected(reply) == reply = Ack(blocks_sent)

\* onResponse: check the acknowledgement, report progress, stop when everything
\* is sent.  Nothing more is sent here.
OnResponse ==
  /\ Ready("receive")
  /\ registered
  /\ LET reply == Head(queue).datagram IN
     \/ /\ done
        /\ queue' = Tail(queue)
        /\ UNCHANGED session
     \/ /\ ~done /\ reply = Failed
        /\ StopSession("commandFailed", Tail(queue))
     \/ /\ ~done /\ reply # Failed /\ ~IsExpected(reply)
        /\ StopSession("malformed", Tail(queue))
     \/ /\ ~done /\ reply # Failed /\ IsExpected(reply)
        /\ IF BytesSent >= size THEN StopSession("success", Tail(queue))
                                ELSE queue' = Tail(queue) /\ UNCHANGED session
  /\ UNCHANGED <<open, sending, network, write, stored>>

Dispatch == OnResponse \/ ((OnSend \/ OnTimer \/ OnStray) /\ UNCHANGED <<write, stored>>)

Next ==
  \/ (Start \/ Close \/ SendEnds \/ DeadlinePasses) /\ UNCHANGED <<write, stored>>
  \/ \E datagram \in toClient : Arrives(datagram) /\ UNCHANGED <<write, stored>>
  \/ Answer
  \/ Dispatch

Spec == Init /\ [][Next]_vars

\* The io_context runs what is ready and the deadline passes.
FairSpec == Spec /\ WF_vars(Dispatch) /\ WF_vars(DeadlinePasses /\ UNCHANGED <<write, stored>>)

-----------------------------------------------------------------------------
(* Properties.                                                             *)

\* Success is reported only when the controller has the whole file.
SuccessMeansStored ==
  \A k \in DOMAIN results : results[k] = "success" => stored = 1 .. size

\* write_file.hpp, of the session: "Write command and data."  Once the
\* controller acknowledged the request, the first block of the data is sent.
WritesData ==
  [][OnResponse /\ ~done /\ Head(queue).datagram = Ack(0) /\ size > 0
       => blocks_sent' > blocks_sent \/ done']_vars

=============================================================================
