------------------------------- MODULE ReadFile -------------------------------
(***************************************************************************)
(* A download with Client::readFile or Client::readFileList: the           *)
(* ReadFileSession, and a controller that sends a file block by block, the *)
(* next one after the acknowledgement of the last.  The contents of a      *)
(* block are its number.                                                   *)
(***************************************************************************)
EXTENDS FileSession

CONSTANT MaxStored   \* bound on the blocks a session stores, repeated ones too

VARIABLES
  length,           \* number of blocks of the file
  blocks_received,  \* blocks_received_
  read_buffer       \* read_buffer_

read == <<blocks_received, read_buffer>>
vars == <<session, open, sending, queue, network, length, read>>

Failed == [block |-> 0, last |-> TRUE]
Blocks == [block : 1 .. MaxBlocks, last : BOOLEAN]
Acks == [block : 1 .. MaxBlocks, last : {FALSE}]

\* Type correctness.
TypeOK ==
  /\ {started, done, registered, open} \subseteq BOOLEAN
  /\ timer \in {"off", "waiting"}
  /\ sending \in Seq(Acks \union {Request})
  /\ queue \in Seq([op : {"send"}, ec : {"ok", "error"}, datagram : Acks \union {Request}]
                     \union [op : {"timer"}, ec : {"ok", "canceled"}, datagram : {Request}]
                     \union [op : {"receive"}, ec : {"ok"}, datagram : Blocks \union {Failed}])
  /\ results \in Seq({"sendError", "timedOut", "commandFailed", "malformed", "success"})
  /\ toController \subseteq Acks \union {Request}
  /\ toClient \subseteq Blocks \union {Failed}
  /\ length \in 1 .. MaxBlocks
  /\ blocks_received \in 0 .. MaxBlocks
  /\ read_buffer \in Seq(1 .. MaxBlocks)

Init ==
  /\ InitSession
  /\ length \in 1 .. MaxBlocks
  /\ blocks_received = 0
  /\ read_buffer = << >>

-----------------------------------------------------------------------------
(* The controller, as the session expects it.                              *)

Block(k) == [block |-> k, last |-> k = length]

\* Mutant: the block is acknowledged with its number as it came, last-block bit
\* included.
AckAsItCame(k) == [block |-> k, last |-> k = length]

\* writeAck
Ack(k) == [block |-> k, last |-> FALSE]

\* It answers the request with the first block or refuses it, and each
\* acknowledgement with the next block.
Answer ==
  /\ \E k \in 0 .. length - 1 :
       /\ (IF k = 0 THEN Request ELSE Ack(k)) \in toController
       /\ \E reply \in {Block(k + 1)} \union (IF k = 0 THEN {Failed} ELSE {}) :
            reply \notin toClient /\ toClient' = toClient \union {reply}
  /\ UNCHANGED <<session, open, sending, queue, toController, length, read>>

-----------------------------------------------------------------------------
(* The session.                                                            *)

\* Mutant: the block number is not compared.
IsExpectedAny(block) == TRUE

\* expectValue("block number", block, blocks_received_ + 1)
IsExpected(block) == block = blocks_received + 1

\* onResponse: refuse what is not expected; otherwise acknowledge and store it
\* (progress is the length of what is stored); stop after the last block.  blocks_received_ stays.
\* Decoding what was stored is taken to succeed, as it does for a file; what
\* becomes of a list of files, whose decoding does not end, is FileList.
OnResponse ==
  /\ Ready("receive")
  /\ registered
  /\ LET reply == Head(queue).datagram
         rest == Tail(queue)
         ackFails == IF open THEN << >> ELSE <<Handler("send", "error", Ack(reply.block))>>
     IN
     \/ /\ done
        /\ queue' = rest
        /\ UNCHANGED <<session, sending, read>>
     \/ /\ ~done /\ reply = Failed
        /\ StopSession("commandFailed", rest)
        /\ UNCHANGED <<sending, read>>
     \/ /\ ~done /\ reply # Failed /\ ~IsExpected(reply.block)
        /\ StopSession("malformed", rest)
        /\ UNCHANGED <<sending, read>>
     \/ /\ ~done /\ reply # Failed /\ IsExpected(reply.block)
        /\ sending' = IF open THEN Append(sending, Ack(reply.block)) ELSE sending
        /\ read_buffer' = Append(read_buffer, reply.block)
        /\ UNCHANGED blocks_received
        /\ IF reply.last THEN StopSession("success", rest \o ackFails)
                         ELSE queue' = rest \o ackFails /\ UNCHANGED session
  /\ UNCHANGED <<open, network, length>>

Dispatch == OnResponse \/ ((OnSend \/ OnTimer \/ OnStray) /\ UNCHANGED <<length, read>>)

Next ==
  \/ (Start \/ Close \/ SendEnds \/ DeadlinePasses) /\ UNCHANGED <<length, read>>
  \/ /\ \E datagram \in toClient : Arrives(datagram)
     /\ Len(read_buffer) < MaxStored
     /\ UNCHANGED <<length, read>>
  \/ Answer
  \/ Dispatch

Spec == Init /\ [][Next]_vars

\* The io_context runs what is ready and the deadline passes.
FairSpec == Spec /\ WF_vars(Dispatch) /\ WF_vars(DeadlinePasses /\ UNCHANGED <<length, read>>)

-----------------------------------------------------------------------------
(* Properties.                                                             *)

\* What on_done_ gets is the file: no block is missing, repeated or out of
\* place, whatever the network did (onResponse, expectValue "block number").
ReadIsTheFile ==
  \A k \in DOMAIN results :
    results[k] = "success" => read_buffer = [i \in 1 .. length |-> i]

\* command_traits.hpp calls ReadFile and ReadFileList multi-part downloads: the
\* block that comes next in the file is not refused.
NextBlockIsTaken ==
  [][OnResponse /\ ~done /\ read_buffer = [i \in 1 .. Len(read_buffer) |-> i]
       /\ Head(queue).datagram.block = Len(read_buffer) + 1
       => results' # Append(results, "malformed")]_vars

=============================================================================
