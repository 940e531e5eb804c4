---------------------------- MODULE FileTransfers ----------------------------
(***************************************************************************)
(* One file transfer of a client, in either direction: Client::readFile    *)
(* (or readFileList) makes it a ReadFileSession, Client::writeFile a       *)
(* WriteFileSession.                                                       *)
(***************************************************************************)
EXTENDS FileSession

CONSTANT MaxStored   \* as in ReadFile

VARIABLES
  writing,                              \* FALSE for a download, TRUE for an upload
  length, blocks_received, read_buffer, \* of ReadFile
  size, blocks_sent, stored             \* of WriteFile

read == <<length, blocks_received, read_buffer>>
write == <<size, blocks_sent, stored>>
vars == <<writing, session, open, sending, queue, network, read, write>>

R == INSTANCE ReadFile
W == INSTANCE WriteFile

\* The variables of the other direction keep a value without a meaning.
Init ==
  \/ /\ writing = FALSE
     /\ R!Init
     /\ size = 0
     /\ blocks_sent = 0
     /\ stored = {}
  \/ /\ writing = TRUE
     /\ W!Init
     /\ length = 1
     /\ blocks_received = 0
     /\ read_buffer = << >>

Next ==
  \/ ~writing /\ R!Next /\ UNCHANGED <<writing, write>>
  \/ writing /\ W!Next /\ UNCHANGED <<writing, read>>

Spec == Init /\ [][Next]_vars

\* The io_context runs what is ready and the deadline passes.
FairSpec ==
  /\ Spec
  /\ WF_vars(\/ ~writing /\ R!Dispatch /\ UNCHANGED <<writing, write>>
             \/ writing /\ W!Dispatch /\ UNCHANGED <<writing, read>>)
  /\ WF_vars(DeadlinePasses /\ UNCHANGED <<writing, read, write>>)

-----------------------------------------------------------------------------
(* Properties.                                                             *)

\* Type correctness of both directions.
TypeOK == IF writing THEN W!TypeOK ELSE R!TypeOK

\* What a download reports as a success is the file (ReadFileSession::onResponse).
ReadIsTheFile == ~writing => R!ReadIsTheFile

\* What an upload reports as a success is stored (WriteFileSession::onResponse).
SuccessMeansStored == writing => W!SuccessMeansStored

\* A transfer ends, with an error if need be: nothing is sent again after a
\* loss, so it is the one timeout, set in start, that sees to it.
TransferEnds == started ~> done

=============================================================================
