# TLA+ verification of yaskawa_ethernet

`yaskawa_ethernet` is a C++ library that talks to a Yaskawa robot controller
with the High Speed Ethernet (UDP) protocol, asynchronously, on an asio
`io_context`. Paths below are relative to the root of the repository. This
directory holds TLA+ models of it, the TLC configurations that check them and
proofs checked with TLAPS.

Run `tlc -config <cfg> <module>` for each run listed in `PROJECT.json`, and
`tlapm HandlerQueues.tla` and `tlapm <module>Proofs.tla` for the proofs of `UdpClient`,
`MultiCommand`, `FileTransfers`, `RpcServer`, `Tools`, `Wire` and `Codec`.

`PROJECT.json` lists the components, runs, theorems, hazards (each at its
line), findings, mutants (a plausible bug for each property, which the property
must catch) and, under `map`, the lines of the source that each definition
stands for.  Operators commented as *Mutant* are those bugs; no specification
uses them.

## 1. Inventory

| Component | State it keeps | Operations | What is hard | What makes it correct |
|---|---|---|---|---|
| **UDP client** `src/udp/client.cpp`, `udp/client.hpp` | socket, `request_id_` (8 bit), `requests_` (id to handler), one `read_buffer_` | `connect`, `close`, `sendCommand(s)`, file operations, `receive`/`onReceive` | ids wrap; replies are late, doubled, lost; close races queued receives | handlers called only for sessions that wait; one receive loop, ended by close |
| **Command session** `impl/send_command.hpp` in **deadline session** `impl/deadline_session.hpp` | `started_`, `done_`, table token, write buffer, timer, the `shared_ptr` cycle that keeps it alive | `start`, `resolve`, `cancelTimeout`, posted reset | reply, send error and deadline are queued together; lifetime by a posted handler | callback exactly once; alive while a handler needs it; always ends |
| **Multi-command session** `impl/send_multiple_commands.hpp` | one `CommandSession` per command, `finished_commands_`, `done_` | `start`, per-command callback, `resolve`, abort of the siblings | failure of one of several; replies in any order; `start` of a later command throws | success only if every command succeeded; one callback; nothing left registered |
| **File transfer** `src/udp/read_file.hpp`, `src/udp/write_file.hpp` | blocks received / sent, ack buffer, timer, `done_` | `start`, `onResponse`, `writeAck`, `writeNextBlock`, `resetTimeout`, `stopSession` | block protocol over a lossy network, retransmission, timeout | what is delivered is the file; progress is monotone; it ends |
| **RPC server** `rpc_server/rpc_server.{hpp,cpp}` | `started_`, busy flag per service, poll timer | `start`, `stop`, `readCommands`, `execute`, `addService` | polling, stale reads, lost status writes, stop/start races | one execution per request; stops when told; never two executions at once |
| **Connection** `src/connect.hpp`, `Client::connect/onConnect` | resolver, timer, `finished` flag | `start`, `onResolve`, `onConnect`, `onConnectTimeout` | timeout against late success; shared socket of a retry | one callback per attempt; after failure the socket is unused |
| **Codec** `src/udp/protocol.cpp`, `encode.*`, `decode.*`, `message.hpp`, `src/error.cpp` | none | encode requests, decode replies, `expect*` checks | command/service numbers, odd counts, file list framing, frames | decode inverts encode on what is valid; terminates; rejects the rest |
| **Values** `types.hpp`, `src/types.cpp`, `commands.hpp`, `command_traits.hpp`, `type_traits.hpp` | values | coordinate systems, printing, traits | numbering of user frames | what is written is what is read |
| **YAML / Eigen** `src/yaml.cpp`, `src/eigen.cpp` | none | conversions of positions | names and keys are written once for each direction; documents are edited by hand | what is saved is loaded |
| **Tools** `src/tools/*`, `src/file_manager/*` | the counters of `udp_test` and `multi_command_test` | send the next command from the callback of the last, `client.close()`, `std::exit` | errors half way through a chain, late writes, a close with a late connection under way; exceptions are not caught | a tool reads what it wrote, goes on after errors, and ends once it gave up |

Interaction: sessions call `Client::registerHandler/removeHandler` and
`socket().async_send`; `Client::onReceive` calls back into sessions through
`requests_`; each session calls the application's callback, which may send more
commands or close the client. The RPC server is such an application. The only
concurrency is the order in which the `io_context` runs completion handlers and
the order in which kernel, clock and controller complete operations.

## 2. Modules

| Module | Models | Variables and the code | Promise it is shown to keep |
|---|---|---|---|
| `UdpClient` | `udp::Client` connected; `CommandSession` in `DeadlineSession` | `requests`, `nextId`, `receiving` = the client's table, id counter and receives in progress; `phase`, `sid`, `timer` = each session; `queue` = ready handlers of the `io_context` | `CommandPromise` |
| `CommandPromise` | - | what `sendCommand` promises its caller: each command answered once | |
| `MultiCommand` | `MultiCommandSession` and its sub-sessions | `finished_commands`, `result`, `sub` (handlers registered), `timer` | `AllOrNothing` |
| `AllOrNothing` | - | what `sendCommands` promises: all the results or one error; `refused` is a call that threw | |
| `FileSession` | what both file sessions share: start, stop, timer, sends, and the lossy network | `started`, `done`, `registered`, `timer`, `results`, datagrams in flight | |
| `ReadFile`, `WriteFile` | `ReadFileSession`, `WriteFileSession` and the controller's half of the block protocol | `blocks_received`, `read_buffer`; `size`, `blocks_sent`; `stored` (controller) | |
| `FileTransfers` | one transfer in either direction, composed of the two above | | |
| `RpcServer` | `RpcServer` over a client that keeps `CommandPromise` | `started`, `waiting`/`due` (poll timer), `busy`, `executing`, `calls` (commands on their way), `register` (controller) | |
| `Connection` | `ConnectionAttempt`, `Client::connect`, `close`, and the receive loop they start | `phase`, `left`, `timed`, `finished` of each attempt; `open`, `receiving` of the client | |
| `Tools` | the command line tools over `Connection`, and any other application as one more program | `tool`, `ended` = the program; `op` = the command in flight of each chain; `value` = its counters; `memory` (controller), `stray` (network) | |
| `Wire` | encoders, decoders, `expect*` checks, frames: operators only | - | |
| `Text` | names of frames, positions to and from YAML: operators only | - | |
| `Codec` | one command after another through `Wire`, positions saved and restored through `Text`, with a controller that holds variables, files, status and position | `memory`, `files`, `flags` (controller); `asked`, `result` (application); `wire` (datagram) | `VariableStore` |
| `VariableStore` | - | what the commands on variables promise: writes store, reads return what is stored | |
| `FileList` | the loop of `decode<ReadFileList>` | `finger`, the data and the names found | |
| `*Proofs`, `HandlerQueues` | theorems about the modules above (section 5), and the lemmas on queues that they share | | |
| `MC*` | the instances that TLC checks | | |

### How the models are built

* **Handlers are atomic, queues are not.** One thread runs the `io_context`, so
  a completion handler runs to its end, and an action is a whole handler.
  `queue` holds the handlers that are ready; an operation in progress (a send,
  a receive, a timer wait, a resolve) is in a variable of its own and puts its
  handler at the back when it ends *or* is cancelled. This is where the races
  are: a reply, a failed send and a deadline may all be queued for one session
  before the first of them runs. Where order in the queue cannot matter
  (`RpcServer`), the handlers of commands are in `calls`.
* **Application code may close the client** in every callback and in
  `on_error`, as the tools in `src/src/tools` do. `Application` models this in
  `UdpClient` and `MultiCommand`, `Receives` in `Connection`; `Close` is a call from
  elsewhere. An application may also catch what `sendCommands` throws (`Caught`).
* **A command that a callback sends** is sent when the handler that called it is over,
  with the id it would have had inside, free or taken as it was there. If
  `registerHandler` throws, the code skips the rest of the handler, the posted reset
  (`send_command.hpp:136`) and the next receive (`client.cpp:156`); the models have
  these in the queue of a program that has stopped. `ResetIsLast`, `ReceiveLoop` and
  `DeadlineKeepsUp` therefore speak of running programs.
* **Commands of a tool** form chains: each command is sent from the callback of
  the one before and is answered once, as `CommandPromise` has it. A chain is named
  by the variables it works on, so that chains of `udp_test` interleave and the one
  chain of `multi_command_test` covers all. A command is refused, and the tool crashes, when
  ids have come round to one that another chain still waits under (`Refused`).
* **asio** is modelled from how the code uses it: cancelling an operation
  queues its handler with an error; cancelling a wait that has ended already
  does nothing; closing a socket ends its operations; operations on a closed
  socket fail at once; cancelling a socket that is not open throws.
* **The network** loses, delays, repeats and reorders. In `UdpClient` the reply
  to whatever was sent may arrive any number of times; in `FileSession` what
  was sent stays available; in `RpcServer` each command is an entry of `calls`
  and the history variable `faults` keeps what the network did, so that a
  property can say which faults it tolerates. A deadline may pass at any time.
* **A destroyed session** that is called reads a dead object, which is
  undefined: the model chooses between nothing and `status = "crashed"`. A
  `std::logic_error` or `system_error` that nobody catches leaves
  `io_context::run()`: `status = "threw"`.
* **Payloads** are sequences of fields `<<width, bits>>`; every width, size
  check and branch of `protocol.cpp`, `encode.*` and `decode.*` is kept, bytes
  within a field are not. Doubles are integers in tenths of a unit of the
  wire, and `FallsShort` names the values where the product of the double and
  its scale is below the exact number (1.001 * 1000 is 1000.999...): any set may
  be chosen, as the theorem does.
* `Codec` runs one command at a time: late replies, ids and repeats belong to
  `UdpClient` and `RpcServer`. Of a reply to another command it has what the id
  lets through (`Spoilt`).
* The spinning loop of `decode<ReadFileList>` is a loop without side effects,
  which C++ lets a compiler assume to end: `FileList` lets it spin or return.

## 3. What the runs check

| Run | Distinct states | Bounds | Shows |
|---|---|---|---|
| `client_safety` | 321 114 | 3 commands, 2 request ids, symmetric in the commands | `HandlerTable`: exactly the waiting sessions are registered; `AnsweredOnce`; `ResetIsLast`: a queued deadline finds its session alive; `ReceiveLoop`: one loop, ended by close; `WrongReplyNeedsWrap`, `CollisionNeedsWrap`: a foreign reply and a throw of `registerHandler` need `IdSpace` commands in between; refines `CommandPromise` |
| `client_liveness` | 30 691 | 2 commands, 2 ids | `EverySessionEnds`, and `CommandPromise` with its fairness |
| `files` | 43 982 | files of up to 3 blocks, downloads that store up to 4 | `EndsOnce`, `ReadIsTheFile`, `SuccessMeansStored`, `TransferEnds` |
| `multi` | 9 817 | 3 commands | `OneResult`, `NoneLeft`, `DeadlineKeepsUp`, refines `AllOrNothing` with fairness, also after a call that was refused and whose exception was caught |
| `rpc` | 305 236 | 1 service, up to 2 starts and 2 requests but 3 of both, 1 stray write | `OneAtATime`, `OncePerRequest` (unless a status write timed out or datagrams were repeated or overtaken), `KeepsPolling`, `StopsPolling`, `EveryRequestAnswered`: a poll reads the status of every service |
| `tools` | 164 521 | 2 attempts, up to 3 endpoints, 2 variables, counters modulo 3, 1 late write | of `Connection`: `ReportedOnce`, `OneLoop`, `AttemptEnds`; of the tools: `ReadsWhatItWrote`, `ChainsGoOn`, `ToolEnds` |
| `codec` | 164 243 | 10 variables of the five types; see `MCCodec` | `NoOverrun`, `SuccessMeansDone`, `CleanRepliesAreUnderstood`, `ReportsTheRobot`, `LoadedIsSaved`, refines `VariableStore` |

Each passing run also checks the type invariant of its module, and five runs
show a disagreement between the code and its own words (section 6).

**Why the bounds are enough.** With three commands on two ids the counter wraps
while the first command may still wait, which is what 257 commands do on 256
ids; the theorems of section 5 hold for any number of both. Two commands are
enough for liveness, since a third adds no new way to wait. Three blocks give a
first, a middle and a last one; a fourth stored block would be a repeated one.
Three commands in a `sendCommands` give one that succeeded, one that fails and
one still waiting. A restart of the RPC server while a poll is in flight needs
two starts, a request taken for the previous one needs two requests, and a write
that arrives after its timeout one stray. The busy flags of different services
do not interact except through the poll. A retry after a timeout is the second
attempt, and the third endpoint is tried after a failure on either side. Two
variables are two interleaving chains of `udp_test` or one chain over both; a
counter modulo 3 tells the value that is written from the one before and the one
after it, and wraps. Values
in `MCCodec` lie at the edges: signs, the ends of `int32`, the cut-off digit, doubles
that fall short, frames `base`, `robot`, user 15, user 16, `tool`, `master`, positions of no
joint and of eight, 0, 1, 2 and 10 variables, where 10 positions no longer fit into a reply
of 479 bytes, and control groups 0 and 9, the ends of the range of an instance, and
10, which is none.

**Deadlock** is checked for `codec` only: there an application can always send.
The others really stop once every command was sent, every file transferred, or
the bounds of starts and requests are used up.

## 4. Fairness

* `UdpClient`, `MultiCommand`, `FileTransfers`, `Tools`: weak fairness of
  `Dispatch` (`io_context::run()` runs what is ready) and of each deadline (time
  passes). Nothing is assumed of the network or the resolver, not even that a
  send ends: that a session ends is due to its deadline alone.
* `Tools`: besides, a command in flight fails when no reply ends it (weak fairness
  of `Fails(c)`, which is `EverySessionEnds`). No reply and no answer of the
  resolver is owed.
* `RpcServer`: commands are answered (this is `EverySessionEnds` of `UdpClient`),
  the oldest first, since all have the same timeout; ended waits are handled;
  waits end, and not always with an error (strong fairness of `TimerEnds("ok")`);
  services resolve, which is the contract of `addService` (`rpc_server.hpp:102`).
  That the network delivers (`Delivers`) is a hypothesis of
  `EveryRequestAnswered` alone. Starting, stopping, requests and faults are
  never fair.
* `FileList`: the code runs on.
* `Codec` has safety properties only.

## 5. Proofs

Eight modules are checked by TLAPS; between them they prove every safety property
that a passing run checks, the refinements included. A proof is about the module that the runs
check, with no bound on the set of commands, files, services, attempts,
variables or values; the numbers that do bound a model (`MaxStarts`,
`MaxBlocks`, ...) are any numbers. All that is assumed of constants is in the
named assumptions of the modules, which TLC evaluates in the runs.

| Module | About | Proved, of what section 3 checks | Assumed |
|---|---|---|---|
| `UdpClientProofs` | `UdpClient` | `TypeOK`, `ResetIsLast`, `HandlerTable`, `AnsweredOnce`, `ReceiveLoop`, `CollisionNeedsWrap`, `WrongReplyNeedsWrap`, `KeepsPromise` (of `CommandPromise`) | `NoSession` is no session, two ids or more |
| `MultiCommandProofs` | `MultiCommand` | `TypeOK`, `OneResult`, `NoneLeft`, `DeadlineKeepsUp`, the safety part of `AllOrNothing` | one command or more |
| `FileTransfersProofs` | `FileSession`, `ReadFile`, `WriteFile` | `TypeOK`, `EndsOnce`, `ReadIsTheFile`, `SuccessMeansStored` | numbers are numbers |
| `RpcServerProofs` | `RpcServer` | `TypeOK`, `OneAtATime`, `KeepsPolling`, `OncePerRequest`, and `CountCovers` | fewer than 255 services, or `CountSpace - 1` |
| `ToolsProofs` | `Connection`, `Tools` | `TypeOK`, `ReportedOnce`, `OneLoop`, `ToolTypeOK`, `ReadsWhatItWrote` | finitely many variables |
| `WireProofs` | `Wire`, `Text` | round trips of the encodings, and that no decoder overruns | `FallsShortAssumption` |
| `CodecProofs` | `Codec` | `TypeOK`, `NoOverrun`, `SuccessMeansDone`, `CleanRepliesAreUnderstood`, `ReportsTheRobot`, `LoadedIsSaved`, `KeepsPromise` (of `VariableStore`) | `CodecAssumption` |
| `HandlerQueues` | - | the lemmas on queues that the others share | - |

Each safety property is proved from an inductive invariant: the property
alone does not say which handlers are still queued, and the step that breaks it
is one of those.

**`UdpClientProofs`.**

1. `TypeCorrect`: `TypeOK` is inductive. The work is in the queue: what closing
   a socket queues is a sequence of handlers (`AbortedType`), and so is what
   application code leaves behind (`ApplicationType`).
2. `SessionOutlivesDeadline`: `ResetIsLast`. It is proved session by session.
   `Life(s)` is the invariant: a session has a deadline ahead of it exactly while
   it waits, every queued deadline of a session that is done has a reset behind
   it, and there is one reset. The model keeps it (`Lives`, and `LoopState` for the receives) in a
   program that has stopped too, where the properties claim nothing. `StepCases` reduces the many steps to six: a command is
   sent, a deadline passes, plain handlers are queued (`Grows`), one is run without
   an effect on a session (`Idles`), a session is resolved (`Completes`), or reset.
   *Plain* handlers are neither of a deadline nor a reset. `LifeGoesOn` then moves the order of a
   session's handlers through a step that does not touch it.
3. `TableIsExact`: `HandlerTable`, with 1 and 2: a reset runs only for a session
   that is done (`ResetOfDone`), so that no registered session is destroyed.
4. `CallbackOnce`: `AnsweredOnce`, with 1 to 3.
5. `OneReceiveLoop`. Of the queued handlers only a receive that was not cancelled
   calls `receive` again; the others are `Silent`. `ReceiveCases` reduces the steps to
   four: silent handlers are queued, a receive ends, a silent handler runs, or a
   receive that goes on runs.
6. `CollisionsAreWraps`. `Serials` says of each command how its id comes from its
   place in the order of allocation, while it is among the last `IdSpace`
   (`SidBehind`); that equal ids are `IdSpace` places apart (`SidsApart`); and that
   the earlier of two waited no more when the later was registered (`Superseded`).
   It counts back from the next id (`IdBefore`), since the provers do not reason
   about remainders by a constant that has no value.
7. `WrongRepliesAreWraps`. A reply that is queued answers a request that was sent
   (`OnTheWire`), and the id is the same; with `Serials` that is a wrap.
8. `ImplementsPromise`: `KeepsPromise`. Each step of the client is a step of the
   promise, which one depends on the command whose state changes, or a stutter.

**`MultiCommandProofs`.** `Inv` has four parts: `TypeOK`; `Results` (one callback
when the session ends, and a session that waits misses a result, for which the
results are counted); `SubSessions` (those without a result are registered while the
session waits, none after); and `Deadline` (its handler is queued ahead of the reset, which is
there once). The last two hold of a program that runs: one that threw out of
`io_context::run()` takes no step. `OneResult`, `NoneLeft` and `DeadlineKeepsUp` follow,
and `ImplementsAllOrNothing` uses `Inv` in each step.

**`FileTransfersProofs`.** What the directions share is proved once, for whatever
datagrams a session sends and receives: `Types` and `Life` (before `start` nothing is
under way; from then to `stopSession` the handler is registered and the deadline
waits or is queued; one result after it). What a download that succeeds has in its buffer
follows from `Download`: every datagram of the controller is a block of the file
under its number, and `blocks_received` is 0. An upload succeeds only if
the acknowledgement of the request was the last, that is, if the file is
empty (`Upload`). Both say what the code does as it is (section 6): once
`blocks_received_` and `writeNextBlock` are repaired the invariants of the two
directions have to be replaced, `Life` remains.

**`RpcServerProofs`.**

1. `CountCovers`: a poll reads an even number of registers that covers every
   service, so that the loop over the services stays inside what was read. The
   bound is sharp: from 255 services on the 8-bit count wraps.
2. `BusyWhileBusy` and `NoLoopIsLost` are said in numbers (`Counts`): of the commands that
   the client waits for, those that write the status of a service, and its
   execution, are one while it is busy and none otherwise; those that read, the
   waiting timer and its queued handlers are the poll loops.
3. `ExecutedOnce`: `OncePerRequest`. `Progress` says how far the current request is, from
   `busy`, `executing` and the write of the status. It is not inductive on its own: a read
   may be answered before a write and handled after it, and then shows a
   request that was served. `Order` excludes that: such a read (`Stale`) is ahead of the
   write, or the service executes, so that the busy flag is still set when it is handled;
   and no read behind an unanswered write is answered.

**`ToolsProofs`.** `Inv` is about `Connection`: `Reported` (what a finished attempt has
reported), `Queued` (the resolver or the connection of an attempt is queued once, and in the
phase it belongs to) and `LoopState`: while one attempt is in progress there is no other and no
connection (`OnePending`), and a receive loop that outlived its connection ends before
the next one is made, since its handler is ahead of those of the attempt (`Dying`). Without
`Dying` a reconnect would add a second loop. The handlers are counted, as in `RpcServerProofs`.
`ToolsConnect` shows that every step of a tool is a step of `Connection` or none, which
carries `CalledBackOnce` and `LoopIsUnique` over to the tools. `ToolsReadWhatTheyWrote` needs besides that
chains in flight have no variable in common (`Disjoint`).

**`WireProofs`.** For every frame, coordinate and choice of `FallsShort`:
`FrameRoundTrip` (a frame is decoded as it was encoded, but the last user frame,
which is refused), `FixedIsNear` (a coordinate is cut towards zero, by at
most one unit, and keeps its sign), `NamesRoundTrip` (the twenty names of frames
are told apart and read back) and `YamlRoundTrip` (a position saved as YAML is
loaded as it was), which needs that a saved map has nine keys (`NineKeys`), counted from
three sets of three. `DecodersStayInside`: no decoder overruns, whatever the fields
of a reply are, since dropping a field takes four bytes at most (`TailSize`); the data of a
position has to be words, which is all that ever arrives for one. The other lemmas say
what a sequence of values looks like on the wire: values laid one after the other are found again at
the multiples of their size (`JoinedParts`, over the arithmetic of `Places`), they
have the size that the decoders expect, and decoding them gives the sequence or refuses it.

**`CodecProofs`.** One invariant, `CodecInv`, carries all seven properties.

1. `OnTheWay`: `CodecInv` is inductive. A command is in progress, or it ended, or there was
   none. In progress: the datagram on its way is the encoding of that very command, or the
   answer to it (`Answers`, computed from the command and the variables), or what became of
   one (`Spoilt`); what the controller did is what the command says (`Does`), within
   the variables there are (`InReach`). Ended: no success without the deed, no refusal of an
   answer that came whole, and what was reported is the robot's (`Reported`). None of these can be
   had alone: that a success was earned follows from what was on its way before.
   The steps of the proof are the roles of the model:
   * `RequestsDiffer` shows that the controller takes each request for what it is, by
     division, command number and service, but for `MoveL`, which it takes for a question for
     the position; `ReadIsDone`, `WriteIsDone` and `OtherIsDone` that it then does what
     was asked, for one variable and for many. What a write leaves is `WrittenIs`: the
     variables it names hold the encodings of the values given, the others what they held.
   * `Arrivals` goes through what the network makes of an answer, and `Replies` through what the
     decoder makes of the whole answer, a shorter one and an empty one. A part of what many
     variables hold is never taken for the whole, since its size differs.
   * `WhatIsRestored` and `WhatIsWrittenBack`: what is loaded or written back is a command that
     may be given, so that these are steps of `Send`.
2. `TypeCorrect`, `NeverOverruns`, `SuccessIsDone` and `RepliesUnderstood` follow.
3. `RobotReported`: `ReportsTheRobot`. A byte of the status is a sum of eight terms, one for each
   bit, and flags are in different bits (`FlagsDiffer`), so that the flags are read
   back from any set of them (`StatusIsRead`). The instances of `ReadCurrentPosition` that
   stand for axes of different kinds are disjoint, from which the position is that of the axes asked
   for. It is claimed of the groups that there are (`ControlGroups`, 0 to 9): the code
   checks no group, and group 10 of the robots is an instance of the bases.
4. `SavedIsLoaded`: `LoadedIsSaved`. What may be saved is what was read (`PositionsRead`);
   `SavedAndEdited` goes through each edit.
5. `ImplementsStore`: `KeepsPromise`. What the variables hold, for the store, is what decoding
   them gives (`Held`). `NearIsHeld` is the round trip that the store's `Near` allows: a value of
   type t that is encoded and decoded is `Near` what was given, for every value of every type.
   Sending asks, or fails (`SendIsAsk`); the controller reads, writes or does something else when the store does
   (`ServeIsServe`); receiving is the store's answer, a failure, or, if the datagram is
   dropped, nothing yet (`ReceiveIsAnswer`); refusals and what happens to a
   reply on its way the store does not see.

**Only model-checked**, and why:

* Liveness and everything with fairness or `ENABLED`, which the prover does not
  reach: `EverySessionEnds`, `TransferEnds`, `StopsPolling` and `EveryRequestAnswered`, `AttemptEnds`,
  `ChainsGoOn`, `ToolEnds`, and the fair halves of `KeepsWholePromise`.
* `FileList`, `ReadFile` and `WriteFile` on their own, whose runs end in a counterexample.

## 6. What the code does otherwise than it says

Five runs end in a counterexample on purpose; each checks one sentence of the
repository, quoted in `PROJECT.json` under `findings`.

| Run | What happens |
|---|---|
| `client_dead_session` | The posted reset waits for queued handlers but not for an `async_send` that is still in progress; when that fails later, its handler runs on a destroyed session. |
| `read_file_next_block` | Nothing increments `blocks_received_`: the second block of every file is refused. |
| `write_file_data` | Nothing calls `writeNextBlock`: after the acknowledgement of the command no data is sent. |
| `connection_timeout_throws` | The timeout of an attempt whose host is not resolved yet cancels a socket that was never opened, which throws; the callback is not called. |
| `file_list` | The loop that splits a file list never advances. |

The models keep all of these. As a consequence downloads of more than one block
and uploads that are not empty never succeed, which `ReadIsTheFile` and
`SuccessMeansStored` hold about as they are and will have to hold about once
that is repaired.

Behaviour that no run states as a violation, because the repository says
nothing else, and which the properties above allow explicitly:

* A command that is still pending when 256 later ones have been sent makes
  `registerHandler` throw (`client.cpp:67`), and its late reply may answer the command
  that has its id by then (`CollisionNeedsWrap`, `WrongReplyNeedsWrap`).
* `connect` on a connected client starts a second receive loop on the same
  buffer, and an attempt that timed out while connecting can take the socket
  from its retry (`misused` and `late` in `OneLoop`).
* When `start` of a later sub-session throws, the earlier ones of a
  `sendCommands` stay registered without a deadline, and `status` is "threw" if
  nobody catches it. Who does has lost those ids until an error ends one of them,
  which then resolves sub-sessions that never started (`Resolve`, `Caught`): an
  empty callback is called or a token is removed that was never set.
* A lost, late or overtaken status write makes an RPC server execute a request
  again, or swallow a newer one (`faults` in `OncePerRequest`); a stopped server
  makes one more poll if its timer was waiting (`StopsPolling`). With 255
  services or more `status_var` and the count of the poll wrap, which
  `ServicesAssumption` excludes.
* `MoveL` is sent with the command and service of reading the position, so that no
  controller moves: `protocol.cpp:127` and `:130` speak of a linear move. The answer, a
  position, is larger than the empty one that is expected: a `MoveL` whose answer comes
  whole is reported as failed. `SuccessMeansDone` therefore says nothing of it, and
  `CleanRepliesAreUnderstood` excepts it.
* User frame 16 is written and cannot be read back, frame number 0 of type user reads as
  `robot`, and a coordinate can lose a unit each time it is read and written back:
  `Near`, the equality that `VariableStore` promises, allows the first and the last. `encode`
  throws for the `master` frame.
* An empty reply passes for a position of zeros, and a reply is told from another only by
  its size (`ReportsTheRobot`, `SuccessMeansDone`).
* A coordinate beyond what an `int32` holds in units of the wire is converted by an
  undefined conversion (`encode.cpp:175`). `Coordinates` are those within it.
* `read_status.cpp:54` asks a position in pulses for its cartesian form, which
  throws: the tool crashes if the controller answers with joints (`Answered` in
  `Tools`).
  `file_manager` reads an argument of `delete` that was not given (`OnSuccess`),
  and does not end after a transfer that succeeded, since its receive loop goes on:
  `ToolEnds` speaks of what failed only.
* Seen on the way and not modelled: `command_traits.hpp:70` specialises the
  trait of downloads for a command that is an upload; `PulsePosition::operator==`
  compares joints beyond those that are set.

## 7. Not modelled

* `src/eigen.cpp`: rotations in floating point, with no state and no branches.
* The text of numbers in YAML, which is yaml-cpp's: a number is read as written.
* Printing, texts of errors, logging, the timer that prints the rate of a tool,
  and `readFloat32` and `readPosition` of `udp_test`, which nothing calls.
* Decoding the file that a download has stored: `OnResponse` takes it to succeed. That of a
  file list spins or throws before the callback is called (`protocol.cpp:302`), which
  `FileList` shows.
* `writeNextBlock` is never called, so that a model of it would never take a step;
  `WritesData` shows what follows from that.
* Durations: a deadline may pass at any time, so that one timeout for a whole
  transfer (`read_file.hpp:144`) cannot be told from one per block.
* A service that never resolves, or resolves twice: the contract of
  `rpc_server.hpp:102` leaves it to the caller.
* Several transfers at once, and transfers and commands mixed: they share only
  the ids and the table of `UdpClient`, which treats every session alike.
* The commands that `addService` can run before a service: they are one
  `sendCommands` (`MultiCommand`) and end in the service or in `resolve` with its
  error. To `RpcServer` this is a service that resolves now or later.

## 8. Plan

Done, in this order: `UdpClient` with `CommandPromise` and its proofs, the file
transfers, `MultiCommand` with `AllOrNothing`, `RpcServer`, `Connection`, `Wire`
and `Codec` with `VariableStore`, `FileList`, `Tools` over `Connection`, `Text`.

Left in the models:

1. Two services in the run of `RpcServer`. Its safety properties hold there
   (3 826 974 states), its liveness is out of reach in a short run.
2. A composition of `Connection` and `UdpClient`: sessions that wait while a
   second connect replaces the socket under them.
3. Two transfers, or a transfer and a command, on one client, with ids that wrap.

Left in the proofs: no safety property of a passing run. What comes next depends on
the code: once the transfers are repaired (section 6), `Download` and `Upload` have to be
replaced by invariants of several blocks. The sizes of replies, `Spoilt` and the
controller of `Codec` would serve for a proof that the fields of the file commands
are told apart in the same way.
