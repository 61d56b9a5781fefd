# A TLA+ model of aergo_interface

aergo_interface is a CBun (a plug-in of the Kassow robot controller) that lets one
TCP client move the robot: joint, linear, arc and trajectory moves, cancellation,
and a periodic status. This directory holds its specification: TLA+ modules
translated from the sources under `src/backend`, TLC configurations that check
them, and proofs checked by TLAPS.

## 1. The system

| component | source | state | operations |
|---|---|---|---|
| adapter `AergoConnector::Impl` | `cbun/src/aergo_adapter_impl.cpp`, `cbun/include/aergo/aergo_adapter_impl.h` | RPC server pointer and run flag, trajectory thread and stop flag, response buffer, next and current action id, start time | `onActivate`, `onDeactivate`, `onDestroy`, destructor; `processRequest` and the five start handlers, cancel; `handleUpdates`; the trajectory worker |
| move protocol | `lib/robot_interface/.../message_types.h`, `.../robot_control/messages.h` | ids handed out, action in progress, actions reported | START, UPDATE, STATUS, FINISHED |
| robot controller | outside the repository (`kr2rc_api2::Move`, system state) | motion and safety flags, queue of targets | follow, add, terminate; begins, reaches, rests, faults, recovers |
| RPC client and server | `lib/rpc/src/rpc_transport.cpp` | mutex, request ids, sockets, callbacks; listening socket, client socket | `connect`, `disconnect`, `sendRequest`, `pollOnce`; `start`, `stop`, `ensureClient`, `pollOnce`, `send*` |
| framing, `TcpSocket` | the same file | socket, position in a frame | `sendAll`, `recvAll`, `waitForData`, `writeFrame`, `readFrame` |
| payload codec | `robot_control/messages.cpp`, `serialization_helper.h`; the wire structs of `rpc_transport.cpp` | none of its own; the callers' buffer and objects, which are used again | one serializer and one deserializer for each kind of message |
| entry points, logging, helpers, build | `aergo_adapter.cpp`, `logging.h`, `cpp17_utils.h`, CMake, `bundle.xml` | none | forwarding, output |

How they interact. The host framework calls `onActivate` and later `onDeactivate`,
`onDestroy` and the destructor on its own thread. `onActivate` starts the RPC
thread, whose loop (`rpcServerThreadFunc`) takes a snapshot of the robot (`spin`),
calls `RpcServer::pollOnce` until it finds no request, and calls `handleUpdates`,
which sends the status and finds out from the flags of the snapshot whether the
current move has ended. `pollOnce` calls `processRequest` synchronously; the handler
commands the controller, and for a trajectory starts a worker thread that hands
over the remaining knots. A new move or a cancel first stops and joins the worker.
`onDeactivate` does so too, from the host thread, and then joins the RPC thread.
Nothing is persisted; there is no lock in the adapter: the threads share
two atomic flags, the `std::thread` object of the worker, the controller and,
through joins only, the rest.

What is hard here: the worker's `std::thread` is handled by two threads; the RPC
thread can start a worker after the host has stopped it; the end of a move is
guessed from flags and a minimal duration; one buffer serves all messages; a move
is ended before its successor is accepted; connections, reads and writes fail
half-way. `PROJECT.json` lists every such point with its line under `hazards`.

## 2. Modules

| module | models |
|---|---|
| `KassowRobot` | the controller, as far as the adapter relies on it (external) |
| `AergoAdapter` | the adapter: host, RPC and worker threads over `KassowRobot` |
| `MoveContract` | abstract: the life of move actions; `AergoAdapter` implements it |
| `MCAergoAdapter` | values of constants for the runs |
| `AdapterClaims` | statements of the protocol headers that the adapter refutes |
| `FrameChannel` | abstract: one direction of a connection as a queue of frames |
| `FrameStream`, `MCFrameStream` | bytes of frames through `sendAll` and `recvAll`; implements `FrameChannel` |
| `RpcSession` | `RpcClient` and `RpcServer` with whole frames over successive connections |
| `ByteBuffer` | bytes: `push`, `BufferReader`, network order |
| `RobotMessages` | the payloads of `messages.cpp`, over `ByteBuffer` |
| `WireStructs` | the fixed-size payloads and the frame header of the RPC layer, over `ByteBuffer` |
| `CodecSession`, `MCCodecSession` | a buffer and an object that go through the codec again and again |
| `AergoAdapterProofs` | theorems: types, the move protocol, the refinement of `MoveContract`, threads and queue, what the contract means for its users |
| `AdapterMessagesProofs`, `AdapterTimingProofs` | theorems on messages, on what a report says of the robot |
| `FrameStreamProofs`, `RpcSessionProofs` | theorems on framing, and on calls and notifications |
| `ByteBufferProofs` | lemmas: powers and digits, bytes and back, windows, each operation of the reader |
| `CodecProofs` | theorems on the codec: types, round trips, refusals, bounds of reads |
| `SequenceLemmas` | lemmas on sequences that the last four need: induction as a statement about sets, `FlattenSeq` |

Definitions whose name has a suffix after an underscore, such as
`RpcFinish_NoReset`, are the mutated forms of the definition after them; no
specification uses them (the code's own trailing underscores aside).

### AergoAdapter and the code

Variables with the name of a member are that member (`rpc_server_` and
`current_move_action_id_` as existence and id, 0 for `nullopt`). `host` and `rpc`
are program counters, `goal` is the call the host makes, `task` is why the RPC
thread is about to stop the worker, `joinable` and `worker` are `trajectory_thread_`
and the thread behind it, `seen` is what `spin` read. `young` stands for the clock
comparison of `handleUpdates`: it is raised when a move starts, and
`MinDurationElapses` lowers it. `sent`, `origin`, `cancelled`, `truncated`, `overtaken`,
`fresh` and the `arrived`, `hit` of the robot are history that the code does not have.

Nothing is assumed of speeds. `min_move_duration_us_` is 100 ms, while one poll of an
idle connection takes 200 ms, a `send` may block, and a trajectory has up to 32768 poses.
So the duration may elapse at any time after a start (before the next snapshot, before
the controller has acted on the command), and the robot may run out of knots while the
worker is still adding them (`overtaken`).
`RestFlags` are the sets of flags the controller may show at rest; that it may also never
show rest is the empty set of them.

A step of a thread is the code between two points at which another thread can see
or change what it uses. So a handler that only answers is one step
(`AnswerMalformed`, `RefuseMove`, ...); a move is `EngageMove` (checks of
the request), `RpcStopWorker` and `RpcJoin` (`stopTrajectoryWorker`), `RpcFinish`
(`finishCurrentMoveAction`), then the command: `RpcStartMove`, or
`RpcStartTrajectory` and `RpcSpawnWorker`, or `RpcMoveRejected`. Responses are sent
in the last step. The host's `onDeactivate` is `HostStoreStop`,
`HostCheckJoinable`, `HostJoin`, `HostClearRunning`, `HostHalt`. A join of a thread
object that another thread has joined or is joining is `RpcJoinMisuse` /
`HostJoinMisuse`: it raises `crashed`, after which nothing happens.

A request is a record with the attributes the handlers branch on. That the
controller may reject any command for reasons of its own is a nondeterministic
choice; so are lost connections, at every send and every poll.

`RobotStatus` derives the status from the flags in the order of `readRobotStatus`.
Of the safety flags only PSTOP and ESTOP exist, since the code masks the others.

A client may stop reading while the socket buffers are full (`ClientStalls`, allowed
by the constant `ClientMayStall`). `send` then does not return: a response waits in
`unsent` and the RPC thread with it (`RpcUnblocked` is the return of `send`, with the
frame delivered or the connection closed); status and FINISHED messages are not
sent before the client has resumed. The client may resume, be lost, or do neither.

The host is assumed to call `onActivate` only on an inactive object; the code does
not defend itself against a second one.

### FrameStream and RpcSession

`FrameStream` follows single bytes: a byte is the number of its frame and its place
in it, sizes are counted in a few bytes. `recvAll` is `RecvSome` until
`Wanted`; a header read from the wrong place may contain any sizes. `cut` records
that a read ended in mid-frame (a deadline, or the guard rail `MAX_FRAME_SIZE`,
which refuses a frame without consuming it). The code leaves the connection open
then, and nothing is promised afterwards.

`RpcSession` takes whole frames. All operations of `RpcClient` hold
`socket_mutex_` from beginning to end, so the client is described by what the
holder does (`lock`). A reader that was cut is in `garbled`, and from then on
`Misread` / `ServerMisreads` may produce anything. Notifications are STATUS and
FINISHED frames alike. `of` numbers calls and notifications for the properties only.
Capacity bounds the frames of each direction: a write without room waits, as `send`
does. The server has one thread: from `Notify`, in a handler or between two requests, to
`NoteSent` it is in `send` (`sending`), and meanwhile it reads, answers and accepts
nothing.

`StopServer` is what `start` and `stop` share: the connection and those that wait to be
accepted end with the listen socket. A `connect` that fails has the effect of
`Disconnect`.

### The codec

A serializer is an operator from the old buffer and the object to the bytes it leaves
and whether it throws; a deserializer is an operator from the bytes and the object
that is filled to a reader record: position, ok, and the object as far as it was
filled. Reads are the code's reads one by one, with the checks between them; after
a failed read nothing changes, which is the early return. A text or a vector is
resized before it is filled, as in the code, so its old contents can be seen.
`Fits` computes `pos_ + size` in the width of `size_t`.

`CodecSession` chooses one kind of message (`interface`) and then serializes objects
into one buffer and deserializes the buffer into one object, whole or damaged: cut
short, with one byte zero or one up or down, with a number at its maximum, with a
byte too many. Damaged messages are what a reader of a stream out of step
produces (`garbled` in `RpcSession`).

## 3. What the runs check

All with `tlc -workers 2 -config X.cfg M`.

| run | bounds | what it shows |
|---|---|---|
| `adapter_moves` | 3 requests of a joint move, a 3-pose trajectory, a cancel; 1 connection; 1 fault (freedrive); a controller that rests in SYNC; any speed | `OneFinishPerAction`, `MoveInv`: no action reported twice or while current; `SingleMoveQueue`: no knots of two moves in the controller; `CancelledMoveStays`: no knot after an accepted cancel; `NotInProgressIsFinal`: a client told NOT_IN_PROGRESS hears no more of its action; `KeepsMoveContract`: implements `MoveContract`; `SuccessMeansReached`, `FailureHasCause`: reports agree with what the robot did, with the exceptions named below |
| `adapter_protocol` | 2 requests, one of each outcome; 2 connections; 1 protective stop; clients that stall | `AnswerBeforeFinish`: the answer with an id precedes its report; `BlobContract`: no message carries the bytes of another |
| `adapter_lifecycle` | 2 requests, 2 connections, 2 activations, all host calls at any time; a controller that shows TRACKING for good once it has moved (no thread waits for the robot) | `NoThreadMisuse`: only inside a host call that stops the worker can the thread object be misused; `ServerOutlivesRpcThread`; `NoWorkerAfterDestruction`: a worker started during `onDeactivate` ends before the destructor returns |
| `adapter_live` | 1 trajectory, 1 fault without a motion flag, deactivation, clients that stall | `HostCallsReturn`, `MoveIsReported`: within these bounds a deactivation returns and a move is reported, unless the RPC thread waits in `send` for a client that does not read |
| `frame_stream` | 3 frames of 4 shapes, headers of 2 bytes, buffer of 3 bytes | `DeliversFrames`: implements `FrameChannel`; `NothingLost`: every byte not handed over is in `sendAll`, in the connection or in `recvAll`; `FramesArrive` |
| `rpc_session` | 3 calls with 3 ids, 2 notifications, 2 connections, 1 cut, capacity 1, a server that stops and starts at any time | `AnswersOwnRequest`: no late answer is taken for a new one; `NotificationsKept`: none lost, all in order; `CallsReturn`, `HandlersReturn`: these calls return unless both ends are blocked in `send`; `NewConnectionIsServed`: a new connection does not wait for ever behind an old one |
| `payload_codec` | see below | `WholeIsUnderstood`: decoding undoes encoding for the documented types, whatever buffer and object held; `PartIsRefused`, `ThrownIsRefused`: no part is taken for a message; `ReadsInside`: no length leads past the end; `AcceptedCouldBeSent`: what is accepted has the counts of a request that can be sent; `RefusedRequestKeepsOld` |
| `claim_no_data`, `claim_echo`, `claim_success`, `claim_over`, `claim_pose_count` | 2 or 3 requests; those of `payload_codec` | each refutes one sentence of the protocol headers, see below |

The bounds: two moves and a cancel are enough for every order of start, replace,
cancel and report, since the adapter remembers one action; the third request lets
a replaced move be replaced again. A 3-pose trajectory has a first, a via and a
last knot, so that the worker can be stopped before, between and after them. Two
connections cover an action reported to another client than the one that started
it, two activations cover state that survives deactivation. In `frame_stream` a
header may be split, a payload and a blob may be empty, the buffer is smaller than
a frame, and one shape is above the guard rail. In `rpc_session` ids wrap, and with one frame of room each way three
calls, or two calls and two notifications, make both ends wait; that the safety properties do not depend on the room is proved. In
`payload_codec` a byte has 8 values,
the integers have 1, 2 and 3 bytes and doubles 2, so that damaged lengths reach the
largest `size_t`; the limits are 2 joints, 3 poses, 3 characters, and objects have counts
from none to one above the limit. Two reads show what an object keeps of an
earlier message, one of the two may be damaged. All values are copied byte by byte
by the same operators, so larger bases add no case.

Deadlock is checked except where the system may rest: after destruction, after a
misused thread, when clients have used up their requests and both ends are closed.

Properties that need a reading:

* `NoThreadMisuse` is not "never crashes": `onDeactivate` on the host thread and a
  move or cancel on the RPC thread can both join the worker, and the program then
  ends. The property bounds that hazard to the duration of a host call.
* `SuccessMeansReached` and `FailureHasCause` hold at any speed, and name what a report
  can also come from. `handleUpdates` reads the snapshot that `spin` took before the last
  polls, and believes it once `min_move_duration_us_` has elapsed. `SnapshotTooOld` is the
  case that it was taken before the controller acted on the newest command: a real one,
  since the poll in between may take 200 ms. Then a move is reported as a success
  before it has begun, or as a failure for a fault that was over. The other ways to a success
  without arrival are a cancel, a fault that was over when the snapshot was taken, a
  trajectory given up by its worker (`truncated`), and an arm at rest between two knots
  because the worker was late (`overtaken`). Each of them occurs in the run: TLC finds a
  violation when any of these disjuncts is left out. What the properties add is that
  nothing else leads there: no SYNC flag at the end of a move, no fault or success
  left over from the move before, no order of cancel, replacement and report.
* `HostCallsReturn` and `MoveIsReported` name `SendBlocks`: `send` has no deadline, and
  `onDeactivate` joins the RPC thread before it calls `rpc_server_->stop()`, whose
  closing of the socket is what would end the `send`. A client that keeps its
  connection open without reading therefore holds up a deactivation for as long as
  it likes. TLC finds this at once when the disjunct is taken away. The runs have a
  bounded number of requests: that a client which never stops sending keeps the RPC
  thread in its polling loop, away from `handleUpdates` and the run flag, is not excluded by
  them (a hazard in `PROJECT.json`).
* `NotInProgressIsFinal` speaks of ids that were handed out to a client. It is what
  makes a lost FINISHED message harmless: the client can ask by a cancel.
* `WholeIsUnderstood` includes robot specifications with more joints than limits,
  which the serializer writes and the deserializer refuses, and with fewer, of which
  the rest of the limits is ignored. It leaves out updates of a type that
  `messages.h` does not define, about which documentation and code disagree (below).
* The write cycle: `sendRequest` writes without a deadline while it holds the
  mutex, the server writes answers and status messages from the thread that reads requests,
  in a handler or between two requests. With both directions full, each waits for the
  other until the connection breaks. `CallsReturn` and `HandlersReturn` except it.

### Where the code and its documents differ

* `messages.h:21` promises no data with SuccessInProgress; the answer to a move that
  replaces another carries the text of that other move's report, because handler
  and report share `response_blob_buffer_` (`claim_no_data`).
* `message_types.h:87` promises that answers to updates copy the id; failures carry
  id 0 (`claim_echo`).
* `message_types.h:101` says success tells whether the action completed; a trajectory
  that was given up half-way is a success (`claim_success`). One way there is a cancel
  that the controller rejects: its worker has been stopped by then. An old snapshot and a
  late worker lead to such reports too (`SuccessMeansReached` above); the claim leaves them
  out, so that what refutes it does not depend on speeds.
* `message_types.h:32` says FINISHED comes after an action has finished; a move is
  reported before its successor is accepted, and goes on when that is rejected
  (`claim_over`).
* `messages.h:103` documents a 64-bit pose count where the code has 16 bits
  (`claim_pose_count`).
* `messages.h:236-239` documents that `deserializeMoveRequest` returns false on an unknown
  type; `messages.cpp:438-455` accepts any byte there. The adapter looks at the type itself
  and refuses it (`aergo_adapter_impl.cpp:309-313`), with the id 0 of `claim_echo`, so that
  a client sees a refusal in either case. No run is about it; `WholeIsUnderstood`
  is restricted to the documented type.
* `message_types.h:27` reserves DataInvalid on an update for an action that is in
  progress; the code answers it before it looks at the id. A client cannot tell
  the difference by anything it can check, and no run is about it.

## 4. Fairness

`AergoAdapter`: weak fairness for each thread (the operating system schedules
them), for a host call once begun (not for making one), for the controller's
motion and for time; strong fairness for `RpcUpdates`, that is, reading the robot's
position does not fail forever. Nothing is assumed of clients, of faults or of
recovery: a client that has stalled may never read again.

`RpcSession`: the server loop and writes with room go on (a `send` of a notification,
`NoteSent`, returns when there is room or fails with its connection), a waiting call reaches
its deadline, and the network tells either end that the other is gone. Strong
fairness for the client's reading: application threads poll, and the mutex, which
is not fair in C++, does not keep them out forever; also for `Serve`, which
alternates with a handler. `FrameStream`: strong fairness for reading, since a read
may be started with a deadline that has passed.

## 5. Proofs

Everything below holds for all values of the constants that satisfy the ASSUMEs of the
modules: the bounds are numbers, sizes and capacities positive, the requests of the kinds
the model knows.
Two assumptions say something about the world. `IdsAssumption`: a session makes no more
calls than there are request ids (the code has 2^32). `CodecBounds`: a message and the longest
read after it (some 4 kB) are shorter than the range of `size_t`, 2^64.

### The adapter

* `TypeCorrect`: `Spec => []TypeOK`. `ResponseEffect` and `UnblockedEffect` say what a
  response does that is delivered, lost or kept back; then one lemma per group of variables
  (`SwitchesStep`, `ControlStep`, `MessagesStep`), in each one step per action.
* `MovesInOrder`: `Spec => []MoveInv`. `OneFinishPerAction` alone is not inductive:
  one has to know that the current action is the newest (`PlacesInv`), that the RPC
  thread is in `finish` only with a current action and in `command` for a start or in
  `spawn` only without one, and that every report is of an id handed out before
  (`ReportsInv`). `MoveEffects` reduces the actions to four effects: nothing, a
  response, a start, an end. `FinishedOnce` (`OneFinishPerAction`) and
  `ImplementsContract` (`KeepsMoveContract`) follow by the same lemma; `ContractMeaning`
  says what the contract is worth to whoever keeps it.
* `ThreadsInPlace`: `Spec => []ThreadsInv`. The destructor stops the worker alone, so
  `LifecycleInv` says that the RPC thread is gone by then. `JoinInv` says where
  `trajectory_thread_` is joined: it is empty wherever the RPC thread commands the
  controller, and an RPC thread that finds it empty although it decided to join it
  was overtaken by a host that is past its own join. `QueueInv` ties a worker to the
  knots of its move, which between `follow` and the start of the worker is the move
  whose id comes next. From these follow `ServerOutlives`, `DestructorLeavesNoWorker`,
  `ThreadObjectUse`, `OneMoveInQueue` and `CancelIsLasting`.
* `MessagesInOrder`: `Spec => [](TaskInv /\ MessagesInv)`. A response may wait in `send`
  while its effects have been made, so the promises of delivered frames have to
  hold of the waiting one too (`PendingInv`), and the client of the current action
  has its id or the waiting response does (`AnsweredInv`). `TaskInv` says what the RPC
  thread knows at each point of a cancel. From it follow `AnswerComesFirst`,
  `BlobsAreClean` and `NotInProgressStays`.
* `SnapshotsInTime`: `Spec => []TimingInv`. The snapshot is older than the robot's state,
  and `handleUpdates` decides by it. `ControllerInv` says that a controller under way is at
  rest only when the move is done, which includes `overtaken`, and that the queue of a
  trajectory handed over ends in a stop point until that is reached. `SnapshotInv` says that a
  snapshot taken after the command took effect is one of the current move, and that
  a reason to end a move is either backed by such a snapshot or taken after the minimal
  duration (`SnapshotTooOld`). From it follow the action properties `SuccessIsEarned`
  and `FailureIsFault`, at any speed of the threads and the controller.

### The framing

* `BytesInOrder`: `StreamSpec => []StreamInv`. `NothingLost` counts bytes and is not
  inductive; what is, is their order (`OrderInv`): the bytes in `recvAll`, in the
  connection and in `sendAll`, in this order, are the beginning of the bytes of
  the frames not yet handed over, and all of them while the writer is there. With
  `HeadInv`, that the header in use is the one of the frame that is due, no wrong size is
  ever used. A partial `send` or `recv` moves a cut within one sequence
  (`SplitAt`); a complete frame takes its own bytes off the front.
* `StreamTypes`, `NoByteLost`, and `FramesInOrder`: the stream implements `FrameChannel`;
  each action is a Put, a Get, an end of one side, or a stutter.

### Calls and notifications

* `AnswersGoHome`: `SessionSpec => []AnswersOwnRequest`. Between request and answer lie a
  connection, a handler and another connection, and a call that has given up leaves its frames
  in them. `AnswersInv` therefore speaks of all of them: on a clean connection every
  request and answer carries the id `IdOf` of its own call (`Owned`), and the mutex
  holder waits for the id of its own call (`CallInv`). `IdOfInjective` then identifies the
  answer; this is where `IdsAssumption` is needed.
* `NotesInOrder`: `SessionSpec => []NotificationsKept`, from `ConnectionsInv` (a connection
  that was not made carries nothing) and the lemmas on `FlattenSeq`: what was sent is
  what was handed to the callbacks followed by what is on its way.
* `SessionTypes`: `SessionSpec => []SessionTypeOK`, by four groups of variables.

### The codec

`CodecProofs` proves every property of the run `payload_codec`, for every base (so for
bytes of 256 values), every width of a type and every limit, every object of the ten
formats and any bytes on the way. The argument goes from the reader up:

* `ByteBufferProofs`: a number below `Power(w)` is what its w digits make (`DigitStep`,
  by `SetInduction`), so reading a written number yields it. `Follows(r, s)` says
  what any operation of `BufferReader` does: the reader keeps its data, moves forward
  within it, keeps `inside`, and does nothing once it has failed.
* Closed forms of reading: for each format, which bytes are accepted, where the reader then
  stands and what it has made of them (`Counts`, `StartEnd`, `StartAt` and their like
  for the other formats). They hold of any bytes. A vector is a loop in the code and a
  fold in the model; `LoopExists` turns the fold into a function with one value per
  round, and `SetInduction` goes over the rounds. `ReadBytes`, whose sums are those of
  `size_t`, is exact below `CodecBounds`, given that the count was checked against its
  limit first: without that check the lemma `SoundRoom` does not apply, which is what
  the mutant of `ReadsInside` shows.
* `StartWritten`, `SpecsWritten`, `StatusWritten` and their like: what a serializer writes
  has the numbers at the places where the closed form looks for them.
* `WholeArrives`: on the whole message the closed form is the object sent, up to `Meaning`
  (texts clipped, surplus limits dropped). `PartArrives`: the beginning of a message has
  the numbers of the whole (`BeginsNumber`), so the same counts, so an end it does not
  reach. `AcceptedArrives`: two messages of one kind and one meaning have one length
  (`SameStart`).
* `CodecInvariant`: the properties alone are not inductive; `CodecGiven` adds that the buffer
  is the message of the object given last, as written into an empty buffer, so that
  nothing of an earlier message is left in it (`EncodedClears`). `DecodedIs` gives the type
  invariant, `ReadsInside` and, with an old object kept on refusal (`Kept`),
  `CodecKeepsOld`.

The theorems `CodecTypeCorrect`, `CodecUnderstands`, `CodecRefusesParts`,
`CodecRefusesThrown`, `CodecReadsInside`, `CodecAcceptsSent` and `CodecKeepsOld` name one
property each.

Induction: `SetInduction` of `SequenceLemmas` is the least-element argument as a
statement about subsets of Nat; it replaces the theorems of the library
that take an operator as a parameter, which the provers cannot instantiate.

Only model-checked: liveness (`HostCallsReturn`, `MoveIsReported`, `FramesArrive`,
`CallsReturn`, `HandlersReturn`, `NewConnectionIsServed`), since the prover has no
ENABLED and no fairness. Every other property of a passing run is a theorem.

## 6. Not modelled

Floating point (limits, poses, NaN), the port and XML parameters (a refused
activation leaves no trace), `onCreate` (the framework's own activation), logging, address
resolution and socket options, callbacks that call back, a second `onActivate`
without deactivation, SIGPIPE, descriptors beyond `FD_SETSIZE`.

## 7. Plan

1. `AergoAdapter` with `MoveContract`: done.
2. `FrameStream` with `FrameChannel`, `RpcSession`: done.
3. `ByteBuffer`, `RobotMessages`, `WireStructs`, `CodecSession`: done.
4. Clients that stall, in `AergoAdapter`; restarts of the server, in `RpcSession`: done.
5. Proofs of the adapter's, the stream's and the session's safety: done.
6. Proofs of the codec: done. What is left to TLC is liveness.
