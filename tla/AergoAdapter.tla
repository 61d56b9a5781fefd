---------------------------- MODULE AergoAdapter ----------------------------
(***************************************************************************)
(* AergoConnector::Impl (cbun/src/aergo_adapter_impl.cpp): the CBun that   *)
(* serves the robot-control feature to one TCP client.                     *)
(*                                                                         *)
(* Three threads share the object:                                         *)
(*   - the host thread runs onActivate, onDeactivate, onDestroy and ~Impl; *)
(*   - the RPC thread runs rpcServerThreadFunc: it takes a snapshot of the *)
(*     robot state (spin), answers requests until none is left, then       *)
(*     handleUpdates publishes the status and reports finished moves;      *)
(*   - the trajectory worker feeds the knots of a MoveTrajectory request   *)
(*     to the controller.                                                  *)
(* The controller (KassowRobot), the client and the passing of time are    *)
(* the environment.  A step of a thread is the code between two points     *)
(* where another thread can see or change what it uses: the stop flag, the *)
(* std::thread objects, the controller, the RPC server pointer.            *)
(***************************************************************************)
EXTENDS KassowRobot

CONSTANTS
  Requests,         \* the requests clients may send
  NumJoints,        \* robot_specs.num_joints
  MaxRequests,      \* bound on the requests of a behaviour
  MaxSessions,      \* bound on the client connections of a behaviour
  MaxActivations,   \* bound on the calls of onActivate
  HostCalls,        \* the calls the host makes besides onActivate
  ClientMayStall    \* clients may stop reading with the socket buffers full

StartKinds ==
  {"MoveJoint", "MoveLinear", "MoveArc", "MoveTrajectory", "GetRobotSpecs"}
UpdateKinds == {"CancelMovement", "OtherUpdate"}

(***************************************************************************)
(* A request, with what the handlers look at in its payload: `fast` says   *)
(* that a speed or an acceleration is above the limit, `noCircle` that a   *)
(* full-circle arc has a percentage that is not positive.  A payload of    *)
(* the kind "garbage" cannot be deserialized.                              *)
(***************************************************************************)
Request == [feature: {"ROBOT_CONTROL", "OTHER"},
            req_type: {"START_ACTION", "UPDATE_ACTION", "UNKNOWN"},
            action_id: Nat,
            kind: StartKinds \cup UpdateKinds \cup {"garbage"},
            joints: Nat, poses: Nat, fast: BOOLEAN, noCircle: BOOLEAN]

ASSUME RequestsAssumption == Requests \subseteq Request
ASSUME BoundsAssumption ==
  /\ NumJoints \in Nat
  /\ MaxRequests \in Nat
  /\ MaxSessions \in Nat
  /\ MaxActivations \in Nat
ASSUME StallAssumption == ClientMayStall \in BOOLEAN
ASSUME HostCallsAssumption == HostCalls \subseteq {"deactivate", "destroy", "destruct"}

VARIABLES
  \* host thread
  host,          \* where the host is in its calls
  goal,          \* the call it is making
  activations,   \* calls of onActivate so far
  \* shared by the threads
  rpc_server_,                \* the server exists
  rpc_server_running_,
  trajectory_stop_requested_,
  joinable,                   \* trajectory_thread_.joinable()
  worker,                     \* the trajectory worker thread
  crashed,                    \* a std::thread was misused: system_error or terminate
  \* RPC thread
  rpc,                        \* where the RPC thread is
  task,                       \* what it is doing between two polls
  seen,                       \* the flags as of the last spin
  fresh,                      \* the last spin came after the newest command took effect
  response_blob_buffer_,
  next_action_id_,
  current_move_action_id_,    \* NoAction for nullopt
  young,                      \* min_move_duration_us_ has not elapsed for the newest move
  \* connection
  connected,                  \* the server has a client
  stalled,                    \* the client does not read and send would block
  unsent,                     \* the response in a send that blocks
  session,                    \* number of the newest connection
  sent,                       \* RESPONSE and FINISHED frames delivered (history)
  requests,                   \* requests handled so far
  \* history
  origin,                     \* session in which the newest action was started
  cancelled,                  \* terminate was accepted since the newest follow
  truncated,                  \* the worker gave up a trajectory since the newest follow
  overtaken                   \* the arm rested while the worker still had knots to add

hostVars   == <<host, goal, activations>>
sharedVars == <<rpc_server_, rpc_server_running_>>
workerVars == <<trajectory_stop_requested_, joinable, worker>>
loopVars   == <<rpc, task>>
moveVars   == <<next_action_id_, current_move_action_id_, young, origin>>
lineVars   == <<connected, stalled, unsent, sent>>
clientVars == <<lineVars, session, requests>>
ghostVars  == <<cancelled, truncated, overtaken>>

vars == <<robotVars, hostVars, sharedVars, workerVars, crashed, loopVars, seen,
          fresh, response_blob_buffer_, moveVars, clientVars, ghostVars>>

NoAction == 0

NoRequest == [feature |-> "OTHER", req_type |-> "UNKNOWN", action_id |-> 0,
              kind |-> "garbage", joints |-> 0, poses |-> 0,
              fast |-> FALSE, noCircle |-> FALSE]

\* The reasons for which the RPC thread leaves its polling.
Task(why, req) == [why |-> why, req |-> req]
NoTask == Task("none", NoRequest)

NoWorker == [pc |-> "off", knot |-> 0, move |-> 0, count |-> 0]

Init ==
  /\ RobotInit
  /\ host = "inactive" /\ goal = "none" /\ activations = 0
  /\ rpc_server_ = FALSE /\ rpc_server_running_ = FALSE
  /\ trajectory_stop_requested_ = FALSE /\ joinable = FALSE /\ worker = NoWorker
  /\ crashed = FALSE
  /\ rpc = "none" /\ task = NoTask
  /\ seen = {"STANDBY"} /\ fresh = FALSE
  /\ response_blob_buffer_ = "empty"
  /\ next_action_id_ = 1 /\ current_move_action_id_ = NoAction
  /\ young = FALSE /\ origin = 0
  /\ connected = FALSE /\ stalled = FALSE /\ unsent = <<>> /\ session = 0 /\ sent = <<>> /\ requests = 0
  /\ cancelled = FALSE /\ truncated = FALSE /\ overtaken = FALSE

-----------------------------------------------------------------------------
(***************************************************************************)
(* Frames.  sendFrame does nothing without a client; when the write fails  *)
(* TcpSocket::sendAll closes the connection.  There is no deadline: while  *)
(* the client is stalled the thread stays in send.                         *)
(***************************************************************************)
Response(req, type, id, blob) ==
  [kind |-> "RESPONSE", session |-> session, resp_type |-> type,
   action_id |-> id, blob |-> blob, req_type |-> req.req_type,
   asked |-> req.action_id]

Finished(id, success, blob) ==
  [kind |-> "FINISHED", session |-> session, action_id |-> id,
   success |-> success, blob |-> blob, origin |-> origin]

Send(frame) ==
  /\ ~ stalled /\ UNCHANGED stalled
  /\ \/ connected /\ sent' = Append(sent, frame) /\ UNCHANGED connected
     \/ connected' = FALSE /\ UNCHANGED sent

ClientMayBeLost ==
  \/ UNCHANGED <<connected, stalled>>
  \/ connected' = FALSE /\ stalled' = FALSE

\* processRequest's last statement: the response carries what the buffer holds.
SendResponse(req, type, id) ==
  LET frame == Response(req, type, id, response_blob_buffer_')
  IN \/ Send(frame) /\ UNCHANGED unsent
     \/ stalled /\ unsent' = <<frame>> /\ UNCHANGED <<connected, stalled, sent>>

-----------------------------------------------------------------------------
(***************************************************************************)
(* The robot status as readRobotStatus derives it from a snapshot.  Safety *)
(* flags other than PSTOP and ESTOP are ignored by the code and are not    *)
(* represented.                                                            *)
(***************************************************************************)
SafetyFlags == {"PSTOP", "ESTOP"}

\* SYNC is not masked out.
UnexpectedMotionFlags_SyncKept(f) == f \ (SafetyFlags \cup {"STANDBY", "TRACKING"})

UnexpectedMotionFlags(f) == f \ (SafetyFlags \cup {"STANDBY", "TRACKING", "SYNC"})

RobotStatus(f) ==
  IF f \cap SafetyFlags # {} \/ UnexpectedMotionFlags(f) # {} THEN "ERROR"
  ELSE IF "TRACKING" \in f THEN "MOVING"
  ELSE IF "STANDBY" \in f THEN "IDLE"
  ELSE "ERROR"

(***************************************************************************)
(* What the handlers refuse before they touch the current move.            *)
(***************************************************************************)
MoveJointRefused(r)      == r.joints # NumJoints \/ r.fast
MoveLinearRefused(r)     == r.fast
MoveArcRefused(r)        == r.fast \/ r.noCircle
MoveTrajectoryRefused(r) == r.fast \/ r.poses < 2

IsMove(r) ==
  /\ r.feature = "ROBOT_CONTROL"
  /\ r.req_type = "START_ACTION"
  /\ r.kind \in StartKinds \ {"GetRobotSpecs"}

Refused(r) ==
  \/ r.kind = "MoveJoint" /\ MoveJointRefused(r)
  \/ r.kind = "MoveLinear" /\ MoveLinearRefused(r)
  \/ r.kind = "MoveArc" /\ MoveArcRefused(r)
  \/ r.kind = "MoveTrajectory" /\ MoveTrajectoryRefused(r)

IsUpdate(r) ==
  /\ r.feature = "ROBOT_CONTROL"
  /\ r.req_type = "UPDATE_ACTION"
  /\ r.kind \in UpdateKinds

Malformed(r) ==
  /\ r.feature = "ROBOT_CONTROL"
  /\ r.req_type = "START_ACTION" => r.kind \notin StartKinds
  /\ r.req_type = "UPDATE_ACTION" => r.kind \notin UpdateKinds

-----------------------------------------------------------------------------
(***************************************************************************)
(* The RPC thread: rpcServerThreadFunc and RpcServer::pollOnce.            *)
(***************************************************************************)
RpcSpin ==
  /\ rpc = "spin"
  /\ rpc_server_running_
  /\ seen' = flags
  /\ fresh' = begun
  /\ rpc' = "drain"
  /\ UNCHANGED <<robotVars, hostVars, sharedVars, workerVars, crashed, task,
                 response_blob_buffer_, moveVars, clientVars, ghostVars>>

RpcExit ==
  /\ rpc = "spin"
  /\ ~ rpc_server_running_
  /\ rpc' = "exited"
  /\ UNCHANGED <<robotVars, hostVars, sharedVars, workerVars, crashed, task, seen,
                 fresh, response_blob_buffer_, moveVars, clientVars, ghostVars>>

\* ensureClient takes the next client from the listen queue.
RpcAccept ==
  /\ rpc = "drain"
  /\ ~ connected
  /\ session < MaxSessions
  /\ connected' = TRUE
  /\ session' = session + 1
  /\ UNCHANGED <<robotVars, hostVars, sharedVars, workerVars, crashed, loopVars,
                 seen, fresh, response_blob_buffer_, moveVars, stalled, unsent, sent,
                 requests, ghostVars>>

\* pollOnce finds no complete request; this ends the draining loop.  When the
\* read fails because the client is gone, the connection is closed.
RpcPollFails ==
  /\ rpc = "drain"
  /\ rpc' = "updates"
  /\ ClientMayBeLost
  /\ UNCHANGED <<robotVars, hostVars, sharedVars, workerVars, crashed, task, seen,
                 fresh, response_blob_buffer_, moveVars, unsent, session, sent,
                 requests, ghostVars>>

(***************************************************************************)
(* processRequest, up to the first point where it needs another thread or  *)
(* the controller.                                                         *)
(***************************************************************************)
Receive(r) ==
  /\ rpc = "drain"
  /\ connected
  /\ requests < MaxRequests
  /\ requests' = requests + 1
  /\ UNCHANGED <<robotVars, hostVars, sharedVars, workerVars, crashed, seen, fresh,
                 moveVars, session, ghostVars>>

Answer(r, type, id, blob) ==
  /\ Receive(r)
  /\ response_blob_buffer_' = blob
  /\ SendResponse(r, type, id)
  /\ UNCHANGED loopVars

AnswerUnsupported(r) ==
  /\ r.feature # "ROBOT_CONTROL"
  /\ Answer(r, "FEATURE_NOT_SUPPORTED", r.action_id, "empty")

AnswerMalformed(r) ==
  /\ Malformed(r)
  /\ Answer(r, "DATA_INVALID", r.action_id, "empty")

AnswerSpecs(r) ==
  /\ r.feature = "ROBOT_CONTROL"
  /\ r.req_type = "START_ACTION"
  /\ r.kind = "GetRobotSpecs"
  /\ Answer(r, "SUCCESS", 0, "specs")

RefuseMove(r) ==
  /\ IsMove(r)
  /\ Refused(r)
  /\ Answer(r, "FAILURE", 0, "error")

RefuseUpdate(r) ==
  /\ IsUpdate(r)
  /\ r.kind # "CancelMovement"
  /\ Answer(r, "FAILURE", 0, "error")

\* The buffer still holds the bytes of the message sent before.
AnswerNotInProgress_NoClear(r) ==
  /\ IsUpdate(r)
  /\ r.kind = "CancelMovement"
  /\ current_move_action_id_ = NoAction \/ current_move_action_id_ # r.action_id
  /\ Answer(r, "NOT_IN_PROGRESS", r.action_id, response_blob_buffer_)

\* The status of the robot is taken for the state of the action.
AnswerNotInProgress_ByStatus(r) ==
  /\ IsUpdate(r)
  /\ r.kind = "CancelMovement"
  /\ \/ current_move_action_id_ = NoAction \/ current_move_action_id_ # r.action_id
     \/ RobotStatus(seen) # "MOVING"
  /\ Answer(r, "NOT_IN_PROGRESS", r.action_id, "empty")

AnswerNotInProgress(r) ==
  /\ IsUpdate(r)
  /\ r.kind = "CancelMovement"
  /\ current_move_action_id_ = NoAction \/ current_move_action_id_ # r.action_id
  /\ Answer(r, "NOT_IN_PROGRESS", r.action_id, "empty")

\* The request needs the controller: the handler goes on with stopTrajectoryWorker,
\* which is also the first thing finishCurrentMoveAction does.
Engage(r, why) ==
  /\ Receive(r)
  /\ response_blob_buffer_' = "empty"
  /\ rpc' = "stop"
  /\ task' = Task(why, r)
  /\ UNCHANGED lineVars

\* finishCurrentMoveAction is not called.
EngageMove_NoFinish(r) ==
  /\ IsMove(r)
  /\ ~ Refused(r)
  /\ Receive(r)
  /\ response_blob_buffer_' = "empty"
  /\ rpc' = "command"
  /\ task' = Task("start", r)
  /\ UNCHANGED lineVars

EngageMove(r) ==
  /\ IsMove(r)
  /\ ~ Refused(r)
  /\ Engage(r, "start")

\* stopTrajectoryWorker is not called.
EngageCancel_NoStop(r) ==
  /\ IsUpdate(r)
  /\ r.kind = "CancelMovement"
  /\ current_move_action_id_ # NoAction
  /\ current_move_action_id_ = r.action_id
  /\ Receive(r)
  /\ response_blob_buffer_' = "empty"
  /\ rpc' = "command"
  /\ task' = Task("cancel", r)
  /\ UNCHANGED lineVars

EngageCancel(r) ==
  /\ IsUpdate(r)
  /\ r.kind = "CancelMovement"
  /\ current_move_action_id_ # NoAction
  /\ current_move_action_id_ = r.action_id
  /\ Engage(r, "cancel")

ProcessRequest ==
  \E r \in Requests :
    \/ AnswerUnsupported(r)
    \/ AnswerMalformed(r)
    \/ AnswerSpecs(r)
    \/ RefuseMove(r)
    \/ RefuseUpdate(r)
    \/ AnswerNotInProgress(r)
    \/ EngageMove(r)
    \/ EngageCancel(r)

(***************************************************************************)
(* stopTrajectoryWorker on the RPC thread.                                 *)
(***************************************************************************)
AfterStop ==
  IF task.why = "cancel" \/ current_move_action_id_ = NoAction THEN "command"
  ELSE "finish"

\* The worker was left running: what a handler without the join would do.
RpcStopWorker_NoJoin ==
  /\ rpc = "stop"
  /\ trajectory_stop_requested_' = TRUE
  /\ rpc' = AfterStop
  /\ UNCHANGED <<robotVars, hostVars, sharedVars, joinable, worker, crashed, task,
                 seen, fresh, response_blob_buffer_, moveVars, clientVars, ghostVars>>

RpcStopWorker ==
  /\ rpc = "stop"
  /\ trajectory_stop_requested_' = TRUE
  /\ rpc' = IF joinable THEN "join" ELSE AfterStop
  /\ UNCHANGED <<robotVars, hostVars, sharedVars, joinable, worker, crashed, task,
                 seen, fresh, response_blob_buffer_, moveVars, clientVars, ghostVars>>

RpcJoin ==
  /\ rpc = "join"
  /\ joinable
  /\ worker.pc = "done"
  /\ joinable' = FALSE
  /\ worker' = NoWorker
  /\ rpc' = AfterStop
  /\ UNCHANGED <<robotVars, hostVars, sharedVars, trajectory_stop_requested_, crashed,
                 task, seen, fresh, response_blob_buffer_, moveVars, clientVars,
                 ghostVars>>

\* Joining a thread that is not joinable, or that the host is joining already:
\* std::system_error leaves the thread function and terminates the program.
RpcJoinMisuse ==
  /\ rpc = "join"
  /\ ~ joinable \/ host = "join"
  /\ crashed' = TRUE
  /\ UNCHANGED <<robotVars, hostVars, sharedVars, workerVars, loopVars, seen, fresh,
                 response_blob_buffer_, moveVars, clientVars, ghostVars>>

(***************************************************************************)
(* finishCurrentMoveAction, after the worker was stopped.                  *)
(***************************************************************************)
FinishBlob ==
  CASE task.why = "start" -> "interrupted"
    [] task.why = "error" -> "fault"
    [] OTHER -> "empty"

\* The current action is not reset.
RpcFinish_NoReset ==
  /\ rpc = "finish"
  /\ response_blob_buffer_' = FinishBlob
  /\ Send(Finished(current_move_action_id_, task.why = "idle", FinishBlob))
  /\ \/ task.why = "start" /\ rpc' = "command" /\ UNCHANGED task
     \/ task.why # "start" /\ rpc' = "spin" /\ task' = NoTask
  /\ UNCHANGED <<robotVars, hostVars, sharedVars, workerVars, crashed, seen, fresh,
                 moveVars, unsent, session, requests, ghostVars>>

RpcFinish ==
  /\ rpc = "finish"
  /\ response_blob_buffer_' = FinishBlob
  /\ Send(Finished(current_move_action_id_, task.why = "idle", FinishBlob))
  /\ current_move_action_id_' = NoAction
  /\ \/ task.why = "start" /\ rpc' = "command" /\ UNCHANGED task
     \/ task.why # "start" /\ rpc' = "spin" /\ task' = NoTask
  /\ UNCHANGED <<robotVars, hostVars, sharedVars, workerVars, crashed, seen, fresh,
                 next_action_id_, young, origin, unsent, session, requests, ghostVars>>

(***************************************************************************)
(* The handlers' commands to the controller and what follows them.  An     *)
(* action gets its id only after the controller accepted the first target. *)
(***************************************************************************)
\* The answer to the request is forgotten.
StartAction_NoResponse ==
  /\ current_move_action_id_' = next_action_id_
  /\ next_action_id_' = next_action_id_ + 1
  /\ young' = TRUE
  /\ origin' = session
  /\ UNCHANGED <<response_blob_buffer_, clientVars>>

\* generateNextActionId counts down.
StartAction_CountDown ==
  /\ current_move_action_id_' = next_action_id_
  /\ next_action_id_' = next_action_id_ - 1
  /\ young' = TRUE
  /\ origin' = session
  /\ UNCHANGED <<response_blob_buffer_, session, requests>>
  /\ SendResponse(task.req, "SUCCESS_IN_PROGRESS", next_action_id_)

StartAction ==
  /\ current_move_action_id_' = next_action_id_
  /\ next_action_id_' = next_action_id_ + 1
  /\ young' = TRUE
  /\ origin' = session
  /\ UNCHANGED <<response_blob_buffer_, session, requests>>
  /\ SendResponse(task.req, "SUCCESS_IN_PROGRESS", next_action_id_)

FollowTarget(stop) ==
  /\ Follow(Target(next_action_id_, stop))
  /\ fresh' = FALSE
  /\ cancelled' = FALSE
  /\ truncated' = FALSE
  /\ overtaken' = FALSE

BackToPolling == rpc' = "drain" /\ task' = NoTask

RpcStartMove ==
  /\ rpc = "command"
  /\ task.why = "start"
  /\ task.req.kind # "MoveTrajectory"
  /\ FollowTarget(TRUE)
  /\ StartAction
  /\ BackToPolling
  /\ UNCHANGED <<hostVars, sharedVars, workerVars, crashed, seen>>

RpcStartTrajectory ==
  /\ rpc = "command"
  /\ task.why = "start"
  /\ task.req.kind = "MoveTrajectory"
  /\ FollowTarget(FALSE)
  /\ trajectory_stop_requested_' = FALSE
  /\ rpc' = "spawn"
  /\ UNCHANGED <<hostVars, sharedVars, joinable, worker, crashed, task, seen,
                 response_blob_buffer_, moveVars, clientVars>>

\* Assigning to a joinable std::thread terminates the program.
RpcSpawnWorker ==
  /\ rpc = "spawn"
  /\ crashed' = joinable
  /\ joinable' = TRUE
  /\ worker' = [pc |-> "check", knot |-> 1, move |-> next_action_id_,
                count |-> task.req.poses]
  /\ StartAction
  /\ BackToPolling
  /\ UNCHANGED <<robotVars, hostVars, sharedVars, trajectory_stop_requested_, seen,
                 fresh, ghostVars>>

RpcMoveRejected ==
  /\ rpc = "command"
  /\ task.why = "start"
  /\ response_blob_buffer_' = "error"
  /\ SendResponse(task.req, "FAILURE", 0)
  /\ BackToPolling
  /\ UNCHANGED <<robotVars, hostVars, sharedVars, workerVars, crashed, seen, fresh,
                 moveVars, session, requests, ghostVars>>

RpcCancel ==
  /\ rpc = "command"
  /\ task.why = "cancel"
  /\ Terminate
  /\ fresh' = FALSE
  /\ cancelled' = TRUE
  /\ UNCHANGED <<hostVars, sharedVars, workerVars, crashed, seen,
                 response_blob_buffer_, moveVars, session, requests, truncated, overtaken>>
  /\ SendResponse(task.req, "SUCCESS", task.req.action_id)
  /\ BackToPolling

RpcCancelRejected ==
  /\ rpc = "command"
  /\ task.why = "cancel"
  /\ response_blob_buffer_' = "error"
  /\ SendResponse(task.req, "FAILURE", 0)
  /\ BackToPolling
  /\ UNCHANGED <<robotVars, hostVars, sharedVars, workerVars, crashed, seen, fresh,
                 moveVars, session, requests, ghostVars>>

(***************************************************************************)
(* handleUpdates.  Sending the status may fail like any other frame; the   *)
(* status frames themselves are not recorded.                              *)
(***************************************************************************)
\* min_move_duration_us_ is not waited for.
DueReason_NoMinDuration ==
  CASE current_move_action_id_ # NoAction /\ RobotStatus(seen) = "IDLE" -> "idle"
    [] current_move_action_id_ # NoAction /\ RobotStatus(seen) = "ERROR" -> "error"
    [] OTHER -> "none"

\* The branch for RobotStatus::ERROR is missing.
DueReason_IdleOnly ==
  IF ~ young /\ current_move_action_id_ # NoAction /\ RobotStatus(seen) = "IDLE"
  THEN "idle" ELSE "none"

DueReason ==
  CASE ~ young /\ current_move_action_id_ # NoAction /\ RobotStatus(seen) = "IDLE" -> "idle"
    [] ~ young /\ current_move_action_id_ # NoAction /\ RobotStatus(seen) = "ERROR" -> "error"
    [] OTHER -> "none"

RpcUpdates ==
  /\ rpc = "updates"
  /\ ~ stalled
  /\ response_blob_buffer_' = "status"
  /\ ClientMayBeLost
  /\ rpc' = IF DueReason = "none" THEN "spin" ELSE "stop"
  /\ task' = Task(DueReason, NoRequest)
  /\ UNCHANGED <<robotVars, hostVars, sharedVars, workerVars, crashed, seen, fresh,
                 moveVars, unsent, session, sent, requests, ghostVars>>

\* readRobotPosition fails: nothing is published and no move is finished.
RpcUpdatesSkipped ==
  /\ rpc = "updates"
  /\ rpc' = "spin"
  /\ UNCHANGED <<robotVars, hostVars, sharedVars, workerVars, crashed, task, seen,
                 fresh, response_blob_buffer_, moveVars, clientVars, ghostVars>>

\* The send of a response that has blocked goes on, or fails.
RpcUnblocked ==
  /\ unsent # <<>>
  /\ unsent' = <<>>
  /\ Send(unsent[1])
  /\ UNCHANGED <<robotVars, hostVars, sharedVars, workerVars, crashed, loopVars, seen,
                 fresh, response_blob_buffer_, moveVars, session, requests, ghostVars>>

RpcStep ==
  \/ RpcSpin
  \/ RpcExit
  \/ RpcAccept
  \/ RpcPollFails
  \/ ProcessRequest
  \/ RpcStopWorker
  \/ RpcJoin
  \/ RpcJoinMisuse
  \/ RpcFinish
  \/ RpcStartMove
  \/ RpcStartTrajectory
  \/ RpcSpawnWorker
  \/ RpcMoveRejected
  \/ RpcCancel
  \/ RpcCancelRejected
  \/ RpcUpdates
  \/ RpcUpdatesSkipped

RpcThread == RpcUnblocked \/ (unsent = <<>> /\ RpcStep)

-----------------------------------------------------------------------------
(***************************************************************************)
(* The trajectory worker: the lambda of processMoveTrajectory.             *)
(***************************************************************************)
otherThanWorkerVars ==
  <<hostVars, sharedVars, trajectory_stop_requested_, joinable, crashed, loopVars,
    seen, fresh, response_blob_buffer_, moveVars, clientVars, cancelled, overtaken>>

WorkerCheck ==
  /\ worker.pc = "check"
  /\ IF trajectory_stop_requested_ THEN worker' = [worker EXCEPT !.pc = "done"]
     ELSE worker' = [worker EXCEPT !.pc = "add"]
  /\ truncated' = (truncated \/ trajectory_stop_requested_)
  /\ UNCHANGED <<robotVars, otherThanWorkerVars>>

WorkerAdd ==
  /\ worker.pc = "add"
  /\ Add(Target(worker.move, worker.knot + 1 = worker.count))
  /\ IF worker.knot + 1 = worker.count
     THEN worker' = [worker EXCEPT !.knot = @ + 1, !.pc = "done"]
     ELSE worker' = [worker EXCEPT !.knot = @ + 1, !.pc = "check"]
  /\ UNCHANGED <<otherThanWorkerVars, truncated>>

WorkerAddRejected ==
  /\ worker.pc = "add"
  /\ worker' = [worker EXCEPT !.pc = "done"]
  /\ truncated' = TRUE
  /\ UNCHANGED <<robotVars, otherThanWorkerVars>>

WorkerThread == WorkerCheck \/ WorkerAdd \/ WorkerAddRejected

-----------------------------------------------------------------------------
(***************************************************************************)
(* The host thread.  onDestroy is onDeactivate; the destructor only stops  *)
(* the worker.  A failed onActivate leaves the object as it was.           *)
(***************************************************************************)
rpcLocalVars == <<task, seen, fresh, response_blob_buffer_, moveVars>>

HostActivate ==
  /\ host = "inactive"
  /\ activations < MaxActivations
  /\ activations' = activations + 1
  /\ rpc_server_' = TRUE
  /\ rpc_server_running_' = TRUE
  /\ rpc' = "spin"
  /\ host' = "active"
  /\ UNCHANGED <<robotVars, goal, workerVars, crashed, rpcLocalVars, clientVars,
                 ghostVars>>

HostCall(call, from) ==
  /\ call \in HostCalls
  /\ host \in from
  /\ host' = "store"
  /\ goal' = call
  /\ UNCHANGED <<robotVars, activations, sharedVars, workerVars, crashed, rpc,
                 rpcLocalVars, clientVars, ghostVars>>

\* The destructor forgets the worker.
HostDestruct_NoStop ==
  /\ "destruct" \in HostCalls
  /\ host = "destroyed"
  /\ host' = "gone"
  /\ UNCHANGED <<robotVars, goal, activations, sharedVars, workerVars, crashed, rpc,
                 rpcLocalVars, clientVars, ghostVars>>

HostDeactivate == HostCall("deactivate", {"active"})
HostDestroy    == HostCall("destroy", {"active", "inactive"})
HostDestruct   == HostCall("destruct", {"destroyed"})

HostStoreStop ==
  /\ host = "store"
  /\ trajectory_stop_requested_' = TRUE
  /\ host' = "check"
  /\ UNCHANGED <<robotVars, goal, activations, sharedVars, joinable, worker, crashed,
                 rpc, rpcLocalVars, clientVars, ghostVars>>

AfterHostStop == IF goal = "destruct" THEN "gone" ELSE "clear"

HostCheckJoinable ==
  /\ host = "check"
  /\ host' = IF joinable THEN "join" ELSE AfterHostStop
  /\ goal' = IF ~ joinable /\ goal = "destruct" THEN "none" ELSE goal
  /\ UNCHANGED <<robotVars, activations, sharedVars, workerVars, crashed, rpc,
                 rpcLocalVars, clientVars, ghostVars>>

HostJoin ==
  /\ host = "join"
  /\ joinable
  /\ worker.pc = "done"
  /\ joinable' = FALSE
  /\ worker' = NoWorker
  /\ host' = AfterHostStop
  /\ goal' = IF goal = "destruct" THEN "none" ELSE goal
  /\ UNCHANGED <<robotVars, activations, sharedVars, trajectory_stop_requested_,
                 crashed, rpc, rpcLocalVars, clientVars, ghostVars>>

HostJoinMisuse ==
  /\ host = "join"
  /\ ~ joinable
  /\ crashed' = TRUE
  /\ UNCHANGED <<robotVars, hostVars, sharedVars, workerVars, rpc, rpcLocalVars,
                 clientVars, ghostVars>>

\* The flag that ends the loop of the RPC thread is not cleared.
HostClearRunning_Forgotten ==
  /\ host = "clear"
  /\ host' = "halt"
  /\ UNCHANGED <<robotVars, goal, activations, sharedVars, workerVars, crashed, rpc,
                 rpcLocalVars, clientVars, ghostVars>>

HostClearRunning ==
  /\ host = "clear"
  /\ rpc_server_running_' = FALSE
  /\ host' = "halt"
  /\ UNCHANGED <<robotVars, goal, activations, rpc_server_, workerVars, crashed, rpc,
                 rpcLocalVars, clientVars, ghostVars>>

\* The server is reset without waiting for the RPC thread.
HostHalt_NoJoin ==
  /\ host = "halt"
  /\ rpc_server_' = FALSE
  /\ connected' = FALSE /\ stalled' = FALSE
  /\ host' = IF goal = "destroy" THEN "destroyed" ELSE "inactive"
  /\ goal' = "none"
  /\ UNCHANGED <<robotVars, activations, rpc_server_running_, workerVars, crashed, rpc,
                 rpcLocalVars, unsent, session, sent, requests, ghostVars>>

\* The RPC thread, if there is one, is joined; then the server is stopped and reset.
HostHalt ==
  /\ host = "halt"
  /\ rpc \in {"none", "exited"}
  /\ rpc' = "none"
  /\ rpc_server_' = FALSE
  /\ connected' = FALSE /\ stalled' = FALSE
  /\ host' = IF goal = "destroy" THEN "destroyed" ELSE "inactive"
  /\ goal' = "none"
  /\ UNCHANGED <<robotVars, activations, rpc_server_running_, workerVars, crashed,
                 rpcLocalVars, unsent, session, sent, requests, ghostVars>>

HostProgress ==
  \/ HostStoreStop
  \/ HostCheckJoinable
  \/ HostJoin
  \/ HostJoinMisuse
  \/ HostClearRunning
  \/ HostHalt

HostThread ==
  \/ HostActivate
  \/ HostDeactivate
  \/ HostDestroy
  \/ HostDestruct
  \/ HostProgress

-----------------------------------------------------------------------------
(***************************************************************************)
(* The environment.  The controller, the worker, the RPC loop and the time *)
(* that min_move_duration_us_ takes go on at any speed.                    *)
(***************************************************************************)
MinDurationElapses ==
  /\ young
  /\ young' = FALSE
  /\ UNCHANGED <<robotVars, hostVars, sharedVars, workerVars, crashed, loopVars, seen,
                 fresh, response_blob_buffer_, next_action_id_, current_move_action_id_,
                 origin, clientVars, ghostVars>>

\* No knot of the current move is still with the worker.
TrajectoryHandedOver == rpc # "spawn" /\ worker.pc \in {"off", "done"}

RobotMoves == RobotBegin \/ RobotReach \/ RobotRest

Robot ==
  /\ RobotMoves \/ RobotFault \/ RobotRecover
  /\ overtaken' = (overtaken \/ (RobotRest /\ ~ TrajectoryHandedOver))
  /\ UNCHANGED <<hostVars, sharedVars, workerVars, crashed, loopVars, seen, fresh,
                 response_blob_buffer_, moveVars, clientVars, cancelled, truncated>>

otherThanStallVars ==
  <<robotVars, hostVars, sharedVars, workerVars, crashed, loopVars, seen, fresh,
    response_blob_buffer_, moveVars, connected, unsent, session, sent, requests,
    ghostVars>>

ClientStalls ==
  /\ ClientMayStall
  /\ connected /\ ~ stalled
  /\ stalled' = TRUE
  /\ UNCHANGED otherThanStallVars

\* The client reads again, or is gone, which the next send finds out.
ClientResumes ==
  /\ stalled
  /\ stalled' = FALSE
  /\ UNCHANGED otherThanStallVars

Client == ClientStalls \/ ClientResumes

Next ==
  /\ ~ crashed
  /\ HostThread \/ RpcThread \/ WorkerThread \/ Robot \/ MinDurationElapses \/ Client

Spec == Init /\ [][Next]_vars

(***************************************************************************)
(* Fairness.  The threads are scheduled; a call the host has begun goes on *)
(* (that it makes one is not assumed); the controller executes what it has *)
(* accepted; time passes; and reading the robot's position does not fail   *)
(* forever.  Nothing is assumed of clients and faults: a client that has   *)
(* stalled may never read again.                                           *)
(***************************************************************************)
Fairness ==
  /\ WF_vars(~ crashed /\ HostProgress)
  /\ WF_vars(~ crashed /\ RpcThread)
  /\ WF_vars(~ crashed /\ WorkerThread)
  /\ WF_vars(~ crashed /\ MinDurationElapses)
  /\ WF_vars(~ crashed /\ Robot /\ RobotMoves)
  /\ SF_vars(~ crashed /\ RpcUpdates)

FairSpec == Spec /\ Fairness

-----------------------------------------------------------------------------
(***************************************************************************)
(* Properties.                                                             *)
(***************************************************************************)
HostStates == {"inactive", "active", "destroyed", "gone",
               "store", "check", "join", "clear", "halt"}
RpcStates == {"none", "spin", "drain", "stop", "join", "finish", "command", "spawn",
              "updates", "exited"}
Reasons == {"none", "start", "cancel", "idle", "error"}
Blobs == {"empty", "specs", "error", "status", "interrupted", "fault"}

ResponseFrame ==
  [kind: {"RESPONSE"}, session: Nat,
   resp_type: {"FEATURE_NOT_SUPPORTED", "NOT_IN_PROGRESS", "DATA_INVALID",
               "SUCCESS_IN_PROGRESS", "SUCCESS", "FAILURE"},
   action_id: Nat, blob: Blobs,
   req_type: {"START_ACTION", "UPDATE_ACTION", "UNKNOWN"}, asked: Nat]

FinishedFrame ==
  [kind: {"FINISHED"}, session: Nat, action_id: Nat, success: BOOLEAN,
   blob: Blobs, origin: Nat]

Frame == ResponseFrame \cup FinishedFrame

\* Every variable of the adapter and of the controller has a value of its type.
TypeOK ==
  /\ RobotTypeOK
  /\ host \in HostStates
  /\ goal \in {"none", "deactivate", "destroy", "destruct"}
  /\ activations \in 0..MaxActivations
  /\ rpc_server_ \in BOOLEAN /\ rpc_server_running_ \in BOOLEAN
  /\ trajectory_stop_requested_ \in BOOLEAN /\ joinable \in BOOLEAN
  /\ worker \in [pc: {"off", "check", "add", "done"}, knot: Nat, move: Nat, count: Nat]
  /\ crashed \in BOOLEAN
  /\ rpc \in RpcStates
  /\ task \in [why: Reasons, req: Request]
  /\ seen \in NormalFlags \cup FaultFlags
  /\ fresh \in BOOLEAN
  /\ response_blob_buffer_ \in Blobs
  /\ next_action_id_ \in Nat \ {0}
  /\ current_move_action_id_ \in Nat
  /\ young \in BOOLEAN
  /\ origin \in 0..MaxSessions
  /\ connected \in BOOLEAN /\ stalled \in BOOLEAN
  /\ unsent \in Seq(ResponseFrame)
  /\ session \in 0..MaxSessions
  /\ sent \in Seq(Frame)
  /\ requests \in 0..MaxRequests
  /\ cancelled \in BOOLEAN
  /\ truncated \in BOOLEAN
  /\ overtaken \in BOOLEAN

IsFinished(i) == sent[i].kind = "FINISHED"

ReportedActions == {sent[i].action_id : i \in {k \in DOMAIN sent : IsFinished(k)}}

Contract == INSTANCE MoveContract WITH
  last <- next_action_id_ - 1,
  live <- current_move_action_id_,
  reported <- ReportedActions

\* The adapter keeps the promises of MoveContract: no id is given out twice, no
\* move starts before finishCurrentMoveAction ended the one before it, and every
\* FINISHED message is for the action that is being ended.
KeepsMoveContract == Contract!ContractSpec

\* No client is told twice that an action has finished, and an action that was
\* reported is not the current one (finishCurrentMoveAction against the handlers).
OneFinishPerAction ==
  \A i \in DOMAIN sent : IsFinished(i) =>
    /\ sent[i].action_id # current_move_action_id_
    /\ \A j \in DOMAIN sent :
         IsFinished(j) /\ sent[j].action_id = sent[i].action_id => i = j

\* What makes it hold: the current action is the newest one, there is none from
\* the moment finishCurrentMoveAction returned to a handler until that handler
\* has started the next, and only ids that were handed out are reported.
PlacesInv ==
  /\ current_move_action_id_ \in {NoAction, next_action_id_ - 1}
  /\ rpc = "finish" => current_move_action_id_ # NoAction
  /\ rpc = "command" /\ task.why = "start" => current_move_action_id_ = NoAction
  /\ rpc = "spawn" => current_move_action_id_ = NoAction

ReportsInv ==
  /\ \A i \in DOMAIN sent : IsFinished(i) => sent[i].action_id \in 1..(next_action_id_ - 1)
  /\ OneFinishPerAction

MoveInv == PlacesInv /\ ReportsInv

\* A client still on the connection on which it started an action has received
\* SUCCESS_IN_PROGRESS with its id before the FINISHED message that reports it.
AnswerBeforeFinish ==
  \A i \in DOMAIN sent : IsFinished(i) /\ sent[i].session = sent[i].origin =>
    \E j \in 1..(i - 1) :
      /\ sent[j].kind = "RESPONSE"
      /\ sent[j].resp_type = "SUCCESS_IN_PROGRESS"
      /\ sent[j].action_id = sent[i].action_id
      /\ sent[j].session = sent[i].session

\* The controller never holds knots of two moves: a worker of an earlier
\* trajectory has stopped adding before the next move replaces the queue.
SingleMoveQueue ==
  \A i, j \in DOMAIN queue : queue[i].move = queue[j].move

\* Once terminate was accepted the controller gets no knot until the next move:
\* the worker of the cancelled trajectory was joined before the command.
CancelledMoveStays == cancelled => queue = <<>>

\* No frame carries bytes left in response_blob_buffer_ by another message
\* (SUCCESS_IN_PROGRESS is left to the run that refutes it).
BlobContract ==
  \A i \in DOMAIN sent :
    IF IsFinished(i)
    THEN /\ sent[i].success <=> sent[i].blob = "empty"
         /\ sent[i].blob \in {"empty", "interrupted", "fault"}
    ELSE /\ sent[i].resp_type \in {"FEATURE_NOT_SUPPORTED", "NOT_IN_PROGRESS",
                                   "DATA_INVALID"} => sent[i].blob = "empty"
         /\ sent[i].resp_type = "FAILURE" => sent[i].blob = "error"
         /\ sent[i].resp_type = "SUCCESS" =>
              sent[i].blob = IF sent[i].req_type = "START_ACTION" THEN "specs" ELSE "empty"

\* The trajectory thread object is misused only while the host is inside a call
\* that stops the worker: the RPC thread on its own always joins before it
\* assigns, and an activated object at rest never terminates the program.
NoThreadMisuse == crashed => host \in {"join", "clear", "halt"}

\* The RPC thread dereferences rpc_server_ in its loop and in its handlers: the
\* server exists for as long as the thread runs, and no client is served after it.
ServerOutlivesRpcThread ==
  /\ rpc \notin {"none", "exited"} => rpc_server_
  /\ host \in {"inactive", "destroyed", "gone"} => rpc = "none" /\ ~ connected

\* The worker captures `this`: it has ended when the destructor returns, even one
\* that the RPC thread started while onDeactivate was already under way.
NoWorkerAfterDestruction == host = "gone" => worker = NoWorker /\ ~ joinable

NewReport(success, blob) ==
  /\ Len(sent') > Len(sent)
  /\ sent'[Len(sent')].kind = "FINISHED"
  /\ sent'[Len(sent')].success = success
  /\ sent'[Len(sent')].blob = blob

\* min_move_duration_us_ has elapsed, but the snapshot was taken before the controller
\* acted on the newest command: the controller or the loop is slower than that.
SnapshotTooOld == ~ young /\ ~ fresh

\* FINISHED with success is only sent when the controller reached the stop point of
\* the move, unless the move was cancelled, hit by a fault or given up by the worker.
\* handleUpdates guesses this from flags and a minimal duration, at any speed of the
\* threads and the controller; it guesses wrong only with a snapshot that is too old,
\* or when the arm has come to rest between two knots because the worker was late.
SuccessMeansReached ==
  [][NewReport(TRUE, "empty") =>
       arrived \/ cancelled \/ hit \/ truncated \/ overtaken \/ SnapshotTooOld]_vars

\* A move is reported as failed by the robot only if a fault struck after the
\* controller accepted it, or the snapshot is too old: the SYNC flag at the end of a
\* move and a fault that was over before the move began do not count.
FailureHasCause == [][NewReport(FALSE, "fault") => hit \/ SnapshotTooOld]_vars

\* A NOT_IN_PROGRESS answer for an id that was handed out is final: the action is
\* neither in progress nor reported afterwards.  A client whose FINISHED message was
\* lost with a connection can find out by a cancel.
NotInProgressIsFinal ==
  \A i, j \in DOMAIN sent :
    /\ i < j
    /\ ~ IsFinished(i) /\ sent[i].resp_type = "SUCCESS_IN_PROGRESS"
    /\ ~ IsFinished(j) /\ sent[j].resp_type = "NOT_IN_PROGRESS"
    /\ sent[j].action_id = sent[i].action_id
    => /\ current_move_action_id_ # sent[i].action_id
       /\ \A k \in (j + 1)..Len(sent) :
            IsFinished(k) => sent[k].action_id # sent[i].action_id

\* The RPC thread waits in send for a client that does not read.
SendBlocks == stalled /\ (unsent # <<>> \/ rpc \in {"finish", "updates"})

\* A deactivation or destruction that was begun returns, unless the RPC thread that
\* it joins waits for the client: rpc_server_->stop() comes only after that join.
HostCallsReturn == goal # "none" ~> (goal = "none" \/ crashed \/ SendBlocks)

\* A move that is in progress is reported, or replaced, or the server is stopped, or
\* the RPC thread waits for the client.
MoveIsReported ==
  current_move_action_id_ # NoAction /\ rpc_server_running_
    ~> (\/ current_move_action_id_ = NoAction \/ ~ rpc_server_running_
        \/ crashed \/ SendBlocks)
=============================================================================
