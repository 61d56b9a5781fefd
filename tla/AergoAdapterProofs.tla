------------------------ MODULE AergoAdapterProofs ------------------------
(***************************************************************************)
(* Proofs about AergoAdapter for every set of requests, every bound and    *)
(* every assumption on speed.                                              *)
(***************************************************************************)
EXTENDS AergoAdapter, TLAPS

USE DEF NoAction

(***************************************************************************)
(* TypeOK in two parts, one for each prover: Zenon is good at Boolean      *)
(* variables, SMT at everything else.                                      *)
(***************************************************************************)
SwitchesOK ==
  /\ begun \in BOOLEAN /\ arrived \in BOOLEAN /\ hit \in BOOLEAN
  /\ rpc_server_ \in BOOLEAN /\ rpc_server_running_ \in BOOLEAN
  /\ trajectory_stop_requested_ \in BOOLEAN /\ joinable \in BOOLEAN
  /\ crashed \in BOOLEAN
  /\ fresh \in BOOLEAN
  /\ young \in BOOLEAN
  /\ connected \in BOOLEAN /\ stalled \in BOOLEAN
  /\ cancelled \in BOOLEAN /\ truncated \in BOOLEAN /\ overtaken \in BOOLEAN

ControlOK ==
  /\ flags \in NormalFlags \cup FaultFlags
  /\ queue \in Seq([move: Nat, stop: BOOLEAN])
  /\ faults \in 0..MaxFaults
  /\ host \in HostStates
  /\ goal \in {"none", "deactivate", "destroy", "destruct"}
  /\ activations \in 0..MaxActivations
  /\ worker \in [pc: {"off", "check", "add", "done"}, knot: Nat, move: Nat, count: Nat]
  /\ rpc \in RpcStates
  /\ task \in [why: Reasons, req: Request]
  /\ seen \in NormalFlags \cup FaultFlags

MessagesOK ==
  /\ response_blob_buffer_ \in Blobs
  /\ next_action_id_ \in Nat \ {0}
  /\ current_move_action_id_ \in Nat
  /\ origin \in 0..MaxSessions
  /\ session \in 0..MaxSessions
  /\ sent \in Seq(Frame)
  /\ unsent \in Seq(ResponseFrame)
  /\ requests \in 0..MaxRequests

\* TypeOK in three parts: the Boolean variables, the control state, the messages.
LEMMA TypeParts == TypeOK <=> SwitchesOK /\ ControlOK /\ MessagesOK
BY DEF TypeOK, RobotTypeOK, SwitchesOK, ControlOK, MessagesOK

ResponseTypes == {"FEATURE_NOT_SUPPORTED", "NOT_IN_PROGRESS", "DATA_INVALID",
                  "SUCCESS_IN_PROGRESS", "SUCCESS", "FAILURE"}

\* A response to a request is a frame.
LEMMA ResponseType ==
  ASSUME NEW req \in Request, NEW id \in Nat, NEW blob \in Blobs,
         NEW type \in ResponseTypes, session \in 0..MaxSessions
  PROVE  Response(req, type, id, blob) \in ResponseFrame
BY BoundsAssumption DEF Response, ResponseFrame, Request, ResponseTypes

\* A report of an action that has an id is a frame.
LEMMA FinishedType ==
  ASSUME NEW id \in Nat, NEW success \in BOOLEAN, NEW blob \in Blobs,
         session \in 0..MaxSessions, origin \in 0..MaxSessions
  PROVE  Finished(id, success, blob) \in Frame
BY BoundsAssumption DEF Finished, Frame, FinishedFrame

\* sendFrame appends the frame to what was delivered, or delivers nothing.
LEMMA SendKeepsSent ==
  ASSUME sent \in Seq(Frame), NEW f \in Frame, Send(f)
  PROVE  sent' \in Seq(Frame)
BY DEF Send

\* After sendFrame the server has a client or has none.
LEMMA SendKeepsLine ==
  ASSUME connected \in BOOLEAN, stalled \in BOOLEAN, NEW f, Send(f)
  PROVE  connected' \in BOOLEAN /\ stalled' \in BOOLEAN
BY DEF Send

\* So it has after a poll or a status message.
LEMMA LossKeepsLine ==
  ASSUME connected \in BOOLEAN, stalled \in BOOLEAN, ClientMayBeLost
  PROVE  connected' \in BOOLEAN /\ stalled' \in BOOLEAN
BY DEF ClientMayBeLost

\* And after a response, sent or kept back by a client that does not read.
LEMMA ResponseKeepsLine ==
  ASSUME connected \in BOOLEAN, stalled \in BOOLEAN,
         NEW req, NEW type, NEW id, SendResponse(req, type, id)
  PROVE  connected' \in BOOLEAN /\ stalled' \in BOOLEAN
BY SendKeepsLine DEF SendResponse

\* At most one frame is delivered, and it is a response.
SendsResponse ==
  \/ \E f \in Frame : f.kind = "RESPONSE" /\ Send(f)
  \/ UNCHANGED sent

\* What SendResponse does to the frames.
LEMMA ResponseEffect ==
  ASSUME MessagesOK, NEW req \in Request, NEW type \in ResponseTypes, NEW id \in Nat,
         response_blob_buffer_' \in Blobs, SendResponse(req, type, id)
  PROVE  /\ sent' \in Seq(Frame)
         /\ unsent' \in Seq(ResponseFrame)
         /\ SendsResponse
<1> DEFINE frame == Response(req, type, id, response_blob_buffer_')
<1>1. frame \in ResponseFrame
  BY ResponseType DEF MessagesOK
<1>2. frame \in Frame /\ frame.kind = "RESPONSE"
  BY <1>1 DEF Frame, ResponseFrame
<1>3. \/ Send(frame) /\ UNCHANGED unsent
      \/ unsent' = <<frame>> /\ UNCHANGED sent
  BY DEF SendResponse
<1> HIDE DEF frame
<1>4. sent' \in Seq(Frame)
  BY <1>2, <1>3, SendKeepsSent DEF MessagesOK
<1>5. unsent' \in Seq(ResponseFrame)
  <2>1. <<frame>> \in Seq(ResponseFrame)
    BY <1>1
  <2> QED
    BY <1>3, <2>1 DEF MessagesOK
<1>6. SendsResponse
  BY <1>2, <1>3 DEF SendsResponse
<1> QED
  BY <1>4, <1>5, <1>6

\* What the end of a blocked send does to the frames.
LEMMA UnblockedEffect ==
  ASSUME MessagesOK, RpcUnblocked
  PROVE  /\ sent' \in Seq(Frame)
         /\ unsent' \in Seq(ResponseFrame)
         /\ SendsResponse
<1>1. unsent[1] \in ResponseFrame
  BY DEF RpcUnblocked, MessagesOK
<1>2. unsent[1] \in Frame /\ unsent[1].kind = "RESPONSE"
  BY <1>1 DEF Frame, ResponseFrame
<1>3. Send(unsent[1]) /\ unsent' = <<>>
  BY DEF RpcUnblocked
<1>4. sent' \in Seq(Frame)
  BY <1>2, <1>3, SendKeepsSent DEF MessagesOK
<1> QED
  BY <1>2, <1>3, <1>4 DEF SendsResponse

\* A task for a request that may be sent is a task.
LEMMA TaskType ==
  ASSUME NEW why \in Reasons, NEW req \in Request
  PROVE  /\ Task(why, req) \in [why: Reasons, req: Request]
         /\ req.action_id \in Nat
         /\ req.poses \in Nat
BY DEF Task, Request

\* Having nothing to do is a task.
LEMMA NoTaskType == NoRequest \in Request /\ NoTask \in [why: Reasons, req: Request]
BY DEF NoTask, Task, NoRequest, Request, Reasons, StartKinds, UpdateKinds

\* A knot of a move is a target.
LEMMA TargetType ==
  ASSUME NEW move \in Nat, NEW stop \in BOOLEAN
  PROVE  Target(move, stop) \in [move: Nat, stop: BOOLEAN]
BY DEF Target

\* A new target replaces the queue and keeps the controller's types.
LEMMA FollowType ==
  ASSUME NEW target \in [move: Nat, stop: BOOLEAN], Follow(target)
  PROVE  queue' \in Seq([move: Nat, stop: BOOLEAN])
<1>1. queue' = <<target>>
  BY DEF Follow
<1> QED
  BY <1>1

(***************************************************************************)
(* A request is answered at once or engages the controller.                *)
(***************************************************************************)
AnswerStep ==
  \E r \in Requests, id \in Nat, blob \in {"empty", "specs", "error"},
     type \in {"FEATURE_NOT_SUPPORTED", "NOT_IN_PROGRESS", "DATA_INVALID", "SUCCESS",
               "FAILURE"} :
    Answer(r, type, id, blob)

EngageStep == \E r \in Requests, why \in {"start", "cancel"} : Engage(r, why)

\* A request is answered at once, or the handler goes on to stop the worker.
LEMMA ProcessRequestSteps == ProcessRequest => AnswerStep \/ EngageStep
<1> SUFFICES ASSUME ProcessRequest PROVE AnswerStep \/ EngageStep
  OBVIOUS
<1> USE RequestsAssumption
<1>1. PICK r \in Requests :
        \/ AnswerUnsupported(r) \/ AnswerMalformed(r) \/ AnswerSpecs(r) \/ RefuseMove(r)
        \/ RefuseUpdate(r) \/ AnswerNotInProgress(r) \/ EngageMove(r) \/ EngageCancel(r)
  BY DEF ProcessRequest
<1>2. r.action_id \in Nat /\ 0 \in Nat
  BY DEF Request
<1>3. CASE AnswerUnsupported(r) \/ AnswerMalformed(r) \/ AnswerNotInProgress(r)
  BY <1>2, <1>3 DEF AnswerUnsupported, AnswerMalformed, AnswerNotInProgress, AnswerStep
<1>4. CASE AnswerSpecs(r) \/ RefuseMove(r) \/ RefuseUpdate(r)
  BY <1>2, <1>4 DEF AnswerSpecs, RefuseMove, RefuseUpdate, AnswerStep
<1>5. CASE EngageMove(r) \/ EngageCancel(r)
  BY <1>5 DEF EngageMove, EngageCancel, EngageStep
<1> QED
  BY <1>1, <1>3, <1>4, <1>5

\* Every step keeps the Boolean variables Boolean.
LEMMA SwitchesStep ==
  ASSUME SwitchesOK, [Next]_vars
  PROVE  SwitchesOK'
<1> USE DEF robotVars, hostVars, sharedVars, workerVars, loopVars,
            moveVars, clientVars, lineVars, ghostVars, rpcLocalVars,
            otherThanWorkerVars, otherThanStallVars
<1>1. CASE HostActivate
  BY <1>1 DEF SwitchesOK, HostActivate
<1>2. CASE HostDeactivate
  BY <1>2 DEF SwitchesOK, HostDeactivate, HostCall
<1>3. CASE HostDestroy
  BY <1>3 DEF SwitchesOK, HostDestroy, HostCall
<1>4. CASE HostDestruct
  BY <1>4 DEF SwitchesOK, HostDestruct, HostCall
<1>5. CASE HostStoreStop
  BY <1>5 DEF SwitchesOK, HostStoreStop
<1>6. CASE HostCheckJoinable
  <2>1. UNCHANGED <<begun, arrived, hit, rpc_server_, rpc_server_running_,
                     trajectory_stop_requested_, joinable, crashed, fresh, young,
                     connected, stalled, cancelled, truncated, overtaken>>
    BY <1>6, SMT DEF HostCheckJoinable
  <2> QED
    BY <2>1 DEF SwitchesOK
<1>7. CASE HostJoin
  <2>1. UNCHANGED <<begun, arrived, hit, rpc_server_, rpc_server_running_,
                     trajectory_stop_requested_, crashed, fresh, young, connected,
                     stalled, cancelled, truncated, overtaken>>
    BY <1>7, SMT DEF HostJoin
  <2>2. joinable' \in BOOLEAN
    BY <1>7, Zenon DEF HostJoin
  <2> QED
    BY <2>1, <2>2 DEF SwitchesOK
<1>8. CASE HostJoinMisuse
  BY <1>8 DEF SwitchesOK, HostJoinMisuse
<1>9. CASE HostClearRunning
  <2>1. UNCHANGED <<begun, arrived, hit, rpc_server_, trajectory_stop_requested_,
                     joinable, crashed, fresh, young, connected, stalled, cancelled,
                     truncated, overtaken>>
    BY <1>9, SMT DEF HostClearRunning
  <2>2. rpc_server_running_' \in BOOLEAN
    BY <1>9, Zenon DEF HostClearRunning
  <2> QED
    BY <2>1, <2>2 DEF SwitchesOK
<1>10. CASE HostHalt
  <2>1. UNCHANGED <<begun, arrived, hit, rpc_server_running_,
                     trajectory_stop_requested_, joinable, crashed, fresh, young,
                     cancelled, truncated, overtaken>>
    BY <1>10, SMT DEF HostHalt
  <2>2. rpc_server_' \in BOOLEAN /\ connected' \in BOOLEAN /\ stalled' \in BOOLEAN
    BY <1>10, Zenon DEF HostHalt
  <2> QED
    BY <2>1, <2>2 DEF SwitchesOK
<1>11. CASE RpcSpin
  BY <1>11 DEF SwitchesOK, RpcSpin
<1>12. CASE RpcExit
  BY <1>12 DEF SwitchesOK, RpcExit
<1>13. CASE RpcAccept
  BY <1>13 DEF SwitchesOK, RpcAccept
<1>14. CASE RpcPollFails
  BY <1>14, LossKeepsLine DEF SwitchesOK, RpcPollFails
<1>15. CASE AnswerStep
  BY <1>15, ResponseKeepsLine DEF SwitchesOK, AnswerStep, Answer, Receive
<1>16. CASE EngageStep
  BY <1>16 DEF SwitchesOK, EngageStep, Engage, Receive
<1>17. CASE RpcStopWorker
  BY <1>17 DEF SwitchesOK, RpcStopWorker, AfterStop
<1>18. CASE RpcJoin
  <2>1. UNCHANGED <<begun, arrived, hit, rpc_server_, rpc_server_running_,
                     trajectory_stop_requested_, crashed, fresh, young, connected,
                     stalled, cancelled, truncated, overtaken>>
    BY <1>18, SMT DEF RpcJoin
  <2>2. joinable' \in BOOLEAN
    BY <1>18, Zenon DEF RpcJoin
  <2> QED
    BY <2>1, <2>2 DEF SwitchesOK
<1>19. CASE RpcJoinMisuse
  BY <1>19 DEF SwitchesOK, RpcJoinMisuse
<1>20. CASE RpcFinish
  BY <1>20, SendKeepsLine DEF SwitchesOK, RpcFinish
<1>21. CASE RpcStartMove
  BY <1>21, ResponseKeepsLine DEF SwitchesOK, RpcStartMove, StartAction,
     FollowTarget, Follow, Target, BackToPolling
<1>22. CASE RpcStartTrajectory
  BY <1>22 DEF SwitchesOK, RpcStartTrajectory, FollowTarget, Follow, Target
<1>23. CASE RpcSpawnWorker
  BY <1>23, ResponseKeepsLine DEF SwitchesOK, RpcSpawnWorker, StartAction,
     BackToPolling
<1>24. CASE RpcMoveRejected
  BY <1>24, ResponseKeepsLine DEF SwitchesOK, RpcMoveRejected, BackToPolling
<1>25. CASE RpcCancel
  BY <1>25, ResponseKeepsLine DEF SwitchesOK, RpcCancel, Terminate, BackToPolling
<1>26. CASE RpcCancelRejected
  BY <1>26, ResponseKeepsLine DEF SwitchesOK, RpcCancelRejected, BackToPolling
<1>27. CASE RpcUpdates
  BY <1>27, LossKeepsLine DEF SwitchesOK, RpcUpdates
<1>28. CASE RpcUpdatesSkipped
  BY <1>28 DEF SwitchesOK, RpcUpdatesSkipped
<1>29. CASE WorkerCheck
  BY <1>29 DEF SwitchesOK, WorkerCheck
<1>30. CASE WorkerAdd
  BY <1>30 DEF SwitchesOK, WorkerAdd, Add, Target
<1>31. CASE WorkerAddRejected
  BY <1>31 DEF SwitchesOK, WorkerAddRejected
<1>32. CASE RobotBegin /\ Robot
  BY <1>32 DEF SwitchesOK, RobotBegin, Robot
<1>33. CASE RobotReach /\ Robot
  BY <1>33 DEF SwitchesOK, RobotReach, Robot
<1>34. CASE RobotRest /\ Robot
  BY <1>34 DEF SwitchesOK, RobotRest, Robot
<1>35. CASE RobotFault /\ Robot
  BY <1>35 DEF SwitchesOK, RobotFault, Robot
<1>36. CASE RobotRecover /\ Robot
  BY <1>36 DEF SwitchesOK, RobotRecover, Robot
<1>37. CASE MinDurationElapses
  <2>1. UNCHANGED <<begun, arrived, hit, rpc_server_, rpc_server_running_,
                     trajectory_stop_requested_, joinable, crashed, fresh, connected,
                     stalled, cancelled, truncated, overtaken>>
    BY <1>37, SMT DEF MinDurationElapses
  <2>2. young' \in BOOLEAN
    BY <1>37, Zenon DEF MinDurationElapses
  <2> QED
    BY <2>1, <2>2 DEF SwitchesOK
<1>38. CASE UNCHANGED vars
  BY <1>38 DEF SwitchesOK, vars
<1>39. CASE RpcUnblocked
  BY <1>39, SendKeepsLine DEF SwitchesOK, RpcUnblocked
<1>40. CASE ClientStalls
  <2>1. UNCHANGED <<begun, arrived, hit, rpc_server_, rpc_server_running_,
                     trajectory_stop_requested_, joinable, crashed, fresh, young,
                     connected, cancelled, truncated, overtaken>>
    BY <1>40, SMT DEF ClientStalls
  <2>2. stalled' \in BOOLEAN
    BY <1>40, Zenon DEF ClientStalls
  <2> QED
    BY <2>1, <2>2 DEF SwitchesOK
<1>41. CASE ClientResumes
  <2>1. UNCHANGED <<begun, arrived, hit, rpc_server_, rpc_server_running_,
                     trajectory_stop_requested_, joinable, crashed, fresh, young,
                     connected, cancelled, truncated, overtaken>>
    BY <1>41, SMT DEF ClientResumes
  <2>2. stalled' \in BOOLEAN
    BY <1>41, Zenon DEF ClientResumes
  <2> QED
    BY <2>1, <2>2 DEF SwitchesOK
<1> QED
  BY ProcessRequestSteps, <1>1, <1>2, <1>3, <1>4, <1>5, <1>6, <1>7, <1>8, <1>9, <1>10, <1>11, <1>12, <1>13,
     <1>14, <1>15, <1>16, <1>17, <1>18, <1>19, <1>20, <1>21, <1>22, <1>23, <1>24,
     <1>25, <1>26, <1>27, <1>28, <1>29, <1>30, <1>31, <1>32, <1>33, <1>34, <1>35,
     <1>36, <1>37, <1>38, <1>39, <1>40, <1>41 DEF Next, HostThread, HostProgress,
     RpcThread, RpcStep, WorkerThread, Robot, RobotMoves, Client

\* Every step keeps the types of the places, the tasks and the controller.
LEMMA ControlStep ==
  ASSUME ControlOK, MessagesOK, [Next]_vars
  PROVE  ControlOK'
<1> USE DEF robotVars, hostVars, sharedVars, workerVars, loopVars,
            moveVars, clientVars, lineVars, ghostVars, rpcLocalVars,
            otherThanWorkerVars, otherThanStallVars
<1>1. CASE HostActivate
  BY <1>1, BoundsAssumption DEF ControlOK, HostStates, RpcStates, HostActivate
<1>2. CASE HostDeactivate
  BY <1>2 DEF ControlOK, HostStates, RpcStates, HostDeactivate, HostCall
<1>3. CASE HostDestroy
  BY <1>3 DEF ControlOK, HostStates, RpcStates, HostDestroy, HostCall
<1>4. CASE HostDestruct
  BY <1>4 DEF ControlOK, HostStates, RpcStates, HostDestruct, HostCall
<1>5. CASE HostStoreStop
  BY <1>5 DEF ControlOK, HostStates, RpcStates, HostStoreStop
<1>6. CASE HostCheckJoinable
  BY <1>6 DEF ControlOK, HostStates, RpcStates, HostCheckJoinable, AfterHostStop
<1>7. CASE HostJoin
  BY <1>7 DEF ControlOK, HostStates, RpcStates, HostJoin, AfterHostStop, NoWorker
<1>8. CASE HostJoinMisuse
  BY <1>8 DEF ControlOK, HostStates, RpcStates, HostJoinMisuse
<1>9. CASE HostClearRunning
  BY <1>9 DEF ControlOK, HostStates, RpcStates, HostClearRunning
<1>10. CASE HostHalt
  BY <1>10 DEF ControlOK, HostStates, RpcStates, HostHalt
<1>11. CASE RpcSpin
  BY <1>11 DEF ControlOK, HostStates, RpcStates, RpcSpin
<1>12. CASE RpcExit
  BY <1>12 DEF ControlOK, HostStates, RpcStates, RpcExit
<1>13. CASE RpcAccept
  BY <1>13 DEF ControlOK, HostStates, RpcStates, RpcAccept
<1>14. CASE RpcPollFails
  BY <1>14 DEF ControlOK, HostStates, RpcStates, RpcPollFails
<1>15. CASE AnswerStep
  BY <1>15 DEF ControlOK, HostStates, RpcStates, AnswerStep, Answer, Receive,
     SendResponse
<1>16. CASE EngageStep
  BY <1>16, TaskType, RequestsAssumption DEF ControlOK, HostStates, RpcStates,
     EngageStep, Engage, Receive, Reasons
<1>17. CASE RpcStopWorker
  BY <1>17 DEF ControlOK, HostStates, RpcStates, RpcStopWorker, AfterStop
<1>18. CASE RpcJoin
  BY <1>18 DEF ControlOK, HostStates, RpcStates, RpcJoin, AfterStop, NoWorker
<1>19. CASE RpcJoinMisuse
  BY <1>19 DEF ControlOK, HostStates, RpcStates, RpcJoinMisuse
<1>20. CASE RpcFinish
  BY <1>20, NoTaskType DEF ControlOK, HostStates, RpcStates, RpcFinish
<1>21. CASE RpcStartMove
  <2>1. Target(next_action_id_, TRUE) \in [move: Nat, stop: BOOLEAN]
    BY TargetType DEF MessagesOK
  <2>2. queue' \in Seq([move: Nat, stop: BOOLEAN])
    BY <1>21, <2>1, FollowType DEF RpcStartMove, FollowTarget
  <2> QED
    BY <1>21, <2>2, NoTaskType
       DEF ControlOK, RpcStates, RpcStartMove, StartAction, FollowTarget, Follow,
           BackToPolling
<1>22. CASE RpcStartTrajectory
  <2>1. Target(next_action_id_, FALSE) \in [move: Nat, stop: BOOLEAN]
    BY TargetType DEF MessagesOK
  <2>2. queue' \in Seq([move: Nat, stop: BOOLEAN])
    BY <1>22, <2>1, FollowType DEF RpcStartTrajectory, FollowTarget
  <2> QED
    BY <1>22, <2>2 DEF ControlOK, RpcStates, RpcStartTrajectory, FollowTarget, Follow
<1>23. CASE RpcSpawnWorker
  <2>1. task.req.poses \in Nat /\ next_action_id_ \in Nat
    BY TaskType DEF ControlOK, MessagesOK
  <2> QED
    BY <1>23, <2>1, NoTaskType
       DEF ControlOK, RpcStates, RpcSpawnWorker, StartAction, BackToPolling
<1>24. CASE RpcMoveRejected
  BY <1>24, NoTaskType DEF ControlOK, HostStates, RpcStates, RpcMoveRejected,
     SendResponse, BackToPolling
<1>25. CASE RpcCancel
  BY <1>25, NoTaskType DEF ControlOK, HostStates, RpcStates, RpcCancel, Terminate,
     SendResponse, BackToPolling
<1>26. CASE RpcCancelRejected
  BY <1>26, NoTaskType DEF ControlOK, HostStates, RpcStates, RpcCancelRejected,
     SendResponse, BackToPolling
<1>27. CASE RpcUpdates
  BY <1>27, TaskType, NoTaskType DEF ControlOK, HostStates, RpcStates, RpcUpdates,
     DueReason, Reasons
<1>28. CASE RpcUpdatesSkipped
  BY <1>28 DEF ControlOK, HostStates, RpcStates, RpcUpdatesSkipped
<1>29. CASE WorkerCheck
  BY <1>29 DEF ControlOK, HostStates, RpcStates, WorkerCheck
<1>30. CASE WorkerAdd
  <2>1. PICK stop \in BOOLEAN : Add(Target(worker.move, stop))
    BY <1>30 DEF WorkerAdd
  <2>2. queue' \in Seq([move: Nat, stop: BOOLEAN])
    BY <2>1, TargetType DEF Add, ControlOK
  <2>3. worker' \in [pc: {"off", "check", "add", "done"}, knot: Nat, move: Nat,
                     count: Nat]
    <3>1. \/ worker' = [worker EXCEPT !.knot = @ + 1, !.pc = "done"]
          \/ worker' = [worker EXCEPT !.knot = @ + 1, !.pc = "check"]
      BY <1>30 DEF WorkerAdd
    <3>2. /\ worker \in [pc: {"off", "check", "add", "done"}, knot: Nat, move: Nat,
                        count: Nat]
          /\ worker.knot + 1 \in Nat
      BY DEF ControlOK
    <3> QED
      BY <3>1, <3>2
  <2> QED
    BY <1>30, <2>2, <2>3 DEF ControlOK, HostStates, RpcStates, WorkerAdd, Add
<1>31. CASE WorkerAddRejected
  BY <1>31 DEF ControlOK, HostStates, RpcStates, WorkerAddRejected
<1>32. CASE RobotBegin /\ Robot
  BY <1>32 DEF ControlOK, HostStates, RpcStates, RobotBegin, Robot, NormalFlags
<1>33. CASE RobotReach /\ Robot
  BY <1>33 DEF ControlOK, HostStates, RpcStates, RobotReach, Robot
<1>34. CASE RobotRest /\ Robot
  <2>1. flags' \in NormalFlags
    BY <1>34, RestFlagsAssumption DEF RobotRest, NormalFlags
  <2> QED
    BY <1>34, <2>1 DEF ControlOK, HostStates, RpcStates, RobotRest, Robot
<1>35. CASE RobotFault /\ Robot
  BY <1>35, MaxFaultsAssumption DEF ControlOK, HostStates, RpcStates, RobotFault, Robot
<1>36. CASE RobotRecover /\ Robot
  BY <1>36 DEF ControlOK, HostStates, RpcStates, RobotRecover, Robot, NormalFlags
<1>37. CASE MinDurationElapses
  BY <1>37 DEF ControlOK, HostStates, RpcStates, MinDurationElapses
<1>38. CASE UNCHANGED vars
  BY <1>38 DEF ControlOK, HostStates, RpcStates, vars
<1>39. CASE RpcUnblocked
  BY <1>39 DEF ControlOK, RpcUnblocked
<1>40. CASE ClientStalls
  BY <1>40 DEF ControlOK, ClientStalls
<1>41. CASE ClientResumes
  BY <1>41 DEF ControlOK, ClientResumes
<1> QED
  BY ProcessRequestSteps, <1>1, <1>2, <1>3, <1>4, <1>5, <1>6, <1>7, <1>8, <1>9, <1>10, <1>11, <1>12, <1>13,
     <1>14, <1>15, <1>16, <1>17, <1>18, <1>19, <1>20, <1>21, <1>22, <1>23, <1>24,
     <1>25, <1>26, <1>27, <1>28, <1>29, <1>30, <1>31, <1>32, <1>33, <1>34, <1>35,
     <1>36, <1>37, <1>38, <1>39, <1>40, <1>41 DEF Next, HostThread, HostProgress,
     RpcThread, RpcStep, WorkerThread, Robot, RobotMoves, Client

\* Every step keeps the types of the counters, the buffer and the frames.
LEMMA MessagesStep ==
  ASSUME ControlOK, MessagesOK, [Next]_vars
  PROVE  MessagesOK'
<1> USE DEF robotVars, hostVars, sharedVars, workerVars, loopVars,
            moveVars, clientVars, lineVars, ghostVars, rpcLocalVars,
            otherThanWorkerVars, otherThanStallVars
<1>1. CASE HostActivate
  BY <1>1, BoundsAssumption DEF MessagesOK, HostActivate
<1>2. CASE HostDeactivate
  BY <1>2, BoundsAssumption DEF MessagesOK, HostDeactivate, HostCall
<1>3. CASE HostDestroy
  BY <1>3, BoundsAssumption DEF MessagesOK, HostDestroy, HostCall
<1>4. CASE HostDestruct
  BY <1>4, BoundsAssumption DEF MessagesOK, HostDestruct, HostCall
<1>5. CASE HostStoreStop
  BY <1>5, BoundsAssumption DEF MessagesOK, HostStoreStop
<1>6. CASE HostCheckJoinable
  BY <1>6, BoundsAssumption DEF MessagesOK, HostCheckJoinable, AfterHostStop
<1>7. CASE HostJoin
  BY <1>7, BoundsAssumption DEF MessagesOK, HostJoin, AfterHostStop
<1>8. CASE HostJoinMisuse
  BY <1>8, BoundsAssumption DEF MessagesOK, HostJoinMisuse
<1>9. CASE HostClearRunning
  BY <1>9, BoundsAssumption DEF MessagesOK, HostClearRunning
<1>10. CASE HostHalt
  BY <1>10, BoundsAssumption DEF MessagesOK, HostHalt
<1>11. CASE RpcSpin
  BY <1>11, BoundsAssumption DEF MessagesOK, RpcSpin
<1>12. CASE RpcExit
  BY <1>12, BoundsAssumption DEF MessagesOK, RpcExit
<1>13. CASE RpcAccept
  BY <1>13, BoundsAssumption DEF MessagesOK, RpcAccept
<1>14. CASE RpcPollFails
  BY <1>14, BoundsAssumption DEF MessagesOK, RpcPollFails
<1>15. CASE AnswerStep
  <2>1. PICK r \in Requests, id \in Nat, blob \in {"empty", "specs", "error"},
             type \in {"FEATURE_NOT_SUPPORTED", "NOT_IN_PROGRESS", "DATA_INVALID",
                        "SUCCESS", "FAILURE"} :
           Answer(r, type, id, blob)
    BY <1>15 DEF AnswerStep
  <2>2. SendResponse(r, type, id) /\ response_blob_buffer_' \in Blobs
    BY <2>1 DEF Answer, Blobs
  <2>3. sent' \in Seq(Frame) /\ unsent' \in Seq(ResponseFrame)
    BY <2>2, ResponseEffect, RequestsAssumption DEF ResponseTypes
  <2> QED
    BY <2>1, <2>2, <2>3, BoundsAssumption DEF MessagesOK, Answer, Receive
<1>16. CASE EngageStep
  BY <1>16, BoundsAssumption DEF MessagesOK, EngageStep, Engage, Receive, Blobs
<1>17. CASE RpcStopWorker
  BY <1>17, BoundsAssumption DEF MessagesOK, RpcStopWorker, AfterStop
<1>18. CASE RpcJoin
  BY <1>18, BoundsAssumption DEF MessagesOK, RpcJoin, AfterStop
<1>19. CASE RpcJoinMisuse
  BY <1>19, BoundsAssumption DEF MessagesOK, RpcJoinMisuse
<1>20. CASE RpcFinish
  BY <1>20, BoundsAssumption, FinishedType, SendKeepsSent DEF MessagesOK, RpcFinish,
     FinishBlob, Blobs
<1>21. CASE RpcStartMove
  <2>1. SendResponse(task.req, "SUCCESS_IN_PROGRESS", next_action_id_) /\ response_blob_buffer_' \in Blobs
    BY <1>21 DEF RpcStartMove, StartAction, MessagesOK, Blobs
  <2>2. sent' \in Seq(Frame) /\ unsent' \in Seq(ResponseFrame)
    BY <2>1, ResponseEffect, TaskType DEF ControlOK, MessagesOK, ResponseTypes
  <2> QED
    BY <1>21, <2>1, <2>2 DEF MessagesOK, RpcStartMove, StartAction
<1>22. CASE RpcStartTrajectory
  BY <1>22, BoundsAssumption DEF MessagesOK, RpcStartTrajectory, FollowTarget, Follow,
     Target
<1>23. CASE RpcSpawnWorker
  <2>1. SendResponse(task.req, "SUCCESS_IN_PROGRESS", next_action_id_) /\ response_blob_buffer_' \in Blobs
    BY <1>23 DEF RpcSpawnWorker, StartAction, MessagesOK, Blobs
  <2>2. sent' \in Seq(Frame) /\ unsent' \in Seq(ResponseFrame)
    BY <2>1, ResponseEffect, TaskType DEF ControlOK, MessagesOK, ResponseTypes
  <2> QED
    BY <1>23, <2>1, <2>2 DEF MessagesOK, RpcSpawnWorker, StartAction
<1>24. CASE RpcMoveRejected
  <2>1. SendResponse(task.req, "FAILURE", 0) /\ response_blob_buffer_' \in Blobs
    BY <1>24 DEF RpcMoveRejected, MessagesOK, Blobs
  <2>2. sent' \in Seq(Frame) /\ unsent' \in Seq(ResponseFrame)
    BY <2>1, ResponseEffect, TaskType DEF ControlOK, MessagesOK, ResponseTypes
  <2> QED
    BY <1>24, <2>1, <2>2 DEF MessagesOK, RpcMoveRejected
<1>25. CASE RpcCancel
  <2>1. SendResponse(task.req, "SUCCESS", task.req.action_id) /\ response_blob_buffer_' \in Blobs
    BY <1>25 DEF RpcCancel, MessagesOK, Blobs
  <2>2. sent' \in Seq(Frame) /\ unsent' \in Seq(ResponseFrame)
    BY <2>1, ResponseEffect, TaskType DEF ControlOK, MessagesOK, ResponseTypes
  <2> QED
    BY <1>25, <2>1, <2>2 DEF MessagesOK, RpcCancel
<1>26. CASE RpcCancelRejected
  <2>1. SendResponse(task.req, "FAILURE", 0) /\ response_blob_buffer_' \in Blobs
    BY <1>26 DEF RpcCancelRejected, MessagesOK, Blobs
  <2>2. sent' \in Seq(Frame) /\ unsent' \in Seq(ResponseFrame)
    BY <2>1, ResponseEffect, TaskType DEF ControlOK, MessagesOK, ResponseTypes
  <2> QED
    BY <1>26, <2>1, <2>2 DEF MessagesOK, RpcCancelRejected
<1>27. CASE RpcUpdates
  BY <1>27, BoundsAssumption DEF MessagesOK, RpcUpdates, Blobs
<1>28. CASE RpcUpdatesSkipped
  BY <1>28, BoundsAssumption DEF MessagesOK, RpcUpdatesSkipped
<1>29. CASE WorkerCheck
  BY <1>29, BoundsAssumption DEF MessagesOK, WorkerCheck
<1>30. CASE WorkerAdd
  BY <1>30, BoundsAssumption DEF MessagesOK, WorkerAdd, Add, Target
<1>31. CASE WorkerAddRejected
  BY <1>31, BoundsAssumption DEF MessagesOK, WorkerAddRejected
<1>32. CASE RobotBegin /\ Robot
  BY <1>32, BoundsAssumption DEF MessagesOK, RobotBegin, Robot
<1>33. CASE RobotReach /\ Robot
  BY <1>33, BoundsAssumption DEF MessagesOK, RobotReach, Robot
<1>34. CASE RobotRest /\ Robot
  BY <1>34, BoundsAssumption DEF MessagesOK, RobotRest, Robot
<1>35. CASE RobotFault /\ Robot
  BY <1>35, BoundsAssumption DEF MessagesOK, RobotFault, Robot
<1>36. CASE RobotRecover /\ Robot
  BY <1>36, BoundsAssumption DEF MessagesOK, RobotRecover, Robot
<1>37. CASE MinDurationElapses
  BY <1>37, BoundsAssumption DEF MessagesOK, MinDurationElapses
<1>38. CASE UNCHANGED vars
  BY <1>38, BoundsAssumption DEF MessagesOK, vars
<1>39. CASE RpcUnblocked
  BY <1>39, UnblockedEffect DEF MessagesOK, RpcUnblocked
<1>40. CASE ClientStalls
  BY <1>40 DEF MessagesOK, ClientStalls
<1>41. CASE ClientResumes
  BY <1>41 DEF MessagesOK, ClientResumes
<1> QED
  BY ProcessRequestSteps, <1>1, <1>2, <1>3, <1>4, <1>5, <1>6, <1>7, <1>8, <1>9, <1>10, <1>11, <1>12, <1>13,
     <1>14, <1>15, <1>16, <1>17, <1>18, <1>19, <1>20, <1>21, <1>22, <1>23, <1>24,
     <1>25, <1>26, <1>27, <1>28, <1>29, <1>30, <1>31, <1>32, <1>33, <1>34, <1>35,
     <1>36, <1>37, <1>38, <1>39, <1>40, <1>41 DEF Next, HostThread, HostProgress,
     RpcThread, RpcStep, WorkerThread, Robot, RobotMoves, Client

\* Every variable keeps its type, whatever the threads, the clients and the
\* controller do (TypeOK of AergoAdapter).
THEOREM TypeCorrect == Spec => []TypeOK
<1>1. Init => TypeOK
  <2> SUFFICES ASSUME Init PROVE SwitchesOK /\ ControlOK /\ MessagesOK
    BY TypeParts
  <2>1. SwitchesOK
    BY DEF Init, RobotInit, SwitchesOK
  <2>2. ControlOK
    BY BoundsAssumption, MaxFaultsAssumption, NoTaskType
       DEF Init, RobotInit, ControlOK, HostStates, RpcStates, NormalFlags, NoWorker
  <2>3. MessagesOK
    BY BoundsAssumption DEF Init, MessagesOK, Blobs
  <2> QED
    BY <2>1, <2>2, <2>3
<1>2. TypeOK /\ [Next]_vars => TypeOK'
  <2> SUFFICES ASSUME TypeOK, [Next]_vars PROVE TypeOK'
    OBVIOUS
  <2>1. SwitchesOK /\ ControlOK /\ MessagesOK
    BY TypeParts
  <2>2. SwitchesOK' /\ ControlOK' /\ MessagesOK'
    BY <2>1, SwitchesStep, ControlStep, MessagesStep
  <2> QED
    BY <2>2 DEF TypeOK, RobotTypeOK, SwitchesOK, ControlOK, MessagesOK
<1> QED
  BY <1>1, <1>2, PTL DEF Spec

\* Every step keeps PlacesInv.
LEMMA PlacesStep ==
  ASSUME ControlOK, MessagesOK, PlacesInv, [Next]_vars
  PROVE  PlacesInv'
<1> USE DEF robotVars, hostVars, sharedVars, workerVars, loopVars,
            moveVars, clientVars, lineVars, ghostVars, rpcLocalVars,
            otherThanWorkerVars, otherThanStallVars
<1>1. CASE HostActivate
  BY <1>1 DEF PlacesInv, HostActivate
<1>2. CASE HostDeactivate
  BY <1>2 DEF PlacesInv, HostDeactivate, HostCall
<1>3. CASE HostDestroy
  BY <1>3 DEF PlacesInv, HostDestroy, HostCall
<1>4. CASE HostDestruct
  BY <1>4 DEF PlacesInv, HostDestruct, HostCall
<1>5. CASE HostStoreStop
  BY <1>5 DEF PlacesInv, HostStoreStop
<1>6. CASE HostCheckJoinable
  BY <1>6 DEF PlacesInv, HostCheckJoinable, AfterHostStop
<1>7. CASE HostJoin
  BY <1>7 DEF PlacesInv, HostJoin, AfterHostStop
<1>8. CASE HostJoinMisuse
  BY <1>8 DEF PlacesInv, HostJoinMisuse
<1>9. CASE HostClearRunning
  BY <1>9 DEF PlacesInv, HostClearRunning
<1>10. CASE HostHalt
  BY <1>10 DEF PlacesInv, HostHalt
<1>11. CASE RpcSpin
  BY <1>11 DEF PlacesInv, RpcSpin
<1>12. CASE RpcExit
  BY <1>12 DEF PlacesInv, RpcExit
<1>13. CASE RpcAccept
  BY <1>13 DEF PlacesInv, RpcAccept
<1>14. CASE RpcPollFails
  BY <1>14 DEF PlacesInv, RpcPollFails
<1>15. CASE AnswerStep
  BY <1>15 DEF PlacesInv, AnswerStep, Answer, Receive, SendResponse
<1>16. CASE EngageStep
  BY <1>16 DEF PlacesInv, EngageStep, Engage, Receive, Task
<1>17. CASE RpcStopWorker
  BY <1>17 DEF PlacesInv, RpcStopWorker, AfterStop
<1>18. CASE RpcJoin
  BY <1>18 DEF PlacesInv, RpcJoin, AfterStop
<1>19. CASE RpcJoinMisuse
  BY <1>19 DEF PlacesInv, RpcJoinMisuse
<1>20. CASE RpcFinish
  BY <1>20 DEF PlacesInv, RpcFinish, NoTask, Task
<1>21. CASE RpcStartMove
  BY <1>21 DEF PlacesInv, RpcStartMove, StartAction, FollowTarget, Follow, Target,
     SendResponse, BackToPolling, MessagesOK
<1>22. CASE RpcStartTrajectory
  BY <1>22 DEF PlacesInv, RpcStartTrajectory, FollowTarget, Follow, Target
<1>23. CASE RpcSpawnWorker
  BY <1>23 DEF PlacesInv, RpcSpawnWorker, StartAction, SendResponse, BackToPolling,
     MessagesOK
<1>24. CASE RpcMoveRejected
  BY <1>24 DEF PlacesInv, RpcMoveRejected, SendResponse, BackToPolling
<1>25. CASE RpcCancel
  BY <1>25 DEF PlacesInv, RpcCancel, Terminate, SendResponse, BackToPolling
<1>26. CASE RpcCancelRejected
  BY <1>26 DEF PlacesInv, RpcCancelRejected, SendResponse, BackToPolling
<1>27. CASE RpcUpdates
  BY <1>27 DEF PlacesInv, RpcUpdates, Task
<1>28. CASE RpcUpdatesSkipped
  BY <1>28 DEF PlacesInv, RpcUpdatesSkipped
<1>29. CASE WorkerCheck
  BY <1>29 DEF PlacesInv, WorkerCheck
<1>30. CASE WorkerAdd
  BY <1>30 DEF PlacesInv, WorkerAdd, Add, Target
<1>31. CASE WorkerAddRejected
  BY <1>31 DEF PlacesInv, WorkerAddRejected
<1>32. CASE RobotBegin /\ Robot
  BY <1>32 DEF PlacesInv, RobotBegin, Robot
<1>33. CASE RobotReach /\ Robot
  BY <1>33 DEF PlacesInv, RobotReach, Robot
<1>34. CASE RobotRest /\ Robot
  BY <1>34 DEF PlacesInv, RobotRest, Robot
<1>35. CASE RobotFault /\ Robot
  BY <1>35 DEF PlacesInv, RobotFault, Robot
<1>36. CASE RobotRecover /\ Robot
  BY <1>36 DEF PlacesInv, RobotRecover, Robot
<1>37. CASE MinDurationElapses
  BY <1>37 DEF PlacesInv, MinDurationElapses
<1>38. CASE UNCHANGED vars
  BY <1>38 DEF PlacesInv, vars
<1>39. CASE RpcUnblocked
  BY <1>39 DEF PlacesInv, RpcUnblocked
<1>40. CASE ClientStalls
  BY <1>40 DEF PlacesInv, ClientStalls
<1>41. CASE ClientResumes
  BY <1>41 DEF PlacesInv, ClientResumes
<1> QED
  BY ProcessRequestSteps, <1>1, <1>2, <1>3, <1>4, <1>5, <1>6, <1>7, <1>8, <1>9, <1>10, <1>11, <1>12, <1>13,
     <1>14, <1>15, <1>16, <1>17, <1>18, <1>19, <1>20, <1>21, <1>22, <1>23, <1>24,
     <1>25, <1>26, <1>27, <1>28, <1>29, <1>30, <1>31, <1>32, <1>33, <1>34, <1>35,
     <1>36, <1>37, <1>38, <1>39, <1>40, <1>41 DEF Next, HostThread, HostProgress,
     RpcThread, RpcStep, WorkerThread, Robot, RobotMoves, Client

(***************************************************************************)
(* What a step does to the ids and to the frames, in four cases.           *)
(***************************************************************************)
QuietEffect == UNCHANGED <<next_action_id_, current_move_action_id_, sent>>

AnswerEffect ==
  /\ UNCHANGED <<next_action_id_, current_move_action_id_>>
  /\ SendsResponse

StartEffect ==
  /\ current_move_action_id_ = NoAction
  /\ current_move_action_id_' = next_action_id_
  /\ next_action_id_' = next_action_id_ + 1
  /\ SendsResponse

EndEffect ==
  /\ current_move_action_id_ # NoAction
  /\ current_move_action_id_' = NoAction
  /\ UNCHANGED next_action_id_
  /\ \E f \in Frame : /\ f.kind = "FINISHED"
                      /\ f.action_id = current_move_action_id_
                      /\ Send(f)

\* What a step does to ids and reports: an answer or nothing, the start of a move,
\* or the end of one with at most one report.
LEMMA MoveEffects ==
  ASSUME ControlOK, MessagesOK, PlacesInv, [Next]_vars
  PROVE  QuietEffect \/ AnswerEffect \/ StartEffect \/ EndEffect
<1> USE DEF robotVars, hostVars, sharedVars, workerVars, loopVars,
            moveVars, clientVars, lineVars, ghostVars, rpcLocalVars,
            otherThanWorkerVars, otherThanStallVars
<1>1. CASE HostActivate
  BY <1>1 DEF HostActivate, QuietEffect
<1>2. CASE HostDeactivate
  BY <1>2 DEF HostDeactivate, HostCall, QuietEffect
<1>3. CASE HostDestroy
  BY <1>3 DEF HostDestroy, HostCall, QuietEffect
<1>4. CASE HostDestruct
  BY <1>4 DEF HostDestruct, HostCall, QuietEffect
<1>5. CASE HostStoreStop
  BY <1>5 DEF HostStoreStop, QuietEffect
<1>6. CASE HostCheckJoinable
  BY <1>6 DEF HostCheckJoinable, AfterHostStop, QuietEffect
<1>7. CASE HostJoin
  BY <1>7 DEF HostJoin, AfterHostStop, QuietEffect
<1>8. CASE HostJoinMisuse
  BY <1>8 DEF HostJoinMisuse, QuietEffect
<1>9. CASE HostClearRunning
  BY <1>9 DEF HostClearRunning, QuietEffect
<1>10. CASE HostHalt
  BY <1>10 DEF HostHalt, QuietEffect
<1>11. CASE RpcSpin
  BY <1>11 DEF RpcSpin, QuietEffect
<1>12. CASE RpcExit
  BY <1>12 DEF RpcExit, QuietEffect
<1>13. CASE RpcAccept
  BY <1>13 DEF RpcAccept, QuietEffect
<1>14. CASE RpcPollFails
  BY <1>14 DEF RpcPollFails, QuietEffect
<1>15. CASE AnswerStep
  <2>1. PICK r \in Requests, id \in Nat, blob \in {"empty", "specs", "error"},
             type \in {"FEATURE_NOT_SUPPORTED", "NOT_IN_PROGRESS", "DATA_INVALID",
                        "SUCCESS", "FAILURE"} :
           Answer(r, type, id, blob)
    BY <1>15 DEF AnswerStep
  <2>2. SendResponse(r, type, id) /\ response_blob_buffer_' \in Blobs
    BY <2>1 DEF Answer, Blobs
  <2>3. SendsResponse
    BY <2>2, ResponseEffect, RequestsAssumption DEF ResponseTypes
  <2> QED
    BY <2>1, <2>3 DEF AnswerEffect, Answer, Receive
<1>16. CASE EngageStep
  BY <1>16 DEF EngageStep, Engage, Receive, QuietEffect
<1>17. CASE RpcStopWorker
  BY <1>17 DEF RpcStopWorker, AfterStop, QuietEffect
<1>18. CASE RpcJoin
  BY <1>18 DEF RpcJoin, AfterStop, QuietEffect
<1>19. CASE RpcJoinMisuse
  BY <1>19 DEF RpcJoinMisuse, QuietEffect
<1>20. CASE RpcFinish
  <2> DEFINE f == Finished(current_move_action_id_, task.why = "idle", FinishBlob)
  <2>1. f \in Frame
    BY FinishedType DEF MessagesOK, FinishBlob, Blobs
  <2>2. /\ f.kind = "FINISHED"
        /\ f.action_id = current_move_action_id_
    BY DEF Finished
  <2>3. Send(f)
    BY <1>20 DEF RpcFinish
  <2> HIDE DEF f
  <2> QED
    BY <1>20, <2>1, <2>2, <2>3 DEF EndEffect, PlacesInv, RpcFinish
<1>21. CASE RpcStartMove
  <2>1. SendResponse(task.req, "SUCCESS_IN_PROGRESS", next_action_id_) /\ response_blob_buffer_' \in Blobs
    BY <1>21 DEF RpcStartMove, StartAction, MessagesOK, Blobs
  <2>2. SendsResponse
    BY <2>1, ResponseEffect, TaskType DEF ControlOK, MessagesOK, ResponseTypes
  <2> QED
    BY <1>21, <2>2 DEF StartEffect, PlacesInv, StartAction, RpcStartMove
<1>22. CASE RpcStartTrajectory
  BY <1>22 DEF RpcStartTrajectory, FollowTarget, Follow, Target, QuietEffect
<1>23. CASE RpcSpawnWorker
  <2>1. SendResponse(task.req, "SUCCESS_IN_PROGRESS", next_action_id_) /\ response_blob_buffer_' \in Blobs
    BY <1>23 DEF RpcSpawnWorker, StartAction, MessagesOK, Blobs
  <2>2. SendsResponse
    BY <2>1, ResponseEffect, TaskType DEF ControlOK, MessagesOK, ResponseTypes
  <2> QED
    BY <1>23, <2>2 DEF StartEffect, PlacesInv, StartAction, RpcSpawnWorker
<1>24. CASE RpcMoveRejected
  <2>1. SendResponse(task.req, "FAILURE", 0) /\ response_blob_buffer_' \in Blobs
    BY <1>24 DEF RpcMoveRejected, MessagesOK, Blobs
  <2>2. SendsResponse
    BY <2>1, ResponseEffect, TaskType DEF ControlOK, MessagesOK, ResponseTypes
  <2> QED
    BY <1>24, <2>2 DEF AnswerEffect, RpcMoveRejected
<1>25. CASE RpcCancel
  <2>1. SendResponse(task.req, "SUCCESS", task.req.action_id) /\ response_blob_buffer_' \in Blobs
    BY <1>25 DEF RpcCancel, MessagesOK, Blobs
  <2>2. SendsResponse
    BY <2>1, ResponseEffect, TaskType DEF ControlOK, MessagesOK, ResponseTypes
  <2> QED
    BY <1>25, <2>2 DEF AnswerEffect, RpcCancel
<1>26. CASE RpcCancelRejected
  <2>1. SendResponse(task.req, "FAILURE", 0) /\ response_blob_buffer_' \in Blobs
    BY <1>26 DEF RpcCancelRejected, MessagesOK, Blobs
  <2>2. SendsResponse
    BY <2>1, ResponseEffect, TaskType DEF ControlOK, MessagesOK, ResponseTypes
  <2> QED
    BY <1>26, <2>2 DEF AnswerEffect, RpcCancelRejected
<1>27. CASE RpcUpdates
  BY <1>27 DEF RpcUpdates, QuietEffect
<1>28. CASE RpcUpdatesSkipped
  BY <1>28 DEF RpcUpdatesSkipped, QuietEffect
<1>29. CASE WorkerCheck
  BY <1>29 DEF WorkerCheck, QuietEffect
<1>30. CASE WorkerAdd
  BY <1>30 DEF WorkerAdd, Add, Target, QuietEffect
<1>31. CASE WorkerAddRejected
  BY <1>31 DEF WorkerAddRejected, QuietEffect
<1>32. CASE RobotBegin /\ Robot
  BY <1>32 DEF RobotBegin, Robot, QuietEffect
<1>33. CASE RobotReach /\ Robot
  BY <1>33 DEF RobotReach, Robot, QuietEffect
<1>34. CASE RobotRest /\ Robot
  BY <1>34 DEF RobotRest, Robot, QuietEffect
<1>35. CASE RobotFault /\ Robot
  BY <1>35 DEF RobotFault, Robot, QuietEffect
<1>36. CASE RobotRecover /\ Robot
  BY <1>36 DEF RobotRecover, Robot, QuietEffect
<1>37. CASE MinDurationElapses
  BY <1>37 DEF MinDurationElapses, QuietEffect
<1>38. CASE UNCHANGED vars
  BY <1>38 DEF vars, QuietEffect
<1>39. CASE RpcUnblocked
  BY <1>39, UnblockedEffect DEF AnswerEffect, RpcUnblocked
<1>40. CASE ClientStalls
  BY <1>40 DEF QuietEffect, ClientStalls
<1>41. CASE ClientResumes
  BY <1>41 DEF QuietEffect, ClientResumes
<1> QED
  BY ProcessRequestSteps, <1>1, <1>2, <1>3, <1>4, <1>5, <1>6, <1>7, <1>8, <1>9, <1>10, <1>11, <1>12, <1>13,
     <1>14, <1>15, <1>16, <1>17, <1>18, <1>19, <1>20, <1>21, <1>22, <1>23, <1>24,
     <1>25, <1>26, <1>27, <1>28, <1>29, <1>30, <1>31, <1>32, <1>33, <1>34, <1>35,
     <1>36, <1>37, <1>38, <1>39, <1>40, <1>41 DEF Next, HostThread, HostProgress,
     RpcThread, RpcStep, WorkerThread, Robot, RobotMoves, Client

(***************************************************************************)
(* What the frames sent say, before and after a frame is appended.         *)
(***************************************************************************)
\* A response leaves what is said of finished actions alone.
LEMMA ResponseKeepsReports ==
  ASSUME MessagesOK, PlacesInv, ReportsInv, SendsResponse,
         \/ UNCHANGED <<next_action_id_, current_move_action_id_>>
         \/ /\ current_move_action_id_' = next_action_id_
            /\ next_action_id_' = next_action_id_ + 1
  PROVE  ReportsInv' /\ ReportedActions' = ReportedActions
<1>1. CASE UNCHANGED sent
  BY <1>1, SMTT(30)
     DEF MessagesOK, ReportsInv, OneFinishPerAction, IsFinished, ReportedActions
<1>2. CASE ~ UNCHANGED sent
  <2>1. PICK f \in Frame : f.kind = "RESPONSE" /\ sent' = Append(sent, f)
    BY <1>2 DEF SendsResponse, Send
  <2>2. /\ DOMAIN sent = 1..Len(sent)
        /\ DOMAIN sent' = 1..(Len(sent) + 1)
        /\ Len(sent) \in Nat
        /\ \A i \in DOMAIN sent : sent'[i] = sent[i]
        /\ sent'[Len(sent) + 1] = f
    BY <2>1 DEF MessagesOK
  <2>3. \A i \in DOMAIN sent' : IsFinished(i)' => i \in DOMAIN sent /\ IsFinished(i)
    BY <2>1, <2>2 DEF IsFinished
  <2>4. ReportsInv'
    <3> SUFFICES ASSUME NEW i \in DOMAIN sent', IsFinished(i)'
                 PROVE  /\ (sent'[i].action_id \in 1..(next_action_id_' - 1))
                        /\ sent'[i].action_id # current_move_action_id_'
                        /\ \A j \in DOMAIN sent' :
                             IsFinished(j)' /\ sent'[j].action_id = sent'[i].action_id
                               => i = j
      BY DEF ReportsInv, OneFinishPerAction, IsFinished
    <3>1. i \in DOMAIN sent /\ IsFinished(i) /\ sent'[i] = sent[i]
      BY <2>2, <2>3
    <3>2. /\ sent[i].action_id \in 1..(next_action_id_ - 1)
          /\ sent[i].action_id # current_move_action_id_
      BY <3>1 DEF ReportsInv, OneFinishPerAction
    <3>3. /\ sent'[i].action_id \in 1..(next_action_id_' - 1)
          /\ sent'[i].action_id # current_move_action_id_'
      BY <3>1, <3>2 DEF MessagesOK
    <3>4. ASSUME NEW j \in DOMAIN sent', IsFinished(j)',
                 sent'[j].action_id = sent'[i].action_id
          PROVE  i = j
      <4>1. j \in DOMAIN sent /\ IsFinished(j) /\ sent'[j] = sent[j]
        BY <2>2, <2>3, <3>4
      <4> QED
        BY <3>1, <3>4, <4>1 DEF ReportsInv, OneFinishPerAction
    <3> QED
      BY <3>3, <3>4
  <2>5. ReportedActions' = ReportedActions
    BY <2>1, <2>2, <2>3 DEF ReportedActions, IsFinished
  <2> QED
    BY <2>4, <2>5
<1> QED
  BY <1>1, <1>2

\* The report of the current action, which is then reset, is its only one.
LEMMA FinishedKeepsReports ==
  ASSUME MessagesOK, PlacesInv, ReportsInv, EndEffect
  PROVE  /\ ReportsInv'
         /\ ReportedActions' \in {ReportedActions,
                                  ReportedActions \cup {current_move_action_id_}}
<1>1. CASE UNCHANGED sent
  BY <1>1 DEF EndEffect, MessagesOK, ReportsInv, OneFinishPerAction, IsFinished, ReportedActions
<1>2. CASE ~ UNCHANGED sent
  <2>1. PICK f \in Frame : /\ f.kind = "FINISHED"
                          /\ f.action_id = current_move_action_id_
                          /\ sent' = Append(sent, f)
    BY <1>2 DEF EndEffect, Send
  <2>2. /\ DOMAIN sent = 1..Len(sent)
        /\ DOMAIN sent' = 1..(Len(sent) + 1)
        /\ Len(sent) \in Nat
        /\ \A i \in DOMAIN sent : sent'[i] = sent[i]
        /\ sent'[Len(sent) + 1] = f
    BY <2>1 DEF MessagesOK
  <2>3. current_move_action_id_ \in 1..(next_action_id_ - 1)
    BY DEF EndEffect, PlacesInv, MessagesOK
  <2>4. ReportsInv'
    BY <2>1, <2>2, <2>3, SMTT(30) DEF EndEffect, MessagesOK, ReportsInv, OneFinishPerAction, IsFinished
  <2>5. ReportedActions' = ReportedActions \cup {current_move_action_id_}
    BY <2>1, <2>2 DEF ReportedActions, IsFinished
  <2> QED
    BY <2>4, <2>5
<1> QED
  BY <1>1, <1>2

\* A step that sends nothing and starts nothing keeps ReportsInv.
LEMMA QuietKeepsReports ==
  ASSUME ReportsInv, QuietEffect
  PROVE  ReportsInv' /\ ReportedActions' = ReportedActions
BY DEF QuietEffect, ReportsInv, OneFinishPerAction, IsFinished, ReportedActions

\* MoveInv is kept by every step: it is inductive with the types.
LEMMA MoveInvInductive == TypeOK /\ MoveInv /\ [Next]_vars => MoveInv'
<1> SUFFICES ASSUME TypeOK, MoveInv, [Next]_vars PROVE PlacesInv' /\ ReportsInv'
  BY DEF MoveInv
<1>1. ControlOK /\ MessagesOK /\ PlacesInv /\ ReportsInv
  BY TypeParts DEF MoveInv
<1>2. PlacesInv'
  BY <1>1, PlacesStep
<1>3. ReportsInv'
  BY <1>1, MoveEffects, QuietKeepsReports, ResponseKeepsReports, FinishedKeepsReports
     DEF AnswerEffect, StartEffect
<1> QED
  BY <1>2, <1>3

\* The invariant that orders ids, reports and the places of the RPC thread.
THEOREM MovesInOrder == Spec => []MoveInv
<1>1. Init => MoveInv
  BY DEF Init, MoveInv, PlacesInv, ReportsInv, OneFinishPerAction
<1> QED
  BY <1>1, TypeCorrect, MoveInvInductive, PTL DEF Spec

\* No FINISHED message is sent twice for an action, or for an action that is still
\* the current one: finishCurrentMoveAction resets the id it has reported, and a
\* handler starts the next action only after that.
THEOREM FinishedOnce == Spec => []OneFinishPerAction
<1>1. MoveInv => OneFinishPerAction
  BY DEF MoveInv, ReportsInv
<1> QED
  BY <1>1, MovesInOrder, PTL

\* The adapter implements the abstract contract: every step of its threads, of the
\* controller and of the clients starts the next action, ends the current one with
\* at most one report, or leaves the contract's state alone.
THEOREM ImplementsContract == Spec => KeepsMoveContract
<1>1. Init => Contract!ContractInit
  <2> SUFFICES ASSUME Init PROVE Contract!ContractInit
    OBVIOUS
  <2>1. ReportedActions = {}
    BY DEF Init, ReportedActions
  <2> QED
    BY <2>1 DEF Init, Contract!ContractInit
<1>2. TypeOK /\ MoveInv /\ [Next]_vars => [Contract!ContractNext]_(Contract!contractVars)
  <2> SUFFICES ASSUME TypeOK, MoveInv, [Next]_vars
               PROVE  Contract!ContractNext \/ UNCHANGED Contract!contractVars
    OBVIOUS
  <2>1. ControlOK /\ MessagesOK /\ PlacesInv /\ ReportsInv
    BY TypeParts DEF MoveInv
  <2>2. CASE QuietEffect
    BY <2>1, <2>2, QuietKeepsReports DEF QuietEffect, Contract!contractVars
  <2>3. CASE AnswerEffect
    BY <2>1, <2>3, ResponseKeepsReports DEF AnswerEffect, Contract!contractVars
  <2>4. CASE StartEffect
    <3>1. ReportedActions' = ReportedActions
      BY <2>1, <2>4, ResponseKeepsReports DEF StartEffect
    <3> QED
      BY <2>1, <2>4, <3>1
         DEF StartEffect, MessagesOK, Contract!ContractNext, Contract!StartMove
  <2>5. CASE EndEffect
    <3>1. ReportedActions' \in {ReportedActions,
                                ReportedActions \cup {current_move_action_id_}}
      BY <2>1, <2>5, FinishedKeepsReports
    <3> QED
      BY <2>5, <3>1 DEF EndEffect, Contract!ContractNext, Contract!EndMove
  <2> QED
    BY <2>1, <2>2, <2>3, <2>4, <2>5, MoveEffects
<1> QED
  BY <1>1, <1>2, TypeCorrect, MovesInOrder, PTL
     DEF Spec, KeepsMoveContract, Contract!ContractSpec

\* What a client may conclude from the contract, and so from the adapter that keeps
\* it: only ids that were handed out are reported, and the action in progress is the
\* newest one and was not reported.
THEOREM ContractMeaning == Spec => []Contract!ContractInv
<1>1. Contract!ContractInit => Contract!ContractInv
  BY DEF Contract!ContractInit, Contract!ContractInv
<1>2. Contract!ContractInv /\ [Contract!ContractNext]_(Contract!contractVars)
        => Contract!ContractInv'
  <2> SUFFICES ASSUME Contract!ContractInv,
                      Contract!ContractNext \/ UNCHANGED Contract!contractVars
               PROVE  Contract!ContractInv'
    OBVIOUS
  <2> DEFINE last == next_action_id_ - 1
             live == current_move_action_id_
             reported == ReportedActions
  <2>1. CASE Contract!StartMove
    <3>1. last \in Nat /\ reported \subseteq 1..last /\ live = 0
      BY <2>1 DEF Contract!StartMove, Contract!ContractInv
    <3>2. last' = last + 1 /\ live' = last' /\ reported' = reported
      BY <2>1 DEF Contract!StartMove
    <3> HIDE DEF last, live, reported
    <3>3. /\ last' \in Nat /\ reported' \subseteq 1..last'
          /\ live' \in {0, last'} /\ (live' # 0 => live' \notin reported')
      BY <3>1, <3>2
    <3> QED
      BY <3>3 DEF Contract!ContractInv, last, live, reported
  <2>2. CASE Contract!EndMove
    <3>1. /\ last \in Nat /\ reported \subseteq 1..last /\ live = last /\ live # 0
      BY <2>2 DEF Contract!EndMove, Contract!ContractInv
    <3>2. last' = last /\ live' = 0 /\ reported' \in {reported, reported \cup {live}}
      BY <2>2 DEF Contract!EndMove
    <3> HIDE DEF last, live, reported
    <3>3. /\ last' \in Nat /\ reported' \subseteq 1..last'
          /\ live' \in {0, last'} /\ (live' # 0 => live' \notin reported')
      BY <3>1, <3>2
    <3> QED
      BY <3>3 DEF Contract!ContractInv, last, live, reported
  <2>3. CASE UNCHANGED Contract!contractVars
    <3>1. /\ last' = last /\ live' = live /\ reported' = reported
      BY <2>3 DEF Contract!contractVars
    <3> HIDE DEF last, live, reported
    <3> QED
      BY <3>1 DEF Contract!ContractInv, last, live, reported
  <2> QED
    BY <2>1, <2>2, <2>3 DEF Contract!ContractNext
<1> QED
  BY <1>1, <1>2, ImplementsContract, PTL DEF KeepsMoveContract, Contract!ContractSpec

-----------------------------------------------------------------------------
(***************************************************************************)
(* The threads: who may use the trajectory thread object, for how long the *)
(* RPC server exists, and which moves the controller's queue holds.        *)
(***************************************************************************)
(***************************************************************************)
(* The RPC thread runs only between onActivate and the join of             *)
(* onDeactivate.  The destructor stops the worker alone, so it has to come *)
(* after a call that joined the RPC thread.                                *)
(***************************************************************************)
LifecycleInv ==
  /\ ServerOutlivesRpcThread
  /\ goal = "destruct" => /\ rpc = "none" /\ ~ connected
                          /\ host \in {"store", "check", "join"}

(***************************************************************************)
(* trajectory_thread_ is joined or empty wherever the RPC thread commands  *)
(* the controller.  The RPC thread finds the thread object it decided to   *)
(* join empty only when the host joined it first.                          *)
(***************************************************************************)
JoinInv ==
  /\ rpc \in {"finish", "command", "spawn"} => ~ joinable
  /\ ~ joinable => worker = NoWorker
  /\ rpc = "join" => joinable \/ host \in {"clear", "halt"}
  /\ NoWorkerAfterDestruction
  /\ NoThreadMisuse

(***************************************************************************)
(* The queue holds knots of one move.  A worker that still adds knots adds *)
(* them to its own move; between follow and the start of the worker that   *)
(* is the move whose id is handed out next.                                *)
(***************************************************************************)
QueueOf(move) == \A i \in DOMAIN queue : queue[i].move = move

QueueInv ==
  /\ SingleMoveQueue
  /\ worker.pc \in {"check", "add"} => QueueOf(worker.move)
  /\ rpc = "spawn" => QueueOf(next_action_id_)
  /\ cancelled => queue = <<>> /\ ~ joinable /\ rpc # "spawn"

ThreadsInv == LifecycleInv /\ JoinInv /\ QueueInv

\* Every step keeps LifecycleInv.
LEMMA LifecycleStep ==
  ASSUME LifecycleInv, [Next]_vars
  PROVE  LifecycleInv'
<1> USE DEF robotVars, hostVars, sharedVars, workerVars, loopVars,
            moveVars, clientVars, lineVars, ghostVars, rpcLocalVars,
            otherThanWorkerVars, otherThanStallVars
<1>1. CASE HostActivate
  BY <1>1 DEF LifecycleInv, ServerOutlivesRpcThread, HostActivate
<1>2. CASE HostDeactivate
  BY <1>2 DEF LifecycleInv, ServerOutlivesRpcThread, HostDeactivate, HostCall
<1>3. CASE HostDestroy
  BY <1>3 DEF LifecycleInv, ServerOutlivesRpcThread, HostDestroy, HostCall
<1>4. CASE HostDestruct
  BY <1>4 DEF LifecycleInv, ServerOutlivesRpcThread, HostDestruct, HostCall
<1>5. CASE HostStoreStop
  BY <1>5 DEF LifecycleInv, ServerOutlivesRpcThread, HostStoreStop
<1>6. CASE HostCheckJoinable
  BY <1>6 DEF LifecycleInv, ServerOutlivesRpcThread, HostCheckJoinable,
     AfterHostStop
<1>7. CASE HostJoin
  BY <1>7 DEF LifecycleInv, ServerOutlivesRpcThread, HostJoin, AfterHostStop
<1>8. CASE HostJoinMisuse
  BY <1>8 DEF LifecycleInv, ServerOutlivesRpcThread, HostJoinMisuse
<1>9. CASE HostClearRunning
  BY <1>9 DEF LifecycleInv, ServerOutlivesRpcThread, HostClearRunning
<1>10. CASE HostHalt
  BY <1>10 DEF LifecycleInv, ServerOutlivesRpcThread, HostHalt
<1>11. CASE RpcSpin
  BY <1>11 DEF LifecycleInv, ServerOutlivesRpcThread, RpcSpin
<1>12. CASE RpcExit
  BY <1>12 DEF LifecycleInv, ServerOutlivesRpcThread, RpcExit
<1>13. CASE RpcAccept
  BY <1>13 DEF LifecycleInv, ServerOutlivesRpcThread, RpcAccept
<1>14. CASE RpcPollFails
  BY <1>14 DEF LifecycleInv, ServerOutlivesRpcThread, RpcPollFails, ClientMayBeLost
<1>15. CASE AnswerStep
  BY <1>15 DEF LifecycleInv, ServerOutlivesRpcThread, AnswerStep, Answer, Receive,
     SendResponse, Send
<1>16. CASE EngageStep
  BY <1>16 DEF LifecycleInv, ServerOutlivesRpcThread, EngageStep, Engage, Receive
<1>17. CASE RpcStopWorker
  BY <1>17 DEF LifecycleInv, ServerOutlivesRpcThread, RpcStopWorker, AfterStop
<1>18. CASE RpcJoin
  BY <1>18 DEF LifecycleInv, ServerOutlivesRpcThread, RpcJoin, AfterStop
<1>19. CASE RpcJoinMisuse
  BY <1>19 DEF LifecycleInv, ServerOutlivesRpcThread, RpcJoinMisuse
<1>20. CASE RpcFinish
  BY <1>20 DEF LifecycleInv, ServerOutlivesRpcThread, RpcFinish, Send
<1>21. CASE RpcStartMove
  BY <1>21 DEF LifecycleInv, ServerOutlivesRpcThread, RpcStartMove, StartAction,
     FollowTarget, Follow, Target, SendResponse, BackToPolling, Send
<1>22. CASE RpcStartTrajectory
  BY <1>22 DEF LifecycleInv, ServerOutlivesRpcThread, RpcStartTrajectory,
     FollowTarget, Follow, Target
<1>23. CASE RpcSpawnWorker
  BY <1>23 DEF LifecycleInv, ServerOutlivesRpcThread, RpcSpawnWorker, StartAction,
     SendResponse, BackToPolling, Send
<1>24. CASE RpcMoveRejected
  BY <1>24 DEF LifecycleInv, ServerOutlivesRpcThread, RpcMoveRejected,
     SendResponse, BackToPolling, Send
<1>25. CASE RpcCancel
  BY <1>25 DEF LifecycleInv, ServerOutlivesRpcThread, RpcCancel, Terminate,
     SendResponse, BackToPolling, Send
<1>26. CASE RpcCancelRejected
  BY <1>26 DEF LifecycleInv, ServerOutlivesRpcThread, RpcCancelRejected,
     SendResponse, BackToPolling, Send
<1>27. CASE RpcUpdates
  BY <1>27 DEF LifecycleInv, ServerOutlivesRpcThread, RpcUpdates, ClientMayBeLost
<1>28. CASE RpcUpdatesSkipped
  BY <1>28 DEF LifecycleInv, ServerOutlivesRpcThread, RpcUpdatesSkipped
<1>29. CASE WorkerCheck
  BY <1>29 DEF LifecycleInv, ServerOutlivesRpcThread, WorkerCheck
<1>30. CASE WorkerAdd
  BY <1>30 DEF LifecycleInv, ServerOutlivesRpcThread, WorkerAdd, Add, Target
<1>31. CASE WorkerAddRejected
  BY <1>31 DEF LifecycleInv, ServerOutlivesRpcThread, WorkerAddRejected
<1>32. CASE RobotBegin /\ Robot
  BY <1>32 DEF LifecycleInv, ServerOutlivesRpcThread, RobotBegin, Robot
<1>33. CASE RobotReach /\ Robot
  BY <1>33 DEF LifecycleInv, ServerOutlivesRpcThread, RobotReach, Robot
<1>34. CASE RobotRest /\ Robot
  BY <1>34 DEF LifecycleInv, ServerOutlivesRpcThread, RobotRest, Robot
<1>35. CASE RobotFault /\ Robot
  BY <1>35 DEF LifecycleInv, ServerOutlivesRpcThread, RobotFault, Robot
<1>36. CASE RobotRecover /\ Robot
  BY <1>36 DEF LifecycleInv, ServerOutlivesRpcThread, RobotRecover, Robot
<1>37. CASE MinDurationElapses
  BY <1>37 DEF LifecycleInv, ServerOutlivesRpcThread, MinDurationElapses
<1>38. CASE UNCHANGED vars
  BY <1>38 DEF LifecycleInv, ServerOutlivesRpcThread, vars
<1>39. CASE RpcUnblocked
  BY <1>39 DEF LifecycleInv, ServerOutlivesRpcThread, RpcUnblocked, Send
<1>40. CASE ClientStalls
  BY <1>40 DEF LifecycleInv, ServerOutlivesRpcThread, ClientStalls
<1>41. CASE ClientResumes
  BY <1>41 DEF LifecycleInv, ServerOutlivesRpcThread, ClientResumes
<1> QED
  BY ProcessRequestSteps, <1>1, <1>2, <1>3, <1>4, <1>5, <1>6, <1>7, <1>8, <1>9,
     <1>10, <1>11, <1>12, <1>13, <1>14, <1>15, <1>16, <1>17, <1>18, <1>19, <1>20,
     <1>21, <1>22, <1>23, <1>24, <1>25, <1>26, <1>27, <1>28, <1>29, <1>30, <1>31,
     <1>32, <1>33, <1>34, <1>35, <1>36, <1>37, <1>38, <1>39, <1>40, <1>41 DEF Next,
     HostThread, HostProgress, RpcThread, RpcStep, WorkerThread, Robot, RobotMoves,
     Client

\* Every step keeps JoinInv.
LEMMA JoinStep ==
  ASSUME SwitchesOK, ControlOK, LifecycleInv, JoinInv, [Next]_vars
  PROVE  JoinInv'
<1> USE DEF robotVars, hostVars, sharedVars, workerVars, loopVars,
            moveVars, clientVars, lineVars, ghostVars, rpcLocalVars,
            otherThanWorkerVars, otherThanStallVars
<1>0. UNCHANGED vars \/ ~ crashed
  BY DEF Next
<1>1. CASE HostActivate
  BY <1>1 DEF LifecycleInv, ServerOutlivesRpcThread, JoinInv,
     NoWorkerAfterDestruction, NoThreadMisuse, HostActivate
<1>2. CASE HostDeactivate
  BY <1>2 DEF LifecycleInv, ServerOutlivesRpcThread, JoinInv,
     NoWorkerAfterDestruction, NoThreadMisuse, HostDeactivate, HostCall
<1>3. CASE HostDestroy
  BY <1>3 DEF LifecycleInv, ServerOutlivesRpcThread, JoinInv,
     NoWorkerAfterDestruction, NoThreadMisuse, HostDestroy, HostCall
<1>4. CASE HostDestruct
  BY <1>4 DEF LifecycleInv, ServerOutlivesRpcThread, JoinInv,
     NoWorkerAfterDestruction, NoThreadMisuse, HostDestruct, HostCall
<1>5. CASE HostStoreStop
  BY <1>5 DEF LifecycleInv, ServerOutlivesRpcThread, JoinInv,
     NoWorkerAfterDestruction, NoThreadMisuse, HostStoreStop
<1>6. CASE HostCheckJoinable
  BY <1>6 DEF LifecycleInv, ServerOutlivesRpcThread, JoinInv,
     NoWorkerAfterDestruction, NoThreadMisuse, HostCheckJoinable, AfterHostStop
<1>7. CASE HostJoin
  <2>1. ~ joinable' /\ worker' = NoWorker /\ ~ crashed'
    BY <1>0, <1>7 DEF HostJoin, NoWorker, vars
  <2>2. UNCHANGED rpc /\ host' \in {"gone", "clear"}
    BY <1>7, SMT DEF HostJoin, AfterHostStop
  <2>3. rpc = "join" => host' = "clear"
    BY <1>7, SMT DEF HostJoin, AfterHostStop, LifecycleInv
  <2> QED
    BY <2>1, <2>2, <2>3 DEF JoinInv, NoWorkerAfterDestruction, NoThreadMisuse
<1>8. CASE HostJoinMisuse
  BY <1>8 DEF LifecycleInv, ServerOutlivesRpcThread, JoinInv,
     NoWorkerAfterDestruction, NoThreadMisuse, HostJoinMisuse
<1>9. CASE HostClearRunning
  BY <1>9 DEF LifecycleInv, ServerOutlivesRpcThread, JoinInv,
     NoWorkerAfterDestruction, NoThreadMisuse, HostClearRunning
<1>10. CASE HostHalt
  <2>1. host = "halt" /\ rpc' = "none" /\ host' \in {"destroyed", "inactive"}
    BY <1>10, SMT DEF HostHalt
  <2>2. ~ crashed
    BY <1>0, <2>1 DEF vars
  <2>3. UNCHANGED <<joinable, worker, crashed>>
    BY <1>10, SMT DEF HostHalt
  <2> QED
    BY <2>1, <2>2, <2>3 DEF JoinInv, NoWorkerAfterDestruction, NoThreadMisuse
<1>11. CASE RpcSpin
  BY <1>11 DEF LifecycleInv, ServerOutlivesRpcThread, JoinInv,
     NoWorkerAfterDestruction, NoThreadMisuse, RpcSpin
<1>12. CASE RpcExit
  BY <1>12 DEF LifecycleInv, ServerOutlivesRpcThread, JoinInv,
     NoWorkerAfterDestruction, NoThreadMisuse, RpcExit
<1>13. CASE RpcAccept
  BY <1>13 DEF LifecycleInv, ServerOutlivesRpcThread, JoinInv,
     NoWorkerAfterDestruction, NoThreadMisuse, RpcAccept
<1>14. CASE RpcPollFails
  BY <1>14 DEF LifecycleInv, ServerOutlivesRpcThread, JoinInv,
     NoWorkerAfterDestruction, NoThreadMisuse, RpcPollFails
<1>15. CASE AnswerStep
  BY <1>15 DEF LifecycleInv, ServerOutlivesRpcThread, JoinInv,
     NoWorkerAfterDestruction, NoThreadMisuse, AnswerStep, Answer, Receive,
     SendResponse
<1>16. CASE EngageStep
  BY <1>16 DEF LifecycleInv, ServerOutlivesRpcThread, JoinInv,
     NoWorkerAfterDestruction, NoThreadMisuse, EngageStep, Engage, Receive
<1>17. CASE RpcStopWorker
  BY <1>17 DEF LifecycleInv, ServerOutlivesRpcThread, JoinInv,
     NoWorkerAfterDestruction, NoThreadMisuse, RpcStopWorker, AfterStop
<1>18. CASE RpcJoin
  BY <1>18 DEF LifecycleInv, ServerOutlivesRpcThread, JoinInv,
     NoWorkerAfterDestruction, NoThreadMisuse, RpcJoin, AfterStop
<1>19. CASE RpcJoinMisuse
  BY <1>19 DEF LifecycleInv, ServerOutlivesRpcThread, JoinInv,
     NoWorkerAfterDestruction, NoThreadMisuse, RpcJoinMisuse
<1>20. CASE RpcFinish
  BY <1>20 DEF LifecycleInv, ServerOutlivesRpcThread, JoinInv,
     NoWorkerAfterDestruction, NoThreadMisuse, RpcFinish
<1>21. CASE RpcStartMove
  BY <1>21 DEF LifecycleInv, ServerOutlivesRpcThread, JoinInv,
     NoWorkerAfterDestruction, NoThreadMisuse, RpcStartMove, StartAction,
     FollowTarget, Follow, Target, SendResponse, BackToPolling
<1>22. CASE RpcStartTrajectory
  BY <1>22 DEF LifecycleInv, ServerOutlivesRpcThread, JoinInv,
     NoWorkerAfterDestruction, NoThreadMisuse, RpcStartTrajectory, FollowTarget,
     Follow, Target
<1>23. CASE RpcSpawnWorker
  BY <1>23 DEF LifecycleInv, ServerOutlivesRpcThread, JoinInv,
     NoWorkerAfterDestruction, NoThreadMisuse, RpcSpawnWorker, StartAction,
     SendResponse, BackToPolling
<1>24. CASE RpcMoveRejected
  BY <1>24 DEF LifecycleInv, ServerOutlivesRpcThread, JoinInv,
     NoWorkerAfterDestruction, NoThreadMisuse, RpcMoveRejected, SendResponse,
     BackToPolling
<1>25. CASE RpcCancel
  BY <1>25 DEF LifecycleInv, ServerOutlivesRpcThread, JoinInv,
     NoWorkerAfterDestruction, NoThreadMisuse, RpcCancel, Terminate, SendResponse,
     BackToPolling
<1>26. CASE RpcCancelRejected
  BY <1>26 DEF LifecycleInv, ServerOutlivesRpcThread, JoinInv,
     NoWorkerAfterDestruction, NoThreadMisuse, RpcCancelRejected, SendResponse,
     BackToPolling
<1>27. CASE RpcUpdates
  BY <1>27 DEF LifecycleInv, ServerOutlivesRpcThread, JoinInv,
     NoWorkerAfterDestruction, NoThreadMisuse, RpcUpdates
<1>28. CASE RpcUpdatesSkipped
  BY <1>28 DEF LifecycleInv, ServerOutlivesRpcThread, JoinInv,
     NoWorkerAfterDestruction, NoThreadMisuse, RpcUpdatesSkipped
<1>29. CASE WorkerCheck
  <2>1. joinable
    BY <1>29 DEF JoinInv, NoWorker, WorkerCheck
  <2>2. UNCHANGED <<rpc, host, joinable, crashed>>
    BY <1>29, SMT DEF WorkerCheck
  <2> QED
    BY <1>29, <2>1, <2>2 DEF JoinInv, NoWorkerAfterDestruction, NoThreadMisuse,
       LifecycleInv, ServerOutlivesRpcThread, NoWorker, WorkerCheck
<1>30. CASE WorkerAdd
  <2>1. joinable
    BY <1>30 DEF JoinInv, NoWorker, WorkerAdd
  <2>2. UNCHANGED <<rpc, host, joinable, crashed>>
    BY <1>30, SMT DEF WorkerAdd, Add, Target
  <2> QED
    BY <1>30, <2>1, <2>2 DEF JoinInv, NoWorkerAfterDestruction, NoThreadMisuse,
       LifecycleInv, ServerOutlivesRpcThread, NoWorker, WorkerAdd
<1>31. CASE WorkerAddRejected
  <2>1. joinable
    BY <1>31 DEF JoinInv, NoWorker, WorkerAddRejected
  <2>2. UNCHANGED <<rpc, host, joinable, crashed>>
    BY <1>31, SMT DEF WorkerAddRejected
  <2> QED
    BY <1>31, <2>1, <2>2 DEF JoinInv, NoWorkerAfterDestruction, NoThreadMisuse,
       LifecycleInv, ServerOutlivesRpcThread, NoWorker, WorkerAddRejected
<1>32. CASE RobotBegin /\ Robot
  BY <1>32 DEF LifecycleInv, ServerOutlivesRpcThread, JoinInv,
     NoWorkerAfterDestruction, NoThreadMisuse, RobotBegin, Robot
<1>33. CASE RobotReach /\ Robot
  BY <1>33 DEF LifecycleInv, ServerOutlivesRpcThread, JoinInv,
     NoWorkerAfterDestruction, NoThreadMisuse, RobotReach, Robot
<1>34. CASE RobotRest /\ Robot
  BY <1>34 DEF LifecycleInv, ServerOutlivesRpcThread, JoinInv,
     NoWorkerAfterDestruction, NoThreadMisuse, RobotRest, Robot
<1>35. CASE RobotFault /\ Robot
  BY <1>35 DEF LifecycleInv, ServerOutlivesRpcThread, JoinInv,
     NoWorkerAfterDestruction, NoThreadMisuse, RobotFault, Robot
<1>36. CASE RobotRecover /\ Robot
  BY <1>36 DEF LifecycleInv, ServerOutlivesRpcThread, JoinInv,
     NoWorkerAfterDestruction, NoThreadMisuse, RobotRecover, Robot
<1>37. CASE MinDurationElapses
  BY <1>37 DEF LifecycleInv, ServerOutlivesRpcThread, JoinInv,
     NoWorkerAfterDestruction, NoThreadMisuse, MinDurationElapses
<1>38. CASE UNCHANGED vars
  BY <1>38 DEF LifecycleInv, ServerOutlivesRpcThread, JoinInv,
     NoWorkerAfterDestruction, NoThreadMisuse, vars
<1>39. CASE RpcUnblocked
  BY <1>39 DEF LifecycleInv, ServerOutlivesRpcThread, JoinInv,
     NoWorkerAfterDestruction, NoThreadMisuse, RpcUnblocked
<1>40. CASE ClientStalls
  BY <1>40 DEF LifecycleInv, ServerOutlivesRpcThread, JoinInv,
     NoWorkerAfterDestruction, NoThreadMisuse, ClientStalls
<1>41. CASE ClientResumes
  BY <1>41 DEF LifecycleInv, ServerOutlivesRpcThread, JoinInv,
     NoWorkerAfterDestruction, NoThreadMisuse, ClientResumes
<1> QED
  BY ProcessRequestSteps, <1>1, <1>2, <1>3, <1>4, <1>5, <1>6, <1>7, <1>8, <1>9,
     <1>10, <1>11, <1>12, <1>13, <1>14, <1>15, <1>16, <1>17, <1>18, <1>19, <1>20,
     <1>21, <1>22, <1>23, <1>24, <1>25, <1>26, <1>27, <1>28, <1>29, <1>30, <1>31,
     <1>32, <1>33, <1>34, <1>35, <1>36, <1>37, <1>38, <1>39, <1>40, <1>41 DEF Next,
     HostThread, HostProgress, RpcThread, RpcStep, WorkerThread, Robot, RobotMoves,
     Client

\* Every step keeps QueueInv.
LEMMA QueueStep ==
  ASSUME ControlOK, MessagesOK, JoinInv, QueueInv, [Next]_vars
  PROVE  QueueInv'
<1> USE DEF robotVars, hostVars, sharedVars, workerVars, loopVars,
            moveVars, clientVars, lineVars, ghostVars, rpcLocalVars,
            otherThanWorkerVars, otherThanStallVars
<1>1. CASE HostActivate
  BY <1>1 DEF JoinInv, QueueInv, QueueOf, SingleMoveQueue, NoWorker, HostActivate
<1>2. CASE HostDeactivate
  BY <1>2 DEF JoinInv, QueueInv, QueueOf, SingleMoveQueue, NoWorker,
     HostDeactivate, HostCall
<1>3. CASE HostDestroy
  BY <1>3 DEF JoinInv, QueueInv, QueueOf, SingleMoveQueue, NoWorker, HostDestroy,
     HostCall
<1>4. CASE HostDestruct
  BY <1>4 DEF JoinInv, QueueInv, QueueOf, SingleMoveQueue, NoWorker, HostDestruct,
     HostCall
<1>5. CASE HostStoreStop
  BY <1>5 DEF JoinInv, QueueInv, QueueOf, SingleMoveQueue, NoWorker, HostStoreStop
<1>6. CASE HostCheckJoinable
  BY <1>6 DEF JoinInv, QueueInv, QueueOf, SingleMoveQueue, NoWorker,
     HostCheckJoinable, AfterHostStop
<1>7. CASE HostJoin
  BY <1>7 DEF JoinInv, QueueInv, QueueOf, SingleMoveQueue, NoWorker, HostJoin,
     AfterHostStop
<1>8. CASE HostJoinMisuse
  BY <1>8 DEF JoinInv, QueueInv, QueueOf, SingleMoveQueue, NoWorker, HostJoinMisuse
<1>9. CASE HostClearRunning
  BY <1>9 DEF JoinInv, QueueInv, QueueOf, SingleMoveQueue, NoWorker,
     HostClearRunning
<1>10. CASE HostHalt
  BY <1>10 DEF JoinInv, QueueInv, QueueOf, SingleMoveQueue, NoWorker, HostHalt
<1>11. CASE RpcSpin
  BY <1>11 DEF JoinInv, QueueInv, QueueOf, SingleMoveQueue, NoWorker, RpcSpin
<1>12. CASE RpcExit
  BY <1>12 DEF JoinInv, QueueInv, QueueOf, SingleMoveQueue, NoWorker, RpcExit
<1>13. CASE RpcAccept
  BY <1>13 DEF JoinInv, QueueInv, QueueOf, SingleMoveQueue, NoWorker, RpcAccept
<1>14. CASE RpcPollFails
  BY <1>14 DEF JoinInv, QueueInv, QueueOf, SingleMoveQueue, NoWorker, RpcPollFails
<1>15. CASE AnswerStep
  BY <1>15 DEF JoinInv, QueueInv, QueueOf, SingleMoveQueue, NoWorker, AnswerStep,
     Answer, Receive, SendResponse
<1>16. CASE EngageStep
  BY <1>16 DEF JoinInv, QueueInv, QueueOf, SingleMoveQueue, NoWorker, EngageStep,
     Engage, Receive
<1>17. CASE RpcStopWorker
  BY <1>17 DEF JoinInv, QueueInv, QueueOf, SingleMoveQueue, NoWorker,
     RpcStopWorker, AfterStop
<1>18. CASE RpcJoin
  BY <1>18 DEF JoinInv, QueueInv, QueueOf, SingleMoveQueue, NoWorker, RpcJoin,
     AfterStop
<1>19. CASE RpcJoinMisuse
  BY <1>19 DEF JoinInv, QueueInv, QueueOf, SingleMoveQueue, NoWorker, RpcJoinMisuse
<1>20. CASE RpcFinish
  BY <1>20 DEF JoinInv, QueueInv, QueueOf, SingleMoveQueue, NoWorker, RpcFinish
<1>21. CASE RpcStartMove
  BY <1>21 DEF JoinInv, QueueInv, QueueOf, SingleMoveQueue, NoWorker, RpcStartMove,
     StartAction, FollowTarget, Follow, Target, SendResponse, BackToPolling
<1>22. CASE RpcStartTrajectory
  BY <1>22 DEF JoinInv, QueueInv, QueueOf, SingleMoveQueue, NoWorker,
     RpcStartTrajectory, FollowTarget, Follow, Target
<1>23. CASE RpcSpawnWorker
  BY <1>23 DEF JoinInv, QueueInv, QueueOf, SingleMoveQueue, NoWorker,
     RpcSpawnWorker, StartAction, SendResponse, BackToPolling
<1>24. CASE RpcMoveRejected
  BY <1>24 DEF JoinInv, QueueInv, QueueOf, SingleMoveQueue, NoWorker,
     RpcMoveRejected, SendResponse, BackToPolling
<1>25. CASE RpcCancel
  BY <1>25 DEF JoinInv, QueueInv, QueueOf, SingleMoveQueue, NoWorker, RpcCancel,
     Terminate, SendResponse, BackToPolling
<1>26. CASE RpcCancelRejected
  BY <1>26 DEF JoinInv, QueueInv, QueueOf, SingleMoveQueue, NoWorker,
     RpcCancelRejected, SendResponse, BackToPolling
<1>27. CASE RpcUpdates
  BY <1>27 DEF JoinInv, QueueInv, QueueOf, SingleMoveQueue, NoWorker, RpcUpdates
<1>28. CASE RpcUpdatesSkipped
  BY <1>28 DEF JoinInv, QueueInv, QueueOf, SingleMoveQueue, NoWorker,
     RpcUpdatesSkipped
<1>29. CASE WorkerCheck
  <2>1. worker.pc = "check" /\ worker'.move = worker.move
    BY <1>29 DEF ControlOK, WorkerCheck
  <2>2. UNCHANGED <<rpc, joinable, queue, cancelled, next_action_id_>>
    BY <1>29, SMT DEF WorkerCheck
  <2>3. joinable
    BY <2>1 DEF JoinInv, NoWorker
  <2> QED
    BY <2>1, <2>2, <2>3 DEF QueueInv, QueueOf, SingleMoveQueue
<1>30. CASE WorkerAdd
  <2> DEFINE target == Target(worker.move, worker.knot + 1 = worker.count)
  <2>1. worker.pc = "add" /\ worker'.move = worker.move
    BY <1>30 DEF ControlOK, WorkerAdd
  <2>2. queue' = Append(queue, target) /\ target.move = worker.move
    BY <1>30 DEF WorkerAdd, Add, Target
  <2>3. UNCHANGED <<rpc, joinable, cancelled, next_action_id_>>
    BY <1>30, SMT DEF WorkerAdd, Add
  <2>4. joinable /\ QueueOf(worker.move)
    BY <2>1 DEF JoinInv, QueueInv, NoWorker
  <2> HIDE DEF target
  <2>5. QueueOf(worker.move)'
    BY <2>1, <2>2, <2>4 DEF ControlOK, QueueOf
  <2>6. rpc # "spawn"
    BY <2>4 DEF JoinInv
  <2> QED
    BY <2>1, <2>3, <2>4, <2>5, <2>6 DEF QueueInv, QueueOf, SingleMoveQueue
<1>31. CASE WorkerAddRejected
  BY <1>31 DEF JoinInv, QueueInv, QueueOf, SingleMoveQueue, NoWorker,
     WorkerAddRejected
<1>32. CASE RobotBegin /\ Robot
  BY <1>32 DEF JoinInv, QueueInv, QueueOf, SingleMoveQueue, NoWorker, RobotBegin,
     Robot
<1>33. CASE RobotReach /\ Robot
  <2>1. queue' = Tail(queue) /\ queue # <<>>
    BY <1>33 DEF RobotReach
  <2>2. UNCHANGED <<rpc, joinable, worker, crashed, next_action_id_,
                   trajectory_stop_requested_, current_move_action_id_, task, host,
                   cancelled>>
    BY <1>33 DEF Robot
  <2>3. JoinInv'
    BY <2>2 DEF JoinInv, NoThreadMisuse, NoWorkerAfterDestruction
  <2>4. \A i \in DOMAIN queue' : i + 1 \in DOMAIN queue /\ queue'[i] = queue[i + 1]
    BY <2>1 DEF ControlOK
  <2>5. SingleMoveQueue'
    BY <2>4, SMT DEF QueueInv, SingleMoveQueue
  <2>6. \A move : QueueOf(move) => QueueOf(move)'
    BY <2>4, SMT DEF QueueOf
  <2> QED
    BY <2>1, <2>2, <2>3, <2>5, <2>6 DEF QueueInv
<1>34. CASE RobotRest /\ Robot
  BY <1>34 DEF JoinInv, QueueInv, QueueOf, SingleMoveQueue, NoWorker, RobotRest,
     Robot
<1>35. CASE RobotFault /\ Robot
  BY <1>35 DEF JoinInv, QueueInv, QueueOf, SingleMoveQueue, NoWorker, RobotFault,
     Robot
<1>36. CASE RobotRecover /\ Robot
  BY <1>36 DEF JoinInv, QueueInv, QueueOf, SingleMoveQueue, NoWorker, RobotRecover,
     Robot
<1>37. CASE MinDurationElapses
  BY <1>37 DEF JoinInv, QueueInv, QueueOf, SingleMoveQueue, NoWorker,
     MinDurationElapses
<1>38. CASE UNCHANGED vars
  BY <1>38 DEF JoinInv, QueueInv, QueueOf, SingleMoveQueue, NoWorker, vars
<1>39. CASE RpcUnblocked
  BY <1>39 DEF JoinInv, QueueInv, QueueOf, SingleMoveQueue, NoWorker, RpcUnblocked
<1>40. CASE ClientStalls
  BY <1>40 DEF JoinInv, QueueInv, QueueOf, SingleMoveQueue, NoWorker, ClientStalls
<1>41. CASE ClientResumes
  BY <1>41 DEF JoinInv, QueueInv, QueueOf, SingleMoveQueue, NoWorker, ClientResumes
<1> QED
  BY ProcessRequestSteps, <1>1, <1>2, <1>3, <1>4, <1>5, <1>6, <1>7, <1>8, <1>9,
     <1>10, <1>11, <1>12, <1>13, <1>14, <1>15, <1>16, <1>17, <1>18, <1>19, <1>20,
     <1>21, <1>22, <1>23, <1>24, <1>25, <1>26, <1>27, <1>28, <1>29, <1>30, <1>31,
     <1>32, <1>33, <1>34, <1>35, <1>36, <1>37, <1>38, <1>39, <1>40, <1>41 DEF Next,
     HostThread, HostProgress, RpcThread, RpcStep, WorkerThread, Robot, RobotMoves,
     Client

\* The three parts together are inductive.
LEMMA ThreadsInvInductive == TypeOK /\ ThreadsInv /\ [Next]_vars => ThreadsInv'
<1> SUFFICES ASSUME TypeOK, ThreadsInv, [Next]_vars
             PROVE  LifecycleInv' /\ JoinInv' /\ QueueInv'
  BY DEF ThreadsInv
<1>1. SwitchesOK /\ ControlOK /\ MessagesOK
  BY TypeParts
<1> QED
  BY <1>1, LifecycleStep, JoinStep, QueueStep DEF ThreadsInv

\* The threads keep to their places: the invariant the theorems below follow from.
THEOREM ThreadsInPlace == Spec => []ThreadsInv
<1>1. Init => ThreadsInv
  BY DEF Init, RobotInit, ThreadsInv, LifecycleInv, ServerOutlivesRpcThread, JoinInv,
     NoWorkerAfterDestruction, NoThreadMisuse, QueueInv, QueueOf, SingleMoveQueue,
     NoWorker
<1> QED
  BY <1>1, TypeCorrect, ThreadsInvInductive, PTL DEF Spec

\* rpc_server_ exists for as long as the RPC thread dereferences it, and no client
\* is served after it.
THEOREM ServerOutlives == Spec => []ServerOutlivesRpcThread
<1>1. ThreadsInv => ServerOutlivesRpcThread
  BY DEF ThreadsInv, LifecycleInv
<1> QED
  BY <1>1, ThreadsInPlace, PTL

\* When the destructor has returned, no trajectory worker is left that could use
\* the object it captured.
THEOREM DestructorLeavesNoWorker == Spec => []NoWorkerAfterDestruction
<1>1. ThreadsInv => NoWorkerAfterDestruction
  BY DEF ThreadsInv, JoinInv
<1> QED
  BY <1>1, ThreadsInPlace, PTL

\* A std::thread is misused only while the host is inside a call that stops the
\* worker; the RPC thread on its own never assigns to a running worker and never
\* joins an empty one.
THEOREM ThreadObjectUse == Spec => []NoThreadMisuse
<1>1. ThreadsInv => NoThreadMisuse
  BY DEF ThreadsInv, JoinInv
<1> QED
  BY <1>1, ThreadsInPlace, PTL

\* The controller never holds knots of two moves: the worker of a trajectory has
\* ended before follow replaces the queue.
THEOREM OneMoveInQueue == Spec => []SingleMoveQueue
<1>1. ThreadsInv => SingleMoveQueue
  BY DEF ThreadsInv, QueueInv
<1> QED
  BY <1>1, ThreadsInPlace, PTL

\* After an accepted terminate the controller gets no knot until the next move: the
\* worker of the cancelled trajectory was joined before.
THEOREM CancelIsLasting == Spec => []CancelledMoveStays
<1>1. ThreadsInv => CancelledMoveStays
  BY DEF ThreadsInv, QueueInv, CancelledMoveStays
<1> QED
  BY <1>1, ThreadsInPlace, PTL
=============================================================================
