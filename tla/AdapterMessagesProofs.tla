----------------------- MODULE AdapterMessagesProofs -----------------------
(***************************************************************************)
(* Proofs about the messages AergoAdapter sends: what a client is told     *)
(* first, what the answer to a cancel means, and what the blobs hold.      *)
(***************************************************************************)
EXTENDS AergoAdapterProofs

USE DEF NoAction

(***************************************************************************)
(* What the RPC thread carries from the request to the point where it      *)
(* sends.  A cancel keeps the buffer that was cleared for it.              *)
(***************************************************************************)
TaskInv ==
  /\ rpc \in {"stop", "join", "finish"} => task.why # "none"
  /\ rpc = "finish" => task.why # "cancel"
  /\ rpc \in {"stop", "join", "command"} /\ task.why = "cancel" =>
       /\ response_blob_buffer_ = "empty"
       /\ task.req.req_type = "UPDATE_ACTION"

\* What BlobContract says of one frame.
CleanBlob(f) ==
  IF f.kind = "FINISHED"
  THEN /\ f.success <=> f.blob = "empty"
       /\ f.blob \in {"empty", "interrupted", "fault"}
  ELSE /\ f.resp_type \in {"FEATURE_NOT_SUPPORTED", "NOT_IN_PROGRESS",
                           "DATA_INVALID"} => f.blob = "empty"
       /\ f.resp_type = "FAILURE" => f.blob = "error"
       /\ f.resp_type = "SUCCESS" =>
            f.blob = IF f.req_type = "START_ACTION" THEN "specs" ELSE "empty"

\* The answer that a move was started.
Accepts(f, id) ==
  f.kind = "RESPONSE" /\ f.resp_type = "SUCCESS_IN_PROGRESS" /\ f.action_id = id

(***************************************************************************)
(* A client on the connection of the current action has its id, or the     *)
(* answer with it is the one that waits in send.                           *)
(***************************************************************************)
AnsweredInv ==
  /\ origin <= session
  /\ current_move_action_id_ # NoAction /\ connected /\ session = origin =>
       \/ \E j \in DOMAIN sent :
            Accepts(sent[j], current_move_action_id_) /\ sent[j].session = origin
       \/ /\ unsent # <<>>
          /\ Accepts(unsent[1], current_move_action_id_)
          /\ unsent[1].session = origin

(***************************************************************************)
(* The response that waits in send keeps the promises of those delivered:  *)
(* its blob is clean, an id in it was handed out, and NOT_IN_PROGRESS is   *)
(* not about the current action.                                           *)
(***************************************************************************)
PendingInv ==
  \A i \in DOMAIN unsent :
    /\ CleanBlob(unsent[i])
    /\ unsent[i].resp_type = "SUCCESS_IN_PROGRESS" =>
         unsent[i].action_id \in 1..(next_action_id_ - 1)
    /\ unsent[i].resp_type = "NOT_IN_PROGRESS" =>
         current_move_action_id_ = NoAction \/ current_move_action_id_ # unsent[i].action_id

\* Only ids that were handed out are in an answer that a move was started.
HandedOutInv ==
  \A i \in DOMAIN sent :
    sent[i].kind = "RESPONSE" /\ sent[i].resp_type = "SUCCESS_IN_PROGRESS" =>
      sent[i].action_id \in 1..(next_action_id_ - 1)

MessagesInv ==
  /\ AnsweredInv
  /\ PendingInv
  /\ HandedOutInv
  /\ AnswerBeforeFinish
  /\ BlobContract
  /\ NotInProgressIsFinal

(***************************************************************************)
(* The handlers, with what they put into their answers.                    *)
(***************************************************************************)
AnswerContent ==
  \E r \in Requests, id \in Nat, blob \in {"empty", "specs", "error"},
     type \in ResponseTypes \ {"SUCCESS_IN_PROGRESS"} :
    /\ Answer(r, type, id, blob)
    /\ CleanBlob(Response(r, type, id, blob))
    /\ type = "NOT_IN_PROGRESS" =>
         current_move_action_id_ = NoAction \/ current_move_action_id_ # id

EngageContent ==
  \E r \in Requests, why \in {"start", "cancel"} :
    /\ Engage(r, why)
    /\ why = "cancel" => r.req_type = "UPDATE_ACTION"

\* A handler answers at once and keeps the blob contract, or goes on to stop the
\* worker; only a request to update an action gets a cancel under way.
LEMMA ProcessRequestContent == ProcessRequest => AnswerContent \/ EngageContent
<1> SUFFICES ASSUME ProcessRequest PROVE AnswerContent \/ EngageContent
  OBVIOUS
<1> USE RequestsAssumption DEF ResponseTypes
<1>1. PICK r \in Requests :
        \/ AnswerUnsupported(r) \/ AnswerMalformed(r) \/ AnswerSpecs(r) \/ RefuseMove(r)
        \/ RefuseUpdate(r) \/ AnswerNotInProgress(r) \/ EngageMove(r) \/ EngageCancel(r)
  BY DEF ProcessRequest
<1>2. r.action_id \in Nat /\ 0 \in Nat
  BY DEF Request
<1>3. CASE AnswerUnsupported(r)
  <2>1. CleanBlob(Response(r, "FEATURE_NOT_SUPPORTED", r.action_id, "empty"))
    BY DEF CleanBlob, Response
  <2> QED
    BY <1>2, <1>3, <2>1 DEF AnswerUnsupported, AnswerContent
<1>4. CASE AnswerMalformed(r)
  <2>1. CleanBlob(Response(r, "DATA_INVALID", r.action_id, "empty"))
    BY DEF CleanBlob, Response
  <2> QED
    BY <1>2, <1>4, <2>1 DEF AnswerMalformed, AnswerContent
<1>5. CASE AnswerSpecs(r)
  <2>1. CleanBlob(Response(r, "SUCCESS", 0, "specs"))
    BY <1>5 DEF CleanBlob, Response, AnswerSpecs
  <2> QED
    BY <1>2, <1>5, <2>1 DEF AnswerSpecs, AnswerContent
<1>6. CASE RefuseMove(r) \/ RefuseUpdate(r)
  <2>1. CleanBlob(Response(r, "FAILURE", 0, "error"))
    BY DEF CleanBlob, Response
  <2> QED
    BY <1>2, <1>6, <2>1 DEF RefuseMove, RefuseUpdate, AnswerContent
<1>7. CASE AnswerNotInProgress(r)
  <2>1. CleanBlob(Response(r, "NOT_IN_PROGRESS", r.action_id, "empty"))
    BY DEF CleanBlob, Response
  <2> QED
    BY <1>2, <1>7, <2>1 DEF AnswerNotInProgress, AnswerContent
<1>8. CASE EngageMove(r)
  BY <1>8 DEF EngageMove, EngageContent
<1>9. CASE EngageCancel(r)
  BY <1>9 DEF EngageCancel, IsUpdate, EngageContent
<1> QED
  BY <1>1, <1>3, <1>4, <1>5, <1>6, <1>7, <1>8, <1>9

\* Every step keeps TaskInv.
LEMMA TaskStep ==
  ASSUME ControlOK, TaskInv, [Next]_vars
  PROVE  TaskInv'
<1> USE DEF robotVars, hostVars, sharedVars, workerVars, loopVars,
            moveVars, clientVars, lineVars, ghostVars, rpcLocalVars,
            otherThanWorkerVars, otherThanStallVars
<1>1. CASE HostActivate
  BY <1>1 DEF TaskInv, HostActivate
<1>2. CASE HostDeactivate
  BY <1>2 DEF TaskInv, HostDeactivate, HostCall
<1>3. CASE HostDestroy
  BY <1>3 DEF TaskInv, HostDestroy, HostCall
<1>4. CASE HostDestruct
  BY <1>4 DEF TaskInv, HostDestruct, HostCall
<1>5. CASE HostStoreStop
  BY <1>5 DEF TaskInv, HostStoreStop
<1>6. CASE HostCheckJoinable
  BY <1>6 DEF TaskInv, HostCheckJoinable, AfterHostStop
<1>7. CASE HostJoin
  BY <1>7 DEF TaskInv, HostJoin, AfterHostStop
<1>8. CASE HostJoinMisuse
  BY <1>8 DEF TaskInv, HostJoinMisuse
<1>9. CASE HostClearRunning
  BY <1>9 DEF TaskInv, HostClearRunning
<1>10. CASE HostHalt
  BY <1>10 DEF TaskInv, HostHalt
<1>11. CASE RpcSpin
  BY <1>11 DEF TaskInv, RpcSpin
<1>12. CASE RpcExit
  BY <1>12 DEF TaskInv, RpcExit
<1>13. CASE RpcAccept
  BY <1>13 DEF TaskInv, RpcAccept
<1>14. CASE RpcPollFails
  BY <1>14 DEF TaskInv, RpcPollFails
<1>15. CASE AnswerContent
  BY <1>15 DEF TaskInv, AnswerContent, Answer, Receive, SendResponse
<1>16. CASE EngageContent
  BY <1>16 DEF TaskInv, EngageContent, Engage, Receive, Task
<1>17. CASE RpcStopWorker
  BY <1>17 DEF TaskInv, RpcStopWorker, AfterStop
<1>18. CASE RpcJoin
  BY <1>18 DEF TaskInv, RpcJoin, AfterStop
<1>19. CASE RpcJoinMisuse
  BY <1>19 DEF TaskInv, RpcJoinMisuse
<1>20. CASE RpcFinish
  BY <1>20 DEF TaskInv, RpcFinish, NoTask, Task
<1>21. CASE RpcStartMove
  BY <1>21 DEF TaskInv, RpcStartMove, StartAction, FollowTarget, Follow, Target,
     SendResponse, BackToPolling
<1>22. CASE RpcStartTrajectory
  BY <1>22 DEF TaskInv, RpcStartTrajectory, FollowTarget, Follow, Target
<1>23. CASE RpcSpawnWorker
  BY <1>23 DEF TaskInv, RpcSpawnWorker, StartAction, SendResponse, BackToPolling
<1>24. CASE RpcMoveRejected
  BY <1>24 DEF TaskInv, RpcMoveRejected, SendResponse, BackToPolling
<1>25. CASE RpcCancel
  BY <1>25 DEF TaskInv, RpcCancel, Terminate, SendResponse, BackToPolling
<1>26. CASE RpcCancelRejected
  BY <1>26 DEF TaskInv, RpcCancelRejected, SendResponse, BackToPolling
<1>27. CASE RpcUpdates
  BY <1>27 DEF TaskInv, RpcUpdates, Task, DueReason, NoRequest
<1>28. CASE RpcUpdatesSkipped
  BY <1>28 DEF TaskInv, RpcUpdatesSkipped
<1>29. CASE WorkerCheck
  BY <1>29 DEF TaskInv, WorkerCheck
<1>30. CASE WorkerAdd
  BY <1>30 DEF TaskInv, WorkerAdd, Add, Target
<1>31. CASE WorkerAddRejected
  BY <1>31 DEF TaskInv, WorkerAddRejected
<1>32. CASE RobotBegin /\ Robot
  BY <1>32 DEF TaskInv, RobotBegin, Robot
<1>33. CASE RobotReach /\ Robot
  BY <1>33 DEF TaskInv, RobotReach, Robot
<1>34. CASE RobotRest /\ Robot
  BY <1>34 DEF TaskInv, RobotRest, Robot
<1>35. CASE RobotFault /\ Robot
  BY <1>35 DEF TaskInv, RobotFault, Robot
<1>36. CASE RobotRecover /\ Robot
  BY <1>36 DEF TaskInv, RobotRecover, Robot
<1>37. CASE MinDurationElapses
  BY <1>37 DEF TaskInv, MinDurationElapses
<1>38. CASE UNCHANGED vars
  BY <1>38 DEF TaskInv, vars
<1>39. CASE RpcUnblocked
  BY <1>39 DEF TaskInv, RpcUnblocked
<1>40. CASE ClientStalls
  BY <1>40 DEF TaskInv, ClientStalls
<1>41. CASE ClientResumes
  BY <1>41 DEF TaskInv, ClientResumes
<1> QED
  BY ProcessRequestContent, <1>1, <1>2, <1>3, <1>4, <1>5, <1>6, <1>7, <1>8, <1>9,
     <1>10, <1>11, <1>12, <1>13, <1>14, <1>15, <1>16, <1>17, <1>18, <1>19, <1>20,
     <1>21, <1>22, <1>23, <1>24, <1>25, <1>26, <1>27, <1>28, <1>29, <1>30, <1>31,
     <1>32, <1>33, <1>34, <1>35, <1>36, <1>37, <1>38, <1>39, <1>40, <1>41 DEF Next,
     HostThread, HostProgress, RpcThread, RpcStep, WorkerThread, Robot, RobotMoves,
     Client

(***************************************************************************)
(* What a step does to the ids, the connection and the frames.             *)
(***************************************************************************)
\* The RPC thread sends f: it is delivered, or the connection is lost, or the
\* client does not read and f is kept back.
Emits(f) ==
  /\ unsent = <<>>
  /\ \/ connected /\ sent' = Append(sent, f) /\ UNCHANGED <<connected, unsent>>
     \/ ~ connected' /\ UNCHANGED <<sent, unsent>>
     \/ unsent' = <<f>> /\ UNCHANGED <<sent, connected>>

idVars == <<next_action_id_, current_move_action_id_, origin>>

QuietLine ==
  /\ UNCHANGED <<idVars, session, sent, unsent>>
  /\ connected' => connected

AcceptLine ==
  /\ unsent = <<>>
  /\ session' = session + 1
  /\ UNCHANGED <<idVars, sent, unsent>>

AnswerLine ==
  /\ UNCHANGED <<idVars, session>>
  /\ \E f \in ResponseFrame :
       /\ Emits(f)
       /\ CleanBlob(f)
       /\ f.resp_type # "SUCCESS_IN_PROGRESS"
       /\ f.resp_type = "NOT_IN_PROGRESS" =>
            current_move_action_id_ = NoAction \/ current_move_action_id_ # f.action_id

StartLine ==
  /\ current_move_action_id_ = NoAction
  /\ current_move_action_id_' = next_action_id_
  /\ next_action_id_' = next_action_id_ + 1
  /\ origin' = session
  /\ UNCHANGED session
  /\ \E f \in ResponseFrame :
       Emits(f) /\ Accepts(f, next_action_id_) /\ f.session = session

EndLine ==
  /\ current_move_action_id_ # NoAction
  /\ current_move_action_id_' = NoAction
  /\ unsent = <<>>
  /\ UNCHANGED <<next_action_id_, origin, session, unsent>>
  /\ \E f \in FinishedFrame :
       /\ \/ connected /\ sent' = Append(sent, f)
          \/ UNCHANGED sent
       /\ CleanBlob(f)
       /\ f.action_id = current_move_action_id_
       /\ f.session = session
       /\ f.origin = origin
       /\ rpc = "finish"
       /\ f.success = (task.why = "idle")
       /\ f.blob = FinishBlob

UnblockedLine ==
  /\ unsent # <<>>
  /\ unsent' = <<>>
  /\ UNCHANGED <<idVars, session>>
  /\ \/ sent' = Append(sent, unsent[1]) /\ UNCHANGED connected
     \/ ~ connected' /\ UNCHANGED sent

\* A response is a frame of its session that is delivered, lost or kept back.
LEMMA ResponseEmits ==
  ASSUME MessagesOK, unsent = <<>>,
         NEW req \in Request, NEW type \in ResponseTypes, NEW id \in Nat,
         NEW blob \in Blobs, response_blob_buffer_' = blob, SendResponse(req, type, id)
  PROVE  /\ Response(req, type, id, blob) \in ResponseFrame
         /\ Emits(Response(req, type, id, blob))
<1>1. Response(req, type, id, blob) \in ResponseFrame
  BY ResponseType DEF MessagesOK
<1> DEFINE frame == Response(req, type, id, blob)
<1>2. \/ Send(frame) /\ UNCHANGED unsent
      \/ unsent' = <<frame>> /\ UNCHANGED <<connected, sent>>
  BY DEF SendResponse
<1> HIDE DEF frame
<1>3. Emits(frame)
  BY <1>2 DEF Emits, Send
<1> QED
  BY <1>1, <1>3 DEF frame

\* Every step has one of these effects.
LEMMA LineEffects ==
  ASSUME SwitchesOK, ControlOK, MessagesOK, PlacesInv, TaskInv, [Next]_vars
  PROVE  \/ QuietLine \/ AcceptLine \/ AnswerLine
         \/ StartLine \/ EndLine \/ UnblockedLine
<1> USE DEF robotVars, hostVars, sharedVars, workerVars, loopVars,
            moveVars, clientVars, lineVars, ghostVars, rpcLocalVars,
            otherThanWorkerVars, otherThanStallVars
<1>1. CASE HostActivate
  BY <1>1 DEF QuietLine, idVars, HostActivate
<1>2. CASE HostDeactivate
  BY <1>2 DEF QuietLine, idVars, HostDeactivate, HostCall
<1>3. CASE HostDestroy
  BY <1>3 DEF QuietLine, idVars, HostDestroy, HostCall
<1>4. CASE HostDestruct
  BY <1>4 DEF QuietLine, idVars, HostDestruct, HostCall
<1>5. CASE HostStoreStop
  BY <1>5 DEF QuietLine, idVars, HostStoreStop
<1>6. CASE HostCheckJoinable
  BY <1>6 DEF QuietLine, idVars, HostCheckJoinable, AfterHostStop
<1>7. CASE HostJoin
  BY <1>7 DEF QuietLine, idVars, HostJoin, AfterHostStop
<1>8. CASE HostJoinMisuse
  BY <1>8 DEF QuietLine, idVars, HostJoinMisuse
<1>9. CASE HostClearRunning
  BY <1>9 DEF QuietLine, idVars, HostClearRunning
<1>10. CASE HostHalt
  BY <1>10 DEF QuietLine, idVars, HostHalt
<1>11. CASE RpcSpin
  BY <1>11 DEF QuietLine, idVars, RpcSpin
<1>12. CASE RpcExit
  BY <1>12 DEF QuietLine, idVars, RpcExit
<1>13. CASE unsent = <<>> /\ RpcAccept
  BY <1>13 DEF AcceptLine, RpcAccept, idVars
<1>14. CASE RpcPollFails
  BY <1>14 DEF QuietLine, idVars, RpcPollFails, ClientMayBeLost
<1>15. CASE unsent = <<>> /\ AnswerContent
  <2>1. PICK r \in Requests, id \in Nat, blob \in {"empty", "specs", "error"},
             type \in ResponseTypes \ {"SUCCESS_IN_PROGRESS"} :
          /\ Answer(r, type, id, blob)
          /\ CleanBlob(Response(r, type, id, blob))
          /\ type = "NOT_IN_PROGRESS" =>
               current_move_action_id_ = NoAction \/ current_move_action_id_ # id
    BY <1>15 DEF AnswerContent
  <2> DEFINE f == Response(r, type, id, blob)
  <2>2. f \in ResponseFrame /\ Emits(f)
    BY <1>15, <2>1, ResponseEmits, RequestsAssumption DEF Answer, Blobs
  <2>3. f.resp_type = type /\ f.action_id = id
    BY DEF Response
  <2>4. UNCHANGED <<idVars, session>>
    BY <2>1 DEF Answer, Receive, idVars
  <2> HIDE DEF f
  <2> QED
    BY <2>1, <2>2, <2>3, <2>4 DEF AnswerLine, f
<1>16. CASE EngageContent
  BY <1>16 DEF QuietLine, idVars, EngageContent, Engage, Receive
<1>17. CASE RpcStopWorker
  BY <1>17 DEF QuietLine, idVars, RpcStopWorker, AfterStop
<1>18. CASE RpcJoin
  BY <1>18 DEF QuietLine, idVars, RpcJoin, AfterStop
<1>19. CASE RpcJoinMisuse
  BY <1>19 DEF QuietLine, idVars, RpcJoinMisuse
<1>20. CASE unsent = <<>> /\ RpcFinish
  <2> DEFINE f == Finished(current_move_action_id_, task.why = "idle", FinishBlob)
  <2>1. f \in FinishedFrame
    BY FinishedType, BoundsAssumption DEF MessagesOK, FinishBlob, Blobs, Finished, FinishedFrame
  <2>2. CleanBlob(f)
    BY <1>20 DEF Finished, CleanBlob, FinishBlob, TaskInv, ControlOK, Reasons, RpcFinish
  <2>3. /\ f.action_id = current_move_action_id_
        /\ f.session = session
        /\ f.origin = origin
        /\ f.success = (task.why = "idle")
        /\ f.blob = FinishBlob
    BY DEF Finished
  <2>4. Send(f)
    BY <1>20 DEF RpcFinish
  <2> HIDE DEF f
  <2> QED
    BY <1>20, <2>1, <2>2, <2>3, <2>4 DEF EndLine, PlacesInv, Send, RpcFinish
<1>21. CASE unsent = <<>> /\ RpcStartMove
  <2> DEFINE f == Response(task.req, "SUCCESS_IN_PROGRESS", next_action_id_,
                         response_blob_buffer_)
  <2>1. f \in ResponseFrame /\ Emits(f)
    BY <1>21, ResponseEmits, TaskType DEF ControlOK, MessagesOK, ResponseTypes, StartAction, RpcStartMove
  <2>2. Accepts(f, next_action_id_) /\ f.session = session
    BY DEF Response, Accepts
  <2> HIDE DEF f
  <2> QED
    BY <1>21, <2>1, <2>2 DEF StartLine, PlacesInv, StartAction, RpcStartMove
<1>22. CASE RpcStartTrajectory
  BY <1>22 DEF QuietLine, idVars, RpcStartTrajectory, FollowTarget, Follow, Target
<1>23. CASE unsent = <<>> /\ RpcSpawnWorker
  <2> DEFINE f == Response(task.req, "SUCCESS_IN_PROGRESS", next_action_id_,
                         response_blob_buffer_)
  <2>1. f \in ResponseFrame /\ Emits(f)
    BY <1>23, ResponseEmits, TaskType DEF ControlOK, MessagesOK, ResponseTypes, StartAction, RpcSpawnWorker
  <2>2. Accepts(f, next_action_id_) /\ f.session = session
    BY DEF Response, Accepts
  <2> HIDE DEF f
  <2> QED
    BY <1>23, <2>1, <2>2 DEF StartLine, PlacesInv, StartAction, RpcSpawnWorker
<1>24. CASE unsent = <<>> /\ RpcMoveRejected
  <2> DEFINE f == Response(task.req, "FAILURE", 0, "error")
  <2>1. response_blob_buffer_' = "error" /\ UNCHANGED <<idVars, session>>
    BY <1>24 DEF TaskInv, RpcMoveRejected, idVars
  <2>2. f \in ResponseFrame /\ Emits(f)
    BY <1>24, <2>1, ResponseEmits, TaskType DEF ControlOK, Blobs, ResponseTypes, RpcMoveRejected
  <2>3. CleanBlob(f) /\ f.resp_type = "FAILURE"
    BY <1>24 DEF Response, CleanBlob, TaskInv, RpcMoveRejected
  <2> HIDE DEF f
  <2> QED
    BY <2>1, <2>2, <2>3 DEF AnswerLine
<1>25. CASE unsent = <<>> /\ RpcCancel
  <2> DEFINE f == Response(task.req, "SUCCESS", task.req.action_id, "empty")
  <2>1. response_blob_buffer_' = "empty" /\ UNCHANGED <<idVars, session>>
    BY <1>25 DEF TaskInv, RpcCancel, idVars
  <2>2. f \in ResponseFrame /\ Emits(f)
    BY <1>25, <2>1, ResponseEmits, TaskType DEF ControlOK, Blobs, ResponseTypes, RpcCancel
  <2>3. CleanBlob(f) /\ f.resp_type = "SUCCESS"
    BY <1>25 DEF Response, CleanBlob, TaskInv, RpcCancel
  <2> HIDE DEF f
  <2> QED
    BY <2>1, <2>2, <2>3 DEF AnswerLine
<1>26. CASE unsent = <<>> /\ RpcCancelRejected
  <2> DEFINE f == Response(task.req, "FAILURE", 0, "error")
  <2>1. response_blob_buffer_' = "error" /\ UNCHANGED <<idVars, session>>
    BY <1>26 DEF TaskInv, RpcCancelRejected, idVars
  <2>2. f \in ResponseFrame /\ Emits(f)
    BY <1>26, <2>1, ResponseEmits, TaskType DEF ControlOK, Blobs, ResponseTypes, RpcCancelRejected
  <2>3. CleanBlob(f) /\ f.resp_type = "FAILURE"
    BY <1>26 DEF Response, CleanBlob, TaskInv, RpcCancelRejected
  <2> HIDE DEF f
  <2> QED
    BY <2>1, <2>2, <2>3 DEF AnswerLine
<1>27. CASE RpcUpdates
  BY <1>27 DEF QuietLine, idVars, RpcUpdates, ClientMayBeLost
<1>28. CASE RpcUpdatesSkipped
  BY <1>28 DEF QuietLine, idVars, RpcUpdatesSkipped
<1>29. CASE WorkerCheck
  BY <1>29 DEF QuietLine, idVars, WorkerCheck
<1>30. CASE WorkerAdd
  BY <1>30 DEF QuietLine, idVars, WorkerAdd, Add, Target
<1>31. CASE WorkerAddRejected
  BY <1>31 DEF QuietLine, idVars, WorkerAddRejected
<1>32. CASE RobotBegin /\ Robot
  BY <1>32 DEF QuietLine, idVars, RobotBegin, Robot
<1>33. CASE RobotReach /\ Robot
  BY <1>33 DEF QuietLine, idVars, RobotReach, Robot
<1>34. CASE RobotRest /\ Robot
  BY <1>34 DEF QuietLine, idVars, RobotRest, Robot
<1>35. CASE RobotFault /\ Robot
  BY <1>35 DEF QuietLine, idVars, RobotFault, Robot
<1>36. CASE RobotRecover /\ Robot
  BY <1>36 DEF QuietLine, idVars, RobotRecover, Robot
<1>37. CASE MinDurationElapses
  BY <1>37 DEF QuietLine, idVars, MinDurationElapses
<1>38. CASE UNCHANGED vars
  BY <1>38 DEF QuietLine, idVars, vars
<1>39. CASE RpcUnblocked
  BY <1>39 DEF UnblockedLine, RpcUnblocked, Send, idVars
<1>40. CASE ClientStalls
  BY <1>40 DEF QuietLine, idVars, ClientStalls
<1>41. CASE ClientResumes
  BY <1>41 DEF QuietLine, idVars, ClientResumes
<1> QED
  BY ProcessRequestContent, <1>1, <1>2, <1>3, <1>4, <1>5, <1>6, <1>7, <1>8, <1>9,
     <1>10, <1>11, <1>12, <1>13, <1>14, <1>15, <1>16, <1>17, <1>18, <1>19, <1>20,
     <1>21, <1>22, <1>23, <1>24, <1>25, <1>26, <1>27, <1>28, <1>29, <1>30, <1>31,
     <1>32, <1>33, <1>34, <1>35, <1>36, <1>37, <1>38, <1>39, <1>40, <1>41 DEF Next,
     HostThread, HostProgress, RpcThread, RpcStep, WorkerThread, Robot, RobotMoves,
     Client

(***************************************************************************)
(* The same effects as the history sees them.                              *)
(***************************************************************************)
LineEffect ==
  QuietLine \/ AcceptLine \/ AnswerLine \/ StartLine \/ EndLine \/ UnblockedLine

\* A frame that may be appended to the history.
MayBeSent(f) ==
  /\ CleanBlob(f)
  /\ f.kind = "FINISHED" =>
       /\ current_move_action_id_ # NoAction /\ current_move_action_id_' = NoAction
       /\ connected /\ unsent = <<>>
       /\ f.action_id = current_move_action_id_
       /\ f.session = session /\ f.origin = origin
       /\ rpc = "finish"
       /\ f.success = (task.why = "idle")
       /\ f.blob = FinishBlob
  /\ f.kind # "FINISHED" /\ f.resp_type = "SUCCESS_IN_PROGRESS" =>
       f.action_id \in 1..(next_action_id_' - 1)
  /\ f.kind # "FINISHED" /\ f.resp_type = "NOT_IN_PROGRESS" =>
       current_move_action_id_' = NoAction \/ current_move_action_id_' # f.action_id

\* The history grows by at most one frame.
LEMMA SentEffect ==
  ASSUME MessagesOK, PendingInv, LineEffect
  PROVE  UNCHANGED sent \/ \E f \in Frame : sent' = Append(sent, f) /\ MayBeSent(f)
<1>1. CASE QuietLine \/ AcceptLine
  BY <1>1 DEF QuietLine, AcceptLine
<1>2. CASE AnswerLine
  <2>1. PICK f \in ResponseFrame :
          /\ Emits(f)
          /\ CleanBlob(f)
          /\ f.resp_type # "SUCCESS_IN_PROGRESS"
          /\ f.resp_type = "NOT_IN_PROGRESS" =>
               current_move_action_id_ = NoAction \/ current_move_action_id_ # f.action_id
    BY <1>2 DEF AnswerLine
  <2>2. f \in Frame /\ f.kind # "FINISHED"
    BY DEF Frame, ResponseFrame
  <2>3. MayBeSent(f)
    BY <1>2, <2>1, <2>2 DEF MayBeSent, AnswerLine, idVars
  <2>4. UNCHANGED sent \/ sent' = Append(sent, f)
    BY <2>1 DEF Emits
  <2> QED
    BY <2>2, <2>3, <2>4
<1>3. CASE StartLine
  <2>1. PICK f \in ResponseFrame : Emits(f) /\ Accepts(f, next_action_id_)
    BY <1>3 DEF StartLine
  <2>2. f \in Frame /\ f.kind = "RESPONSE" /\ f.resp_type = "SUCCESS_IN_PROGRESS"
    BY <2>1 DEF Frame, Accepts
  <2>3. CleanBlob(f)
    BY <2>2 DEF CleanBlob
  <2>4. f.action_id \in 1..(next_action_id_' - 1)
    BY <1>3, <2>1 DEF StartLine, Accepts, MessagesOK
  <2>5. MayBeSent(f)
    BY <2>2, <2>3, <2>4 DEF MayBeSent
  <2>6. UNCHANGED sent \/ sent' = Append(sent, f)
    BY <2>1 DEF Emits
  <2> QED
    BY <2>2, <2>5, <2>6
<1>4. CASE EndLine
  <2>1. PICK f \in FinishedFrame :
          /\ \/ connected /\ sent' = Append(sent, f)
             \/ UNCHANGED sent
          /\ CleanBlob(f)
          /\ f.action_id = current_move_action_id_
          /\ f.session = session
          /\ f.origin = origin
          /\ rpc = "finish"
          /\ f.success = (task.why = "idle")
          /\ f.blob = FinishBlob
    BY <1>4 DEF EndLine
  <2>2. f \in Frame /\ f.kind = "FINISHED"
    BY DEF Frame, FinishedFrame
  <2>3. connected => MayBeSent(f)
    BY <1>4, <2>1, <2>2 DEF MayBeSent, EndLine
  <2> QED
    BY <2>1, <2>2, <2>3
<1>5. CASE UnblockedLine
  <2> DEFINE f == unsent[1]
  <2>1. f \in ResponseFrame /\ 1 \in DOMAIN unsent
    BY <1>5 DEF UnblockedLine, MessagesOK
  <2>2. f \in Frame /\ f.kind # "FINISHED"
    BY <2>1 DEF Frame, ResponseFrame
  <2>3. MayBeSent(f)
    BY <1>5, <2>1, <2>2 DEF MayBeSent, PendingInv, UnblockedLine, idVars
  <2>4. UNCHANGED sent \/ sent' = Append(sent, f)
    BY <1>5 DEF UnblockedLine
  <2> HIDE DEF f
  <2> QED
    BY <2>2, <2>3, <2>4
<1> QED
  BY <1>1, <1>2, <1>3, <1>4, <1>5 DEF LineEffect

\* Ids are handed out in order; a new current action has a new id.
LEMMA IdEffect ==
  ASSUME MessagesOK, LineEffect
  PROVE  /\ next_action_id_' \in {next_action_id_, next_action_id_ + 1}
         /\ current_move_action_id_' \in
              {current_move_action_id_, NoAction, next_action_id_}
BY DEF LineEffect, QuietLine, AcceptLine, AnswerLine, StartLine, EndLine, UnblockedLine,
       idVars

\* A sequence after a frame was appended.
LEMMA AppendFacts ==
  ASSUME MessagesOK, NEW f, sent' = Append(sent, f)
  PROVE  /\ Len(sent) \in Nat /\ Len(sent') = Len(sent) + 1
         /\ DOMAIN sent = 1..Len(sent) /\ DOMAIN sent' = 1..(Len(sent) + 1)
         /\ \A i \in DOMAIN sent : sent'[i] = sent[i]
         /\ sent'[Len(sent) + 1] = f
BY DEF MessagesOK

\* A frame is a response or the report of a finished action.
LEMMA FrameKinds ==
  ASSUME NEW f \in Frame
  PROVE  f.kind \in {"RESPONSE", "FINISHED"}
BY DEF Frame, ResponseFrame, FinishedFrame

\* The blobs of the history stay clean.
LEMMA BlobStep ==
  ASSUME MessagesOK, PendingInv, BlobContract, LineEffect
  PROVE  BlobContract'
<1>1. \A i \in DOMAIN sent : CleanBlob(sent[i])
  BY DEF BlobContract, CleanBlob, IsFinished
<1>2. \A i \in DOMAIN sent' : CleanBlob(sent'[i])
  <2>1. CASE UNCHANGED sent
    BY <1>1, <2>1
  <2>2. CASE ~ UNCHANGED sent
    <3>1. PICK f \in Frame : sent' = Append(sent, f) /\ CleanBlob(f)
      BY <2>2, SentEffect DEF MayBeSent
    <3> QED
      BY <1>1, <3>1, AppendFacts
  <2> QED
    BY <2>1, <2>2
<1> QED
  BY <1>2 DEF BlobContract, CleanBlob, IsFinished

\* Only ids that were handed out stay in answers.
LEMMA HandedOutStep ==
  ASSUME MessagesOK, PendingInv, HandedOutInv, LineEffect
  PROVE  HandedOutInv'
<1>1. next_action_id_ \in Nat /\ next_action_id_' \in Nat /\ next_action_id_ <= next_action_id_'
  BY IdEffect DEF MessagesOK
<1>2. CASE UNCHANGED sent
  BY <1>1, <1>2 DEF HandedOutInv
<1>3. CASE ~ UNCHANGED sent
  <2>1. PICK f \in Frame : sent' = Append(sent, f) /\ MayBeSent(f)
    BY <1>3, SentEffect
  <2>2. f.kind = "RESPONSE" /\ f.resp_type = "SUCCESS_IN_PROGRESS" =>
          f.action_id \in 1..(next_action_id_' - 1)
    BY <2>1 DEF MayBeSent
  <2>3. \A i \in DOMAIN sent' : sent'[i] = f \/ (i \in DOMAIN sent /\ sent'[i] = sent[i])
    BY <2>1, AppendFacts
  <2> QED
    BY <1>1, <2>2, <2>3 DEF HandedOutInv
<1> QED
  BY <1>2, <1>3

\* What waits in send is as clean as what was delivered.
LEMMA PendingStep ==
  ASSUME MessagesOK, PendingInv, LineEffect
  PROVE  PendingInv'
<1>1. next_action_id_ \in Nat \ {0} /\ current_move_action_id_ \in Nat
  BY DEF MessagesOK
<1>2. CASE QuietLine \/ AcceptLine
  BY <1>2 DEF QuietLine, AcceptLine, PendingInv, idVars
<1>3. CASE AnswerLine
  <2>1. PICK f \in ResponseFrame :
          /\ Emits(f)
          /\ CleanBlob(f)
          /\ f.resp_type # "SUCCESS_IN_PROGRESS"
          /\ f.resp_type = "NOT_IN_PROGRESS" =>
               current_move_action_id_ = NoAction \/ current_move_action_id_ # f.action_id
    BY <1>3 DEF AnswerLine
  <2>2. unsent' = <<>> \/ unsent' = <<f>>
    BY <2>1 DEF Emits
  <2>3. \A i \in DOMAIN unsent' : unsent'[i] = f
    BY <2>2
  <2> QED
    BY <1>3, <2>1, <2>3 DEF AnswerLine, PendingInv, idVars
<1>4. CASE StartLine
  <2>1. PICK f \in ResponseFrame : Emits(f) /\ Accepts(f, next_action_id_)
    BY <1>4 DEF StartLine
  <2>2. unsent' = <<>> \/ unsent' = <<f>>
    BY <2>1 DEF Emits
  <2>3. \A i \in DOMAIN unsent' : unsent'[i] = f
    BY <2>2
  <2>4. CleanBlob(f) /\ f.resp_type = "SUCCESS_IN_PROGRESS"
    BY <2>1 DEF CleanBlob, Accepts
  <2>5. f.action_id \in 1..(next_action_id_' - 1)
    BY <1>1, <1>4, <2>1 DEF StartLine, Accepts
  <2> QED
    BY <2>3, <2>4, <2>5 DEF PendingInv
<1>5. CASE EndLine \/ UnblockedLine
  <2>1. unsent' = <<>>
    BY <1>5 DEF EndLine, UnblockedLine
  <2>2. DOMAIN unsent' = {}
    BY <2>1
  <2> QED
    BY <2>2 DEF PendingInv
<1> QED
  BY <1>2, <1>3, <1>4, <1>5 DEF LineEffect

\* The id of the current action is told before anything else happens to it.
Told(id, s) ==
  \E j \in DOMAIN sent : Accepts(sent[j], id) /\ sent[j].session = s

\* Every step keeps AnsweredInv.
LEMMA AnsweredStep ==
  ASSUME SwitchesOK, MessagesOK, PendingInv, AnsweredInv, LineEffect
  PROVE  AnsweredInv'
<1>1. session \in Nat /\ origin \in Nat /\ next_action_id_ \in Nat \ {0}
  BY BoundsAssumption DEF MessagesOK
<1>2. AnsweredInv <=>
        /\ origin <= session
        /\ current_move_action_id_ # NoAction /\ connected /\ session = origin =>
             \/ Told(current_move_action_id_, origin)
             \/ /\ unsent # <<>>
                /\ Accepts(unsent[1], current_move_action_id_)
                /\ unsent[1].session = origin
  BY DEF AnsweredInv, Told
<1>3. (origin <= session)'
  BY <1>1 DEF AnsweredInv, LineEffect, QuietLine, AcceptLine, AnswerLine, StartLine,
     EndLine, UnblockedLine, idVars
<1> SUFFICES ASSUME current_move_action_id_' # NoAction, connected', session' = origin'
             PROVE  \/ Told(current_move_action_id_, origin)'
                    \/ /\ unsent' # <<>>
                       /\ Accepts(unsent'[1], current_move_action_id_')
                       /\ unsent'[1].session = origin'
  BY <1>3 DEF AnsweredInv, Told
<1>4. CASE QuietLine
  <2>1. UNCHANGED <<idVars, session, sent, unsent>> /\ connected
    BY <1>4 DEF QuietLine
  <2> QED
    BY <1>2, <2>1 DEF Told, idVars
<1>5. CASE AcceptLine
  <2>1. session' = session + 1 /\ origin' = origin
    BY <1>5 DEF AcceptLine, idVars
  <2>2. origin <= session
    BY DEF AnsweredInv
  <2>3. session + 1 # origin
    BY <1>1, <2>2
  <2> QED
    BY <2>1, <2>3
<1>6. CASE AnswerLine
  <2>1. PICK f \in ResponseFrame : Emits(f)
    BY <1>6 DEF AnswerLine
  <2>2. unsent = <<>> /\ connected
    BY <2>1 DEF Emits
  <2>3. Told(current_move_action_id_, origin)
    BY <1>2, <1>6, <2>2 DEF AnswerLine, idVars
  <2>4. Told(current_move_action_id_, origin)' <=> \E j \in DOMAIN sent' :
          Accepts(sent'[j], current_move_action_id_) /\ sent'[j].session = origin
    BY <1>6 DEF AnswerLine, idVars, Told, Accepts
  <2> DEFINE id == current_move_action_id_  s == origin
  <2>5. PICK j \in DOMAIN sent : Accepts(sent[j], id) /\ sent[j].session = s
    BY <2>3 DEF Told
  <2>6. UNCHANGED sent \/ sent' = Append(sent, f)
    BY <2>1 DEF Emits
  <2>7. j \in DOMAIN sent' /\ sent'[j] = sent[j]
    BY <2>5, <2>6, AppendFacts
  <2> QED
    BY <2>4, <2>5, <2>7
<1>7. CASE StartLine
  <2>1. PICK f \in ResponseFrame :
          Emits(f) /\ Accepts(f, next_action_id_) /\ f.session = session
    BY <1>7 DEF StartLine
  <2>2. current_move_action_id_' = next_action_id_ /\ origin' = session
    BY <1>7 DEF StartLine
  <2>3. CASE sent' = Append(sent, f)
    <3>1. Len(sent) + 1 \in DOMAIN sent' /\ sent'[Len(sent) + 1] = f
      BY <2>3, AppendFacts
    <3> QED
      BY <2>1, <2>2, <3>1 DEF Told, Accepts
  <2>4. CASE unsent' = <<f>>
    BY <2>1, <2>2, <2>4
  <2> QED
    BY <2>1, <2>3, <2>4 DEF Emits
<1>8. CASE EndLine
  BY <1>8 DEF EndLine
<1>9. CASE UnblockedLine
  <2>1. sent' = Append(sent, unsent[1]) /\ connected /\ UNCHANGED <<idVars, session>>
    BY <1>9 DEF UnblockedLine
  <2>2. /\ \A j \in DOMAIN sent : j \in DOMAIN sent' /\ sent'[j] = sent[j]
        /\ Len(sent) + 1 \in DOMAIN sent' /\ sent'[Len(sent) + 1] = unsent[1]
    BY <2>1, AppendFacts
  <2>3. current_move_action_id_' = current_move_action_id_ /\ origin' = origin
    BY <2>1 DEF idVars
  <2> QED
    BY <1>2, <2>1, <2>2, <2>3 DEF Told, idVars
<1> QED
  BY <1>4, <1>5, <1>6, <1>7, <1>8, <1>9 DEF LineEffect

\* A report finds the answer to its action before it.
LEMMA AnswerFirstStep ==
  ASSUME MessagesOK, PendingInv, AnsweredInv, AnswerBeforeFinish, LineEffect
  PROVE  AnswerBeforeFinish'
<1>1. CASE UNCHANGED sent
  BY <1>1 DEF AnswerBeforeFinish, IsFinished
<1>2. CASE ~ UNCHANGED sent
  <2>1. PICK f \in Frame : sent' = Append(sent, f) /\ MayBeSent(f)
    BY <1>2, SentEffect
  <2>2. /\ Len(sent) \in Nat
        /\ DOMAIN sent = 1..Len(sent) /\ DOMAIN sent' = 1..(Len(sent) + 1)
        /\ \A i \in DOMAIN sent : sent'[i] = sent[i]
        /\ sent'[Len(sent) + 1] = f
    BY <2>1, AppendFacts
  <2> SUFFICES ASSUME NEW i \in DOMAIN sent', sent'[i].kind = "FINISHED",
                      sent'[i].session = sent'[i].origin
               PROVE  \E j \in 1..(i - 1) :
                        /\ Accepts(sent'[j], sent'[i].action_id)
                        /\ sent'[j].session = sent'[i].session
    BY DEF AnswerBeforeFinish, IsFinished, Accepts
  <2>3. CASE i \in DOMAIN sent
    <3>1. PICK j \in 1..(i - 1) : /\ Accepts(sent[j], sent[i].action_id)
                                  /\ sent[j].session = sent[i].session
      BY <2>2, <2>3 DEF AnswerBeforeFinish, IsFinished, Accepts
    <3>2. j \in DOMAIN sent
      BY <2>2, <2>3
    <3> QED
      BY <2>2, <2>3, <3>1, <3>2
  <2>4. CASE i \notin DOMAIN sent
    <3>1. i = Len(sent) + 1 /\ sent'[i] = f
      BY <2>2, <2>4
    <3>2. /\ current_move_action_id_ # NoAction /\ connected /\ unsent = <<>>
          /\ f.action_id = current_move_action_id_
          /\ f.session = session /\ f.origin = origin
      BY <2>1, <3>1 DEF MayBeSent
    <3>3. PICK j \in DOMAIN sent : /\ Accepts(sent[j], current_move_action_id_)
                                   /\ sent[j].session = origin
      BY <3>1, <3>2 DEF AnsweredInv
    <3>4. j \in 1..(i - 1) /\ sent'[j] = sent[j]
      BY <2>2, <3>1
    <3> QED
      BY <3>1, <3>2, <3>3, <3>4
  <2> QED
    BY <2>3, <2>4
<1> QED
  BY <1>1, <1>2

\* An id that was handed out is not the next one.
LEMMA OldId ==
  ASSUME NEW next \in Nat, NEW id \in 1..(next - 1)
  PROVE  id \notin {NoAction, next}
OBVIOUS

\* An action that was said not to be in progress is not started or reported again:
\* it is not the current action, and a new current action has a new id.
LEMMA FinalStep ==
  ASSUME MessagesOK, PendingInv, HandedOutInv, NotInProgressIsFinal, LineEffect
  PROVE  NotInProgressIsFinal'
<1> DEFINE Pair(i, j) ==
             /\ i < j
             /\ sent[i].kind # "FINISHED" /\ sent[i].resp_type = "SUCCESS_IN_PROGRESS"
             /\ sent[j].kind # "FINISHED" /\ sent[j].resp_type = "NOT_IN_PROGRESS"
             /\ sent[j].action_id = sent[i].action_id
<1>1. \A i \in DOMAIN sent : sent[i] \in Frame
  BY DEF MessagesOK
<1>2. ASSUME NEW i \in DOMAIN sent, sent[i].kind # "FINISHED",
             sent[i].resp_type = "SUCCESS_IN_PROGRESS"
      PROVE  sent[i].action_id \notin {NoAction, next_action_id_}
  <2>1. sent[i].kind = "RESPONSE"
    BY <1>1, <1>2, FrameKinds
  <2>2. sent[i].action_id \in 1..(next_action_id_ - 1)
    BY <1>2, <2>1 DEF HandedOutInv
  <2>3. next_action_id_ \in Nat
    BY DEF MessagesOK
  <2> QED
    BY <2>2, <2>3, OldId
<1>3. ASSUME NEW i \in DOMAIN sent, NEW j \in DOMAIN sent, Pair(i, j)
      PROVE  /\ current_move_action_id_' # sent[i].action_id
             /\ current_move_action_id_ # sent[i].action_id
             /\ \A k \in (j + 1)..Len(sent) :
                  sent[k].kind = "FINISHED" => sent[k].action_id # sent[i].action_id
  <2>1. /\ current_move_action_id_ # sent[i].action_id
        /\ \A k \in (j + 1)..Len(sent) :
             sent[k].kind = "FINISHED" => sent[k].action_id # sent[i].action_id
    BY <1>3 DEF NotInProgressIsFinal, IsFinished
  <2>2. sent[i].action_id \notin {NoAction, next_action_id_}
    BY <1>2, <1>3
  <2>3. current_move_action_id_' \in {current_move_action_id_, NoAction, next_action_id_}
    BY IdEffect
  <2>4. current_move_action_id_' # sent[i].action_id
    BY <2>1, <2>2, <2>3
  <2> QED
    BY <2>1, <2>4
<1>4. CASE UNCHANGED sent
  <2> SUFFICES ASSUME NEW i \in DOMAIN sent, NEW j \in DOMAIN sent, Pair(i, j)
               PROVE  /\ current_move_action_id_' # sent[i].action_id
                      /\ \A k \in (j + 1)..Len(sent) :
                           sent[k].kind = "FINISHED" => sent[k].action_id # sent[i].action_id
    BY <1>4 DEF NotInProgressIsFinal, IsFinished
  <2> QED
    BY <1>3
<1>5. CASE ~ UNCHANGED sent
  <2>1. PICK f \in Frame : sent' = Append(sent, f) /\ MayBeSent(f)
    BY <1>5, SentEffect
  <2>2. /\ Len(sent) \in Nat /\ Len(sent') = Len(sent) + 1
        /\ DOMAIN sent = 1..Len(sent) /\ DOMAIN sent' = 1..(Len(sent) + 1)
        /\ \A i \in DOMAIN sent : sent'[i] = sent[i]
        /\ sent'[Len(sent) + 1] = f
    BY <2>1, AppendFacts
  <2> SUFFICES ASSUME NEW i \in DOMAIN sent', NEW j \in DOMAIN sent', Pair(i, j)'
               PROVE  /\ current_move_action_id_' # sent'[i].action_id
                      /\ \A k \in (j + 1)..Len(sent') :
                           sent'[k].kind = "FINISHED" => sent'[k].action_id # sent'[i].action_id
    BY DEF NotInProgressIsFinal, IsFinished
  <2>3. i \in DOMAIN sent /\ sent'[i] = sent[i]
    BY <2>2
  <2>4. CASE j \in DOMAIN sent
    <3>1. sent'[j] = sent[j]
      BY <2>2, <2>4
    <3>2. Pair(i, j)
      BY <2>3, <3>1
    <3>3. /\ current_move_action_id_' # sent[i].action_id
          /\ current_move_action_id_ # sent[i].action_id
          /\ \A k \in (j + 1)..Len(sent) :
               sent[k].kind = "FINISHED" => sent[k].action_id # sent[i].action_id
      BY <1>3, <2>3, <2>4, <3>2
    <3>4. f.kind = "FINISHED" => f.action_id = current_move_action_id_
      BY <2>1 DEF MayBeSent
    <3> HIDE DEF Pair
    <3> SUFFICES ASSUME NEW k \in (j + 1)..Len(sent'), sent'[k].kind = "FINISHED"
                 PROVE  sent'[k].action_id # sent[i].action_id
      BY <2>3, <3>3
    <3>5. CASE k = Len(sent) + 1
      BY <2>2, <3>3, <3>4, <3>5
    <3>6. CASE k # Len(sent) + 1
      <4>1. k \in (j + 1)..Len(sent) /\ k \in DOMAIN sent
        BY <2>2, <2>4, <3>6
      <4> QED
        BY <2>2, <3>3, <4>1
    <3> QED
      BY <3>5, <3>6
  <2>5. CASE j \notin DOMAIN sent
    <3>1. j = Len(sent) + 1 /\ sent'[j] = f
      BY <2>2, <2>5
    <3>2. f.kind # "FINISHED" /\ f.resp_type = "NOT_IN_PROGRESS"
          /\ f.action_id = sent[i].action_id
      BY <2>3, <3>1
    <3>3. current_move_action_id_' = NoAction \/ current_move_action_id_' # f.action_id
      BY <2>1, <3>2 DEF MayBeSent
    <3>4. sent[i].action_id # NoAction
      BY <1>2, <2>3
    <3>5. (j + 1)..Len(sent') = {}
      BY <2>2, <3>1
    <3> HIDE DEF Pair
    <3>6. current_move_action_id_' # sent[i].action_id
      BY <3>2, <3>3, <3>4
    <3> QED
      BY <2>3, <3>5, <3>6
  <2> QED
    BY <2>4, <2>5
<1> QED
  BY <1>4, <1>5

\* The invariant of the messages is inductive with the types, the places and the
\* tasks.
LEMMA MessagesInvInductive ==
  TypeOK /\ MoveInv /\ TaskInv /\ MessagesInv /\ [Next]_vars => TaskInv' /\ MessagesInv'
<1> SUFFICES ASSUME TypeOK, MoveInv, TaskInv, MessagesInv, [Next]_vars
             PROVE  TaskInv' /\ MessagesInv'
  OBVIOUS
<1>1. SwitchesOK /\ ControlOK /\ MessagesOK /\ PlacesInv
  BY TypeParts DEF MoveInv
<1>2. LineEffect
  BY <1>1, LineEffects DEF LineEffect
<1>3. MessagesInv'
  BY <1>1, <1>2, AnsweredStep, PendingStep, HandedOutStep, AnswerFirstStep, BlobStep,
     FinalStep DEF MessagesInv
<1> QED
  BY <1>1, <1>3, TaskStep

\* The invariant of tasks and messages that the theorems below follow from.
THEOREM MessagesInOrder == Spec => [](TaskInv /\ MessagesInv)
<1>1. Init => TaskInv /\ MessagesInv
  BY DEF Init, NoTask, Task, TaskInv, MessagesInv, AnsweredInv, PendingInv, HandedOutInv,
     AnswerBeforeFinish, BlobContract, NotInProgressIsFinal
<1> QED
  BY <1>1, TypeCorrect, MovesInOrder, MessagesInvInductive, PTL DEF Spec

\* A client that is still on the connection on which it started a move has received
\* the id of the move before the report of its end.
THEOREM AnswerComesFirst == Spec => []AnswerBeforeFinish
<1>1. MessagesInv => AnswerBeforeFinish
  BY DEF MessagesInv
<1> QED
  BY <1>1, MessagesInOrder, PTL

\* No frame but SUCCESS_IN_PROGRESS carries what another message left in
\* response_blob_buffer_.
THEOREM BlobsAreClean == Spec => []BlobContract
<1>1. MessagesInv => BlobContract
  BY DEF MessagesInv
<1> QED
  BY <1>1, MessagesInOrder, PTL

\* NOT_IN_PROGRESS is the last word on an action: it is not current and is never
\* reported afterwards.
THEOREM NotInProgressStays == Spec => []NotInProgressIsFinal
<1>1. MessagesInv => NotInProgressIsFinal
  BY DEF MessagesInv
<1> QED
  BY <1>1, MessagesInOrder, PTL
=============================================================================
