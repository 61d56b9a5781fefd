------------------------ MODULE AdapterTimingProofs ------------------------
(***************************************************************************)
(* What a report of handleUpdates is worth, at any speed of the controller,*)
(* the trajectory worker and the RPC loop: it says what the controller did,*)
(* unless the snapshot it was taken from is too old for min_move_duration. *)
(***************************************************************************)
EXTENDS AdapterMessagesProofs

USE DEF NoAction

\* What excuses the end of a move.
Done == arrived \/ cancelled \/ hit \/ truncated \/ overtaken

\* A move is under way: it has an id, or the worker that feeds it is about to start.
UnderWay == current_move_action_id_ # NoAction \/ rpc = "spawn"

(***************************************************************************)
(* The controller.  Flags of a fault are raised by a fault; a queue that   *)
(* is complete ends with a stop point until that is reached; the arm is at *)
(* rest only before it has begun, after it is done, or when it was         *)
(* overtaken: it ran out of knots before the worker had handed over all.   *)
(***************************************************************************)
ControllerInv ==
  /\ flags \notin NormalFlags => hit
  /\ ~ begun => queue # <<>>
  /\ UnderWay /\ begun /\ RobotStatus(flags) = "IDLE" => Done
  /\ current_move_action_id_ # NoAction /\ TrajectoryHandedOver /\ ~ Done =>
       queue # <<>> /\ queue[Len(queue)].stop

(***************************************************************************)
(* The RPC loop.  A spin that came after the command took effect shows the *)
(* current move, and so does the reason taken from it for which the move   *)
(* is being ended; a reason taken from an older snapshot is at least one   *)
(* that min_move_duration_us_ was waited for.                              *)
(***************************************************************************)
SnapshotInv ==
  /\ fresh => begun
  /\ rpc = "spawn" => ~ fresh
  /\ current_move_action_id_ # NoAction /\ fresh =>
       /\ RobotStatus(seen) = "IDLE" => Done
       /\ RobotStatus(seen) = "ERROR" => hit
  /\ rpc \in {"stop", "join", "finish"} =>
       /\ task.why = "idle" => Done \/ SnapshotTooOld
       /\ task.why = "error" => hit \/ SnapshotTooOld

TimingInv == ControllerInv /\ SnapshotInv

\* The status that readRobotStatus derives from flags that are not those of a fault.
LEMMA NormalStatus ==
  /\ RobotStatus({"TRACKING"}) = "MOVING"
  /\ \A f \in NormalFlags : RobotStatus(f) # "ERROR"
<1> USE DEF RobotStatus, UnexpectedMotionFlags, SafetyFlags
<1>1. RobotStatus({"TRACKING"}) = "MOVING"
  OBVIOUS
<1>2. RobotStatus({"STANDBY"}) = "IDLE"
  OBVIOUS
<1>3. RobotStatus({"STANDBY", "SYNC"}) = "IDLE"
  OBVIOUS
<1> QED
  BY <1>1, <1>2, <1>3 DEF NormalFlags

\* The last target stays last when the first of several is dropped.
LEMMA TailLast ==
  ASSUME NEW S, NEW q \in Seq(S), q # <<>>, Len(q) # 1
  PROVE  Tail(q) # <<>> /\ Tail(q)[Len(Tail(q))] = q[Len(q)]
<1>1. Len(q) \in Nat \ {0, 1}
  OBVIOUS
<1>2. Len(Tail(q)) = Len(q) - 1
  BY <1>1
<1>3. Tail(q)[Len(q) - 1] = q[Len(q)]
  BY <1>1, <1>2
<1>4. Len(Tail(q)) # Len(<<>>)
  BY <1>1, <1>2
<1>5. Tail(q) # <<>>
  BY <1>4, Zenon
<1> QED
  BY <1>2, <1>3, <1>5

\* Every step keeps ControllerInv.
LEMMA ControllerStep ==
  ASSUME SwitchesOK, ControlOK, MessagesOK, PlacesInv, LifecycleInv,
         JoinInv, ControllerInv, [Next]_vars
  PROVE  ControllerInv'
<1> USE DEF robotVars, hostVars, sharedVars, workerVars, loopVars,
            moveVars, clientVars, lineVars, ghostVars, rpcLocalVars,
            otherThanWorkerVars, otherThanStallVars
<1>1. CASE HostActivate
  BY <1>1 DEF ControllerInv, UnderWay, Done, TrajectoryHandedOver, HostActivate,
     LifecycleInv, ServerOutlivesRpcThread
<1>2. CASE HostDeactivate
  BY <1>2 DEF ControllerInv, UnderWay, Done, TrajectoryHandedOver, HostDeactivate,
     HostCall
<1>3. CASE HostDestroy
  BY <1>3 DEF ControllerInv, UnderWay, Done, TrajectoryHandedOver, HostDestroy,
     HostCall
<1>4. CASE HostDestruct
  BY <1>4 DEF ControllerInv, UnderWay, Done, TrajectoryHandedOver, HostDestruct,
     HostCall
<1>5. CASE HostStoreStop
  BY <1>5 DEF ControllerInv, UnderWay, Done, TrajectoryHandedOver, HostStoreStop
<1>6. CASE HostCheckJoinable
  BY <1>6 DEF ControllerInv, UnderWay, Done, TrajectoryHandedOver,
     HostCheckJoinable, AfterHostStop
<1>7. CASE HostJoin
  BY <1>7 DEF ControllerInv, UnderWay, Done, TrajectoryHandedOver, HostJoin,
     AfterHostStop
<1>8. CASE HostJoinMisuse
  BY <1>8 DEF ControllerInv, UnderWay, Done, TrajectoryHandedOver, HostJoinMisuse
<1>9. CASE HostClearRunning
  BY <1>9 DEF ControllerInv, UnderWay, Done, TrajectoryHandedOver, HostClearRunning
<1>10. CASE HostHalt
  BY <1>10 DEF ControllerInv, UnderWay, Done, TrajectoryHandedOver, HostHalt
<1>11. CASE RpcSpin
  BY <1>11 DEF ControllerInv, UnderWay, Done, TrajectoryHandedOver, RpcSpin
<1>12. CASE RpcExit
  BY <1>12 DEF ControllerInv, UnderWay, Done, TrajectoryHandedOver, RpcExit
<1>13. CASE RpcAccept
  BY <1>13 DEF ControllerInv, UnderWay, Done, TrajectoryHandedOver, RpcAccept
<1>14. CASE RpcPollFails
  BY <1>14 DEF ControllerInv, UnderWay, Done, TrajectoryHandedOver, RpcPollFails
<1>15. CASE AnswerStep
  BY <1>15 DEF ControllerInv, UnderWay, Done, TrajectoryHandedOver, AnswerStep,
     Answer, Receive, SendResponse
<1>16. CASE EngageStep
  BY <1>16 DEF ControllerInv, UnderWay, Done, TrajectoryHandedOver, EngageStep,
     Engage, Receive
<1>17. CASE RpcStopWorker
  BY <1>17 DEF ControllerInv, UnderWay, Done, TrajectoryHandedOver, RpcStopWorker,
     AfterStop
<1>18. CASE RpcJoin
  BY <1>18 DEF ControllerInv, UnderWay, Done, TrajectoryHandedOver, RpcJoin,
     AfterStop
<1>19. CASE RpcJoinMisuse
  BY <1>19 DEF ControllerInv, UnderWay, Done, TrajectoryHandedOver, RpcJoinMisuse
<1>20. CASE RpcFinish
  BY <1>20 DEF ControllerInv, UnderWay, Done, TrajectoryHandedOver, RpcFinish
<1>21. CASE RpcStartMove
  <2>1. /\ queue' = <<Target(next_action_id_, TRUE)>>
        /\ begun' = FALSE
        /\ flags' \in NormalFlags
    BY <1>21 DEF RpcStartMove, FollowTarget, Follow, Operational
  <2>2. queue' # <<>> /\ queue'[Len(queue')].stop
    BY <2>1 DEF Target
  <2> QED
    BY <2>1, <2>2 DEF ControllerInv
<1>22. CASE RpcStartTrajectory
  <2>1. /\ queue' = <<Target(next_action_id_, FALSE)>>
        /\ begun' = FALSE
        /\ flags' \in NormalFlags
        /\ rpc' = "spawn"
    BY <1>22 DEF RpcStartTrajectory, FollowTarget, Follow, Operational
  <2>2. queue' # <<>>
    BY <2>1
  <2>3. ~ TrajectoryHandedOver'
    BY <2>1 DEF TrajectoryHandedOver
  <2> QED
    BY <2>1, <2>2, <2>3 DEF ControllerInv
<1>23. CASE RpcSpawnWorker
  BY <1>23 DEF ControllerInv, UnderWay, Done, TrajectoryHandedOver, RpcSpawnWorker,
     StartAction, SendResponse, BackToPolling
<1>24. CASE RpcMoveRejected
  BY <1>24 DEF ControllerInv, UnderWay, Done, TrajectoryHandedOver,
     RpcMoveRejected, SendResponse, BackToPolling
<1>25. CASE RpcCancel
  BY <1>25 DEF ControllerInv, UnderWay, Done, TrajectoryHandedOver, RpcCancel,
     Terminate, SendResponse, BackToPolling
<1>26. CASE RpcCancelRejected
  BY <1>26 DEF ControllerInv, UnderWay, Done, TrajectoryHandedOver,
     RpcCancelRejected, SendResponse, BackToPolling
<1>27. CASE RpcUpdates
  BY <1>27 DEF ControllerInv, UnderWay, Done, TrajectoryHandedOver, RpcUpdates
<1>28. CASE RpcUpdatesSkipped
  BY <1>28 DEF ControllerInv, UnderWay, Done, TrajectoryHandedOver,
     RpcUpdatesSkipped
<1>29. CASE WorkerCheck
  <2>1. UNCHANGED <<robotVars, rpc, current_move_action_id_, cancelled, overtaken>>
    BY <1>29, SMT DEF WorkerCheck
  <2>2. CASE trajectory_stop_requested_
    <3>1. truncated'
      BY <1>29, <2>2, Zenon DEF WorkerCheck
    <3> QED
      BY <2>1, <3>1 DEF ControllerInv, UnderWay, Done
  <2>3. CASE ~ trajectory_stop_requested_
    <3>1. worker'.pc = "add"
      BY <1>29, <2>3 DEF WorkerCheck, ControlOK
    <3>2. truncated' <=> truncated
      BY <1>29, <2>3, Zenon DEF WorkerCheck
    <3> QED
      BY <2>1, <3>1, <3>2 DEF ControllerInv, UnderWay, Done, TrajectoryHandedOver
  <2> QED
    BY <2>2, <2>3
<1>30. CASE WorkerAdd
  <2> DEFINE last == worker.knot + 1 = worker.count
              target == Target(worker.move, last)
  <2>1. /\ UNCHANGED <<flags, begun, arrived, hit>>
        /\ UNCHANGED <<rpc, current_move_action_id_, cancelled, truncated, overtaken>>
        /\ queue' = Append(queue, target)
    BY <1>30 DEF WorkerAdd, Add, Target
  <2>2. target.stop <=> last
    BY Zenon DEF Target
  <2>3. ~ last => worker'.pc = "check"
    BY <1>30 DEF WorkerAdd, ControlOK
  <2> HIDE DEF target, last
  <2>4. queue' # <<>> /\ queue'[Len(queue')] = target
    BY <2>1 DEF ControlOK
  <2>5. TrajectoryHandedOver' => target.stop
    BY <2>2, <2>3 DEF TrajectoryHandedOver
  <2>6. Done' <=> Done
    BY <2>1 DEF Done
  <2> QED
    BY <2>1, <2>4, <2>5, <2>6 DEF ControllerInv, UnderWay
<1>31. CASE WorkerAddRejected
  BY <1>31 DEF ControllerInv, UnderWay, Done, TrajectoryHandedOver,
     WorkerAddRejected
<1>32. CASE RobotBegin /\ Robot
  <2>1. flags' = {"TRACKING"} /\ begun'
    BY <1>32 DEF RobotBegin, Robot
  <2>2. flags' \in NormalFlags /\ RobotStatus(flags') # "IDLE"
    BY <2>1, NormalStatus DEF NormalFlags
  <2>3. UNCHANGED <<queue, arrived, hit>>
    BY <1>32 DEF RobotBegin
  <2>4. UNCHANGED <<rpc, worker, current_move_action_id_>>
    BY <1>32 DEF Robot
  <2>5. Done => Done'
    BY <1>32, <2>3, Zenon DEF Done, Robot
  <2> HIDE DEF robotVars
  <2> QED
    BY <2>1, <2>2, <2>3, <2>4, <2>5 DEF ControllerInv, TrajectoryHandedOver
<1>33. CASE RobotReach /\ Robot
  <2>1. /\ begun /\ UNCHANGED <<flags, begun, hit>>
        /\ queue # <<>> /\ queue' = Tail(queue)
    BY <1>33 DEF RobotReach
  <2>2. UNCHANGED <<rpc, worker, current_move_action_id_>>
    BY <1>33 DEF Robot
  <2>3. Done \/ Head(queue).stop => Done'
    BY <1>33, Zenon DEF Done, Robot, RobotReach
  <2>4. Len(queue) \in Nat \ {0} /\ Head(queue) = queue[1]
    BY <2>1 DEF ControlOK
  <2>5. Len(queue) # 1 => queue' # <<>> /\ queue'[Len(queue')] = queue[Len(queue)]
    BY <2>1, TailLast DEF ControlOK
  <2>6. current_move_action_id_ # NoAction /\ TrajectoryHandedOver /\ ~ Done' =>
          queue' # <<>> /\ queue'[Len(queue')].stop
    BY <2>3, <2>4, <2>5 DEF ControllerInv
  <2>7. UNCHANGED <<UnderWay, TrajectoryHandedOver>>
    BY <2>2 DEF UnderWay, TrajectoryHandedOver
  <2> QED
    BY <2>1, <2>2, <2>3, <2>6, <2>7 DEF ControllerInv
<1>34. CASE RobotRest /\ Robot
  <2>1. queue = <<>> /\ UNCHANGED <<queue, begun, arrived, hit>>
    BY <1>34 DEF RobotRest
  <2>2. UNCHANGED <<rpc, worker, current_move_action_id_>>
    BY <1>34 DEF Robot
  <2>3. flags' \in NormalFlags
    BY <1>34, RestFlagsAssumption DEF RobotRest, NormalFlags
  <2>4. Done => Done'
    BY <1>34, <2>1, Zenon DEF Done, Robot
  <2>5. ~ TrajectoryHandedOver => overtaken'
    BY <1>34, Zenon DEF Robot
  <2>6. UNCHANGED <<UnderWay, TrajectoryHandedOver>>
    BY <2>2 DEF UnderWay, TrajectoryHandedOver
  <2>7. UnderWay => Done'
    BY <2>1, <2>4, <2>5 DEF UnderWay, ControllerInv, TrajectoryHandedOver, Done
  <2> QED
    BY <2>1, <2>2, <2>3, <2>6, <2>7 DEF ControllerInv, UnderWay
<1>35. CASE RobotFault /\ Robot
  BY <1>35 DEF ControllerInv, UnderWay, Done, TrajectoryHandedOver, RobotFault,
     Robot
<1>36. CASE RobotRecover /\ Robot
  <2>1. /\ flags \in FaultFlags /\ flags' = {"STANDBY"}
        /\ UNCHANGED <<queue, begun, arrived, hit>>
    BY <1>36 DEF RobotRecover
  <2>2. UNCHANGED <<rpc, worker, current_move_action_id_>>
    BY <1>36 DEF Robot
  <2>3. flags \notin NormalFlags /\ flags' \in NormalFlags
    BY <2>1, FaultFlagsAssumption DEF NormalFlags
  <2>4. hit
    BY <2>3 DEF ControllerInv
  <2>5. UNCHANGED hit /\ Done'
    BY <2>1, <2>4 DEF Done
  <2> QED
    BY <2>1, <2>2, <2>3, <2>5 DEF ControllerInv
<1>37. CASE MinDurationElapses
  BY <1>37 DEF ControllerInv, UnderWay, Done, TrajectoryHandedOver,
     MinDurationElapses
<1>38. CASE UNCHANGED vars
  BY <1>38 DEF ControllerInv, UnderWay, Done, TrajectoryHandedOver, vars
<1>39. CASE RpcUnblocked
  BY <1>39 DEF ControllerInv, UnderWay, Done, TrajectoryHandedOver, RpcUnblocked
<1>40. CASE ClientStalls
  BY <1>40 DEF ControllerInv, UnderWay, Done, TrajectoryHandedOver, ClientStalls
<1>41. CASE ClientResumes
  BY <1>41 DEF ControllerInv, UnderWay, Done, TrajectoryHandedOver, ClientResumes
<1> QED
  BY ProcessRequestSteps, <1>1, <1>2, <1>3, <1>4, <1>5, <1>6, <1>7, <1>8, <1>9,
     <1>10, <1>11, <1>12, <1>13, <1>14, <1>15, <1>16, <1>17, <1>18, <1>19, <1>20,
     <1>21, <1>22, <1>23, <1>24, <1>25, <1>26, <1>27, <1>28, <1>29, <1>30, <1>31,
     <1>32, <1>33, <1>34, <1>35, <1>36, <1>37, <1>38, <1>39, <1>40, <1>41 DEF Next,
     HostThread, HostProgress, RpcThread, RpcStep, WorkerThread, Robot, RobotMoves,
     Client

\* Every step keeps SnapshotInv.
LEMMA SnapshotStep ==
  ASSUME SwitchesOK, ControlOK, MessagesOK, PlacesInv, TaskInv,
         ControllerInv, SnapshotInv, [Next]_vars
  PROVE  SnapshotInv'
<1> USE DEF robotVars, hostVars, sharedVars, workerVars, loopVars,
            moveVars, clientVars, lineVars, ghostVars, rpcLocalVars,
            otherThanWorkerVars, otherThanStallVars
<1>1. CASE HostActivate
  BY <1>1 DEF SnapshotInv, SnapshotTooOld, Done, HostActivate
<1>2. CASE HostDeactivate
  BY <1>2 DEF SnapshotInv, SnapshotTooOld, Done, HostDeactivate, HostCall
<1>3. CASE HostDestroy
  BY <1>3 DEF SnapshotInv, SnapshotTooOld, Done, HostDestroy, HostCall
<1>4. CASE HostDestruct
  BY <1>4 DEF SnapshotInv, SnapshotTooOld, Done, HostDestruct, HostCall
<1>5. CASE HostStoreStop
  BY <1>5 DEF SnapshotInv, SnapshotTooOld, Done, HostStoreStop
<1>6. CASE HostCheckJoinable
  BY <1>6 DEF SnapshotInv, SnapshotTooOld, Done, HostCheckJoinable, AfterHostStop
<1>7. CASE HostJoin
  BY <1>7 DEF SnapshotInv, SnapshotTooOld, Done, HostJoin, AfterHostStop
<1>8. CASE HostJoinMisuse
  BY <1>8 DEF SnapshotInv, SnapshotTooOld, Done, HostJoinMisuse
<1>9. CASE HostClearRunning
  BY <1>9 DEF SnapshotInv, SnapshotTooOld, Done, HostClearRunning
<1>10. CASE HostHalt
  BY <1>10 DEF SnapshotInv, SnapshotTooOld, Done, HostHalt
<1>11. CASE RpcSpin
  <2>1. /\ seen' = flags /\ (fresh' <=> begun) /\ rpc' = "drain"
    BY <1>11, Zenon DEF RpcSpin
  <2>2. UNCHANGED <<begun, young, current_move_action_id_, arrived, hit, cancelled,
                   truncated, overtaken>>
    BY <1>11, Zenon DEF RpcSpin
  <2>3. RobotStatus(flags) = "ERROR" => hit
    BY NormalStatus DEF ControllerInv
  <2> QED
    BY <2>1, <2>2, <2>3 DEF SnapshotInv, SnapshotTooOld, ControllerInv, UnderWay, Done
<1>12. CASE RpcExit
  BY <1>12 DEF SnapshotInv, SnapshotTooOld, Done, RpcExit
<1>13. CASE RpcAccept
  BY <1>13 DEF SnapshotInv, SnapshotTooOld, Done, RpcAccept
<1>14. CASE RpcPollFails
  BY <1>14 DEF SnapshotInv, SnapshotTooOld, Done, RpcPollFails
<1>15. CASE AnswerStep
  BY <1>15 DEF SnapshotInv, SnapshotTooOld, Done, AnswerStep, Answer, Receive, SendResponse
<1>16. CASE EngageStep
  BY <1>16 DEF SnapshotInv, SnapshotTooOld, Done, EngageStep, Engage, Receive, Task
<1>17. CASE RpcStopWorker
  BY <1>17 DEF SnapshotInv, SnapshotTooOld, Done, RpcStopWorker, AfterStop
<1>18. CASE RpcJoin
  BY <1>18 DEF SnapshotInv, SnapshotTooOld, Done, RpcJoin, AfterStop
<1>19. CASE RpcJoinMisuse
  BY <1>19 DEF SnapshotInv, SnapshotTooOld, Done, RpcJoinMisuse
<1>20. CASE RpcFinish
  BY <1>20 DEF SnapshotInv, SnapshotTooOld, Done, RpcFinish
<1>21. CASE RpcStartMove
  BY <1>21 DEF SnapshotInv, SnapshotTooOld, Done, RpcStartMove, StartAction, FollowTarget, Follow,
     Target, SendResponse, BackToPolling
<1>22. CASE RpcStartTrajectory
  BY <1>22 DEF SnapshotInv, SnapshotTooOld, Done, RpcStartTrajectory, FollowTarget, Follow, Target,
     PlacesInv
<1>23. CASE RpcSpawnWorker
  BY <1>23 DEF SnapshotInv, SnapshotTooOld, Done, RpcSpawnWorker, StartAction, SendResponse,
     BackToPolling
<1>24. CASE RpcMoveRejected
  BY <1>24 DEF SnapshotInv, SnapshotTooOld, Done, RpcMoveRejected, SendResponse, BackToPolling
<1>25. CASE RpcCancel
  BY <1>25 DEF SnapshotInv, SnapshotTooOld, Done, RpcCancel, Terminate, SendResponse, BackToPolling
<1>26. CASE RpcCancelRejected
  BY <1>26 DEF SnapshotInv, SnapshotTooOld, Done, RpcCancelRejected, SendResponse, BackToPolling
<1>27. CASE RpcUpdates
  BY <1>27 DEF SnapshotInv, SnapshotTooOld, Done, RpcUpdates, DueReason, Task
<1>28. CASE RpcUpdatesSkipped
  BY <1>28 DEF SnapshotInv, SnapshotTooOld, Done, RpcUpdatesSkipped
<1>29. CASE WorkerCheck
  BY <1>29 DEF SnapshotInv, SnapshotTooOld, Done, WorkerCheck
<1>30. CASE WorkerAdd
  BY <1>30 DEF SnapshotInv, SnapshotTooOld, Done, WorkerAdd, Add, Target
<1>31. CASE WorkerAddRejected
  BY <1>31 DEF SnapshotInv, SnapshotTooOld, Done, WorkerAddRejected
<1>32. CASE RobotBegin /\ Robot
  BY <1>32 DEF SnapshotInv, SnapshotTooOld, Done, RobotBegin, Robot
<1>33. CASE RobotReach /\ Robot
  BY <1>33 DEF SnapshotInv, SnapshotTooOld, Done, RobotReach, Robot
<1>34. CASE RobotRest /\ Robot
  BY <1>34 DEF SnapshotInv, SnapshotTooOld, Done, RobotRest, Robot
<1>35. CASE RobotFault /\ Robot
  BY <1>35 DEF SnapshotInv, SnapshotTooOld, Done, RobotFault, Robot
<1>36. CASE RobotRecover /\ Robot
  BY <1>36 DEF SnapshotInv, SnapshotTooOld, Done, RobotRecover, Robot
<1>37. CASE MinDurationElapses
  BY <1>37 DEF SnapshotInv, SnapshotTooOld, Done, MinDurationElapses
<1>38. CASE UNCHANGED vars
  BY <1>38 DEF SnapshotInv, SnapshotTooOld, Done, vars
<1>39. CASE RpcUnblocked
  BY <1>39 DEF SnapshotInv, SnapshotTooOld, Done, RpcUnblocked
<1>40. CASE ClientStalls
  BY <1>40 DEF SnapshotInv, SnapshotTooOld, Done, ClientStalls
<1>41. CASE ClientResumes
  BY <1>41 DEF SnapshotInv, SnapshotTooOld, Done, ClientResumes
<1> QED
  BY ProcessRequestSteps, <1>1, <1>2, <1>3, <1>4, <1>5, <1>6, <1>7, <1>8, <1>9,
     <1>10, <1>11, <1>12, <1>13, <1>14, <1>15, <1>16, <1>17, <1>18, <1>19, <1>20,
     <1>21, <1>22, <1>23, <1>24, <1>25, <1>26, <1>27, <1>28, <1>29, <1>30, <1>31,
     <1>32, <1>33, <1>34, <1>35, <1>36, <1>37, <1>38, <1>39, <1>40, <1>41 DEF Next,
     HostThread, HostProgress, RpcThread, RpcStep, WorkerThread, Robot, RobotMoves,
     Client

\* A new report comes from finishCurrentMoveAction and says the reason of its task.
LEMMA ReportEffect ==
  ASSUME MessagesOK, PendingInv, LineEffect,
         Len(sent') > Len(sent), sent'[Len(sent')].kind = "FINISHED"
  PROVE  /\ rpc = "finish"
         /\ sent'[Len(sent')].success = (task.why = "idle")
         /\ sent'[Len(sent')].blob = FinishBlob
<1>1. PICK f \in Frame : sent' = Append(sent, f) /\ MayBeSent(f)
  BY SentEffect DEF MessagesOK
<1>2. sent'[Len(sent')] = f
  BY <1>1, AppendFacts
<1> QED
  BY <1>1, <1>2 DEF MayBeSent

\* What the invariants of the other modules give a step here.
StepFacts ==
  /\ SwitchesOK /\ ControlOK /\ MessagesOK /\ PlacesInv
  /\ LifecycleInv /\ JoinInv
  /\ TaskInv /\ PendingInv

LEMMA StepFactsHold ==
  TypeOK /\ MoveInv /\ ThreadsInv /\ TaskInv /\ MessagesInv => StepFacts
BY TypeParts DEF MoveInv, ThreadsInv, MessagesInv, StepFacts

\* The controller and the snapshot of the RPC loop agree on the current move as
\* far as a report needs it, whatever the speeds of the threads and the controller.
THEOREM SnapshotsInTime == Spec => []TimingInv
<1>1. Init => TimingInv
  <2>1. {"STANDBY"} \in NormalFlags
    BY DEF NormalFlags
  <2> QED
    BY <2>1 DEF Init, RobotInit, TimingInv, ControllerInv, SnapshotInv, UnderWay
<1>2. StepFacts /\ TimingInv /\ [Next]_vars => TimingInv'
  BY ControllerStep, SnapshotStep DEF StepFacts, TimingInv
<1> QED
  BY <1>1, <1>2, StepFactsHold, TypeCorrect, MovesInOrder, ThreadsInPlace,
     MessagesInOrder, PTL DEF Spec

\* The six ways in which success is reported: the controller reached the stop point
\* of the move, or the move was cancelled, hit by a fault, given up by the worker or
\* overtaken, or no snapshot of it was taken while min_move_duration_us_ elapsed.
THEOREM SuccessIsEarned == Spec => SuccessMeansReached
<1>1. ASSUME StepFacts, TimingInv, [Next]_vars, NewReport(TRUE, "empty")
      PROVE  Done \/ SnapshotTooOld
  <2>1. rpc = "finish" /\ task.why = "idle"
    BY <1>1, LineEffects, ReportEffect DEF StepFacts, LineEffect, NewReport
  <2> QED
    BY <1>1, <2>1 DEF TimingInv, SnapshotInv
<1>2. StepFacts /\ TimingInv /\ [Next]_vars =>
        [NewReport(TRUE, "empty") =>
           arrived \/ cancelled \/ hit \/ truncated \/ overtaken \/ SnapshotTooOld]_vars
  BY <1>1 DEF Done
<1> QED
  BY <1>2, StepFactsHold, SnapshotsInTime, TypeCorrect, MovesInOrder, ThreadsInPlace,
     MessagesInOrder, PTL DEF Spec, SuccessMeansReached

\* A failure is reported as one of the robot when a fault struck after the controller
\* accepted the move, or when no snapshot was taken while min_move_duration_us_ elapsed.
THEOREM FailureIsFault == Spec => FailureHasCause
<1>1. ASSUME StepFacts, TimingInv, [Next]_vars, NewReport(FALSE, "fault")
      PROVE  hit \/ SnapshotTooOld
  <2>1. MessagesOK /\ PendingInv /\ LineEffect
    BY <1>1, LineEffects DEF StepFacts, LineEffect
  <2>2. rpc = "finish" /\ FinishBlob = "fault"
    BY <1>1, <2>1, ReportEffect DEF NewReport
  <2>3. task.why = "error"
    BY <2>2 DEF FinishBlob
  <2> QED
    BY <1>1, <2>2, <2>3 DEF TimingInv, SnapshotInv
<1>2. StepFacts /\ TimingInv /\ [Next]_vars =>
        [NewReport(FALSE, "fault") => hit \/ SnapshotTooOld]_vars
  BY <1>1
<1> QED
  BY <1>2, StepFactsHold, SnapshotsInTime, TypeCorrect, MovesInOrder, ThreadsInPlace,
     MessagesInOrder, PTL DEF Spec, FailureHasCause
=============================================================================
