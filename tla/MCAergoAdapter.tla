--------------------------- MODULE MCAergoAdapter ---------------------------
(***************************************************************************)
(* Values for the constants of AergoAdapter that a .cfg cannot write, and  *)
(* the request sets of the runs.                                           *)
(***************************************************************************)
EXTENDS AergoAdapter

MCNumJoints == 7

Start(kind) == [NoRequest EXCEPT !.feature = "ROBOT_CONTROL",
                  !.req_type = "START_ACTION", !.kind = kind]
Update(kind, id) == [NoRequest EXCEPT !.feature = "ROBOT_CONTROL",
                       !.req_type = "UPDATE_ACTION", !.kind = kind, !.action_id = id]

Joint        == [Start("MoveJoint") EXCEPT !.joints = 7]
Linear       == Start("MoveLinear")
Arc          == Start("MoveArc")
Trajectory   == [Start("MoveTrajectory") EXCEPT !.poses = 3]
Cancel(id)   == Update("CancelMovement", id)

\* The requests that change the current move.
MoveRequests == {Joint, Trajectory, Cancel(1)}

\* One request per outcome of the handlers, with each move kind once.
ProtocolRequests ==
  {NoRequest, Start("garbage"), Update("garbage", 1), Start("GetRobotSpecs"),
   Linear, [Arc EXCEPT !.noCircle = TRUE], Update("OtherUpdate", 1), Cancel(1)}

\* A trajectory keeps a worker busy; another one replaces it.
LifecycleRequests == {[Trajectory EXCEPT !.poses = 2]}

LiveRequests == {[Trajectory EXCEPT !.poses = 2]}

\* Flags of a controller at rest: with and without SYNC, or always with it; and a
\* controller that shows TRACKING for good once it has moved.
RestAll    == {{"STANDBY"}, {"STANDBY", "SYNC"}}
RestInSync == {{"STANDBY", "SYNC"}}
RestNever  == {}

\* Flags of a controller that cannot move: a protective stop, freedrive, and no
\* motion flag at all.
FaultsNone      == {}
FaultsStop      == {{"STANDBY", "PSTOP"}}
FaultsFreedrive == {{"STANDBY", "FREEDRIVE"}}
FaultsDark      == {{}}
=============================================================================
