--------------------------- MODULE MCCodecSession ---------------------------
(***************************************************************************)
(* Small types and the objects of the run: every member different from its *)
(* neighbours, counts from none to above the limit, each option present    *)
(* and absent, the largest number of each type.                            *)
(***************************************************************************)
EXTENDS CodecSession

MCWidth == [u8 |-> 1, u32 |-> 2, u64 |-> 3, f64 |-> 2]

PoseOf(n) ==
  [px |-> n, py |-> n + 1, pz |-> n + 2, ow |-> n + 3, ox |-> n + 4, oy |-> n + 5,
   oz |-> n + 6]

Moved(kind) == [Blank(kind) EXCEPT !.speed = 9, !.acceleration = 63]

Arc(as_circle) ==
  [Moved("MoveArc") EXCEPT !.pose_through = PoseOf(1), !.pose_target = PoseOf(20),
     !.orientation_type = 1, !.as_circle = as_circle, !.circle_percentage = 12]

Trajectory(poses, type) ==
  [Moved("MoveTrajectory") EXCEPT !.pose_targets = poses, !.orientation_type = type]

StartObjects ==
  {[Moved("MoveJoint") EXCEPT !.joint_targets = s] : s \in {<<>>, <<5, 60>>, <<1, 2, 3>>}}
  \cup {[Moved("MoveLinear") EXCEPT !.pose_target = PoseOf(40)]}
  \cup {Arc(FALSE), Arc(TRUE)}
  \cup {Trajectory(<<>>, 0), Trajectory(<<PoseOf(8)>>, 1),
        Trajectory(<<PoseOf(8), PoseOf(16), PoseOf(24)>>, 1),
        Trajectory([i \in 1..4 |-> PoseOf(i)], 0)}
  \cup {Blank("GetRobotSpecs")}

Limits == <<[min |-> 1, max |-> 50], [min |-> 3, max |-> 33]>>

SpecsObjects ==
  {[max_velocity_linear |-> 11, max_velocity_angular |-> 12,
    max_acceleration_linear |-> 13, max_acceleration_angular |-> 14,
    num_joints |-> n, joint_limits |-> Limits] : n \in {1, 2, 3}}

Texts == {<<>>, <<3, 5>>, <<1, 2, 3, 4>>}

Status(positions, status, texts) ==
  [timestamp_us |-> 511, base_pose |-> PoseOf(1), flange_pose |-> PoseOf(30),
   end_effector_pose |-> PoseOf(57), joint_positions |-> positions, status |-> status,
   error_msg |-> texts]

StatusObjects ==
  {Status(<<7, 8>>, 2, {text}) : text \in Texts}
  \cup {Status(<<>>, 2, {}), Status(<<9>>, 1, {<<6>>}), Status(<<1, 2, 3>>, 0, {})}

MCObjects ==
  [start  |-> StartObjects,
   specs  |-> SpecsObjects,
   update |-> [request: {0, 7}],
   status |-> StatusObjects,
   error  |-> [error_msg: Texts],
   Request      |-> [req_type: {1}, feature: {10}, action_id: {0, 511}],
   Response     |-> [resp_type: {5}, action_id: {1, 300}],
   StatusHeader |-> [feature: {10}],
   Finished     |-> [action_id: {65}, success: BOOLEAN],
   FrameHeader  |-> [kind: {2}, request_id: {1, 63}, payload_size: {17}, blob_size: {40}]]
=============================================================================
