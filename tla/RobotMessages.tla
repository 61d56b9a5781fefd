--------------------------- MODULE RobotMessages ---------------------------
(***************************************************************************)
(* robot_control/messages.cpp: the payloads of the feature robot control.  *)
(* A serializer yields the bytes that it leaves in the buffer and whether  *)
(* it has thrown; a deserializer yields its reader.                        *)
(***************************************************************************)
EXTENDS ByteBuffer

CONSTANTS
  MaxJoints,    \* MAX_SUPPORTED_JOINTS, 16
  MaxPoses,     \* MAX_SUPPORTED_POSES, 32768
  MaxText,      \* MAX_ERROR_MESSAGE_LENGTH, 4096
  CountWidth    \* bytes of the pose count of a trajectory, 2

ASSUME LimitsAssumption ==
  /\ MaxJoints \in 0..(Base - 1)
  /\ CountWidth \in Nat \ {0} /\ MaxPoses \in 0..(Power(CountWidth) - 1)
  /\ MaxText \in 0..(SizeRange - 1)

Version == 1

RequestType ==
  [MoveJoint |-> 0, MoveLinear |-> 1, MoveArc |-> 2, MoveTrajectory |-> 3,
   GetRobotSpecs |-> 4]
RobotSpecsType == 0
MoveRequest == [CancelMovement |-> 0]
ERROR == 2

\* Each tag is a byte.
ASSUME TagsAssumption == \A kind \in DOMAIN RequestType : RequestType[kind] \in Byte

\* What the buffer of an earlier message still holds is left in it.
Clear_Kept(buffer) == buffer

\* buffer.clear()
Clear(buffer) == <<>>

Wrote(bytes) == [bytes |-> bytes, thrown |-> FALSE]
Threw(bytes) == [bytes |-> bytes, thrown |-> TRUE]

-----------------------------------------------------------------------------
(***************************************************************************)
(* The objects.                                                            *)
(***************************************************************************)
Double == Number("f64")
Pose ==
  [px: Double, py: Double, pz: Double, ow: Double, ox: Double, oy: Double, oz: Double]

StartRequests ==
  [kind: {"MoveJoint"}, joint_targets: Seq(Double), speed: Double, acceleration: Double]
  \cup [kind: {"MoveLinear"}, pose_target: Pose, speed: Double, acceleration: Double]
  \cup [kind: {"MoveArc"}, pose_through: Pose, pose_target: Pose, speed: Double,
        acceleration: Double, orientation_type: Byte, as_circle: BOOLEAN,
        circle_percentage: Double]
  \cup [kind: {"MoveTrajectory"}, pose_targets: Seq(Pose), speed: Double,
        acceleration: Double, orientation_type: Byte]
  \cup [kind: {"GetRobotSpecs"}]

RobotSpecs ==
  [max_velocity_linear: Double, max_velocity_angular: Double,
   max_acceleration_linear: Double, max_acceleration_angular: Double,
   num_joints: Byte, joint_limits: Seq([min: Double, max: Double])]

\* The text is a pointer on one side and a string on the other.
StatusMessages(Text) ==
  [timestamp_us: Number("u64"), base_pose: Pose, flange_pose: Pose,
   end_effector_pose: Pose, joint_positions: Seq(Double), status: Byte, error_msg: Text]

-----------------------------------------------------------------------------
(***************************************************************************)
(* Start requests.                                                         *)
(***************************************************************************)
PoseBytes(p) == F64s(<<p.px, p.py, p.pz, p.ow, p.ox, p.oy, p.oz>>)

SpeedBytes(o) == F64s(<<o.speed, o.acceleration>>)

moveJoint(buffer, o) ==
  IF Len(o.joint_targets) > MaxJoints
  THEN Threw(Clear(buffer))
  ELSE Wrote(Clear(buffer) \o U8(Version) \o U8(RequestType.MoveJoint)
             \o U8(Len(o.joint_targets)) \o F64s(o.joint_targets) \o SpeedBytes(o))

moveLinear(buffer, o) ==
  Wrote(Clear(buffer) \o U8(Version) \o U8(RequestType.MoveLinear)
        \o PoseBytes(o.pose_target) \o SpeedBytes(o))

moveArc(buffer, o) ==
  Wrote(Clear(buffer) \o U8(Version) \o U8(RequestType.MoveArc)
        \o PoseBytes(o.pose_through) \o PoseBytes(o.pose_target) \o SpeedBytes(o)
        \o U8(o.orientation_type) \o Bool(o.as_circle) \o F64(o.circle_percentage))

moveTrajectory(buffer, o) ==
  LET poses == o.pose_targets
  IN IF Len(poses) > MaxPoses
     THEN Threw(Clear(buffer))
     ELSE Wrote(Clear(buffer) \o U8(Version) \o U8(RequestType.MoveTrajectory)
                \o BytesOf(CountWidth, Len(poses))
                \o FlattenSeq([i \in DOMAIN poses |-> PoseBytes(poses[i])])
                \o SpeedBytes(o) \o U8(o.orientation_type))

getRobotSpecs(buffer) ==
  Wrote(Clear(buffer) \o U8(Version) \o U8(RequestType.GetRobotSpecs))

ReadVersion(r) == LET s == Read(r, "u8") IN Require(s, Local(s) = Version)

deserializePose(r, path) ==
  ReadDoubles(r, path, <<"px", "py", "pz", "ow", "ox", "oy", "oz">>)

ReadSpeed(r) == ReadDoubles(r, <<>>, <<"speed", "acceleration">>)

Indices(n) == [i \in 1..n |-> i]

\* Any count of joints is taken.
ReadJoints_Unlimited(r, member) ==
  LET s == Read(r, "u8")
  IN ReadDoubles(Resize(s, member, Local(s), 0), <<member>>, Indices(Local(s)))

\* A count of joints and so many doubles.
ReadJoints(r, member) ==
  LET s == Read(r, "u8")
      counted == Require(s, Local(s) <= MaxJoints)
  IN ReadDoubles(Resize(counted, member, Local(s), 0), <<member>>, Indices(Local(s)))

\* The requests as C++ initialises them.
ZeroPose == [px |-> 0, py |-> 0, pz |-> 0, ow |-> 0, ox |-> 0, oy |-> 0, oz |-> 0]

Blank(kind) ==
  CASE kind = "MoveJoint" ->
         [kind |-> kind, joint_targets |-> <<>>, speed |-> 0, acceleration |-> 0]
    [] kind = "MoveLinear" ->
         [kind |-> kind, pose_target |-> ZeroPose, speed |-> 0, acceleration |-> 0]
    [] kind = "MoveArc" ->
         [kind |-> kind, pose_through |-> ZeroPose, pose_target |-> ZeroPose,
          speed |-> 0, acceleration |-> 0, orientation_type |-> 0,
          as_circle |-> FALSE, circle_percentage |-> 0]
    [] kind = "MoveTrajectory" ->
         [kind |-> kind, pose_targets |-> <<>>, speed |-> 0, acceleration |-> 0,
          orientation_type |-> 0]
    [] kind = "GetRobotSpecs" -> [kind |-> kind]

deserializeMoveJointRequest(r) == ReadSpeed(ReadJoints(r, "joint_targets"))

deserializeMoveLinearRequest(r) == ReadSpeed(deserializePose(r, <<"pose_target">>))

deserializeMoveArcRequest(r) ==
  LET poses == deserializePose(deserializePose(r, <<"pose_through">>), <<"pose_target">>)
      oriented == ReadTo(ReadSpeed(poses), "u8", "orientation_type")
  IN ReadTo(ReadBool(oriented, "as_circle"), "f64", "circle_percentage")

deserializeMoveTrajectoryRequest(r) ==
  LET s == Take(r, CountWidth)
      counted == Require(s, Local(s) <= MaxPoses)
      sized == Resize(counted, "pose_targets", Local(s), ZeroPose)
      filled[i \in 0..Local(s)] ==
        IF i = 0 THEN sized ELSE deserializePose(filled[i - 1], <<"pose_targets", i>>)
  IN ReadTo(ReadSpeed(filled[Local(s)]), "u8", "orientation_type")

Parsed(r, kind) ==
  LET s == [r EXCEPT !.out = Blank(kind)]
  IN CASE kind = "MoveJoint"      -> deserializeMoveJointRequest(s)
       [] kind = "MoveLinear"     -> deserializeMoveLinearRequest(s)
       [] kind = "MoveArc"        -> deserializeMoveArcRequest(s)
       [] kind = "MoveTrajectory" -> deserializeMoveTrajectoryRequest(s)
       [] kind = "GetRobotSpecs"  -> s

\* The request is filled where the caller sees it.
deserialize_InPlace(data, out) ==
  LET tag == Read(ReadVersion(Reader(data, out)), "u8")
      kinds == {kind \in DOMAIN RequestType : RequestType[kind] = Local(tag)}
  IN IF tag.ok /\ kinds # {}
     THEN Parsed(tag, CHOOSE kind \in kinds : TRUE)
     ELSE Require(tag, FALSE)

\* out_request is assigned when all of the request has been read.
deserialize(data, out) ==
  LET tag == Read(ReadVersion(Reader(data, out)), "u8")
      kinds == {kind \in DOMAIN RequestType : RequestType[kind] = Local(tag)}
      parsed == Parsed(tag, CHOOSE kind \in kinds : TRUE)
  IN IF ~tag.ok \/ kinds = {} THEN Require(tag, FALSE)
     ELSE IF parsed.ok THEN parsed
     ELSE [parsed EXCEPT !.out = out]

-----------------------------------------------------------------------------
(***************************************************************************)
(* Robot specifications; num_joints is written without looking at the      *)
(* limits, and read without a bound.                                       *)
(***************************************************************************)
robotSpecs(buffer, o) ==
  LET limits == o.joint_limits
  IN Wrote(Clear(buffer) \o U8(Version) \o U8(RobotSpecsType)
           \o F64s(<<o.max_velocity_linear, o.max_velocity_angular,
                     o.max_acceleration_linear, o.max_acceleration_angular>>)
           \o U8(o.num_joints)
           \o FlattenSeq([i \in DOMAIN limits |-> F64s(<<limits[i].min, limits[i].max>>)]))

deserializeRobotSpecs(data, out) ==
  LET tag == Read(ReadVersion(Reader(data, out)), "u8")
      maxima == ReadDoubles(Require(tag, Local(tag) = RobotSpecsType),
                  <<>>, <<"max_velocity_linear", "max_velocity_angular",
                          "max_acceleration_linear", "max_acceleration_angular">>)
      counted == ReadTo(maxima, "u8", "num_joints")
      JointRange(r, i) ==
        LET min == Read(r, "f64")
            max == Read(min, "f64")
        IN Store(max, <<"joint_limits", i>>, [min |-> Local(min), max |-> Local(max)])
      filled[i \in 0..Local(counted)] ==
        IF i = 0 THEN Resize(counted, "joint_limits", Local(counted), [min |-> 0, max |-> 0])
        ELSE JointRange(filled[i - 1], i)
  IN filled[Local(counted)]

-----------------------------------------------------------------------------
(***************************************************************************)
(* Update requests.                                                        *)
(***************************************************************************)
moveRequest(buffer, o) == Wrote(Clear(buffer) \o U8(Version) \o U8(o.request))

deserializeMoveRequest(data, out) ==
  ReadTo(ReadVersion(Reader(data, out)), "u8", "request")

-----------------------------------------------------------------------------
(***************************************************************************)
(* Texts, status messages and error messages.  The error text of a status  *)
(* to be written is a set of at most one, empty for nullptr.               *)
(***************************************************************************)
Clipped(text) == IF Len(text) > MaxText THEN MaxText ELSE Len(text)

TextBytes(text) == U64(Clipped(text)) \o PushedBytes(text, Clipped(text))

\* Any length is taken.
ReadText_Unlimited(r, member) ==
  LET s == Read(r, "u64")
  IN ReadBytes(Resize(s, member, Local(s), 0), Local(s), member)

\* The result of readBytes is not looked at.
ReadText_Unchecked(r, member) ==
  LET s == Read(r, "u64")
      counted == Require(s, Local(s) <= MaxText)
      text == ReadBytes(Resize(counted, member, Local(s), 0), Local(s), member)
  IN [text EXCEPT !.ok = counted.ok]

ReadText(r, member) ==
  LET s == Read(r, "u64")
      counted == Require(s, Local(s) <= MaxText)
  IN ReadBytes(Resize(counted, member, Local(s), 0), Local(s), member)

\* The joints are counted after half of the message has been written.
statusMessage(buffer, o) ==
  LET start == Clear(buffer) \o U8(Version) \o U64(o.timestamp_us)
               \o PoseBytes(o.base_pose) \o PoseBytes(o.flange_pose)
               \o PoseBytes(o.end_effector_pose)
      has_error_msg == o.status = ERROR /\ o.error_msg # {}
      joints == U8(Len(o.joint_positions)) \o F64s(o.joint_positions)
      text == IF has_error_msg THEN TextBytes(CHOOSE t \in o.error_msg : TRUE) ELSE <<>>
  IN IF Len(o.joint_positions) > MaxJoints
     THEN Threw(start)
     ELSE Wrote(start \o joints \o U8(o.status) \o Bool(has_error_msg) \o text)

\* A message without text leaves the text of an earlier one.
deserializeStatusMessage_TextKept(data, out) ==
  LET stamped == ReadTo(ReadVersion(Reader(data, out)), "u64", "timestamp_us")
      base == deserializePose(stamped, <<"base_pose">>)
      flange == deserializePose(base, <<"flange_pose">>)
      effector == deserializePose(flange, <<"end_effector_pose">>)
      status == ReadTo(ReadJoints(effector, "joint_positions"), "u8", "status")
      flag == Read(status, "u8")
  IN IF Local(flag) # 0 THEN ReadText(flag, "error_msg") ELSE flag

deserializeStatusMessage(data, out) ==
  LET stamped == ReadTo(ReadVersion(Reader(data, out)), "u64", "timestamp_us")
      base == deserializePose(stamped, <<"base_pose">>)
      flange == deserializePose(base, <<"flange_pose">>)
      effector == deserializePose(flange, <<"end_effector_pose">>)
      status == ReadTo(ReadJoints(effector, "joint_positions"), "u8", "status")
      flag == Read(status, "u8")
  IN IF Local(flag) # 0 THEN ReadText(flag, "error_msg")
                        ELSE Resize(flag, "error_msg", 0, 0)

errorMessage(buffer, o) ==
  Wrote(Clear(buffer) \o U8(Version) \o TextBytes(o.error_msg))

deserializeErrorMessage(data, out) ==
  ReadText(ReadVersion(Reader(data, out)), "error_msg")
=============================================================================
