---------------------------- MODULE CodecSession ----------------------------
(***************************************************************************)
(* The life of the objects around one pair of functions of the codec, here *)
(* called an interface: the buffer that its serializer fills again and     *)
(* again, and the object that its deserializer fills again and again, from *)
(* whole messages and from damaged ones: the reader of a connection whose  *)
(* frames were cut takes anything for a message.                           *)
(***************************************************************************)
EXTENDS RobotMessages, WireStructs

CONSTANTS
  Objects,      \* what is serialized through each interface
  MaxReads,     \* bound on the messages that are deserialized
  MaxDamaged    \* bound on the damaged ones

Payloads == {"start", "specs", "update", "status", "error"}
Structs  == {"Request", "Response", "StatusHeader", "Finished", "FrameHeader"}

ObjectTypes ==
  [start  |-> StartRequests,
   specs  |-> RobotSpecs,
   update |-> [request: Byte],
   status |-> StatusMessages(SUBSET Seq(Byte)),
   error  |-> [error_msg: Seq(Byte)],
   Request      |-> [req_type: Byte, feature: Number("u64"), action_id: Number("u64")],
   Response     |-> [resp_type: Byte, action_id: Number("u64")],
   StatusHeader |-> [feature: Number("u64")],
   Finished     |-> [action_id: Number("u64"), success: BOOLEAN],
   FrameHeader  |-> [kind: Byte, request_id: Number("u32"), payload_size: Number("u32"),
                     blob_size: Number("u32")]]

Encoded(i, old, o) ==
  CASE i = "start" ->
         (CASE o.kind = "MoveJoint"      -> moveJoint(old, o)
            [] o.kind = "MoveLinear"     -> moveLinear(old, o)
            [] o.kind = "MoveArc"        -> moveArc(old, o)
            [] o.kind = "MoveTrajectory" -> moveTrajectory(old, o)
            [] o.kind = "GetRobotSpecs"  -> getRobotSpecs(old))
    [] i = "specs"        -> robotSpecs(old, o)
    [] i = "update"       -> moveRequest(old, o)
    [] i = "status"       -> statusMessage(old, o)
    [] i = "error"        -> errorMessage(old, o)
    [] i = "Request"      -> Wrote(serializeRequest(o))
    [] i = "Response"     -> Wrote(serializeResponse(o))
    [] i = "StatusHeader" -> Wrote(serializeStatus(o))
    [] i = "Finished"     -> Wrote(serializeFinished(o))
    [] i = "FrameHeader"  -> Wrote(serializeHeader(o))

\* No read asks for more bytes at once.
LongestRead ==
  MaxText + CountWidth + Width["u64"] + (MaxJoints + 7) * Width["f64"]

\* The memory of the messages is far from the end of size_t.
ASSUME CodecBounds ==
  /\ DOMAIN Objects \subseteq Payloads \cup Structs
  /\ \A i \in DOMAIN Objects : \A o \in Objects[i] :
       /\ o \in ObjectTypes[i]
       /\ Len(Encoded(i, <<>>, o).bytes) + 1 + LongestRead < SizeRange
  /\ MaxReads \in Nat /\ MaxDamaged \in Nat

VARIABLES
  interface,
  buffer,     \* the serialization buffer
  given,      \* the object whose message it holds, if any
  thrown,     \* its serializer has thrown
  out,        \* the object of the deserializer
  last,       \* the last message deserialized, and how that went
  reads,      \* messages deserialized
  damaged     \* damaged messages

codecVars == <<interface, buffer, given, thrown, out, last, reads, damaged>>

Decoded(data) ==
  CASE interface = "start"        -> deserialize(data, out)
    [] interface = "specs"        -> deserializeRobotSpecs(data, out)
    [] interface = "update"       -> deserializeMoveRequest(data, out)
    [] interface = "status"       -> deserializeStatusMessage(data, out)
    [] interface = "error"        -> deserializeErrorMessage(data, out)
    [] interface = "Request"      -> deserializeRequest(data, out)
    [] interface = "Response"     -> deserializeResponse(data, out)
    [] interface = "StatusHeader" -> deserializeStatus(data, out)
    [] interface = "Finished"     -> deserializeFinished(data, out)
    [] interface = "FrameHeader"  -> deserializeHeader(data)

\* What an object of the deserializer is before its first use.
Fresh(i) ==
  CASE i = "start"  -> Blank("MoveJoint")
    [] i = "specs"  ->
         [max_velocity_linear |-> 0, max_velocity_angular |-> 0,
          max_acceleration_linear |-> 0, max_acceleration_angular |-> 0,
          num_joints |-> 0, joint_limits |-> <<>>]
    [] i = "update" -> [request |-> 0]
    [] i = "status" ->
         [timestamp_us |-> 0, base_pose |-> ZeroPose, flange_pose |-> ZeroPose,
          end_effector_pose |-> ZeroPose, joint_positions |-> <<>>, status |-> 0,
          error_msg |-> <<>>]
    [] i = "error"  -> [error_msg |-> <<>>]
    [] i \in Structs -> <<>>

NotRead == [how |-> "none", ok |-> FALSE, pos |-> 0, inside |-> TRUE]

CodecInit ==
  /\ interface \in DOMAIN Objects
  /\ buffer = <<>> /\ given = <<>> /\ thrown = FALSE
  /\ out = Fresh(interface) /\ last = NotRead
  /\ reads = 0 /\ damaged = 0

Serialize(o) ==
  /\ reads < MaxReads
  /\ given = <<>> \/ thrown \/ last # NotRead
  /\ LET m == Encoded(interface, buffer, o)
     IN buffer' = m.bytes /\ thrown' = m.thrown
  /\ given' = <<o>>
  /\ last' = NotRead
  /\ UNCHANGED <<interface, out, reads, damaged>>

\* What the buffer may have become on the way.  The frame header is read by size,
\* and never in part or from more.  A changed byte is zero, which is also a tag, or
\* one up or one down, where counts and flags have their limits; or a number has
\* become the largest of its type.
Ways == {"whole", "part", "longer", "changed"}

Slips(b) == {0, (b + 1) % Base, (b - 1) % Base} \ {b}
Largest(i) ==
  [j \in DOMAIN buffer |-> IF j \in i..(i + Width["u64"] - 1) THEN Base - 1 ELSE buffer[j]]

Slipped == UNION {{[buffer EXCEPT ![i] = b] : b \in Slips(buffer[i])} : i \in DOMAIN buffer}
Enlarged == {Largest(i) : i \in 1..(Len(buffer) - Width["u64"] + 1)}

Arrived(way) ==
  CASE way = "whole"  -> {buffer}
    [] way = "part"   -> IF interface = "FrameHeader" THEN {}
                         ELSE {SubSeq(buffer, 1, n) : n \in 0..(Len(buffer) - 1)}
    [] way = "longer" -> IF interface = "FrameHeader" THEN {} ELSE {Append(buffer, 0)}
    [] way = "changed" -> Slipped \cup Enlarged

Deserialize(data, way) ==
  /\ LET r == Decoded(data)
     IN /\ out' = r.out
        /\ last' = [how |-> way, ok |-> r.ok, pos |-> r.pos, inside |-> r.inside]
  /\ reads' = reads + 1
  /\ UNCHANGED <<interface, buffer, given, thrown>>

Receive ==
  /\ given # <<>> /\ last = NotRead
  /\ reads < MaxReads
  /\ \E way \in Ways :
       /\ way # "whole" => ~thrown /\ damaged < MaxDamaged
       /\ damaged' = damaged + (IF way = "whole" THEN 0 ELSE 1)
       /\ \E data \in Arrived(way) : Deserialize(data, way)

CodecNext ==
  \/ \E o \in Objects[interface] : Serialize(o)
  \/ Receive

CodecSpec == CodecInit /\ [][CodecNext]_codecVars

-----------------------------------------------------------------------------
(***************************************************************************)
(* Properties.                                                             *)
(***************************************************************************)
\* An object of the deserializer; nothing is there before a first RPC payload.
Received(i) ==
  CASE i = "status"   -> StatusMessages(Seq(Byte))
    [] i \in Structs  -> ObjectTypes[i] \cup {<<>>}
    [] OTHER          -> ObjectTypes[i]

\* The buffer holds bytes, and whatever was read, in whole or in part, leaves an
\* object of its type with no vector longer than its limit.
CodecTypeOK ==
  /\ interface \in DOMAIN Objects
  /\ buffer \in Seq(Byte)
  /\ thrown \in BOOLEAN
  /\ out \in Received(interface)
  /\ last \in [how: Ways \cup {"none"}, ok: BOOLEAN,
               pos: Nat, inside: BOOLEAN]
  /\ reads \in 0..MaxReads /\ damaged \in 0..MaxDamaged
  /\ interface = "start" =>
       /\ out.kind = "MoveJoint" => Len(out.joint_targets) <= MaxJoints
       /\ out.kind = "MoveTrajectory" => Len(out.pose_targets) <= MaxPoses
  /\ interface = "status" => Len(out.joint_positions) <= MaxJoints
  /\ interface \in {"status", "error"} => Len(out.error_msg) <= MaxText

\* What the object of the deserializer is to be when o has been sent.
ShortText(text) == IF Len(text) <= MaxText THEN text ELSE SubSeq(text, 1, MaxText)

Meaning(o) ==
  CASE interface = "status" ->
         [o EXCEPT !.error_msg = IF o.status = ERROR /\ @ # {}
                                 THEN ShortText(CHOOSE t \in @ : TRUE) ELSE <<>>]
    [] interface = "error" -> [error_msg |-> ShortText(o.error_msg)]
    [] interface = "specs" -> [o EXCEPT !.joint_limits = SubSeq(@, 1, o.num_joints)]
    [] OTHER -> o

\* Specifications with fewer limits than num_joints make no message.
Complete(o) == interface = "specs" => o.num_joints <= Len(o.joint_limits)

\* messages.h:236-239 has an update request of an unknown type refused by its reader,
\* which takes any byte and leaves the refusal to the adapter.
Documented(o) == interface = "update" => o.request = MoveRequest.CancelMovement

\* A whole message of a documented type makes of the deserializer's object what was
\* sent, whatever that object held before (the text of an earlier error, a longer
\* vector, half of a damaged message), whatever the buffer held before, and with each
\* byte used.
WholeIsUnderstood ==
  last.how = "whole" /\ ~thrown /\ Documented(given[1]) =>
    IF Complete(given[1])
    THEN /\ last.ok /\ out = Meaning(given[1])
         /\ interface # "specs" => last.pos = Len(buffer)
    ELSE ~last.ok

\* A message that ends early is refused: no count, text or optional part makes
\* a shorter message of it.  Specifications with more limits than num_joints have
\* bytes to lose.
PartIsRefused ==
  last.how = "part" /\ last.ok =>
    interface = "specs" /\ given[1].num_joints < Len(given[1].joint_limits)

\* What a serializer leaves in the buffer when it throws, which a caller that
\* catches the exception can still send, is refused.
ThrownIsRefused == last.how = "whole" /\ thrown => ~last.ok

\* No length or count in a damaged message makes the reader go past its end, the
\* sums of readBytes being those of size_t.
ReadsInside == last.inside

\* A refused request leaves the caller's object as it was; the other payloads are
\* filled as they are read.
RefusedRequestKeepsOld ==
  [][reads' # reads /\ ~last'.ok /\ interface \notin {"specs", "status", "error"}
       => out' = out]_codecVars

\* A start request is accepted only if a client could have sent one of that length:
\* counts within the limits and as many elements as were counted.
AcceptedCouldBeSent ==
  interface = "start" /\ last.ok =>
    LET m == Encoded(interface, <<>>, out)
    IN ~m.thrown /\ Len(m.bytes) = last.pos

\* messages.h:100-105: [u8 version][u8 type][u64 pose_count], so many poses of 7 f64,
\* [f64 speed][f64 acceleration][OrientationType:u8].
TrajectoryAsDocumented ==
  given # <<>> /\ ~thrown /\ interface = "start" =>
    (given[1].kind = "MoveTrajectory" =>
       Len(buffer) = 3 + Width["u64"]
                     + (7 * Len(given[1].pose_targets) + 2) * Width["f64"])
=============================================================================
