---------------------------- MODULE KassowRobot ----------------------------
(***************************************************************************)
(* The Kassow robot controller as the CBun sees it through kr2rc_api2::Move*)
(* and the SysStat_RCState flags.  The controller is not part of the       *)
(* repository: this module is what aergo_adapter_impl.cpp relies on.       *)
(*                                                                         *)
(* A target is one knot of a move: `move` names the move it belongs to and *)
(* `stop` tells a stop point (the last target of a move) from a via point. *)
(***************************************************************************)
EXTENDS Naturals, Sequences

CONSTANTS
  RestFlags,   \* sets of flags the controller shows when the arm has come to rest
  FaultFlags,  \* sets of flags the controller shows while it cannot move
  MaxFaults    \* bound on the faults of a behaviour

ASSUME RestFlagsAssumption ==
  RestFlags \subseteq {{"STANDBY"}, {"STANDBY", "SYNC"}}
ASSUME FaultFlagsAssumption ==
  {{"STANDBY"}, {"STANDBY", "SYNC"}, {"TRACKING"}} \cap FaultFlags = {}
ASSUME MaxFaultsAssumption == MaxFaults \in Nat

VARIABLES
  flags,     \* the motion and safety flags that are raised
  queue,     \* targets the controller still has to reach
  begun,     \* the controller has acted on the newest follow or terminate
  arrived,   \* a stop point was reached since the newest follow (history)
  hit,       \* a fault struck since the newest follow (history)
  faults     \* number of faults so far

robotVars == <<flags, queue, begun, arrived, hit, faults>>

NormalFlags == {{"STANDBY"}, {"STANDBY", "SYNC"}, {"TRACKING"}}

Target(move, stop) == [move |-> move, stop |-> stop]

RobotInit ==
  /\ flags = {"STANDBY"}
  /\ queue = <<>>
  /\ begun = TRUE
  /\ arrived = FALSE
  /\ hit = FALSE
  /\ faults = 0

(***************************************************************************)
(* Commands.  Each models the accepted outcome; a rejected command changes *)
(* nothing.  follow replaces whatever the controller was doing, add        *)
(* extends it, terminate drops it.  A controller in a fault accepts no     *)
(* motion.                                                                 *)
(***************************************************************************)
Operational == flags \in NormalFlags

Follow(target) ==
  /\ Operational
  /\ queue' = <<target>>
  /\ begun' = FALSE
  /\ arrived' = FALSE
  /\ hit' = FALSE
  /\ UNCHANGED <<flags, faults>>

Add(target) ==
  /\ Operational
  /\ queue' = Append(queue, target)
  /\ UNCHANGED <<flags, begun, arrived, hit, faults>>

Terminate ==
  /\ queue' = <<>>
  /\ begun' = TRUE
  /\ UNCHANGED <<flags, arrived, hit, faults>>

(***************************************************************************)
(* The controller's own steps.                                             *)
(***************************************************************************)
RobotBegin ==
  /\ Operational
  /\ queue # <<>>
  /\ ~ begun \/ flags # {"TRACKING"}
  /\ flags' = {"TRACKING"}
  /\ begun' = TRUE
  /\ UNCHANGED <<queue, arrived, hit, faults>>

RobotReach ==
  /\ flags = {"TRACKING"}
  /\ begun
  /\ queue # <<>>
  /\ queue' = Tail(queue)
  /\ arrived' = (arrived \/ Head(queue).stop)
  /\ UNCHANGED <<flags, begun, hit, faults>>

\* The arm comes to rest; SYNC may stay up for a while at the end of a move.
RobotRest ==
  /\ flags = {"TRACKING"}
  /\ queue = <<>>
  /\ flags' \in RestFlags
  /\ UNCHANGED <<queue, begun, arrived, hit, faults>>

\* A protective or emergency stop, freedrive, ...: the motion is dropped.
RobotFault ==
  /\ Operational
  /\ faults < MaxFaults
  /\ flags' \in FaultFlags
  /\ queue' = <<>>
  /\ begun' = TRUE
  /\ hit' = TRUE
  /\ faults' = faults + 1
  /\ UNCHANGED arrived

RobotRecover ==
  /\ flags \in FaultFlags
  /\ flags' = {"STANDBY"}
  /\ UNCHANGED <<queue, begun, arrived, hit, faults>>

RobotTypeOK ==
  /\ flags \in NormalFlags \cup FaultFlags
  /\ queue \in Seq([move: Nat, stop: BOOLEAN])
  /\ begun \in BOOLEAN
  /\ arrived \in BOOLEAN
  /\ hit \in BOOLEAN
  /\ faults \in 0..MaxFaults
=============================================================================
