---------------------------- MODULE MoveContract ----------------------------
(***************************************************************************)
(* What the adapter promises about move actions, whatever its threads do   *)
(* (message_types.h, messages.h): ids are handed out in order and never    *)
(* reused, one action is in progress at a time, an action is ended once,   *)
(* and only an action that is being ended is reported as finished.  The    *)
(* report may be lost with the connection.                                 *)
(***************************************************************************)
EXTENDS Naturals

VARIABLES
  last,      \* id of the newest action, 0 before the first
  live,      \* id of the action in progress, 0 when there is none
  reported   \* ids of the actions reported as finished

contractVars == <<last, live, reported>>

ContractInit == last = 0 /\ live = 0 /\ reported = {}

StartMove ==
  /\ live = 0
  /\ last' = last + 1
  /\ live' = last'
  /\ UNCHANGED reported

EndMove ==
  /\ live # 0
  /\ live' = 0
  /\ reported' \in {reported, reported \cup {live}}
  /\ UNCHANGED last

ContractNext == StartMove \/ EndMove

ContractSpec == ContractInit /\ [][ContractNext]_contractVars

\* Only ids that were handed out are reported, and an action in progress is the
\* newest one and has not been reported.
ContractInv ==
  /\ last \in Nat
  /\ reported \subseteq 1..last
  /\ live \in {0, last}
  /\ live # 0 => live \notin reported
=============================================================================
