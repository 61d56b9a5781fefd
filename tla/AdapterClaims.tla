--------------------------- MODULE AdapterClaims ---------------------------
(***************************************************************************)
(* What the protocol headers say of the adapter and AergoAdapter refutes.  *)
(***************************************************************************)
EXTENDS MCAergoAdapter

IsResponse(i) == sent[i].kind = "RESPONSE"

\* messages.h:21: a move command is answered SuccessInProgress with "no response
\* data".  The handler answers from the buffer finishCurrentMoveAction has used
\* for the report of the move it interrupted.
StartAnswerHasNoData ==
  \A i \in DOMAIN sent :
    IsResponse(i) /\ sent[i].resp_type = "SUCCESS_IN_PROGRESS" => sent[i].blob = "empty"

\* message_types.h:87: the action_id of a response is "copied from request for
\* UPDATE_ACTION".  errorResponse puts 0 there.
UpdateAnswerEchoesId ==
  \A i \in DOMAIN sent :
    IsResponse(i) /\ sent[i].req_type = "UPDATE_ACTION" => sent[i].action_id = sent[i].asked

\* message_types.h:101: success "indicates whether the action completed
\* successfully".  A trajectory whose worker gave up rests at a via point and is
\* reported as a success once the controller is idle.  (A late worker and a late
\* snapshot, which lead to the same, are left aside.)
SuccessMeansCompleted ==
  [][NewReport(TRUE, "empty") =>
       arrived \/ cancelled \/ hit \/ overtaken \/ SnapshotTooOld]_vars

\* message_types.h:32: FINISHED is sent "after a long-running action has finished".
\* When the controller refuses the first target of a new move, the move it was to
\* replace has been reported and goes on.
FinishedMeansOver ==
  rpc = "drain" => \A i \in DOMAIN queue : queue[i].move \notin ReportedActions
=============================================================================
