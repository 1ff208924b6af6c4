------------------------------- MODULE GoalViews -------------------------------
(***************************************************************************)
(* What src/internal/state/state.go and src/cmd/aoa/status.go tell of a    *)
(* goal: whether its work is complete, where it stands, its conditions, and*)
(* what `aoa status`, `aoa wait` and `aoa cancel` make of them.  tk and gl *)
(* are the tables of TicketState; dl holds, for each goal, what pull       *)
(* requests added: its branch, its delivery, the error of the latest try.  *)
(***************************************************************************)
EXTENDS TicketState

DeliveryRecord == [branch : BOOLEAN, delivered : BOOLEAN, url : BOOLEAN, error : BOOLEAN]

NoDelivery == [branch |-> FALSE, delivered |-> FALSE, url |-> FALSE, error |-> FALSE]

-----------------------------------------------------------------------------
(* Apply *)

MergedOnBranch(d) == [d EXCEPT !.branch = TRUE]

Delivered(d, url) == [d EXCEPT !.delivered = TRUE, !.url = url, !.error = FALSE]

DeliveryFailed(d) == [d EXCEPT !.error = TRUE]

-----------------------------------------------------------------------------
(* Queries *)

TasksOf(tk, g) == {t \in Created(tk) : GoalOf[t] = g}

AnyAwaiting(tk, g) == \E t \in TasksOf(tk, g) : tk[t].status = "awaiting"

AnyInFlight(tk, g) == \E t \in TasksOf(tk, g) : tk[t].status \notin Terminal \cup {"awaiting"}

GoalComplete(tk, g) ==
  /\ TasksOf(tk, g) # {}
  /\ \A t \in TasksOf(tk, g) : TicketComplete(tk)[t]

\* Mutant: after a failure there is no second try.
DeliverableOnce(tk, gl, dl, g) ==
  /\ ~gl[g].cancelled /\ ~dl[g].delivered /\ ~dl[g].error
  /\ dl[g].branch /\ GoalComplete(tk, g)

Deliverable(tk, gl, dl, g) ==
  ~gl[g].cancelled /\ ~dl[g].delivered /\ dl[g].branch /\ GoalComplete(tk, g)

\* GoalOutcome, with the cases a goal branch adds to TicketState's.
Outcome(tk, gl, dl, g) ==
  IF gl[g].cancelled THEN "cancelled"
  ELSE IF dl[g].delivered THEN "delivered"
  ELSE IF TasksOf(tk, g) = {} THEN "queued"
  ELSE IF AnyAwaiting(tk, g) THEN "awaiting_approval"
  ELSE IF AnyInFlight(tk, g) \/ (GoalComplete(tk, g) /\ dl[g].branch) THEN "running"
  ELSE IF gl[g].over \/ \E t \in TasksOf(tk, g) : TicketDead(tk)[t] THEN "failed"
  ELSE IF GoalComplete(tk, g) THEN "merged"
  ELSE "running"

\* outcomeReasons: the outcomes of a settled goal.
SettledOutcomes == {"merged", "delivered", "failed", "cancelled"}

-----------------------------------------------------------------------------
(* GoalConditions: each condition is its status and its reason. *)

Yes(reason) == <<"True", reason>>
No(reason)  == <<"False", reason>>

Accepted(tk, gl, g) ==
  IF TasksOf(tk, g) # {} THEN Yes("TasksCreated")
  ELSE IF gl[g].cancelled THEN No("Cancelled")
  ELSE No("Queued")

Verified(tk, gl, g) ==
  IF GoalComplete(tk, g) THEN Yes("AllMerged")
  ELSE IF gl[g].cancelled THEN No("Cancelled")
  ELSE IF TasksOf(tk, g) = {} THEN No("Queued")
  ELSE IF AnyAwaiting(tk, g) THEN No("AwaitingApproval")
  ELSE IF AnyInFlight(tk, g) THEN No("WorkInProgress")
  ELSE IF gl[g].over THEN No("BudgetExceeded")
  ELSE IF \E t \in TasksOf(tk, g) : tk[t].status = "failed" /\ tk[t].rejected
       THEN No("ApprovalDenied")
  ELSE IF \E t \in TasksOf(tk, g) : tk[t].status = "failed" THEN No("TaskFailed")
  ELSE No("WorkInProgress")

DeliveredCondition(tk, gl, dl, g) ==
  IF dl[g].delivered THEN Yes(IF dl[g].url THEN "PullRequestOpened" ELSE "BranchPushed")
  ELSE IF gl[g].cancelled THEN No("Cancelled")
  ELSE IF dl[g].error THEN No("DeliveryFailed")
  ELSE IF ~dl[g].branch THEN <<"Unknown", "NoGoalBranch">>
  ELSE IF GoalComplete(tk, g) THEN No("DeliveryPending")
  ELSE No("NotVerified")

Complete(tk, gl, dl, g) ==
  LET outcome == Outcome(tk, gl, dl, g)
      onBranch == GoalComplete(tk, g) /\ dl[g].branch
  IN IF outcome = "cancelled" /\ (AnyInFlight(tk, g) \/ AnyAwaiting(tk, g))
        THEN No("Cancelling")
     ELSE IF outcome \in SettledOutcomes THEN Yes(outcome)
     ELSE IF outcome = "queued" THEN No("Queued")
     ELSE IF outcome = "awaiting_approval" THEN No("AwaitingApproval")
     ELSE IF onBranch /\ dl[g].error THEN No("DeliveryFailed")
     ELSE IF onBranch THEN No("DeliveryPending")
     ELSE No("WorkInProgress")

GoalConditions(tk, gl, dl, g) ==
  [accepted  |-> Accepted(tk, gl, g),
   verified  |-> Verified(tk, gl, g),
   delivered |-> DeliveredCondition(tk, gl, dl, g),
   complete  |-> Complete(tk, gl, dl, g)]

-----------------------------------------------------------------------------
(* What the commands make of them *)

\* `aoa wait` and StatusView.Settled: nothing more happens to the goal.
GoalDone(conditions) == conditions.complete[1] = "True"

\* The text of `aoa status`: no task is in flight.
WorkSettled(tk) == \A t \in Created(tk) : tk[t].status \in Terminal

\* Mutant: a settled goal may be cancelled.
CancelsAlways(tk, gl, dl, g) == ~gl[g].cancelled

\* cancelGoal appends an event: the goal is neither settled nor cancelled.
Cancels(tk, gl, dl, g) ==
  ~gl[g].cancelled /\ Outcome(tk, gl, dl, g) \notin {"merged", "failed", "delivered"}
=============================================================================
