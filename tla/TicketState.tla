----------------------------- MODULE TicketState -----------------------------
(***************************************************************************)
(* src/internal/state/state.go: what the log says of the tickets and goals.*)
(* Apply is one operator per event on the record of the ticket or the goal *)
(* it names; the queries are functions of the two tables tk and gl.        *)
(*                                                                         *)
(* Every attempt at a ticket carries the same worker name ("worker/" and   *)
(* the ticket's id), so the list ActiveWorkers is its length, and removing *)
(* that name from the list empties it.  LastActivity is reduced to the     *)
(* only question asked of it: is it older than the stall timeout (quiet)?  *)
(* A branch is named by the number of the claim it was cut for; text,      *)
(* commits, traces and sequence numbers of decisions are left out.         *)
(***************************************************************************)
EXTENDS Naturals, FiniteSets

CONSTANTS N,       \* tickets are 1..N, in the order of their ids
          G,       \* goals are 1..G, in the order of their ids
          GoalOf,  \* the goal of each ticket
          Kids,    \* the children a ticket is split into, if it is split
          Deps     \* what each ticket depends on

Ticket == 1..N
Goal   == 1..G

ASSUME GraphAssumption ==
  /\ N \in Nat \ {0}
  /\ G \in Nat \ {0}
  /\ GoalOf \in [Ticket -> Goal]
  /\ Kids \in [Ticket -> SUBSET Ticket]
  /\ Deps \in [Ticket -> SUBSET Ticket]
  /\ \A t \in Ticket : \A u \in Kids[t] : t < u /\ GoalOf[u] = GoalOf[t]
  /\ \A t \in Ticket : \A u \in Deps[t] : u < t
  /\ \A g \in Goal : \E t \in Ticket : GoalOf[t] = g

Worker == "worker"
Nobody == ""
NoReason == ""

Early    == {"pending", "ready", "claimed", "running"}
Terminal == {"merged", "failed", "decomposed"}
Status   == {"none", "proposed", "awaiting"} \cup Early \cup Terminal

\* "none" is a ticket the log has not created; born is its place in TicketOrder.
TicketRecord(Reason) ==
  [status : Status, born : Nat, active : Nat, worker : {Worker, Nobody},
   branch : Nat, attempts : Nat, reason : Reason \cup {NoReason}, same : Nat,
   approved : BOOLEAN, rejected : BOOLEAN, quiet : BOOLEAN]

GoalRecord == [submitted : BOOLEAN, cancelled : BOOLEAN, over : BOOLEAN, spent : Nat]

NoTicket == [status |-> "none", born |-> 0, active |-> 0, worker |-> Nobody,
             branch |-> 0, attempts |-> 0, reason |-> NoReason, same |-> 0,
             approved |-> FALSE, rejected |-> FALSE, quiet |-> FALSE]

NoGoal == [submitted |-> FALSE, cancelled |-> FALSE, over |-> FALSE, spent |-> 0]

-----------------------------------------------------------------------------
(* Apply *)

\* Mutant: the name is not found in the list.
RemoveNone(x, w) == x.active

\* removeWorker: every entry of the list that has the name.
RemoveWorker(x, w) == IF w = Worker THEN 0 ELSE x.active

TicketCreated(x, place) ==
  IF x.status = "none" THEN [NoTicket EXCEPT !.status = "pending", !.born = place] ELSE x

TicketReady(x) == IF x.status = "pending" THEN [x EXCEPT !.status = "ready"] ELSE x

TicketClaimed(x) ==
  [x EXCEPT !.status = "claimed", !.worker = Worker, !.active = @ + 1,
            !.attempts = @ + 1, !.quiet = FALSE]

WorkStarted(x) == [x EXCEPT !.status = "running", !.quiet = FALSE]

Heartbeat(x) == [x EXCEPT !.quiet = FALSE]

TicketDecomposed(x) ==
  [x EXCEPT !.status = "decomposed", !.active = 0, !.quiet = FALSE]

ProposalSubmitted(x, b) ==
  LET y == [x EXCEPT !.active = RemoveWorker(x, Worker), !.quiet = FALSE]
  IN IF x.status \in Early
     THEN [y EXCEPT !.status = "proposed", !.worker = Worker, !.branch = b]
     ELSE y

\* The streak of failures for one reason, and its length.
Streak(x, r) == IF r = x.reason THEN x.same + 1 ELSE 1

VerificationFailed(x, w, r) ==
  LET left == RemoveWorker(x, w)
      hits == (x.status = "proposed" /\ x.worker = w) \/ x.status \in Early
  IN [x EXCEPT !.active = left,
               !.status = IF ~hits THEN @ ELSE IF left = 0 THEN "ready" ELSE "running",
               !.reason = r, !.same = Streak(x, r),
               !.worker = Nobody, !.branch = 0, !.quiet = FALSE]

Merged(x) == [x EXCEPT !.status = "merged", !.active = 0, !.quiet = FALSE]

TicketFailed(x, w, r) ==
  LET left == RemoveWorker(x, w)
      hits == (x.status \in {"proposed", "awaiting"} /\ x.worker = w) \/ x.status \in Early
  IN [x EXCEPT !.active = left,
               !.status = IF ~hits THEN @ ELSE IF left = 0 THEN "failed" ELSE "running",
               !.reason = r, !.quiet = FALSE]

ApprovalRequested(x) ==
  IF x.status = "proposed" THEN [x EXCEPT !.status = "awaiting", !.quiet = FALSE] ELSE x

ApprovalGranted(x) ==
  IF x.status = "awaiting"
  THEN [x EXCEPT !.status = "proposed", !.approved = TRUE, !.quiet = FALSE] ELSE x

ApprovalDenied(x) ==
  IF x.status = "awaiting"
  THEN [x EXCEPT !.status = "failed", !.rejected = TRUE, !.quiet = FALSE] ELSE x

\* A restart by the failure detector gives no reason.
WorkerRestarted(x, w, r) ==
  LET left == RemoveWorker(x, w)
  IN [x EXCEPT !.active = left,
               !.status = IF left = 0 /\ @ \in Early THEN "ready" ELSE @,
               !.worker = Nobody, !.branch = 0, !.quiet = FALSE,
               !.reason = IF r = NoReason THEN @ ELSE r,
               !.same = IF r = NoReason THEN @ ELSE Streak(x, r)]

TicketInvalidated(x, r) ==
  [x EXCEPT !.active = RemoveWorker(x, Worker),
            !.status = IF @ \in {"ready", "claimed", "running"} THEN "pending" ELSE @,
            !.worker = Nobody, !.branch = 0, !.quiet = FALSE,
            !.reason = r]

GoalSubmitted(y) == [y EXCEPT !.submitted = TRUE]

GoalCancelled(y) == [y EXCEPT !.cancelled = TRUE]

GoalBudgetExceeded(y) == [y EXCEPT !.over = TRUE]

\* charge, up to the limit the spend is compared with.
Charge(y, limit) == IF y.spent < limit THEN [y EXCEPT !.spent = @ + 1] ELSE y

-----------------------------------------------------------------------------
(* Queries *)

Created(tk) == {t \in Ticket : tk[t].status # "none"}

TicketComplete(tk) ==
  LET complete[t \in Ticket] ==
        \/ tk[t].status = "merged"
        \/ tk[t].status = "decomposed" /\ \A u \in Kids[t] : complete[u]
  IN complete

TicketDead(tk) ==
  LET dead[t \in Ticket] ==
        \/ tk[t].status = "failed"
        \/ tk[t].status = "decomposed" /\ \E u \in Kids[t] : dead[u]
  IN dead

DepsSatisfied(tk, t) == \A u \in Deps[t] : TicketComplete(tk)[u]

DeadDependency(tk, t) == \E u \in Deps[t] : TicketDead(tk)[u]

\* Mutant: only tickets that were promoted are looked at.
BlockedOnceReady(tk) == {t \in Ticket : tk[t].status = "ready" /\ DeadDependency(tk, t)}

Blocked(tk) ==
  {t \in Created(tk) : tk[t].status \notin Terminal /\ DeadDependency(tk, t)}

\* Mutant: pending tickets are promoted without a look at their dependencies.
NewlyReadyAnyDeps(tk, gl) ==
  {t \in Ticket : tk[t].status = "pending" /\ ~gl[GoalOf[t]].cancelled}

NewlyReady(tk, gl) ==
  {t \in Ticket : /\ tk[t].status = "pending"
                  /\ DepsSatisfied(tk, t)
                  /\ ~gl[GoalOf[t]].cancelled}

ReadyTickets(tk, gl) ==
  {t \in Ticket : /\ tk[t].status \in {"ready", "claimed", "running"}
                  /\ ~gl[GoalOf[t]].cancelled}

Proposed(tk) == {t \in Ticket : tk[t].status = "proposed"}

NoneActive(tk) == \A t \in Ticket : tk[t].active = 0

Settled(tk) == \A t \in Created(tk) : tk[t].status \in Terminal

GoalOutcome(tk, gl, g) ==
  LET mine == {t \in Created(tk) : GoalOf[t] = g}
  IN IF gl[g].cancelled THEN "cancelled"
     ELSE IF mine = {} THEN "queued"
     ELSE IF \E t \in mine : tk[t].status = "awaiting" THEN "awaiting_approval"
     ELSE IF \E t \in mine : tk[t].status \notin Terminal THEN "running"
     ELSE IF gl[g].over \/ \E t \in mine : TicketDead(tk)[t] THEN "failed"
     ELSE IF \A t \in mine : TicketComplete(tk)[t] THEN "merged"
     ELSE "running"
=============================================================================
