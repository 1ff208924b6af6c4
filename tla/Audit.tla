--------------------------------- MODULE Audit ---------------------------------
(***************************************************************************)
(* The readers that judge a run by its log: src/internal/invariant,        *)
(* src/internal/metrics and src/internal/diagnose.  Each of them walks the *)
(* events once with a few maps in hand; since the log only grows, the walk *)
(* over a longer log goes on where the shorter one ended.  A record holds  *)
(* the maps, and one operator per reader is the body of its loop.          *)
(*                                                                         *)
(* A map from tickets to booleans is the set of the tickets it holds true  *)
(* for; two sequence numbers that are only compared are the outcome of the *)
(* comparison.  Times, counts that are only printed, and the Shadow set    *)
(* are left out, and so are amendments; idempotency keys are in TaskGraph. *)
(***************************************************************************)
EXTENDS GoalViews

CONSTANT Tree        \* the contents of a commit, as the Gate sees them

NoTree == {}

\* An event: its type, the ticket and the goal it names, the tree it judges,
\* merges or delivers, and whether its reason is "verification failed: ...".
Event(type, t) ==
  [type |-> type, ticket |-> t, goal |-> GoalOf[t], tree |-> NoTree, judged |-> FALSE]
TreeEvent(type, t, tree) == [Event(type, t) EXCEPT !.tree = tree]
Judged(type, t, tree) == [TreeEvent(type, t, tree) EXCEPT !.judged = TRUE]
GoalEvent(type, g, tree) ==
  [type |-> type, ticket |-> 0, goal |-> g, tree |-> tree, judged |-> FALSE]

\* The invariants of Check that the loops below follow.
Checks == {"MergeImpliesVerified", "MergedAtMostOnceByQueue", "ApprovalGate", "CancelHonored",
           "DeliveredOnceAndVerified"}

AuditRecord ==
  [\* invariant.go, and metrics.go for passed
   passed : SUBSET Ticket, merged : SUBSET Ticket, requested : SUBSET Ticket,
   granted : SUBSET Ticket, late : SUBSET Ticket, cancelled : SUBSET Goal,
   sent : SUBSET Goal, last : [Goal -> SUBSET Tree], found : SUBSET Checks,
   \* metrics.go
   active : SUBSET Ticket, queued : SUBSET Ticket, unverified : BOOLEAN,
   \* diagnose.go
   verified : SUBSET Ticket, running : SUBSET Ticket, missing : SUBSET Ticket,
   passedTrees : SUBSET SUBSET Tree, failedTrees : SUBSET SUBSET Tree,
   \* no reader's: whose latest attempt ended in TicketInvalidated
   voided : SUBSET Ticket]

NothingRead ==
  [passed |-> {}, merged |-> {}, requested |-> {}, granted |-> {}, late |-> {},
   cancelled |-> {}, sent |-> {}, last |-> [g \in Goal |-> NoTree], found |-> {},
   active |-> {}, queued |-> {}, unverified |-> FALSE,
   verified |-> {}, running |-> {}, missing |-> {},
   passedTrees |-> {}, failedTrees |-> {}, voided |-> {}]

\* The set S with x in it if p holds, and without it otherwise.
Put(S, x, p) == IF p THEN S \cup {x} ELSE S \ {x}

-----------------------------------------------------------------------------
(* invariant.Check *)

Breach(name, p) == IF p THEN {name} ELSE {}

MergeBreaches(a, t) ==
  Breach("MergeImpliesVerified", t \notin a.passed)
    \cup Breach("MergedAtMostOnceByQueue", t \in a.merged)
    \cup Breach("ApprovalGate", t \in a.requested /\ t \notin a.granted)
    \cup Breach("CancelHonored", t \in a.late)

\* tk is the state before the event.
DeliveryBreaches(a, tk, e) ==
  Breach("DeliveredOnceAndVerified",
         \/ e.goal \in a.sent
         \/ ~GoalComplete(tk, e.goal)
         \/ e.tree # a.last[e.goal])

Check(a, tk, e) ==
  LET t == e.ticket
  IN CASE e.type = "ProposalSubmitted" ->
            [a EXCEPT !.passed = @ \ {t}, !.late = Put(@, t, e.goal \in a.cancelled)]
       [] e.type = "VerificationPassed" -> [a EXCEPT !.passed = @ \cup {t}]
       [] e.type = "ApprovalRequested" -> [a EXCEPT !.requested = @ \cup {t}]
       [] e.type = "ApprovalGranted" ->
            [a EXCEPT !.granted = @ \cup {t}, !.late = Put(@, t, e.goal \in a.cancelled)]
       [] e.type = "GoalCancelled" -> [a EXCEPT !.cancelled = @ \cup {e.goal}]
       [] e.type = "Merged" ->
            [a EXCEPT !.found = @ \cup MergeBreaches(a, t), !.merged = @ \cup {t},
                      !.last[e.goal] = e.tree]
       [] e.type = "Delivered" ->
            [a EXCEPT !.found = @ \cup DeliveryBreaches(a, tk, e), !.sent = @ \cup {e.goal}]
       [] OTHER -> a

\* Settled, for a run that has ended.
SettledLog(tk, gl) ==
  /\ \A g \in Goal : gl[g].cancelled \/ TasksOf(tk, g) # {}
  /\ WorkSettled(tk)

-----------------------------------------------------------------------------
(* metrics.Compute *)

EndsSession ==
  {"ProposalSubmitted", "TicketDecomposed", "TicketFailed", "WorkerRestarted", "WorkerStalled"}

LeavesQueue == {"TicketFailed", "VerificationFailed", "ApprovalRequested", "Merged"}

Measure(a, e) ==
  LET t == e.ticket
  IN [a EXCEPT !.active = IF e.type = "WorkStarted" THEN @ \cup {t}
                          ELSE IF e.type \in EndsSession THEN @ \ {t} ELSE @,
               !.queued = IF e.type = "ProposalSubmitted" THEN @ \cup {t}
                          ELSE IF e.type \in LeavesQueue THEN @ \ {t} ELSE @,
               !.unverified = @ \/ (e.type = "Merged" /\ t \notin a.passed)]

-----------------------------------------------------------------------------
(* diagnose.Classify *)

EndsAttempt ==
  {"VerificationFailed", "ProposalSubmitted", "Merged", "TicketFailed",
   "WorkerRestarted", "TicketDecomposed"}

Rejects(e) == e.tree # NoTree /\ e.type \in {"VerificationFailed", "TicketFailed"}

\* Mutant: a Gate that could not run is taken for one that failed.
AnyRejection(e) == Rejects(e)

\* isGateRejection: the rejection is the Gate's own verdict on a tree.
IsGateRejection(e) == Rejects(e) /\ e.judged

Classify(a, e) ==
  LET t == e.ticket
  IN [a EXCEPT !.running = IF e.type = "WorkStarted" THEN @ \cup {t}
                           ELSE IF e.type \in EndsAttempt THEN @ \ {t} ELSE @,
               !.verified = IF e.type = "VerificationPassed" THEN @ \cup {t} ELSE @,
               !.missing = IF e.type = "Merged" /\ t \notin a.verified THEN @ \cup {t} ELSE @,
               !.passedTrees = IF e.type = "VerificationPassed" THEN @ \cup {e.tree} ELSE @,
               !.failedTrees = IF IsGateRejection(e) THEN @ \cup {e.tree} ELSE @]

\* flakyGate: the Gate contradicted itself.
FlakyTrees(a) == a.passedTrees \cap a.failedTrees

\* The failed tickets that gave up by themselves, and the ones that could not go on.
Premature(tk) == {t \in Created(tk) : tk[t].status = "failed" /\ ~DeadDependency(tk, t)}

DeadEnds(tk) ==
  {t \in Created(tk) : tk[t].status = "failed" /\ DeadDependency(tk, t)} \cup Blocked(tk)

\* What is left over when a run has ended.
Starved(tk) == {t \in Created(tk) : tk[t].status = "ready"}

Deadlocked(tk) ==
  {t \in Created(tk) : tk[t].status \in {"pending", "claimed", "running", "proposed"}}
    \ DeadEnds(tk)

-----------------------------------------------------------------------------
Void(a, e) ==
  [a EXCEPT !.voided = IF e.type = "TicketInvalidated" THEN @ \cup {e.ticket}
                       ELSE IF e.type = "WorkStarted" THEN @ \ {e.ticket} ELSE @]

\* One more event on the log, read by all three.
Scan(a, tk, e) == Void(Classify(Measure(Check(a, tk, e), e), e), e)
=============================================================================
