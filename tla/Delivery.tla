-------------------------------- MODULE Delivery --------------------------------
(***************************************************************************)
(* Pull-request mode (src/internal/orchestrator/deliver.go and the parts of*)
(* orchestrator.go it changes): every goal has a branch of its own, which  *)
(* only a merge that passed the Gate moves; a goal whose work is complete  *)
(* is pushed and a pull request opened for it, once.                       *)
(*                                                                         *)
(* The passes of Run are followed phase by phase: a phase loads the state, *)
(* lists what it has to do and does it one item at a time, while attempts  *)
(* and people go on.  What an attempt does inside, and what happens between*)
(* its appends, is in Scheduler; what a merge does inside is in MergeQueue.*)
(* A commit is the set of changes in it.  Good and bad tell the changes the*)
(* Gate passes from those it does not.                                     *)
(***************************************************************************)
EXTENDS Audit, FiniteSetsExt

CONSTANT Options   \* the settings a run of the model is under

\* approval and attempts are Options.RequireApproval and MaxAttempts; made tells
\* whether an earlier run has made the tickets; the goals in cancels may be
\* cancelled; faults bounds the crashes, failures, flips of the Gate and
\* invalidations.
ASSUME DeliveryAssumption ==
  /\ Options \subseteq [approval : BOOLEAN, attempts : Nat \ {0}, made : BOOLEAN,
                        cancels : SUBSET Goal, faults : Nat]
  /\ Tree = Ticket \X {"good", "bad"}

VARIABLES tk, gl, dl,   \* the state the log folds to
          acc,          \* what the readers of Audit have gathered from the log
          pc,           \* where Run is
          todo,         \* what is left of the list of this phase
          head,         \* the commit the repository is detached on
          opt,          \* the settings
          tried,        \* deliveryTried
          moved,        \* something was appended since the pass began
          flight,       \* the attempt at each ticket: launched, working or none
          base,         \* the commit its worktree was cut from
          cand,         \* the commit on the branch of each ticket
          tip,          \* where the goal branches point; a branch is cut empty
          gated,        \* history: the commits of each that passed the Gate
          pushed,       \* the goal branches on the remote
          remote,       \* where those point
          flipped,      \* history: the Gate contradicted itself
          faults

logVars  == <<tk, gl, dl, acc>>
runVars  == <<pc, todo, tried, moved>>
gitVars  == <<opt, head, tip, gated, pushed, remote>>
workVars == <<flight, base, cand>>
vars == <<logVars, runVars, gitVars, workVars, flipped, faults>>

Commit == SUBSET Tree

Red(c) == \E x \in c : x[2] = "bad"

Phase == {"create", "cancel", "promote", "launch", "merge", "deliver", "block", "restart"}
Label == Phase \cup {"off", "gate", "park", "update", "verified", "record", "push", "open", "note"}

\* The tickets the Scheduler makes of a goal itself, rather than of a split.
Roots == {t \in Ticket : \A u \in Ticket : t \notin Kids[u]}

Init ==
  /\ opt \in Options
  /\ tk = [t \in Ticket |->
            IF ~opt.made THEN NoTicket
            ELSE IF Kids[t] # {}
                 THEN TicketDecomposed(WorkStarted(TicketClaimed(TicketReady(
                        TicketCreated(NoTicket, t)))))
                 ELSE TicketCreated(NoTicket, t)]
  /\ gl = [g \in Goal |-> GoalSubmitted(NoGoal)]
  /\ dl = [g \in Goal |-> NoDelivery]
  /\ acc = NothingRead
  /\ pc = "off" /\ todo = {} /\ head = {} /\ tried = {} /\ moved = FALSE
  /\ flight = [t \in Ticket |-> "no"] /\ base = [t \in Ticket |-> {}]
  /\ cand = [t \in Ticket |-> {}]
  /\ tip = [g \in Goal |-> {}] /\ gated = [g \in Goal |-> {{}}]
  /\ pushed = {} /\ remote = [g \in Goal |-> {}]
  /\ flipped = FALSE /\ faults = 0

-----------------------------------------------------------------------------
(* Appends *)

Emit(t, record, e) ==
  /\ tk' = [tk EXCEPT ![t] = record]
  /\ acc' = Scan(acc, tk, e)
  /\ moved' = TRUE

EmitGoal(g, d, e) ==
  /\ dl' = [dl EXCEPT ![g] = d]
  /\ acc' = Scan(acc, tk, e)
  /\ moved' = TRUE
  /\ UNCHANGED <<tk, gl>>

Fault == faults < opt.faults /\ faults' = faults + 1

-----------------------------------------------------------------------------
(* The phases of a pass *)

First(S) == Min(S)

InFlight(t) == flight[t] # "no"

GoalHasTickets(g) == TasksOf(tk, g) # {}

Doomed ==
  {t \in Created(tk) : /\ gl[GoalOf[t]].cancelled
                       /\ tk[t].status \notin Terminal \cup {"claimed", "running"}
                       /\ ~InFlight(t)}

Dispatchable == {t \in ReadyTickets(tk, gl) : tk[t].active = 0 /\ ~InFlight(t)}

Undelivered == {g \in Goal \ tried : Deliverable(tk, gl, dl, g)}

\* detectStalled, for attempts that died with their process.
Stalled == {t \in Ticket : tk[t].status \in {"claimed", "running"} /\ ~InFlight(t)}

NextPhase ==
  [create |-> "cancel", cancel |-> "promote", promote |-> "launch", launch |-> "merge",
   merge |-> "deliver", deliver |-> "block", block |-> "restart"]

\* loadState at the start of a phase, and the list the phase takes from it.
Work(phase) ==
  CASE phase = "create"  -> {g \in Goal : ~gl[g].cancelled /\ ~GoalHasTickets(g)}
    [] phase = "cancel"  -> Doomed
    [] phase = "promote" -> NewlyReady(tk, gl)
    [] phase = "launch"  -> Dispatchable
    [] phase = "merge"   -> Proposed(tk)
    [] phase = "deliver" -> Undelivered
    [] phase = "block"   -> Blocked(tk)
    [] OTHER             -> Stalled

Begin(phase) == pc' = phase /\ todo' = Work(phase)

StartRun ==
  /\ pc = "off" /\ \A t \in Ticket : ~InFlight(t)
  /\ Begin("create") /\ tried' = {} /\ moved' = FALSE
  /\ UNCHANGED <<logVars, gitVars, workVars, flipped, faults>>

Turn ==
  /\ pc \in DOMAIN NextPhase /\ todo = {}
  /\ Begin(NextPhase[pc])
  /\ UNCHANGED <<logVars, tried, moved, gitVars, workVars, flipped, faults>>

\* Run, after a pass: settled, out of work, or another pass.
EndPass ==
  LET over == \/ Settled(tk) /\ \A g \in Goal : gl[g].cancelled \/ GoalHasTickets(g)
              \/ ~moved /\ NoneActive(tk) /\ \A t \in Ticket : ~InFlight(t)
  IN /\ pc = "restart" /\ todo = {}
     /\ IF over THEN pc' = "off" /\ UNCHANGED <<todo, moved>>
                ELSE Begin("create") /\ moved' = FALSE
     /\ UNCHANGED <<logVars, tried, gitVars, workVars, flipped, faults>>

\* An item of a phase that appends one event.
Item(phase, t) == pc = phase /\ todo # {} /\ t = First(todo) /\ todo' = todo \ {t} /\ pc' = phase

CreateRoot(g) ==
  /\ Item("create", g)
  /\ LET t == Min({u \in Roots : GoalOf[u] = g})
     IN Emit(t, TicketCreated(tk[t], t), Event("TicketCreated", t))
  /\ UNCHANGED <<gl, dl, tried, gitVars, workVars, flipped, faults>>

FailCancelled(t) ==
  /\ Item("cancel", t)
  /\ Emit(t, TicketFailed(tk[t], tk[t].worker, NoReason), Event("TicketFailed", t))
  /\ cand' = [cand EXCEPT ![t] = {}]
  /\ UNCHANGED <<gl, dl, tried, gitVars, flight, base, flipped, faults>>

Promote(t) ==
  /\ Item("promote", t)
  /\ Emit(t, TicketReady(tk[t]), Event("TicketReady", t))
  /\ UNCHANGED <<gl, dl, tried, gitVars, workVars, flipped, faults>>

FailBlocked(t) ==
  /\ Item("block", t)
  /\ Emit(t, TicketFailed(tk[t], tk[t].worker, NoReason), Event("TicketFailed", t))
  /\ UNCHANGED <<gl, dl, tried, gitVars, workVars, flipped, faults>>

\* WorkerStalled and WorkerRestarted.
RestartStalled(t) ==
  /\ Item("restart", t)
  /\ Emit(t, WorkerRestarted(tk[t], tk[t].worker, NoReason), Event("WorkerRestarted", t))
  /\ cand' = [cand EXCEPT ![t] = {}]
  /\ UNCHANGED <<gl, dl, tried, gitVars, flight, base, flipped, faults>>

-----------------------------------------------------------------------------
(* Attempts *)

\* ensureGoalBranch (fetch, and cut the branch unless it is there), and launch.
Launch(t) ==
  /\ Item("launch", t)
  /\ flight' = [flight EXCEPT ![t] = "launched"]
  /\ UNCHANGED <<logVars, tried, moved, opt, head, tip, gated, pushed, remote, base, cand, flipped, faults>>

\* dispatch, to the agent's first step: TicketClaimed, a worktree cut from the
\* goal's branch, WorkStarted.
StartWork(t) ==
  /\ flight[t] = "launched"
  /\ Emit(t, WorkStarted(TicketClaimed(tk[t])), Event("WorkStarted", t))
  /\ flight' = [flight EXCEPT ![t] = "working"]
  /\ base' = [base EXCEPT ![t] = tip[GoalOf[t]]]
  /\ UNCHANGED <<gl, dl, pc, todo, tried, gitVars, cand, flipped, faults>>

\* The agent changes something its base does not have yet.
Propose(t, kind) ==
  /\ flight[t] = "working" /\ <<t, kind>> \notin base[t]
  /\ Emit(t, ProposalSubmitted(tk[t], 1), Event("ProposalSubmitted", t))
  /\ cand' = [cand EXCEPT ![t] = base[t] \cup {<<t, kind>>}]
  /\ flight' = [flight EXCEPT ![t] = "no"] /\ base' = [base EXCEPT ![t] = {}]
  /\ UNCHANGED <<gl, dl, pc, todo, tried, gitVars, flipped, faults>>

\* It fails, or changes nothing.
FailAttempt(t) ==
  /\ flight[t] = "working"
  /\ IF tk[t].attempts >= opt.attempts
     THEN Emit(t, TicketFailed(tk[t], Worker, NoReason), Event("TicketFailed", t))
     ELSE Emit(t, WorkerRestarted(tk[t], Worker, NoReason), Event("WorkerRestarted", t))
  /\ flight' = [flight EXCEPT ![t] = "no"] /\ base' = [base EXCEPT ![t] = {}]
  /\ UNCHANGED <<gl, dl, pc, todo, tried, gitVars, cand, flipped, faults>>

\* Nothing but the faults bound how often an agent may say this.
Invalidate(t) ==
  /\ flight[t] = "working" /\ Fault
  /\ Emit(t, TicketInvalidated(tk[t], NoReason), Event("TicketInvalidated", t))
  /\ flight' = [flight EXCEPT ![t] = "no"] /\ base' = [base EXCEPT ![t] = {}]
  /\ UNCHANGED <<gl, dl, pc, todo, tried, gitVars, cand, flipped>>

-----------------------------------------------------------------------------
(* processProposal: the merge queue on the goal's branch *)

Current == First(todo)
Candidate == head \cup cand[Current]
CurrentGoal == GoalOf[Current]

\* Mutant: the state the phase began with is good enough.
DetachAnyway ==
  /\ pc = "merge" /\ todo # {}
  /\ pc' = "gate" /\ head' = tip[CurrentGoal]
  /\ UNCHANGED <<logVars, todo, tried, moved, opt, tip, gated, pushed, remote,
                 workVars, flipped, faults>>

\* dropCancelled reads the log again; then the branch is checked out, detached.
Detach ==
  /\ pc = "merge" /\ todo # {}
  /\ ~gl[CurrentGoal].cancelled
  /\ pc' = "gate" /\ head' = tip[CurrentGoal]
  /\ UNCHANGED <<logVars, todo, tried, moved, opt, tip, gated, pushed, remote,
                 workVars, flipped, faults>>

DropCancelled ==
  /\ pc = "merge" /\ todo # {} /\ gl[CurrentGoal].cancelled
  /\ Emit(Current, TicketFailed(tk[Current], tk[Current].worker, NoReason),
          Event("TicketFailed", Current))
  /\ cand' = [cand EXCEPT ![Current] = {}] /\ todo' = todo \ {Current}
  /\ UNCHANGED <<gl, dl, pc, tried, gitVars, flight, base, flipped, faults>>

\* The Gate says what the tree deserves; now and then it does not.
Verdict(passes) ==
  \/ passes = ~Red(Candidate) /\ UNCHANGED <<flipped, faults>>
  \/ passes = Red(Candidate) /\ Fault /\ flipped' = TRUE

Parks == opt.approval /\ ~tk[Current].approved

\* Process (or, with Parks, DryRun) passes.
GatePasses ==
  /\ pc = "gate" /\ Verdict(TRUE)
  /\ pc' = IF Parks THEN "park" ELSE "update"
  /\ gated' = [gated EXCEPT ![CurrentGoal] = @ \cup {Candidate}]
  /\ UNCHANGED <<logVars, todo, tried, moved, opt, head, tip, pushed, remote, workVars>>

RejectOrFail(type, e) ==
  /\ type = IF tk[Current].attempts >= opt.attempts THEN "TicketFailed" ELSE "VerificationFailed"
  /\ IF type = "TicketFailed"
     THEN /\ Emit(Current, TicketFailed(tk[Current], Worker, NoReason), e)
          /\ UNCHANGED cand
     ELSE /\ Emit(Current, VerificationFailed(tk[Current], Worker, NoReason), e)
          /\ cand' = [cand EXCEPT ![Current] = {}]
  /\ pc' = "merge" /\ todo' = todo \ {Current}
  /\ UNCHANGED <<gl, dl, tried, gitVars, flight, base>>

GateFails ==
  /\ pc = "gate" /\ Verdict(FALSE)
  /\ \E type \in {"TicketFailed", "VerificationFailed"} :
       RejectOrFail(type, Judged(type, Current, Candidate))

\* git fails, or the sandbox of the Gate does: nothing is said of the tree.
GateBreaks ==
  /\ pc = "gate" /\ Fault
  /\ \E type \in {"TicketFailed", "VerificationFailed"} :
       RejectOrFail(type, TreeEvent(type, Current, Candidate))
  /\ UNCHANGED flipped

\* The dry run passed: park the candidate for a human.
Park ==
  /\ pc = "park"
  /\ \/ /\ Current \notin acc.passed
        /\ Emit(Current, tk[Current], TreeEvent("VerificationPassed", Current, Candidate))
        /\ UNCHANGED <<pc, todo>>
     \/ /\ Current \in acc.passed
        /\ Emit(Current, ApprovalRequested(tk[Current]), Event("ApprovalRequested", Current))
        /\ pc' = "merge" /\ todo' = todo \ {Current}
  /\ UNCHANGED <<gl, dl, tried, gitVars, workVars, flipped, faults>>

\* Mutant: the branch is left where it was.
UpdateNothing ==
  /\ pc = "update" /\ pc' = "verified" /\ tip' = tip
  /\ UNCHANGED <<logVars, todo, tried, moved, opt, head, gated, pushed, remote,
                 workVars, flipped, faults>>

\* UpdateRef, before the log says so: compare with the tip detached on, and swap.
UpdateRef ==
  /\ pc = "update" /\ tip[CurrentGoal] = head
  /\ pc' = "verified" /\ tip' = [tip EXCEPT ![CurrentGoal] = Candidate]
  /\ UNCHANGED <<logVars, todo, tried, moved, opt, head, gated, pushed, remote,
                 workVars, flipped, faults>>

RecordPass ==
  /\ pc = "verified" /\ pc' = "record"
  /\ Emit(Current, tk[Current], TreeEvent("VerificationPassed", Current, Candidate))
  /\ UNCHANGED <<gl, dl, todo, tried, gitVars, workVars, flipped, faults>>

RecordMerge ==
  /\ pc = "record" /\ pc' = "merge" /\ todo' = todo \ {Current}
  /\ Emit(Current, Merged(tk[Current]), TreeEvent("Merged", Current, Candidate))
  /\ dl' = [dl EXCEPT ![CurrentGoal] = MergedOnBranch(@)]
  /\ cand' = [cand EXCEPT ![Current] = {}]
  /\ UNCHANGED <<gl, tried, gitVars, flight, base, flipped, faults>>

-----------------------------------------------------------------------------
(* deliver *)

\* Marked as tried, and read again: a cancel may have come in between.
Deliver ==
  LET g == First(todo)
  IN /\ pc = "deliver" /\ todo # {}
     /\ tried' = tried \cup {g}
     /\ IF Deliverable(tk, gl, dl, g) THEN pc' = "push" /\ UNCHANGED todo
                                      ELSE pc' = "deliver" /\ todo' = todo \ {g}
     /\ UNCHANGED <<logVars, moved, gitVars, workVars, flipped, faults>>

Push ==
  /\ pc = "push" /\ pc' = "open"
  /\ pushed' = pushed \cup {First(todo)}
  /\ remote' = [remote EXCEPT ![First(todo)] = tip[First(todo)]]
  /\ UNCHANGED <<logVars, todo, tried, moved, opt, head, tip, gated,
                 workVars, flipped, faults>>

\* The opener finds the pull request or opens it.
OpenPR ==
  /\ pc = "open" /\ pc' = "note"
  /\ UNCHANGED <<logVars, todo, tried, moved, gitVars, workVars, flipped, faults>>

\* Push, or the opener, fails or times out.
DeliveryFails ==
  /\ pc \in {"push", "open"} /\ Fault
  /\ LET g == First(todo)
     IN EmitGoal(g, DeliveryFailed(dl[g]), GoalEvent("DeliveryFailed", g, NoTree))
  /\ pc' = "deliver" /\ todo' = todo \ {First(todo)}
  /\ UNCHANGED <<tried, gitVars, workVars, flipped>>

RecordDelivery ==
  /\ pc = "note" /\ pc' = "deliver" /\ todo' = todo \ {First(todo)}
  /\ LET g == First(todo)
     IN EmitGoal(g, Delivered(dl[g], TRUE), GoalEvent("Delivered", g, tip[g]))
  /\ UNCHANGED <<tried, gitVars, workVars, flipped, faults>>

-----------------------------------------------------------------------------
(* People and accidents *)

Cancel(g) ==
  /\ g \in opt.cancels /\ Cancels(tk, gl, dl, g)
  /\ gl' = [gl EXCEPT ![g] = GoalCancelled(@)]
  /\ acc' = Scan(acc, tk, GoalEvent("GoalCancelled", g, NoTree)) /\ moved' = TRUE
  /\ UNCHANGED <<tk, dl, pc, todo, tried, gitVars, workVars, flipped, faults>>

Decide(t) ==
  /\ tk[t].status = "awaiting"
  /\ \/ Emit(t, ApprovalGranted(tk[t]), Event("ApprovalGranted", t))
     \/ Emit(t, ApprovalDenied(tk[t]), Event("ApprovalDenied", t))
  /\ UNCHANGED <<gl, dl, pc, todo, tried, gitVars, workVars, flipped, faults>>

\* An append, git or the disk fails: Run ends with an error, after its attempts.
RunFails ==
  /\ pc # "off" /\ Fault
  /\ pc' = "off" /\ todo' = {}
  /\ UNCHANGED <<logVars, tried, moved, gitVars, workVars, flipped>>

\* The process dies, and its attempts with it.
Crash ==
  /\ pc # "off" \/ \E t \in Ticket : InFlight(t)
  /\ Fault
  /\ pc' = "off" /\ todo' = {}
  /\ flight' = [t \in Ticket |-> "no"] /\ base' = [t \in Ticket |-> {}]
  /\ UNCHANGED <<logVars, tried, moved, opt, head, tip, gated, pushed, remote, cand, flipped>>

-----------------------------------------------------------------------------
Reconcile ==
  \/ Turn \/ EndPass
  \/ \E g \in Goal : CreateRoot(g)
  \/ \E t \in Ticket : \/ FailCancelled(t) \/ Promote(t) \/ Launch(t)
                       \/ FailBlocked(t) \/ RestartStalled(t)
  \/ Detach \/ DropCancelled \/ GatePasses \/ GateFails \/ Park
  \/ UpdateRef \/ RecordPass \/ RecordMerge
  \/ Deliver \/ Push \/ OpenPR \/ RecordDelivery

Attempt(t) == StartWork(t) \/ (\E kind \in {"good", "bad"} : Propose(t, kind)) \/ FailAttempt(t)

Next ==
  \/ StartRun \/ Reconcile
  \/ \E t \in Ticket : Attempt(t) \/ Invalidate(t) \/ Decide(t)
  \/ GateBreaks \/ DeliveryFails \/ RunFails \/ Crash
  \/ \E g \in Goal : Cancel(g)

Spec == Init /\ [][Next]_vars

\* `aoa run` is called again and again, a Run goes on, attempts end.
Fairness ==
  /\ WF_vars(StartRun) /\ WF_vars(Reconcile)
  /\ \A t \in Ticket : WF_vars(Attempt(t))

FairSpec == Spec /\ Fairness

-----------------------------------------------------------------------------
(* Properties *)

\* The variables have their types.
TypeOK ==
  /\ tk \in [Ticket -> TicketRecord({})] /\ gl \in [Goal -> GoalRecord]
  /\ dl \in [Goal -> DeliveryRecord] /\ acc \in AuditRecord
  /\ pc \in Label /\ opt \in Options /\ todo \subseteq Ticket \cup Goal /\ head \in Commit
  /\ tried \subseteq Goal /\ moved \in BOOLEAN
  /\ flight \in [Ticket -> {"no", "launched", "working"}]
  /\ base \in [Ticket -> Commit] /\ cand \in [Ticket -> Commit]
  /\ tip \in [Goal -> Commit] /\ gated \in [Goal -> SUBSET Commit]
  /\ pushed \subseteq Goal /\ remote \in [Goal -> Commit]
  /\ flipped \in BOOLEAN /\ faults \in 0..opt.faults

\* The invariant checker finds nothing in any log: whatever the order of
\* cancels, decisions, failures and crashes, each merge was verified, approved
\* and not cancelled before its proposal, and each delivery is the only one of
\* its goal, of complete work, and of the commit that was merged last.
CheckerClean == acc.found = {}

\* The branch of a goal is what the log says it is, and the world sees no more
\* (ADR 016): only the Gate moves it; it holds a change of every merged task,
\* and of no ticket of another goal; an attempt starts from nothing else; what
\* is pushed is whole, and what is delivered is the last merge.
BranchTruth ==
  \A g \in Goal :
    /\ tip[g] \in gated[g]
    /\ \A t \in Ticket : GoalOf[t] = g /\ tk[t].status = "merged" =>
         \E x \in tip[g] : x[1] = t
    /\ \A x \in tip[g] : GoalOf[x[1]] = g
    /\ \A t \in TasksOf(tk, g) : base[t] \subseteq tip[g]
    /\ g \in pushed => GoalComplete(tk, g) /\ remote[g] = tip[g]
    /\ dl[g].delivered => g \in pushed /\ remote[g] = acc.last[g]

\* What `aoa wait` and `aoa status` once called done stays done, with the same
\* outcome: a delivery on its way, a late cancel or a later run do not change
\* an answer that a script has acted on.  (A goal cancelled before it has a task
\* is done, and may yet get one from a pass that had read the log before.)
DoneStays ==
  [][\A g \in Goal :
       GoalDone(GoalConditions(tk, gl, dl, g)) =>
         /\ Outcome(tk', gl', dl', g) = Outcome(tk, gl, dl, g)
         /\ TasksOf(tk, g) # {} => GoalDone(GoalConditions(tk', gl', dl', g))]_vars

\* The readers agree with the state and with each other.  Metrics and the
\* diagnosis count as in flight what is running, and the queue holds what is
\* proposed; neither knows of an unverified merge the checker does not find;
\* the Gate is called flaky only if it is; of a run that ended with its work
\* settled nothing is called starved or deadlocked.
ReportsAgree ==
  LET running == {t \in Ticket : tk[t].status = "running"}
      proposed == Proposed(tk)
  IN /\ acc.active \ acc.voided = running /\ acc.running \ acc.voided = running
     /\ acc.queued \subseteq proposed
     /\ \A t \in proposed \ acc.queued : tk[t].approved
     /\ ~acc.unverified /\ acc.missing = {}
     /\ FlakyTrees(acc) # {} => flipped
     /\ (pc = "off" /\ SettledLog(tk, gl)) => Starved(tk) = {} /\ Deadlocked(tk) = {}

\* A complete goal is delivered unless it is cancelled: a failed push or pull
\* request is tried again by the next run.
Delivers ==
  \A g \in Goal :
    Deliverable(tk, gl, dl, g) ~> (dl[g].delivered \/ gl[g].cancelled)
=============================================================================
