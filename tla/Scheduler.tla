------------------------------ MODULE Scheduler ------------------------------
(***************************************************************************)
(* src/internal/orchestrator/orchestrator.go: the Scheduler's reconcile    *)
(* loop, the dispatch goroutines it starts and never joins inside a pass,  *)
(* and the people (or programs) who submit, cancel, approve and deny       *)
(* through the same log.  Local delivery mode, retry backoff off (the      *)
(* default), run and day budgets off.                                      *)
(*                                                                         *)
(* Appending an event to the log is atomic (Ledger), so the log is the     *)
(* state it folds to: tk and gl.  loadState is a copy of them, snap, that  *)
(* goes stale while the Scheduler works through what it found there, todo. *)
(* Attempts append their own events meanwhile; o.dispatching is the number *)
(* of attempts that have not left the goroutine (InFlight).                *)
(***************************************************************************)
EXTENDS TicketState

CONSTANTS Options,  \* the settings to start from
          Slots,    \* goroutines one ticket may have at a time
          Reasons   \* why attempts and verdicts fail

\* The Options of an Orchestrator, and below them what its surroundings do.
OptionsRecord ==
  [Concurrency : Nat \ {0}, MaxAttempts : Nat \ {0}, BestOfN : Nat \ {0},
   CrashLoopThreshold : Nat, RequireApproval : BOOLEAN,
   Budget : Nat,              \* charges a goal may make; 0 is no limit
   Goals : SUBSET Goal,       \* what is submitted
   Splits : BOOLEAN,          \* do agents split tickets?
   Fails : SUBSET Reasons,    \* why attempts and verdicts fail
   PromptWorkers : BOOLEAN,   \* timing: see CanEnd
   StallLive : BOOLEAN,       \* timing: see Elapse
   MaxFaults : Nat]           \* bound: crashes, errors, invalidations

ASSUME OptionsAssumption ==
  /\ \A o \in Options : o \in OptionsRecord
  /\ Slots \in Nat \ {0}
  /\ NoReason \notin Reasons /\ "other" \notin Reasons
  /\ \A t, u \in Ticket : t < u => GoalOf[t] <= GoalOf[u]

VARIABLES opt,       \* o.opt
          tk, gl,    \* what the log folds to
          grew,      \* the log has grown since the pass read its length
          pc,        \* where the Scheduler is
          how,       \* how the last Run returned
          snap,      \* the state the Scheduler last loaded
          todo,      \* what it found there and has not dealt with yet
          hands,     \* proposals past the cancellation check, in the queue's hands
          job,       \* the dispatch goroutines
          wtree,     \* o.worktrees: the branch of the worktree of each ticket
          branches,  \* the branches of each ticket in the git repository
          derr,      \* o.dispatchErr is set
          granted,   \* history: the branch the last approval was given for
          spared,    \* history: in the queue's hands when its goal was cancelled
          lost,      \* history: the branch whose rejection was not appended
          faults

logVars   == <<tk, gl, grew>>
passVars  == <<pc, how, snap, todo, hands>>
gitVars   == <<wtree, branches>>
histVars  == <<granted, spared, lost>>
vars == <<logVars, passVars, gitVars, job, derr, histVars, faults, opt>>

Concurrency        == opt.Concurrency
MaxAttempts        == opt.MaxAttempts
BestOfN            == opt.BestOfN
CrashLoopThreshold == opt.CrashLoopThreshold
RequireApproval    == opt.RequireApproval
Budget             == opt.Budget
PromptWorkers      == opt.PromptWorkers
StallLive          == opt.StallLive
MaxFaults          == opt.MaxFaults

Attempt == Ticket \X (1..Slots)
TicketOf(w) == w[1]

Phase == {"pass", "begin", "create", "cancel", "budget", "promote", "count",
          "launch", "drain", "batch", "outcomes", "blocked", "stall", "check"}
Return == {"settled", "paused", "stuck", "error"}

NoJob  == [pc |-> "off", number |-> 0, branch |-> 0, last |-> FALSE, ran |-> FALSE]
NoSnap == [tk |-> [t \in Ticket |-> NoTicket], gl |-> [g \in Goal |-> NoGoal],
           grew |-> FALSE]

Init ==
  /\ opt \in Options
  /\ tk = [t \in Ticket |-> NoTicket] /\ gl = [g \in Goal |-> NoGoal] /\ grew = FALSE
  /\ pc = "down" /\ how = "settled" /\ snap = NoSnap /\ todo = {} /\ hands = {}
  /\ job = [w \in Attempt |-> NoJob]
  /\ wtree = [t \in Ticket |-> 0] /\ branches = [t \in Ticket |-> {}]
  /\ derr = FALSE /\ granted = [t \in Ticket |-> 0] /\ spared = {}
  /\ lost = [t \in Ticket |-> 0] /\ faults = 0

-----------------------------------------------------------------------------
(* Helpers *)

Live       == {w \in Attempt : job[w].pc # "off"}
InFlight(t) == Cardinality({w \in Live : TicketOf(w) = t})

\* emit: the event applied to ticket t.
EmitTicket(t, x) == tk' = [tk EXCEPT ![t] = x] /\ grew' = TRUE
EmitGoal(g, y)   == gl' = [gl EXCEPT ![g] = y] /\ grew' = TRUE

Charged(t) == gl' = [gl EXCEPT ![GoalOf[t]] = Charge(@, Budget)]

\* TicketCreated takes the next place in TicketOrder.
EmitCreated(t) == EmitTicket(t, TicketCreated(tk[t], Cardinality(Created(tk)) + 1))

\* cleanupWorktree: whatever worktree is registered for the ticket goes, with
\* its branch.  preserveWorktree leaves both on disk.
CleanupWorktree(t) ==
  /\ wtree' = [wtree EXCEPT ![t] = 0]
  /\ branches' = [branches EXCEPT ![t] = @ \ {wtree[t]}]

PreserveWorktree(t) ==
  /\ wtree' = [wtree EXCEPT ![t] = 0]
  /\ UNCHANGED branches

\* Creation order and the order of ids.
First(t, S)   == t \in S /\ \A u \in S : snap.tk[t].born <= snap.tk[u].born
FirstId(t, S) == t \in S /\ \A u \in S : t <= u

Root(g) == CHOOSE t \in Ticket : GoalOf[t] = g /\ \A u \in Ticket : GoalOf[u] = g => t <= u

\* The ticket made of a goal depends on nothing.
ASSUME RootsAssumption == \A g \in Goal : Deps[Root(g)] = {}

GoalHasTickets(tks, g) == \E t \in Created(tks) : GoalOf[t] = g

AllGoalsDecomposed(tks, gls) ==
  \A g \in Goal : gls[g].submitted /\ ~gls[g].cancelled => GoalHasTickets(tks, g)

Exceeded(gls, g) == Budget > 0 /\ gls[g].spent >= Budget

\* What each step of the pass finds in the state it loads.
Work(p) ==
  CASE p = "create"  -> {Root(g) : g \in {h \in Goal : /\ gl[h].submitted
                                                       /\ ~gl[h].cancelled
                                                       /\ ~GoalHasTickets(tk, h)}}
    [] p = "cancel"  -> {t \in Created(tk) : /\ tk[t].status \notin Terminal \cup {"claimed", "running"}
                                             /\ gl[GoalOf[t]].cancelled}
    [] p = "budget"  -> {t \in Ticket : /\ Exceeded(gl, GoalOf[t])
                                        /\ tk[t].status \in {"pending", "ready"}}
    [] p = "promote" -> NewlyReady(tk, gl)
    [] p = "drain"   -> Proposed(tk)
    [] p = "batch"   -> Proposed(tk)
    [] p = "blocked" -> Blocked(tk)
    [] p = "stall"   -> {t \in Ticket : tk[t].status \in {"claimed", "running"} /\ tk[t].quiet}
    [] OTHER         -> {}

\* loadState; a state in which a step finds nothing to do is not kept.
Load(p) ==
  /\ pc' = p
  /\ todo' = Work(p)
  /\ snap' = IF Work(p) # {} \/ p \in {"budget", "count", "check"}
             THEN [tk |-> tk, gl |-> gl, grew |-> grew] ELSE NoSnap

DoneWith(t) == todo' = todo \ {t}

ReturnFromRun(h) ==
  /\ pc' = "join" /\ how' = h
  /\ snap' = NoSnap /\ todo' = {} /\ hands' = {}

-----------------------------------------------------------------------------
(* Run and ReconcileOnce *)

\* Run, in a process of its own or again in the one that ran before (runEvery).
Start ==
  /\ pc = "down"
  /\ pc' = "pass"
  /\ wtree' = wtree \/ wtree' = [t \in Ticket |-> 0]
  /\ UNCHANGED <<logVars, how, snap, todo, hands, branches, job, derr, opt, histVars, faults>>

BeginPass ==
  /\ pc = "pass"
  /\ pc' = "begin" /\ grew' = FALSE
  /\ UNCHANGED <<tk, gl, how, snap, todo, hands, gitVars, job, derr, opt, histVars, faults>>

\* The Goals that reached their limit and whose trip is not on the log.
Tripping == {g \in Goal : Exceeded(snap.gl, g) /\ ~snap.gl[g].over /\ ~gl[g].over}

NextPhase ==
  CASE pc = "begin"   -> "create"
    [] pc = "create"  -> "cancel"
    [] pc = "cancel"  -> IF Budget > 0 THEN "budget" ELSE "promote"
    [] pc = "budget"  -> "promote"
    [] pc = "promote" -> "count"
    [] pc = "launch"  -> IF Cardinality(Proposed(tk)) > 1 /\ ~RequireApproval
                         THEN "batch" ELSE "drain"
    [] pc \in {"drain", "batch", "outcomes"} -> "blocked"
    [] pc = "blocked" -> "stall"
    [] pc = "stall"   -> "check"

Advance ==
  /\ pc \in Phase \ {"pass", "count", "check"}
  /\ todo = {} /\ (pc = "budget" => Tripping = {})
  /\ Load(NextPhase)
  /\ UNCHANGED <<logVars, how, hands, gitVars, job, derr, opt, histVars, faults>>

CreateTicket(t) ==
  /\ pc = "create" /\ FirstId(t, todo)
  /\ EmitCreated(t) /\ DoneWith(t)
  /\ UNCHANGED <<gl, pc, how, snap, hands, gitVars, job, derr, opt, histVars, faults>>

\* failCancelled
FailCancelled(t) ==
  /\ CleanupWorktree(t)
  /\ EmitTicket(t, TicketFailed(tk[t], snap.tk[t].worker, "other"))
  /\ UNCHANGED gl

EnforceCancellation(t) ==
  /\ pc = "cancel" /\ First(t, todo)
  /\ IF InFlight(t) > 0 THEN UNCHANGED <<logVars, gitVars>> ELSE FailCancelled(t)
  /\ DoneWith(t)
  /\ UNCHANGED <<pc, how, snap, hands, job, derr, opt, histVars, faults>>

\* enforceBudgets: per Goal, the trip and then the work not yet dispatched.
TripBudget(g) ==
  /\ pc = "budget" /\ g \in Tripping
  /\ \A h \in Tripping : g <= h
  /\ \A t \in todo : g <= GoalOf[t]
  /\ EmitGoal(g, GoalBudgetExceeded(gl[g]))
  /\ UNCHANGED <<tk, passVars, gitVars, job, derr, opt, histVars, faults>>

EnforceBudget(t) ==
  /\ pc = "budget" /\ FirstId(t, todo)
  /\ \A h \in Tripping : GoalOf[t] < h
  /\ EmitTicket(t, TicketFailed(tk[t], snap.tk[t].worker, "other"))
  /\ DoneWith(t)
  /\ UNCHANGED <<gl, pc, how, snap, hands, gitVars, job, derr, opt, histVars, faults>>

Promote(t) ==
  /\ pc = "promote" /\ First(t, todo)
  /\ EmitTicket(t, TicketReady(tk[t])) /\ DoneWith(t)
  /\ UNCHANGED <<gl, pc, how, snap, hands, gitVars, job, derr, opt, histVars, faults>>

\* A sum over the tickets, as the number of pairs of a ticket and one of its n(t).
Total(n(_)) == Cardinality(UNION {{t} \X (1..n(t)) : t \in Ticket})

\* Mutant: attempts are counted by what the log says of them.
ActiveByLog == Total(LAMBDA t : snap.tk[t].active)

\* Per ticket the larger of what the log and the goroutines say.
AttemptsAt(t) == IF snap.tk[t].active > InFlight(t) THEN snap.tk[t].active ELSE InFlight(t)

\* activeAttempts
ActiveAttempts == Total(AttemptsAt)

\* Mutant: a launched attempt that has not claimed its ticket is not seen.
DispatchableByLog ==
  {t \in ReadyTickets(snap.tk, snap.gl) : snap.tk[t].active < BestOfN}

Dispatchable ==
  {t \in ReadyTickets(snap.tk, snap.gl) :
     snap.tk[t].active < BestOfN /\ InFlight(t) < BestOfN}

\* ready[:min(slots, len(ready))]
IsWave(L) ==
  LET slots == IF ActiveAttempts < Concurrency THEN Concurrency - ActiveAttempts ELSE 0
  IN /\ Cardinality(L) = IF slots < Cardinality(Dispatchable)
                         THEN slots ELSE Cardinality(Dispatchable)
     /\ \A t \in L, u \in Dispatchable \ L : snap.tk[t].born < snap.tk[u].born

FreeSlot(t) ==
  CHOOSE w \in Attempt : /\ TicketOf(w) = t /\ job[w].pc = "off"
                         /\ \A v \in Attempt : TicketOf(v) = t /\ job[v].pc = "off" => w[2] <= v[2]

\* Step 3.  The goroutines are started, not joined; then takeDispatchErr.
Launch ==
  /\ pc = "count"
  /\ \E L \in SUBSET Dispatchable :
       /\ IsWave(L)
       /\ job' = [w \in Attempt |->
                    IF TicketOf(w) \in L /\ w = FreeSlot(TicketOf(w))
                    THEN [NoJob EXCEPT !.pc = "claim", !.number = snap.tk[TicketOf(w)].attempts + 1]
                    ELSE job[w]]
  /\ derr' = FALSE
  /\ IF derr THEN ReturnFromRun("error")
     ELSE pc' = "launch" /\ snap' = NoSnap /\ UNCHANGED <<how, todo, hands>>
  /\ UNCHANGED <<logVars, gitVars, histVars, faults, opt>>

-----------------------------------------------------------------------------
(* The merge queue, as the Scheduler sees it *)

\* rejectOrFail, from the ticket as it was when the pass read it.
GivesUp(x, r) ==
  LET looping == /\ CrashLoopThreshold > 0 /\ r = x.reason
                 /\ x.same + 1 >= CrashLoopThreshold
  IN x.active <= 1 /\ (looping \/ x.attempts >= MaxAttempts)

RejectOrFail(t, r) ==
  LET x == snap.tk[t]
  IN IF GivesUp(x, r)
     THEN EmitTicket(t, TicketFailed(tk[t], x.worker, r)) /\ PreserveWorktree(t)
     ELSE EmitTicket(t, VerificationFailed(tk[t], x.worker, r)) /\ CleanupWorktree(t)

\* Mutant: the state the pass read says whether the goal is cancelled.
DropCancelledFromSnap(t) == snap.gl[GoalOf[t]].cancelled

\* dropCancelled asks the log again.
DropCancelled(t) == gl[GoalOf[t]].cancelled

\* processProposal: each proposal is checked when its turn comes.
TakeProposal(t) ==
  /\ pc = "drain" /\ hands = {} /\ First(t, todo)
  /\ IF DropCancelled(t)
     THEN FailCancelled(t) /\ DoneWith(t) /\ UNCHANGED hands
     ELSE hands' = {t} /\ UNCHANGED <<logVars, gitVars, todo>>
  /\ UNCHANGED <<pc, how, snap, job, derr, opt, histVars, faults>>

\* A batch is checked as a whole before its one Gate run.
TakeBatch ==
  /\ pc = "batch" /\ todo # {}
  /\ pc' = "outcomes" /\ hands' = {t \in todo : ~DropCancelled(t)}
  /\ UNCHANGED <<logVars, how, snap, todo, gitVars, job, derr, opt, histVars, faults>>

DropFromBatch(t) ==
  /\ pc = "outcomes" /\ First(t, todo \ hands)
  /\ FailCancelled(t) /\ DoneWith(t)
  /\ UNCHANGED <<pc, how, snap, hands, job, derr, opt, histVars, faults>>

\* The proposal whose outcome is dealt with next.
NextOutcome(t) ==
  /\ pc \in {"drain", "outcomes"} /\ First(t, hands)
  /\ (pc = "outcomes" => todo \subseteq hands)

NeedsApproval(t) == RequireApproval /\ ~snap.tk[t].approved

OutcomeDone(t) ==
  /\ hands' = hands \ {t} /\ DoneWith(t)
  /\ UNCHANGED <<gl, pc, how, snap, job, derr, opt, histVars, faults>>

\* The Gate passes and the proposal is merged: only a branch that exists is.
Merge(t) ==
  /\ NextOutcome(t) /\ ~NeedsApproval(t)
  /\ snap.tk[t].branch \in branches[t]
  /\ EmitTicket(t, Merged(tk[t]))
  /\ CleanupWorktree(t)
  /\ OutcomeDone(t)

\* Mutant: the worktree of a parked proposal is not kept.
ParkAndClean(t) ==
  /\ NextOutcome(t) /\ NeedsApproval(t)
  /\ snap.tk[t].branch \in branches[t]
  /\ EmitTicket(t, ApprovalRequested(tk[t]))
  /\ CleanupWorktree(t)
  /\ OutcomeDone(t)

\* The dry run passes and the proposal is parked.
Park(t) ==
  /\ NextOutcome(t) /\ NeedsApproval(t)
  /\ snap.tk[t].branch \in branches[t]
  /\ EmitTicket(t, ApprovalRequested(tk[t]))
  /\ OutcomeDone(t)
  /\ UNCHANGED gitVars

\* The merge conflicts, the Gate fails, or the queue does.
Reject(t, r) ==
  /\ NextOutcome(t) /\ r \in opt.Fails
  /\ RejectOrFail(t, r)
  /\ OutcomeDone(t)

-----------------------------------------------------------------------------
(* The rest of the pass *)

FailBlocked(t) ==
  /\ pc = "blocked" /\ First(t, todo)
  /\ EmitTicket(t, TicketFailed(tk[t], snap.tk[t].worker, "other")) /\ DoneWith(t)
  /\ UNCHANGED <<gl, pc, how, snap, hands, gitVars, job, derr, opt, histVars, faults>>

RestartStalled(t) ==
  /\ pc = "stall" /\ FirstId(t, todo)
  /\ EmitTicket(t, WorkerRestarted(tk[t], snap.tk[t].worker, NoReason)) /\ DoneWith(t)
  /\ CleanupWorktree(t)
  /\ UNCHANGED <<gl, pc, how, snap, hands, job, derr, opt, histVars, faults>>

PausedForApproval(tks) ==
  LET open == {t \in Created(tks) : tks[t].status \notin Terminal}
  IN open # {} /\ \A t \in open : tks[t].status = "awaiting"

\* Run, after ReconcileOnce: done, go on, wait, pause or give up.
Finished == Settled(snap.tk) /\ AllGoalsDecomposed(snap.tk, snap.gl)

Waiting == Live # {} \/ ~NoneActive(snap.tk)

Outcome ==
  IF Finished THEN "settled"
  ELSE IF snap.grew \/ Waiting THEN "again"
  ELSE IF PausedForApproval(snap.tk) THEN "paused" ELSE "stuck"

EndPass ==
  /\ pc = "check"
  /\ IF Outcome = "again"
     THEN pc' = "pass" /\ snap' = NoSnap /\ UNCHANGED <<how, todo, hands>>
     ELSE ReturnFromRun(Outcome)
  /\ UNCHANGED <<logVars, gitVars, job, derr, opt, histVars, faults>>

\* The deferred Wait for the workers, and the error one of them left.
Join ==
  /\ pc = "join" /\ Live = {}
  /\ pc' = "down" /\ derr' = FALSE
  /\ how' = IF derr /\ how \in {"settled", "paused"} THEN "error" ELSE how
  /\ UNCHANGED <<logVars, snap, todo, hands, gitVars, job, histVars, faults, opt>>

-----------------------------------------------------------------------------
(* dispatch: one attempt, in a goroutine of its own *)

Goto(w, label) == job' = [job EXCEPT ![w].pc = label]

\* Timing.  The code does not order the end of an attempt against the
\* Scheduler's reads.  PromptWorkers assumes that an attempt leaves the
\* dispatching map at once when its last event is on the log, and that this
\* does not fall between the Scheduler's reads of the log and of that map.
CanEnd == PromptWorkers => pc \notin {"count", "check"}

EndJob(w) ==
  /\ CanEnd
  /\ job' = [job EXCEPT ![w] = IF PromptWorkers THEN NoJob ELSE [NoJob EXCEPT !.pc = "exit"]]

Claim(w) ==
  /\ job[w].pc = "claim"
  /\ EmitTicket(TicketOf(w), TicketClaimed(tk[TicketOf(w)]))
  /\ job' = [job EXCEPT ![w].pc = "tree", ![w].branch = tk[TicketOf(w)].attempts + 1]
  /\ UNCHANGED <<gl, passVars, gitVars, derr, opt, histVars, faults>>

AddWorktree(w) ==
  /\ job[w].pc = "tree"
  /\ \/ /\ branches' = [branches EXCEPT ![TicketOf(w)] = @ \cup {job[w].branch}]
        /\ wtree' = [wtree EXCEPT ![TicketOf(w)] = job[w].branch]
        /\ Goto(w, "start")
     \/ Goto(w, "failing") /\ UNCHANGED gitVars
  /\ UNCHANGED <<logVars, passVars, derr, opt, histVars, faults>>

StartWork(w) ==
  /\ job[w].pc = "start"
  /\ EmitTicket(TicketOf(w), WorkStarted(tk[TicketOf(w)]))
  /\ job' = [job EXCEPT ![w].pc = "run", ![w].ran = TRUE]
  /\ UNCHANGED <<gl, passVars, gitVars, derr, opt, histVars, faults>>

\* startHeartbeat, as far as it matters: a running attempt is heard of again.
Beat(w) ==
  /\ job[w].pc = "run" /\ tk[TicketOf(w)].quiet
  /\ EmitTicket(TicketOf(w), Heartbeat(tk[TicketOf(w)]))
  /\ UNCHANGED <<gl, passVars, gitVars, job, derr, opt, histVars, faults>>

\* The agent fails, times out or changes nothing; or the commit fails, as it
\* does when the worktree is gone.
AgentFails(w) ==
  /\ job[w].pc = "run"
  /\ Goto(w, "failing")
  /\ UNCHANGED <<logVars, passVars, gitVars, derr, opt, histVars, faults>>

Commit(w) ==
  /\ job[w].pc = "run" /\ job[w].branch \in branches[TicketOf(w)]
  /\ Goto(w, "propose")
  /\ UNCHANGED <<logVars, passVars, gitVars, derr, opt, histVars, faults>>

Propose(w) ==
  /\ job[w].pc = "propose"
  /\ EmitTicket(TicketOf(w), ProposalSubmitted(tk[TicketOf(w)], job[w].branch))
  /\ Charged(TicketOf(w)) /\ EndJob(w)
  /\ UNCHANGED <<passVars, gitVars, derr, opt, histVars, faults>>

Invalidate(w) ==
  /\ job[w].pc = "run" /\ faults < MaxFaults
  /\ CleanupWorktree(TicketOf(w))
  /\ EmitTicket(TicketOf(w), TicketInvalidated(tk[TicketOf(w)], "other"))
  /\ EndJob(w) /\ faults' = faults + 1
  /\ UNCHANGED <<gl, passVars, derr, opt, histVars>>

\* What the children of t depend on is among them or on the log.
KnownDeps(t) == \A u \in Kids[t] : Deps[u] \subseteq Kids[t] \cup Created(tk)

\* decompose: the worktree goes, the split is checked (TaskGraph) and either
\* fails the ticket or becomes one TicketCreated per child and the end of it.
Split(w) ==
  /\ job[w].pc = "run" /\ opt.Splits /\ Kids[TicketOf(w)] # {}
  /\ CleanupWorktree(TicketOf(w))
  /\ (KnownDeps(TicketOf(w)) /\ Goto(w, "split")) \/ Goto(w, "nosplit")
  /\ UNCHANGED <<logVars, passVars, derr, opt, histVars, faults>>

FailDecompose(w) ==
  /\ job[w].pc = "nosplit"
  /\ EmitTicket(TicketOf(w), TicketFailed(tk[TicketOf(w)], Worker, "other"))
  /\ Charged(TicketOf(w)) /\ EndJob(w)
  /\ UNCHANGED <<passVars, gitVars, derr, opt, histVars, faults>>

Unborn(w) == Kids[TicketOf(w)] \ Created(tk)

CreateChild(w) ==
  /\ job[w].pc = "split"
  /\ \E u \in Unborn(w) : (\A v \in Unborn(w) : u <= v) /\ EmitCreated(u)
  /\ UNCHANGED <<gl, passVars, gitVars, job, derr, opt, histVars, faults>>

Decompose(w) ==
  /\ job[w].pc = "split" /\ Unborn(w) = {}
  /\ EmitTicket(TicketOf(w), TicketDecomposed(tk[TicketOf(w)]))
  /\ Charged(TicketOf(w)) /\ EndJob(w)
  /\ UNCHANGED <<passVars, gitVars, derr, opt, histVars, faults>>

\* failAttempt: is this the ticket's last worker? Then, on what was read:
ReadIsLast(w) ==
  /\ job[w].pc = "failing"
  /\ job' = [job EXCEPT ![w].pc = "fail", ![w].last = tk[TicketOf(w)].active <= 1]
  /\ UNCHANGED <<logVars, passVars, gitVars, derr, opt, histVars, faults>>

\* Mutant: the cap lets one more attempt through.
FailAttemptLate(w, r) ==
  LET t == TicketOf(w)
  IN /\ job[w].pc = "fail" /\ r \in opt.Fails
     /\ IF job[w].last /\ job[w].number > MaxAttempts
        THEN EmitTicket(t, TicketFailed(tk[t], Worker, r)) /\ PreserveWorktree(t)
        ELSE EmitTicket(t, WorkerRestarted(tk[t], Worker, r)) /\ CleanupWorktree(t)
     /\ UNCHANGED gl /\ EndJob(w)
     /\ UNCHANGED <<passVars, derr, opt, histVars, faults>>

FailAttempt(w, r) ==
  LET t == TicketOf(w)
  IN /\ job[w].pc = "fail" /\ r \in opt.Fails
     /\ IF job[w].last /\ job[w].number >= MaxAttempts
        THEN EmitTicket(t, TicketFailed(tk[t], Worker, r)) /\ PreserveWorktree(t)
        ELSE EmitTicket(t, WorkerRestarted(tk[t], Worker, r)) /\ CleanupWorktree(t)
     /\ IF job[w].ran THEN Charged(t) ELSE UNCHANGED gl
     /\ EndJob(w)
     /\ UNCHANGED <<passVars, derr, opt, histVars, faults>>

Exit(w) ==
  /\ job[w].pc = "exit"
  /\ job' = [job EXCEPT ![w] = NoJob]
  /\ UNCHANGED <<logVars, passVars, gitVars, derr, opt, histVars, faults>>

-----------------------------------------------------------------------------
(* The front doors: submitGoal, cancelGoal, decideTicket *)

Submit(g) ==
  /\ ~gl[g].submitted /\ g \in opt.Goals
  /\ EmitGoal(g, GoalSubmitted(gl[g]))
  /\ UNCHANGED <<tk, passVars, gitVars, job, derr, opt, histVars, faults>>

Cancel(g) ==
  /\ gl[g].submitted /\ ~gl[g].cancelled
  /\ GoalOutcome(tk, gl, g) \notin {"merged", "failed"}
  /\ EmitGoal(g, GoalCancelled(gl[g]))
  /\ spared' = spared \cup {t \in hands : GoalOf[t] = g}
  /\ UNCHANGED <<tk, passVars, gitVars, job, derr, opt, granted, lost, faults>>

Approve(t) ==
  /\ tk[t].status = "awaiting"
  /\ EmitTicket(t, ApprovalGranted(tk[t]))
  /\ granted' = [granted EXCEPT ![t] = tk[t].branch]
  /\ UNCHANGED <<gl, passVars, gitVars, job, derr, opt, spared, lost, faults>>

Deny(t) ==
  /\ tk[t].status = "awaiting"
  /\ EmitTicket(t, ApprovalDenied(tk[t]))
  /\ UNCHANGED <<gl, passVars, gitVars, job, derr, opt, histVars, faults>>

-----------------------------------------------------------------------------
(* Time and faults *)

\* The stall timeout passes without an event of the ticket.  A live attempt
\* is heard of four times as often while its agent runs; StallLive lets the
\* timeout pass all the same (before and after the agent, or beats lost).
Elapse(t) ==
  /\ tk[t].status \in {"claimed", "running"} /\ ~tk[t].quiet
  /\ StallLive \/ InFlight(t) = 0
  /\ tk' = [tk EXCEPT ![t].quiet = TRUE]
  /\ UNCHANGED <<gl, grew, passVars, gitVars, job, derr, opt, histVars, faults>>

\* A read, an append or git fails under the Scheduler, its context is
\* cancelled, or MaxPasses is reached: Run returns.
SchedulerFails ==
  /\ pc \in Phase /\ faults < MaxFaults
  /\ ReturnFromRun("error") /\ faults' = faults + 1
  /\ UNCHANGED <<logVars, gitVars, job, derr, opt, histVars>>

\* rejectOrFail and failCancelled deal with the worktree before they append:
\* an append that fails leaves the ticket as it was, its branch gone.
DecisionLost(t) ==
  /\ faults < MaxFaults /\ faults' = faults + 1
  /\ \/ /\ NextOutcome(t)
        /\ \E r \in opt.Fails :
             IF GivesUp(snap.tk[t], r) THEN PreserveWorktree(t) ELSE CleanupWorktree(t)
     \/ /\ \/ pc = "cancel" /\ First(t, todo) /\ InFlight(t) = 0
           \/ pc = "drain" /\ hands = {} /\ First(t, todo) /\ DropCancelled(t)
           \/ pc = "outcomes" /\ First(t, todo \ hands)
        /\ CleanupWorktree(t)
  /\ lost' = [lost EXCEPT ![t] = tk[t].branch]
  /\ ReturnFromRun("error")
  /\ UNCHANGED <<logVars, job, derr, opt, granted, spared>>

\* An append fails under an attempt: the attempt ends and leaves its error.
EmitFails(w) ==
  /\ job[w].pc \in {"claim", "start", "run", "propose", "split", "nosplit", "fail"}
  /\ faults < MaxFaults /\ faults' = faults + 1
  /\ derr' = TRUE /\ EndJob(w)
  /\ IF job[w].pc = "fail" /\ job[w].last /\ job[w].number >= MaxAttempts
     THEN PreserveWorktree(TicketOf(w))
     ELSE IF job[w].pc \in {"start", "run", "fail"} THEN CleanupWorktree(TicketOf(w))
     ELSE UNCHANGED gitVars
  /\ UNCHANGED <<logVars, passVars, histVars, opt>>

\* The process dies; the log and the repository stay.
Crash ==
  /\ pc # "down" /\ faults < MaxFaults /\ faults' = faults + 1
  /\ pc' = "down" /\ how' = "error" /\ snap' = NoSnap /\ todo' = {} /\ hands' = {}
  /\ job' = [w \in Attempt |-> NoJob] /\ wtree' = [t \in Ticket |-> 0] /\ derr' = FALSE
  /\ spared' = {}
  /\ UNCHANGED <<logVars, branches, granted, lost, opt>>

-----------------------------------------------------------------------------
Reconcile ==
  \/ BeginPass \/ Advance \/ Launch \/ TakeBatch \/ EndPass \/ Join
  \/ \E t \in Ticket :
       \/ CreateTicket(t) \/ EnforceCancellation(t) \/ EnforceBudget(t) \/ Promote(t)
       \/ TakeProposal(t) \/ DropFromBatch(t) \/ Merge(t) \/ Park(t)
       \/ FailBlocked(t) \/ RestartStalled(t)
       \/ \E r \in Reasons : Reject(t, r)
  \/ \E g \in Goal : TripBudget(g)

Dispatch(w) ==
  \/ Claim(w) \/ AddWorktree(w) \/ StartWork(w) \/ AgentFails(w) \/ Commit(w)
  \/ Propose(w) \/ Invalidate(w) \/ Split(w) \/ FailDecompose(w) \/ CreateChild(w)
  \/ Decompose(w) \/ ReadIsLast(w) \/ Exit(w)
  \/ \E r \in Reasons : FailAttempt(w, r)

FrontDoor ==
  \/ \E g \in Goal : Submit(g) \/ Cancel(g)
  \/ \E t \in Ticket : Approve(t) \/ Deny(t)

Next ==
  \/ Start \/ Reconcile \/ FrontDoor \/ SchedulerFails \/ Crash
  \/ \E w \in Attempt : Dispatch(w) \/ Beat(w) \/ EmitFails(w)
  \/ \E t \in Ticket : Elapse(t) \/ DecisionLost(t)

Spec == Init /\ [][Next]_vars

\* Runs are started again, a Run and its attempts keep going (the agent's
\* timeout ends every attempt), and time passes.  CanEnd holds an attempt back
\* now and then but never for good, hence SF.
Fairness ==
  /\ WF_vars(Start) /\ WF_vars(Reconcile)
  /\ \A w \in Attempt : SF_vars(Dispatch(w))
  /\ \A t \in Ticket : WF_vars(Elapse(t))

FairSpec == Spec /\ Fairness

-----------------------------------------------------------------------------
(* Properties *)

Snapshot == [tk : [Ticket -> TicketRecord(Reasons \cup {"other"})],
             gl : [Goal -> GoalRecord], grew : BOOLEAN]

Job == [pc : {"off", "claim", "tree", "start", "run", "propose", "split", "nosplit",
              "failing", "fail", "exit"},
        number : Nat, branch : Nat, last : BOOLEAN, ran : BOOLEAN]

\* The tables hold records of their types, and a ticket's count of workers
\* (removeWorker takes away what TicketClaimed added) never drops below zero.
TypeOK ==
  /\ opt \in Options
  /\ tk \in [Ticket -> TicketRecord(Reasons \cup {"other"})]
  /\ gl \in [Goal -> GoalRecord] /\ grew \in BOOLEAN
  /\ pc \in Phase \cup {"down", "join"} /\ how \in Return
  /\ snap \in Snapshot /\ todo \subseteq Ticket /\ hands \subseteq Ticket
  /\ job \in [Attempt -> Job]
  /\ wtree \in [Ticket -> Nat] /\ branches \in [Ticket -> SUBSET Nat]
  /\ derr \in BOOLEAN /\ granted \in [Ticket -> Nat] /\ spared \subseteq Ticket
  /\ lost \in [Ticket -> Nat] /\ faults \in Nat

\* The timing assumptions: one attempt at a ticket at a time, and none that only
\* seems stalled.  (With BestOfN > 1 the first attempt that settles a ticket leaves
\* the other running, and its claim, cleanup and failure count against the ticket.)
OneByOne == PromptWorkers /\ BestOfN = 1
Timely == OneByOne /\ ~StallLive

\* No event brings a ticket back from an end state (IsTerminal), although
\* TicketClaimed, WorkStarted, TicketDecomposed and Merged are applied to a
\* ticket of any status.  (A tripped budget fails a ticket whose attempt was
\* launched and has not claimed it.)
StaysTerminal(t) == tk[t].status \in Terminal => tk'[t].status = tk[t].status

TerminalStays ==
  [][OneByOne => \A t \in Ticket : StaysTerminal(t) \/ gl[GoalOf[t]].over]_vars

\* While the queue works on a proposal the log does not move under it: the
\* branch it merges is the one the ticket is still proposed with.
QueueHoldsProposal ==
  OneByOne =>
    \A t \in hands : tk[t].status = "proposed" /\ tk[t].branch = snap.tk[t].branch

\* A cancel stops everything that is not in the queue's hands at that moment:
\* no ticket of the goal becomes merged after it (dropCancelled's fresh read).
CancelHonored ==
  [][\A t \in Ticket :
       gl[GoalOf[t]].cancelled /\ t \notin spared /\ tk[t].status # "merged"
         => tk'[t].status # "merged"]_vars

\* What lands under RequireApproval is what a human approved: the branch of a
\* ticket that becomes merged is the one the approval was given for.
ApprovalCoversMerge ==
  [][\A t \in Ticket :
       RequireApproval /\ tk[t].status # "merged" /\ tk'[t].status = "merged"
         => granted[t] = tk[t].branch]_vars

\* The branch of a proposal that may still land is in the repository until the
\* queue has decided (and has failed to say so: lost): no cleanupWorktree of
\* the failure detector or of an earlier Run takes it away.
ProposalHasBranch ==
  Timely =>
    \A t \in Ticket :
      tk[t].status \in {"proposed", "awaiting"} /\ ~gl[GoalOf[t]].cancelled
        => tk[t].branch \in branches[t] \/ tk[t].branch = lost[t]

\* The pool never exceeds Concurrency, nor a ticket's attempts BestOfN, with
\* attempts that the log does not know of yet and that a dead process left.
ConcurrencyBound ==
  /\ Cardinality(Live) <= Concurrency
  /\ \A t \in Ticket : InFlight(t) <= BestOfN

\* Work starts on a ticket only when all it depends on has landed.
WorkAfterDeps ==
  OneByOne =>
    \A t \in Ticket :
      tk[t].status \in {"ready", "claimed", "running", "proposed", "awaiting", "merged"}
        => DepsSatisfied(tk, t)

\* A ticket is attempted MaxAttempts times, and once more for every fault that
\* took an attempt without its failure being counted.
RetriesBounded ==
  OneByOne => \A t \in Ticket : tk[t].attempts <= MaxAttempts + faults

\* A pending ticket and a parked one: what is parked may be what the other waits
\* for, and then PausedForApproval does not hold although all wait for a human.
ParkedBefore(tks) ==
  \E t, u \in Ticket : tks[t].status = "awaiting" /\ tks[u].status = "pending"

\* Tickets that wait for one another, or for what they are split into: decompose lets
\* a child depend on the ticket that is split (TaskGraph).
WaitForEver(S) == S # {} /\ \A t \in S : (Deps[t] \cup Kids[t]) \cap S # {}

\* Run never gives up with "made no progress but work is unsettled", unless an
\* attempt it was waiting for died of a failed append, or work may wait for a
\* ticket that is parked, or for itself.
NeverStuck ==
  [][Timely /\ how' = "stuck" =>
       \/ how = "stuck" \/ derr \/ ParkedBefore(snap.tk)
       \/ \E S \in SUBSET Created(snap.tk) : WaitForEver(S)]_vars

\* Every submitted goal settles: each of its tickets is merged, failed or split.
GoalsSettle ==
  \A g \in Goal : gl[g].submitted ~> GoalOutcome(tk, gl, g) \in {"merged", "failed", "cancelled"}

\* After a cancel, every ticket of the goal reaches an end state: no attempt,
\* proposal or ticket of a dead process is left behind.
CancelSettles ==
  \A t \in Ticket :
    gl[GoalOf[t]].cancelled /\ tk[t].status # "none" ~> tk[t].status \in Terminal
=============================================================================
