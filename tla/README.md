# Verification of Age of Agents

TLA+ models of the coordination core of `aoa` (Go, `src/`): the event log, the
Scheduler that reconciles it, the merge queue that writes `main`, the lock that
admits one Scheduler, pull-request delivery, budgets, the task graph, the views
and reports drawn from the log, the webhook server and the sessions. TLC checks
them on small instances; TLAPS proves the theorems listed below for every value
of the constants. The source is the reference: `PROJECT.json` (`map`) names, for
each definition, the lines it translates.

## The system

| Component | State | Operations | What is hard | What makes it correct |
|---|---|---|---|---|
| Event log, `internal/ledger` | the file; per handle a mutex, `nextSeq`, `size`; a file lock | `Open`, `Append`, `Update`, `ReadFrom`, append hook | several processes, writes that break off, repair of torn tails, lock-free readers | gapless numbers, nothing acknowledged is lost, `Update`'s check holds when its events land, readers see a prefix |
| State, `internal/state` | tickets and goals folded from the log | `Apply`, and the queries the Scheduler decides by | events applied to tickets in any status; counts of workers; dependencies | end states stay, counts never go wrong, work starts after its dependencies |
| Scheduler, `internal/orchestrator` | the state it loaded; `dispatching`, `worktrees`, `verifiedBase` | `Run`, `ReconcileOnce`, `dispatch`, `decompose`, `failAttempt`, ... | stale snapshots, attempts running beside the loop, cancel and approval through the log, crash and restart | nothing runs twice, no proposal is lost, cancel and approval hold, the run ends exactly when it should |
| Task graph, `decompose` and `state.go` | tickets, keys, children, dependencies | split, adopt, judge, append child by child | overlapping splits, crashes between children, adoption across goals | acyclic, bounded, whatever waits is decided |
| Merge queue, `internal/mergequeue` | the checked-out integration branch | `Process`, `DryRun`, `ProcessBatch` | a candidate sits on `main` while the Gate runs; rollbacks may fail | `main` green, verdicts true, good proposals not dragged down |
| Pull-request delivery, `orchestrator/deliver.go` | goal branches, the remote | merge on a goal branch, push, open a pull request | crash between an effect and its event, late cancels | branches and remote agree with the log, what is complete is delivered, once |
| Run and day budgets, `orchestrator/budget.go`, `state/budget.go`, `state/spend.go` | derived from the log | headroom, trip, pause | read once, spent by several launches; midnight; retries in backoff | overshoot bounded by one attempt per slot, honest ends |
| Views, `state.go`, `cmd/aoa/status.go`, `wait.go` | conditions of goals | status, wait | replay of a growing log, answers that scripts act on | an answer stays true and fresh |
| Reports, `internal/invariant`, `metrics`, `diagnose` | maps gathered in one walk over the log | check, compute, classify | any order of events the Scheduler can write | they find what is there and nothing else |
| Worktrees, `internal/worktree` | worktrees and branches | add, remove, commit, merge, reset, observe | several attempts at one ticket share an entry | a proposal's branch exists until it is decided |
| Scheduler lock, `cmd/aoa/lock.go` | two advisory locks | acquire, run, release, look again | nobody waits; work is handed to the holder | one Scheduler, no lock left, no goal stranded |
| Front doors, `cmd/aoa/main.go` | - | submit, amend, cancel, approve, reject, run, log | concurrent with the Scheduler | retries are idempotent, a follower prints each line once |
| Webhook server, `cmd/aoa/serve.go` | queue of requests, `running` | handler, runner loop | coalesced wake-ups, failed batches, redeliveries, death with a queue in memory | one runner, nothing accepted is forgotten |
| Sessions, `cmd/aoa/sessions.go`, `state/sessions.go` | a log of observations and checks | scan, record, check | scans that race, a tree edited while it is judged | one record per change, verdicts that hold |
| Agents, telemetry, UI, configuration, doctor, bench | - | I/O and reports | - | - |

The components meet in three places. Everything that is decided is an event on
the log, appended under the file lock; every reader folds the log. The
Scheduler starts attempts as goroutines that append for themselves and share
`dispatching` and `worktrees` with it. The merge queue runs inside the
Scheduler's goroutine and is the only writer of the integration branch, while
attempts cut worktrees from it.

`PROJECT.json` (`hazards`) lists where this bites, with the properties that watch
it.

## The modules

| Module | Models | Extends or instantiates |
|---|---|---|
| `EventLog` | what the log promises: an append-only sequence numbered 1, 2, 3, ... | |
| `Ledger` | `ledger.go`, step by step, with crashes | implements `EventLog` |
| `LedgerProofs` | theorems about `Ledger`, and what callers, readers and hooks rely on | `Ledger` |
| `TicketState` | the fold of `state.go` and its queries | |
| `Scheduler` | `orchestrator.go` in local mode | `TicketState` |
| `MainBranch` | what the queue promises: `main` grows and stays green | |
| `MergeQueue` | `mergequeue.go` and the Scheduler's use of it | implements `MainBranch` |
| `MergeQueueProofs` | theorems about `MergeQueue`: what keeps `main` green, what the queue says of proposals | `MergeQueue` |
| `SchedulerLock` | `lock.go` and the runs of several processes | |
| `SchedulerProofs` | theorems about `Scheduler`: its queue and its pool, the order of work, end states, the number of attempts, the branches of proposals, and why a run gives up | `Scheduler` |
| `SchedulerLockProofs` | theorems about `SchedulerLock` | `SchedulerLock` |
| `GoalViews` | deliveries, outcomes and conditions of goals; what `wait`, `status` and `cancel` make of them | `TicketState` |
| `Audit` | the checker, metrics and diagnosis as readers of the log | `GoalViews` |
| `Delivery` | `deliver.go` and `orchestrator.go` in pull-request mode | `Audit` |
| `DeliveryProofs` | theorems about `Delivery`: branches, readers of the log, answers that stay | `Delivery` |
| `Goals` | what budgets and task graph share: the goals and `Options.Concurrency` | |
| `Budget` | `spend.go`, both `budget.go`, retry backoff, and the passes that ask them | `Goals` |
| `BudgetProofs` | theorems about `Budget`: what is spent, what `Run` says of it | `Budget` |
| `TaskGraph` | `decompose`, the graph in `state.go`, `GraphShapes`, the replay of `status.go` | `Goals` |
| `TaskGraphProofs` | theorems about `TaskGraph`: the cycle search, the size and the shape of the graph, the end of waiting | `TaskGraph` |
| `Governors` | budgets and task graph side by side | `Budget`, `TaskGraph` |
| `Webhook` | `serve.go` and the follower of the log | |
| `Sessions` | `sessions.go` (both) and `observe.go` | |
| `FrontDoors` | the two side by side | `Webhook`, `Sessions` |
| `FrontDoorsProofs` | theorems about the follower of the log, the runner and the sessions | `FrontDoors` |
| `MC*` | instances for TLC | |

The composition is by contract. `Scheduler` appends events atomically; that one
append is atomic, numbered and durable is what `Ledger` implements (`EventLog`).
`Scheduler` takes the queue's outcome as a choice (`OutcomeDone`: merged,
rejected); what those outcomes mean for `main` is `MergeQueue`. `SchedulerLock`
takes a whole `Run` as "deals with what is on the log until nothing is left";
`OneScheduler` is why `Scheduler`, `Delivery` and `Budget` have a single loop.
`Delivery`, `Budget` and `TaskGraph` each follow the same passes of
`ReconcileOnce` with one concern in full and the others reduced: what an attempt
does between its events is in `Scheduler`, what a merge does inside is in
`MergeQueue`.

### Ledger

State: `lines` and `tail` are the file (complete lines, and whether a piece of a
line follows them), `flock` the sidecar lock, `mu`, `nextSeq`, `size` and `open`
the handles, `pc`, `op`, `buf`, `stored` a thread in a call. One action per
step between which another process can run: take the mutex (`LockMu`), take the
file lock (`LockFile`), `sync` (`SyncLog`, with the repair), decide and marshal
(`PrepareWrite`), write the text and then the newline (`WriteText`,
`WriteNewline`: `appendLine`), release (`Unlock`), hook (`Notify`). Each has the
error path of the code, and a process may die between any two (`Crash`: the
operating system drops its lock, the file stays as it is). `ReadFrom` takes no
lock. It is one atomic read here; the code seeks and then reads to the end in several
pieces (`ledger.go:373`), so a line that is pieced together from before and after a repair is
outside the model.

An event is a key and a number. Keys stand for idempotency keys; `Update`'s
decision function is "append the keys that are not on the log", as in
`submitGoal` and `recordSessions`.

### TicketState and Scheduler

`tk` and `gl` are the state the log folds to. An append (`EmitTicket`,
`EmitGoal`) is one step. The Scheduler's own copy is `snap`, taken where the code
calls `loadState`, with what it found there and has still to deal with in
`todo`; both go stale while it works. `pc` walks through the phases of
`ReconcileOnce` in the code's order: create, cancel, trip budgets, promote,
launch, drain, blocked, stall; then `EndPass` is `Run`'s decision whether to go
on, to wait, to return or to give up. Each attempt (`job`) is a goroutine with
its own steps (`Claim`, `AddWorktree`, `StartWork`, `Commit`, `Propose`, ...),
interleaved with the loop and with the front doors (`Submit`, `Cancel`,
`Approve`, `Deny`). `wtree` and `branches` are the worktree entries and git
branches, which is where several attempts at one ticket collide.

Faults, bounded by `MaxFaults`: the process dies (`Crash`; the goroutines go with
it, the log and git stay), the Scheduler's own reads or appends fail
(`SchedulerFails`, `DecisionLost`), an attempt's append fails (`EmitFails`), an
agent's environment is unusable (`Invalidate`). Time is `Elapse`: a ticket has
been quiet for the stall timeout.

The settings an Orchestrator runs under are the variable `opt`: chosen from the
constant `Options` in the initial state and never changed, so that one run of
TLC covers several. Beside the code's own options it holds what the
surroundings do: which goals are submitted, whether agents split tickets, why
attempts fail, how many faults there are, and two timing assumptions.
`PromptWorkers` says that between a pass's read of the log and its launches no
attempt goes through its whole life (`CanEnd`), and `StallLive` whether a live
attempt may seem stalled. The code excludes neither, so a property that needs
them names them (`Timely`). Nor do all properties survive `BestOfN = 2`, where
the attempt that settles a ticket leaves the other running: `OneByOne` names
those that are claimed for one attempt at a time. `ConcurrencyBound` and
`CancelHonored` hold without any of these.

Workers of one ticket have one name, as in the code's use of it. The tree
of tickets (`Kids`, `Deps`) is a constant: which children a decomposition makes
is chosen by the instance; `TaskGraph` has the choosing. A split is refused when a
child depends on what is neither a sibling nor on the log (`KnownDeps`), or for any
other reason (`Split` may fail whatever the children are); the ticket made of a goal
depends on nothing (`RootsAssumption`).

Left out: retry backoff (off by default, and in `Budget`), failed heartbeats, amendments, token
amounts (a goal is charged one unit per attempt).

### MergeQueue

A proposal is a numbered branch; `head` is the sequence of branches merged on the
checked-out branch, so content is a set and a rollback is a shorter sequence.
`Clash` and `Red` say which pairs conflict and which sets fail the Gate: the Gate
judges the union, so two good branches may be red together. `pc` separates
merge, Gate, and rollback, because the process can die and a worktree can be cut
between them. `Fault` is any git or Gate call that fails. After two of the faults
nothing in the code repairs `main`: a rollback that fails and a process that dies
inside a call. They set the history variable `harm`, and the properties say what
holds until then and what holds always (`LandedStays`). `start` is `main` as seen
between calls, the state of the abstract `MainBranch`; it follows `head` as long
as there is no harm.

### SchedulerLock

Several processes submit and run. A log is its length and the submitted work on
it that no Scheduler has dealt with. The two locks are taken and given back in
the code's order, and `seqAtEnd` is read where the code reads it: after the run,
before the locks go.

### GoalViews, Audit and Delivery

`GoalViews` adds to the tables of `TicketState` what pull requests add to a goal
(`dl`), and the questions the commands ask: `GoalComplete`, `Deliverable`,
`Outcome`, the four conditions, `GoalDone` for `aoa wait`, `Cancels` for `aoa
cancel`. `Audit` is the repository's own judges. The invariant checker, metrics and
the diagnosis walk the log once with a few maps; since the log only grows, their
maps are a record (`acc`) that each append takes one event further (`Scan`).
They are therefore not properties of the model but part of it, and the properties
say that they agree with the state and find nothing (`CheckerClean`,
`ReportsAgree`).

`Delivery` runs the passes of `ReconcileOnce` phase by phase (`pc`, `todo`), with
every phase a list that is worked off item by item while attempts, cancels and
decisions go on. A commit is the set of changes in it. The queue's work on a
goal's branch is `Detach`, the Gate, `UpdateRef`, `RecordPass`, `RecordMerge`, each
a step, because the branch moves before the log says so; `Deliver` reads the log
again, then `Push`, `OpenPR`, `RecordDelivery`. A Gate may fail to run
(`GateBreaks`) or contradict itself (`flipped`), which the diagnosis must tell
apart.

### Budget

`log` keeps the events that spend is read from, and `UsageOf` folds them as
`usageOf` does; windows, limits, `goalsLeft` and what trips are computed from it
where the code does: when a pass creates goals (`AskGoals`), before it launches
(`AskSpend`, after `CountSlots`: the order is what keeps the overshoot bounded), and
when `Run` has to say why it ends (`EndPass`). An attempt has two last moments: the
event that charges it (`Close`) and the release of its slot (`Release`).

A ticket that is sent back is in its retry backoff (`resting`) where the setting has
one, until time passes (`Rested`). `dispatchable` skips it, as the pass loaded it; and
`EndPass` asks in the code's order: the budgets first, then whether all that is ready has to wait
(`nextBackoffWait`), in which case Run sleeps until the first backoff is over. A
setting lists the goals still to do, the budgets, the bounds and whether there is a backoff.

### Governors

Budgets and task graph share the goals and the number of slots, and neither asks for
what the other keeps: a budget counts charges and the first ticket of each goal, a split
is judged by the graph alone. `Governors` therefore explores each while the
goals of the other are all done. Each of its steps is a step of one and leaves the variables of the other as they are,
so what is proved of `BudgetSpec` and of `GraphSpec` holds of it.

### TaskGraph

Ids are paths, as `childID` makes them. A split reads the log once, resolves keys
and dependencies, is judged by the governors and the cycle check (`Rejected`), and
then appends its children one by one (`CreateChild`) while other splits do the
same; a crash leaves what was appended. Local ids are taken to have no slash in
them, and the order in which a split lists its children is kept (`place`), as that is the
order they are appended in. `HasCycle` is the code's depth-first search, with its
recursion as a stack: the gray nodes are on it, the one being visited on top, `Visit` is
one step, and the order in which nodes and edges are looked at is left open, as
Go's maps leave it. `GraphSound` compares it with reachability (`Acyclic`). `view` is the Complete condition of each goal as a
replay keeps it (`Replay`: only for the goal an event names).

### Webhook, Sessions and FrontDoors

`Webhook`: the handler's checks (`Answer`), the runner with its `queue`, its
`running` flag and its loop as a goroutine that may be one of two (`Slots`), so
that a second would be seen. The follower (`Follow`, `Poll`, `StartOver`) reads by
offsets while others append, tear and repair lines and the file is cut short and
put back. `Sessions`: what a scan read stays with the command (`procs`) while trees
and log move on; a session's verdict carries the fingerprint of the scan and that
of the reading after the Gate. The two sides share nothing, so `FrontDoors`
explores each while the other rests.

## The runs

| Run | Bounds | Shows |
|---|---|---|
| `ledger` | 3 threads, 2 handles (see `MCLedger.cfg`), 2 calls in all and 2 faults, fair | the log's invariants, that it implements `EventLog`, and that every call returns |
| `scheduler` | 10 settings: two goals of one ticket, two attempts at a time; two goals with approval; a ticket that splits in two dependent children, without a fault, one at a time with 1 fault, and one at a time with approval; 2 attempts, 2 faults; 3 attempts, 2 reasons, crash loop at 2, live stalls; approval with retries and 1 fault; attempts of any speed; two attempts at one ticket | the Scheduler's safety |
| `scheduler_live` | 2 settings: 2 attempts and 2 faults; a splitting ticket under a budget of one charge; fair | goals settle, cancelled tickets end |
| `merge_queue` | 4 branches, 2 faults of any kind | the queue's safety, and that it implements `MainBranch` |
| `lock` | 2 processes in one workspace with 2 submits, one with `--once` in another on the same repository, 1 fault, fair | one Scheduler, locks freed, the second look, calls return |
| `delivery` | 2 goals, 4 tickets, one of them split in two dependent children; a cancel and 1 fault, the same with approval, or 2 attempts from the start with a cancel; fair | checker, reports, branches and remote agree; answers stay; what is complete is delivered |
| `governors` | budgets, with 3 goals and 2 slots: a run limited in dollars, twice; a day limited in tokens and the next; a day of dollars and goals with runs of one goal, and a crash; retries with backoff under a limit on goals, and under one on tokens with a crash. Graphs, with 2 goals still to do and 2 splits at once, depth 2, fan-out 2, 5 tickets per goal: 8 answers of one goal beside a duplicated key in the other; growth to the limits; a split that breaks off | overshoot, and why a Run ends; the graph, and that waits end |
| `front_doors` | 4 deliveries of 4 kinds with a failure; 3 on a log that is cut and put back once; 3 beside a follower; a follower with 4 appends and 2 cuts; 2 session commands on one path with 3 edits, or 3 with 1 edit, or two bases | the webhook, the follower and the sessions |

The bounds are the smallest with which the hazards occur: two writers to race and
a third to repair after the first died; two goals to compete for slots; two
slots per ticket to overlap attempts at it; four branches for a batch, a clash, a
pair red together and a serial rest; two processes for a holder and a refused
submitter, and a third to compete for the repository; two commands and one
worktree made, removed and made again for racing scans; three goals and two slots
for a slot that is freed while the next goal waits. One fault, or two where
recovery can be hit again, suffices for the properties stated: each recovers from
the state the previous fault left, and more faults repeat it. Deadlock is checked
where the system never stops; in `delivery`, `governors` and `front_doors` the work is bounded and ends (every goal settled, every delivery
received), and properties (`Delivers`, `PauseHonest`, `WaitsEnd`,
`NothingForgotten`) say in what state it may. `FewAttempts` bounds the attempts at
a ticket that lost its end state, or of which one attempt outlives another, which
nothing in the code bounds.

Four runs end in a violation, each a disagreement between the code and what its
documentation says (`PROJECT.json`, `findings`):

- `sticky_approval`: an approval outlives the candidate it was given for
  (`state.go:404`).
- `paused_early`: as many goals have begun as the limit allows, and the only open ticket
  waits for its retry backoff. Run asks `budgetPaused` before `nextBackoffWait`
  (`orchestrator.go:236`), and the first is true whenever the limit on goals is reached
  (`budget.go:94`), whether or not a goal waits to begin. The run ends as paused and names the
  budget, although "a budget is the only reason the run has stopped" (`budget.go:90`) is not
  so, and "Goals already started carry on" (`orchestrator.go:261`) does not happen: without the
  limit Run would sleep and retry. `MCPausedEarly.cfg` runs `Budget` by itself under that setting
  (`RetriedSetting`).
- `view_stale`: a goal that adopted another goal's ticket is not recomputed when
  that ticket merges, and `aoa wait` does not return for it (`status.go:172`).
- `woven_splits`: two splits that broke off in a crash and are made again beside each
  other close a cycle (`orchestrator.go:878`): the first attempt of one left a child
  whose dependency is not there, the other goal depends on that child, and neither
  split sees what the other has still to append. ADR 007 (line 44) says that "the task
  graph is always a DAG".

## Disagreements without a run

They follow from the models, most from a guard or an excuse in a property that
cannot be dropped.

Scheduler. A pass reads the log first and the in-flight counters later
(`orchestrator.go:344`; the comment at 88-90 says "the window cannot exist"): an
attempt that ends in between is launched again and revives a settled ticket;
`PromptWorkers` excludes it, and one setting does without. With `best_of_n` 2 the
failure of one attempt removes the worktree and branch of the other's proposal
(`orchestrator.go:1257`), and two attempts that fail together each take the other
for a live worker, so retries are not bounded; `OneByOne` excludes it. Run asks for
in-flight attempts after it loaded the state it compares, so an attempt that ends
in between makes it report a stall (`orchestrator.go:225`). A dependent of a parked
ticket turns waiting for a human into "made no progress" (`orchestrator.go:1124`).
A tripped budget fails a ticket whose attempt is launched but has not claimed it,
and the claim revives it (`orchestrator.go:960`). `TicketInvalidated` counts
against no limit.

Merge queue. A process that dies while the Gate runs leaves the unverified
candidate on `main` (`mergequeue.go:115`, against "`main` is never red",
`src/README.md:197`); `harm` is that case. An error of the queue that says a
rollback failed is recorded as a rejection although the candidate is on `main`
(`orchestrator.go:1070`).

Lock. A goal submitted after the last pass and before the log's length is read is
promised a pick-up that never comes (`lock.go:155`, against the comment at 136). A
submitter refused by a process that is then itself refused the repository is
promised one too (`lock.go:91`); `Excuse` in `TryRepo` is that case.

Task graph. A child may depend on the ticket that is being split
(`orchestrator.go:877`), or a split may adopt an ancestor: the graph the cycle
check looks at has no edge from parent to child, and the wait never ends; with
cyclic children `ticketComplete` and `ticketDead` recurse without end
(`state.go:599-643`), which `Reached` does not. A split whose key another split
takes while it is at work names a child that never comes
(`orchestrator.go:771-775` says it cannot). A crash in the middle of a split leaves
children without a parent, and the next answer may add as many again or close a
cycle with another split (`woven_splits`), for which `criticalPathDepth` recurses without
end (`metrics.go:378`).
`MaxFanOut` bounds a split's new children, while `GraphShapes` counts adopted ones
too. `SelfWait`, `Missing` and `crashes` in `WaitsEnd` and `GraphSound` are these
cases.

Budget. `BudgetsExhausted` keeps one entry for "run" with no run in it, so only the
first run that exhausts its budget is ever recorded, while `events.go:94` says
"once per run". Run says "made no progress" when the day's budget ended at midnight
during the pass, or when a slot was held by an attempt already past its last event
(`lingered`). It says so too when the backoff a ticket was waiting for ends between the
pass's launch and `nextBackoffWait` (`rested`): then something is ready that does not have to
wait, and Run gives up where one more pass would launch it (`orchestrator.go:241`, where the
comment at 239 says that a backoff is no reason to give up). `odd` is these three cases. What an attempt spent before its process died is on no log.

Delivery and views. A goal cancelled before it has a task is done, and a pass that
had read the log before may still create one (`DoneStays`). A cancel may come
between `deliver`'s second read and its push. Metrics and the diagnosis go on
counting an attempt as active that ended in `TicketInvalidated` (`voided`). Each goal is cut from
its base alone, so a split that adopts another goal's ticket is complete without
the change being on its branch.

Front doors. A submit that fails in the middle of a batch leaves goals on the log
that no run looks at before the next delivery (`stray`; the comment at
`serve.go:123` says the run would have nothing new to do). What is queued dies with
the server after it was answered 202. A session's verdict is pinned to the
fingerprint of the scan, not to what the Gate saw (`early`), and an untracked file
written while it ran is taken for its output (`absorbed`, conceded by ADR 022). A
session whose worktree moves to a branch of aoa's is recorded as removed, and of two scans
that race the older may be recorded last.

Limits stated in the properties. `ProposalHasBranch` speaks of goals that are not
cancelled and excuses a proposal whose rejection could not be appended (`lost`).
`TerminalStays` excuses goals whose budget tripped, where a launched attempt claims a
ticket the trip has just failed, and with `WorkAfterDeps` speaks of one attempt at a
ticket at a time, since a late claim of a second one revives a merged dependency.
`NeverStuck` excuses a run whose attempt died of a failed append, the dependent
of a parked ticket above, and tickets that wait for one another (`WaitForEver`), as a
child that depends on the ticket being split does; no instance has such tickets, so in
the runs that excuse is never used. `HandoffCovered`
excuses the blind moment above, refusals of the repository, runs that
failed, and `--once`. `AlwaysGreen`, `VerdictTruth` and `BaseGreen` end with
`harm`; `VerdictTruth` excuses branches left by calls that ended in an error
(`stray`).

## Fairness

`Ledger`: a thread that can take its next step
takes it (weak fairness, per thread; nobody has to call, fail or restart). `Scheduler`
and `Delivery`: `aoa run` is started again (cron, `--interval`), the
loop goes on because it never blocks on an attempt, an attempt ends because the
agent has a timeout, and time passes. Nothing is assumed of the front doors: no
one has to approve, cancel or submit, and no Gate, push or opener has to succeed
but as the bounded faults let it. `SchedulerLock`: a process in a call goes on;
no fairness between contenders, since nobody waits for a lock.

## What is proved

`LedgerProofs`, for any numbers of handles, threads, keys and faults. The
properties are not inductive: that a repair removes no acknowledged line needs
to know who may have written. `IInv` adds, to the types: a lock holder's place in
the code and its locks agree (`LocksHeld`), what a handle remembers of the file is a
prefix of it (`KnowsPrefix`), a writer past `sync` knows the exact end of the
file, and what it has stored is on the log (`Written`, `AtEnd`, `StoredOnLog`).
`Invariance` shows it action by action; `TypeCorrect`, `Gapless`, `Durable` follow,
and `Refinement` maps every step to an append of `EventLog` or a stutter. The
assumptions are those on the constants in `Ledger`.

What callers, readers and hooks rely on rests on `Invariance` and on `LinesGrow` (a step only adds to the
log). `ReadersSafe` (`ReaderSeesPrefix`) needs no more. `HooksInOrder`
(`HookInOrder`) adds `HookInv`: what a thread has stored and not yet handed over
comes after all its handle's hook has seen, which holds because the handle's
mutex, unlike the file lock, is kept until the hook has run. `KeysOnce`
(`KeyAppendedOnce`) adds `KeyInv`: what a writer is still to write is listed once
and, if it was checked, not on the log, which holds because nobody else is past
his own check.

`MergeQueueProofs`, for any branches, files, clashes, red sets and faults.
`QueueInv` says that until harm is done `CalmInv` holds: where in a call which
prefix of `head` is known green. The rollback target `pre` always is, it extends
what the call started from, and what is above it is the candidate only; without
that, a failed Gate run could not be shown to end on a green `main`.
`QueueInvariance` goes action by action; `MainGreen` (`AlwaysGreen`),
`WorktreesFromGreen` (`BaseGreen`) and `QueueRefinement` (`ImplementsMain`)
follow. After harm the abstract branch stops, since no more can be claimed.

`LandedStays` holds in spite of harm, by another invariant, `LandInv`: what the log
or the call in hand says is merged is on `head` and, while a merge is in hand,
also on the rollback target, so that no rollback can take it away; the members of
a union and the branch under the Gate are on `head` before they are called
merged. `Stays` is the theorem.

`SchedulerProofs`, for any tickets, goals, settings and faults. Four summaries say
what the steps do to the log and to the queue: `PassStep` (the pass deals with one
ticket), `JobStep` (an attempt), `FrontStep` (people, time, a tripped budget) and
`MoveStep` (the pass moves on, ends or dies); `Steps` shows that every step is one of
them. `CancelsHold` (`CancelHonored`) needs `CancelInv`: what the queue holds of a
cancelled goal it held when the cancel was logged, which is what `dropCancelled`'s
fresh read buys. `QueueHolds` (`QueueHoldsProposal`) needs `QueueOK`, what the queue
has before it is proposed as the pass read it, and `JobsOK`: a ticket has one live
attempt at most and none while it is proposed or parked, and from its read of the log
to the launch a pass may count on what it found ready (the assumption
`PromptWorkers`, without which TLC finds the race). It uses no more of the constants
than that tickets and slots are finitely many.

`PoolBounded` (`ConcurrencyBound`) is inductive with the types: every live attempt is in
flight until its goroutine is gone, so `activeAttempts` counts it whatever the log
the pass has read says of its ticket, and what a stale log adds to the count
only makes a launch smaller. It holds for two attempts at a ticket too.

Its second part is about what a ticket goes through; it builds on `Steps`, on
`QueueOK` and `JobsOK`, and on the lemmas at the head of the module, by which the
recursive queries (complete, dead) satisfy their equations, which is all the proofs use
of them (`DeliveryProofs` begins with the same lemmas). Its invariants name the assumption they need (`OneByOne`,
`Timely`), as the properties do.

- `EndStatesHold` (`TerminalStays`): `GoneOK`, nothing that has ended has an attempt, on
  the log or about to be launched, that could bring it back, unless its goal's budget
  has tripped.
- `WorkWaits` (`WorkAfterDeps`): `DepsOK`, what is worked on, or is on a list to be
  promoted, launched or restarted, has its dependencies. It needs `GoneOK`: what has
  landed stays landed. That a dependency stays satisfied is a fact about the whole
  tree below it: were there a ticket that was complete before a step and not after,
  there would be a lowest one, whose children all stayed complete.
- `RetriesEnd` (`RetriesBounded`): `TriesOK` bounds the attempts of each ticket, strictly
  as long as another may come; `CountOK` says that the number an attempt took from
  what the pass had read is that of its ticket, and that what the queue was given is
  the ticket as it was read. The bound is `MaxAttempts` and one for each fault.
- `BranchesKept` (`ProposalHasBranch`): `BranchOK`, a proposal has its branch and a busy
  ticket one worker, which does not seem stalled while it lives; `FoundOK`, what the
  pass found of a ticket whose worktree it will clean up still stands. A
  proposal whose rejection could not be appended (`lost`) is excused.
- `GivesUpForReason` (`NeverStuck`) says what a whole pass leaves behind. `ClearOK`: as long
  as nothing has been appended since the pass began, no attempt is live and none has
  left an error (`Still`), the list of the step the pass is at is all that the log has
  for it (`Listed`), and what the steps before it looked for is not there (`Clear`). A
  step that deals with a ticket says so, and so does an attempt that ends: then nothing
  is claimed of this pass any more. A launch that starts nothing with the whole pool free
  saw nothing ready; time passes in silence but changes nothing a step looks for
  (`SameWork`). `BornOK`: what a ticket depends on or was split into is on the log, since a
  goal's ticket depends on nothing (`RootsAssumption`) and `decompose` refuses unknown
  dependencies (`KnownDeps`). So when `Run` gives up, every open ticket is pending or
  parked, each pending one waits for a ticket neither complete nor dead, and that one for
  another (`StuckWaits`).

`DeliveryProofs`, for any tickets, goals, settings and faults. The invariant has three
parts, each inductive with those before it.

- `WorkInv`: the tables are well formed, what was promoted has its dependencies, and
  whatever phase the pass is in, each item left on its list is still as the phase
  counts on (`ListOK`), although it was read before the attempts, cancels and
  decisions since.
- `GitInv`: the branch of a proposal is of one goal and holds its change, a goal branch
  holds every merged ticket's and has passed the Gate, or is about to be moved to
  something that has; what was pushed is complete and still where the branch is. The
  branch moves before the log says so, so this speaks of the two steps in between.
- `AccInv`: what the readers gathered is what the state says. `ScanReads` says what
  each of them makes of one event, `Told` which event may come when. `Unfinished` is
  the window of a merge that is on the branch and not on the log.

`CheckerFindsNothing` (`CheckerClean`), `BranchesTrue` (`BranchTruth`) and `ReadersAgree`
(`ReportsAgree`) follow. `AnswersStay` (`DoneStays`) is about steps: none takes a ticket of
a started goal out of an end state, cancels a goal that is done or undoes a
delivery (`Steady`), and where no status of a goal's tickets changes, neither does
what the recursive queries say of them (`SameWork`, again by a lowest
counterexample).

`BudgetProofs`, for any goals, slots, prices, limits, costs of attempts, runs, days and
crashes, with retry backoff and without. What a window has used is a walk over the log, defined by a recursive
function; `UsageAppend` and `UsageIdle` say what one event, or the record of a budget,
adds to it (two walks that read the same agree: again by a lowest counterexample).

- `SpendHolds` (`SpendBounded`): the bound is not inductive, since it says nothing of
  what is still to be charged. `SpendInv` keeps room for all attempts not yet
  charged (`Ahead`): those that are open and, from the moment a pass found
  the budgets open until it launches, the slots it counted. They were counted
  first, so they are free of whatever ended since; `NextPhaseSpendFirst`, the
  mutant that asks first, breaks this. `GoalInv` is the same for the goals
  the pass may still start, `PastInv` for the days that are over. A midnight or a new
  run begins a window with room for every slot.
- `PausesHonest` (`PauseHonest`): Run says paused only if a limit is reached and on record and
  holds back all that is left, but for retries in their backoff (without that excuse
  it is `PausedByBudgetOnly`, which `paused_early` refutes). As long as nothing was appended since the pass
  began and no midnight came, what it found holds when it ends: which goals are
  queued and how many may start (`QueueInv`), that what is ready was launched or is in its
  backoff (`AllRest`), unless spend has stopped or a slot is held (`SlotInv`), and that what has tripped is on
  record, once (`RecordInv`). A pass that appended nothing, saw no midnight and no end of a backoff and
  counted no slot of an attempt that was already over has then left nothing behind but what a
  budget holds or is in its backoff (`AllHeld`, `EndInv`), and if all of it is, Run sleeps unless
  a limit is reached.

`FrontDoorsProofs`, for any deliveries, writers, cuts and places to begin at, which the
assumption of `FrontDoors` says are numbers, and any finite set of paths.
`FollowsExactly` (`FollowedExactly`) rests on `TailInv`: what was printed ends at the last number handed over and the offset is
never past it, so the next poll joins on without a gap, and `LogInv`: as long as no
lines were written to a cut file, it is a prefix of the log that was.

`NoneForgotten` (`NothingForgotten`) rests on `OneInv`, one loop at most is at work and
`running` says so, and `TallyInv`: of each request, the deliveries that wait in the
queue or in a batch, those lost with a failed batch or the server, and the goals on
the log make up what was answered 202; with an id there is one goal at most, and
until there is, every delivery waits or is lost.

`SessionsKept` shows `SessionsInv`: every observation on the log says something new of its
session, what a verdict takes for the Gate's own output leaves the tracked files as
they were scanned (`SoundLog`), and every command at work holds what its next step
relies on (`ProcOK`): its scan calls present what it found, and the session it judges
is on the log. `RecordsOnce` (`RecordedOnce`) and `VerdictsHold` (`VerdictHolds`) follow.
`SessionAssumption` says that there are finitely many paths and that "none" is not
the content of a tree.

`TaskGraphProofs`, for any goals, limits, slots, local ids and keys, any answers in which
a subtask lists finitely many dependencies, and any number of crashes. A limit on the
tickets of a goal is above 0, since `New` replaces the others (`orchestrator.go:151`).

- `CycleFound`: `HasCycle` tells whether a finite graph has a cycle. `SearchInv` says what a
  depth-first search knows: the stack is a path, a black node leads to black ones only,
  and no cycle is among them; `Effort`, the edges left and the nodes not yet black, falls with
  every step, so the search has ended when `HasCycle` looks. A graph without a cycle is `Grounded`:
  every set of its nodes has one from which no edge leads into the set. That form, which
  needs no paths, is the one the other proofs keep.
- `InvHolds`: the inductive invariant. `Sane` ties keys, tickets and children together,
  `Planned` says what a split at work has left to append, `Once` how many children a split
  has, and `Few` how many tickets a goal has and will have (`Load`): a split may begin while `Concurrency - 1` others are at work, each of
  which was judged by a log without the rest. `Uncrashed` speaks of the time before a
  crash: `Grounded(All)`, the dependencies of the tickets and those of all children that
  are listed and not there yet have no cycle together. Two splits at work do not see
  each other's children, and are safe all the same: a ticket's id is the path to it
  (`Rooted`), so nothing that was named before (`Named`) can be a child of a ticket that
  was not split before. No edge there is, or is to come, leads into a new list, and what
  the list itself adds was checked against the log. A crash breaks this:
  a child is left whose dependency is on no list, and a later split of another goal may
  depend on it (`woven_splits`).
- `GraphsSound` (`GraphSound`) and `WaitsHaveAnEnd` (`WaitsEnd`) follow; the second takes, in a
  graph whose waiting tickets do not wait for themselves, a ticket that waits for no
  other that waits.

`SchedulerLockProofs`, for any processes, workspaces, repositories and faults:
`LockInv` says that a lock's holder is at a place of the call that needs it
(`LocksFreed`) and that whoever is at such a place holds the lock (`Owns`); each is
needed for the other, since letting go frees the lock of the place, whoever the
lock says holds it. `Freed` and `Exclusive` (`OneScheduler`) follow; `TypeCorrect`
is separate. `Handoff` (`HandoffCovered`) adds `CoverInv`: whoever holds the
workspace covers all of its open work that is not excused, because it has not yet
read the length of the log it will compare with, or has read a smaller one, so a
process it turns away can go home; and what was promised stays covered after the
holder let go, up to the comparison. It needs `TypeOK`'s conjunct that no length
read is ahead of its log.

Every safety property of a passing run, state or action, is proved. `ApprovalCoversMerge`,
`ViewFresh`, `AlwaysDAG` and `PausedByBudgetOnly` do not hold (see the runs that end in a violation). Only
model-checked: liveness (`CallsReturn`, `GoalsSettle`, `CancelSettles`, `Delivers`), which
is out of the prover's reach, as is what a recursive definition computes for every
input: the proofs use of `TicketState`'s recursive functions only that they satisfy
their equations. `TypeOK` of `Scheduler`, `MergeQueue`,
`Delivery` and `Budget` states their types for the reader and can be added to
their configurations.

## Not modelled

Agents: running processes and talking to model providers is I/O; what an attempt
may return is a choice in the models that use it. Telemetry: it is fed by the append
hook, whose order `Ledger` checks. Configuration, doctor, the UI, benchmarks and
the public types: parsing, formatting and measurement. Of the modelled
components: amendments (texts that are passed on to agents), snapshots of the state, prices per model, the Shadow set, times in the reports,
and the parsing of git's output.
