--------------------------------- MODULE Budget ---------------------------------
(***************************************************************************)
(* The budgets of a run and of a day (ADR 017): state/spend.go,            *)
(* state/budget.go, orchestrator/budget.go, and the places of Run and      *)
(* ReconcileOnce that ask them.  Every goal is one ticket; what an attempt *)
(* and a merge do inside is in Scheduler and MergeQueue.                   *)
(*                                                                         *)
(* log holds the events that spend is read from.  The status of a ticket,  *)
(* claimed or not, is the rest of what the log folds to.  Amounts are      *)
(* integers, and the prices are those of one model.                        *)
(***************************************************************************)
EXTENDS Goals, Sequences, FiniteSets, FiniteSetsExt, SequencesExt

CONSTANTS Price,         \* dollars per token, for attempts that report no cost
          Options        \* the settings a run of the model is under

\* state.Charge; whether its model is known to the price list.
ChargeRecord == [tokens : Nat, usd : Nat, priced : BOOLEAN]

\* state.Budget; zero is no limit.
BudgetRecord == [usd : Nat, tokens : Nat, goals : Nat]

NoBudget == [usd |-> 0, tokens |-> 0, goals |-> 0]

\* goals are those still to do, run and day the budgets, charges what an attempt may
\* cost, attempts is Options.MaxAttempts and backoff whether there is a RetryBackoff;
\* runs, days and crashes bound what the run of the model goes through.
ASSUME BudgetAssumption ==
  /\ Price \in Nat
  /\ \A o \in Options :
       /\ o.goals \subseteq Goal /\ o.attempts \in Nat \ {0} /\ o.backoff \in BOOLEAN
       /\ o.run \in BudgetRecord /\ o.day \in BudgetRecord
       /\ IsFiniteSet(o.charges) /\ o.charges \subseteq ChargeRecord /\ o.charges # {}
       /\ o.runs \in Nat /\ o.days \in Nat \ {0} /\ o.crashes \in Nat

VARIABLES log,        \* the events that are charged, start a goal or record a budget
          today,      \* the UTC day
          setting,    \* the one it is under
          runs,       \* how many runs there were
          since,      \* Options.RunSince
          status,     \* of each goal's ticket
          attempts,   \* its claims
          resting,    \* the goals whose ready ticket is in its retry backoff
          flight,     \* its attempt, as the goroutine has got
          pc, todo,   \* where the pass is, and what its phase has left to do
          snap,       \* the state a phase loaded
          slots, left, stop,   \* of the pass: free slots, goalsLeft, spendStopped
          moved,      \* something was appended since the pass began
          odd,        \* history: what happened in this pass that Run does not expect
          outcome,    \* how the last Run ended
          deaths      \* of the process

runVars  == <<pc, todo, snap, slots, left, stop, odd, outcome>>
workVars == <<status, attempts, resting, flight>>
winVars  == <<today, setting, runs, since, deaths>>
bvars == <<log, moved, runVars, workVars, winVars>>

-----------------------------------------------------------------------------
(* Spend *)

Started(g)     == [type |-> "TicketCreated", goal |-> g, day |-> today]
Charged(g, c)  == [type |-> "charge", goal |-> g, day |-> today, charge |-> c]
Exhausted(w)   == [type |-> "BudgetExhausted", window |-> w, day |-> today]

NoUsage == [tokens |-> 0, reported |-> 0, toPrice |-> 0, goals |-> {}, known |-> {}]

\* Spend.Add
AddCharge(u, c) ==
  [u EXCEPT !.reported = @ + c.usd,
            !.tokens = @ + c.tokens,
            !.toPrice = IF c.priced /\ c.usd = 0 THEN @ + c.tokens ELSE @]

\* Spend.CostUSD
CostUSD(u) == u.reported + Price * u.toPrice

\* One event of the walk; a goal starts with its first ticket, inside the window
\* or before it.
Read(u, e, inside) ==
  IF e.type = "TicketCreated" /\ e.goal \notin u.known
  THEN [u EXCEPT !.known = @ \cup {e.goal}, !.goals = IF inside THEN @ \cup {e.goal} ELSE @]
  ELSE IF e.type = "charge" /\ inside THEN AddCharge(u, e.charge) ELSE u

\* usageOf
UsageOf(events, window) ==
  LET usage[i \in 0..Len(events)] ==
        IF i = 0 THEN NoUsage ELSE Read(usage[i - 1], events[i], i \in window)
  IN usage[Len(events)]

RunUsage(events, seq) == UsageOf(events, seq + 1..Len(events))

DayUsage(events, d) == UsageOf(events, {i \in DOMAIN events : events[i].day = d})

SpendReached(b, u) ==
  \/ b.usd > 0 /\ CostUSD(u) >= b.usd
  \/ b.tokens > 0 /\ u.tokens >= b.tokens

GoalsReached(b, u) == b.goals > 0 /\ Cardinality(u.goals) >= b.goals

-----------------------------------------------------------------------------
(* budget.go *)

\* The windows under a budget, each with what it has used.
Windows ==
  {w \in {[window |-> <<"run">>, budget |-> setting.run, usage |-> RunUsage(log, since)],
          [window |-> <<"day", today>>, budget |-> setting.day, usage |-> DayUsage(log, today)]} :
     w.budget # NoBudget}

SpendStopped == \E w \in Windows : SpendReached(w.budget, w.usage)

Unlimited == G + 1

\* goalsLeft
GoalsLeft ==
  IF SpendStopped THEN 0
  ELSE Min({Unlimited} \cup
           {IF Cardinality(w.usage.goals) < w.budget.goals
            THEN w.budget.goals - Cardinality(w.usage.goals) ELSE 0 :
              w \in {v \in Windows : v.budget.goals > 0}})

Tripped ==
  {w.window : w \in {v \in Windows : SpendReached(v.budget, v.usage) \/ GoalsReached(v.budget, v.usage)}}

\* State.BudgetsExhausted
Recorded(events) == {events[i].window : i \in {j \in DOMAIN events : events[j].type = "BudgetExhausted"}}

\* budgetStop, without what it returns: one BudgetExhausted for each window that
\* the state does not know of.
Record(known) ==
  LET new == SetToSeq(Tripped \ known)
  IN /\ log' = log \o [i \in DOMAIN new |-> Exhausted(new[i])]
     /\ moved' = (moved \/ new # <<>>)

\* Mutant: a budget explains the stall whether it is reached or not.
BudgetPausedIfSet == Windows # {}

BudgetPaused == SpendStopped \/ GoalsLeft = 0

-----------------------------------------------------------------------------
(* A pass *)

Append1(e) == log' = Append(log, e) /\ moved' = TRUE

InFlight(g) == flight[g] # "no"

\* loadState, as far as budgets go: who is claimed, ready, in backoff, what is recorded.
Loaded ==
  [active |-> {g \in Goal : status[g] = "claimed"},
   ready |-> {g \in Goal : status[g] \in {"ready", "claimed"}},
   resting |-> resting,
   recorded |-> Recorded(log)]

NothingLoaded == [active |-> {}, ready |-> {}, resting |-> {}, recorded |-> {}]

\* Mutant: spend is read with what step 1 reads, before the slots are counted.
NextPhaseSpendFirst ==
  [goals |-> "create", create |-> "spend", spend |-> "slots", slots |-> "launch",
   launch |-> "drain", drain |-> "end"]

NextPhase ==
  [goals |-> "create", create |-> "slots", slots |-> "spend", spend |-> "launch",
   launch |-> "drain", drain |-> "end"]

BudgetInit ==
  /\ log = <<>> /\ today = 1 /\ setting \in Options /\ runs = 0 /\ since = 0
  /\ status = [g \in Goal |-> IF g \in setting.goals THEN "queued" ELSE "done"]
  /\ attempts = [g \in Goal |-> 0]
  /\ resting = {} /\ flight = [g \in Goal |-> "no"]
  /\ pc = "off" /\ todo = {} /\ snap = NothingLoaded
  /\ slots = 0 /\ left = 0 /\ stop = FALSE
  /\ moved = FALSE /\ odd = {} /\ outcome = "none" /\ deaths = 0

\* buildOrchestrator: this run's window starts at the log as it is now.
StartRun ==
  /\ pc = "off" /\ runs < setting.runs /\ outcome # "settled"
  /\ runs' = runs + 1 /\ since' = Len(log)
  /\ pc' = "goals" /\ moved' = FALSE /\ odd' = {} /\ outcome' = "none"
  /\ UNCHANGED <<log, today, setting, deaths, workVars, todo, snap, slots, left, stop>>

\* Step 1 asks the budgets how many goals may start.
AskGoals ==
  /\ pc = "goals" /\ pc' = NextPhase[pc]
  /\ Record(Recorded(log)) /\ left' = GoalsLeft
  /\ todo' = {g \in Goal : status[g] = "queued"}
  /\ UNCHANGED <<workVars, winVars, snap, slots, stop, odd, outcome>>

StartGoal ==
  /\ pc = "create" /\ left # 0 /\ todo # {}
  /\ LET g == Min(todo)
     IN /\ Append1(Started(g)) /\ status' = [status EXCEPT ![g] = "ready"]
        /\ todo' = todo \ {g}
        /\ left' = IF left = Unlimited THEN left ELSE left - 1
  /\ UNCHANGED <<attempts, resting, flight, winVars, pc, snap, slots, stop, odd, outcome>>

EndGoals ==
  /\ pc = "create" /\ (left = 0 \/ todo = {})
  /\ pc' = NextPhase[pc]
  /\ UNCHANGED <<log, moved, workVars, winVars, todo, snap, slots, left, stop, odd, outcome>>

\* Step 3: the state, and the slots it leaves (activeAttempts).
CountSlots ==
  /\ pc = "slots" /\ pc' = NextPhase[pc]
  /\ snap' = Loaded
  /\ LET active == Loaded.active \cup {g \in Goal : InFlight(g)}
     IN slots' = IF Cardinality(active) < Concurrency THEN Concurrency - Cardinality(active) ELSE 0
  /\ odd' = IF \E g \in Goal : flight[g] = "closing" THEN odd \cup {"lingered"} ELSE odd
  /\ UNCHANGED <<log, moved, workVars, winVars, todo, left, stop, outcome>>

\* Then the budgets again.
AskSpend ==
  /\ pc = "spend" /\ pc' = NextPhase[pc]
  /\ Record(snap.recorded) /\ stop' = SpendStopped
  /\ UNCHANGED <<workVars, winVars, todo, snap, slots, left, odd, outcome>>

\* dispatchable: of what was loaded as ready, whoever was not in backoff, or is no more.
Dispatchable ==
  {g \in snap.ready : g \notin snap.active \cup (snap.resting \cap resting) /\ ~InFlight(g)}

Launch ==
  /\ pc = "launch" /\ pc' = NextPhase[pc]
  /\ \E L \in SUBSET Dispatchable :
       /\ Cardinality(L) = IF stop THEN 0 ELSE Min({slots, Cardinality(Dispatchable)})
       /\ \A g \in L, h \in Dispatchable \ L : g < h
       /\ flight' = [g \in Goal |-> IF g \in L THEN "launched" ELSE flight[g]]
  /\ UNCHANGED <<log, moved, status, attempts, resting, winVars,
                 todo, snap, slots, left, stop, odd, outcome>>

\* A ticket is done; or it goes back to ready, and its backoff begins.
Settle(g)   == status' = [status EXCEPT ![g] = "done"] /\ UNCHANGED resting
SendBack(g) ==
  /\ status' = [status EXCEPT ![g] = "ready"]
  /\ resting' = IF setting.backoff THEN resting \cup {g} ELSE resting

\* The queue merges a proposal, or sends it back, or fails it at its last attempt.
Drain(g) ==
  /\ pc = "drain" /\ status[g] = "proposed"
  /\ Settle(g) \/ (attempts[g] < setting.attempts /\ SendBack(g))
  /\ moved' = TRUE
  /\ UNCHANGED <<log, attempts, flight, runVars, winVars>>

\* An attempt that died with its process is restarted, in time.
RestartStalled(g) ==
  /\ pc = "drain" /\ status[g] = "claimed" /\ ~InFlight(g)
  /\ SendBack(g) /\ moved' = TRUE
  /\ UNCHANGED <<log, attempts, flight, runVars, winVars>>

EndDrain ==
  /\ pc = "drain" /\ \A g \in Goal : status[g] # "proposed"
  /\ pc' = NextPhase[pc]
  /\ UNCHANGED <<log, moved, workVars, winVars, todo, snap, slots, left, stop, odd, outcome>>

\* nextBackoffWait: some ticket is ready, and all that are have to wait.
BackoffWait ==
  LET ready == {g \in Goal : status[g] = "ready"} IN ready # {} /\ ready \subseteq resting

\* Run, after the pass.  It asks the budgets first, and sleeps until a backoff is over
\* only if they do not hold anything back.
EndPass ==
  LET idle == ~moved /\ \A g \in Goal : ~InFlight(g) /\ status[g] # "claimed"
      sleeps == idle /\ ~BudgetPaused /\ BackoffWait
      end == IF \A g \in Goal : status[g] = "done" THEN "settled"
             ELSE IF ~idle \/ sleeps THEN "none"
             ELSE IF BudgetPaused THEN "paused" ELSE "stuck"
  IN /\ pc = "end"
     /\ outcome' = end
     /\ \E woken \in (IF sleeps THEN {{g} : g \in resting} ELSE {{}}) : resting' = resting \ woken
     /\ pc' = IF end = "none" THEN "goals" ELSE "off"
     /\ moved' = FALSE
     /\ odd' = IF end = "none" THEN {} ELSE odd
     /\ UNCHANGED <<log, status, attempts, flight, winVars, todo, snap, slots, left, stop>>

-----------------------------------------------------------------------------
(* Attempts, which go on beside the pass *)

Claim(g) ==
  /\ flight[g] = "launched"
  /\ status' = [status EXCEPT ![g] = "claimed"] /\ attempts' = [attempts EXCEPT ![g] = @ + 1]
  /\ flight' = [flight EXCEPT ![g] = "claimed"] /\ resting' = resting \ {g} /\ moved' = TRUE
  /\ UNCHANGED <<log, runVars, winVars>>

\* ProposalSubmitted, WorkerRestarted or TicketFailed: the event that closes the
\* attempt carries its charge.
Close(g) ==
  /\ flight[g] = "claimed" /\ flight' = [flight EXCEPT ![g] = "closing"]
  /\ \E c \in setting.charges : Append1(Charged(g, c))
  /\ \/ status' = [status EXCEPT ![g] = "proposed"] /\ UNCHANGED resting
     \/ IF attempts[g] < setting.attempts THEN SendBack(g) ELSE Settle(g)
  /\ UNCHANGED <<attempts, runVars, winVars>>

\* markDispatching(-1), as the goroutine returns.
Release(g) ==
  /\ flight[g] = "closing" /\ flight' = [flight EXCEPT ![g] = "no"]
  /\ UNCHANGED <<log, moved, status, attempts, resting, runVars, winVars>>

\* A backoff is over, which the pass does not notice once it has launched.
Rested(g) ==
  /\ g \in resting /\ resting' = resting \ {g}
  /\ odd' = IF pc \in {"drain", "end", "off"} THEN odd \cup {"rested"} ELSE odd
  /\ UNCHANGED <<log, moved, status, attempts, flight, winVars,
                 pc, todo, snap, slots, left, stop, outcome>>

Midnight ==
  /\ today < setting.days /\ today' = today + 1 /\ odd' = odd \cup {"midnight"}
  /\ UNCHANGED <<log, moved, workVars, setting, runs, since, deaths,
                 pc, todo, snap, slots, left, stop, outcome>>

\* The process dies; what its attempts have spent is on no log.
Die ==
  /\ pc # "off" /\ deaths < setting.crashes /\ deaths' = deaths + 1
  /\ pc' = "off" /\ outcome' = "crashed" /\ flight' = [g \in Goal |-> "no"]
  /\ UNCHANGED <<log, moved, status, attempts, resting, today, setting, runs, since,
                 todo, snap, slots, left, stop, odd>>

BudgetNext ==
  \/ StartRun \/ AskGoals \/ StartGoal \/ EndGoals \/ CountSlots \/ AskSpend \/ Launch
  \/ EndDrain \/ EndPass \/ Midnight \/ Die
  \/ \E g \in Goal : Drain(g) \/ RestartStalled(g) \/ Claim(g) \/ Close(g) \/ Release(g)
                    \/ Rested(g)

BudgetSpec == BudgetInit /\ [][BudgetNext]_bvars

-----------------------------------------------------------------------------
(* Properties *)

\* The variables have their types.
TypeOK ==
  /\ log \in Seq([type : {"TicketCreated"}, goal : Goal, day : 1..setting.days]
                 \cup [type : {"charge"}, goal : Goal, day : 1..setting.days, charge : setting.charges]
                 \cup [type : {"BudgetExhausted"}, day : 1..setting.days,
                       window : {<<"run">>} \cup {<<"day", d>> : d \in 1..setting.days}])
  /\ today \in 1..setting.days /\ setting \in Options
  /\ runs \in 0..setting.runs /\ since \in 0..Len(log)
  /\ status \in [Goal -> {"queued", "ready", "claimed", "proposed", "done"}]
  /\ attempts \in [Goal -> Nat] /\ resting \subseteq {g \in Goal : status[g] = "ready"}
  /\ flight \in [Goal -> {"no", "launched", "claimed", "closing"}]
  /\ pc \in DOMAIN NextPhase \cup {"off", "end"} /\ todo \subseteq Goal
  /\ snap.active \subseteq Goal /\ snap.ready \subseteq Goal /\ snap.resting \subseteq Goal
  /\ slots \in 0..Concurrency /\ left \in 0..Unlimited /\ stop \in BOOLEAN
  /\ moved \in BOOLEAN /\ odd \subseteq {"midnight", "lingered", "rested"}
  /\ deaths \in 0..setting.crashes
  /\ outcome \in {"none", "settled", "paused", "stuck", "crashed"}

MaxTokens == Max({c.tokens : c \in setting.charges})
MaxUSD == Max({CostUSD(AddCharge(NoUsage, c)) : c \in setting.charges})

Within(b, u) ==
  /\ b.tokens > 0 => u.tokens < b.tokens + Concurrency * MaxTokens
  /\ b.usd > 0 => CostUSD(u) < b.usd + Concurrency * MaxUSD
  /\ b.goals > 0 => Cardinality(u.goals) <= b.goals

\* "The honest worst case is the limit plus concurrency x the per-attempt cap"
\* (ADR 017), of each run and of each day, and no more goals than the limit are
\* started: though attempts end, are charged and free their slots while a pass
\* reads the log twice, midnight passes, and processes die.
SpendBounded ==
  /\ Within(setting.run, RunUsage(log, since))
  /\ \A d \in 1..today : Within(setting.day, DayUsage(log, d))

\* What a limit holds back: a goal that has not begun, or the retry of one that has,
\* when the spend limit is reached.
Held(g) ==
  \/ status[g] = "queued" /\ GoalsLeft = 0
  \/ status[g] = "ready" /\ SpendStopped

\* Run's verdict on unfinished work is honest, as far as it can see.  It says that
\* a budget holds the work back only if a limit is reached and on record, and holds
\* back everything that is left, but for retries in their backoff; it calls the
\* work stuck only for a reason that its pass could not see: the budget that held
\* the work back has just ended at midnight, a slot was taken by an attempt that had
\* appended its last event and was gone by the end of the pass, or a backoff ended
\* after the launch.  Each window is recorded once.
PauseHonest ==
  /\ outcome = "stuck" => odd # {}
  /\ outcome = "paused" /\ "midnight" \notin odd =>
       /\ GoalsLeft = 0 /\ Tripped \subseteq Recorded(log)
       /\ odd = {} => \A g \in Goal : status[g] # "done" => Held(g) \/ g \in resting
  /\ Cardinality({i \in DOMAIN log : log[i].type = "BudgetExhausted"}) = Cardinality(Recorded(log))

\* "budgetPaused reports whether a budget is the only reason the run has stopped
\* making progress" (budget.go): whatever a paused run left is held back by a budget.
PausedByBudgetOnly ==
  outcome = "paused" /\ odd = {} => \A g \in Goal : status[g] # "done" => Held(g)
=============================================================================
