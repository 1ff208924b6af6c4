----------------------------- MODULE MCScheduler -----------------------------
(* Small instances of Scheduler for TLC. *)
EXTENDS Scheduler, TLC

\* Goal 1 has ticket 1, which may be split in 2 and 3, the one after the other;
\* goal 2 has ticket 4.
MCGoalOf == <<1, 1, 1, 2>>
MCKids   == <<{2, 3}, {}, {}, {}>>
MCDeps   == <<{}, {}, {2}, {}>>

\* Goal 1 alone.
OneGoalOf == <<1, 1, 1>>
OneKids   == <<{2, 3}, {}, {}>>
OneDeps   == <<{}, {}, {2}>>

\* One goal, one ticket, one attempt.
Plain ==
  [Concurrency |-> 2, MaxAttempts |-> 1, BestOfN |-> 1, CrashLoopThreshold |-> 3,
   RequireApproval |-> FALSE, Budget |-> 0, Goals |-> {1}, Splits |-> FALSE,
   Fails |-> {"gate"}, PromptWorkers |-> TRUE, StallLive |-> FALSE, MaxFaults |-> 0]

Two      == [Plain EXCEPT !.Goals = {1, 2}]
Retry    == [Plain EXCEPT !.Concurrency = 1, !.MaxAttempts = 2]
Splitting == [Plain EXCEPT !.Splits = TRUE]

SafetyOptions ==
  { Two,
    [Two EXCEPT !.RequireApproval = TRUE, !.Concurrency = 1],
    Splitting,
    [Splitting EXCEPT !.Concurrency = 1, !.MaxFaults = 1],
    [Splitting EXCEPT !.Concurrency = 1, !.RequireApproval = TRUE],
    [Retry EXCEPT !.MaxFaults = 2],
    [Retry EXCEPT !.MaxAttempts = 3, !.CrashLoopThreshold = 2, !.Fails = {"gate", "agent"},
                  !.StallLive = TRUE],
    [Retry EXCEPT !.RequireApproval = TRUE, !.MaxFaults = 1],
    [Plain EXCEPT !.PromptWorkers = FALSE],
    [Plain EXCEPT !.BestOfN = 2] }

LiveOptions ==
  { [Retry EXCEPT !.MaxFaults = 2], [Splitting EXCEPT !.Budget = 1] }

StickyApprovalOptions == { [Retry EXCEPT !.RequireApproval = TRUE] }

\* Bound: attempts that outlive their ticket have no last attempt, nor have two
\* that fail at once.
FewAttempts ==
  ~PromptWorkers \/ BestOfN > 1 => \A t \in Ticket : tk[t].attempts <= MaxAttempts + 1
=============================================================================
