-------------------------------- MODULE MCBudget --------------------------------
EXTENDS Budget

\* An attempt that reports its cost, and one that is priced.
Costs ==
  {[tokens |-> 1, usd |-> 2, priced |-> TRUE],
   [tokens |-> 1, usd |-> 0, priced |-> TRUE]}

OneToken == {[tokens |-> 1, usd |-> 0, priced |-> TRUE]}

Limit(usd, tokens, goals) == [usd |-> usd, tokens |-> tokens, goals |-> goals]

Plain ==
  [goals |-> Goal, run |-> NoBudget, day |-> NoBudget, charges |-> OneToken, attempts |-> 1,
   backoff |-> FALSE, runs |-> 1, days |-> 1, crashes |-> 0]

\* A started goal's ticket waits for its backoff, and there is one goal that may not begin.
Retried == [Plain EXCEPT !.run = Limit(0, 0, 2), !.attempts = 2, !.backoff = TRUE]

\* A run that may spend two dollars, twice; a day of one token, and the next; a day
\* of two goals with runs of one, with a crash; retries under a limit on goals, and under
\* one on tokens, with a crash.
BudgetSettings ==
  {[Plain EXCEPT !.run = Limit(2, 0, 0), !.charges = Costs, !.runs = 2],
   [Plain EXCEPT !.day = Limit(0, 1, 0), !.days = 2],
   [Plain EXCEPT !.run = Limit(0, 0, 1), !.day = Limit(3, 0, 2), !.runs = 2, !.days = 2,
                 !.crashes = 1],
   Retried,
   [Retried EXCEPT !.goals = {1, 2}, !.run = Limit(0, 2, 0), !.crashes = 1]}

RetriedSetting == {Retried}
=============================================================================
