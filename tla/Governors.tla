------------------------------- MODULE Governors -------------------------------
(***************************************************************************)
(* What limits the Scheduler's work: the budgets say how much may be begun *)
(* and spent (budget.go), the graph governors how far agents may grow the  *)
(* work (decompose).  They share the goals and Options.Concurrency, and    *)
(* neither asks for what the other keeps: a budget counts charges and the  *)
(* first ticket of each goal, and a split is judged by the graph alone.  So*)
(* each is explored while the goals of the other are all done.             *)
(***************************************************************************)
EXTENDS Budget, TaskGraph

Init == BudgetInit /\ GraphInit /\ (setting.goals = {} <=> opt.goals # {})

Next ==
  \/ setting.goals # {} /\ BudgetNext /\ UNCHANGED gvars
  \/ opt.goals # {} /\ GraphNext /\ UNCHANGED bvars

Spec == Init /\ [][Next]_<<bvars, gvars>>
=============================================================================
