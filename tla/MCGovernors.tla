------------------------------ MODULE MCGovernors ------------------------------
EXTENDS Governors, MCBudget, MCTaskGraph

\* With nothing to do for the one, or for the other.
Settings == BudgetSettings \cup {[Plain EXCEPT !.goals = {}]}

Replies == AllAnswers \cup {[Says({}, {}, 0) EXCEPT !.goals = {}]}
=============================================================================
