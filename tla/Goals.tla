--------------------------------- MODULE Goals ---------------------------------
(* What the budgets and the task graph have in common. *)
EXTENDS Naturals

CONSTANTS G,             \* goals are 1..G
          Concurrency    \* Options.Concurrency

\* New puts a number above 0 in the place of 0.
ASSUME GoalsAssumption == G \in Nat \ {0} /\ Concurrency \in Nat \ {0}

Goal == 1..G
=============================================================================
