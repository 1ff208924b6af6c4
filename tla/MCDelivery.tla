------------------------------ MODULE MCDelivery ------------------------------
EXTENDS Delivery

\* Goal 1 was split into tickets 2 and 3, one after the other; goal 2 is ticket 4.
TwoGoals == <<1, 1, 1, 2>>
Split == <<{2, 3}, {}, {}, {}>>
After == <<{}, {}, {2}, {}>>
Trees == (1..4) \X {"good", "bad"}

Settings ==
  {[approval |-> FALSE, attempts |-> 1, made |-> TRUE, cancels |-> {1}, faults |-> 1],
   [approval |-> TRUE, attempts |-> 1, made |-> TRUE, cancels |-> {1}, faults |-> 1],
   [approval |-> FALSE, attempts |-> 2, made |-> FALSE, cancels |-> {2}, faults |-> 0]}
=============================================================================
