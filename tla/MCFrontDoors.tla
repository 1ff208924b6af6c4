----------------------------- MODULE MCFrontDoors -----------------------------
EXTENDS FrontDoors

CONSTANTS d1, d2, d3, d4

Fine == [post |-> TRUE, whole |-> TRUE, signed |-> TRUE, comment |-> TRUE, parses |-> TRUE,
         command |-> TRUE, allowed |-> TRUE, id |-> TRUE]

\* Two commands with an id, one without, and one that is not accepted.
Requests == d1 :> Fine @@ d2 :> Fine @@ d3 :> [Fine EXCEPT !.id = FALSE]
              @@ d4 :> [Fine EXCEPT !.signed = FALSE]

Work(deliveries, failures, others, cuts, from) ==
  [deliveries |-> deliveries, failures |-> failures, others |-> others, cuts |-> cuts,
   from |-> from]

\* Deliveries with failures, on a log that is cut and put back, with a follower
\* beside them, and a follower of such a log.
Served == {Work(4, 1, 0, 0, {}), Work(3, 0, 0, 1, {}), Work(3, 0, 1, 0, {0}),
           Work(0, 0, 4, 2, {0, 1, 2})}
AtRest == Work(0, 0, 0, 0, {})

Visit(commands, edits, bases) == [commands |-> commands, edits |-> edits, bases |-> bases]

Watched == {Visit(2, 3, {"main"}), Visit(3, 1, {"main"}), Visit(2, 1, {"main", "dev"})}
NoVisit == Visit(0, 0, {"main"})

Symmetric == Permutations(Processes)
=============================================================================
