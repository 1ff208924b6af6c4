------------------------------- MODULE EventLog -------------------------------
(***************************************************************************)
(* What the event log promises its users (src/internal/ledger): an         *)
(* append-only sequence of events, numbered 1, 2, 3, ... without gaps.     *)
(* Nothing that was once on the log is changed or removed, whatever the    *)
(* number of writers and whenever they crash.                              *)
(***************************************************************************)
EXTENDS Naturals, Sequences

CONSTANT Key     \* what distinguishes one event from another

VARIABLE log     \* the events on the log, oldest first

Event == [key : Key, seq : Nat \ {0}]

Init == log = <<>>

\* One more event, with the next sequence number.
Extend == \E k \in Key : log' = Append(log, [key |-> k, seq |-> Len(log) + 1])

Next == Extend

Spec == Init /\ [][Next]_log
=============================================================================
