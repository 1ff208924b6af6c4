------------------------------ MODULE FrontDoors ------------------------------
(***************************************************************************)
(* The front doors beside the Scheduler: the webhook server with a follower *)
(* of the workspace's log, and the sessions with a log of their own.  They *)
(* share nothing, so each is explored while the other is at rest.          *)
(***************************************************************************)
EXTENDS Webhook, Sessions

CONSTANTS Serving, Idling,      \* what the webhook's side is to do, and nothing
          Watching, Resting     \* the same of the sessions' side

\* How many deliveries, failures, appends and cuts there may be, and what a
\* follower may be told to begin after.
Quota == [deliveries : Nat, failures : Nat, others : Nat, cuts : Nat, from : SUBSET Nat]

ASSUME WorkAssumption == Serving \cup {Idling} \subseteq Quota

\* How many commands may start and edits come, and with what --base.
Bases == UNION {work.bases : work \in Watching \cup {Resting}}
Visits == [commands : Nat, edits : Nat, bases : SUBSET Bases]

ASSUME VisitAssumption == Watching \cup {Resting} \subseteq Visits

Init ==
  \/ (\E work \in Serving : WebhookInit(work)) /\ SessionsInit(Resting)
  \/ WebhookInit(Idling) /\ \E work \in Watching : SessionsInit(work)

Next ==
  \/ WebhookNext /\ UNCHANGED svars
  \/ SessionsNext /\ UNCHANGED wvars

Spec == Init /\ [][Next]_<<wvars, svars>>
=============================================================================
