---------------------------- MODULE MCSchedulerLock ----------------------------
(* Small instances of SchedulerLock for TLC. *)
EXTENDS SchedulerLock, TLC

CONSTANTS p1, p2, p3, w1, w2, repo1

\* Three processes in one workspace.
OneWsOf   == (p1 :> w1) @@ (p2 :> w1) @@ (p3 :> w1)

\* Two workspaces that adopted one repository.
TwoWsOf   == (p1 :> w1) @@ (p2 :> w1) @@ (p3 :> w2)
TwoRepoOf == (w1 :> repo1) @@ (w2 :> repo1)
TwoMaxEvents == (w1 :> 2) @@ (w2 :> 0)
=============================================================================
