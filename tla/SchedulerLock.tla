----------------------------- MODULE SchedulerLock -----------------------------
(***************************************************************************)
(* src/cmd/aoa/lock.go: one Scheduler per workspace and per repository.    *)
(* Processes submit work to the log of their workspace and run the         *)
(* Scheduler under two locks that nobody waits for: the workspace's, then  *)
(* the repository's.  Whoever is refused goes home, and leaves what it     *)
(* submitted to the holder, which looks at the log again after it let go.  *)
(*                                                                         *)
(* Of the log only its length matters, and which of its events are work a  *)
(* Scheduler has not dealt with.                                           *)
(***************************************************************************)
EXTENDS Naturals, FiniteSets

CONSTANTS Proc, Workspace, Repo,
          WsOf,       \* the workspace of each process
          RepoOf,     \* the repository each workspace adopted
          Once,       \* the processes that run with --once
          NoProc,     \* nobody holds the lock
          MaxEvents,  \* bound: the length of each log for a submit
          MaxFaults   \* bound: failed runs, failed locks, crashes

ASSUME LockAssumption ==
  /\ WsOf \in [Proc -> Workspace] /\ RepoOf \in [Workspace -> Repo]
  /\ Once \subseteq Proc /\ NoProc \notin Proc
  /\ MaxEvents \in [Workspace -> Nat] /\ MaxFaults \in Nat

VARIABLES last,      \* the sequence number of the newest event of each log
          open,      \* the submitted work no Scheduler has dealt with
          wsLock,    \* who holds .aoa/scheduler.lock
          repoLock,  \* who holds .git/aoa.lock
          pc,
          first,     \* withSchedulerLock: the first time round its loop
          seqAtEnd,
          mine,      \* what each process submitted last; 0 is nothing
          promised,  \* history: "work already on the log will be picked up"
          excused,   \* history: not covered by HandoffCovered
          faults

logVars  == <<last, open>>
lockVars == <<wsLock, repoLock>>
histVars == <<promised, excused>>
vars == <<logVars, lockVars, pc, first, seqAtEnd, mine, histVars, faults>>

Label == {"idle", "workspace", "repo", "run", "ended", "unlock", "free", "recheck"}

Init ==
  /\ last = [ws \in Workspace |-> 0] /\ open = [ws \in Workspace |-> {}]
  /\ wsLock = [ws \in Workspace |-> NoProc] /\ repoLock = [r \in Repo |-> NoProc]
  /\ pc = [p \in Proc |-> "idle"] /\ first = [p \in Proc |-> TRUE]
  /\ seqAtEnd = [p \in Proc |-> 0] /\ mine = [p \in Proc |-> 0]
  /\ promised = [ws \in Workspace |-> {}] /\ excused = [ws \in Workspace |-> {}]
  /\ faults = 0

Ws(p)  == WsOf[p]
RepoOfProc(p) == RepoOf[Ws(p)]

Goto(p, from, to) == pc[p] = from /\ pc' = [pc EXCEPT ![p] = to]
Return(p) == pc' = [pc EXCEPT ![p] = "idle"]
Fault == faults < MaxFaults /\ faults' = faults + 1
Excuse(ws, S) == excused' = [excused EXCEPT ![ws] = @ \cup S]

-----------------------------------------------------------------------------
\* A front door appends work to the log; a Run that has read the log for the
\* last time but not yet its length is blind to it.
Submit(p) ==
  LET ws == Ws(p)
  IN /\ pc[p] = "idle" /\ last[ws] < MaxEvents[ws]
     /\ last' = [last EXCEPT ![ws] = @ + 1]
     /\ open' = [open EXCEPT ![ws] = @ \cup {last'[ws]}]
     /\ mine' = [mine EXCEPT ![p] = last'[ws]]
     /\ Excuse(ws, IF \E q \in Proc : Ws(q) = ws /\ pc[q] = "ended" THEN {last'[ws]} ELSE {})
     /\ UNCHANGED <<lockVars, pc, first, seqAtEnd, promised, faults>>

Start(p) ==
  /\ Goto(p, "idle", "workspace")
  /\ first' = [first EXCEPT ![p] = TRUE]
  /\ UNCHANGED <<logVars, lockVars, seqAtEnd, mine, histVars, faults>>

\* acquireSchedulerLock, first half.  errWorkspaceBusy says that the work will
\* be picked up; after the first round the same refusal is no error.
TryWorkspace(p) ==
  LET ws == Ws(p)
  IN /\ pc[p] = "workspace"
     /\ \/ /\ wsLock[ws] = NoProc
           /\ wsLock' = [wsLock EXCEPT ![ws] = p]
           /\ pc' = [pc EXCEPT ![p] = "repo"] /\ UNCHANGED promised
        \/ /\ wsLock[ws] # NoProc
           /\ Return(p) /\ UNCHANGED wsLock
           /\ promised' = IF first[p]
                          THEN [promised EXCEPT ![ws] = @ \cup ({mine[p]} \cap open[ws])]
                          ELSE promised
     /\ UNCHANGED <<logVars, repoLock, first, seqAtEnd, mine, excused, faults>>

\* Mutant: a refused repository leaves the workspace locked.
TryRepoKeeping(p) ==
  LET r == RepoOfProc(p)
  IN /\ pc[p] = "repo"
     /\ IF repoLock[r] = NoProc
        THEN repoLock' = [repoLock EXCEPT ![r] = p] /\ pc' = [pc EXCEPT ![p] = "run"]
        ELSE Return(p) /\ UNCHANGED repoLock
     /\ UNCHANGED <<logVars, wsLock, first, seqAtEnd, mine, histVars, faults>>

\* Mutant: only the workspace is locked.
TryRepoUnlocked(p) ==
  /\ Goto(p, "repo", "run")
  /\ repoLock' = [repoLock EXCEPT ![RepoOfProc(p)] = p]
  /\ UNCHANGED <<logVars, wsLock, first, seqAtEnd, mine, histVars, faults>>

\* The other half: a refusal, or a repository that cannot be found or locked,
\* gives the workspace back.
TryRepo(p) ==
  LET r == RepoOfProc(p)
  IN /\ pc[p] = "repo"
     /\ \/ /\ repoLock[r] = NoProc
           /\ repoLock' = [repoLock EXCEPT ![r] = p]
           /\ pc' = [pc EXCEPT ![p] = "run"]
           /\ UNCHANGED <<wsLock, excused, faults>>
        \/ /\ repoLock[r] # NoProc
           /\ Return(p) /\ wsLock' = [wsLock EXCEPT ![Ws(p)] = NoProc]
           /\ Excuse(Ws(p), open[Ws(p)]) /\ UNCHANGED <<repoLock, faults>>
        \/ /\ Fault
           /\ Return(p) /\ wsLock' = [wsLock EXCEPT ![Ws(p)] = NoProc]
           /\ Excuse(Ws(p), open[Ws(p)]) /\ UNCHANGED repoLock
     /\ UNCHANGED <<logVars, first, seqAtEnd, mine, promised>>

\* fn: passes that deal with what is on the log, and append to it, until one
\* that finds nothing left; a single pass with --once.
Pass(p) ==
  LET ws == Ws(p)
  IN /\ pc[p] = "run" /\ open[ws] # {}
     /\ open' = [open EXCEPT ![ws] = {}]
     /\ last' = [last EXCEPT ![ws] = @ + 1]
     /\ pc' = IF p \in Once THEN [pc EXCEPT ![p] = "unlock"] ELSE pc
     /\ UNCHANGED <<lockVars, first, seqAtEnd, mine, histVars, faults>>

Settle(p) ==
  /\ pc[p] = "run" /\ open[Ws(p)] = {}
  /\ pc' = [pc EXCEPT ![p] = IF p \in Once THEN "unlock" ELSE "ended"]
  /\ UNCHANGED <<logVars, lockVars, first, seqAtEnd, mine, histVars, faults>>

\* lastSeq, while the locks are still held.
ReadSeqAtEnd(p) ==
  /\ Goto(p, "ended", "unlock")
  /\ seqAtEnd' = [seqAtEnd EXCEPT ![p] = last[Ws(p)]]
  /\ UNCHANGED <<logVars, lockVars, first, mine, histVars, faults>>

\* fn or the read fails: the locks go, and there is no second look.
RunFails(p) ==
  /\ pc[p] \in {"run", "ended"} /\ Fault
  /\ Return(p)
  /\ wsLock' = [wsLock EXCEPT ![Ws(p)] = NoProc]
  /\ repoLock' = [repoLock EXCEPT ![RepoOfProc(p)] = NoProc]
  /\ Excuse(Ws(p), open[Ws(p)])
  /\ UNCHANGED <<logVars, first, seqAtEnd, mine, promised>>

\* release: the repository, then the workspace.
UnlockRepo(p) ==
  /\ Goto(p, "unlock", "free")
  /\ repoLock' = [repoLock EXCEPT ![RepoOfProc(p)] = NoProc]
  /\ UNCHANGED <<logVars, wsLock, first, seqAtEnd, mine, histVars, faults>>

UnlockWorkspace(p) ==
  /\ pc[p] = "free"
  /\ wsLock' = [wsLock EXCEPT ![Ws(p)] = NoProc]
  /\ IF p \in Once
     THEN Return(p) /\ Excuse(Ws(p), open[Ws(p)])
     ELSE pc' = [pc EXCEPT ![p] = "recheck"] /\ UNCHANGED excused
  /\ UNCHANGED <<logVars, repoLock, first, seqAtEnd, mine, promised, faults>>

\* Mutant: no second look.
RecheckNever(p) ==
  /\ Goto(p, "recheck", "idle")
  /\ UNCHANGED <<logVars, lockVars, first, seqAtEnd, mine, histVars, faults>>

\* Mutant: going round again although nothing was appended.
RecheckNotBelow(p) ==
  /\ pc[p] = "recheck"
  /\ \/ last[Ws(p)] < seqAtEnd[p] /\ Return(p) /\ UNCHANGED first
     \/ /\ last[Ws(p)] >= seqAtEnd[p]
        /\ pc' = [pc EXCEPT ![p] = "workspace"] /\ first' = [first EXCEPT ![p] = FALSE]
  /\ UNCHANGED <<logVars, lockVars, seqAtEnd, mine, histVars, faults>>

\* The second look at the log.
Recheck(p) ==
  /\ pc[p] = "recheck"
  /\ \/ last[Ws(p)] <= seqAtEnd[p] /\ Return(p) /\ UNCHANGED first
     \/ /\ last[Ws(p)] > seqAtEnd[p]
        /\ pc' = [pc EXCEPT ![p] = "workspace"] /\ first' = [first EXCEPT ![p] = FALSE]
  /\ UNCHANGED <<logVars, lockVars, seqAtEnd, mine, histVars, faults>>

\* A process dies, and the operating system drops its locks.
Crash(p) ==
  /\ pc[p] # "idle" /\ Fault
  /\ Return(p)
  /\ wsLock' = [ws \in Workspace |-> IF wsLock[ws] = p THEN NoProc ELSE wsLock[ws]]
  /\ repoLock' = [r \in Repo |-> IF repoLock[r] = p THEN NoProc ELSE repoLock[r]]
  /\ Excuse(Ws(p), open[Ws(p)])
  /\ UNCHANGED <<logVars, first, seqAtEnd, mine, promised>>

Step(p) ==
  \/ TryWorkspace(p) \/ TryRepo(p) \/ Pass(p) \/ Settle(p) \/ ReadSeqAtEnd(p)
  \/ UnlockRepo(p) \/ UnlockWorkspace(p) \/ Recheck(p)

Next == \E p \in Proc : Submit(p) \/ Start(p) \/ Step(p) \/ RunFails(p) \/ Crash(p)

Spec == Init /\ [][Next]_vars

\* A process that is in a call goes on with it.
FairSpec == Spec /\ \A p \in Proc : WF_vars(Step(p))

-----------------------------------------------------------------------------
(* Properties *)

Holding == {"run", "ended", "unlock"}

\* The types, and that no open work and no number read is ahead of its log.
TypeOK ==
  /\ last \in [Workspace -> Nat] /\ open \in [Workspace -> SUBSET Nat]
  /\ wsLock \in [Workspace -> Proc \cup {NoProc}] /\ repoLock \in [Repo -> Proc \cup {NoProc}]
  /\ pc \in [Proc -> Label] /\ first \in [Proc -> BOOLEAN]
  /\ \A ws \in Workspace : open[ws] \subseteq 1..last[ws]
  /\ \A p \in Proc : seqAtEnd[p] <= last[Ws(p)]
  /\ seqAtEnd \in [Proc -> Nat] /\ mine \in [Proc -> Nat]
  /\ promised \in [Workspace -> SUBSET Nat] /\ excused \in [Workspace -> SUBSET Nat]
  /\ faults \in 0..MaxFaults

\* A lock is held by a process that is still in the call that took it and
\* needs it: every way out of withSchedulerLock gives both locks back.
LocksFreed ==
  /\ \A ws \in Workspace : wsLock[ws] # NoProc =>
       Ws(wsLock[ws]) = ws /\ pc[wsLock[ws]] \in Holding \cup {"repo", "free"}
  /\ \A r \in Repo : repoLock[r] # NoProc =>
       RepoOfProc(repoLock[r]) = r /\ pc[repoLock[r]] \in Holding

\* One Scheduler at a time reconciles a workspace, and one a repository,
\* whatever was refused, failed or died before.
OneScheduler ==
  \A p, q \in Proc :
    p # q /\ pc[p] \in Holding /\ pc[q] \in Holding
      => Ws(p) # Ws(q) /\ RepoOfProc(p) # RepoOfProc(q)

Active(ws) == \E p \in Proc : Ws(p) = ws /\ pc[p] # "idle"

\* withSchedulerLock "guarantees that no goal is stranded by the handoff": while
\* work that was promised to be picked up is open, someone is at it, but for
\* what was submitted in the blind moment between the last read of a Run and the
\* read of seqAtEnd, or left by a process that was refused the repository,
\* failed, died or was asked for --once.
HandoffCovered ==
  \A ws \in Workspace : (promised[ws] \cap open[ws]) \ excused[ws] # {} => Active(ws)

\* No process is refused, retries and rechecks for ever: every call returns.
CallsReturn == \A p \in Proc : pc[p] # "idle" ~> pc[p] = "idle"
=============================================================================
