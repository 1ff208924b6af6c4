-------------------------- MODULE SchedulerLockProofs --------------------------
(***************************************************************************)
(* One Scheduler per workspace and per repository, for any processes,      *)
(* workspaces, repositories and faults.  The argument: a lock and the      *)
(* place of its holder in the call agree, in both directions.  LocksFreed  *)
(* is the one direction, from the lock to the place; Owns the other.  Then *)
(* the handoff: work a refused run was started for is looked at.           *)
(***************************************************************************)
EXTENDS SchedulerLock, TLAPS

LockTypes ==
  /\ wsLock \in [Workspace -> Proc \cup {NoProc}]
  /\ repoLock \in [Repo -> Proc \cup {NoProc}]
  /\ pc \in [Proc -> Label]

InWorkspace == Holding \cup {"repo", "free"}

\* Whoever is past a lock holds it.
Owns ==
  \A p \in Proc :
    /\ pc[p] \in InWorkspace => wsLock[Ws(p)] = p
    /\ pc[p] \in Holding => repoLock[RepoOfProc(p)] = p

LockInv == LockTypes /\ LocksFreed /\ Owns

-----------------------------------------------------------------------------
\* Where a process works is one of the workspaces and repositories.
LEMMA Places ==
  ASSUME NEW p \in Proc
  PROVE  Ws(p) \in Workspace /\ RepoOfProc(p) \in Repo /\ p # NoProc
BY LockAssumption DEF Ws, RepoOfProc

\* Nobody holds anything to begin with.
LEMMA InitInv == Init => LockInv
<1> SUFFICES ASSUME Init PROVE LockInv OBVIOUS
<1> QED BY DEF Init, LockInv, LockTypes, LocksFreed, Owns, Holding, InWorkspace, Label

\* A process that goes from one place to another under the same locks.
LEMMA MoveInv ==
  ASSUME LockInv, UNCHANGED lockVars, NEW p \in Proc, NEW to \in Label,
         pc' = [pc EXCEPT ![p] = to],
         pc[p] \in InWorkspace <=> to \in InWorkspace,
         pc[p] \in Holding <=> to \in Holding
  PROVE  LockInv'
<1>1. LockTypes' BY DEF LockInv, LockTypes, lockVars
<1>2. \A q \in Proc : /\ pc'[q] \in InWorkspace <=> pc[q] \in InWorkspace
                      /\ pc'[q] \in Holding <=> pc[q] \in Holding
  BY DEF LockInv, LockTypes
<1>3. wsLock' = wsLock /\ repoLock' = repoLock BY DEF lockVars
<1>4. Owns' BY <1>2, <1>3 DEF LockInv, Owns
<1>5. LocksFreed'
  BY <1>2, <1>3 DEF LockInv, LockTypes, LocksFreed, InWorkspace
<1> QED BY <1>1, <1>4, <1>5 DEF LockInv

\* A process that takes the lock of its workspace, which nobody holds.
LEMMA TakeWorkspace ==
  ASSUME LockInv, NEW p \in Proc, pc[p] = "workspace", wsLock[Ws(p)] = NoProc,
         wsLock' = [wsLock EXCEPT ![Ws(p)] = p], repoLock' = repoLock,
         pc' = [pc EXCEPT ![p] = "repo"]
  PROVE  LockInv'
<1>1. LockTypes' BY Places DEF LockInv, LockTypes, Label
<1>2. \A q \in Proc : q # p => pc'[q] = pc[q]
  BY DEF LockInv, LockTypes
<1>3. pc'[p] = "repo" /\ wsLock'[Ws(p)] = p
  BY Places DEF LockInv, LockTypes
<1>4. \A ws \in Workspace : ws # Ws(p) => wsLock'[ws] = wsLock[ws]
  BY DEF LockInv, LockTypes
<1>5. Owns'
  <2> SUFFICES ASSUME NEW q \in Proc
               PROVE  /\ pc'[q] \in InWorkspace => wsLock'[Ws(q)] = q
                      /\ pc'[q] \in Holding => repoLock'[RepoOfProc(q)] = q
    BY DEF Owns, Ws, RepoOfProc
  <2>1. CASE q = p BY <1>3, <2>1 DEF Holding
  <2>2. CASE q # p
    BY <1>2, <1>4, <2>2, Places DEF LockInv, Owns
  <2> QED BY <2>1, <2>2
<1>6. LocksFreed'
  <2>1. \A ws \in Workspace : wsLock'[ws] # NoProc =>
          Ws(wsLock'[ws]) = ws /\ pc'[wsLock'[ws]] \in InWorkspace
    BY <1>2, <1>3, <1>4 DEF LockInv, LockTypes, LocksFreed, InWorkspace
  <2>2. \A r \in Repo : repoLock'[r] # NoProc =>
          RepoOfProc(repoLock'[r]) = r /\ pc'[repoLock'[r]] \in Holding
    BY <1>2 DEF LockInv, LockTypes, LocksFreed, Holding
  <2> QED BY <2>1, <2>2 DEF LocksFreed, InWorkspace, Ws, RepoOfProc
<1> QED BY <1>1, <1>5, <1>6 DEF LockInv

\* A process in the workspace that takes the repository, which nobody holds.
LEMMA TakeRepo ==
  ASSUME LockInv, NEW p \in Proc, pc[p] = "repo", repoLock[RepoOfProc(p)] = NoProc,
         repoLock' = [repoLock EXCEPT ![RepoOfProc(p)] = p], wsLock' = wsLock,
         pc' = [pc EXCEPT ![p] = "run"]
  PROVE  LockInv'
<1>1. LockTypes' BY Places DEF LockInv, LockTypes, Label
<1>2. \A q \in Proc : q # p => pc'[q] = pc[q]
  BY DEF LockInv, LockTypes
<1>3. pc'[p] = "run" /\ repoLock'[RepoOfProc(p)] = p
  BY Places DEF LockInv, LockTypes
<1>4. \A r \in Repo : r # RepoOfProc(p) => repoLock'[r] = repoLock[r]
  BY DEF LockInv, LockTypes
<1>5. Owns'
  <2> SUFFICES ASSUME NEW q \in Proc
               PROVE  /\ pc'[q] \in InWorkspace => wsLock'[Ws(q)] = q
                      /\ pc'[q] \in Holding => repoLock'[RepoOfProc(q)] = q
    BY DEF Owns, Ws, RepoOfProc
  <2>1. CASE q = p BY <1>3, <2>1 DEF LockInv, Owns, InWorkspace
  <2>2. CASE q # p
    BY <1>2, <1>4, <2>2, Places DEF LockInv, Owns
  <2> QED BY <2>1, <2>2
<1>6. LocksFreed'
  <2>1. \A ws \in Workspace : wsLock'[ws] # NoProc =>
          Ws(wsLock'[ws]) = ws /\ pc'[wsLock'[ws]] \in InWorkspace
    BY <1>2, <1>3 DEF LockInv, LockTypes, LocksFreed, InWorkspace, Holding
  <2>2. \A r \in Repo : repoLock'[r] # NoProc =>
          RepoOfProc(repoLock'[r]) = r /\ pc'[repoLock'[r]] \in Holding
    BY <1>2, <1>3, <1>4 DEF LockInv, LockTypes, LocksFreed, Holding
  <2> QED BY <2>1, <2>2 DEF LocksFreed, InWorkspace, Ws, RepoOfProc
<1> QED BY <1>1, <1>5, <1>6 DEF LockInv

\* A process that lets go of the repository, of the workspace, or of both, and
\* goes where it needs neither of those it let go.  A lock that is let go is its
\* own, so no other process loses one.
LEMMA LetGo ==
  ASSUME LockInv, NEW p \in Proc, NEW to \in Label, pc' = [pc EXCEPT ![p] = to],
         pc[p] \in InWorkspace,
         to \notin Holding, pc[p] \in Holding => repoLock' = [repoLock EXCEPT ![RepoOfProc(p)] = NoProc],
         pc[p] \notin Holding => repoLock' = repoLock,
         to \in InWorkspace => wsLock' = wsLock,
         to \notin InWorkspace => wsLock' = [wsLock EXCEPT ![Ws(p)] = NoProc]
  PROVE  LockInv'
<1>1. LockTypes' BY Places DEF LockInv, LockTypes
<1>2. pc'[p] = to /\ \A q \in Proc : q # p => pc'[q] = pc[q]
  BY DEF LockInv, LockTypes
<1>3. wsLock[Ws(p)] = p /\ (pc[p] \in Holding => repoLock[RepoOfProc(p)] = p)
  BY DEF LockInv, Owns
<1>4. \A ws \in Workspace : wsLock'[ws] = IF ws = Ws(p) /\ to \notin InWorkspace
                                          THEN NoProc ELSE wsLock[ws]
  BY DEF LockInv, LockTypes
<1>5. \A r \in Repo : repoLock'[r] = IF r = RepoOfProc(p) /\ pc[p] \in Holding
                                     THEN NoProc ELSE repoLock[r]
  BY DEF LockInv, LockTypes
<1>6. Owns'
  <2> SUFFICES ASSUME NEW q \in Proc
               PROVE  /\ pc'[q] \in InWorkspace => wsLock'[Ws(q)] = q
                      /\ pc'[q] \in Holding => repoLock'[RepoOfProc(q)] = q
    BY DEF Owns, Ws, RepoOfProc
  <2>1. CASE q = p BY <1>2, <1>3, <1>4, <2>1, Places
  <2>2. CASE q # p
    BY <1>2, <1>3, <1>4, <1>5, <2>2, Places DEF LockInv, Owns
  <2> QED BY <2>1, <2>2
<1>7. LocksFreed'
  <2>1. \A ws \in Workspace : wsLock'[ws] # NoProc =>
          Ws(wsLock'[ws]) = ws /\ pc'[wsLock'[ws]] \in InWorkspace
    BY <1>2, <1>4 DEF LockInv, LockTypes, LocksFreed, InWorkspace
  <2>2. \A r \in Repo : repoLock'[r] # NoProc =>
          RepoOfProc(repoLock'[r]) = r /\ pc'[repoLock'[r]] \in Holding
    BY <1>2, <1>5 DEF LockInv, LockTypes, LocksFreed
  <2> QED BY <2>1, <2>2 DEF LocksFreed, InWorkspace, Ws, RepoOfProc
<1> QED BY <1>1, <1>6, <1>7 DEF LockInv

\* The operating system drops the locks of a dead process, and only those.
LEMMA CrashInv ==
  ASSUME LockInv, NEW p \in Proc, Crash(p) PROVE LockInv'
<1>1. /\ pc' = [pc EXCEPT ![p] = "idle"]
      /\ wsLock' = [ws \in Workspace |-> IF wsLock[ws] = p THEN NoProc ELSE wsLock[ws]]
      /\ repoLock' = [r \in Repo |-> IF repoLock[r] = p THEN NoProc ELSE repoLock[r]]
  BY DEF Crash, Return
<1>2. LockTypes' BY <1>1 DEF LockInv, LockTypes, Label
<1>3. pc'[p] = "idle" /\ \A q \in Proc : q # p => pc'[q] = pc[q]
  BY <1>1 DEF LockInv, LockTypes
<1>4. Owns'
  <2> SUFFICES ASSUME NEW q \in Proc
               PROVE  /\ pc'[q] \in InWorkspace => wsLock'[Ws(q)] = q
                      /\ pc'[q] \in Holding => repoLock'[RepoOfProc(q)] = q
    BY DEF Owns, Ws, RepoOfProc
  <2>1. CASE q = p BY <1>3, <2>1 DEF InWorkspace, Holding
  <2>2. CASE q # p BY <1>1, <1>3, <2>2, Places DEF LockInv, Owns
  <2> QED BY <2>1, <2>2
<1>5. LocksFreed'
  <2>1. \A ws \in Workspace : wsLock'[ws] # NoProc =>
          Ws(wsLock'[ws]) = ws /\ pc'[wsLock'[ws]] \in InWorkspace
    BY <1>1, <1>3 DEF LockInv, LockTypes, LocksFreed, InWorkspace
  <2>2. \A r \in Repo : repoLock'[r] # NoProc =>
          RepoOfProc(repoLock'[r]) = r /\ pc'[repoLock'[r]] \in Holding
    BY <1>1, <1>3 DEF LockInv, LockTypes, LocksFreed
  <2> QED BY <2>1, <2>2 DEF LocksFreed, InWorkspace, Ws, RepoOfProc
<1> QED BY <1>2, <1>4, <1>5 DEF LockInv

\* Every step keeps the invariant.
LEMMA StepInv ==
  ASSUME LockInv, [Next]_vars PROVE LockInv'
<1>1. CASE UNCHANGED vars
  BY <1>1 DEF vars, lockVars, LockInv, LockTypes, LocksFreed, Owns, Ws, RepoOfProc
<1> SUFFICES ASSUME NEW p \in Proc, Submit(p) \/ Start(p) \/ Step(p) \/ RunFails(p) \/ Crash(p)
             PROVE  LockInv'
  BY <1>1 DEF Next
<1> USE DEF Goto, Return
<1>2. CASE Submit(p)
  BY <1>2 DEF Submit, lockVars, LockInv, LockTypes, LocksFreed, Owns, Ws, RepoOfProc
<1>3. CASE Start(p)
  BY <1>3, MoveInv DEF Start, Label, InWorkspace, Holding
<1>4. CASE TryWorkspace(p)
  <2>1. CASE wsLock[Ws(p)] = NoProc
    BY <1>4, <2>1, TakeWorkspace DEF TryWorkspace
  <2>2. CASE wsLock[Ws(p)] # NoProc
    <3>1. /\ pc[p] = "workspace" /\ pc' = [pc EXCEPT ![p] = "idle"] /\ UNCHANGED lockVars
      BY <1>4, <2>2 DEF TryWorkspace, lockVars
    <3> QED BY <3>1, MoveInv DEF Label, InWorkspace, Holding
  <2> QED BY <2>1, <2>2
<1>5. CASE TryRepo(p)
  <2>1. CASE pc' = [pc EXCEPT ![p] = "run"] /\ repoLock[RepoOfProc(p)] = NoProc
             /\ repoLock' = [repoLock EXCEPT ![RepoOfProc(p)] = p] /\ wsLock' = wsLock
    BY <1>5, <2>1, TakeRepo DEF TryRepo
  <2>2. CASE pc' = [pc EXCEPT ![p] = "idle"] /\ repoLock' = repoLock
             /\ wsLock' = [wsLock EXCEPT ![Ws(p)] = NoProc]
    <3>1. pc[p] = "repo" BY <1>5 DEF TryRepo
    <3> QED BY <2>2, <3>1, LetGo DEF Label, InWorkspace, Holding
  <2> QED BY <1>5, <2>1, <2>2 DEF TryRepo
<1>6. CASE Pass(p)
  <2>1. CASE pc' = pc
    BY <1>6, <2>1 DEF Pass, lockVars, LockInv, LockTypes, LocksFreed, Owns, Ws, RepoOfProc
  <2>2. CASE pc' = [pc EXCEPT ![p] = "unlock"]
    BY <1>6, <2>2, MoveInv DEF Pass, Label, InWorkspace, Holding
  <2> QED BY <1>6, <2>1, <2>2 DEF Pass
<1>7. CASE Settle(p)
  <2>1. PICK to \in {"unlock", "ended"} : pc' = [pc EXCEPT ![p] = to]
    BY <1>7 DEF Settle
  <2> QED BY <1>7, <2>1, MoveInv DEF Settle, Label, InWorkspace, Holding
<1>8. CASE ReadSeqAtEnd(p)
  BY <1>8, MoveInv DEF ReadSeqAtEnd, Label, InWorkspace, Holding
<1>9. CASE UnlockRepo(p)
  BY <1>9, LetGo DEF UnlockRepo, Label, InWorkspace, Holding
<1>10. CASE UnlockWorkspace(p)
  <2>1. PICK to \in {"idle", "recheck"} : pc' = [pc EXCEPT ![p] = to]
    BY <1>10 DEF UnlockWorkspace
  <2> QED BY <1>10, <2>1, LetGo DEF UnlockWorkspace, Label, InWorkspace, Holding
<1>11. CASE Recheck(p)
  <2>1. PICK to \in {"idle", "workspace"} : pc' = [pc EXCEPT ![p] = to]
    BY <1>11 DEF Recheck
  <2> QED BY <1>11, <2>1, MoveInv DEF Recheck, Label, InWorkspace, Holding
<1>12. CASE RunFails(p)
  BY <1>12, LetGo DEF RunFails, Label, InWorkspace, Holding
<1>13. CASE Crash(p) BY <1>13, CrashInv
<1> QED
  BY <1>2, <1>3, <1>4, <1>5, <1>6, <1>7, <1>8, <1>9, <1>10, <1>11, <1>12, <1>13 DEF Step

-----------------------------------------------------------------------------
(* Theorems *)

\* Locks and places agree throughout.
THEOREM LockInvariance == Spec => []LockInv
<1>1. LockInv /\ [Next]_vars => LockInv' BY StepInv
<1> QED BY InitInv, <1>1, PTL DEF Spec

\* Every way out of withSchedulerLock, a death included, gives the locks back.
THEOREM Freed == Spec => []LocksFreed
<1>1. LockInv => LocksFreed BY DEF LockInv
<1> QED BY <1>1, LockInvariance, PTL

\* No two processes reconcile one workspace or one repository at a time.
THEOREM Exclusive == Spec => []OneScheduler
<1>1. LockInv => OneScheduler BY DEF LockInv, Owns, OneScheduler, InWorkspace
<1> QED BY <1>1, LockInvariance, PTL

-----------------------------------------------------------------------------
(* Types *)

\* A submit keeps the types: what is new on the log is not beyond its end.
LEMMA SubmitTypes ==
  ASSUME TypeOK, NEW p \in Proc, Submit(p) PROVE TypeOK'
<1> DEFINE ws == Ws(p)
<1>1. ws \in Workspace /\ last[ws] \in Nat BY Places DEF TypeOK
<1>2. /\ last' = [last EXCEPT ![ws] = last[ws] + 1]
      /\ open' = [open EXCEPT ![ws] = open[ws] \cup {last'[ws]}]
      /\ mine' = [mine EXCEPT ![p] = last'[ws]]
      /\ \E S \in SUBSET {last'[ws]} : excused' = [excused EXCEPT ![ws] = excused[ws] \cup S]
      /\ UNCHANGED <<wsLock, repoLock, pc, first, seqAtEnd, promised, faults>>
  BY DEF Submit, Excuse, lockVars
<1> HIDE DEF ws
<1>3. last' \in [Workspace -> Nat] /\ last'[ws] = last[ws] + 1
      /\ \A v \in Workspace : last[v] <= last'[v]
  BY <1>1, <1>2 DEF TypeOK
<1>4. open' \in [Workspace -> SUBSET Nat] /\ \A v \in Workspace : open'[v] \subseteq 1..last'[v]
  BY <1>1, <1>2, <1>3 DEF TypeOK
<1>5. mine' \in [Proc -> Nat] BY <1>1, <1>2, <1>3 DEF TypeOK
<1>6. excused' \in [Workspace -> SUBSET Nat]
  <2>1. PICK S \in SUBSET {last'[ws]} : excused' = [excused EXCEPT ![ws] = excused[ws] \cup S]
    BY <1>2
  <2>2. S \subseteq Nat /\ excused[ws] \subseteq Nat BY <1>1, <1>3 DEF TypeOK
  <2> QED BY <1>1, <2>1, <2>2 DEF TypeOK
<1>7. \A q \in Proc : seqAtEnd[q] <= last'[Ws(q)]
  BY <1>3, Places DEF TypeOK
<1> QED BY <1>2, <1>3, <1>4, <1>5, <1>6, <1>7 DEF TypeOK, Ws

\* A pass keeps the types: it empties the open work and appends.
LEMMA PassTypes ==
  ASSUME TypeOK, NEW p \in Proc, Pass(p) PROVE TypeOK'
<1> DEFINE ws == Ws(p)
<1>1. ws \in Workspace /\ last[ws] \in Nat BY Places DEF TypeOK
<1>2. /\ last' = [last EXCEPT ![ws] = last[ws] + 1]
      /\ open' = [open EXCEPT ![ws] = {}]
      /\ pc' = pc \/ pc' = [pc EXCEPT ![p] = "unlock"]
      /\ UNCHANGED <<wsLock, repoLock, first, seqAtEnd, mine, promised, excused, faults>>
  BY DEF Pass, lockVars, histVars
<1> HIDE DEF ws
<1>3. last' \in [Workspace -> Nat] /\ \A v \in Workspace : last[v] <= last'[v]
  BY <1>1, <1>2 DEF TypeOK
<1>4. open' \in [Workspace -> SUBSET Nat] /\ \A v \in Workspace : open'[v] \subseteq 1..last'[v]
  BY <1>1, <1>2, <1>3 DEF TypeOK
<1>5. \A q \in Proc : seqAtEnd[q] <= last'[Ws(q)]
  BY <1>3, Places DEF TypeOK
<1>6. pc' \in [Proc -> Label] BY <1>2 DEF TypeOK, Label
<1> QED BY <1>2, <1>3, <1>4, <1>5, <1>6 DEF TypeOK, Ws

\* Steps that leave the logs alone.
LEMMA CallTypes ==
  ASSUME TypeOK, UNCHANGED <<last, open, mine>>,
         wsLock' \in [Workspace -> Proc \cup {NoProc}],
         repoLock' \in [Repo -> Proc \cup {NoProc}],
         pc' \in [Proc -> Label], first' \in [Proc -> BOOLEAN],
         seqAtEnd' \in [Proc -> Nat], \A q \in Proc : seqAtEnd'[q] <= last[Ws(q)],
         promised' \in [Workspace -> SUBSET Nat], excused' \in [Workspace -> SUBSET Nat],
         faults' \in 0..MaxFaults
  PROVE  TypeOK'
BY DEF TypeOK, Ws

\* An excuse is made for events of the log.
LEMMA ExcuseTypes ==
  ASSUME TypeOK, NEW ws \in Workspace, Excuse(ws, open[ws])
  PROVE  excused' \in [Workspace -> SUBSET Nat]
BY DEF TypeOK, Excuse

\* Counting a fault stays within the bound.
LEMMA FaultTypes == ASSUME TypeOK, Fault PROVE faults' \in 0..MaxFaults
BY LockAssumption DEF TypeOK, Fault

\* Every step keeps the types.
LEMMA StepTypes ==
  ASSUME TypeOK, [Next]_vars PROVE TypeOK'
<1>1. CASE UNCHANGED vars
  BY <1>1 DEF vars, logVars, lockVars, histVars, TypeOK, Ws
<1> SUFFICES ASSUME NEW p \in Proc, Submit(p) \/ Start(p) \/ Step(p) \/ RunFails(p) \/ Crash(p)
             PROVE  TypeOK'
  BY <1>1 DEF Next
<1>0. Ws(p) \in Workspace /\ RepoOfProc(p) \in Repo BY Places
<1> USE DEF Goto, Return, logVars, lockVars, histVars
<1>2. CASE Submit(p) BY <1>2, SubmitTypes
<1>3. CASE Start(p) BY <1>3, CallTypes DEF Start, TypeOK, Label
<1>4. CASE TryWorkspace(p)
  <2>1. promised' \in [Workspace -> SUBSET Nat]
    BY <1>0, <1>4 DEF TryWorkspace, TypeOK
  <2> QED BY <1>0, <1>4, <2>1, CallTypes DEF TryWorkspace, TypeOK, Label
<1>5. CASE TryRepo(p)
  <2>1. excused' \in [Workspace -> SUBSET Nat] /\ faults' \in 0..MaxFaults
    BY <1>0, <1>5, ExcuseTypes, FaultTypes DEF TryRepo, TypeOK
  <2>2. /\ UNCHANGED <<last, open, mine, first, seqAtEnd, promised>>
        /\ pc' = [pc EXCEPT ![p] = "run"] \/ pc' = [pc EXCEPT ![p] = "idle"]
        /\ wsLock' = wsLock \/ wsLock' = [wsLock EXCEPT ![Ws(p)] = NoProc]
        /\ repoLock' = repoLock \/ repoLock' = [repoLock EXCEPT ![RepoOfProc(p)] = p]
    BY <1>5 DEF TryRepo
  <2> QED BY <1>0, <2>1, <2>2, CallTypes DEF TypeOK, Label
<1>6. CASE Pass(p) BY <1>6, PassTypes
<1>7. CASE Settle(p) BY <1>7, CallTypes DEF Settle, TypeOK, Label
<1>8. CASE ReadSeqAtEnd(p)
  <2>1. seqAtEnd' \in [Proc -> Nat] /\ \A q \in Proc : seqAtEnd'[q] <= last[Ws(q)]
    BY <1>0, <1>8 DEF ReadSeqAtEnd, TypeOK
  <2> QED BY <1>8, <2>1, CallTypes DEF ReadSeqAtEnd, TypeOK, Label
<1>9. CASE UnlockRepo(p)
  BY <1>0, <1>9, CallTypes DEF UnlockRepo, TypeOK, Label
<1>10. CASE UnlockWorkspace(p)
  <2>1. excused' \in [Workspace -> SUBSET Nat]
    BY <1>0, <1>10, ExcuseTypes DEF UnlockWorkspace, TypeOK
  <2> QED BY <1>0, <1>10, <2>1, CallTypes DEF UnlockWorkspace, TypeOK, Label
<1>11. CASE Recheck(p) BY <1>11, CallTypes DEF Recheck, TypeOK, Label
<1>12. CASE RunFails(p)
  <2>1. excused' \in [Workspace -> SUBSET Nat] /\ faults' \in 0..MaxFaults
    BY <1>0, <1>12, ExcuseTypes, FaultTypes DEF RunFails
  <2> QED BY <1>0, <1>12, <2>1, CallTypes DEF RunFails, TypeOK, Label
<1>13. CASE Crash(p)
  <2>1. excused' \in [Workspace -> SUBSET Nat] /\ faults' \in 0..MaxFaults
    BY <1>0, <1>13, ExcuseTypes, FaultTypes DEF Crash
  <2> QED BY <1>0, <1>13, <2>1, CallTypes DEF Crash, TypeOK, Label
<1> QED
  BY <1>2, <1>3, <1>4, <1>5, <1>6, <1>7, <1>8, <1>9, <1>10, <1>11, <1>12, <1>13 DEF Step

\* The types, and that no open work and no number read is ahead of its log.
THEOREM TypeCorrect == Spec => []TypeOK
<1>1. Init => TypeOK
  <2> SUFFICES ASSUME Init PROVE TypeOK OBVIOUS
  <2>1. last \in [Workspace -> Nat] /\ open \in [Workspace -> SUBSET Nat]
    BY DEF Init
  <2>2. \A ws \in Workspace : open[ws] \subseteq 1..last[ws]
    BY DEF Init
  <2>3. wsLock \in [Workspace -> Proc \cup {NoProc}] /\ repoLock \in [Repo -> Proc \cup {NoProc}]
    BY DEF Init
  <2>4. pc \in [Proc -> Label] /\ first \in [Proc -> BOOLEAN]
    BY DEF Init, Label
  <2>5. seqAtEnd \in [Proc -> Nat] /\ mine \in [Proc -> Nat]
    BY DEF Init
  <2>6. \A p \in Proc : seqAtEnd[p] <= last[Ws(p)]
    BY Places DEF Init
  <2>7. promised \in [Workspace -> SUBSET Nat] /\ excused \in [Workspace -> SUBSET Nat]
    BY DEF Init
  <2>8. faults \in 0..MaxFaults
    BY LockAssumption DEF Init
  <2> QED BY <2>1, <2>2, <2>3, <2>4, <2>5, <2>6, <2>7, <2>8 DEF TypeOK
<1>2. TypeOK /\ [Next]_vars => TypeOK' BY StepTypes
<1> QED BY <1>1, <1>2, PTL DEF Spec

-----------------------------------------------------------------------------
(* The handoff *)

\* Work nobody has dealt with, and that the handoff has to cover.
Todo(ws) == open[ws] \ excused[ws]

\* p will look at event x of its log, or leave it excused.
Covers(p, x) ==
  \/ pc[p] \in {"workspace", "repo", "run"}
  \/ p \in Once /\ pc[p] \in {"unlock", "free"}
  \/ p \notin Once /\ pc[p] \in {"unlock", "free", "recheck"} /\ seqAtEnd[p] < x

\* Whoever holds the workspace covers all of it, so that a refused process can
\* go home; and what was promised stays covered when the holder has let go.
CoverInv ==
  /\ \A ws \in Workspace : promised[ws] \subseteq 1..last[ws]
  /\ \A p \in Proc : pc[p] \in InWorkspace => \A x \in Todo(Ws(p)) : Covers(p, x)
  /\ \A ws \in Workspace : \A x \in promised[ws] \cap Todo(ws) :
       \E p \in Proc : Ws(p) = ws /\ Covers(p, x)

\* A step of p that lets go of nothing it covers and brings no new work.
LEMMA CoverMove ==
  ASSUME TypeOK, CoverInv, NEW p \in Proc, UNCHANGED promised,
         \A ws \in Workspace : last[ws] <= last'[ws] /\ last'[ws] \in Nat,
         \A ws \in Workspace : Todo(ws)' \subseteq Todo(ws),
         \A q \in Proc : q # p => pc'[q] = pc[q] /\ seqAtEnd'[q] = seqAtEnd[q],
         \A x \in Todo(Ws(p))' : Covers(p, x) => Covers(p, x)',
         pc'[p] \in InWorkspace => \A x \in Todo(Ws(p))' : Covers(p, x)'
  PROVE  CoverInv'
<1>1. ASSUME NEW ws \in Workspace PROVE promised'[ws] \subseteq 1..last'[ws]
  <2>1. promised[ws] \subseteq 1..last[ws] /\ last[ws] \in Nat
    BY DEF CoverInv, TypeOK
  <2>2. last[ws] <= last'[ws] /\ last'[ws] \in Nat
    OBVIOUS
  <2> QED BY <2>1, <2>2
<1>2. ASSUME NEW q \in Proc, q # p, NEW x, Covers(q, x) PROVE Covers(q, x)'
  BY <1>2 DEF Covers
<1>3. ASSUME NEW q \in Proc, pc'[q] \in InWorkspace, NEW x \in Todo(Ws(q))' PROVE Covers(q, x)'
  <2>1. CASE q = p BY <1>3, <2>1
  <2>2. CASE q # p
    <3>1. pc[q] \in InWorkspace /\ Ws(q) \in Workspace BY <1>3, <2>2, Places
    <3>2. x \in Todo(Ws(q)) BY <1>3, <3>1 DEF Ws
    <3>3. Covers(q, x) BY <3>1, <3>2 DEF CoverInv
    <3> QED BY <1>2, <2>2, <3>3
  <2> QED BY <2>1, <2>2
<1>4. ASSUME NEW ws \in Workspace, NEW x \in promised'[ws] \cap Todo(ws)'
      PROVE  \E q \in Proc : Ws(q) = ws /\ Covers(q, x)'
  <2>1. PICK q \in Proc : Ws(q) = ws /\ Covers(q, x) BY <1>4 DEF CoverInv
  <2>2. CASE q = p BY <1>4, <2>1, <2>2
  <2>3. CASE q # p BY <1>2, <2>1, <2>3
  <2> QED BY <2>2, <2>3
<1> QED BY <1>1, <1>3, <1>4 DEF CoverInv, Ws

\* A step of p that excuses all its workspace has left, or deals with it.
LEMMA CoverClear ==
  ASSUME TypeOK, CoverInv, NEW p \in Proc, UNCHANGED promised,
         \A ws \in Workspace : last[ws] <= last'[ws] /\ last'[ws] \in Nat,
         Todo(Ws(p))' = {},
         \A ws \in Workspace : ws # Ws(p) => Todo(ws)' = Todo(ws),
         \A q \in Proc : q # p => pc'[q] = pc[q] /\ seqAtEnd'[q] = seqAtEnd[q]
  PROVE  CoverInv'
<1>1. \A ws \in Workspace : Todo(ws)' \subseteq Todo(ws)
  <2> SUFFICES ASSUME NEW ws \in Workspace PROVE Todo(ws)' \subseteq Todo(ws) OBVIOUS
  <2>1. CASE ws = Ws(p)
    <3>1. Todo(ws)' = {} BY <2>1 DEF Todo, Ws
    <3> QED BY <3>1
  <2>2. CASE ws # Ws(p) BY <2>2
  <2> QED BY <2>1, <2>2
<1> QED BY <1>1, CoverMove

\* A submit: whoever holds the workspace has not read the length of the log
\* yet, or read a smaller one, or the new event is excused.
LEMMA CoverSubmit ==
  ASSUME TypeOK, CoverInv, NEW p \in Proc, Submit(p) PROVE CoverInv'
<1> DEFINE ws == Ws(p)
           x == last[ws] + 1
<1>1. ws \in Workspace /\ last[ws] \in Nat BY Places DEF TypeOK
<1>2. /\ last' = [last EXCEPT ![ws] = x]
      /\ UNCHANGED <<pc, seqAtEnd, promised>>
  BY DEF Submit
<1>3. \A v \in Workspace : last[v] <= last'[v] /\ last'[v] \in Nat
  BY <1>1, <1>2 DEF TypeOK
<1>4. \A v \in Workspace : v # ws => Todo(v)' = Todo(v)
  BY DEF Submit, Excuse, TypeOK, Todo
<1>5. Todo(ws)' \subseteq Todo(ws) \cup {x}
  BY <1>1 DEF Submit, Excuse, TypeOK, Todo
<1>6. (\E q \in Proc : Ws(q) = ws /\ pc[q] = "ended") => x \notin Todo(ws)'
  BY <1>1 DEF Submit, Excuse, TypeOK, Todo
<1>7. x \notin promised[ws]
  <2>1. promised[ws] \subseteq 1..last[ws] BY <1>1 DEF CoverInv
  <2> QED BY <1>1, <2>1
<1>8. \A q \in Proc : seqAtEnd[q] \in Nat /\ seqAtEnd[q] <= last[Ws(q)]
  BY DEF TypeOK
<1>9. \A q \in Proc : \A y : Covers(q, y)' <=> Covers(q, y)
  BY <1>2 DEF Covers
<1>10. ASSUME NEW q \in Proc, pc'[q] \in InWorkspace, NEW y \in Todo(Ws(q))' PROVE Covers(q, y)'
  <2>1. pc[q] \in InWorkspace /\ Ws(q) \in Workspace BY <1>2, <1>10, Places
  <2>2. CASE y \in Todo(Ws(q)) BY <1>9, <2>1, <2>2 DEF CoverInv
  <2>3. CASE y \notin Todo(Ws(q))
    <3>1. Ws(q) = ws /\ y = x BY <1>4, <1>5, <1>10, <2>1, <2>3 DEF Ws
    <3>2. pc[q] # "ended" BY <1>6, <1>10, <3>1 DEF Ws
    <3>3. seqAtEnd[q] < x BY <1>1, <1>8, <3>1
    <3>4. Covers(q, x) BY <2>1, <3>2, <3>3 DEF Covers, InWorkspace, Holding
    <3> QED BY <1>9, <3>1, <3>4
  <2> QED BY <2>2, <2>3
<1>11. ASSUME NEW v \in Workspace PROVE promised'[v] \subseteq 1..last'[v]
  <2>1. promised[v] \subseteq 1..last[v] /\ last[v] \in Nat BY DEF CoverInv, TypeOK
  <2>2. promised' = promised /\ last[v] <= last'[v] /\ last'[v] \in Nat BY <1>2, <1>3
  <2> QED BY <2>1, <2>2
<1>12. ASSUME NEW v \in Workspace, NEW y \in promised'[v] \cap Todo(v)'
       PROVE  \E q \in Proc : Ws(q) = v /\ Covers(q, y)'
  <2>1. y \in promised[v] BY <1>2, <1>12
  <2>2. y \in Todo(v)
    <3>1. CASE v = ws
      <4>1. y \in Todo(ws) \cup {x} BY <1>5, <1>12, <3>1
      <4> QED BY <1>7, <2>1, <3>1, <4>1
    <3>2. CASE v # ws BY <1>4, <1>12, <3>2
    <3> QED BY <3>1, <3>2
  <2> QED BY <1>9, <2>1, <2>2 DEF CoverInv
<1> QED BY <1>10, <1>11, <1>12 DEF CoverInv, Ws

\* A process that finds the workspace taken goes home: the holder covers what
\* it was promised, and all that was promised before.
LEMMA CoverRefused ==
  ASSUME TypeOK, LockInv, CoverInv, NEW p \in Proc, TryWorkspace(p), wsLock[Ws(p)] # NoProc
  PROVE  CoverInv'
<1> DEFINE ws == Ws(p)
           q == wsLock[ws]
<1>1. /\ pc[p] = "workspace" /\ pc' = [pc EXCEPT ![p] = "idle"]
      /\ promised' = IF first[p]
                     THEN [promised EXCEPT ![ws] = promised[ws] \cup ({mine[p]} \cap open[ws])]
                     ELSE promised
      /\ UNCHANGED <<last, open, seqAtEnd, excused>>
  BY DEF TryWorkspace, Return, logVars
<1>2. ws \in Workspace /\ last[ws] \in Nat /\ open[ws] \subseteq 1..last[ws]
  BY Places DEF TypeOK
<1>3. q \in Proc /\ Ws(q) = ws /\ pc[q] \in InWorkspace
  BY <1>2 DEF LockInv, LockTypes, LocksFreed, InWorkspace
<1>4. q # p BY <1>1, <1>3 DEF InWorkspace, Holding
<1>5. \A r \in Proc : r # p => pc'[r] = pc[r] /\ seqAtEnd'[r] = seqAtEnd[r]
  BY <1>1 DEF TypeOK
<1>6. pc'[p] = "idle" BY <1>1 DEF TypeOK
<1>7. \A v \in Workspace : Todo(v)' = Todo(v) BY <1>1 DEF Todo
<1>8. \A r \in Proc : \A x : r # p => (Covers(r, x)' <=> Covers(r, x))
  BY <1>5 DEF Covers
<1>9. \A v \in Workspace : v # ws => promised'[v] = promised[v]
  BY <1>1 DEF TypeOK
<1>10. promised'[ws] \subseteq promised[ws] \cup open[ws]
  BY <1>1, <1>2 DEF TypeOK
<1>11. ASSUME NEW v \in Workspace PROVE promised'[v] \subseteq 1..last'[v]
  <2>1. promised[v] \subseteq 1..last[v] /\ last' = last BY <1>1 DEF CoverInv
  <2>2. CASE v = ws BY <1>2, <1>10, <2>1, <2>2
  <2>3. CASE v # ws BY <1>9, <2>1, <2>3
  <2> QED BY <2>2, <2>3
<1>12. ASSUME NEW r \in Proc, pc'[r] \in InWorkspace, NEW x \in Todo(Ws(r))' PROVE Covers(r, x)'
  <2>1. r # p BY <1>6, <1>12 DEF InWorkspace, Holding
  <2>2. pc[r] \in InWorkspace /\ Ws(r) \in Workspace BY <1>5, <1>12, <2>1, Places
  <2>3. x \in Todo(Ws(r)) BY <1>7, <1>12, <2>2 DEF Ws
  <2> QED BY <1>8, <2>1, <2>2, <2>3 DEF CoverInv
<1>13. ASSUME NEW v \in Workspace, NEW x \in promised'[v] \cap Todo(v)'
       PROVE  \E r \in Proc : Ws(r) = v /\ Covers(r, x)'
  <2>1. x \in Todo(v) BY <1>7, <1>13
  <2>2. CASE v = ws
    <3>1. Covers(q, x) BY <1>3, <2>1, <2>2 DEF CoverInv
    <3> QED BY <1>3, <1>4, <1>8, <2>2, <3>1
  <2>3. CASE v # ws
    <3>1. x \in promised[v] BY <1>9, <1>13, <2>3
    <3>2. PICK r \in Proc : Ws(r) = v /\ Covers(r, x) BY <2>1, <3>1 DEF CoverInv
    <3>3. r # p BY <2>3, <3>2
    <3> QED BY <1>8, <3>2, <3>3
  <2> QED BY <2>2, <2>3
<1> QED BY <1>11, <1>12, <1>13 DEF CoverInv, Ws

\* Every step keeps what is promised covered.
LEMMA CoverStep ==
  ASSUME TypeOK, LockInv, CoverInv, [Next]_vars PROVE CoverInv'
<1>1. CASE UNCHANGED vars
  BY <1>1 DEF vars, logVars, lockVars, histVars, CoverInv, Todo, Covers, Ws
<1> SUFFICES ASSUME NEW p \in Proc, Submit(p) \/ Start(p) \/ Step(p) \/ RunFails(p) \/ Crash(p)
             PROVE  CoverInv'
  BY <1>1 DEF Next
<1>0. /\ Ws(p) \in Workspace /\ pc \in [Proc -> Label] /\ seqAtEnd \in [Proc -> Nat]
      /\ \A ws \in Workspace : last[ws] \in Nat
      /\ open \in [Workspace -> SUBSET Nat] /\ excused \in [Workspace -> SUBSET Nat]
  BY Places DEF TypeOK
<1> DEFINE Grows == \A ws \in Workspace : last[ws] <= last'[ws] /\ last'[ws] \in Nat
           Shrinks == \A ws \in Workspace : Todo(ws)' \subseteq Todo(ws)
           Elsewhere == \A ws \in Workspace : ws # Ws(p) => Todo(ws)' = Todo(ws)
           Alone == \A q \in Proc : q # p => pc'[q] = pc[q] /\ seqAtEnd'[q] = seqAtEnd[q]
<1>2. CASE Submit(p) BY <1>2, CoverSubmit
<1>3. UNCHANGED last => Grows
  <2> SUFFICES ASSUME UNCHANGED last, NEW ws \in Workspace
               PROVE  last[ws] <= last'[ws] /\ last'[ws] \in Nat
    OBVIOUS
  <2>1. last[ws] \in Nat /\ last'[ws] = last[ws] BY <1>0
  <2> QED BY <2>1
<1>4. UNCHANGED <<open, excused>> => Shrinks
  BY DEF Todo
<1>5. UNCHANGED open /\ Excuse(Ws(p), open[Ws(p)]) => Todo(Ws(p))' = {} /\ Elsewhere
  BY <1>0 DEF Todo, Excuse, Ws
<1>6. \A to : pc' = [pc EXCEPT ![p] = to] /\ UNCHANGED seqAtEnd => Alone /\ pc'[p] = to
  BY <1>0
<1>7. CASE Start(p)
  <2>1. /\ pc' = [pc EXCEPT ![p] = "workspace"]
        /\ UNCHANGED <<last, open, excused, promised, seqAtEnd>>
    BY <1>7 DEF Start, Goto, logVars, histVars
  <2>2. Grows /\ Shrinks /\ Alone /\ pc'[p] = "workspace" BY <1>3, <1>4, <1>6, <2>1
  <2> QED BY <2>1, <2>2, CoverMove DEF Covers
<1>8. CASE TryWorkspace(p)
  <2>1. CASE wsLock[Ws(p)] # NoProc BY <1>8, <2>1, CoverRefused
  <2>2. CASE wsLock[Ws(p)] = NoProc
    <3>1. /\ pc' = [pc EXCEPT ![p] = "repo"]
          /\ UNCHANGED <<last, open, excused, promised, seqAtEnd>>
      BY <1>8, <2>2 DEF TryWorkspace, logVars
    <3>2. Grows /\ Shrinks /\ Alone /\ pc'[p] = "repo" BY <1>3, <1>4, <1>6, <3>1
    <3> QED BY <3>1, <3>2, CoverMove DEF Covers
  <2> QED BY <2>1, <2>2
<1>9. CASE TryRepo(p)
  <2>1. UNCHANGED <<last, open, promised, seqAtEnd>> BY <1>9 DEF TryRepo, logVars
  <2>2. CASE pc' = [pc EXCEPT ![p] = "run"] /\ UNCHANGED excused
    <3>1. Grows /\ Shrinks /\ Alone /\ pc'[p] = "run" BY <1>3, <1>4, <1>6, <2>1, <2>2
    <3> QED BY <2>1, <3>1, CoverMove DEF Covers
  <2>3. CASE pc' = [pc EXCEPT ![p] = "idle"] /\ Excuse(Ws(p), open[Ws(p)])
    <3>1. Grows /\ Todo(Ws(p))' = {} /\ Elsewhere /\ Alone BY <1>3, <1>5, <1>6, <2>1, <2>3
    <3> QED BY <2>1, <3>1, CoverClear
  <2> QED BY <1>9, <2>2, <2>3 DEF TryRepo, Return
<1>10. CASE Pass(p)
  <2>1. /\ last' = [last EXCEPT ![Ws(p)] = last[Ws(p)] + 1]
        /\ open' = [open EXCEPT ![Ws(p)] = {}]
        /\ pc' = pc \/ pc' = [pc EXCEPT ![p] = "unlock"]
        /\ UNCHANGED <<excused, promised, seqAtEnd>>
    BY <1>10 DEF Pass, histVars
  <2>2. Grows
    <3> SUFFICES ASSUME NEW ws \in Workspace PROVE last[ws] <= last'[ws] /\ last'[ws] \in Nat
      OBVIOUS
    <3>1. last[ws] \in Nat BY <1>0
    <3>2. last'[ws] = last[ws] \/ last'[ws] = last[ws] + 1 BY <1>0, <2>1 DEF TypeOK
    <3> QED BY <3>1, <3>2
  <2>3. Todo(Ws(p))' = {} /\ Elsewhere BY <1>0, <2>1 DEF Todo, Ws
  <2>4. Alone BY <1>0, <2>1
  <2> QED BY <2>1, <2>2, <2>3, <2>4, CoverClear
<1>11. CASE Settle(p)
  <2>1. PICK to \in {"unlock", "ended"} : pc' = [pc EXCEPT ![p] = to]
    BY <1>11 DEF Settle
  <2>2. open[Ws(p)] = {} /\ UNCHANGED <<last, open, excused, promised, seqAtEnd>>
    BY <1>11 DEF Settle, logVars, histVars
  <2>3. Grows /\ Alone BY <1>3, <1>6, <2>1, <2>2
  <2>4. Todo(Ws(p))' = {} /\ Elsewhere BY <2>2 DEF Todo, Ws
  <2> QED BY <2>2, <2>3, <2>4, CoverClear
<1>12. CASE ReadSeqAtEnd(p)
  <2>1. /\ pc[p] = "ended" /\ pc' = [pc EXCEPT ![p] = "unlock"]
        /\ seqAtEnd' = [seqAtEnd EXCEPT ![p] = last[Ws(p)]]
        /\ UNCHANGED <<last, open, excused, promised>>
    BY <1>12 DEF ReadSeqAtEnd, Goto, logVars, histVars
  <2>2. Grows BY <1>3, <2>1
  <2>3. Alone BY <1>0, <2>1
  <2>4. Todo(Ws(p)) = {}
    BY <2>1 DEF CoverInv, Covers, InWorkspace, Holding
  <2>5. Todo(Ws(p))' = {} /\ Elsewhere BY <2>1, <2>4 DEF Todo, Ws
  <2> QED BY <2>1, <2>2, <2>3, <2>5, CoverClear
<1>13. CASE UnlockRepo(p)
  <2>1. /\ pc[p] = "unlock" /\ pc' = [pc EXCEPT ![p] = "free"]
        /\ UNCHANGED <<last, open, excused, promised, seqAtEnd>>
    BY <1>13 DEF UnlockRepo, Goto, logVars, histVars
  <2>2. Grows /\ Shrinks /\ Alone /\ pc'[p] = "free" BY <1>3, <1>4, <1>6, <2>1
  <2>3. \A x : Covers(p, x) => Covers(p, x)' BY <2>1, <2>2 DEF Covers
  <2>4. \A x \in Todo(Ws(p)) : Covers(p, x) BY <2>1 DEF CoverInv, InWorkspace, Holding
  <2>5. \A x \in Todo(Ws(p))' : Covers(p, x)' BY <2>1, <2>3, <2>4 DEF Todo, Ws
  <2> QED BY <2>1, <2>2, <2>3, <2>5, CoverMove
<1>14. CASE UnlockWorkspace(p)
  <2>1. pc[p] = "free" /\ UNCHANGED <<last, open, promised, seqAtEnd>>
    BY <1>14 DEF UnlockWorkspace, logVars
  <2>2. CASE p \in Once
    <3>1. pc' = [pc EXCEPT ![p] = "idle"] /\ Excuse(Ws(p), open[Ws(p)])
      BY <1>14, <2>2 DEF UnlockWorkspace, Return
    <3>2. Grows /\ Todo(Ws(p))' = {} /\ Elsewhere /\ Alone BY <1>3, <1>5, <1>6, <2>1, <3>1
    <3> QED BY <2>1, <3>2, CoverClear
  <2>3. CASE p \notin Once
    <3>1. pc' = [pc EXCEPT ![p] = "recheck"] /\ UNCHANGED excused
      BY <1>14, <2>3 DEF UnlockWorkspace
    <3>2. Grows /\ Shrinks /\ Alone /\ pc'[p] = "recheck" BY <1>3, <1>4, <1>6, <2>1, <3>1
    <3>3. \A x : Covers(p, x) => Covers(p, x)' BY <2>1, <2>3, <3>2 DEF Covers
    <3> QED BY <2>1, <3>2, <3>3, CoverMove DEF InWorkspace, Holding
  <2> QED BY <2>2, <2>3
<1>15. CASE Recheck(p)
  <2>1. pc[p] = "recheck" /\ UNCHANGED <<last, open, excused, promised, seqAtEnd>>
    BY <1>15 DEF Recheck, logVars, histVars
  <2>2. CASE pc' = [pc EXCEPT ![p] = "workspace"]
    <3>1. Grows /\ Shrinks /\ Alone /\ pc'[p] = "workspace" BY <1>3, <1>4, <1>6, <2>1, <2>2
    <3> QED BY <2>1, <3>1, CoverMove DEF Covers, InWorkspace, Holding
  <2>3. CASE pc' = [pc EXCEPT ![p] = "idle"] /\ last[Ws(p)] <= seqAtEnd[p]
    <3>1. Grows /\ Shrinks /\ Alone /\ pc'[p] = "idle" BY <1>3, <1>4, <1>6, <2>1, <2>3
    <3>2. ASSUME NEW x \in Todo(Ws(p)) PROVE ~Covers(p, x)
      <4>1. x \in 1..last[Ws(p)] BY <1>0, <3>2 DEF Todo, TypeOK
      <4>2. x \in Nat /\ x <= last[Ws(p)] /\ last[Ws(p)] \in Nat /\ seqAtEnd[p] \in Nat
        BY <1>0, <4>1
      <4>3. ~(seqAtEnd[p] < x) BY <2>3, <4>2
      <4> QED BY <2>1, <4>3 DEF Covers
    <3>3. \A x \in Todo(Ws(p))' : ~Covers(p, x) BY <2>1, <3>2 DEF Todo, Ws
    <3> QED BY <2>1, <3>1, <3>3, CoverMove DEF InWorkspace, Holding
  <2> QED BY <1>15, <2>2, <2>3 DEF Recheck, Return
<1>16. CASE RunFails(p) \/ Crash(p)
  <2>1. /\ pc' = [pc EXCEPT ![p] = "idle"] /\ Excuse(Ws(p), open[Ws(p)])
        /\ UNCHANGED <<last, open, promised, seqAtEnd>>
    BY <1>16 DEF RunFails, Crash, Return, logVars
  <2>2. Grows /\ Todo(Ws(p))' = {} /\ Elsewhere /\ Alone BY <1>3, <1>5, <1>6, <2>1
  <2> QED BY <2>1, <2>2, CoverClear
<1> QED
  BY <1>2, <1>7, <1>8, <1>9, <1>10, <1>11, <1>12, <1>13, <1>14, <1>15, <1>16 DEF Step

\* While work that a refused process was told will be picked up is open, some
\* process is at it (lock.go: "no goal is stranded by the handoff"), but for
\* what HandoffCovered excuses.
THEOREM Handoff == Spec => []HandoffCovered
<1>1. Init => CoverInv
  <2> SUFFICES ASSUME Init PROVE CoverInv OBVIOUS
  <2>1. \A ws \in Workspace : promised[ws] = {} /\ Todo(ws) = {} BY DEF Init, Todo
  <2>2. \A p \in Proc : pc[p] \notin InWorkspace BY DEF Init, InWorkspace, Holding
  <2> QED BY <2>1, <2>2 DEF CoverInv
<1>2. TypeOK /\ LockInv /\ CoverInv /\ [Next]_vars => CoverInv' BY CoverStep
<1>3. CoverInv => HandoffCovered
  <2> SUFFICES ASSUME CoverInv, NEW ws \in Workspace, NEW x \in (promised[ws] \cap open[ws]) \ excused[ws]
               PROVE  Active(ws)
    BY DEF HandoffCovered
  <2>1. PICK p \in Proc : Ws(p) = ws /\ Covers(p, x) BY DEF CoverInv, Todo
  <2> QED BY <2>1 DEF Active, Covers
<1> QED BY <1>1, <1>2, <1>3, TypeCorrect, LockInvariance, PTL DEF Spec
=============================================================================
