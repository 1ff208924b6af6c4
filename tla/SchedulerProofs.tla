---------------------------- MODULE SchedulerProofs ----------------------------
(***************************************************************************)
(* Eight promises of the Scheduler, for any tickets, goals, settings and   *)
(* faults.  The first three: a cancel keeps what is not in the merge       *)
(* queue's hands from landing, the log does not move under a proposal that *)
(* is, and the pool never holds more attempts than Concurrency.  Every     *)
(* step is summed up first by what it does to the log and to the queue:    *)
(* work of the pass on one ticket, a step of one attempt, a step of        *)
(* somebody at a front door, and the steps of the pass itself.             *)
(*                                                                         *)
(* The next four are about the order of work, as long as a ticket has one  *)
(* attempt at a time: work starts on a ticket only when all it depends on  *)
(* has landed, no event brings a ticket back from an end state, a ticket   *)
(* is not attempted more often than it may be, and the branch of a         *)
(* proposal stays until it is decided.  They rest on what a live attempt   *)
(* says of its ticket, on what each step of the pass found when it read    *)
(* the log, and on the fact that what landed stays landed.                 *)
(*                                                                         *)
(* The last says why Run may give up: as long as nothing is appended, what *)
(* a step of the pass found and dealt with is not there when the pass ends.*)
(***************************************************************************)
EXTENDS Scheduler, FiniteSetTheorems, WellFoundedInduction, TLAPS

-----------------------------------------------------------------------------
(* What the recursive queries of the log compute.  TicketComplete and        *)
(* TicketDead walk the children a ticket was split into; both are fixed      *)
(* points of their bodies.  A ticket that is complete stays so as long as    *)
(* tickets that merged or were split stay so, and is never dead.             *)

\* A set of tickets has a ticket that none of its tickets comes after.
LEMMA LastTicket ==
  ASSUME NEW S, S \subseteq Ticket, S # {}
  PROVE  \E t \in S : \A u \in S : u <= t
<1> DEFINE R == OpToRel(<, Nat)
           M == {N - t : t \in S}
<1>0. N \in Nat BY GraphAssumption
<1>1. \A t \in S : t \in Nat /\ t <= N BY <1>0 DEF Ticket
<1>2. M \subseteq Nat /\ M # {} BY <1>0, <1>1
<1>3. IsWellFoundedOn(R, Nat) BY NatLessThanWellFounded
<1> HIDE DEF M, R
<1>4. PICK m \in M : \A n \in M : ~(<<n, m>> \in R) BY <1>2, <1>3, WFMin
<1>5. \A n \in M : ~(n < m) BY <1>2, <1>4 DEF OpToRel, R
<1>6. PICK t \in S : m = N - t BY DEF M
<1>7. ASSUME NEW u \in S PROVE u <= t
  <2>1. N - u \in M BY DEF M
  <2>2. ~(N - u < N - t) BY <1>5, <1>6, <2>1
  <2> QED BY <1>0, <1>1, <2>2
<1> QED BY <1>7

\* TicketComplete has the value its definition says.
LEMMA CompleteIs ==
  ASSUME NEW tks
  PROVE  /\ DOMAIN TicketComplete(tks) = Ticket
         /\ \A t \in Ticket :
              /\ TicketComplete(tks)[t] \in BOOLEAN
              /\ TicketComplete(tks)[t] <=>
                   \/ tks[t].status = "merged"
                   \/ tks[t].status = "decomposed" /\ \A u \in Kids[t] : TicketComplete(tks)[u]
<1> DEFINE Body(S, t) == \/ tks[t].status = "merged"
                         \/ tks[t].status = "decomposed" /\ \A u \in Kids[t] : u \in S
           Closed(S) == \A t \in Ticket : Body(S, t) => t \in S
           L == {t \in Ticket : \A S \in SUBSET Ticket : Closed(S) => t \in S}
           f == [t \in Ticket |-> t \in L]
           IsComplete(g) ==
             g = [t \in Ticket |->
                    \/ tks[t].status = "merged"
                    \/ tks[t].status = "decomposed" /\ \A u \in Kids[t] : g[u]]
<1>1. \A t \in Ticket : Kids[t] \subseteq Ticket BY GraphAssumption
<1>2. ASSUME NEW t \in Ticket, Body(L, t) PROVE t \in L
  <2>1. ASSUME NEW S \in SUBSET Ticket, Closed(S) PROVE t \in S
    <3>1. L \subseteq S BY <2>1
    <3>2. Body(S, t) BY <1>2, <3>1
    <3> QED BY <2>1, <3>2
  <2> QED BY <2>1
<1>3. ASSUME NEW t \in L PROVE Body(L, t)
  <2> SUFFICES ASSUME ~Body(L, t) PROVE FALSE OBVIOUS
  <2> DEFINE S == L \ {t}
  <2>1. S \in SUBSET Ticket OBVIOUS
  <2>2. ASSUME NEW u \in Ticket, Body(S, u) PROVE u \in S
    <3>1. Body(L, u) BY <2>2
    <3>2. u \in L BY <1>2, <3>1
    <3> QED BY <3>1, <3>2
  <2>3. Closed(S) BY <2>2
  <2>4. t \in S BY <2>1, <2>3
  <2> QED BY <2>4
<1>4. \A t \in Ticket : t \in L <=> Body(L, t) BY <1>2, <1>3
<1>5. IsComplete(f)
  <2> HIDE DEF L
  <2>1. \A t \in Ticket : \A u \in Kids[t] : f[u] = (u \in L) BY <1>1
  <2>2. \A t \in Ticket : f[t] <=> Body(L, t) BY <1>4
  <2>3. \A t \in Ticket : f[t] \in BOOLEAN OBVIOUS
  <2>4. f = [t \in Ticket |-> f[t]] OBVIOUS
  <2> HIDE DEF f
  <2>5. ASSUME NEW t \in Ticket
        PROVE  f[t] = (\/ tks[t].status = "merged"
                       \/ tks[t].status = "decomposed" /\ \A u \in Kids[t] : f[u])
    <3>1. f[t] <=> \/ tks[t].status = "merged"
                   \/ tks[t].status = "decomposed" /\ \A u \in Kids[t] : f[u]
      BY <2>1, <2>2
    <3> QED BY <2>3, <3>1
  <2> QED BY <2>4, <2>5
<1> HIDE DEF f, L
<1>6. TicketComplete(tks) = CHOOSE g : IsComplete(g) BY DEF TicketComplete
<1>7. IsComplete(CHOOSE g : IsComplete(g)) BY <1>5
<1> HIDE DEF IsComplete
<1>8. IsComplete(TicketComplete(tks)) BY <1>6, <1>7
<1> USE DEF IsComplete
<1> QED BY <1>8

\* So has TicketDead.
LEMMA DeadIs ==
  ASSUME NEW tks
  PROVE  /\ DOMAIN TicketDead(tks) = Ticket
         /\ \A t \in Ticket :
              /\ TicketDead(tks)[t] \in BOOLEAN
              /\ TicketDead(tks)[t] <=>
                   \/ tks[t].status = "failed"
                   \/ tks[t].status = "decomposed" /\ \E u \in Kids[t] : TicketDead(tks)[u]
<1> DEFINE Body(S, t) == \/ tks[t].status = "failed"
                         \/ tks[t].status = "decomposed" /\ \E u \in Kids[t] : u \in S
           Closed(S) == \A t \in Ticket : Body(S, t) => t \in S
           L == {t \in Ticket : \A S \in SUBSET Ticket : Closed(S) => t \in S}
           f == [t \in Ticket |-> t \in L]
           IsDead(g) ==
             g = [t \in Ticket |->
                    \/ tks[t].status = "failed"
                    \/ tks[t].status = "decomposed" /\ \E u \in Kids[t] : g[u]]
<1>1. \A t \in Ticket : Kids[t] \subseteq Ticket BY GraphAssumption
<1>2. ASSUME NEW t \in Ticket, Body(L, t) PROVE t \in L
  <2>1. ASSUME NEW S \in SUBSET Ticket, Closed(S) PROVE t \in S
    <3>1. L \subseteq S BY <2>1
    <3>2. Body(S, t) BY <1>2, <3>1
    <3> QED BY <2>1, <3>2
  <2> QED BY <2>1
<1>3. ASSUME NEW t \in L PROVE Body(L, t)
  <2> SUFFICES ASSUME ~Body(L, t) PROVE FALSE OBVIOUS
  <2> DEFINE S == L \ {t}
  <2>1. S \in SUBSET Ticket OBVIOUS
  <2>2. ASSUME NEW u \in Ticket, Body(S, u) PROVE u \in S
    <3>1. Body(L, u) BY <2>2
    <3>2. u \in L BY <1>2, <3>1
    <3> QED BY <3>1, <3>2
  <2>3. Closed(S) BY <2>2
  <2>4. t \in S BY <2>1, <2>3
  <2> QED BY <2>4
<1>4. \A t \in Ticket : t \in L <=> Body(L, t) BY <1>2, <1>3
<1>5. IsDead(f)
  <2> HIDE DEF L
  <2>1. \A t \in Ticket : \A u \in Kids[t] : f[u] = (u \in L) BY <1>1
  <2>2. \A t \in Ticket : f[t] <=> Body(L, t) BY <1>4
  <2>3. \A t \in Ticket : f[t] \in BOOLEAN OBVIOUS
  <2>4. f = [t \in Ticket |-> f[t]] OBVIOUS
  <2> HIDE DEF f
  <2>5. ASSUME NEW t \in Ticket
        PROVE  f[t] = (\/ tks[t].status = "failed"
                       \/ tks[t].status = "decomposed" /\ \E u \in Kids[t] : f[u])
    <3>1. f[t] <=> \/ tks[t].status = "failed"
                   \/ tks[t].status = "decomposed" /\ \E u \in Kids[t] : f[u]
      BY <2>1, <2>2
    <3> QED BY <2>3, <3>1
  <2> QED BY <2>4, <2>5
<1> HIDE DEF f, L
<1>6. TicketDead(tks) = CHOOSE g : IsDead(g) BY DEF TicketDead
<1>7. IsDead(CHOOSE g : IsDead(g)) BY <1>5
<1> HIDE DEF IsDead
<1>8. IsDead(TicketDead(tks)) BY <1>6, <1>7
<1> USE DEF IsDead
<1> QED BY <1>8

\* A ticket that is complete stays so, as long as what merged stays merged and
\* what was split stays split.
LEMMA CompleteStays ==
  ASSUME NEW old, NEW new,
         \A t \in Ticket : old[t].status \in {"merged", "decomposed"} => new[t].status = old[t].status
  PROVE  \A t \in Ticket : TicketComplete(old)[t] => TicketComplete(new)[t]
<1> DEFINE C == TicketComplete(old)
           D == TicketComplete(new)
           S == {t \in Ticket : C[t] /\ ~D[t]}
<1>1. \A t \in Ticket : C[t] <=> \/ old[t].status = "merged"
                                 \/ old[t].status = "decomposed" /\ \A u \in Kids[t] : C[u]
  BY CompleteIs
<1>2. \A t \in Ticket : D[t] <=> \/ new[t].status = "merged"
                                 \/ new[t].status = "decomposed" /\ \A u \in Kids[t] : D[u]
  BY CompleteIs
<1> HIDE DEF C, D
<1>3. SUFFICES ASSUME S # {} PROVE FALSE BY DEF C, D
<1>4. PICK t \in S : \A u \in S : u <= t
  <2>1. S \subseteq Ticket OBVIOUS
  <2> HIDE DEF S
  <2> QED BY <1>3, <2>1, LastTicket
<1>5. old[t].status = "decomposed" /\ new[t].status = "decomposed" BY <1>1, <1>2
<1>6. PICK u \in Kids[t] : C[u] /\ ~D[u] BY <1>1, <1>2, <1>5
<1>7. u \in Ticket /\ t < u BY GraphAssumption
<1>8. u \in S BY <1>6, <1>7
<1>9. u <= t BY <1>4, <1>8
<1> QED BY <1>7, <1>9, GraphAssumption DEF Ticket

\* No ticket is both complete and dead.
LEMMA NeverBoth ==
  ASSUME NEW tks
  PROVE  \A t \in Ticket : ~(TicketComplete(tks)[t] /\ TicketDead(tks)[t])
<1> DEFINE C == TicketComplete(tks)
           D == TicketDead(tks)
           S == {t \in Ticket : C[t] /\ D[t]}
<1>1. \A t \in Ticket : C[t] <=> \/ tks[t].status = "merged"
                                 \/ tks[t].status = "decomposed" /\ \A u \in Kids[t] : C[u]
  BY CompleteIs
<1>2. \A t \in Ticket : D[t] <=> \/ tks[t].status = "failed"
                                 \/ tks[t].status = "decomposed" /\ \E u \in Kids[t] : D[u]
  BY DeadIs
<1> HIDE DEF C, D
<1>3. SUFFICES ASSUME S # {} PROVE FALSE BY DEF C, D
<1>4. PICK t \in S : \A u \in S : u <= t
  <2>1. S \subseteq Ticket OBVIOUS
  <2> HIDE DEF S
  <2> QED BY <1>3, <2>1, LastTicket
<1>5. PICK u \in Kids[t] : C[u] /\ D[u] BY <1>1, <1>2
<1>6. u \in Ticket /\ t < u BY GraphAssumption
<1>7. u \in S BY <1>5, <1>6
<1>8. u <= t BY <1>4, <1>7
<1> QED BY <1>6, <1>8, GraphAssumption DEF Ticket

-----------------------------------------------------------------------------

Rec == TicketRecord(Reasons \cup {"other"})

\* With the merge queue, or parked.
Held == {"proposed", "awaiting"}

Types ==
  /\ tk \in [Ticket -> Rec] /\ gl \in [Goal -> GoalRecord]
  /\ job \in [Attempt -> Job]
  /\ DOMAIN snap = {"tk", "gl", "grew"} /\ snap.tk \in [Ticket -> Rec]
  /\ opt \in Options

-----------------------------------------------------------------------------
(* Events *)

\* y is x after an event that neither lands nor proposes anything.
Plain(x, y) ==
  /\ y \in Rec
  /\ y.status = "merged" => x.status = "merged"
  /\ y.status \in Held => x.status \in Held

\* The numbers of a record are numbers.
LEMMA Numbers ==
  ASSUME NEW x \in Rec
  PROVE  /\ x.active \in Nat /\ x.active + 1 \in Nat /\ x.attempts + 1 \in Nat
         /\ x.same \in Nat /\ x.same + 1 \in Nat /\ x.branch \in Nat
         /\ x.status \in Status
<1>1. x.active \in Nat /\ x.attempts \in Nat /\ x.same \in Nat /\ x.branch \in Nat
      /\ x.status \in Status
  BY DEF Rec, TicketRecord
<1> QED BY <1>1

\* An attempt that begins, with whatever counts.
LEMMA Begun ==
  ASSUME NEW x \in Rec, NEW a \in Nat, NEW n \in Nat
  PROVE  Plain(x, [x EXCEPT !.status = "claimed", !.worker = Worker, !.active = a,
                            !.attempts = n, !.quiet = FALSE])
BY DEF Plain, Rec, TicketRecord, Held, Status, Early, Terminal, Worker, Nobody, NoReason

\* One that ends without a proposal, with whatever counts, status and reason.
Ending(x, a, st, r, m) ==
  [x EXCEPT !.active = a, !.status = st, !.reason = r, !.same = m,
            !.worker = Nobody, !.branch = 0, !.quiet = FALSE]

\* It neither lands nor proposes anything.
LEMMA Ended ==
  ASSUME NEW x \in Rec, NEW a \in Nat, NEW m \in Nat, NEW r \in Reasons \cup {"other", NoReason},
         NEW st \in Early \cup {x.status}
  PROVE  Plain(x, Ending(x, a, st, r, m))
<1> DEFINE y == Ending(x, a, st, r, m)
<1>1. st \in Status
  BY Numbers DEF Status, Early
<1>3. y \in Rec BY <1>1 DEF Rec, TicketRecord, Nobody, Ending
<1>4. y.status = st BY DEF Rec, TicketRecord, Ending
<1>5. st \in Held => x.status \in Held BY DEF Held, Early
<1>6. st = "merged" => x.status = "merged" BY DEF Early
<1> QED BY <1>3, <1>4, <1>5, <1>6 DEF Plain

\* Most events are of that kind, whatever the status they are applied to.
LEMMA PlainEvents ==
  ASSUME NEW x \in Rec, NEW w, NEW r \in Reasons \cup {"other"}, NEW n \in Nat
  PROVE  /\ Plain(x, x) /\ Plain(x, TicketCreated(x, n)) /\ Plain(x, TicketReady(x))
         /\ Plain(x, TicketClaimed(x)) /\ Plain(x, WorkStarted(x)) /\ Plain(x, Heartbeat(x))
         /\ Plain(x, TicketDecomposed(x))
         /\ Plain(x, ApprovalRequested(x)) /\ Plain(x, ApprovalGranted(x))
         /\ Plain(x, ApprovalDenied(x)) /\ Plain(x, TicketInvalidated(x, r))
         /\ Plain(x, [x EXCEPT !.quiet = TRUE])
<1> USE DEF Plain, Rec, TicketRecord, Held, Status, Early, Terminal, Worker, Nobody, NoReason
<1>1. Plain(x, x) OBVIOUS
<1>2. Plain(x, TicketCreated(x, n)) BY DEF TicketCreated, NoTicket
<1>3. Plain(x, TicketReady(x)) BY DEF TicketReady
<1>4. Plain(x, TicketClaimed(x))
  <2> HIDE DEF Plain, Rec, TicketRecord, Status
  <2> QED BY Numbers, Begun DEF TicketClaimed
<1>5. Plain(x, WorkStarted(x)) BY DEF WorkStarted
<1>6. Plain(x, Heartbeat(x)) BY DEF Heartbeat
<1>7. Plain(x, TicketDecomposed(x)) BY DEF TicketDecomposed
<1>8. Plain(x, ApprovalRequested(x)) BY DEF ApprovalRequested
<1>9. Plain(x, ApprovalGranted(x)) BY DEF ApprovalGranted
<1>10. Plain(x, ApprovalDenied(x)) BY DEF ApprovalDenied
<1>11. Plain(x, TicketInvalidated(x, r)) BY DEF TicketInvalidated, RemoveWorker
<1>12. Plain(x, [x EXCEPT !.quiet = TRUE]) OBVIOUS
<1> QED BY <1>1, <1>2, <1>3, <1>4, <1>5, <1>6, <1>7, <1>8, <1>9, <1>10, <1>11, <1>12

\* So are failures, of any worker and for any reason.
LEMMA PlainFailures ==
  ASSUME NEW x \in Rec, NEW w, NEW r \in Reasons \cup {"other", NoReason}
  PROVE  /\ r # NoReason => Plain(x, VerificationFailed(x, w, r))
         /\ r # NoReason => Plain(x, TicketFailed(x, w, r))
         /\ Plain(x, WorkerRestarted(x, w, r))
<1> USE DEF Plain, Rec, TicketRecord, Held, Status, Early, Terminal, Worker, Nobody, NoReason,
            RemoveWorker, Streak
<1>a. /\ RemoveWorker(x, w) \in Nat /\ Streak(x, r) \in Nat /\ x.same \in Nat
      /\ x.reason \in Reasons \cup {"other", NoReason}
  <2>1. x.reason \in Reasons \cup {"other", NoReason} OBVIOUS
  <2> HIDE DEF Plain, Rec, TicketRecord, Status
  <2> QED BY <2>1, Numbers
<1>1. r # NoReason => Plain(x, VerificationFailed(x, w, r))
  <2> DEFINE left == RemoveWorker(x, w)
             hits == (x.status = "proposed" /\ x.worker = w) \/ x.status \in Early
             st == IF ~hits THEN x.status ELSE IF left = 0 THEN "ready" ELSE "running"
  <2>1. st \in Early \cup {x.status} OBVIOUS
  <2>2. VerificationFailed(x, w, r) = Ending(x, left, st, r, Streak(x, r))
    BY DEF VerificationFailed, Ending
  <2> HIDE DEF Plain, Rec, TicketRecord, Status, st, RemoveWorker, Streak
  <2> QED BY <1>a, <2>1, <2>2, Ended
<1>2. r # NoReason => Plain(x, TicketFailed(x, w, r)) BY DEF TicketFailed
<1>3. Plain(x, WorkerRestarted(x, w, r))
  <2> DEFINE left == RemoveWorker(x, w)
             st == IF left = 0 /\ x.status \in Early THEN "ready" ELSE x.status
             why == IF r = NoReason THEN x.reason ELSE r
             m == IF r = NoReason THEN x.same ELSE Streak(x, r)
  <2>1. st \in Early \cup {x.status} OBVIOUS
  <2>2. WorkerRestarted(x, w, r) = Ending(x, left, st, why, m)
    BY DEF WorkerRestarted, Ending
  <2> HIDE DEF Plain, Rec, TicketRecord, Status, st, RemoveWorker, Streak, NoReason
  <2>3. why \in Reasons \cup {"other", NoReason} /\ m \in Nat BY <1>a
  <2> HIDE DEF why, m
  <2> QED BY <1>a, <2>1, <2>2, <2>3, Ended
<1> QED BY <1>1, <1>2, <1>3

\* The two that are not.
LEMMA LandingEvents ==
  ASSUME NEW x \in Rec, NEW b \in Nat
  PROVE  /\ Merged(x) \in Rec /\ Merged(x).status = "merged"
         /\ ProposalSubmitted(x, b) \in Rec
         /\ ProposalSubmitted(x, b).status = "merged" => x.status = "merged"
<1> USE DEF Rec, TicketRecord, Status, Early, Terminal, Worker, Nobody, NoReason, RemoveWorker
<1>1. Merged(x) \in Rec /\ Merged(x).status = "merged" BY DEF Merged
<1>2. /\ ProposalSubmitted(x, b) \in Rec
      /\ ProposalSubmitted(x, b).status = "merged" => x.status = "merged"
  BY DEF ProposalSubmitted
<1> QED BY <1>1, <1>2

-----------------------------------------------------------------------------
(* What the steps do, as far as the queue is concerned *)

QueuePhases == {"drain", "batch", "outcomes"}

\* The log says something new of ticket t only.
OnlyTicket(t) == tk' \in [Ticket -> Rec] /\ \A u \in Ticket : u # t => tk'[u] = tk[u]

\* A typed event leaves the tables typed.
LEMMA Emitted ==
  ASSUME Types, NEW t \in Ticket, NEW y \in Rec, EmitTicket(t, y)
  PROVE  OnlyTicket(t) /\ tk'[t] = y
BY DEF Types, EmitTicket, OnlyTicket

\* The pass deals with ticket t, or hands its proposal to the queue.
PassStep(t) ==
  /\ UNCHANGED <<gl, job, snap, opt, spared, pc>>
  /\ OnlyTicket(t)
  /\ tk'[t].status = "merged" => tk[t].status = "merged" \/ t \in hands
  /\ tk'[t].status \in Held => tk[t].status \in Held
  /\ \/ /\ todo' = todo \ {t} /\ hands' \subseteq hands
        /\ pc \in QueuePhases => t \notin hands'
     \/ /\ todo' = todo /\ tk' = tk /\ pc = "drain" /\ t \in todo
        /\ hands' = {t} /\ ~gl[GoalOf[t]].cancelled

\* Every reason that is given is one of the reasons.
LEMMA Given ==
  ASSUME Types, NEW t \in Ticket
  PROVE  /\ tk[t] \in Rec /\ Plain(tk[t], tk[t])
         /\ \A w : \A r \in Reasons \cup {"other"} :
              Plain(tk[t], TicketFailed(tk[t], w, r)) /\ Plain(tk[t], VerificationFailed(tk[t], w, r))
         /\ \A w : \A r \in Reasons \cup {"other", NoReason} :
              Plain(tk[t], WorkerRestarted(tk[t], w, r))
<1>1. tk[t] \in Rec BY DEF Types
<1>2. \A r \in Reasons \cup {"other"} : r # NoReason
  BY OptionsAssumption DEF NoReason
<1>3. Plain(tk[t], tk[t]) BY <1>1, PlainEvents
<1>4. ASSUME NEW w, NEW r \in Reasons \cup {"other"}
      PROVE  Plain(tk[t], TicketFailed(tk[t], w, r)) /\ Plain(tk[t], VerificationFailed(tk[t], w, r))
  BY <1>1, <1>2, PlainFailures
<1>5. ASSUME NEW w, NEW r \in Reasons \cup {"other", NoReason}
      PROVE  Plain(tk[t], WorkerRestarted(tk[t], w, r))
  BY <1>1, PlainFailures
<1> QED BY <1>1, <1>3, <1>4, <1>5

\* A step that appends a plain event for t, or none, and has done with t.
LEMMA PlainWork ==
  ASSUME Types, NEW t \in Ticket, NEW y, Plain(tk[t], y), EmitTicket(t, y),
         UNCHANGED <<gl, job, snap, opt, spared, pc>>, DoneWith(t), hands' \subseteq hands,
         pc \in QueuePhases => t \notin hands'
  PROVE  PassStep(t)
<1>1. y \in Rec BY DEF Plain
<1>2. OnlyTicket(t) /\ tk'[t] = y BY <1>1, Emitted
<1> QED BY <1>2 DEF PassStep, Plain, DoneWith

\* The tickets are finitely many, so that a new one has a place.
LEMMA Place == Types => Cardinality(Created(tk)) + 1 \in Nat
<1>1. IsFiniteSet(Ticket) BY GraphAssumption, FS_Interval DEF Ticket
<1>2. IsFiniteSet(Created(tk)) BY <1>1, FS_Subset DEF Created
<1>3. Cardinality(Created(tk)) \in Nat BY <1>2, FS_CardinalityType
<1> QED BY <1>3

\* What a pass does with the tickets it found.
LEMMA PassWork ==
  ASSUME Types, NEW t \in Ticket,
         \/ CreateTicket(t) \/ EnforceCancellation(t) \/ EnforceBudget(t) \/ Promote(t)
         \/ FailBlocked(t) \/ RestartStalled(t)
  PROVE  PassStep(t)
<1>0. "other" \in Reasons \cup {"other"} /\ NoReason \in Reasons \cup {"other", NoReason}
  OBVIOUS
<1>g. tk[t] \in Rec /\ Plain(tk[t], tk[t]) BY Given
<1>1. CASE CreateTicket(t)
  <2>1. /\ UNCHANGED <<gl, job, snap, opt, spared, pc>> /\ DoneWith(t) /\ hands' = hands
        /\ pc \notin QueuePhases /\ EmitCreated(t)
    BY <1>1 DEF CreateTicket, histVars, QueuePhases
  <2>2. Plain(tk[t], TicketCreated(tk[t], Cardinality(Created(tk)) + 1))
    BY <1>g, Place, PlainEvents
  <2> QED BY <2>1, <2>2, PlainWork DEF EmitCreated
<1>2. CASE EnforceCancellation(t)
  <2>1. /\ UNCHANGED <<gl, job, snap, opt, spared, pc>> /\ DoneWith(t) /\ hands' = hands
        /\ pc \notin QueuePhases
        /\ tk' = tk \/ EmitTicket(t, TicketFailed(tk[t], snap.tk[t].worker, "other"))
    BY <1>2 DEF EnforceCancellation, FailCancelled, logVars, histVars, QueuePhases
  <2>2. Plain(tk[t], TicketFailed(tk[t], snap.tk[t].worker, "other")) BY <1>0, Given
  <2>3. tk' = tk => PassStep(t)
    BY <2>1 DEF PassStep, OnlyTicket, DoneWith, Types
  <2> QED BY <2>1, <2>2, <2>3, PlainWork
<1>3. CASE EnforceBudget(t) \/ FailBlocked(t)
  <2>1. /\ UNCHANGED <<gl, job, snap, opt, spared, pc>> /\ DoneWith(t) /\ hands' = hands
        /\ pc \notin QueuePhases
        /\ EmitTicket(t, TicketFailed(tk[t], snap.tk[t].worker, "other"))
    BY <1>3 DEF EnforceBudget, FailBlocked, histVars, QueuePhases
  <2>2. Plain(tk[t], TicketFailed(tk[t], snap.tk[t].worker, "other")) BY <1>0, Given
  <2> QED BY <2>1, <2>2, PlainWork
<1>4. CASE Promote(t)
  <2>1. /\ UNCHANGED <<gl, job, snap, opt, spared, pc>> /\ DoneWith(t) /\ hands' = hands
        /\ pc \notin QueuePhases /\ EmitTicket(t, TicketReady(tk[t]))
    BY <1>4 DEF Promote, histVars, QueuePhases
  <2>2. Plain(tk[t], TicketReady(tk[t])) BY <1>g, PlainEvents
  <2> QED BY <2>1, <2>2, PlainWork
<1>5. CASE RestartStalled(t)
  <2>1. /\ UNCHANGED <<gl, job, snap, opt, spared, pc>> /\ DoneWith(t) /\ hands' = hands
        /\ pc \notin QueuePhases
        /\ EmitTicket(t, WorkerRestarted(tk[t], snap.tk[t].worker, NoReason))
    BY <1>5 DEF RestartStalled, histVars, QueuePhases
  <2>2. Plain(tk[t], WorkerRestarted(tk[t], snap.tk[t].worker, NoReason)) BY <1>0, Given
  <2> QED BY <2>1, <2>2, PlainWork
<1> QED BY <1>1, <1>2, <1>3, <1>4, <1>5

\* What the queue does with the proposals.
LEMMA QueueWork ==
  ASSUME Types, NEW t \in Ticket,
         \/ TakeProposal(t) \/ DropFromBatch(t) \/ Merge(t) \/ Park(t)
         \/ \E r \in Reasons : Reject(t, r)
  PROVE  PassStep(t)
<1>0. "other" \in Reasons \cup {"other"} /\ Reasons \subseteq Reasons \cup {"other"}
  OBVIOUS
<1>g. tk[t] \in Rec /\ Plain(tk[t], tk[t]) BY Given
<1>f. Plain(tk[t], TicketFailed(tk[t], snap.tk[t].worker, "other")) BY <1>0, Given
<1>1. CASE TakeProposal(t)
  <2>1. CASE DropCancelled(t)
    <3>1. /\ UNCHANGED <<gl, job, snap, opt, spared, pc>> /\ DoneWith(t) /\ hands' = hands
          /\ hands = {} /\ EmitTicket(t, TicketFailed(tk[t], snap.tk[t].worker, "other"))
      BY <1>1, <2>1 DEF TakeProposal, FailCancelled, histVars
    <3> QED BY <1>f, <3>1, PlainWork
  <2>2. CASE ~DropCancelled(t)
    <3>1. /\ UNCHANGED <<gl, job, snap, opt, spared, pc, tk, todo>> /\ hands' = {t}
          /\ pc = "drain" /\ t \in todo /\ ~gl[GoalOf[t]].cancelled
      BY <1>1, <2>2 DEF TakeProposal, DropCancelled, First, logVars, histVars
    <3> QED BY <3>1 DEF PassStep, OnlyTicket, Types
  <2> QED BY <2>1, <2>2
<1>2. CASE DropFromBatch(t)
  <2>1. /\ UNCHANGED <<gl, job, snap, opt, spared, pc>> /\ DoneWith(t) /\ hands' = hands
        /\ t \notin hands /\ EmitTicket(t, TicketFailed(tk[t], snap.tk[t].worker, "other"))
    BY <1>2 DEF DropFromBatch, FailCancelled, First, histVars
  <2> QED BY <1>f, <2>1, PlainWork
<1>3. CASE Merge(t)
  <2>1. /\ UNCHANGED <<gl, job, snap, opt, spared, pc>> /\ DoneWith(t) /\ hands' = hands \ {t}
        /\ t \in hands /\ EmitTicket(t, Merged(tk[t]))
    BY <1>3 DEF Merge, OutcomeDone, NextOutcome, First, histVars
  <2>2. Merged(tk[t]) \in Rec /\ Merged(tk[t]).status = "merged"
    BY <1>g, LandingEvents
  <2>3. OnlyTicket(t) /\ tk'[t].status = "merged" BY <2>1, <2>2, Emitted
  <2> QED BY <2>1, <2>3 DEF PassStep, DoneWith, Held
<1>4. CASE Park(t)
  <2>1. /\ UNCHANGED <<gl, job, snap, opt, spared, pc>> /\ DoneWith(t) /\ hands' = hands \ {t}
        /\ EmitTicket(t, ApprovalRequested(tk[t]))
    BY <1>4 DEF Park, OutcomeDone, histVars
  <2>2. Plain(tk[t], ApprovalRequested(tk[t])) BY <1>g, PlainEvents
  <2> QED BY <2>1, <2>2, PlainWork
<1>5. ASSUME NEW r \in Reasons, Reject(t, r) PROVE PassStep(t)
  <2>1. /\ UNCHANGED <<gl, job, snap, opt, spared, pc>> /\ DoneWith(t) /\ hands' = hands \ {t}
        /\ \/ EmitTicket(t, TicketFailed(tk[t], snap.tk[t].worker, r))
           \/ EmitTicket(t, VerificationFailed(tk[t], snap.tk[t].worker, r))
    BY <1>5 DEF Reject, RejectOrFail, OutcomeDone, histVars
  <2>2. /\ Plain(tk[t], TicketFailed(tk[t], snap.tk[t].worker, r))
        /\ Plain(tk[t], VerificationFailed(tk[t], snap.tk[t].worker, r))
    BY <1>0, Given
  <2> QED BY <2>1, <2>2, PlainWork
<1> QED BY <1>1, <1>2, <1>3, <1>4, <1>5

\* Attempt w takes a step: it may propose its ticket, and then it is over.
JobStep(w) ==
  /\ UNCHANGED <<snap, opt, spared, pc, todo, hands>>
  /\ job[w].pc # "off"
  /\ job' \in [Attempt -> Job] /\ \A v \in Attempt : v # w => job'[v] = job[v]
  /\ PromptWorkers /\ job[w].pc # "exit" =>
       job'[w].pc # "exit" /\ (job'[w].pc = "off" => pc \notin {"count", "check"})
  /\ gl' \in [Goal -> GoalRecord]
  /\ \A g \in Goal : gl'[g].cancelled = gl[g].cancelled
  /\ tk' \in [Ticket -> Rec]
  /\ \A t \in Ticket :
       /\ tk'[t].status = "merged" => tk[t].status = "merged"
       /\ tk'[t] # tk[t] => t = TicketOf(w) \/ tk[t].status = "none"
       /\ tk'[t].status \in Held =>
            tk[t].status \in Held \/ (t = TicketOf(w) /\ job'[w].pc \in {"off", "exit"})

\* What an attempt's step does to its own label.
JobMove(w) ==
  /\ job[w].pc # "off"
  /\ job' \in [Attempt -> Job] /\ \A v \in Attempt : v # w => job'[v] = job[v]
  /\ PromptWorkers /\ job[w].pc # "exit" =>
       job'[w].pc # "exit" /\ (job'[w].pc = "off" => pc \notin {"count", "check"})

\* An attempt that goes on.
LEMMA GoesOn ==
  ASSUME Types, NEW w \in Attempt, NEW j \in Job, job' = [job EXCEPT ![w] = j],
         job[w].pc # "off", j.pc \notin {"off", "exit"}
  PROVE  JobMove(w)
<1>1. job' \in [Attempt -> Job] /\ \A v \in Attempt : v # w => job'[v] = job[v]
  BY DEF Types
<1>2. job'[w] = j BY DEF Types
<1> QED BY <1>1, <1>2 DEF JobMove

\* An attempt that is over.
LEMMA IsOver ==
  ASSUME Types, NEW w \in Attempt, EndJob(w), job[w].pc # "off"
  PROVE  JobMove(w) /\ job'[w].pc \in {"off", "exit"}
<1> DEFINE j == IF PromptWorkers THEN NoJob ELSE [NoJob EXCEPT !.pc = "exit"]
<1>1. j \in Job BY DEF Job, NoJob
<1>2. j.pc = IF PromptWorkers THEN "off" ELSE "exit" BY DEF NoJob
<1>3. job' = [job EXCEPT ![w] = j] /\ (PromptWorkers => pc \notin {"count", "check"})
  BY DEF EndJob, CanEnd
<1> HIDE DEF j
<1>4. job' \in [Attempt -> Job] /\ \A v \in Attempt : v # w => job'[v] = job[v]
  BY <1>1, <1>3 DEF Types
<1>5. job'[w] = j BY <1>3 DEF Types
<1> QED BY <1>2, <1>3, <1>4, <1>5 DEF JobMove

\* A charge cancels nothing.
LEMMA Charges ==
  ASSUME Types, NEW t \in Ticket, Charged(t) \/ UNCHANGED gl
  PROVE  gl' \in [Goal -> GoalRecord] /\ \A g \in Goal : gl'[g].cancelled = gl[g].cancelled
<1>1. CASE UNCHANGED gl BY <1>1 DEF Types
<1>2. CASE Charged(t)
  <2>1. GoalOf[t] \in Goal BY GraphAssumption
  <2>2. gl' = [gl EXCEPT ![GoalOf[t]] = Charge(gl[GoalOf[t]], Budget)]
    BY <1>2 DEF Charged
  <2>3. ASSUME NEW y \in GoalRecord
        PROVE  Charge(y, Budget) \in GoalRecord /\ Charge(y, Budget).cancelled = y.cancelled
    BY DEF Charge, GoalRecord
  <2>4. gl[GoalOf[t]] \in GoalRecord BY <2>1 DEF Types
  <2>5. /\ Charge(gl[GoalOf[t]], Budget) \in GoalRecord
        /\ Charge(gl[GoalOf[t]], Budget).cancelled = gl[GoalOf[t]].cancelled
    BY <2>3, <2>4
  <2> QED BY <2>1, <2>2, <2>5 DEF Types
<1> QED BY <1>1, <1>2

\* A step of an attempt that says nothing new of any ticket, or a plain event
\* of its own ticket or of one that did not exist.
LEMMA JobPlain ==
  ASSUME Types, NEW w \in Attempt, JobMove(w), NEW t \in Ticket, NEW y,
         Charged(TicketOf(w)) \/ UNCHANGED gl,
         UNCHANGED <<snap, opt, spared, pc, todo, hands>>,
         t = TicketOf(w) \/ tk[t].status = "none",
         Plain(tk[t], y), UNCHANGED tk \/ EmitTicket(t, y)
  PROVE  JobStep(w)
<1>1. TicketOf(w) \in Ticket BY DEF TicketOf, Attempt
<1>2. gl' \in [Goal -> GoalRecord] /\ \A g \in Goal : gl'[g].cancelled = gl[g].cancelled
  BY <1>1, Charges
<1>3. tk' \in [Ticket -> Rec] /\ \A u \in Ticket : tk'[u] = tk[u] \/ (u = t /\ tk'[u] = y)
  <2>1. CASE UNCHANGED tk BY <2>1 DEF Types
  <2>2. CASE EmitTicket(t, y)
    <3>1. OnlyTicket(t) /\ tk'[t] = y BY <2>2, Emitted DEF Plain
    <3> QED BY <3>1 DEF OnlyTicket
  <2> QED BY <2>1, <2>2
<1>4. ASSUME NEW u \in Ticket
      PROVE  /\ tk'[u].status = "merged" => tk[u].status = "merged"
             /\ tk'[u] # tk[u] => u = TicketOf(w) \/ tk[u].status = "none"
             /\ tk'[u].status \in Held => tk[u].status \in Held
  BY <1>3 DEF Plain
<1> QED BY <1>2, <1>3, <1>4 DEF JobStep, JobMove

\* The fields of an attempt's record.
LEMMA Attempts ==
  ASSUME Types, NEW w \in Attempt
  PROVE  /\ TicketOf(w) \in Ticket /\ tk[TicketOf(w)] \in Rec
         /\ job[w] \in Job /\ job[w].branch \in Nat
         /\ tk[TicketOf(w)].attempts + 1 \in Nat
<1>1. TicketOf(w) \in Ticket BY DEF TicketOf, Attempt
<1>2. tk[TicketOf(w)] \in Rec /\ job[w] \in Job BY <1>1 DEF Types
<1> QED BY <1>1, <1>2, Numbers DEF Job

\* The steps of an attempt that go on with it and say nothing of its goal.
LEMMA AttemptGoesOn ==
  ASSUME Types, NEW w \in Attempt,
         \/ Claim(w) \/ AddWorktree(w) \/ StartWork(w) \/ Beat(w) \/ AgentFails(w)
         \/ Commit(w) \/ Split(w) \/ ReadIsLast(w)
  PROVE  JobStep(w)
<1> DEFINE t == TicketOf(w)
           x == tk[TicketOf(w)]
<1>0. /\ t \in Ticket /\ x \in Rec /\ job[w] \in Job /\ x.attempts + 1 \in Nat
      /\ Plain(x, x) /\ Plain(x, TicketClaimed(x)) /\ Plain(x, WorkStarted(x))
      /\ Plain(x, Heartbeat(x))
  <2>1. "other" \in Reasons \cup {"other"} OBVIOUS
  <2> QED BY <2>1, Attempts, PlainEvents
<1>1. UNCHANGED <<gl, snap, opt, spared, pc, todo, hands>>
  BY DEF Claim, AddWorktree, StartWork, Beat, AgentFails, Commit, Split, ReadIsLast,
         logVars, passVars, histVars
<1>2. ASSUME NEW y, Plain(x, y), UNCHANGED tk \/ EmitTicket(t, y), JobMove(w)
      PROVE  JobStep(w)
  BY <1>0, <1>1, <1>2, JobPlain
<1>3. ASSUME NEW j \in Job, job' = [job EXCEPT ![w] = j], job[w].pc # "off",
             j.pc \notin {"off", "exit"}
      PROVE  JobMove(w)
  BY <1>3, GoesOn
<1>4. ASSUME NEW l \in {"start", "failing", "propose", "split", "nosplit"}, Goto(w, l),
             job[w].pc # "off"
      PROVE  JobMove(w)
  <2> DEFINE j == [job[w] EXCEPT !.pc = l]
  <2>1. j \in Job /\ j.pc = l BY <1>0 DEF Job
  <2>2. job' = [job EXCEPT ![w] = j] BY <1>4 DEF Goto
  <2> QED BY <1>3, <1>4, <2>1, <2>2
<1>5. CASE Claim(w)
  <2> DEFINE j == [job[w] EXCEPT !.pc = "tree", !.branch = x.attempts + 1]
  <2>1. j \in Job /\ j.pc = "tree" BY <1>0 DEF Job
  <2>2. job' = [job EXCEPT ![w] = j] BY <1>5 DEF Claim
  <2>3. JobMove(w) BY <1>3, <1>5, <2>1, <2>2 DEF Claim
  <2> QED BY <1>0, <1>2, <1>5, <2>3 DEF Claim
<1>6. CASE StartWork(w)
  <2> DEFINE j == [job[w] EXCEPT !.pc = "run", !.ran = TRUE]
  <2>1. j \in Job /\ j.pc = "run" BY <1>0 DEF Job
  <2>2. job' = [job EXCEPT ![w] = j] BY <1>6 DEF StartWork
  <2>3. JobMove(w) BY <1>3, <1>6, <2>1, <2>2 DEF StartWork
  <2> QED BY <1>0, <1>2, <1>6, <2>3 DEF StartWork
<1>7. CASE ReadIsLast(w)
  <2> DEFINE j == [job[w] EXCEPT !.pc = "fail", !.last = x.active <= 1]
  <2>1. (x.active <= 1) \in BOOLEAN OBVIOUS
  <2>2. j \in Job /\ j.pc = "fail" BY <1>0, <2>1 DEF Job
  <2>3. job' = [job EXCEPT ![w] = j] BY <1>7 DEF ReadIsLast
  <2>4. JobMove(w) BY <1>3, <1>7, <2>2, <2>3 DEF ReadIsLast
  <2> QED BY <1>0, <1>2, <1>7, <2>4 DEF ReadIsLast, logVars
<1>8. CASE Beat(w)
  <2>1. job[w].pc = "run" /\ job' = job BY <1>8 DEF Beat
  <2>2. JobMove(w) BY <1>0, <2>1 DEF JobMove, Types
  <2> QED BY <1>0, <1>2, <1>8, <2>2 DEF Beat
<1>9. CASE AddWorktree(w) \/ AgentFails(w) \/ Commit(w) \/ Split(w)
  <2>1. job[w].pc # "off" /\ UNCHANGED tk
    BY <1>9 DEF AddWorktree, AgentFails, Commit, Split, logVars
  <2>2. \E l \in {"start", "failing", "propose", "split", "nosplit"} : Goto(w, l)
    BY <1>9 DEF AddWorktree, AgentFails, Commit, Split
  <2>3. JobMove(w) BY <1>4, <2>1, <2>2
  <2> QED BY <1>0, <1>2, <2>1, <2>3
<1> QED BY <1>5, <1>6, <1>7, <1>8, <1>9

\* The steps that end an attempt, and a child it makes.
LEMMA AttemptEnds ==
  ASSUME Types, NEW w \in Attempt,
         \/ Propose(w) \/ Invalidate(w) \/ FailDecompose(w) \/ CreateChild(w) \/ Decompose(w)
         \/ Exit(w) \/ EmitFails(w) \/ \E r \in Reasons : FailAttempt(w, r)
  PROVE  JobStep(w)
<1> DEFINE t == TicketOf(w)
           x == tk[TicketOf(w)]
<1>r. "other" \in Reasons \cup {"other"} /\ Reasons \subseteq Reasons \cup {"other", NoReason}
      /\ Reasons \subseteq Reasons \cup {"other"}
  OBVIOUS
<1>0. /\ t \in Ticket /\ x \in Rec /\ job[w].branch \in Nat
      /\ Plain(x, x) /\ Plain(x, TicketDecomposed(x)) /\ Plain(x, TicketInvalidated(x, "other"))
      /\ Plain(x, TicketFailed(x, Worker, "other"))
  BY <1>r, Attempts, Given, PlainEvents
<1>1. UNCHANGED <<snap, opt, spared, pc, todo, hands>>
  BY DEF Propose, Invalidate, FailDecompose, CreateChild, Decompose, Exit, EmitFails,
         FailAttempt, logVars, passVars, histVars
<1>2. ASSUME NEW y, Plain(x, y), UNCHANGED tk \/ EmitTicket(t, y), JobMove(w),
             Charged(t) \/ UNCHANGED gl
      PROVE  JobStep(w)
  BY <1>0, <1>1, <1>2, JobPlain
<1>3. ASSUME EndJob(w), job[w].pc # "off" PROVE JobMove(w) /\ job'[w].pc \in {"off", "exit"}
  BY <1>3, IsOver
<1>4. CASE Propose(w)
  <2> DEFINE y == ProposalSubmitted(x, job[w].branch)
  <2>1. y \in Rec /\ (y.status = "merged" => x.status = "merged")
    BY <1>0, LandingEvents
  <2>2. JobMove(w) /\ job'[w].pc \in {"off", "exit"} BY <1>3, <1>4 DEF Propose
  <2>3. gl' \in [Goal -> GoalRecord] /\ \A g \in Goal : gl'[g].cancelled = gl[g].cancelled
    BY <1>0, <1>4, Charges DEF Propose
  <2>4. OnlyTicket(t) /\ tk'[t] = y BY <1>0, <1>4, <2>1, Emitted DEF Propose
  <2>5. ASSUME NEW u \in Ticket
        PROVE  /\ tk'[u].status = "merged" => tk[u].status = "merged"
               /\ tk'[u] # tk[u] => u = t \/ tk[u].status = "none"
               /\ tk'[u].status \in Held => tk[u].status \in Held \/ u = t
    BY <2>1, <2>4 DEF OnlyTicket
  <2>6. tk' \in [Ticket -> Rec] BY <2>4 DEF OnlyTicket
  <2> QED BY <1>1, <2>2, <2>3, <2>5, <2>6 DEF JobStep, JobMove
<1>5. CASE Invalidate(w)
  <2>1. JobMove(w) BY <1>3, <1>5 DEF Invalidate
  <2> QED BY <1>0, <1>2, <1>5, <2>1 DEF Invalidate
<1>6. CASE FailDecompose(w)
  <2>1. JobMove(w) BY <1>3, <1>6 DEF FailDecompose
  <2> QED BY <1>0, <1>2, <1>6, <2>1 DEF FailDecompose
<1>7. CASE Decompose(w)
  <2>1. JobMove(w) BY <1>3, <1>7 DEF Decompose
  <2> QED BY <1>0, <1>2, <1>7, <2>1 DEF Decompose
<1>8. CASE CreateChild(w)
  <2>1. job[w].pc = "split" /\ job' = job /\ UNCHANGED gl BY <1>8 DEF CreateChild
  <2>2. JobMove(w) BY <2>1 DEF JobMove, Types
  <2>3. PICK u \in Unborn(w) : EmitCreated(u) BY <1>8 DEF CreateChild
  <2>4. u \in Ticket /\ tk[u].status = "none"
    BY <1>0, <2>3, GraphAssumption DEF Unborn, Created
  <2>5. tk[u] \in Rec BY <2>4, Given
  <2>6. Plain(tk[u], TicketCreated(tk[u], Cardinality(Created(tk)) + 1))
    BY <1>r, <2>5, Place, PlainEvents
  <2> QED BY <1>1, <2>1, <2>2, <2>3, <2>4, <2>6, JobPlain DEF EmitCreated
<1>9. CASE Exit(w)
  <2>1. job[w].pc = "exit" /\ job' = [job EXCEPT ![w] = NoJob] /\ UNCHANGED <<tk, gl>>
    BY <1>9 DEF Exit, logVars
  <2>2. NoJob \in Job BY DEF NoJob, Job
  <2>3. JobMove(w) BY <2>1, <2>2 DEF JobMove, Types
  <2> QED BY <1>0, <1>2, <2>1, <2>3
<1>10. CASE EmitFails(w)
  <2>1. job[w].pc # "off" /\ EndJob(w) /\ UNCHANGED <<tk, gl>>
    BY <1>10 DEF EmitFails, logVars
  <2>2. JobMove(w) BY <1>3, <2>1
  <2> QED BY <1>0, <1>2, <2>1, <2>2
<1>11. ASSUME NEW r \in Reasons, FailAttempt(w, r) PROVE JobStep(w)
  <2>1. job[w].pc # "off" /\ EndJob(w) BY <1>11 DEF FailAttempt
  <2>2. JobMove(w) BY <1>3, <2>1
  <2>3. Charged(t) \/ UNCHANGED gl BY <1>11 DEF FailAttempt
  <2>4. EmitTicket(t, TicketFailed(x, Worker, r)) \/ EmitTicket(t, WorkerRestarted(x, Worker, r))
    BY <1>11 DEF FailAttempt
  <2>5. Plain(x, TicketFailed(x, Worker, r)) /\ Plain(x, WorkerRestarted(x, Worker, r))
    BY <1>0, <1>r, Given
  <2> QED BY <1>2, <2>2, <2>3, <2>4, <2>5
<1> QED BY <1>4, <1>5, <1>6, <1>7, <1>8, <1>9, <1>10, <1>11

\* Somebody submits, cancels, approves or denies, time passes, or a budget
\* trips: what is proposed stays as it is, and a cancel spares the queue's hands.
FrontStep ==
  /\ UNCHANGED <<snap, opt, pc, todo, hands, job>>
  /\ gl' \in [Goal -> GoalRecord] /\ tk' \in [Ticket -> Rec]
  /\ \A t \in Ticket :
       tk'[t] = tk[t] \/ (tk[t].status # "proposed" /\ Plain(tk[t], tk'[t]))
  /\ spared \subseteq spared'
  /\ \A g \in Goal : gl'[g].cancelled =>
       gl[g].cancelled \/ {t \in hands : GoalOf[t] = g} \subseteq spared'

\* A plain event of a ticket that is not proposed.
LEMMA Tables ==
  ASSUME Types, NEW t \in Ticket, NEW y, tk' = [tk EXCEPT ![t] = y],
         tk[t].status # "proposed", Plain(tk[t], y)
  PROVE  /\ tk' \in [Ticket -> Rec]
         /\ \A u \in Ticket :
              tk'[u] = tk[u] \/ (tk[u].status # "proposed" /\ Plain(tk[u], tk'[u]))
BY DEF Types, Plain

\* An event of a goal: only GoalCancelled cancels.
LEMMA GoalTables ==
  ASSUME Types, NEW g \in Goal, NEW y, EmitGoal(g, y),
         y = GoalSubmitted(gl[g]) \/ y = GoalBudgetExceeded(gl[g]) \/ y = GoalCancelled(gl[g])
  PROVE  /\ gl' \in [Goal -> GoalRecord]
         /\ \A h \in Goal : gl'[h].cancelled =>
              gl[h].cancelled \/ (h = g /\ y = GoalCancelled(gl[g]))
<1>1. gl[g] \in GoalRecord BY DEF Types
<1>2. y \in GoalRecord /\ (y.cancelled => gl[g].cancelled \/ y = GoalCancelled(gl[g]))
  BY <1>1 DEF GoalRecord, GoalSubmitted, GoalBudgetExceeded, GoalCancelled
<1> QED BY <1>2 DEF EmitGoal, Types

\* The people, the clock and the budget do no more than that.
LEMMA FrontWork ==
  ASSUME Types,
         \/ \E g \in Goal : Submit(g) \/ Cancel(g) \/ TripBudget(g)
         \/ \E t \in Ticket : Approve(t) \/ Deny(t) \/ Elapse(t)
  PROVE  FrontStep
<1>1. ASSUME NEW g \in Goal, Submit(g) \/ Cancel(g) \/ TripBudget(g) PROVE FrontStep
  <2> DEFINE S == {t \in hands : GoalOf[t] = g}
  <2>1. UNCHANGED <<tk, snap, opt, pc, todo, hands, job>>
    BY <1>1 DEF Submit, Cancel, TripBudget, passVars
  <2>2. PICK y : /\ EmitGoal(g, y)
                 /\ \/ y = GoalSubmitted(gl[g]) \/ y = GoalBudgetExceeded(gl[g])
                    \/ y = GoalCancelled(gl[g])
                 /\ \/ spared' = spared /\ (Submit(g) \/ TripBudget(g))
                    \/ spared' = spared \cup S
    BY <1>1 DEF Submit, Cancel, TripBudget, histVars
  <2>3. /\ gl' \in [Goal -> GoalRecord]
        /\ \A h \in Goal : gl'[h].cancelled =>
              gl[h].cancelled \/ (h = g /\ y = GoalCancelled(gl[g]))
    BY <2>2, GoalTables
  <2>4. ASSUME NEW h \in Goal, gl'[h].cancelled, ~gl[h].cancelled
        PROVE  {t \in hands : GoalOf[t] = h} \subseteq spared'
    <3>1. h = g BY <2>3, <2>4
    <3>2. gl'[g] = gl[g] \/ ~(Submit(g) \/ TripBudget(g))
          \/ gl'[g] = GoalSubmitted(gl[g]) \/ gl'[g] = GoalBudgetExceeded(gl[g])
      BY DEF Submit, TripBudget, EmitGoal, Types
    <3>3. gl[g] \in GoalRecord BY DEF Types
    <3>4. ~(Submit(g) \/ TripBudget(g))
      BY <2>4, <3>1, <3>2, <3>3 DEF GoalSubmitted, GoalBudgetExceeded, GoalRecord
    <3> QED BY <2>2, <3>1, <3>4
  <2>5. tk' \in [Ticket -> Rec] BY <2>1 DEF Types
  <2> QED BY <2>1, <2>2, <2>3, <2>4, <2>5 DEF FrontStep
<1>2. ASSUME NEW t \in Ticket, Approve(t) \/ Deny(t) \/ Elapse(t) PROVE FrontStep
  <2>1. UNCHANGED <<gl, spared, snap, opt, pc, todo, hands, job>>
    BY <1>2 DEF Approve, Deny, Elapse, passVars, histVars
  <2>2. tk[t] \in Rec /\ "other" \in Reasons \cup {"other"} BY Given
  <2>3. /\ Plain(tk[t], ApprovalGranted(tk[t])) /\ Plain(tk[t], ApprovalDenied(tk[t]))
        /\ Plain(tk[t], [tk[t] EXCEPT !.quiet = TRUE])
    BY <2>2, PlainEvents
  <2>4. \E y : tk' = [tk EXCEPT ![t] = y] /\ tk[t].status # "proposed" /\ Plain(tk[t], y)
    <3>1. CASE Approve(t) BY <2>3, <3>1 DEF Approve, EmitTicket
    <3>2. CASE Deny(t) BY <2>3, <3>2 DEF Deny, EmitTicket
    <3>3. CASE Elapse(t) BY <2>3, <3>3 DEF Elapse
    <3> QED BY <1>2, <3>1, <3>2, <3>3
  <2>5. /\ tk' \in [Ticket -> Rec]
        /\ \A u \in Ticket :
             tk'[u] = tk[u] \/ (tk[u].status # "proposed" /\ Plain(tk[u], tk'[u]))
    BY <2>4, Tables
  <2> QED BY <2>1, <2>5 DEF FrontStep, Types
<1> QED BY <1>1, <1>2

\* The pass moves on, ends or dies, and appends nothing: the queue is handed at
\* most proposals of goals that the log does not call cancelled.
MoveStep ==
  /\ UNCHANGED <<tk, gl, opt>>
  /\ job' \in [Attempt -> Job]
  /\ DOMAIN snap' = {"tk", "gl", "grew"} /\ snap'.tk \in [Ticket -> Rec]
  /\ \A t \in hands' : (t \in hands /\ spared' = spared) \/ ~gl[GoalOf[t]].cancelled

\* A state that is not kept is typed.
LEMMA NoSnapTyped == DOMAIN NoSnap = {"tk", "gl", "grew"} /\ NoSnap.tk \in [Ticket -> Rec]
<1>1. NoTicket \in Rec
  BY DEF NoTicket, Rec, TicketRecord, Status, Early, Terminal, NoReason, Nobody
<1> QED BY <1>1 DEF NoSnap

\* The steps of the pass itself do no more than that.
LEMMA Moves ==
  ASSUME Types,
         \/ Start \/ BeginPass \/ Advance \/ Launch \/ TakeBatch \/ EndPass \/ Join
         \/ SchedulerFails \/ Crash \/ \E t \in Ticket : DecisionLost(t)
  PROVE  MoveStep
<1>1. CASE Start \/ BeginPass \/ Join
  BY <1>1 DEF Start, BeginPass, Join, MoveStep, Types, logVars, histVars
<1>2. CASE Advance
  <2>1. UNCHANGED <<tk, gl, opt, job, hands, spared>>
    BY <1>2 DEF Advance, logVars, histVars
  <2>2. PICK p \in {NextPhase} : Load(p) BY <1>2 DEF Advance
  <2>3. snap' = NoSnap \/ snap' = [tk |-> tk, gl |-> gl, grew |-> grew]
    BY <2>2 DEF Load
  <2>4. DOMAIN snap' = {"tk", "gl", "grew"} /\ snap'.tk \in [Ticket -> Rec]
    BY <2>3, NoSnapTyped DEF Types
  <2> QED BY <2>1, <2>4 DEF MoveStep, Types
<1>3. CASE Launch
  <2>1. /\ UNCHANGED <<tk, gl, opt, spared>> /\ snap' = NoSnap
        /\ hands' \in {{}, hands}
    BY <1>3 DEF Launch, ReturnFromRun, logVars, histVars
  <2>2. PICK L \in SUBSET Dispatchable :
          job' = [w \in Attempt |->
                    IF TicketOf(w) \in L /\ w = FreeSlot(TicketOf(w))
                    THEN [NoJob EXCEPT !.pc = "claim", !.number = snap.tk[TicketOf(w)].attempts + 1]
                    ELSE job[w]]
    BY <1>3 DEF Launch
  <2>3. ASSUME NEW w \in Attempt
        PROVE  [NoJob EXCEPT !.pc = "claim", !.number = snap.tk[TicketOf(w)].attempts + 1] \in Job
    <3>1. snap.tk[TicketOf(w)] \in Rec BY DEF Types, TicketOf, Attempt
    <3>2. snap.tk[TicketOf(w)].attempts + 1 \in Nat BY <3>1, Numbers
    <3> QED BY <3>2 DEF Job, NoJob
  <2>4. job' \in [Attempt -> Job] BY <2>2, <2>3 DEF Types
  <2> QED BY <2>1, <2>4, NoSnapTyped DEF MoveStep
<1>4. CASE TakeBatch
  BY <1>4 DEF TakeBatch, DropCancelled, MoveStep, Types, logVars, histVars
<1>5. CASE EndPass
  <2>1. /\ UNCHANGED <<tk, gl, opt, spared, job>> /\ snap' = NoSnap
        /\ hands' \in {{}, hands}
    BY <1>5 DEF EndPass, ReturnFromRun, logVars, histVars
  <2> QED BY <2>1, NoSnapTyped DEF MoveStep, Types
<1>6. CASE SchedulerFails \/ \E t \in Ticket : DecisionLost(t)
  <2>1. UNCHANGED <<tk, gl, opt, job>> /\ snap' = NoSnap /\ hands' = {}
    BY <1>6 DEF SchedulerFails, DecisionLost, ReturnFromRun, logVars
  <2> QED BY <2>1, NoSnapTyped DEF MoveStep, Types
<1>7. CASE Crash
  <2>1. /\ UNCHANGED <<tk, gl, opt>> /\ snap' = NoSnap /\ hands' = {}
        /\ job' = [w \in Attempt |-> NoJob]
    BY <1>7 DEF Crash, logVars
  <2>2. NoJob \in Job BY DEF NoJob, Job
  <2> QED BY <2>1, <2>2, NoSnapTyped DEF MoveStep
<1> QED BY <1>1, <1>2, <1>3, <1>4, <1>5, <1>6, <1>7

\* Every step is one of these.
LEMMA Steps ==
  ASSUME Types, Next
  PROVE  \/ MoveStep \/ FrontStep
         \/ \E t \in Ticket : PassStep(t)
         \/ \E w \in Attempt : JobStep(w)
<1>1. CASE \/ Start \/ BeginPass \/ Advance \/ Launch \/ TakeBatch \/ EndPass \/ Join
           \/ SchedulerFails \/ Crash \/ \E t \in Ticket : DecisionLost(t)
  BY <1>1, Moves
<1>2. CASE \/ \E g \in Goal : Submit(g) \/ Cancel(g) \/ TripBudget(g)
           \/ \E t \in Ticket : Approve(t) \/ Deny(t) \/ Elapse(t)
  BY <1>2, FrontWork
<1>3. ASSUME NEW t \in Ticket,
             \/ CreateTicket(t) \/ EnforceCancellation(t) \/ EnforceBudget(t) \/ Promote(t)
             \/ FailBlocked(t) \/ RestartStalled(t)
      PROVE  PassStep(t)
  BY <1>3, PassWork
<1>4. ASSUME NEW t \in Ticket,
             \/ TakeProposal(t) \/ DropFromBatch(t) \/ Merge(t) \/ Park(t)
             \/ \E r \in Reasons : Reject(t, r)
      PROVE  PassStep(t)
  BY <1>4, QueueWork
<1>5. ASSUME NEW w \in Attempt, Dispatch(w) \/ Beat(w) \/ EmitFails(w)
      PROVE  JobStep(w)
  BY <1>5, AttemptGoesOn, AttemptEnds DEF Dispatch
<1> QED BY <1>1, <1>2, <1>3, <1>4, <1>5 DEF Next, Reconcile, FrontDoor

-----------------------------------------------------------------------------
(* A cancel holds *)

\* What the queue holds of a cancelled goal, it held when the goal was cancelled.
CancelInv == \A t \in hands \cap Ticket : gl[GoalOf[t]].cancelled => t \in spared

\* A step may land a ticket only from the queue's hands.
CancelStep ==
  \A t \in Ticket :
    gl[GoalOf[t]].cancelled /\ t \notin spared /\ tk[t].status # "merged"
      => tk'[t].status # "merged"

\* The types are kept by every step.
LEMMA TypesStep ==
  ASSUME Types, Next PROVE Types'
<1>1. CASE MoveStep BY <1>1 DEF MoveStep, Types
<1>2. CASE FrontStep BY <1>2 DEF FrontStep, Types
<1>3. CASE \E t \in Ticket : PassStep(t) BY <1>3 DEF PassStep, OnlyTicket, Types
<1>4. CASE \E w \in Attempt : JobStep(w) BY <1>4 DEF JobStep, Types
<1> QED BY <1>1, <1>2, <1>3, <1>4, Steps

\* They hold to begin with.
LEMMA TypesInit == Init => Types
<1>1. NoTicket \in Rec
  BY DEF NoTicket, Rec, TicketRecord, Status, Early, Terminal, NoReason, Nobody
<1>2. NoGoal \in GoalRecord BY DEF NoGoal, GoalRecord
<1>3. NoJob \in Job BY DEF NoJob, Job
<1> QED BY <1>1, <1>2, <1>3, NoSnapTyped DEF Init, Types

\* So is what the queue was spared, and only the queue lands anything.
LEMMA CancelsKept ==
  ASSUME Types, CancelInv, Next
  PROVE  CancelInv' /\ CancelStep
<1>0. \A t \in Ticket : GoalOf[t] \in Goal BY GraphAssumption
<1>1. CASE MoveStep
  <2>1. tk' = tk /\ gl' = gl BY <1>1 DEF MoveStep
  <2>2. \A t \in hands' : (t \in hands /\ spared' = spared) \/ ~gl[GoalOf[t]].cancelled
    BY <1>1 DEF MoveStep
  <2> QED BY <2>1, <2>2 DEF CancelInv, CancelStep
<1>2. CASE FrontStep
  <2>1. ASSUME NEW t \in hands' \cap Ticket, gl'[GoalOf[t]].cancelled PROVE t \in spared'
    <3>1. t \in hands \cap Ticket /\ spared \subseteq spared' BY <1>2, <2>1 DEF FrontStep
    <3>2. gl[GoalOf[t]].cancelled \/ {u \in hands : GoalOf[u] = GoalOf[t]} \subseteq spared'
      BY <1>0, <1>2, <2>1 DEF FrontStep
    <3> QED BY <3>1, <3>2 DEF CancelInv
  <2>2. \A t \in Ticket : tk'[t].status = "merged" => tk[t].status = "merged"
    BY <1>2 DEF FrontStep, Plain
  <2> QED BY <2>1, <2>2 DEF CancelInv, CancelStep
<1>3. ASSUME NEW t \in Ticket, PassStep(t) PROVE CancelInv' /\ CancelStep
  <2>1. UNCHANGED <<gl, spared>> BY <1>3 DEF PassStep
  <2>2. hands' \subseteq hands \/ (hands' = {t} /\ ~gl[GoalOf[t]].cancelled)
    BY <1>3 DEF PassStep
  <2>3. ASSUME NEW u \in Ticket, tk'[u].status = "merged"
        PROVE  tk[u].status = "merged" \/ u \in hands
    BY <1>3, <2>3 DEF PassStep, OnlyTicket
  <2> QED BY <2>1, <2>2, <2>3 DEF CancelInv, CancelStep
<1>4. ASSUME NEW w \in Attempt, JobStep(w) PROVE CancelInv' /\ CancelStep
  <2>1. UNCHANGED <<hands, spared>> /\ \A g \in Goal : gl'[g].cancelled = gl[g].cancelled
    BY <1>4 DEF JobStep
  <2>2. \A t \in Ticket : tk'[t].status = "merged" => tk[t].status = "merged"
    BY <1>4 DEF JobStep
  <2> QED BY <1>0, <2>1, <2>2 DEF CancelInv, CancelStep
<1> QED BY <1>1, <1>2, <1>3, <1>4, Steps

\* A cancel stops everything that is not in the queue's hands at that moment
\* (dropCancelled reads the log again before the queue takes a proposal).
THEOREM CancelsHold == Spec => CancelHonored
<1> DEFINE Inv == Types /\ CancelInv
<1>1. Init => Inv BY TypesInit DEF Init, CancelInv
<1>2. Inv /\ [Next]_vars => Inv' /\ [CancelStep]_vars
  <2> SUFFICES ASSUME Inv, [Next]_vars PROVE Inv' /\ [CancelStep]_vars OBVIOUS
  <2>1. CASE Next BY <2>1, TypesStep, CancelsKept
  <2>2. CASE UNCHANGED vars
    BY <2>2 DEF vars, logVars, passVars, histVars, Types, CancelInv
  <2> QED BY <2>1, <2>2
<1>3. [CancelStep]_vars <=>
        [\A t \in Ticket :
           gl[GoalOf[t]].cancelled /\ t \notin spared /\ tk[t].status # "merged"
             => tk'[t].status # "merged"]_vars
  BY DEF CancelStep
<1> QED BY <1>1, <1>2, <1>3, PTL DEF Spec, CancelHonored

-----------------------------------------------------------------------------
(* The log does not move under the queue *)

\* What the queue has before it is proposed as the pass read it.
QueueOK ==
  /\ hands \subseteq todo
  /\ pc \notin {"drain", "outcomes"} => hands = {}
  /\ pc \in QueuePhases =>
       \A t \in todo :
         t \in Ticket /\ tk[t].status = "proposed" /\ tk[t].branch = snap.tk[t].branch

IsLive(w) == job[w].pc # "off"

\* A ticket has one attempt at a time, and none while it is proposed or parked;
\* and what a pass found ready it may count on, unless an attempt is at it.
JobsOK ==
  /\ \A w \in Attempt : job[w].pc # "exit"
  /\ \A w \in Attempt : IsLive(w) => tk[TicketOf(w)].status \notin Held
  /\ \A v, w \in Attempt : IsLive(v) /\ IsLive(w) /\ TicketOf(v) = TicketOf(w) => v = w
  /\ pc = "count" =>
       \A t \in Ticket :
         /\ snap.tk[t].status \in {"ready", "claimed", "running"}
         /\ \A w \in Attempt : IsLive(w) => TicketOf(w) # t
         => tk[t].status \notin Held

\* Both hold to begin with.
LEMMA HoldInit == Init => QueueOK /\ JobsOK
<1>1. \A w \in Attempt : Init => job[w].pc = "off" BY DEF Init, NoJob
<1> QED BY <1>1 DEF Init, QueueOK, JobsOK, IsLive, QueuePhases

\* A step of an attempt moves nothing under the queue: the attempt's own ticket
\* is not with the queue, and nor is a ticket that is not there.
LEMMA HoldJob ==
  ASSUME Types, PromptWorkers, QueueOK, JobsOK, NEW w \in Attempt, JobStep(w)
  PROVE  QueueOK' /\ JobsOK'
<1>1. /\ UNCHANGED <<snap, pc, todo, hands>> /\ IsLive(w) /\ job[w].pc # "exit"
      /\ job'[w].pc # "exit" /\ (job'[w].pc = "off" => pc \notin {"count", "check"})
  BY DEF JobStep, JobsOK, IsLive
<1>2. \A v \in Attempt : v # w => job'[v] = job[v] BY DEF JobStep
<1>3. TicketOf(w) \in Ticket /\ \A v \in Attempt : TicketOf(v) \in Ticket
  BY DEF TicketOf, Attempt
<1>4. tk[TicketOf(w)].status \notin Held BY <1>1 DEF JobsOK
<1>5. \A t \in Ticket : tk[t].status = "proposed" => tk'[t] = tk[t]
  BY <1>4 DEF JobStep, Held
<1>6. \A t \in Ticket : tk'[t].status \in Held =>
        tk[t].status \in Held \/ (t = TicketOf(w) /\ job'[w].pc = "off")
  BY <1>1 DEF JobStep
<1>7. QueueOK' BY <1>1, <1>5 DEF QueueOK
<1>8. \A v \in Attempt : job'[v].pc # "exit" BY <1>1, <1>2 DEF JobsOK
<1>9. \A v \in Attempt : job'[v].pc # "off" => IsLive(v) BY <1>1, <1>2 DEF IsLive
<1>10. ASSUME NEW v \in Attempt, job'[v].pc # "off" PROVE tk'[TicketOf(v)].status \notin Held
  <2>1. IsLive(v) /\ tk[TicketOf(v)].status \notin Held BY <1>9, <1>10 DEF JobsOK
  <2>2. TicketOf(v) = TicketOf(w) => v = w BY <1>1, <2>1 DEF JobsOK
  <2> QED BY <1>3, <1>6, <1>10, <2>1, <2>2
<1>11. ASSUME NEW u \in Attempt, NEW v \in Attempt, job'[u].pc # "off", job'[v].pc # "off",
              TicketOf(u) = TicketOf(v)
       PROVE  u = v
  BY <1>9, <1>11 DEF JobsOK
<1>12. ASSUME pc' = "count", NEW t \in Ticket,
              snap'.tk[t].status \in {"ready", "claimed", "running"},
              \A v \in Attempt : job'[v].pc # "off" => TicketOf(v) # t
       PROVE  tk'[t].status \notin Held
  <2>1. pc = "count" /\ job'[w].pc # "off" /\ snap' = snap BY <1>1, <1>12
  <2>2. \A v \in Attempt : IsLive(v) => job'[v].pc # "off" BY <1>2, <2>1 DEF IsLive
  <2>3. tk[t].status \notin Held BY <1>12, <2>1, <2>2 DEF JobsOK
  <2> QED BY <1>6, <2>1, <2>3
<1>13. JobsOK' BY <1>8, <1>10, <1>11, <1>12 DEF JobsOK, IsLive
<1> QED BY <1>7, <1>13

\* Nobody at a front door touches what is proposed, or proposes anything.
LEMMA HoldFront ==
  ASSUME QueueOK, JobsOK, FrontStep PROVE QueueOK' /\ JobsOK'
<1>1. UNCHANGED <<snap, pc, todo, hands, job>> BY DEF FrontStep
<1>2. \A t \in Ticket : /\ tk[t].status = "proposed" => tk'[t] = tk[t]
                        /\ tk'[t].status \in Held => tk[t].status \in Held
  BY DEF FrontStep, Plain
<1>3. \A w \in Attempt : TicketOf(w) \in Ticket BY DEF TicketOf, Attempt
<1>4. QueueOK' BY <1>1, <1>2 DEF QueueOK
<1>5. JobsOK' BY <1>1, <1>2, <1>3 DEF JobsOK, IsLive
<1> QED BY <1>4, <1>5

\* The pass deals with its tickets one by one.
LEMMA HoldPass ==
  ASSUME QueueOK, JobsOK, NEW t \in Ticket, PassStep(t) PROVE QueueOK' /\ JobsOK'
<1>1. UNCHANGED <<snap, pc, job>> BY DEF PassStep
<1>2. \A u \in Ticket : tk'[u].status \in Held => tk[u].status \in Held
  BY DEF PassStep, OnlyTicket
<1>3. \A w \in Attempt : TicketOf(w) \in Ticket BY DEF TicketOf, Attempt
<1>4. JobsOK' BY <1>1, <1>2, <1>3 DEF JobsOK, IsLive
<1>5. QueueOK'
  <2>1. CASE /\ todo' = todo \ {t} /\ hands' \subseteq hands
             /\ pc \in QueuePhases => t \notin hands'
    <3>1. \A u \in Ticket : u # t => tk'[u] = tk[u] BY DEF PassStep, OnlyTicket
    <3> QED BY <1>1, <2>1, <3>1 DEF QueueOK, QueuePhases
  <2>2. CASE /\ todo' = todo /\ tk' = tk /\ pc = "drain" /\ t \in todo /\ hands' = {t}
    BY <1>1, <2>2 DEF QueueOK, QueuePhases
  <2> QED BY <2>1, <2>2 DEF PassStep
<1> QED BY <1>4, <1>5

\* A ticket with nothing in flight has no live attempt.
LEMMA NoneInFlight ==
  ASSUME NEW t \in Ticket, InFlight(t) < 1
  PROVE  \A w \in Attempt : TicketOf(w) = t => ~IsLive(w)
<1> DEFINE S == {w \in Live : TicketOf(w) = t}
<1>1. IsFiniteSet(Ticket) BY GraphAssumption, FS_Interval DEF Ticket
<1>2. IsFiniteSet(1..Slots) BY OptionsAssumption, FS_Interval
<1>3. IsFiniteSet(Attempt) BY <1>1, <1>2, FS_Product DEF Attempt
<1>4. S \subseteq Attempt BY DEF Live
<1>5. IsFiniteSet(S) BY <1>3, <1>4, FS_Subset
<1>6. Cardinality(S) \in Nat BY <1>5, FS_CardinalityType
<1>7. Cardinality(S) = 0 BY <1>6 DEF InFlight
<1>8. S = {} BY <1>5, <1>7, FS_EmptySet
<1> QED BY <1>8 DEF Live, IsLive

\* A launch starts one attempt at tickets that have none and are not held.
LEMMA HoldLaunch ==
  ASSUME Types, OneByOne, QueueOK, JobsOK, Launch PROVE QueueOK' /\ JobsOK'
<1>1. /\ pc = "count" /\ pc' \in {"join", "launch"} /\ tk' = tk
      /\ \/ hands' = {} /\ todo' = {}
         \/ hands' = hands /\ todo' = todo
  BY DEF Launch, ReturnFromRun, logVars
<1>2. hands = {} BY <1>1 DEF QueueOK
<1>3. QueueOK' BY <1>1, <1>2 DEF QueueOK, QueuePhases
<1>4. PICK L \in SUBSET Dispatchable :
        job' = [w \in Attempt |->
                  IF TicketOf(w) \in L /\ w = FreeSlot(TicketOf(w))
                  THEN [NoJob EXCEPT !.pc = "claim", !.number = snap.tk[TicketOf(w)].attempts + 1]
                  ELSE job[w]]
  BY DEF Launch
<1>5. ASSUME NEW t \in L
      PROVE  /\ t \in Ticket
             /\ \A w \in Attempt : TicketOf(w) = t => ~IsLive(w)
             /\ tk[t].status \notin Held
  <2>1. /\ t \in Ticket /\ InFlight(t) < 1
        /\ snap.tk[t].status \in {"ready", "claimed", "running"}
    BY DEF Dispatchable, ReadyTickets, OneByOne
  <2>2. \A w \in Attempt : TicketOf(w) = t => ~IsLive(w) BY <2>1, NoneInFlight
  <2> QED BY <1>1, <2>1, <2>2 DEF JobsOK
<1>6. ASSUME NEW w \in Attempt
      PROVE  \/ job'[w] = job[w]
             \/ job'[w].pc = "claim" /\ TicketOf(w) \in L /\ w = FreeSlot(TicketOf(w))
  BY <1>4 DEF NoJob
<1>7. \A w \in Attempt : job'[w].pc # "exit" BY <1>6 DEF JobsOK
<1>8. \A w \in Attempt : job'[w].pc # "off" => tk'[TicketOf(w)].status \notin Held
  BY <1>1, <1>5, <1>6 DEF JobsOK, IsLive
<1>9. ASSUME NEW v \in Attempt, NEW w \in Attempt, job'[v].pc # "off", job'[w].pc # "off",
             TicketOf(v) = TicketOf(w)
      PROVE  v = w
  <2>1. CASE TicketOf(v) \in L
    <3>1. ~IsLive(v) /\ ~IsLive(w) BY <1>5, <1>9, <2>1
    <3>2. v = FreeSlot(TicketOf(v)) /\ w = FreeSlot(TicketOf(w)) BY <1>6, <1>9, <3>1 DEF IsLive
    <3> QED BY <1>9, <3>2
  <2>2. CASE TicketOf(v) \notin L
    <3>1. IsLive(v) /\ IsLive(w) BY <1>6, <1>9, <2>2 DEF IsLive
    <3> QED BY <1>9, <3>1 DEF JobsOK
  <2> QED BY <2>1, <2>2
<1>10. JobsOK' BY <1>1, <1>7, <1>8, <1>9 DEF JobsOK, IsLive
<1> QED BY <1>3, <1>10

\* The pass moves on.
LEMMA HoldMoves ==
  ASSUME Types, QueueOK, JobsOK,
         \/ Start \/ BeginPass \/ Advance \/ TakeBatch \/ EndPass \/ Join
         \/ SchedulerFails \/ Crash \/ \E t \in Ticket : DecisionLost(t)
  PROVE  QueueOK' /\ JobsOK'
<1>j. ASSUME tk' = tk, job' = job, pc' # "count" PROVE JobsOK'
  BY <1>j DEF JobsOK, IsLive
<1>1. CASE Start \/ BeginPass \/ Join
  <2>1. /\ UNCHANGED <<tk, job, todo, hands>> /\ pc \notin {"drain", "outcomes"}
        /\ pc' \in {"pass", "begin", "down"}
    BY <1>1 DEF Start, BeginPass, Join, logVars
  <2>2. QueueOK' BY <2>1 DEF QueueOK, QueuePhases
  <2>3. JobsOK' BY <1>j, <2>1
  <2> QED BY <2>2, <2>3
<1>2. CASE Advance
  <2>1. UNCHANGED <<tk, job, hands>> /\ todo = {} BY <1>2 DEF Advance, logVars
  <2>2. PICK p \in {NextPhase} : Load(p) BY <1>2 DEF Advance
  <2>3. hands' = {} BY <2>1 DEF QueueOK
  <2>4. pc' = p /\ todo' = Work(p) BY <2>2 DEF Load
  <2>5. ASSUME p \in QueuePhases, NEW t \in todo'
        PROVE  t \in Ticket /\ tk'[t].status = "proposed" /\ tk'[t].branch = snap'.tk[t].branch
    <3>1. p = "outcomes" => Work(p) = {} BY DEF Work
    <3>2. p \in {"drain", "batch"} => Work(p) = Proposed(tk) BY DEF Work
    <3>3. t \in Proposed(tk) BY <2>4, <2>5, <3>1, <3>2 DEF QueuePhases
    <3>4. snap' = [tk |-> tk, gl |-> gl, grew |-> grew]
      BY <2>2, <2>4, <2>5 DEF Load
    <3> QED BY <2>1, <3>3, <3>4 DEF Proposed
  <2>6. QueueOK' BY <2>3, <2>4, <2>5 DEF QueueOK
  <2>7. ASSUME p = "count", NEW t \in Ticket, snap'.tk[t].status \in {"ready", "claimed", "running"}
        PROVE  tk'[t].status \notin Held
    <3>1. snap' = [tk |-> tk, gl |-> gl, grew |-> grew] BY <2>2, <2>7 DEF Load
    <3> QED BY <2>1, <2>7, <3>1 DEF Held
  <2>8. JobsOK' BY <2>1, <2>4, <2>7 DEF JobsOK, IsLive
  <2> QED BY <2>6, <2>8
<1>3. CASE TakeBatch
  <2>1. /\ UNCHANGED <<tk, job, todo, snap>> /\ pc = "batch" /\ pc' = "outcomes"
        /\ hands' \subseteq todo
    BY <1>3 DEF TakeBatch, logVars
  <2>2. QueueOK' BY <2>1 DEF QueueOK, QueuePhases
  <2>3. JobsOK' BY <1>j, <2>1
  <2> QED BY <2>2, <2>3
<1>4. CASE EndPass \/ SchedulerFails \/ \E t \in Ticket : DecisionLost(t)
  <2>1. /\ UNCHANGED <<tk, job>> /\ pc' \in {"pass", "join"}
        /\ \/ hands' = {} /\ todo' = {}
           \/ hands' = hands /\ todo' = todo /\ pc = "check"
    BY <1>4 DEF EndPass, SchedulerFails, DecisionLost, ReturnFromRun, logVars
  <2>2. QueueOK' BY <2>1 DEF QueueOK, QueuePhases
  <2>3. JobsOK' BY <1>j, <2>1
  <2> QED BY <2>2, <2>3
<1>5. CASE Crash
  <2>1. /\ tk' = tk /\ pc' = "down" /\ hands' = {} /\ job' = [w \in Attempt |-> NoJob]
    BY <1>5 DEF Crash, logVars
  <2>2. \A w \in Attempt : job'[w].pc = "off" BY <2>1 DEF NoJob
  <2>3. QueueOK' BY <2>1 DEF QueueOK, QueuePhases
  <2>4. JobsOK' BY <2>1, <2>2 DEF JobsOK, IsLive
  <2> QED BY <2>3, <2>4
<1> QED BY <1>1, <1>2, <1>3, <1>4, <1>5

\* Every step keeps both.
LEMMA HoldsKept ==
  ASSUME Types, OneByOne, QueueOK, JobsOK, Next PROVE QueueOK' /\ JobsOK'
<1>1. CASE \/ Start \/ BeginPass \/ Advance \/ TakeBatch \/ EndPass \/ Join
           \/ SchedulerFails \/ Crash \/ \E t \in Ticket : DecisionLost(t)
  BY <1>1, HoldMoves
<1>2. CASE Launch BY <1>2, HoldLaunch
<1>3. CASE \/ \E g \in Goal : Submit(g) \/ Cancel(g) \/ TripBudget(g)
           \/ \E t \in Ticket : Approve(t) \/ Deny(t) \/ Elapse(t)
  BY <1>3, FrontWork, HoldFront
<1>4. ASSUME NEW t \in Ticket,
             \/ CreateTicket(t) \/ EnforceCancellation(t) \/ EnforceBudget(t) \/ Promote(t)
             \/ FailBlocked(t) \/ RestartStalled(t)
      PROVE  QueueOK' /\ JobsOK'
  BY <1>4, PassWork, HoldPass
<1>5. ASSUME NEW t \in Ticket,
             \/ TakeProposal(t) \/ DropFromBatch(t) \/ Merge(t) \/ Park(t)
             \/ \E r \in Reasons : Reject(t, r)
      PROVE  QueueOK' /\ JobsOK'
  BY <1>5, QueueWork, HoldPass
<1>6. ASSUME NEW w \in Attempt, Dispatch(w) \/ Beat(w) \/ EmitFails(w)
      PROVE  QueueOK' /\ JobsOK'
  <2>1. JobStep(w) BY <1>6, AttemptGoesOn, AttemptEnds DEF Dispatch
  <2> QED BY <2>1, HoldJob DEF OneByOne
<1> QED BY <1>1, <1>2, <1>3, <1>4, <1>5, <1>6 DEF Next, Reconcile, FrontDoor

\* The settings do not change.
LEMMA SameOptions ==
  ASSUME Types, Next PROVE opt' = opt
<1>1. CASE MoveStep BY <1>1 DEF MoveStep
<1>2. CASE FrontStep BY <1>2 DEF FrontStep
<1>3. CASE \E t \in Ticket : PassStep(t) BY <1>3 DEF PassStep
<1>4. CASE \E w \in Attempt : JobStep(w) BY <1>4 DEF JobStep
<1> QED BY <1>1, <1>2, <1>3, <1>4, Steps

\* While the queue works on a proposal the log does not move under it: the
\* branch it merges is the one the ticket is still proposed with, whatever
\* attempts, people, crashes and failed appends do meanwhile.
THEOREM QueueHolds == Spec => []QueueHoldsProposal
<1> DEFINE Inv == Types /\ (OneByOne => QueueOK /\ JobsOK)
<1>1. Init => Inv BY TypesInit, HoldInit DEF Init
<1>2. Inv /\ [Next]_vars => Inv'
  <2> SUFFICES ASSUME Inv, [Next]_vars PROVE Inv' OBVIOUS
  <2>1. CASE Next
    <3>1. Types' /\ opt' = opt BY <2>1, TypesStep, SameOptions
    <3>2. OneByOne' => OneByOne BY <3>1 DEF OneByOne, PromptWorkers, BestOfN
    <3>3. OneByOne' => QueueOK' /\ JobsOK' BY <2>1, <3>2, HoldsKept
    <3> QED BY <3>1, <3>3
  <2>2. CASE UNCHANGED vars
    BY <2>2 DEF vars, logVars, passVars, histVars, Types, QueueOK, JobsOK, IsLive, OneByOne,
       PromptWorkers, BestOfN
  <2> QED BY <2>1, <2>2
<1>3. Inv => QueueHoldsProposal
  BY DEF QueueHoldsProposal, QueueOK, QueuePhases
<1> QED BY <1>1, <1>2, <1>3, PTL DEF Spec

-----------------------------------------------------------------------------
(* The pool *)

At(t) == {w \in Live : TicketOf(w) = t}

\* Attempts and tickets can be counted.
LEMMA Counted ==
  /\ IsFiniteSet(Ticket) /\ IsFiniteSet(Live) /\ Cardinality(Live) \in Nat
  /\ \A t : IsFiniteSet(At(t)) /\ InFlight(t) = Cardinality(At(t)) /\ InFlight(t) \in Nat
<1>1. IsFiniteSet(Ticket) BY GraphAssumption, FS_Interval DEF Ticket
<1>2. IsFiniteSet(1..Slots) BY OptionsAssumption, FS_Interval
<1>3. IsFiniteSet(Attempt) BY <1>1, <1>2, FS_Product DEF Attempt
<1>4. IsFiniteSet(Live) BY <1>3, FS_Subset DEF Live
<1>5. \A t : IsFiniteSet(At(t)) BY <1>4, FS_Subset DEF At
<1> QED BY <1>1, <1>4, <1>5, FS_CardinalityType DEF At, InFlight

\* The place of a live attempt among those at its ticket.
Rank(w) == Cardinality({v \in At(TicketOf(w)) : v[2] <= w[2]})

\* Ranks count from 1 to the number in flight, and differ.
LEMMA Ranks ==
  ASSUME NEW w \in Live
  PROVE  /\ Rank(w) \in Nat /\ 1 <= Rank(w) /\ Rank(w) <= InFlight(TicketOf(w))
         /\ \A u \in At(TicketOf(w)) : w[2] < u[2] => Rank(w) < Rank(u)
<1> DEFINE t == TicketOf(w)
           B(x) == {v \in At(t) : v[2] <= x[2]}
<1>0. \A v \in Live : v[2] \in Nat /\ v[1] \in Ticket /\ v = <<v[1], v[2]>>
  BY OptionsAssumption DEF Live, Attempt
<1>1. w \in B(w) BY <1>0 DEF At
<1>2. ASSUME NEW u \in At(t)
      PROVE  /\ B(u) \subseteq At(t) /\ IsFiniteSet(B(u)) /\ Rank(u) = Cardinality(B(u))
             /\ Cardinality(B(u)) \in Nat
  <2>1. TicketOf(u) = t BY DEF At
  <2>2. B(u) \in SUBSET At(t) OBVIOUS
  <2>3. IsFiniteSet(B(u)) BY <2>2, Counted, FS_Subset
  <2>4. Rank(u) = Cardinality(B(u)) BY <2>1 DEF Rank
  <2> QED BY <2>2, <2>3, <2>4, FS_CardinalityType
<1>3. w \in At(t) BY DEF At
<1>4. 1 <= Rank(w)
  <2>1. Cardinality(B(w)) # 0 BY <1>1, <1>2, <1>3, FS_EmptySet
  <2> HIDE DEF B
  <2> QED BY <1>2, <1>3, <2>1
<1>5. Rank(w) <= InFlight(t) BY <1>2, <1>3, Counted, FS_Subset
<1>6. ASSUME NEW u \in At(t), w[2] < u[2] PROVE Rank(w) < Rank(u)
  <2>1. u \in Live /\ u \in B(u) /\ u \notin B(w) BY <1>0, <1>3, <1>6 DEF At
  <2>2. B(w) \in SUBSET B(u) BY <1>0, <1>6 DEF At
  <2>3. Cardinality(B(w)) <= Cardinality(B(u)) /\ Cardinality(B(w)) # Cardinality(B(u))
    BY <1>2, <2>1, <2>2, FS_Subset
  <2>4. /\ Rank(w) = Cardinality(B(w)) /\ Rank(u) = Cardinality(B(u))
        /\ Cardinality(B(w)) \in Nat /\ Cardinality(B(u)) \in Nat
    BY <1>2, <1>3, <1>6
  <2> HIDE DEF B
  <2> QED BY <2>3, <2>4
<1> QED BY <1>2, <1>3, <1>4, <1>5, <1>6

\* activeAttempts counts at least the attempts that are live.
LEMMA LiveCounted ==
  ASSUME Types
  PROVE  ActiveAttempts \in Nat /\ Cardinality(Live) <= ActiveAttempts
<1> DEFINE P(t) == {t} \X (1..AttemptsAt(t))
           PP == {P(t) : t \in Ticket}
           f == [w \in Live |-> <<TicketOf(w), Rank(w)>>]
           h == [t \in Ticket |-> P(t)]
<1>1. ASSUME NEW t \in Ticket
      PROVE  AttemptsAt(t) \in Nat /\ InFlight(t) <= AttemptsAt(t)
  <2>1. snap.tk[t] \in Rec BY DEF Types
  <2>2. snap.tk[t].active \in Nat BY <2>1, Numbers
  <2> QED BY <2>2, Counted DEF AttemptsAt
<1>2. IsFiniteSet(UNION PP)
  <2>1. h \in Surjection(Ticket, PP) BY DEF Surjection
  <2>2. IsFiniteSet(PP) BY <2>1, Counted, FS_Surjection
  <2>3. ASSUME NEW t \in Ticket PROVE IsFiniteSet(P(t))
    <3>1. IsFiniteSet({t}) BY FS_Singleton
    <3>2. 1 \in Int /\ AttemptsAt(t) \in Int BY <1>1
    <3>3. IsFiniteSet(1..AttemptsAt(t)) BY <3>2, FS_Interval
    <3> QED BY <3>1, <3>3, FS_Product
  <2> QED BY <2>2, <2>3, FS_UNION
<1>3. f \in Injection(Live, UNION PP)
  <2>1. ASSUME NEW w \in Live PROVE f[w] \in UNION PP
    <3>1. TicketOf(w) \in Ticket BY DEF TicketOf, Live, Attempt
    <3>2. Rank(w) \in 1..AttemptsAt(TicketOf(w)) BY <1>1, <3>1, Ranks, Counted
    <3>3. f[w] \in P(TicketOf(w)) BY <3>1, <3>2
    <3> QED BY <3>1, <3>3
  <2>2. ASSUME NEW v \in Live, NEW w \in Live, f[v] = f[w] PROVE v = w
    <3>1. TicketOf(v) = TicketOf(w) /\ Rank(v) = Rank(w) BY <2>2
    <3>2. v \in At(TicketOf(w)) /\ w \in At(TicketOf(v)) BY <3>1 DEF At
    <3>3. v[2] \in Nat /\ w[2] \in Nat BY OptionsAssumption DEF Live, Attempt
    <3>4. Rank(v) \in Nat /\ Rank(w) \in Nat BY Ranks
    <3>5. ~(v[2] < w[2]) /\ ~(w[2] < v[2]) BY <3>1, <3>2, <3>4, Ranks
    <3>6. v[2] = w[2] BY <3>3, <3>5
    <3> QED BY <3>1, <3>6 DEF Live, Attempt, TicketOf
  <2>3. f \in [Live -> UNION PP] BY <2>1
  <2> QED BY <2>2, <2>3 DEF Injection, IsInjective
<1>4. ActiveAttempts = Cardinality(UNION PP) BY DEF ActiveAttempts, Total
<1> HIDE DEF PP, f
<1> QED BY <1>2, <1>3, <1>4, FS_Injection, FS_CardinalityType

\* No step but a launch adds to the pool.
LEMMA PoolShrinks ==
  ASSUME Types, Next, ~Launch
  PROVE  Live' \subseteq Live
<1>1. CASE \/ Start \/ BeginPass \/ Advance \/ TakeBatch \/ EndPass \/ Join
           \/ SchedulerFails \/ Crash \/ \E t \in Ticket : DecisionLost(t)
  <2>1. job' = job \/ job' = [w \in Attempt |-> NoJob]
    BY <1>1 DEF Start, BeginPass, Advance, TakeBatch, EndPass, Join, SchedulerFails, Crash,
                DecisionLost
  <2> QED BY <2>1 DEF Live, NoJob
<1>2. ASSUME NEW w \in Attempt, JobStep(w) PROVE Live' \subseteq Live
  BY <1>2 DEF JobStep, Live
<1>3. CASE FrontStep BY <1>3 DEF FrontStep, Live
<1>4. ASSUME NEW t \in Ticket, PassStep(t) PROVE Live' \subseteq Live
  BY <1>4 DEF PassStep, Live
<1>5. CASE \/ \E g \in Goal : Submit(g) \/ Cancel(g) \/ TripBudget(g)
           \/ \E t \in Ticket : Approve(t) \/ Deny(t) \/ Elapse(t)
  BY <1>3, <1>5, FrontWork
<1>6. ASSUME NEW t \in Ticket,
             \/ CreateTicket(t) \/ EnforceCancellation(t) \/ EnforceBudget(t) \/ Promote(t)
             \/ FailBlocked(t) \/ RestartStalled(t)
      PROVE  Live' \subseteq Live
  BY <1>4, <1>6, PassWork
<1>7. ASSUME NEW t \in Ticket,
             \/ TakeProposal(t) \/ DropFromBatch(t) \/ Merge(t) \/ Park(t)
             \/ \E r \in Reasons : Reject(t, r)
      PROVE  Live' \subseteq Live
  BY <1>4, <1>7, QueueWork
<1>8. ASSUME NEW w \in Attempt, Dispatch(w) \/ Beat(w) \/ EmitFails(w)
      PROVE  Live' \subseteq Live
  BY <1>2, <1>8, AttemptGoesOn, AttemptEnds DEF Dispatch
<1> QED BY <1>1, <1>5, <1>6, <1>7, <1>8 DEF Next, Reconcile, FrontDoor

\* A launch fills the free places of the pool, one per ticket that has room.
LEMMA PoolFills ==
  ASSUME Types, ConcurrencyBound, Launch
  PROVE  /\ Cardinality(Live') <= Concurrency
         /\ \A t \in Ticket : Cardinality(At(t)') <= BestOfN
<1>0. Concurrency \in Nat /\ BestOfN \in Nat
  BY OptionsAssumption DEF Types, OptionsRecord, Concurrency, BestOfN
<1>1. PICK L \in SUBSET Dispatchable :
        /\ IsWave(L)
        /\ job' = [w \in Attempt |->
                    IF TicketOf(w) \in L /\ w = FreeSlot(TicketOf(w))
                    THEN [NoJob EXCEPT !.pc = "claim", !.number = snap.tk[TicketOf(w)].attempts + 1]
                    ELSE job[w]]
  BY DEF Launch
<1> DEFINE Added == {FreeSlot(t) : t \in L}
           f == [t \in L |-> FreeSlot(t)]
<1>2. ASSUME NEW w \in Live' PROVE w \in Live \/ (TicketOf(w) \in L /\ w = FreeSlot(TicketOf(w)))
  BY <1>1 DEF Live
<1>3. Dispatchable \subseteq Ticket /\ \A t \in Dispatchable : InFlight(t) < BestOfN
  BY DEF Dispatchable, ReadyTickets
<1>4. /\ IsFiniteSet(Dispatchable) /\ Cardinality(Dispatchable) \in Nat
      /\ IsFiniteSet(L) /\ Cardinality(L) \in Nat
  BY <1>3, Counted, FS_Subset, FS_CardinalityType
<1>5. \/ L = {}
      \/ ActiveAttempts < Concurrency /\ Cardinality(L) <= Concurrency - ActiveAttempts
  <2>1. CASE ActiveAttempts < Concurrency
    <3>1. Cardinality(L) = IF Concurrency - ActiveAttempts < Cardinality(Dispatchable)
                           THEN Concurrency - ActiveAttempts ELSE Cardinality(Dispatchable)
      BY <1>1, <2>1 DEF IsWave
    <3> QED BY <1>0, <1>4, <2>1, <3>1, LiveCounted
  <2>2. CASE ~(ActiveAttempts < Concurrency)
    <3>0. Cardinality(L) = IF 0 < Cardinality(Dispatchable)
                           THEN 0 ELSE Cardinality(Dispatchable)
      BY <1>1, <2>2 DEF IsWave
    <3>1. Cardinality(L) = 0 BY <1>4, <3>0
    <3> QED BY <1>4, <3>1, FS_EmptySet
  <2> QED BY <2>1, <2>2
<1>6. IsFiniteSet(Added) /\ Cardinality(Added) \in Nat /\ Cardinality(Added) <= Cardinality(L)
  <2>1. f \in Surjection(L, Added) BY DEF Surjection
  <2> QED BY <1>4, <2>1, FS_Surjection, FS_CardinalityType
<1>7. Live' \subseteq Live \cup Added BY <1>2
<1> HIDE DEF Added
<1>8. /\ IsFiniteSet(Live \cup Added) /\ Cardinality(Live \cup Added) \in Nat
      /\ Cardinality(Live \cup Added) <= Cardinality(Live) + Cardinality(Added)
  <2>1. IsFiniteSet(Live \cap Added) /\ Cardinality(Live \cap Added) \in Nat
    BY Counted, FS_Subset, FS_CardinalityType
  <2>2. Cardinality(Live \cup Added) = Cardinality(Live) + Cardinality(Added) - Cardinality(Live \cap Added)
    BY <1>6, Counted, FS_Union
  <2>3. IsFiniteSet(Live \cup Added) BY <1>6, Counted, FS_Union
  <2> QED BY <1>6, <2>1, <2>2, <2>3, Counted, FS_CardinalityType
<1>9. Cardinality(Live') \in Nat /\ Cardinality(Live') <= Cardinality(Live \cup Added)
  BY <1>7, <1>8, FS_Subset, FS_CardinalityType
<1>10. Cardinality(Live') <= Concurrency
  <2>1. CASE L = {}
    <3>1. Live' \subseteq Live BY <1>2, <2>1
    <3>2. Cardinality(Live') <= Cardinality(Live) BY <3>1, Counted, FS_Subset
    <3> QED BY <1>0, <1>9, <3>2, Counted DEF ConcurrencyBound
  <2>2. CASE L # {}
    BY <1>0, <1>4, <1>5, <1>6, <1>8, <1>9, <2>2, LiveCounted, Counted
  <2> QED BY <2>1, <2>2
<1>11. ASSUME NEW t \in Ticket PROVE Cardinality(At(t)') <= BestOfN
  <2>0. InFlight(t) \in Nat /\ InFlight(t) = Cardinality(At(t)) /\ IsFiniteSet(At(t)) BY Counted
  <2>1. CASE t \in L
    <3>1. At(t)' \subseteq At(t) \cup {FreeSlot(t)} BY <1>2 DEF At
    <3>2. /\ IsFiniteSet(At(t) \cup {FreeSlot(t)})
          /\ Cardinality(At(t) \cup {FreeSlot(t)}) \in {InFlight(t), InFlight(t) + 1}
      <4> DEFINE new == FreeSlot(t)
      <4> HIDE DEF new
      <4>1. /\ IsFiniteSet(At(t) \cup {new})
            /\ Cardinality(At(t) \cup {new}) =
                 IF new \in At(t) THEN Cardinality(At(t)) ELSE Cardinality(At(t)) + 1
        BY <2>0, FS_AddElement
      <4> QED BY <2>0, <4>1 DEF new
    <3>3. Cardinality(At(t)') <= Cardinality(At(t) \cup {FreeSlot(t)}) /\ IsFiniteSet(At(t)')
      BY <3>1, <3>2, FS_Subset
    <3>4. InFlight(t) < BestOfN BY <1>3, <2>1
    <3>5. Cardinality(At(t)') \in Nat /\ Cardinality(At(t) \cup {FreeSlot(t)}) \in Nat
      BY <3>2, <3>3, FS_CardinalityType
    <3> QED BY <1>0, <2>0, <3>2, <3>3, <3>4, <3>5
  <2>2. CASE t \notin L
    <3>1. At(t)' \subseteq At(t) BY <1>2, <2>2 DEF At
    <3>2. Cardinality(At(t)') <= Cardinality(At(t)) /\ IsFiniteSet(At(t)')
      BY <2>0, <3>1, FS_Subset
    <3>3. Cardinality(At(t)') \in Nat BY <3>2, FS_CardinalityType
    <3> QED BY <1>0, <2>0, <3>2, <3>3 DEF ConcurrencyBound
  <2> QED BY <2>1, <2>2
<1> QED BY <1>10, <1>11

PoolInv == Types /\ ConcurrencyBound

\* The bound is kept by every step.
LEMMA PoolKept ==
  ASSUME PoolInv, [Next]_vars
  PROVE  PoolInv'
<1>0. Concurrency \in Nat /\ BestOfN \in Nat
  BY OptionsAssumption DEF PoolInv, Types, OptionsRecord, Concurrency, BestOfN
<1>1. \A t : InFlight(t)' = Cardinality(At(t)') BY DEF InFlight, At
<1>2. ASSUME Live' \subseteq Live, opt' = opt PROVE ConcurrencyBound'
  <2>1. Concurrency' = Concurrency /\ BestOfN' = BestOfN BY <1>2 DEF Concurrency, BestOfN
  <2>2. Cardinality(Live') <= Cardinality(Live) /\ IsFiniteSet(Live')
    BY <1>2, Counted, FS_Subset
  <2>3. Cardinality(Live') \in Nat BY <2>2, FS_CardinalityType
  <2>4. Cardinality(Live') <= Concurrency
    BY <1>0, <2>2, <2>3, Counted DEF PoolInv, ConcurrencyBound
  <2>5. ASSUME NEW t \in Ticket PROVE Cardinality(At(t)') <= BestOfN
    <3>1. At(t)' \subseteq At(t) BY <1>2 DEF At
    <3>2. Cardinality(At(t)') <= Cardinality(At(t)) /\ IsFiniteSet(At(t)')
      BY <3>1, Counted, FS_Subset
    <3>3. Cardinality(At(t)') \in Nat BY <3>2, FS_CardinalityType
    <3>4. InFlight(t) <= BestOfN /\ InFlight(t) \in Nat /\ InFlight(t) = Cardinality(At(t))
      BY Counted DEF PoolInv, ConcurrencyBound
    <3> QED BY <1>0, <3>2, <3>3, <3>4
  <2> QED BY <1>1, <2>1, <2>4, <2>5 DEF ConcurrencyBound
<1>3. CASE Next
  <2>1. Types' /\ opt' = opt BY <1>3, TypesStep, SameOptions DEF PoolInv
  <2>2. CASE Launch
    <3>1. Concurrency' = Concurrency /\ BestOfN' = BestOfN BY <2>1 DEF Concurrency, BestOfN
    <3>2. /\ Cardinality(Live') <= Concurrency
          /\ \A t \in Ticket : Cardinality(At(t)') <= BestOfN
      BY <2>2, PoolFills DEF PoolInv
    <3> QED BY <1>1, <2>1, <3>1, <3>2 DEF PoolInv, ConcurrencyBound
  <2>3. CASE ~Launch
    <3>1. Live' \subseteq Live BY <1>3, <2>3, PoolShrinks DEF PoolInv
    <3> QED BY <1>2, <2>1, <3>1 DEF PoolInv
  <2> QED BY <2>2, <2>3
<1>4. CASE UNCHANGED vars
  <2>1. UNCHANGED <<tk, gl, job, snap, opt>> BY <1>4 DEF vars, logVars, passVars
  <2>2. Live' \subseteq Live BY <2>1 DEF Live
  <2>3. Types' BY <2>1 DEF PoolInv, Types
  <2> QED BY <1>2, <2>1, <2>2, <2>3 DEF PoolInv
<1> QED BY <1>3, <1>4

\* The pool never exceeds Concurrency, nor the attempts at a ticket BestOfN, for
\* any number of tickets, slots and faults: activeAttempts counts every live
\* attempt, whether the log knows of it or not, and workers a dead process left.
THEOREM PoolBounded == Spec => []ConcurrencyBound
<1>1. Init => PoolInv
  <2> SUFFICES ASSUME Init PROVE PoolInv OBVIOUS
  <2>1. Types BY TypesInit
  <2>2. Live = {} BY DEF Init, Live, NoJob
  <2>3. \A t : At(t) = {} BY <2>2 DEF At
  <2>4. Cardinality(Live) = 0 /\ \A t : InFlight(t) = 0
    BY <2>2, <2>3, Counted, FS_EmptySet
  <2>5. Concurrency \in Nat /\ BestOfN \in Nat
    BY <2>1, OptionsAssumption DEF Types, OptionsRecord, Concurrency, BestOfN
  <2> QED BY <2>1, <2>4, <2>5 DEF PoolInv, ConcurrencyBound
<1>2. PoolInv => ConcurrencyBound BY DEF PoolInv
<1> QED BY <1>1, <1>2, PoolKept, PTL DEF Spec

-----------------------------------------------------------------------------
(* The order of work *)

\* Work on the ticket has started, and may be dispatched (again).
Claimable == {"ready", "claimed", "running"}
Working   == Claimable \cup {"proposed", "awaiting", "merged"}

\* What counts as landed when dependencies are looked at.
Landed == {"merged", "decomposed"}

-----------------------------------------------------------------------------
(* Events *)

\* y is x after an event that takes it from no end state, lands nothing and
\* counts no new worker.
Keeps(x, y) ==
  /\ x.status \in Terminal => y.status = x.status
  /\ y.status \in Landed => y.status = x.status
  /\ y.active > 0 => x.active > 0

\* Nor does it start work on a ticket that has no worker.
NoStart(x, y) == y.status \in Working => x.status \in Working \/ x.active > 0

\* Most events are of both kinds.
LEMMA KeepingEvents ==
  ASSUME NEW x \in Rec, NEW n \in Nat, NEW r \in Reasons \cup {"other"},
         NEW y \in {x, TicketCreated(x, n), Heartbeat(x), ApprovalRequested(x),
                    ApprovalGranted(x), ApprovalDenied(x), TicketInvalidated(x, r),
                    [x EXCEPT !.quiet = TRUE]}
  PROVE  Keeps(x, y) /\ NoStart(x, y)
<1> USE DEF Keeps, NoStart, Rec, TicketRecord, Terminal, Landed, Working, Claimable
<1>1. CASE y = x BY <1>1
<1>2. CASE y = TicketCreated(x, n) BY <1>2 DEF TicketCreated, NoTicket
<1>3. CASE y = Heartbeat(x) BY <1>3 DEF Heartbeat
<1>4. CASE y = ApprovalRequested(x) BY <1>4 DEF ApprovalRequested
<1>5. CASE y = ApprovalGranted(x) BY <1>5 DEF ApprovalGranted
<1>6. CASE y = ApprovalDenied(x) BY <1>6 DEF ApprovalDenied
<1>7. CASE y = TicketInvalidated(x, r) BY <1>7 DEF TicketInvalidated, RemoveWorker
<1>8. CASE y = [x EXCEPT !.quiet = TRUE] BY <1>8
<1> QED BY <1>1, <1>2, <1>3, <1>4, <1>5, <1>6, <1>7, <1>8

\* Failures and promotions are of the first kind; a failure that leaves another
\* worker is also of the second, for then the ticket had one.
LEMMA KeepingFailures ==
  ASSUME NEW x \in Rec, NEW w, NEW r \in Reasons \cup {"other", NoReason}
  PROVE  /\ Keeps(x, TicketReady(x)) /\ Keeps(x, TicketFailed(x, w, r))
         /\ Keeps(x, VerificationFailed(x, w, r)) /\ Keeps(x, WorkerRestarted(x, w, r))
         /\ NoStart(x, TicketFailed(x, w, r))
<1> USE DEF Keeps, NoStart, Rec, TicketRecord, Terminal, Early, Landed, Working, Claimable,
            RemoveWorker
<1>1. Keeps(x, TicketReady(x)) BY DEF TicketReady
<1>2. Keeps(x, TicketFailed(x, w, r)) /\ NoStart(x, TicketFailed(x, w, r)) BY DEF TicketFailed
<1>3. Keeps(x, VerificationFailed(x, w, r)) BY DEF VerificationFailed
<1>4. Keeps(x, WorkerRestarted(x, w, r)) BY DEF WorkerRestarted
<1> QED BY <1>1, <1>2, <1>3, <1>4

\* Only failures fail a ticket.
LEMMA NotFailing ==
  ASSUME NEW x \in Rec, NEW w, NEW n \in Nat, NEW r \in Reasons \cup {"other", NoReason},
         NEW y \in {x, TicketCreated(x, n), TicketReady(x), ApprovalRequested(x),
                    VerificationFailed(x, w, r), WorkerRestarted(x, w, r)}
  PROVE  y.status = "failed" => x.status = "failed"
<1> USE DEF Rec, TicketRecord, Early, RemoveWorker
<1>1. CASE y = x BY <1>1
<1>2. CASE y = TicketCreated(x, n) BY <1>2 DEF TicketCreated, NoTicket
<1>3. CASE y = TicketReady(x) BY <1>3 DEF TicketReady
<1>4. CASE y = ApprovalRequested(x) BY <1>4 DEF ApprovalRequested
<1>5. CASE y = VerificationFailed(x, w, r) BY <1>5 DEF VerificationFailed
<1>6. CASE y = WorkerRestarted(x, w, r) BY <1>6 DEF WorkerRestarted
<1> QED BY <1>1, <1>2, <1>3, <1>4, <1>5, <1>6

-----------------------------------------------------------------------------
(* What the steps do to the status of a ticket *)

\* The pass deals with ticket t: it lands what the queue has, promotes and
\* restarts what it found, and fails what has no attempt, what it found blocked,
\* what the queue has, or what is over its goal's budget.
PassMore(t) ==
  /\ Keeps(tk[t], tk'[t]) \/ (t \in hands /\ tk'[t].status = "merged" /\ tk'[t].active = 0)
  /\ NoStart(tk[t], tk'[t]) \/ (pc \in {"promote", "stall"} /\ t \in todo) \/ t \in hands
  /\ tk'[t].status = "failed" =>
       \/ tk[t].status = "failed" \/ ~(InFlight(t) > 0)
       \/ pc = "blocked" /\ t \in todo
       \/ pc \in QueuePhases /\ t \in todo \cup hands
       \/ pc = "budget" /\ t \in todo /\ GoalOf[t] \notin Tripping

\* What is written down of ticket t.
LEMMA Written ==
  ASSUME Types, NEW t \in Ticket, NEW y, EmitTicket(t, y)
  PROVE  tk'[t] = y
BY DEF Types, EmitTicket

\* What the pass may say of a ticket keeps it as it should.
LEMMA Sayings ==
  ASSUME Types, NEW t \in Ticket
  PROVE  LET x == tk[t]
             c == TicketCreated(x, Cardinality(Created(tk)) + 1)
         IN /\ Keeps(x, x) /\ NoStart(x, x)
            /\ Keeps(x, c) /\ NoStart(x, c) /\ (c.status = "failed" => x.status = "failed")
            /\ Keeps(x, TicketReady(x)) /\ (TicketReady(x).status = "failed" => x.status = "failed")
            /\ Keeps(x, ApprovalRequested(x)) /\ NoStart(x, ApprovalRequested(x))
            /\ ApprovalRequested(x).status = "failed" => x.status = "failed"
            /\ \A w : \A r \in Reasons \cup {"other", NoReason} :
                 /\ Keeps(x, TicketFailed(x, w, r)) /\ NoStart(x, TicketFailed(x, w, r))
                 /\ Keeps(x, VerificationFailed(x, w, r)) /\ Keeps(x, WorkerRestarted(x, w, r))
                 /\ VerificationFailed(x, w, r).status = "failed" => x.status = "failed"
                 /\ WorkerRestarted(x, w, r).status = "failed" => x.status = "failed"
<1> DEFINE x == tk[t]
           n == Cardinality(Created(tk)) + 1
<1>1. x \in Rec /\ n \in Nat BY Place DEF Types
<1>2. "other" \in Reasons \cup {"other"} /\ "other" \in Reasons \cup {"other", NoReason} OBVIOUS
<1> HIDE DEF x, n
<1>3. /\ Keeps(x, x) /\ NoStart(x, x)
      /\ Keeps(x, TicketCreated(x, n)) /\ NoStart(x, TicketCreated(x, n))
      /\ Keeps(x, ApprovalRequested(x)) /\ NoStart(x, ApprovalRequested(x))
  BY <1>1, <1>2, KeepingEvents
<1>4. /\ TicketCreated(x, n).status = "failed" => x.status = "failed"
      /\ TicketReady(x).status = "failed" => x.status = "failed"
      /\ ApprovalRequested(x).status = "failed" => x.status = "failed"
  BY <1>1, <1>2, NotFailing
<1>5. Keeps(x, TicketReady(x)) BY <1>1, <1>2, KeepingFailures
<1>6. ASSUME NEW w, NEW r \in Reasons \cup {"other", NoReason}
      PROVE  /\ Keeps(x, TicketFailed(x, w, r)) /\ NoStart(x, TicketFailed(x, w, r))
             /\ Keeps(x, VerificationFailed(x, w, r)) /\ Keeps(x, WorkerRestarted(x, w, r))
             /\ VerificationFailed(x, w, r).status = "failed" => x.status = "failed"
             /\ WorkerRestarted(x, w, r).status = "failed" => x.status = "failed"
  BY <1>1, <1>6, KeepingFailures, NotFailing
<1> QED BY <1>3, <1>4, <1>5, <1>6 DEF x, n

\* What a pass does with the tickets it found.
LEMMA PassKeeps ==
  ASSUME Types, NEW t \in Ticket,
         \/ CreateTicket(t) \/ EnforceCancellation(t) \/ EnforceBudget(t) \/ Promote(t)
         \/ FailBlocked(t) \/ RestartStalled(t)
  PROVE  PassMore(t)
<1> DEFINE x == tk[t]
           c == TicketCreated(x, Cardinality(Created(tk)) + 1)
           f == TicketFailed(x, snap.tk[t].worker, "other")
           s == WorkerRestarted(x, snap.tk[t].worker, NoReason)
<1>0. "other" \in Reasons \cup {"other", NoReason} /\ NoReason \in Reasons \cup {"other", NoReason}
  OBVIOUS
<1>1. /\ Keeps(x, x) /\ NoStart(x, x)
      /\ Keeps(x, c) /\ NoStart(x, c) /\ (c.status = "failed" => x.status = "failed")
      /\ Keeps(x, TicketReady(x)) /\ (TicketReady(x).status = "failed" => x.status = "failed")
      /\ Keeps(x, f) /\ NoStart(x, f)
      /\ Keeps(x, s) /\ (s.status = "failed" => x.status = "failed")
  BY <1>0, Sayings
<1> HIDE DEF c, f, s
<1>2. CASE CreateTicket(t)
  <2>1. tk'[t] = c BY <1>2, Written DEF CreateTicket, EmitCreated, c
  <2> QED BY <1>1, <2>1 DEF PassMore
<1>3. CASE EnforceCancellation(t)
  <2>1. CASE InFlight(t) > 0
    <3>1. tk' = tk BY <1>3, <2>1 DEF EnforceCancellation, logVars
    <3> QED BY <1>1, <3>1 DEF PassMore
  <2>2. CASE ~(InFlight(t) > 0)
    <3>1. tk'[t] = f BY <1>3, <2>2, Written DEF EnforceCancellation, FailCancelled, f
    <3> QED BY <1>1, <2>2, <3>1 DEF PassMore
  <2> QED BY <2>1, <2>2
<1>4. CASE EnforceBudget(t)
  <2>1. /\ tk'[t] = f /\ pc = "budget" /\ t \in todo
        /\ \A h \in Tripping : GoalOf[t] < h
    BY <1>4, Written DEF EnforceBudget, FirstId, f
  <2>2. GoalOf[t] \in Nat BY GraphAssumption DEF Goal
  <2>3. GoalOf[t] \notin Tripping BY <2>1, <2>2
  <2> QED BY <1>1, <2>1, <2>3 DEF PassMore
<1>5. CASE Promote(t)
  <2>1. tk'[t] = TicketReady(x) /\ pc = "promote" /\ t \in todo
    BY <1>5, Written DEF Promote, First
  <2> QED BY <1>1, <2>1 DEF PassMore
<1>6. CASE FailBlocked(t)
  <2>1. tk'[t] = f /\ pc = "blocked" /\ t \in todo
    BY <1>6, Written DEF FailBlocked, First, f
  <2> QED BY <1>1, <2>1 DEF PassMore
<1>7. CASE RestartStalled(t)
  <2>1. tk'[t] = s /\ pc = "stall" /\ t \in todo
    BY <1>7, Written DEF RestartStalled, FirstId, s
  <2> QED BY <1>1, <2>1 DEF PassMore
<1> QED BY <1>2, <1>3, <1>4, <1>5, <1>6, <1>7

\* What the queue does with the proposals.
LEMMA QueueKeeps ==
  ASSUME Types, NEW t \in Ticket,
         \/ TakeProposal(t) \/ DropFromBatch(t) \/ Merge(t) \/ Park(t)
         \/ \E r \in Reasons : Reject(t, r)
  PROVE  PassMore(t)
<1> DEFINE x == tk[t]
           f(r) == TicketFailed(x, snap.tk[t].worker, r)
           v(r) == VerificationFailed(x, snap.tk[t].worker, r)
<1>0. "other" \in Reasons \cup {"other", NoReason} /\ Reasons \subseteq Reasons \cup {"other", NoReason}
  OBVIOUS
<1>1. /\ Keeps(x, x) /\ NoStart(x, x)
      /\ Keeps(x, ApprovalRequested(x)) /\ NoStart(x, ApprovalRequested(x))
      /\ ApprovalRequested(x).status = "failed" => x.status = "failed"
      /\ \A r \in Reasons \cup {"other", NoReason} :
           /\ Keeps(x, f(r)) /\ NoStart(x, f(r))
           /\ Keeps(x, v(r)) /\ (v(r).status = "failed" => x.status = "failed")
  BY Sayings
<1> HIDE DEF f, v
<1>2. CASE TakeProposal(t)
  <2>1. tk' = tk \/ (pc = "drain" /\ t \in todo /\ tk'[t] = f("other"))
    BY <1>2, Written DEF TakeProposal, FailCancelled, First, logVars, f
  <2> QED BY <1>0, <1>1, <2>1 DEF PassMore, QueuePhases
<1>3. CASE DropFromBatch(t)
  <2>1. pc = "outcomes" /\ t \in todo /\ tk'[t] = f("other")
    BY <1>3, Written DEF DropFromBatch, FailCancelled, First, f
  <2> QED BY <1>0, <1>1, <2>1 DEF PassMore, QueuePhases
<1>4. CASE Merge(t)
  <2>1. t \in hands /\ tk'[t] = Merged(x)
    BY <1>4, Written DEF Merge, NextOutcome, First
  <2>2. x \in Rec BY DEF Types
  <2>3. Merged(x).status = "merged" /\ Merged(x).active = 0
    BY <2>2 DEF Merged, Rec, TicketRecord
  <2> QED BY <2>1, <2>3 DEF PassMore
<1>5. CASE Park(t)
  <2>1. tk'[t] = ApprovalRequested(x) BY <1>5, Written DEF Park
  <2> QED BY <1>1, <2>1 DEF PassMore
<1>6. ASSUME NEW r \in Reasons, Reject(t, r) PROVE PassMore(t)
  <2>1. t \in hands /\ pc \in QueuePhases /\ (tk'[t] = f(r) \/ tk'[t] = v(r))
    BY <1>6, Written DEF Reject, RejectOrFail, NextOutcome, First, QueuePhases, f, v
  <2> QED BY <1>0, <1>1, <2>1 DEF PassMore
<1> QED BY <1>2, <1>3, <1>4, <1>5, <1>6

\* Attempt w takes a step: of other tickets it may create one that did not
\* exist, and as long as it goes on its own is claimed or running.
JobMore(w) ==
  /\ \A u \in Ticket : u # TicketOf(w) =>
       tk'[u] = tk[u] \/ (tk'[u].status = "pending" /\ tk[u].status = "none" /\ tk'[u].active = 0)
  /\ job'[w].pc \notin {"off", "exit"} =>
       tk'[TicketOf(w)].status \in {"claimed", "running", tk[TicketOf(w)].status}
  /\ \A g \in Goal : gl'[g].over = gl[g].over

\* A charge trips nothing.
LEMMA ChargesTrip ==
  ASSUME Types, NEW t \in Ticket, Charged(t) \/ UNCHANGED gl
  PROVE  \A g \in Goal : gl'[g].over = gl[g].over
<1>1. CASE UNCHANGED gl BY <1>1
<1>2. CASE Charged(t)
  <2>1. GoalOf[t] \in Goal BY GraphAssumption
  <2>2. gl' = [gl EXCEPT ![GoalOf[t]] = Charge(gl[GoalOf[t]], Budget)]
    BY <1>2 DEF Charged
  <2>3. ASSUME NEW y \in GoalRecord PROVE Charge(y, Budget).over = y.over
    BY DEF Charge, GoalRecord
  <2> QED BY <2>1, <2>2, <2>3 DEF Types
<1> QED BY <1>1, <1>2

\* The steps of an attempt do no more than that.
LEMMA JobKeeps ==
  ASSUME Types, NEW w \in Attempt, Dispatch(w) \/ Beat(w) \/ EmitFails(w)
  PROVE  JobMore(w)
<1> DEFINE t == TicketOf(w)
           x == tk[TicketOf(w)]
<1>0. t \in Ticket /\ x \in Rec BY Attempts
<1>1. ASSUME Charged(t) \/ UNCHANGED gl,
             \/ UNCHANGED tk
             \/ \E y : EmitTicket(t, y) /\ (\/ job'[w].pc \in {"off", "exit"}
                                            \/ y.status \in {"claimed", "running", x.status})
      PROVE  JobMore(w)
  <2>1. \A g \in Goal : gl'[g].over = gl[g].over BY <1>0, <1>1, ChargesTrip
  <2>2. \A u \in Ticket : u # t => tk'[u] = tk[u] BY <1>1 DEF EmitTicket, Types
  <2>3. job'[w].pc \notin {"off", "exit"} => tk'[t].status \in {"claimed", "running", x.status}
    BY <1>0, <1>1, Written
  <2> QED BY <2>1, <2>2, <2>3 DEF JobMore
<1>2. ASSUME EndJob(w), job[w].pc # "off" PROVE job'[w].pc \in {"off", "exit"}
  BY <1>2, IsOver
<1>3. CASE Claim(w)
  <2>1. UNCHANGED gl /\ EmitTicket(t, TicketClaimed(x)) BY <1>3 DEF Claim
  <2>2. TicketClaimed(x).status = "claimed" BY <1>0 DEF TicketClaimed, Rec, TicketRecord
  <2> QED BY <1>1, <2>1, <2>2
<1>4. CASE StartWork(w)
  <2>1. UNCHANGED gl /\ EmitTicket(t, WorkStarted(x)) BY <1>4 DEF StartWork
  <2>2. WorkStarted(x).status = "running" BY <1>0 DEF WorkStarted, Rec, TicketRecord
  <2> QED BY <1>1, <2>1, <2>2
<1>5. CASE Beat(w)
  <2>1. UNCHANGED gl /\ EmitTicket(t, Heartbeat(x)) BY <1>5 DEF Beat
  <2>2. Heartbeat(x).status = x.status BY <1>0 DEF Heartbeat, Rec, TicketRecord
  <2> QED BY <1>1, <2>1, <2>2
<1>6. CASE AddWorktree(w) \/ AgentFails(w) \/ Commit(w) \/ Split(w) \/ ReadIsLast(w) \/ Exit(w)
           \/ EmitFails(w)
  <2>1. UNCHANGED <<gl, tk>>
    BY <1>6 DEF AddWorktree, AgentFails, Commit, Split, ReadIsLast, Exit, EmitFails, logVars
  <2> QED BY <1>1, <2>1
<1>7. CASE Propose(w) \/ Invalidate(w) \/ FailDecompose(w) \/ Decompose(w)
           \/ \E r \in Reasons : FailAttempt(w, r)
  <2>1. /\ Charged(t) \/ UNCHANGED gl
        /\ \E y : EmitTicket(t, y)
        /\ EndJob(w) /\ job[w].pc # "off"
    BY <1>7 DEF Propose, Invalidate, FailDecompose, Decompose, FailAttempt
  <2>2. job'[w].pc \in {"off", "exit"} BY <1>2, <2>1
  <2> QED BY <1>1, <2>1, <2>2
<1>8. CASE CreateChild(w)
  <2>1. UNCHANGED gl BY <1>8 DEF CreateChild
  <2>2. PICK u \in Unborn(w) : EmitCreated(u) BY <1>8 DEF CreateChild
  <2>3. u \in Ticket /\ tk[u].status = "none" /\ u # t
    BY <1>0, <2>2, GraphAssumption DEF Unborn, Created, Ticket
  <2>4. tk'[u] = TicketCreated(tk[u], Cardinality(Created(tk)) + 1)
    BY <2>2, <2>3, Written DEF EmitCreated
  <2>5. tk'[u].status = "pending" /\ tk'[u].active = 0
    BY <2>3, <2>4 DEF TicketCreated, NoTicket
  <2>6. \A v \in Ticket : v # u => tk'[v] = tk[v]
    BY <2>2 DEF EmitCreated, EmitTicket, Types
  <2> QED BY <1>0, <2>1, <2>3, <2>5, <2>6 DEF JobMore
<1> QED BY <1>3, <1>4, <1>5, <1>6, <1>7, <1>8 DEF Dispatch

\* People, the clock and the budget: only what is parked changes its status,
\* and a budget that has tripped stays so.
FrontMore ==
  /\ \A t \in Ticket :
       /\ Keeps(tk[t], tk'[t]) /\ NoStart(tk[t], tk'[t])
       /\ tk'[t].status = tk[t].status \/ tk[t].status = "awaiting"
  /\ \A g \in Goal : gl[g].over => gl'[g].over

\* They do no more than that.
LEMMA FrontKeeps ==
  ASSUME Types,
         \/ \E g \in Goal : Submit(g) \/ Cancel(g) \/ TripBudget(g)
         \/ \E t \in Ticket : Approve(t) \/ Deny(t) \/ Elapse(t)
  PROVE  FrontMore
<1>0. ASSUME NEW t \in Ticket
      PROVE  /\ tk[t] \in Rec
             /\ \A y \in {tk[t], ApprovalGranted(tk[t]), ApprovalDenied(tk[t]),
                          [tk[t] EXCEPT !.quiet = TRUE]} :
                  Keeps(tk[t], y) /\ NoStart(tk[t], y)
  <2>1. tk[t] \in Rec /\ "other" \in Reasons \cup {"other"} /\ 0 \in Nat BY DEF Types
  <2> QED BY <2>1, KeepingEvents
<1>1. ASSUME NEW g \in Goal, Submit(g) \/ Cancel(g) \/ TripBudget(g) PROVE FrontMore
  <2>1. /\ tk' = tk
        /\ \E y \in {GoalSubmitted(gl[g]), GoalCancelled(gl[g]), GoalBudgetExceeded(gl[g])} :
             gl' = [gl EXCEPT ![g] = y]
    BY <1>1 DEF Submit, Cancel, TripBudget, EmitGoal
  <2>2. gl[g] \in GoalRecord BY DEF Types
  <2>3. \A y \in {GoalSubmitted(gl[g]), GoalCancelled(gl[g]), GoalBudgetExceeded(gl[g])} :
          gl[g].over => y.over
    BY <2>2 DEF GoalSubmitted, GoalCancelled, GoalBudgetExceeded, GoalRecord
  <2>4. \A h \in Goal : gl[h].over => gl'[h].over BY <2>1, <2>3 DEF Types
  <2> QED BY <1>0, <2>1, <2>4 DEF FrontMore
<1>2. ASSUME NEW t \in Ticket, Approve(t) \/ Deny(t) \/ Elapse(t) PROVE FrontMore
  <2>1. /\ gl' = gl
        /\ \/ tk[t].status = "awaiting" /\ tk' = [tk EXCEPT ![t] = ApprovalGranted(tk[t])]
           \/ tk[t].status = "awaiting" /\ tk' = [tk EXCEPT ![t] = ApprovalDenied(tk[t])]
           \/ tk' = [tk EXCEPT ![t] = [tk[t] EXCEPT !.quiet = TRUE]]
    BY <1>2 DEF Approve, Deny, Elapse, EmitTicket
  <2>2. [tk[t] EXCEPT !.quiet = TRUE].status = tk[t].status BY <1>0 DEF Rec, TicketRecord
  <2>3. /\ tk'[t].status = tk[t].status \/ tk[t].status = "awaiting"
        /\ Keeps(tk[t], tk'[t]) /\ NoStart(tk[t], tk'[t])
    BY <1>0, <2>1, <2>2 DEF Types
  <2>4. \A u \in Ticket : u # t => tk'[u] = tk[u] BY <2>1 DEF Types
  <2> QED BY <1>0, <2>1, <2>3, <2>4 DEF FrontMore
<1> QED BY <1>1, <1>2

-----------------------------------------------------------------------------
(* The invariant *)

LiveAt(t) == \E w \in Attempt : IsLive(w) /\ TicketOf(w) = t

\* A ticket that no attempt may be at: it is with the queue, has landed, or has
\* failed with its goal within budget.
Gone(t) ==
  \/ tk[t].status \in Held \cup Landed
  \/ tk[t].status = "failed" /\ ~gl[GoalOf[t]].over

\* No attempt is at such a ticket, nor is one launched at it; what is blocked has
\* no attempt; and what the budget step fails belongs to a goal that is over.
GoneOK ==
  /\ \A t \in Ticket : LiveAt(t) => ~Gone(t)
  /\ pc = "count" =>
       \A t \in Ticket : snap.tk[t].status \in Claimable /\ ~LiveAt(t) => ~Gone(t)
  /\ pc = "blocked" => \A t \in todo \cap Ticket : ~LiveAt(t)
  /\ pc = "budget" =>
       /\ \A t \in todo \cap Ticket : Exceeded(snap.gl, GoalOf[t])
       /\ \A g \in Goal : snap.gl[g].over => gl[g].over

\* The dependencies of a ticket that is worked on, or that a step of the pass is
\* about to promote, launch or restart, have landed.
DepsOK ==
  /\ \A t \in Ticket :
       tk[t].status \in Working \/ tk[t].active > 0 \/ LiveAt(t) => DepsSatisfied(tk, t)
  /\ pc \in {"promote", "stall"} => \A t \in todo \cap Ticket : DepsSatisfied(tk, t)
  /\ pc = "count" =>
       \A t \in Ticket : snap.tk[t].status \in Claimable => DepsSatisfied(tk, t)

\* Both hold to begin with.
LEMMA WorkInit == Init => GoneOK /\ DepsOK
<1>1. \A w \in Attempt : Init => ~IsLive(w) BY DEF Init, NoJob, IsLive
<1>2. \A t \in Ticket : Init => ~LiveAt(t) BY <1>1 DEF LiveAt
<1>3. \A t \in Ticket : Init => tk[t].status = "none" /\ tk[t].active = 0
  BY DEF Init, NoTicket
<1> QED BY <1>2, <1>3 DEF Init, GoneOK, DepsOK, Working, Claimable

\* What landed stays landed.
Stays == \A t \in Ticket : tk[t].status \in Landed => tk'[t].status = tk[t].status

\* And so dependencies stay satisfied.
LEMMA DepsStay ==
  ASSUME Stays
  PROVE  \A t \in Ticket : DepsSatisfied(tk, t) => DepsSatisfied(tk', t)
<1>1. \A t \in Ticket : TicketComplete(tk)[t] => TicketComplete(tk')[t]
  BY CompleteStays DEF Stays, Landed
<1>2. \A t \in Ticket : Deps[t] \subseteq Ticket BY GraphAssumption
<1> QED BY <1>1, <1>2 DEF DepsSatisfied

\* A step of an attempt: its own ticket is not gone while it goes on.
LEMMA WorkJob ==
  ASSUME Types, PromptWorkers, JobsOK, GoneOK, DepsOK, NEW w \in Attempt,
         JobStep(w), JobMore(w)
  PROVE  Stays /\ GoneOK' /\ DepsOK'
<1> DEFINE t == TicketOf(w)
<1>1. /\ t \in Ticket /\ IsLive(w) /\ job[w].pc # "exit"
      /\ UNCHANGED <<snap, pc, todo>>
      /\ job'[w].pc # "exit" /\ (job'[w].pc = "off" => pc \notin {"count", "check"})
  BY DEF JobStep, JobsOK, IsLive, TicketOf, Attempt
<1>2. LiveAt(t) /\ ~Gone(t) BY <1>1 DEF LiveAt, GoneOK
<1>3. \A u \in Ticket : u # t =>
        tk'[u] = tk[u] \/ (tk'[u].status = "pending" /\ tk[u].status = "none" /\ tk'[u].active = 0)
  BY DEF JobMore
<1>4. Stays BY <1>2, <1>3 DEF Stays, Gone, Landed
<1>5. \A u \in Ticket : LiveAt(u)' => LiveAt(u)
  BY <1>1 DEF LiveAt, IsLive, JobStep
<1>6. LiveAt(t)' => job'[w].pc \notin {"off", "exit"}
  <2>1. ASSUME NEW v \in Attempt, job'[v].pc # "off", TicketOf(v) = t PROVE v = w
    <3>1. v # w => IsLive(v) BY <2>1 DEF JobStep, IsLive
    <3> QED BY <1>1, <2>1, <3>1 DEF JobsOK
  <2> QED BY <1>1, <2>1 DEF LiveAt, IsLive
<1>7. pc \in {"count", "check"} => (LiveAt(t)' <=> LiveAt(t))
  <2>1. job'[w].pc # "off" => LiveAt(t)' BY DEF LiveAt, IsLive
  <2> QED BY <1>1, <1>2, <2>1
<1>8. \A u \in Ticket : u # t => (LiveAt(u)' <=> LiveAt(u))
  BY DEF LiveAt, IsLive, JobStep
<1>9. \A g \in Goal : gl'[g].over = gl[g].over BY DEF JobMore
<1>10. \A u \in Ticket : GoalOf[u] \in Goal BY GraphAssumption
<1>11. \A u \in Ticket : u # t /\ ~Gone(u) => ~Gone(u)'
  BY <1>3, <1>9, <1>10 DEF Gone, Held, Landed
<1>12. job'[w].pc \notin {"off", "exit"} => ~Gone(t)'
  <2>1. job'[w].pc \notin {"off", "exit"} => tk'[t].status \in {"claimed", "running", tk[t].status}
    BY DEF JobMore
  <2> QED BY <1>1, <1>2, <1>9, <1>10, <2>1 DEF Gone, Held, Landed
<1>13. GoneOK'
  <2>1. \A u \in Ticket : LiveAt(u)' => ~Gone(u)' BY <1>5, <1>6, <1>11, <1>12 DEF GoneOK
  <2>2. ASSUME pc' = "count", NEW u \in Ticket, snap'.tk[u].status \in Claimable, ~LiveAt(u)'
        PROVE  ~Gone(u)'
    BY <1>1, <1>2, <1>7, <1>8, <1>11, <2>2 DEF GoneOK
  <2>3. pc' = "blocked" => \A u \in todo' \cap Ticket : ~LiveAt(u)' BY <1>1, <1>5 DEF GoneOK
  <2>4. pc' = "budget" =>
           /\ \A u \in todo' \cap Ticket : Exceeded(snap.gl, GoalOf[u])'
           /\ \A g \in Goal : snap'.gl[g].over => gl'[g].over
    <3>1. opt' = opt BY DEF JobStep
    <3> QED BY <1>1, <1>9, <3>1 DEF GoneOK, Exceeded, Budget
  <2> QED BY <2>1, <2>2, <2>3, <2>4 DEF GoneOK
<1>14. DepsOK'
  <2>1. \A u \in Ticket : DepsSatisfied(tk, u) => DepsSatisfied(tk', u) BY <1>4, DepsStay
  <2>2. ASSUME NEW u \in Ticket, tk'[u].status \in Working \/ tk'[u].active > 0 \/ LiveAt(u)'
        PROVE  DepsSatisfied(tk', u)
    <3>1. CASE u = t BY <1>1, <1>2, <2>1, <3>1 DEF DepsOK
    <3>2. CASE u # t
      <4>1. "pending" \notin Working /\ ~(0 > 0) BY DEF Working, Claimable
      <4> QED BY <1>3, <1>5, <2>1, <2>2, <3>2, <4>1 DEF DepsOK
    <3> QED BY <3>1, <3>2
  <2> QED BY <1>1, <2>1, <2>2 DEF DepsOK
<1> QED BY <1>4, <1>13, <1>14

\* The pass deals with a ticket.
LEMMA WorkPass ==
  ASSUME Types, QueueOK, JobsOK, GoneOK, DepsOK, NEW t \in Ticket,
         PassStep(t), PassMore(t), pc # "count"
  PROVE  Stays /\ GoneOK' /\ DepsOK'
<1>1. UNCHANGED <<gl, job, snap, opt, pc>> /\ todo' \subseteq todo BY DEF PassStep
<1>2. \A u \in Ticket : u # t => tk'[u] = tk[u] BY DEF PassStep, OnlyTicket
<1>3. t \in hands => t \in todo /\ pc \in QueuePhases /\ tk[t].status = "proposed"
  BY DEF QueueOK, QueuePhases
<1>4. pc \in QueuePhases /\ t \in todo \cup hands => tk[t].status = "proposed"
  BY <1>3 DEF QueueOK
<1>5. Stays
  <2>1. tk[t].status \in Landed => tk'[t].status = tk[t].status
    BY <1>3 DEF PassMore, Keeps, Landed, Terminal
  <2> QED BY <1>2, <2>1 DEF Stays
<1>6. \A u \in Ticket : LiveAt(u)' <=> LiveAt(u) BY <1>1 DEF LiveAt, IsLive
<1>7. GoalOf[t] \in Goal BY GraphAssumption
<1>8. ASSUME LiveAt(t), Gone(t)' PROVE FALSE
  <2>1. ~Gone(t) BY <1>8 DEF GoneOK
  <2>2. tk[t].status \notin Held /\ tk[t].status \notin Landed /\ t \notin hands
    BY <1>3, <2>1 DEF Gone, Held
  <2>3. tk'[t].status \notin Held BY <2>2 DEF PassStep
  <2>4. tk'[t].status \notin Landed BY <2>2 DEF PassMore, Keeps
  <2>5. tk'[t].status = "failed" /\ ~gl[GoalOf[t]].over BY <1>1, <1>8, <2>3, <2>4 DEF Gone
  <2>6. tk[t].status # "failed" BY <2>1, <2>5 DEF Gone
  <2>7. InFlight(t) > 0
    <3>1. ~(InFlight(t) < 1) BY <1>8, NoneInFlight DEF LiveAt
    <3>2. InFlight(t) \in Nat
      <4>1. IsFiniteSet(Ticket) BY GraphAssumption, FS_Interval DEF Ticket
      <4>2. IsFiniteSet(1..Slots) BY OptionsAssumption, FS_Interval
      <4>3. IsFiniteSet(Attempt) BY <4>1, <4>2, FS_Product DEF Attempt
      <4>4. {w \in Live : TicketOf(w) = t} \subseteq Attempt BY DEF Live
      <4>5. IsFiniteSet({w \in Live : TicketOf(w) = t}) BY <4>3, <4>4, FS_Subset
      <4> QED BY <4>5, FS_CardinalityType DEF InFlight
    <3> QED BY <3>1, <3>2
  <2>8. ~(pc = "blocked" /\ t \in todo) BY <1>8 DEF GoneOK
  <2>9. ~(pc \in QueuePhases /\ t \in todo \cup hands) BY <1>4, <2>2 DEF Held
  <2>10. pc = "budget" /\ t \in todo /\ GoalOf[t] \notin Tripping
    BY <2>5, <2>6, <2>7, <2>8, <2>9 DEF PassMore
  <2>11. gl[GoalOf[t]].over BY <1>7, <2>10 DEF GoneOK, Tripping
  <2> QED BY <2>5, <2>11
<1>9. GoneOK'
  <2>1. \A u \in Ticket : u # t => (Gone(u)' <=> Gone(u)) BY <1>1, <1>2 DEF Gone
  <2>2. \A u \in Ticket : LiveAt(u)' => ~Gone(u)' BY <1>6, <1>8, <2>1 DEF GoneOK
  <2>3. pc' = "blocked" => \A u \in todo' \cap Ticket : ~LiveAt(u)' BY <1>1, <1>6 DEF GoneOK
  <2>4. pc' = "budget" =>
           /\ \A u \in todo' \cap Ticket : Exceeded(snap.gl, GoalOf[u])'
           /\ \A g \in Goal : snap'.gl[g].over => gl'[g].over
    BY <1>1 DEF GoneOK, Exceeded, Budget
  <2>5. pc' # "count" BY <1>1
  <2> QED BY <2>2, <2>3, <2>4, <2>5 DEF GoneOK
<1>10. DepsOK'
  <2>1. \A u \in Ticket : DepsSatisfied(tk, u) => DepsSatisfied(tk', u) BY <1>5, DepsStay
  <2>2. ASSUME NEW u \in Ticket, tk'[u].status \in Working \/ tk'[u].active > 0 \/ LiveAt(u)'
        PROVE  DepsSatisfied(tk', u)
    <3>1. CASE u # t BY <1>2, <1>6, <2>1, <2>2, <3>1 DEF DepsOK
    <3>2. CASE u = t
      <4>1. t \in hands => DepsSatisfied(tk, t) BY <1>3 DEF DepsOK, Working
      <4>2. pc \in {"promote", "stall"} /\ t \in todo => DepsSatisfied(tk, t) BY DEF DepsOK
      <4>3. tk'[t].active > 0 => tk[t].active > 0 \/ t \in hands BY DEF PassMore, Keeps
      <4>4. tk'[t].status \in Working =>
              \/ tk[t].status \in Working \/ tk[t].active > 0 \/ t \in hands
              \/ pc \in {"promote", "stall"} /\ t \in todo
        BY DEF PassMore, NoStart
      <4> QED BY <1>6, <2>1, <2>2, <3>2, <4>1, <4>2, <4>3, <4>4 DEF DepsOK
    <3> QED BY <3>1, <3>2
  <2> QED BY <1>1, <2>1, <2>2 DEF DepsOK
<1> QED BY <1>5, <1>9, <1>10

\* Somebody at a front door, the clock, or the budget.
LEMMA WorkFront ==
  ASSUME Types, JobsOK, GoneOK, DepsOK, FrontStep, FrontMore
  PROVE  Stays /\ GoneOK' /\ DepsOK'
<1>1. UNCHANGED <<job, snap, opt, pc, todo>> BY DEF FrontStep
<1>2. \A u \in Ticket :
        /\ Keeps(tk[u], tk'[u]) /\ NoStart(tk[u], tk'[u])
        /\ tk'[u].status = tk[u].status \/ tk[u].status = "awaiting"
  BY DEF FrontMore
<1>3. Stays BY <1>2 DEF Stays, Landed
<1>4. \A u \in Ticket : LiveAt(u)' <=> LiveAt(u) BY <1>1 DEF LiveAt, IsLive
<1>5. \A u \in Ticket : GoalOf[u] \in Goal BY GraphAssumption
<1>6. \A g \in Goal : gl[g].over => gl'[g].over BY DEF FrontMore
<1>7. \A u \in Ticket : ~Gone(u) => ~Gone(u)' BY <1>2, <1>5, <1>6 DEF Gone, Held
<1>8. GoneOK'
  <2>1. \A u \in Ticket : LiveAt(u)' => ~Gone(u)' BY <1>4, <1>7 DEF GoneOK
  <2>2. pc' = "count" =>
          \A u \in Ticket : snap'.tk[u].status \in Claimable /\ ~LiveAt(u)' => ~Gone(u)'
    BY <1>1, <1>4, <1>7 DEF GoneOK
  <2>3. pc' = "blocked" => \A u \in todo' \cap Ticket : ~LiveAt(u)' BY <1>1, <1>4 DEF GoneOK
  <2>4. pc' = "budget" =>
           /\ \A u \in todo' \cap Ticket : Exceeded(snap.gl, GoalOf[u])'
           /\ \A g \in Goal : snap'.gl[g].over => gl'[g].over
    BY <1>1, <1>6 DEF GoneOK, Exceeded, Budget
  <2> QED BY <2>1, <2>2, <2>3, <2>4 DEF GoneOK
<1>9. DepsOK'
  <2>1. \A u \in Ticket : DepsSatisfied(tk, u) => DepsSatisfied(tk', u) BY <1>3, DepsStay
  <2>2. \A u \in Ticket : tk'[u].status \in Working \/ tk'[u].active > 0 \/ LiveAt(u)'
                            => DepsSatisfied(tk', u)
    BY <1>2, <1>4, <2>1 DEF DepsOK, Keeps, NoStart
  <2> QED BY <1>1, <2>1, <2>2 DEF DepsOK
<1> QED BY <1>3, <1>8, <1>9

\* Attempts are launched at tickets that were found ready and have none.
LEMMA WorkLaunch ==
  ASSUME Types, OneByOne, JobsOK, GoneOK, DepsOK, Launch
  PROVE  Stays /\ GoneOK' /\ DepsOK'
<1>1. pc = "count" /\ pc' \in {"join", "launch"} /\ UNCHANGED <<tk, gl>>
  BY DEF Launch, ReturnFromRun, logVars
<1>2. PICK L \in SUBSET Dispatchable :
        job' = [w \in Attempt |->
                  IF TicketOf(w) \in L /\ w = FreeSlot(TicketOf(w))
                  THEN [NoJob EXCEPT !.pc = "claim", !.number = snap.tk[TicketOf(w)].attempts + 1]
                  ELSE job[w]]
  BY DEF Launch
<1>3. \A w \in Attempt : job'[w].pc = job[w].pc \/ TicketOf(w) \in L BY <1>2
<1>4. ASSUME NEW t \in L
      PROVE  ~Gone(t) /\ DepsSatisfied(tk, t)
  <2>1. /\ t \in Ticket /\ InFlight(t) < 1 /\ snap.tk[t].status \in Claimable
    BY DEF Dispatchable, ReadyTickets, OneByOne, Claimable
  <2>2. ~LiveAt(t) BY <2>1, NoneInFlight DEF LiveAt
  <2> QED BY <1>1, <2>1, <2>2 DEF GoneOK, DepsOK
<1>5. \A t \in Ticket : LiveAt(t)' => LiveAt(t) \/ t \in L BY <1>3 DEF LiveAt, IsLive
<1>6. Stays BY <1>1 DEF Stays
<1>7. \A t \in Ticket : Gone(t)' <=> Gone(t) BY <1>1 DEF Gone
<1>8. GoneOK' BY <1>1, <1>4, <1>5, <1>7 DEF GoneOK
<1>9. DepsOK' BY <1>1, <1>4, <1>5 DEF DepsOK
<1> QED BY <1>6, <1>8, <1>9

\* What the next step of the pass finds when it reads the log.
LEMMA WorkAdvance ==
  ASSUME Types, JobsOK, GoneOK, DepsOK, Advance
  PROVE  Stays /\ GoneOK' /\ DepsOK'
<1>1. UNCHANGED <<tk, gl, job, opt>> BY DEF Advance, logVars
<1>2. PICK p \in {NextPhase} : Load(p) BY DEF Advance
<1>3. pc' = p /\ todo' = Work(p) BY <1>2 DEF Load
<1>4. p \in {"budget", "count"} => snap' = [tk |-> tk, gl |-> gl, grew |-> grew]
  BY <1>2 DEF Load
<1>5. Stays BY <1>1 DEF Stays
<1>6. \A t \in Ticket : (LiveAt(t)' <=> LiveAt(t)) /\ (Gone(t)' <=> Gone(t))
  BY <1>1 DEF LiveAt, IsLive, Gone
<1>7. ASSUME p = "blocked", NEW t \in todo' \cap Ticket PROVE ~LiveAt(t)
  <2>1. DeadDependency(tk, t) BY <1>3, <1>7 DEF Work, Blocked
  <2>2. PICK u \in Deps[t] : TicketDead(tk)[u] BY <2>1 DEF DeadDependency
  <2>3. u \in Ticket BY GraphAssumption
  <2>4. ~DepsSatisfied(tk, t) BY <2>2, <2>3, NeverBoth DEF DepsSatisfied
  <2> QED BY <2>4 DEF DepsOK
<1>8. ASSUME p = "budget", NEW t \in todo' \cap Ticket PROVE Exceeded(gl, GoalOf[t])
  BY <1>3, <1>8 DEF Work
<1>9. GoneOK'
  <2>1. \A t \in Ticket : LiveAt(t)' => ~Gone(t)' BY <1>6 DEF GoneOK
  <2>2. pc' = "count" =>
          \A t \in Ticket : snap'.tk[t].status \in Claimable /\ ~LiveAt(t)' => ~Gone(t)'
    BY <1>1, <1>3, <1>4, <1>6 DEF Gone, Claimable, Held, Landed
  <2>3. pc' = "blocked" => \A t \in todo' \cap Ticket : ~LiveAt(t)' BY <1>3, <1>6, <1>7
  <2>4. pc' = "budget" =>
           /\ \A t \in todo' \cap Ticket : Exceeded(snap.gl, GoalOf[t])'
           /\ \A g \in Goal : snap'.gl[g].over => gl'[g].over
    BY <1>1, <1>3, <1>4, <1>8 DEF Exceeded, Budget
  <2> QED BY <2>1, <2>2, <2>3, <2>4 DEF GoneOK
<1>10. DepsOK'
  <2>1. \A t \in Ticket : tk'[t].status \in Working \/ tk'[t].active > 0 \/ LiveAt(t)'
                            => DepsSatisfied(tk, t)
    BY <1>1, <1>6 DEF DepsOK
  <2>2. ASSUME p \in {"promote", "stall"}, NEW t \in todo' \cap Ticket PROVE DepsSatisfied(tk, t)
    <3>1. CASE p = "promote" BY <1>3, <2>2, <3>1 DEF Work, NewlyReady
    <3>2. CASE p = "stall"
      <4>1. tk[t].status \in Working BY <1>3, <2>2, <3>2 DEF Work, Working, Claimable
      <4> QED BY <4>1 DEF DepsOK
    <3> QED BY <2>2, <3>1, <3>2
  <2>3. pc' = "count" => \A t \in Ticket : snap'.tk[t].status \in Claimable => DepsSatisfied(tk, t)
    BY <1>3, <1>4 DEF DepsOK, Working
  <2> QED BY <1>1, <1>3, <2>1, <2>2, <2>3 DEF DepsOK
<1> QED BY <1>5, <1>9, <1>10

\* The pass moves on, or ends, without a new look at the log.
LEMMA WorkMoves ==
  ASSUME Types, JobsOK, GoneOK, DepsOK,
         \/ Start \/ BeginPass \/ TakeBatch \/ EndPass \/ Join
         \/ SchedulerFails \/ Crash \/ \E t \in Ticket : DecisionLost(t)
  PROVE  Stays /\ GoneOK' /\ DepsOK'
<1>1. /\ UNCHANGED <<tk, gl>>
      /\ pc' \in {"pass", "begin", "down", "outcomes", "join"}
      /\ job' = job \/ job' = [w \in Attempt |-> NoJob]
  BY DEF Start, BeginPass, TakeBatch, EndPass, Join, SchedulerFails, Crash, DecisionLost,
         ReturnFromRun, logVars
<1>2. \A w \in Attempt : IsLive(w)' => IsLive(w) BY <1>1 DEF IsLive, NoJob
<1>3. \A t \in Ticket : LiveAt(t)' => LiveAt(t) BY <1>2 DEF LiveAt
<1>4. \A t \in Ticket : Gone(t)' <=> Gone(t) BY <1>1 DEF Gone
<1>5. GoneOK' BY <1>1, <1>3, <1>4 DEF GoneOK
<1>6. DepsOK' BY <1>1, <1>3 DEF DepsOK
<1> QED BY <1>1, <1>5, <1>6 DEF Stays

\* Every step keeps both, and what landed.
LEMMA WorkKept ==
  ASSUME Types, OneByOne, QueueOK, JobsOK, GoneOK, DepsOK, Next
  PROVE  Stays /\ GoneOK' /\ DepsOK'
<1>1. CASE \/ Start \/ BeginPass \/ TakeBatch \/ EndPass \/ Join
           \/ SchedulerFails \/ Crash \/ \E t \in Ticket : DecisionLost(t)
  BY <1>1, WorkMoves
<1>2. CASE Launch BY <1>2, WorkLaunch
<1>3. CASE Advance BY <1>3, WorkAdvance
<1>4. CASE \/ \E g \in Goal : Submit(g) \/ Cancel(g) \/ TripBudget(g)
           \/ \E t \in Ticket : Approve(t) \/ Deny(t) \/ Elapse(t)
  BY <1>4, FrontWork, FrontKeeps, WorkFront
<1>5. ASSUME NEW t \in Ticket,
             \/ CreateTicket(t) \/ EnforceCancellation(t) \/ EnforceBudget(t) \/ Promote(t)
             \/ FailBlocked(t) \/ RestartStalled(t)
      PROVE  Stays /\ GoneOK' /\ DepsOK'
  <2>1. pc # "count"
    BY <1>5 DEF CreateTicket, EnforceCancellation, EnforceBudget, Promote, FailBlocked,
                RestartStalled
  <2> QED BY <1>5, <2>1, PassWork, PassKeeps, WorkPass
<1>6. ASSUME NEW t \in Ticket,
             \/ TakeProposal(t) \/ DropFromBatch(t) \/ Merge(t) \/ Park(t)
             \/ \E r \in Reasons : Reject(t, r)
      PROVE  Stays /\ GoneOK' /\ DepsOK'
  <2>1. pc # "count"
    BY <1>6 DEF TakeProposal, DropFromBatch, Merge, Park, Reject, NextOutcome
  <2> QED BY <1>6, <2>1, QueueWork, QueueKeeps, WorkPass
<1>7. ASSUME NEW w \in Attempt, Dispatch(w) \/ Beat(w) \/ EmitFails(w)
      PROVE  Stays /\ GoneOK' /\ DepsOK'
  <2>1. JobStep(w) BY <1>7, AttemptGoesOn, AttemptEnds DEF Dispatch
  <2> QED BY <1>7, <2>1, JobKeeps, WorkJob DEF OneByOne
<1> QED BY <1>1, <1>2, <1>3, <1>4, <1>5, <1>6, <1>7 DEF Next, Reconcile, FrontDoor

\* And no step brings a ticket back from an end state.
LEMMA NoReturn ==
  ASSUME Types, OneByOne, QueueOK, JobsOK, GoneOK, DepsOK, Next
  PROVE  \A t \in Ticket : StaysTerminal(t) \/ gl[GoalOf[t]].over
<1> SUFFICES ASSUME NEW t \in Ticket, tk[t].status \in Terminal, ~gl[GoalOf[t]].over
             PROVE  tk'[t].status = tk[t].status
  BY DEF StaysTerminal
<1>0. Gone(t) /\ ~LiveAt(t) /\ tk[t].status \notin Held
  BY DEF Gone, GoneOK, Terminal, Landed, Held
<1>1. CASE MoveStep BY <1>1 DEF MoveStep
<1>2. CASE \/ \E g \in Goal : Submit(g) \/ Cancel(g) \/ TripBudget(g)
           \/ \E u \in Ticket : Approve(u) \/ Deny(u) \/ Elapse(u)
  BY <1>2, FrontKeeps DEF FrontMore, Keeps
<1>3. ASSUME NEW u \in Ticket, PassStep(u), PassMore(u) PROVE tk'[t].status = tk[t].status
  <2>1. CASE u # t BY <1>3, <2>1 DEF PassStep, OnlyTicket
  <2>2. t \notin hands BY <1>0 DEF QueueOK, QueuePhases, Held
  <2> QED BY <1>3, <2>1, <2>2 DEF PassMore, Keeps
<1>4. ASSUME NEW w \in Attempt, JobStep(w), JobMore(w) PROVE tk'[t].status = tk[t].status
  <2>1. t # TicketOf(w) BY <1>0, <1>4 DEF LiveAt, IsLive, JobStep
  <2> QED BY <1>4, <2>1 DEF JobMore, Terminal
<1>5. CASE \/ Start \/ BeginPass \/ Advance \/ Launch \/ TakeBatch \/ EndPass \/ Join
           \/ SchedulerFails \/ Crash \/ \E u \in Ticket : DecisionLost(u)
  BY <1>1, <1>5, Moves
<1>6. ASSUME NEW u \in Ticket,
             \/ CreateTicket(u) \/ EnforceCancellation(u) \/ EnforceBudget(u) \/ Promote(u)
             \/ FailBlocked(u) \/ RestartStalled(u)
      PROVE  tk'[t].status = tk[t].status
  BY <1>3, <1>6, PassWork, PassKeeps
<1>7. ASSUME NEW u \in Ticket,
             \/ TakeProposal(u) \/ DropFromBatch(u) \/ Merge(u) \/ Park(u)
             \/ \E r \in Reasons : Reject(u, r)
      PROVE  tk'[t].status = tk[t].status
  BY <1>3, <1>7, QueueWork, QueueKeeps
<1>8. ASSUME NEW w \in Attempt, Dispatch(w) \/ Beat(w) \/ EmitFails(w)
      PROVE  tk'[t].status = tk[t].status
  <2>1. JobStep(w) BY <1>8, AttemptGoesOn, AttemptEnds DEF Dispatch
  <2> QED BY <1>4, <1>8, <2>1, JobKeeps
<1> QED BY <1>2, <1>5, <1>6, <1>7, <1>8 DEF Next, Reconcile, FrontDoor

WorkInv == Types /\ (OneByOne => QueueOK /\ JobsOK /\ GoneOK /\ DepsOK)

\* The invariant holds of the whole system, and is kept.
LEMMA WorkInductive ==
  /\ Init => WorkInv
  /\ WorkInv /\ [Next]_vars => WorkInv'
<1>1. Init => WorkInv BY TypesInit, HoldInit, WorkInit DEF WorkInv
<1>2. ASSUME WorkInv, [Next]_vars PROVE WorkInv'
  <2>1. CASE Next
    <3>1. Types' /\ opt' = opt BY <1>2, <2>1, TypesStep, SameOptions DEF WorkInv
    <3>2. OneByOne' => OneByOne BY <3>1 DEF OneByOne, PromptWorkers, BestOfN
    <3>3. OneByOne => QueueOK' /\ JobsOK' BY <1>2, <2>1, HoldsKept DEF WorkInv
    <3>4. OneByOne => GoneOK' /\ DepsOK' BY <1>2, <2>1, WorkKept DEF WorkInv
    <3> QED BY <3>1, <3>2, <3>3, <3>4 DEF WorkInv
  <2>2. CASE UNCHANGED vars
    <3>1. UNCHANGED <<tk, gl, job, snap, opt, pc, todo, hands>>
      BY <2>2 DEF vars, logVars, passVars
    <3>2. Types' BY <1>2, <3>1 DEF WorkInv, Types
    <3>3. OneByOne' => OneByOne BY <3>1 DEF OneByOne, PromptWorkers, BestOfN
    <3>4. QueueOK /\ JobsOK => QueueOK' /\ JobsOK' BY <3>1 DEF QueueOK, JobsOK, IsLive
    <3>5. \A t \in Ticket : (LiveAt(t)' <=> LiveAt(t)) /\ (Gone(t)' <=> Gone(t))
      BY <3>1 DEF LiveAt, IsLive, Gone
    <3>6. GoneOK => GoneOK' BY <3>1, <3>5 DEF GoneOK, Exceeded, Budget
    <3>7. DepsOK => DepsOK' BY <3>1, <3>5 DEF DepsOK
    <3> QED BY <1>2, <3>2, <3>3, <3>4, <3>6, <3>7 DEF WorkInv
  <2> QED BY <1>2, <2>1, <2>2
<1> QED BY <1>1, <1>2

-----------------------------------------------------------------------------
(* The promises *)

\* Work starts on a ticket only when all it depends on has landed: from its
\* promotion until it is merged no dependency of it is missing, whatever splits,
\* restarts, stale reads, crashes and lost appends happen on the way.
THEOREM WorkWaits == Spec => []WorkAfterDeps
<1>1. WorkInv => WorkAfterDeps
  BY DEF WorkInv, WorkAfterDeps, DepsOK, Working, Claimable
<1> QED BY <1>1, WorkInductive, PTL DEF Spec

\* No event brings a ticket back from an end state, unless its goal's budget has
\* tripped, although four events are applied to a ticket of any status.
THEOREM EndStatesHold == Spec => TerminalStays
<1>1. WorkInv /\ [Next]_vars =>
        [OneByOne => \A t \in Ticket : StaysTerminal(t) \/ gl[GoalOf[t]].over]_vars
  BY NoReturn DEF WorkInv
<1> QED BY <1>1, WorkInductive, PTL DEF Spec, TerminalStays

-----------------------------------------------------------------------------
(* Attempts are counted *)

Busy == {"claimed", "running"}

\* y is x after an event that counts no attempt, adds no worker, proposes
\* nothing and calls no ticket busy that has no worker.
Calm(x, y) ==
  /\ y.attempts = x.attempts
  /\ y.active \in {0, x.active}
  /\ y.status = "none" => x.status = "none"
  /\ y.status \in Held => x.status \in Held
  /\ y.status \in Busy => y.active # 0 \/ (x.status \in Busy /\ y.active = x.active)
  /\ y.status \in Busy /\ y.quiet => x.status \in Busy /\ x.quiet
  /\ y.status \in {"pending", "ready"} =>
       y.worker = Nobody \/ (x.status \in {"pending", "ready"} /\ y.worker = x.worker)

\* Nor does it open the ticket again.
Settles(x, y) == y.status \in Early => x.status \in Early

\* The events of the pass, the front doors and the end of an attempt.
LEMMA CalmEvents ==
  ASSUME NEW x \in Rec, NEW w, NEW r
  PROVE  /\ Calm(x, x) /\ Settles(x, x)
         /\ Calm(x, TicketReady(x)) /\ Settles(x, TicketReady(x))
         /\ Calm(x, Heartbeat(x)) /\ Settles(x, Heartbeat(x))
         /\ Calm(x, ApprovalRequested(x)) /\ Settles(x, ApprovalRequested(x))
         /\ Calm(x, ApprovalGranted(x)) /\ Settles(x, ApprovalGranted(x))
         /\ Calm(x, ApprovalDenied(x)) /\ Settles(x, ApprovalDenied(x))
         /\ Calm(x, TicketInvalidated(x, r)) /\ Settles(x, TicketInvalidated(x, r))
         /\ Calm(x, Merged(x)) /\ Settles(x, Merged(x))
         /\ Calm(x, TicketDecomposed(x)) /\ Settles(x, TicketDecomposed(x))
         /\ Calm(x, TicketFailed(x, w, r))
         /\ (x.status \in Held => x.active = 0) => Settles(x, TicketFailed(x, w, r))
         /\ Calm(x, WorkerRestarted(x, w, r)) /\ Settles(x, WorkerRestarted(x, w, r))
         /\ Calm(x, VerificationFailed(x, w, r))
<1> USE DEF Calm, Settles, Rec, TicketRecord, Early, Held, Busy, RemoveWorker, Worker, Nobody
<1>1. Calm(x, x) /\ Settles(x, x) OBVIOUS
<1>2. Calm(x, TicketReady(x)) /\ Settles(x, TicketReady(x)) BY DEF TicketReady
<1>3. Calm(x, Heartbeat(x)) /\ Settles(x, Heartbeat(x)) BY DEF Heartbeat
<1>4. Calm(x, ApprovalRequested(x)) /\ Settles(x, ApprovalRequested(x)) BY DEF ApprovalRequested
<1>5. Calm(x, ApprovalGranted(x)) /\ Settles(x, ApprovalGranted(x)) BY DEF ApprovalGranted
<1>6. Calm(x, ApprovalDenied(x)) /\ Settles(x, ApprovalDenied(x)) BY DEF ApprovalDenied
<1>7. Calm(x, TicketInvalidated(x, r)) /\ Settles(x, TicketInvalidated(x, r))
  BY DEF TicketInvalidated
<1>8. Calm(x, Merged(x)) /\ Settles(x, Merged(x)) BY DEF Merged
<1>9. Calm(x, TicketDecomposed(x)) /\ Settles(x, TicketDecomposed(x)) BY DEF TicketDecomposed
<1>10. /\ Calm(x, TicketFailed(x, w, r))
       /\ (x.status \in Held => x.active = 0) => Settles(x, TicketFailed(x, w, r))
  <2> DEFINE y == TicketFailed(x, w, r)
  <2>1. /\ y.attempts = x.attempts /\ y.branch = x.branch /\ y.worker = x.worker
        /\ y.active = RemoveWorker(x, w) /\ ~y.quiet
        /\ \/ y.status = x.status /\ x.status \notin Early
           \/ y.status = "failed" /\ y.active = 0
           \/ y.status = "running" /\ y.active # 0 /\ x.status \in Early \cup Held
    BY DEF TicketFailed
  <2>2. y.active \in {0, x.active} BY <2>1
  <2> HIDE DEF y
  <2>3. Calm(x, y)
    <3>1. y.status = "none" => x.status = "none" BY <2>1
    <3>2. y.status \in Held => x.status \in Held BY <2>1
    <3>3. y.status \in Busy => y.active # 0 BY <2>1
    <3>4. y.status \notin {"pending", "ready"} BY <2>1
    <3> HIDE DEF Rec, TicketRecord, Held, Busy, RemoveWorker
    <3> QED BY <2>1, <2>2, <3>1, <3>2, <3>3, <3>4
  <2>4. (x.status \in Held => x.active = 0) => Settles(x, y) BY <2>1, <2>2
  <2> QED BY <2>3, <2>4 DEF y
<1>11. Calm(x, WorkerRestarted(x, w, r)) /\ Settles(x, WorkerRestarted(x, w, r))
  BY DEF WorkerRestarted
<1>12. Calm(x, VerificationFailed(x, w, r))
  <2> DEFINE y == VerificationFailed(x, w, r)
  <2>a. /\ y.attempts = x.attempts /\ y.worker = Nobody
        /\ y.active = RemoveWorker(x, w) /\ ~y.quiet
    BY DEF VerificationFailed, Streak
  <2>b. \/ y.status = x.status /\ x.status \notin Early
        \/ y.status = "ready"
        \/ y.status = "running" /\ RemoveWorker(x, w) # 0
    <3> HIDE DEF RemoveWorker
    <3> QED BY DEF VerificationFailed
  <2>1. /\ y.attempts = x.attempts /\ y.worker = Nobody
        /\ y.active = RemoveWorker(x, w) /\ ~y.quiet
        /\ \/ y.status = x.status /\ x.status \notin Early
           \/ y.status = "ready"
           \/ y.status = "running" /\ y.active # 0
    <3> HIDE DEF RemoveWorker, y
    <3> QED BY <2>a, <2>b
  <2>2. y.active \in {0, x.active} BY <2>1
  <2> HIDE DEF y
  <2>3. y.status = "none" => x.status = "none" BY <2>1
  <2>4. y.status \in Held => x.status \in Held BY <2>1
  <2>5. y.status \in Busy => y.active # 0 BY <2>1
  <2> HIDE DEF Rec, TicketRecord, Held, Busy, RemoveWorker
  <2>6. Calm(x, y) BY <2>1, <2>2, <2>3, <2>4, <2>5
  <2> QED BY <2>6 DEF y
<1> QED BY <1>1, <1>2, <1>3, <1>4, <1>5, <1>6, <1>7, <1>8, <1>9, <1>10, <1>11, <1>12

\* The events of an attempt that begins, works and proposes.
LEMMA BusyEvents ==
  ASSUME NEW x \in Rec, NEW n, NEW b
  PROVE  LET c == TicketClaimed(x)
             s == WorkStarted(x)
             p == ProposalSubmitted(x, b)
             k == TicketCreated(x, n)
         IN /\ c.attempts = x.attempts + 1 /\ c.active = x.active + 1
            /\ c.status = "claimed" /\ ~c.quiet
            /\ s.attempts = x.attempts /\ s.active = x.active
            /\ s.status = "running" /\ ~s.quiet
            /\ p.attempts = x.attempts /\ p.active = 0 /\ p.status \notin Early
            /\ p.status = "none" => x.status = "none"
            /\ p.status \in Held => x.status \in Held \/ p.branch = b
            /\ x.status # "none" => k = x
            /\ x.status = "none" => /\ k.status = "pending" /\ k.attempts = 0 /\ k.active = 0
                                    /\ k.worker = Nobody
<1> USE DEF Rec, TicketRecord, Early, Held, RemoveWorker, Worker, Nobody
<1>1. /\ TicketClaimed(x).attempts = x.attempts + 1 /\ TicketClaimed(x).active = x.active + 1
      /\ TicketClaimed(x).status = "claimed" /\ ~TicketClaimed(x).quiet
  BY DEF TicketClaimed
<1>2. /\ WorkStarted(x).attempts = x.attempts /\ WorkStarted(x).active = x.active
      /\ WorkStarted(x).status = "running" /\ ~WorkStarted(x).quiet
  BY DEF WorkStarted
<1>3. /\ ProposalSubmitted(x, b).attempts = x.attempts /\ ProposalSubmitted(x, b).active = 0
      /\ ProposalSubmitted(x, b).status \notin Early
      /\ ProposalSubmitted(x, b).status = "none" => x.status = "none"
      /\ ProposalSubmitted(x, b).status \in Held =>
           x.status \in Held \/ ProposalSubmitted(x, b).branch = b
  BY DEF ProposalSubmitted
<1>4. /\ x.status # "none" => TicketCreated(x, n) = x
      /\ x.status = "none" => /\ TicketCreated(x, n).status = "pending"
                              /\ TicketCreated(x, n).attempts = 0
                              /\ TicketCreated(x, n).active = 0
                              /\ TicketCreated(x, n).worker = Nobody
  BY DEF TicketCreated, NoTicket
<1> QED BY <1>1, <1>2, <1>3, <1>4

\* y is what a creation makes of a ticket x that did not exist.
Fresh(x, y) ==
  /\ x.status = "none" /\ y.status = "pending"
  /\ y.attempts = 0 /\ y.active = 0 /\ y.worker = Nobody

-----------------------------------------------------------------------------
(* The invariant of the counts *)

Cap == MaxAttempts + faults

\* A ticket that may be attempted (again) has an attempt left.
TriesOK ==
  /\ faults \in Nat
  /\ \A t \in Ticket :
       /\ tk[t].attempts <= Cap /\ tk[t].active <= 1
       /\ tk[t].status \in Held => tk[t].active = 0
       /\ tk[t].status \in Early /\ ~LiveAt(t) => tk[t].attempts < Cap

\* A live attempt knows its number and that it is the last worker; what a pass
\* found of a ticket it may launch at, or of a proposal, still stands.
CountOK ==
  /\ \A w \in Attempt : IsLive(w) =>
       LET x == tk[TicketOf(w)]
       IN /\ x.status # "none"
          /\ job[w].pc = "claim" =>
               x.active = 0 /\ job[w].number = x.attempts + 1 /\ x.attempts < Cap
          /\ job[w].pc # "claim" => job[w].number = x.attempts
          /\ job[w].pc = "fail" => job[w].last
  /\ pc = "count" =>
       \A t \in Ticket : snap.tk[t].status \in Claimable /\ ~LiveAt(t) =>
         /\ tk[t].status = snap.tk[t].status /\ tk[t].active = snap.tk[t].active
         /\ tk[t].attempts = snap.tk[t].attempts
  /\ pc \in QueuePhases => \A t \in todo : tk[t] = snap.tk[t]

-----------------------------------------------------------------------------
(* What the steps do to the counts *)

\* The pass opens a ticket again only by rejecting a proposal that has an
\* attempt left.
PassTries(t) ==
  /\ faults' = faults
  /\ Calm(tk[t], tk'[t]) \/ Fresh(tk[t], tk'[t])
  /\ \/ Settles(tk[t], tk'[t]) \/ Fresh(tk[t], tk'[t])
     \/ tk[t].status \in Held /\ tk[t].attempts < MaxAttempts

\* What a pass does with the tickets it found.
LEMMA PassCounts ==
  ASSUME Types, TriesOK, NEW t \in Ticket,
         \/ CreateTicket(t) \/ EnforceCancellation(t) \/ EnforceBudget(t) \/ Promote(t)
         \/ FailBlocked(t) \/ RestartStalled(t)
  PROVE  PassTries(t)
<1> DEFINE x == tk[t]
           c == TicketCreated(x, Cardinality(Created(tk)) + 1)
           f == TicketFailed(x, snap.tk[t].worker, "other")
           s == WorkerRestarted(x, snap.tk[t].worker, NoReason)
<1>0. x \in Rec /\ (x.status \in Held => x.active = 0) BY DEF Types, TriesOK
<1>1. /\ Calm(x, x) /\ Settles(x, x)
      /\ Calm(x, TicketReady(x)) /\ Settles(x, TicketReady(x))
      /\ Calm(x, f) /\ Settles(x, f)
      /\ Calm(x, s) /\ Settles(x, s)
      /\ (Calm(x, c) /\ Settles(x, c)) \/ Fresh(x, c)
  <2>1. (x.status # "none" => c = x) /\ (x.status = "none" => Fresh(x, c))
    BY <1>0, BusyEvents DEF Fresh
  <2> HIDE DEF c, f, s
  <2>2. Calm(x, x) /\ Settles(x, x) /\ Calm(x, TicketReady(x)) /\ Settles(x, TicketReady(x))
    BY <1>0, CalmEvents
  <2>3. Calm(x, f) /\ Settles(x, f) BY <1>0, CalmEvents DEF f
  <2>4. Calm(x, s) /\ Settles(x, s) BY <1>0, CalmEvents DEF s
  <2> QED BY <2>1, <2>2, <2>3, <2>4
<1> HIDE DEF c, f, s
<1>2. faults' = faults
  BY DEF CreateTicket, EnforceCancellation, EnforceBudget, Promote, FailBlocked, RestartStalled
<1>3. tk'[t] \in {x, c, f, s, TicketReady(x)}
  <2>1. CASE CreateTicket(t) BY <2>1, Written DEF CreateTicket, EmitCreated, c
  <2>2. CASE EnforceCancellation(t)
    BY <2>2, Written DEF EnforceCancellation, FailCancelled, logVars, f
  <2>3. CASE EnforceBudget(t) BY <2>3, Written DEF EnforceBudget, f
  <2>4. CASE Promote(t) BY <2>4, Written DEF Promote
  <2>5. CASE FailBlocked(t) BY <2>5, Written DEF FailBlocked, f
  <2>6. CASE RestartStalled(t) BY <2>6, Written DEF RestartStalled, s
  <2> QED BY <2>1, <2>2, <2>3, <2>4, <2>5, <2>6
<1> QED BY <1>1, <1>2, <1>3 DEF PassTries

\* A verdict that is not the last word leaves an attempt.
LEMMA QueueCounts ==
  ASSUME Types, TriesOK, CountOK, QueueOK, NEW t \in Ticket,
         \/ TakeProposal(t) \/ DropFromBatch(t) \/ Merge(t) \/ Park(t)
         \/ \E r \in Reasons : Reject(t, r)
  PROVE  PassTries(t)
<1> DEFINE x == tk[t]
           f(r) == TicketFailed(x, snap.tk[t].worker, r)
           v(r) == VerificationFailed(x, snap.tk[t].worker, r)
<1>0. x \in Rec /\ (x.status \in Held => x.active = 0) BY DEF Types, TriesOK
<1>1. /\ Calm(x, x) /\ Settles(x, x)
      /\ Calm(x, ApprovalRequested(x)) /\ Settles(x, ApprovalRequested(x))
      /\ Calm(x, Merged(x)) /\ Settles(x, Merged(x))
      /\ \A r : Calm(x, f(r)) /\ Settles(x, f(r)) /\ Calm(x, v(r))
  BY <1>0, CalmEvents
<1> HIDE DEF f, v
<1>2. faults' = faults
  BY DEF TakeProposal, DropFromBatch, Merge, Park, Reject, OutcomeDone
<1>3. CASE TakeProposal(t) \/ DropFromBatch(t)
  <2>1. tk'[t] \in {x, f("other")}
    BY <1>3, Written DEF TakeProposal, DropFromBatch, FailCancelled, logVars, f
  <2> QED BY <1>1, <1>2, <2>1 DEF PassTries
<1>4. CASE Merge(t)
  <2>1. tk'[t] = Merged(x) BY <1>4, Written DEF Merge
  <2> QED BY <1>1, <1>2, <2>1 DEF PassTries
<1>5. CASE Park(t)
  <2>1. tk'[t] = ApprovalRequested(x) BY <1>5, Written DEF Park
  <2> QED BY <1>1, <1>2, <2>1 DEF PassTries
<1>6. ASSUME NEW r \in Reasons, Reject(t, r) PROVE PassTries(t)
  <2>1. t \in hands /\ pc \in QueuePhases /\ RejectOrFail(t, r)
    BY <1>6 DEF Reject, NextOutcome, First, QueuePhases
  <2>2. x = snap.tk[t] /\ x.status = "proposed"
    BY <2>1 DEF QueueOK, CountOK
  <2>3. x.status \in Held /\ x.active = 0 BY <1>0, <2>2 DEF Held
  <2>4. \/ tk'[t] = f(r)
        \/ tk'[t] = v(r) /\ ~GivesUp(x, r)
    BY <2>1, <2>2, Written DEF RejectOrFail, f, v
  <2>5. ~GivesUp(x, r) => x.attempts < MaxAttempts
    <3>1. x.attempts \in Nat BY <1>0 DEF Rec, TicketRecord
    <3>2. MaxAttempts \in Nat BY OptionsAssumption DEF Types, OptionsRecord, MaxAttempts
    <3> HIDE DEF x
    <3> QED BY <2>3, <3>1, <3>2 DEF GivesUp
  <2> QED BY <1>1, <1>2, <2>3, <2>4, <2>5 DEF PassTries
<1> QED BY <1>3, <1>4, <1>5, <1>6

\* Attempt w takes a step: it claims its ticket, goes on, or ends; and when it
\* ends without a fault it leaves an attempt to the ticket, if that is still open.
JobClaims(w) ==
  LET x == tk[TicketOf(w)]
      y == tk'[TicketOf(w)]
  IN /\ job[w].pc = "claim" /\ job'[w].pc = "tree" /\ job'[w].number = job[w].number
     /\ y.attempts = x.attempts + 1 /\ y.active = x.active + 1
     /\ y.status = "claimed" /\ ~y.quiet

JobGoesOn(w) ==
  LET x == tk[TicketOf(w)]
      y == tk'[TicketOf(w)]
  IN /\ job[w].pc # "claim" /\ job'[w].pc \notin {"claim", "off", "exit"}
     /\ job'[w].number = job[w].number /\ (job'[w].pc = "fail" => job'[w].last)
     /\ y.attempts = x.attempts /\ y.active = x.active
     /\ \/ y.status = x.status /\ (y.quiet => x.quiet) /\ y.worker = x.worker
        \/ y.status = "running" /\ ~y.quiet

JobEnds(w) ==
  LET x == tk[TicketOf(w)]
      y == tk'[TicketOf(w)]
  IN /\ job'[w].pc \in {"off", "exit"}
     /\ \/ Calm(x, y)
        \/ /\ y.attempts = x.attempts /\ y.active = 0 /\ y.status \notin Early
           /\ y.status = "none" => x.status = "none"
     /\ y.status \in Early => faults' = faults + 1 \/ x.attempts < MaxAttempts

JobTries(w) ==
  /\ faults' \in {faults, faults + 1}
  /\ \A u \in Ticket : u # TicketOf(w) => tk'[u] = tk[u] \/ Fresh(tk[u], tk'[u])
  /\ JobClaims(w) \/ JobGoesOn(w) \/ JobEnds(w)

\* The steps of an attempt are of these three kinds.
LEMMA JobCounts ==
  ASSUME Types, TriesOK, CountOK, JobsOK, NEW w \in Attempt,
         Dispatch(w) \/ Beat(w) \/ EmitFails(w)
  PROVE  JobTries(w)
<1> DEFINE t == TicketOf(w)
           x == tk[TicketOf(w)]
<1>0. t \in Ticket /\ x \in Rec /\ x.active <= 1 BY Attempts DEF TriesOK
<1>1. ASSUME EndJob(w), job[w].pc # "off" PROVE job'[w].pc \in {"off", "exit"}
  BY <1>1, IsOver
<1>2. ASSUME NEW y, EmitTicket(t, y)
      PROVE  tk'[t] = y /\ \A u \in Ticket : u # t => tk'[u] = tk[u]
  BY <1>0, <1>2, Written DEF EmitTicket, Types
<1>3. job[w] \in Job BY DEF Types
<1>4. CASE Claim(w)
  <2>1. /\ faults' = faults /\ EmitTicket(t, TicketClaimed(x)) /\ job[w].pc = "claim"
        /\ job' = [job EXCEPT ![w].pc = "tree", ![w].branch = x.attempts + 1]
    BY <1>4 DEF Claim
  <2>2. job'[w].pc = "tree" /\ job'[w].number = job[w].number
    BY <1>3, <2>1 DEF Types, Job
  <2>3. JobClaims(w) BY <1>0, <1>2, <2>1, <2>2, BusyEvents DEF JobClaims
  <2> QED BY <1>2, <2>1, <2>3 DEF JobTries
<1>5. CASE AddWorktree(w) \/ AgentFails(w) \/ Commit(w) \/ Split(w) \/ ReadIsLast(w)
  <2>1. /\ UNCHANGED <<tk, faults>> /\ job[w].pc \notin {"claim", "fail"}
        /\ \E p \in {"start", "failing", "propose", "split", "nosplit", "fail"} :
             \/ job' = [job EXCEPT ![w].pc = p] /\ p # "fail"
             \/ job' = [job EXCEPT ![w].pc = "fail", ![w].last = x.active <= 1]
    BY <1>5 DEF AddWorktree, AgentFails, Commit, Split, ReadIsLast, Goto, logVars
  <2>2. /\ job'[w].pc \in {"start", "failing", "propose", "split", "nosplit", "fail"}
        /\ job'[w].number = job[w].number /\ (job'[w].pc = "fail" => job'[w].last)
    BY <1>0, <1>3, <2>1 DEF Types, Job
  <2>3. JobGoesOn(w) BY <2>1, <2>2 DEF JobGoesOn
  <2> QED BY <2>1, <2>3 DEF JobTries
<1>6. CASE StartWork(w)
  <2>1. /\ faults' = faults /\ EmitTicket(t, WorkStarted(x)) /\ job[w].pc = "start"
        /\ job' = [job EXCEPT ![w].pc = "run", ![w].ran = TRUE]
    BY <1>6 DEF StartWork
  <2>2. job'[w].pc = "run" /\ job'[w].number = job[w].number
    BY <1>3, <2>1 DEF Types, Job
  <2>3. JobGoesOn(w) BY <1>0, <1>2, <2>1, <2>2, BusyEvents DEF JobGoesOn
  <2> QED BY <1>2, <2>1, <2>3 DEF JobTries
<1>7. CASE Beat(w)
  <2>1. /\ faults' = faults /\ EmitTicket(t, Heartbeat(x)) /\ job[w].pc = "run" /\ job' = job
    BY <1>7 DEF Beat
  <2>2. /\ Heartbeat(x).attempts = x.attempts /\ Heartbeat(x).active = x.active
        /\ Heartbeat(x).status = x.status /\ ~Heartbeat(x).quiet /\ Heartbeat(x).worker = x.worker
    BY <1>0 DEF Heartbeat, Rec, TicketRecord
  <2>3. JobGoesOn(w) BY <1>2, <2>1, <2>2 DEF JobGoesOn
  <2> QED BY <1>2, <2>1, <2>3 DEF JobTries
<1>8. CASE CreateChild(w)
  <2>1. /\ faults' = faults /\ job' = job /\ job[w].pc = "split"
        /\ \E u \in Unborn(w) : EmitCreated(u)
    BY <1>8 DEF CreateChild
  <2>2. PICK u \in Unborn(w) : EmitCreated(u) BY <2>1
  <2>3. u \in Ticket /\ tk[u].status = "none" /\ u # t /\ tk[u] \in Rec
    BY <1>0, <2>2, GraphAssumption DEF Unborn, Created, Ticket, Types
  <2>4. /\ tk'[u] = TicketCreated(tk[u], Cardinality(Created(tk)) + 1)
        /\ \A v \in Ticket : v # u => tk'[v] = tk[v]
    BY <2>2, <2>3, Written DEF EmitCreated, EmitTicket, Types
  <2>5. Fresh(tk[u], tk'[u]) BY <2>3, <2>4, BusyEvents DEF Fresh
  <2>6. JobGoesOn(w) BY <1>0, <2>1, <2>3, <2>4 DEF JobGoesOn
  <2> QED BY <2>1, <2>4, <2>5, <2>6 DEF JobTries
<1>9. CASE Propose(w)
  <2>1. /\ faults' = faults /\ EmitTicket(t, ProposalSubmitted(x, job[w].branch))
        /\ EndJob(w) /\ job[w].pc = "propose"
    BY <1>9 DEF Propose
  <2>2. JobEnds(w) BY <1>0, <1>1, <1>2, <2>1, BusyEvents DEF JobEnds
  <2> QED BY <1>2, <2>1, <2>2 DEF JobTries
<1>10. CASE Invalidate(w)
  <2>1. /\ faults' = faults + 1 /\ EmitTicket(t, TicketInvalidated(x, "other"))
        /\ EndJob(w) /\ job[w].pc = "run"
    BY <1>10 DEF Invalidate
  <2>2. JobEnds(w) BY <1>0, <1>1, <1>2, <2>1, CalmEvents DEF JobEnds
  <2> QED BY <1>2, <2>1, <2>2 DEF JobTries
<1>11. CASE FailDecompose(w)
  <2>1. /\ faults' = faults /\ EmitTicket(t, TicketFailed(x, Worker, "other"))
        /\ EndJob(w) /\ job[w].pc = "nosplit"
    BY <1>11 DEF FailDecompose
  <2>2. TicketFailed(x, Worker, "other").status \notin Early
    BY <1>0 DEF TicketFailed, RemoveWorker, Rec, TicketRecord, Early
  <2>3. JobEnds(w) BY <1>0, <1>1, <1>2, <2>1, <2>2, CalmEvents DEF JobEnds
  <2> QED BY <1>2, <2>1, <2>3 DEF JobTries
<1>12. CASE Decompose(w)
  <2>1. /\ faults' = faults /\ EmitTicket(t, TicketDecomposed(x))
        /\ EndJob(w) /\ job[w].pc = "split"
    BY <1>12 DEF Decompose
  <2>2. TicketDecomposed(x).status \notin Early
    BY <1>0 DEF TicketDecomposed, Rec, TicketRecord, Early
  <2>3. JobEnds(w) BY <1>0, <1>1, <1>2, <2>1, <2>2, CalmEvents DEF JobEnds
  <2> QED BY <1>2, <2>1, <2>3 DEF JobTries
<1>13. ASSUME NEW r \in Reasons, FailAttempt(w, r) PROVE JobTries(w)
  <2>1. /\ faults' = faults /\ EndJob(w) /\ job[w].pc = "fail"
        /\ \/ EmitTicket(t, TicketFailed(x, Worker, r))
           \/ EmitTicket(t, WorkerRestarted(x, Worker, r)) /\ ~(job[w].last /\ job[w].number >= MaxAttempts)
    BY <1>13 DEF FailAttempt
  <2>2. job[w].last /\ job[w].number = x.attempts BY <2>1 DEF CountOK, IsLive
  <2>3. TicketFailed(x, Worker, r).status \notin Early
    BY <1>0 DEF TicketFailed, RemoveWorker, Rec, TicketRecord, Early
  <2>4. ~(job[w].number >= MaxAttempts) => x.attempts < MaxAttempts
    <3>1. x.attempts \in Nat BY <1>0 DEF Rec, TicketRecord
    <3>2. MaxAttempts \in Nat BY OptionsAssumption DEF Types, OptionsRecord, MaxAttempts
    <3> QED BY <2>2, <3>1, <3>2
  <2>5. JobEnds(w) BY <1>0, <1>1, <1>2, <2>1, <2>2, <2>3, <2>4, CalmEvents DEF JobEnds
  <2> QED BY <1>2, <2>1, <2>5 DEF JobTries
<1>14. CASE Exit(w)
  BY <1>14 DEF Exit, JobsOK
<1>15. CASE EmitFails(w)
  <2>1. tk' = tk /\ faults' = faults + 1 /\ EndJob(w) /\ job[w].pc # "off"
    BY <1>15 DEF EmitFails, logVars
  <2>2. JobEnds(w) BY <1>0, <1>1, <2>1, CalmEvents DEF JobEnds
  <2> QED BY <2>1, <2>2 DEF JobTries
<1> QED BY <1>4, <1>5, <1>6, <1>7, <1>8, <1>9, <1>10, <1>11, <1>12, <1>13, <1>14, <1>15
        DEF Dispatch

-----------------------------------------------------------------------------
(* The counts are kept *)

\* Faults only add to what a ticket may be attempted.
LEMMA Caps ==
  ASSUME Types, TriesOK, opt' = opt, faults' \in {faults, faults + 1}
  PROVE  /\ Cap \in Nat /\ Cap' \in Nat /\ faults' \in Nat
         /\ Cap <= Cap' /\ (faults' = faults + 1 => Cap < Cap')
         /\ MaxAttempts \in Nat /\ 0 < MaxAttempts /\ MaxAttempts <= Cap
<1>1. MaxAttempts \in Nat /\ 0 < MaxAttempts
  BY OptionsAssumption DEF Types, OptionsRecord, MaxAttempts
<1>2. MaxAttempts' = MaxAttempts BY DEF MaxAttempts
<1>3. faults \in Nat BY DEF TriesOK
<1>4. Cap = MaxAttempts + faults /\ Cap' = MaxAttempts + faults' BY <1>2 DEF Cap
<1>5. faults' = faults \/ faults' = faults + 1 OBVIOUS
<1> DEFINE m == MaxAttempts
           c == Cap
           d == Cap'
           e == faults'
<1> HIDE DEF m, c, d, e
<1>6. m \in Nat /\ 0 < m BY <1>1 DEF m
<1>7. faults \in Nat /\ c = m + faults /\ d = m + e /\ (e = faults \/ e = faults + 1)
  BY <1>3, <1>4, <1>5 DEF m, c, d, e
<1>8. /\ c \in Nat /\ d \in Nat /\ e \in Nat /\ c <= d /\ (e = faults + 1 => c < d) /\ m <= c
  BY <1>6, <1>7
<1> QED BY <1>6, <1>8 DEF m, c, d, e

\* The counts of a ticket are numbers.
LEMMA Tallies ==
  ASSUME Types
  PROVE  \A t \in Ticket : tk[t].attempts \in Nat /\ tk[t].active \in Nat
<1>1. \A t \in Ticket : tk[t] \in Rec BY DEF Types
<1> QED BY <1>1 DEF Rec, TicketRecord

\* The pass deals with a ticket.
LEMMA TriesPass ==
  ASSUME Types, QueueOK, JobsOK, TriesOK, CountOK, NEW t \in Ticket,
         PassStep(t), PassTries(t), pc # "count"
  PROVE  TriesOK' /\ CountOK'
<1>1. UNCHANGED <<job, snap, opt, pc, faults>> BY DEF PassStep, PassTries
<1>2. \A u \in Ticket : u # t => tk'[u] = tk[u] BY DEF PassStep, OnlyTicket
<1>3. \A u \in Ticket : LiveAt(u)' <=> LiveAt(u) BY <1>1 DEF LiveAt, IsLive
<1>4. Cap' = Cap /\ Cap \in Nat /\ MaxAttempts \in Nat /\ 0 < MaxAttempts /\ MaxAttempts <= Cap
  BY <1>1, Caps DEF Cap, MaxAttempts
<1>5. tk[t].attempts \in Nat /\ tk[t].active \in Nat BY Tallies
<1>6. /\ tk'[t].attempts <= Cap /\ tk'[t].active <= 1
      /\ tk'[t].status \in Held => tk'[t].active = 0
      /\ tk'[t].status \in Early /\ ~LiveAt(t) => tk'[t].attempts < Cap
  <2>1. CASE Fresh(tk[t], tk'[t])
    <3>1. tk'[t].status \notin Held BY <2>1 DEF Fresh, Held
    <3> QED BY <1>4, <2>1, <3>1 DEF Fresh
  <2>2. CASE Calm(tk[t], tk'[t]) /\ ~Fresh(tk[t], tk'[t])
    <3>1. /\ tk'[t].attempts = tk[t].attempts /\ tk'[t].active \in {0, tk[t].active}
          /\ tk'[t].status \in Held => tk[t].status \in Held
      BY <2>2 DEF Calm
    <3>2. /\ tk[t].attempts <= Cap /\ tk[t].active <= 1
          /\ tk[t].status \in Held => tk[t].active = 0
          /\ tk[t].status \in Early /\ ~LiveAt(t) => tk[t].attempts < Cap
      BY DEF TriesOK
    <3>3. tk'[t].status \in Early => tk[t].status \in Early \/ tk[t].attempts < MaxAttempts
      BY <2>2 DEF PassTries, Settles
    <3> QED BY <1>4, <1>5, <3>1, <3>2, <3>3
  <2> QED BY <2>1, <2>2 DEF PassTries
<1>7. TriesOK' BY <1>1, <1>2, <1>3, <1>4, <1>6 DEF TriesOK
<1>8. CountOK'
  <2>1. ASSUME NEW w \in Attempt, IsLive(w)
        PROVE  /\ tk'[TicketOf(w)].status # "none"
               /\ tk'[TicketOf(w)].attempts = tk[TicketOf(w)].attempts
               /\ tk[TicketOf(w)].active = 0 => tk'[TicketOf(w)].active = 0
    <3>1. TicketOf(w) \in Ticket /\ tk[TicketOf(w)].status # "none"
      BY <2>1, Attempts DEF CountOK
    <3> QED BY <1>2, <3>1 DEF PassTries, Calm, Fresh
  <2>2. \A w \in Attempt : IsLive(w)' <=> IsLive(w) BY <1>1 DEF IsLive
  <2>3. pc \in QueuePhases => \A u \in todo' : tk'[u] = snap.tk[u]
    <3>1. CASE todo' = todo \ {t} BY <1>2, <3>1 DEF CountOK, QueueOK
    <3>2. CASE todo' = todo /\ tk' = tk BY <3>2 DEF CountOK
    <3> QED BY <3>1, <3>2 DEF PassStep
  <2> QED BY <1>1, <1>4, <2>1, <2>2, <2>3 DEF CountOK
<1> QED BY <1>7, <1>8

\* A step of an attempt.
LEMMA TriesJob ==
  ASSUME Types, PromptWorkers, QueueOK, JobsOK, TriesOK, CountOK, NEW w \in Attempt,
         JobStep(w), JobTries(w)
  PROVE  TriesOK' /\ CountOK'
<1> DEFINE t == TicketOf(w)
<1>1. /\ t \in Ticket /\ IsLive(w) /\ job[w].pc # "exit"
      /\ UNCHANGED <<snap, opt, pc, todo>>
      /\ job'[w].pc # "exit" /\ (job'[w].pc = "off" => pc \notin {"count", "check"})
  BY DEF JobStep, JobsOK, IsLive, TicketOf, Attempt
<1>2. LiveAt(t) /\ tk[t].status # "none" /\ tk[t].status \notin Held
  BY <1>1 DEF LiveAt, CountOK, JobsOK
<1>3. \A u \in Ticket : u # t => tk'[u] = tk[u] \/ Fresh(tk[u], tk'[u]) BY DEF JobTries
<1>4. \A v \in Attempt : v # w => job'[v] = job[v] /\ ~(IsLive(v) /\ TicketOf(v) = t)
  BY <1>1 DEF JobStep, JobsOK
<1>5. \A u \in Ticket : u # t => (LiveAt(u)' <=> LiveAt(u))
  BY <1>4 DEF LiveAt, IsLive
<1>6. LiveAt(t)' <=> job'[w].pc # "off"
  BY <1>1, <1>4 DEF LiveAt, IsLive
<1>7. /\ Cap \in Nat /\ Cap' \in Nat /\ faults' \in Nat
      /\ Cap <= Cap' /\ (faults' = faults + 1 => Cap < Cap')
      /\ MaxAttempts \in Nat /\ 0 < MaxAttempts /\ MaxAttempts <= Cap
  BY <1>1, Caps DEF JobTries
<1>8. \A u \in Ticket : tk[u].attempts \in Nat /\ tk[u].active \in Nat BY Tallies
<1>9. /\ tk[t].attempts <= Cap /\ tk[t].active <= 1
      /\ job[w].pc = "claim" =>
           tk[t].active = 0 /\ job[w].number = tk[t].attempts + 1 /\ tk[t].attempts < Cap
      /\ job[w].pc # "claim" => job[w].number = tk[t].attempts
  BY <1>1 DEF TriesOK, CountOK
<1>10. /\ tk'[t].attempts <= Cap' /\ tk'[t].active <= 1
       /\ tk'[t].status \in Held => tk'[t].active = 0
       /\ tk'[t].status \in Early /\ job'[w].pc = "off" => tk'[t].attempts < Cap'
       /\ tk'[t].status # "none"
       /\ job'[w].pc # "off" => /\ job'[w].pc # "claim" /\ job'[w].number = tk'[t].attempts
                                /\ job'[w].pc = "fail" => job'[w].last
  <2>0. t \in Ticket /\ tk[t].attempts \in Nat /\ tk[t].active \in Nat BY <1>1, <1>8
  <2>1. CASE JobClaims(w)
    <3>1. tk'[t].status \notin Held /\ tk'[t].status # "none" BY <2>1 DEF JobClaims, Held
    <3> QED BY <1>7, <1>9, <2>0, <2>1, <3>1 DEF JobClaims
  <2>2. CASE JobGoesOn(w)
    <3>1. tk'[t].status \notin Held /\ tk'[t].status # "none" BY <1>2, <2>2 DEF JobGoesOn, Held
    <3> QED BY <1>7, <1>9, <2>0, <2>2, <3>1 DEF JobGoesOn
  <2>3. CASE JobEnds(w)
    <3>1. /\ tk'[t].attempts = tk[t].attempts /\ tk'[t].active \in {0, tk[t].active}
          /\ tk'[t].status # "none"
          /\ tk'[t].status \in Held => tk'[t].active = 0
          /\ tk'[t].status \in Early => faults' = faults + 1 \/ tk[t].attempts < MaxAttempts
      BY <1>2, <2>3 DEF JobEnds, Calm
    <3>2. job'[w].pc = "off" BY <1>1, <2>3 DEF JobEnds
    <3> QED BY <1>7, <1>9, <2>0, <3>1, <3>2
  <2> QED BY <2>1, <2>2, <2>3 DEF JobTries
<1>11. TriesOK'
  <2>1. ASSUME NEW u \in Ticket, u # t
        PROVE  /\ tk'[u].attempts <= Cap' /\ tk'[u].active <= 1
               /\ tk'[u].status \in Held => tk'[u].active = 0
               /\ tk'[u].status \in Early /\ ~LiveAt(u)' => tk'[u].attempts < Cap'
    <3>1. CASE Fresh(tk[u], tk'[u])
      <4>1. tk'[u].status \notin Held BY <3>1 DEF Fresh, Held
      <4> QED BY <1>7, <3>1, <4>1 DEF Fresh
    <3>2. CASE tk'[u] = tk[u]
      <4>1. /\ tk[u].attempts <= Cap /\ tk[u].active <= 1
            /\ tk[u].status \in Held => tk[u].active = 0
            /\ tk[u].status \in Early /\ ~LiveAt(u) => tk[u].attempts < Cap
        BY DEF TriesOK
      <4>2. tk[u].attempts \in Nat BY <1>8
      <4> QED BY <1>5, <1>7, <2>1, <3>2, <4>1, <4>2
    <3> QED BY <1>3, <2>1, <3>1, <3>2
  <2> QED BY <1>1, <1>6, <1>7, <1>10, <2>1 DEF TriesOK
<1>12. CountOK'
  <2>1. ASSUME NEW v \in Attempt, IsLive(v)'
        PROVE  LET x == tk'[TicketOf(v)]
               IN /\ x.status # "none"
                  /\ job'[v].pc = "claim" =>
                       x.active = 0 /\ job'[v].number = x.attempts + 1 /\ x.attempts < Cap'
                  /\ job'[v].pc # "claim" => job'[v].number = x.attempts
                  /\ job'[v].pc = "fail" => job'[v].last
    <3>1. CASE v = w BY <1>10, <2>1, <3>1 DEF IsLive
    <3>2. CASE v # w
      <4>1. job'[v] = job[v] /\ IsLive(v) /\ TicketOf(v) # t /\ TicketOf(v) \in Ticket
        BY <1>4, <2>1, <3>2, Attempts DEF IsLive
      <4>2. tk'[TicketOf(v)] = tk[TicketOf(v)]
        BY <1>3, <4>1 DEF CountOK, Fresh
      <4>3. tk[TicketOf(v)].attempts \in Nat BY <1>8, <4>1
      <4>4. job[v].pc = "claim" => tk[TicketOf(v)].attempts < Cap BY <4>1 DEF CountOK
      <4>5. job[v].pc = "claim" => tk[TicketOf(v)].attempts < Cap' BY <1>7, <4>3, <4>4
      <4> QED BY <4>1, <4>2, <4>5 DEF CountOK
    <3> QED BY <3>1, <3>2
  <2>2. ASSUME pc = "count", NEW u \in Ticket, snap.tk[u].status \in Claimable, ~LiveAt(u)'
        PROVE  /\ tk'[u].status = snap.tk[u].status /\ tk'[u].active = snap.tk[u].active
               /\ tk'[u].attempts = snap.tk[u].attempts
    <3>1. u # t BY <1>1, <1>6, <2>2
    <3>2. ~LiveAt(u) BY <1>5, <2>2, <3>1
    <3>3. /\ tk[u].status = snap.tk[u].status /\ tk[u].active = snap.tk[u].active
          /\ tk[u].attempts = snap.tk[u].attempts
      BY <2>2, <3>2 DEF CountOK
    <3>4. tk[u].status # "none" BY <2>2, <3>3 DEF Claimable
    <3> QED BY <1>3, <3>1, <3>3, <3>4 DEF Fresh
  <2>3. ASSUME pc \in QueuePhases, NEW u \in todo PROVE tk'[u] = snap.tk[u]
    <3>1. u \in Ticket /\ tk[u].status = "proposed" BY <2>3 DEF QueueOK
    <3>2. u # t BY <1>2, <3>1 DEF Held
    <3> QED BY <1>3, <2>3, <3>1, <3>2 DEF Fresh, CountOK
  <2> QED BY <1>1, <2>1, <2>2, <2>3 DEF CountOK
<1> QED BY <1>11, <1>12

\* Somebody at a front door, the clock, or the budget.
FrontTries ==
  /\ faults' = faults
  /\ \A t \in Ticket :
       /\ tk'[t].attempts = tk[t].attempts /\ tk'[t].active = tk[t].active
       /\ tk'[t].worker = tk[t].worker /\ tk'[t].branch = tk[t].branch
       /\ \/ tk'[t].status = tk[t].status
          \/ tk[t].status = "awaiting" /\ tk'[t].status \in {"proposed", "failed"}

\* They count nothing.
LEMMA FrontCounts ==
  ASSUME Types,
         \/ \E g \in Goal : Submit(g) \/ Cancel(g) \/ TripBudget(g)
         \/ \E t \in Ticket : Approve(t) \/ Deny(t) \/ Elapse(t)
  PROVE  FrontTries
<1>1. CASE \E g \in Goal : Submit(g) \/ Cancel(g) \/ TripBudget(g)
  <2>1. tk' = tk /\ faults' = faults BY <1>1 DEF Submit, Cancel, TripBudget
  <2> QED BY <2>1 DEF FrontTries
<1>2. ASSUME NEW t \in Ticket, Approve(t) \/ Deny(t) \/ Elapse(t) PROVE FrontTries
  <2>1. /\ faults' = faults
        /\ \/ tk[t].status = "awaiting" /\ tk' = [tk EXCEPT ![t] = ApprovalGranted(tk[t])]
           \/ tk[t].status = "awaiting" /\ tk' = [tk EXCEPT ![t] = ApprovalDenied(tk[t])]
           \/ tk' = [tk EXCEPT ![t] = [tk[t] EXCEPT !.quiet = TRUE]]
    BY <1>2 DEF Approve, Deny, Elapse, EmitTicket
  <2>2. ASSUME NEW x \in Rec,
               NEW y \in {ApprovalGranted(x), ApprovalDenied(x), [x EXCEPT !.quiet = TRUE]}
        PROVE  /\ y.attempts = x.attempts /\ y.active = x.active
               /\ y.worker = x.worker /\ y.branch = x.branch
               /\ \/ y.status = x.status
                  \/ x.status = "awaiting" /\ y.status \in {"proposed", "failed"}
    BY DEF ApprovalGranted, ApprovalDenied, Rec, TicketRecord
  <2>3. tk[t] \in Rec /\ tk'[t] \in {ApprovalGranted(tk[t]), ApprovalDenied(tk[t]),
                                     [tk[t] EXCEPT !.quiet = TRUE]}
    BY <2>1 DEF Types
  <2>5. /\ tk'[t].attempts = tk[t].attempts /\ tk'[t].active = tk[t].active
        /\ tk'[t].worker = tk[t].worker /\ tk'[t].branch = tk[t].branch
        /\ \/ tk'[t].status = tk[t].status
           \/ tk[t].status = "awaiting" /\ tk'[t].status \in {"proposed", "failed"}
    BY <2>2, <2>3
  <2>4. \A u \in Ticket : u # t => tk'[u] = tk[u] BY <2>1 DEF Types
  <2> QED BY <2>1, <2>4, <2>5 DEF FrontTries
<1> QED BY <1>1, <1>2

\* Nor does the queue lose what the pass read.
LEMMA TriesFront ==
  ASSUME Types, QueueOK, TriesOK, CountOK, FrontStep, FrontTries
  PROVE  TriesOK' /\ CountOK'
<1>1. UNCHANGED <<job, snap, opt, pc, todo, faults>> BY DEF FrontStep, FrontTries
<1>2. \A t \in Ticket :
        /\ tk'[t].attempts = tk[t].attempts /\ tk'[t].active = tk[t].active
        /\ \/ tk'[t].status = tk[t].status
           \/ tk[t].status = "awaiting" /\ tk'[t].status \in {"proposed", "failed"}
  BY DEF FrontTries
<1>3. Cap' = Cap BY <1>1 DEF Cap, MaxAttempts
<1>4. \A t \in Ticket : LiveAt(t)' <=> LiveAt(t) BY <1>1 DEF LiveAt, IsLive
<1>5. TriesOK' BY <1>1, <1>2, <1>3, <1>4 DEF TriesOK, Held, Early
<1>6. CountOK'
  <2>1. \A w \in Attempt : (IsLive(w)' <=> IsLive(w)) /\ TicketOf(w) \in Ticket
    BY <1>1, Attempts DEF IsLive
  <2>2. \A t \in Ticket : tk[t].status # "none" => tk'[t].status # "none" BY <1>2
  <2>3. \A t \in Ticket : tk[t].status \in Claimable => tk'[t].status = tk[t].status
    BY <1>2 DEF Claimable
  <2>4. pc \in QueuePhases => \A t \in todo : tk'[t] = snap.tk[t]
    BY DEF FrontStep, QueueOK, CountOK
  <2>5. ASSUME NEW w \in Attempt, IsLive(w)'
        PROVE  LET x == tk'[TicketOf(w)]
               IN /\ x.status # "none"
                  /\ job'[w].pc = "claim" =>
                       x.active = 0 /\ job'[w].number = x.attempts + 1 /\ x.attempts < Cap'
                  /\ job'[w].pc # "claim" => job'[w].number = x.attempts
                  /\ job'[w].pc = "fail" => job'[w].last
    BY <1>1, <1>2, <1>3, <2>1, <2>2, <2>5 DEF CountOK
  <2>6. pc = "count" =>
          \A t \in Ticket : snap.tk[t].status \in Claimable /\ ~LiveAt(t)' =>
            /\ tk'[t].status = snap.tk[t].status /\ tk'[t].active = snap.tk[t].active
            /\ tk'[t].attempts = snap.tk[t].attempts
    BY <1>2, <1>4, <2>3 DEF CountOK
  <2> QED BY <1>1, <2>4, <2>5, <2>6 DEF CountOK
<1> QED BY <1>5, <1>6

\* A launch numbers its attempts by what the pass read, and it still holds.
LEMMA TriesLaunch ==
  ASSUME Types, OneByOne, JobsOK, TriesOK, CountOK, Launch
  PROVE  TriesOK' /\ CountOK'
<1>1. /\ pc = "count" /\ pc' \in {"join", "launch"}
      /\ UNCHANGED <<tk, opt, faults>>
  BY DEF Launch, ReturnFromRun, logVars
<1>2. PICK L \in SUBSET Dispatchable :
        job' = [w \in Attempt |->
                  IF TicketOf(w) \in L /\ w = FreeSlot(TicketOf(w))
                  THEN [NoJob EXCEPT !.pc = "claim", !.number = snap.tk[TicketOf(w)].attempts + 1]
                  ELSE job[w]]
  BY DEF Launch
<1>3. Cap' = Cap BY <1>1 DEF Cap, MaxAttempts
<1>4. ASSUME NEW t \in L
      PROVE  /\ t \in Ticket /\ ~LiveAt(t) /\ tk[t].status \in Claimable
             /\ tk[t].active = 0 /\ tk[t].attempts = snap.tk[t].attempts /\ tk[t].attempts < Cap
  <2>1. /\ t \in Ticket /\ InFlight(t) < 1 /\ snap.tk[t].active < 1
        /\ snap.tk[t].status \in Claimable
    BY DEF Dispatchable, ReadyTickets, OneByOne, Claimable
  <2>2. ~LiveAt(t) BY <2>1, NoneInFlight DEF LiveAt
  <2>3. /\ tk[t].status = snap.tk[t].status /\ tk[t].active = snap.tk[t].active
        /\ tk[t].attempts = snap.tk[t].attempts
    BY <1>1, <2>1, <2>2 DEF CountOK
  <2>4. tk[t].active \in Nat BY <2>1, Tallies
  <2>5. tk[t].active = 0 BY <2>1, <2>3, <2>4
  <2>6. tk[t].status \in Early BY <2>1, <2>3 DEF Claimable, Early
  <2> QED BY <2>1, <2>2, <2>3, <2>5, <2>6 DEF TriesOK
<1>5. ASSUME NEW w \in Attempt
      PROVE  \/ job'[w] = job[w]
             \/ /\ TicketOf(w) \in L /\ job'[w].pc = "claim"
                /\ job'[w].number = snap.tk[TicketOf(w)].attempts + 1
  BY <1>2 DEF NoJob
<1>6. \A t \in Ticket : LiveAt(t) => LiveAt(t)'
  <2>1. \A w \in Attempt : IsLive(w) => IsLive(w)' BY <1>5 DEF IsLive
  <2> QED BY <2>1 DEF LiveAt
<1>7. TriesOK' BY <1>1, <1>3, <1>6 DEF TriesOK
<1>8. ASSUME NEW w \in Attempt, IsLive(w)'
      PROVE  LET x == tk[TicketOf(w)]
             IN /\ x.status # "none"
                /\ job'[w].pc = "claim" =>
                     x.active = 0 /\ job'[w].number = x.attempts + 1 /\ x.attempts < Cap
                /\ job'[w].pc # "claim" => job'[w].number = x.attempts
                /\ job'[w].pc = "fail" => job'[w].last
  <2>1. CASE job'[w] = job[w] BY <1>8, <2>1 DEF CountOK, IsLive
  <2>2. CASE /\ TicketOf(w) \in L /\ job'[w].pc = "claim"
             /\ job'[w].number = snap.tk[TicketOf(w)].attempts + 1
    <3>1. tk[TicketOf(w)].status # "none" BY <1>4, <2>2 DEF Claimable
    <3> QED BY <1>4, <2>2, <3>1
  <2> QED BY <1>5, <2>1, <2>2
<1>9. CountOK' BY <1>1, <1>3, <1>8 DEF CountOK, QueuePhases
<1> QED BY <1>7, <1>9

\* The pass moves on, ends or dies.
LEMMA TriesMoves ==
  ASSUME Types, JobsOK, TriesOK, CountOK,
         \/ Start \/ BeginPass \/ Advance \/ TakeBatch \/ EndPass \/ Join
         \/ SchedulerFails \/ Crash \/ \E t \in Ticket : DecisionLost(t)
  PROVE  TriesOK' /\ CountOK'
<1>1. UNCHANGED <<tk, opt>>
  BY DEF Start, BeginPass, Advance, TakeBatch, EndPass, Join, SchedulerFails, Crash, DecisionLost,
         ReturnFromRun, logVars
<1>2. \/ job' = job /\ faults' \in {faults, faults + 1}
      \/ job' = [w \in Attempt |-> NoJob] /\ faults' = faults + 1
  BY DEF Start, BeginPass, Advance, TakeBatch, EndPass, Join, SchedulerFails, Crash, DecisionLost
<1>3. /\ Cap \in Nat /\ Cap' \in Nat /\ faults' \in Nat
      /\ Cap <= Cap' /\ (faults' = faults + 1 => Cap < Cap')
  BY <1>1, <1>2, Caps
<1>4. \A t \in Ticket : tk[t].attempts \in Nat BY Tallies
<1>5. TriesOK'
  <2>1. ASSUME NEW t \in Ticket
        PROVE  /\ tk[t].attempts <= Cap'
               /\ tk[t].status \in Early /\ ~LiveAt(t)' => tk[t].attempts < Cap'
    <3>1. tk[t].attempts <= Cap /\ (tk[t].status \in Early /\ ~LiveAt(t) => tk[t].attempts < Cap)
      BY DEF TriesOK
    <3>2. faults' = faults + 1 \/ (LiveAt(t)' <=> LiveAt(t)) BY <1>2 DEF LiveAt, IsLive
    <3> QED BY <1>3, <1>4, <3>1, <3>2
  <2> QED BY <1>1, <1>3, <2>1 DEF TriesOK
<1>6. ASSUME NEW w \in Attempt, IsLive(w)'
      PROVE  LET x == tk[TicketOf(w)]
             IN /\ x.status # "none"
                /\ job'[w].pc = "claim" =>
                     x.active = 0 /\ job'[w].number = x.attempts + 1 /\ x.attempts < Cap'
                /\ job'[w].pc # "claim" => job'[w].number = x.attempts
                /\ job'[w].pc = "fail" => job'[w].last
  <2>1. job' = job BY <1>2, <1>6 DEF IsLive, NoJob
  <2>2. TicketOf(w) \in Ticket BY Attempts
  <2>3. tk[TicketOf(w)].attempts < Cap => tk[TicketOf(w)].attempts < Cap' BY <1>3, <1>4, <2>2
  <2> QED BY <1>6, <2>1, <2>3 DEF CountOK, IsLive
<1>7. pc' \in QueuePhases \cup {"count"} =>
        \/ snap' = [tk |-> tk, gl |-> gl, grew |-> grew]
        \/ todo' = {} /\ pc' # "count"
        \/ snap' = snap /\ todo' = todo /\ pc \in QueuePhases /\ pc' \in QueuePhases
  <2>1. CASE Advance
    <3>1. PICK p \in {NextPhase} : Load(p) BY <2>1 DEF Advance
    <3>2. pc' = p /\ todo' = Work(p) BY <3>1 DEF Load
    <3>3. snap' = [tk |-> tk, gl |-> gl, grew |-> grew] \/ (Work(p) = {} /\ p # "count")
      BY <3>1 DEF Load
    <3>4. snap' = [tk |-> tk, gl |-> gl, grew |-> grew] \/ (todo' = {} /\ pc' # "count")
      BY <3>2, <3>3
    <3> QED BY <3>4
  <2>2. CASE TakeBatch BY <2>2 DEF TakeBatch, QueuePhases
  <2>3. CASE \/ Start \/ BeginPass \/ EndPass \/ Join \/ SchedulerFails \/ Crash
             \/ \E t \in Ticket : DecisionLost(t)
    BY <2>3 DEF Start, BeginPass, EndPass, Join, SchedulerFails, Crash, DecisionLost,
                ReturnFromRun, QueuePhases
  <2> QED BY <2>1, <2>2, <2>3
<1>8. pc' = "count" => \A t \in Ticket : tk[t] = snap'.tk[t]
  BY <1>7 DEF QueuePhases
<1>9. pc' \in QueuePhases => \A t \in todo' : tk[t] = snap'.tk[t]
  BY <1>7 DEF QueuePhases, CountOK
<1>10. CountOK' BY <1>1, <1>6, <1>8, <1>9 DEF CountOK
<1> QED BY <1>5, <1>10

\* Every step keeps the counts.
LEMMA TriesKept ==
  ASSUME Types, OneByOne, QueueOK, JobsOK, TriesOK, CountOK, Next
  PROVE  TriesOK' /\ CountOK'
<1>1. CASE \/ Start \/ BeginPass \/ Advance \/ TakeBatch \/ EndPass \/ Join
           \/ SchedulerFails \/ Crash \/ \E t \in Ticket : DecisionLost(t)
  BY <1>1, TriesMoves
<1>2. CASE Launch BY <1>2, TriesLaunch
<1>3. CASE \/ \E g \in Goal : Submit(g) \/ Cancel(g) \/ TripBudget(g)
           \/ \E t \in Ticket : Approve(t) \/ Deny(t) \/ Elapse(t)
  BY <1>3, FrontWork, FrontCounts, TriesFront
<1>4. ASSUME NEW t \in Ticket,
             \/ CreateTicket(t) \/ EnforceCancellation(t) \/ EnforceBudget(t) \/ Promote(t)
             \/ FailBlocked(t) \/ RestartStalled(t)
      PROVE  TriesOK' /\ CountOK'
  <2>1. pc # "count"
    BY <1>4 DEF CreateTicket, EnforceCancellation, EnforceBudget, Promote, FailBlocked,
                RestartStalled
  <2> QED BY <1>4, <2>1, PassWork, PassCounts, TriesPass
<1>5. ASSUME NEW t \in Ticket,
             \/ TakeProposal(t) \/ DropFromBatch(t) \/ Merge(t) \/ Park(t)
             \/ \E r \in Reasons : Reject(t, r)
      PROVE  TriesOK' /\ CountOK'
  <2>1. pc # "count"
    BY <1>5 DEF TakeProposal, DropFromBatch, Merge, Park, Reject, NextOutcome
  <2> QED BY <1>5, <2>1, QueueWork, QueueCounts, TriesPass
<1>6. ASSUME NEW w \in Attempt, Dispatch(w) \/ Beat(w) \/ EmitFails(w)
      PROVE  TriesOK' /\ CountOK'
  <2>1. JobStep(w) BY <1>6, AttemptGoesOn, AttemptEnds DEF Dispatch
  <2> QED BY <1>6, <2>1, JobCounts, TriesJob DEF OneByOne
<1> QED BY <1>1, <1>2, <1>3, <1>4, <1>5, <1>6 DEF Next, Reconcile, FrontDoor

\* They hold of a city where nothing has happened.
LEMMA TriesInit == Init => TriesOK /\ CountOK
<1> SUFFICES ASSUME Init PROVE TriesOK /\ CountOK OBVIOUS
<1>1. Types BY TypesInit
<1>2. /\ \A t \in Ticket : tk[t] = NoTicket
      /\ \A w \in Attempt : job[w].pc = "off"
      /\ faults = 0 /\ pc = "down"
  BY DEF Init, NoJob
<1>3. MaxAttempts \in Nat /\ 0 < MaxAttempts
  BY <1>1, OptionsAssumption DEF Types, OptionsRecord, MaxAttempts
<1>4. Cap \in Nat /\ 0 < Cap BY <1>2, <1>3 DEF Cap
<1>5. TriesOK BY <1>2, <1>4 DEF TriesOK, NoTicket, Held
<1> QED BY <1>2, <1>5 DEF CountOK, IsLive, QueuePhases

TriesInv == Types /\ (OneByOne => QueueOK /\ JobsOK /\ TriesOK /\ CountOK)

\* The invariant holds of the whole system, and is kept.
LEMMA TriesInductive ==
  /\ Init => TriesInv
  /\ TriesInv /\ [Next]_vars => TriesInv'
<1>1. Init => TriesInv BY TypesInit, HoldInit, TriesInit DEF TriesInv
<1>2. ASSUME TriesInv, [Next]_vars PROVE TriesInv'
  <2>1. CASE Next
    <3>1. Types' /\ opt' = opt BY <1>2, <2>1, TypesStep, SameOptions DEF TriesInv
    <3>2. OneByOne' => OneByOne BY <3>1 DEF OneByOne, PromptWorkers, BestOfN
    <3>3. OneByOne => QueueOK' /\ JobsOK' BY <1>2, <2>1, HoldsKept DEF TriesInv
    <3>4. OneByOne => TriesOK' /\ CountOK' BY <1>2, <2>1, TriesKept DEF TriesInv
    <3> QED BY <3>1, <3>2, <3>3, <3>4 DEF TriesInv
  <2>2. CASE UNCHANGED vars
    <3>1. UNCHANGED <<tk, gl, job, snap, opt, pc, todo, hands, faults>>
      BY <2>2 DEF vars, logVars, passVars
    <3>2. Types' BY <1>2, <3>1 DEF TriesInv, Types
    <3>3. OneByOne' => OneByOne BY <3>1 DEF OneByOne, PromptWorkers, BestOfN
    <3>4. QueueOK /\ JobsOK => QueueOK' /\ JobsOK' BY <3>1 DEF QueueOK, JobsOK, IsLive
    <3>5. \A t \in Ticket : LiveAt(t)' <=> LiveAt(t) BY <3>1 DEF LiveAt, IsLive
    <3>6. Cap' = Cap BY <3>1 DEF Cap, MaxAttempts
    <3>7. TriesOK => TriesOK' BY <3>1, <3>5, <3>6 DEF TriesOK
    <3>8. CountOK => CountOK' BY <3>1, <3>5, <3>6 DEF CountOK, IsLive
    <3> QED BY <1>2, <3>2, <3>3, <3>4, <3>7, <3>8 DEF TriesInv
  <2> QED BY <1>2, <2>1, <2>2
<1> QED BY <1>1, <1>2

\* A ticket is attempted as often as it may be, and once more for every fault
\* that took an attempt without its failure being counted, although each attempt
\* is numbered from a log read before other events of its ticket were written.
THEOREM RetriesEnd == Spec => []RetriesBounded
<1>1. TriesInv => RetriesBounded
  BY DEF TriesInv, TriesOK, RetriesBounded, Cap
<1> QED BY <1>1, TriesInductive, PTL DEF Spec

-----------------------------------------------------------------------------
(* The branches of proposals *)

HasBranch(t) == tk[t].branch \in branches[t] \/ tk[t].branch = lost[t]

Cancelled(t) == gl[GoalOf[t]].cancelled

\* A proposal that may land has its branch; a ticket at work has one worker, and
\* one with an attempt is not quiet; a ticket that waits has none.
BranchOK ==
  /\ DOMAIN branches = Ticket /\ DOMAIN lost = Ticket
  /\ \A t \in Ticket :
       /\ tk[t].status \in Held /\ ~Cancelled(t) => HasBranch(t)
       /\ tk[t].status \in Busy => tk[t].active = 1
       /\ tk[t].status \in Busy /\ tk[t].quiet => ~LiveAt(t)
       /\ tk[t].status \in {"pending", "ready"} => tk[t].worker = Nobody
  /\ \A w \in Attempt : IsLive(w) =>
       /\ job[w].pc = "propose" => job[w].branch \in branches[TicketOf(w)]
       /\ job[w].pc # "claim" => tk[TicketOf(w)].active = 1

\* What a step of the pass found still stands when it comes to the ticket.
FoundOK ==
  /\ pc = "stall"    => \A t \in todo \cap Ticket : ~LiveAt(t) /\ tk[t].status \notin Held
  /\ pc = "budget"   => \A t \in todo \cap Ticket : snap.tk[t].worker = Nobody
  /\ pc = "cancel"   => \A t \in todo \cap Ticket : Cancelled(t)
  /\ pc = "outcomes" => \A t \in (todo \ hands) \cap Ticket : Cancelled(t)

-----------------------------------------------------------------------------
(* What the steps do to the branches *)

\* The pass takes the branch of a ticket only if no attempt is at it and it is
\* not with the queue any more, or cancelled.
PassGit(t) ==
  /\ DOMAIN branches' = Ticket /\ hands \ {t} \subseteq hands'
  /\ lost' = lost /\ \A u \in Ticket : u # t => branches'[u] = branches[u]
  /\ LiveAt(t) => branches'[t] = branches[t] /\ tk'[t].active = tk[t].active
  /\ tk'[t].status \in Held /\ ~Cancelled(t) =>
       /\ tk[t].status \in Held /\ tk'[t].branch = tk[t].branch
       /\ branches'[t] = branches[t]

\* No event but ProposalSubmitted and those that end a proposal change its branch.
LEMMA BranchEvents ==
  ASSUME NEW x \in Rec, NEW w, NEW r
  PROVE  /\ ApprovalRequested(x).branch = x.branch
         /\ TicketReady(x).branch = x.branch /\ TicketReady(x).active = x.active
         /\ TicketReady(x).status \in Held => x.status \in Held
         /\ TicketFailed(x, w, r).branch = x.branch
         /\ TicketFailed(x, w, r).status \in Held => x.status \in Held
         /\ w = Nobody => TicketFailed(x, w, r).active = x.active
         /\ Merged(x).status = "merged"
         /\ x.status = "proposed" /\ x.worker = w =>
              /\ TicketFailed(x, w, r).status \notin Held
              /\ VerificationFailed(x, w, r).status \notin Held
         /\ WorkerRestarted(x, w, r).status \in Held => x.status \in Held
         /\ TicketCreated(x, r) = x \/ TicketCreated(x, r).status = "pending"
<1> USE DEF Rec, TicketRecord, Held, Early, Nobody, Worker
<1>1. TicketReady(x).branch = x.branch /\ TicketReady(x).active = x.active
      /\ (TicketReady(x).status \in Held => x.status \in Held)
  BY DEF TicketReady
<1>2. /\ TicketFailed(x, w, r).branch = x.branch
      /\ TicketFailed(x, w, r).status \in Held => x.status \in Held
      /\ w = Nobody => TicketFailed(x, w, r).active = x.active
      /\ x.status = "proposed" /\ x.worker = w => TicketFailed(x, w, r).status \notin Held
  BY DEF TicketFailed, RemoveWorker
<1>3. Merged(x).status = "merged" BY DEF Merged
<1>4. x.status = "proposed" /\ x.worker = w => VerificationFailed(x, w, r).status \notin Held
  BY DEF VerificationFailed
<1>5. WorkerRestarted(x, w, r).status \in Held => x.status \in Held BY DEF WorkerRestarted
<1>6. ApprovalRequested(x).branch = x.branch BY DEF ApprovalRequested
<1>7. TicketCreated(x, r) = x \/ TicketCreated(x, r).status = "pending"
  BY DEF TicketCreated, NoTicket
<1> QED BY <1>1, <1>2, <1>3, <1>4, <1>5, <1>6, <1>7
\* What is done to a worktree is done to one ticket.
LEMMA Cleaned ==
  ASSUME NEW t \in Ticket, DOMAIN branches = Ticket,
         CleanupWorktree(t) \/ PreserveWorktree(t) \/ UNCHANGED branches
  PROVE  /\ DOMAIN branches' = Ticket
         /\ \A u \in Ticket : u # t => branches'[u] = branches[u]
BY DEF CleanupWorktree, PreserveWorktree

\* What a pass does with the tickets it found.
LEMMA PassBranches ==
  ASSUME Types, CountOK, GoneOK, BranchOK, FoundOK, NEW t \in Ticket,
         \/ CreateTicket(t) \/ EnforceCancellation(t) \/ EnforceBudget(t) \/ Promote(t)
         \/ FailBlocked(t) \/ RestartStalled(t)
  PROVE  PassGit(t)
<1> DEFINE x == tk[t]
           c == TicketCreated(x, Cardinality(Created(tk)) + 1)
           f == TicketFailed(x, snap.tk[t].worker, "other")
           s == WorkerRestarted(x, snap.tk[t].worker, NoReason)
<1>0. x \in Rec BY DEF Types
<1>1. /\ f.branch = x.branch /\ (f.status \in Held => x.status \in Held)
      /\ snap.tk[t].worker = Nobody => f.active = x.active
  BY <1>0, BranchEvents
<1>2. s.status \in Held => x.status \in Held BY <1>0, BranchEvents
<1>3. c = x \/ (x.status = "none" /\ c.status = "pending")
  BY <1>0, BusyEvents
<1> HIDE DEF c, f, s
<1>4. lost' = lost /\ hands' = hands
  BY DEF CreateTicket, EnforceCancellation, EnforceBudget, Promote, FailBlocked, RestartStalled,
         histVars
<1>5. DOMAIN branches = Ticket BY DEF BranchOK
<1>6. /\ DOMAIN branches' = Ticket
      /\ \A u \in Ticket : u # t => branches'[u] = branches[u]
  <2>1. CleanupWorktree(t) \/ UNCHANGED branches
    BY DEF CreateTicket, EnforceCancellation, EnforceBudget, Promote, FailBlocked,
           RestartStalled, FailCancelled, gitVars
  <2> QED BY <1>5, <2>1, Cleaned
<1>7. CASE CreateTicket(t)
  <2>1. tk'[t] = c /\ branches' = branches
    BY <1>7, Written DEF CreateTicket, EmitCreated, gitVars, c
  <2>2. LiveAt(t) => x.status # "none" BY DEF LiveAt, CountOK
  <2> QED BY <1>3, <1>4, <1>6, <2>1, <2>2 DEF PassGit, Held
<1>8. CASE EnforceCancellation(t)
  <2>1. pc = "cancel" /\ t \in todo BY <1>8 DEF EnforceCancellation, First
  <2>2. Cancelled(t) BY <2>1 DEF FoundOK
  <2>3. CASE InFlight(t) > 0
    <3>1. tk' = tk /\ branches' = branches
      BY <1>8, <2>3 DEF EnforceCancellation, logVars, gitVars
    <3> QED BY <1>4, <1>6, <3>1 DEF PassGit
  <2>4. CASE ~(InFlight(t) > 0)
    <3>1. InFlight(t) < 1 BY <2>4, Counted
    <3>2. ~LiveAt(t) BY <3>1, NoneInFlight DEF LiveAt
    <3> QED BY <1>4, <1>6, <2>2, <3>2 DEF PassGit
  <2> QED BY <2>3, <2>4
<1>9. CASE EnforceBudget(t)
  <2>1. tk'[t] = f /\ branches' = branches /\ pc = "budget" /\ t \in todo
    BY <1>9, Written DEF EnforceBudget, FirstId, gitVars, f
  <2>2. snap.tk[t].worker = Nobody BY <2>1 DEF FoundOK
  <2> QED BY <1>1, <1>4, <1>6, <2>1, <2>2 DEF PassGit
<1>10. CASE Promote(t)
  <2>1. tk'[t] = TicketReady(x) /\ branches' = branches
    BY <1>10, Written DEF Promote, gitVars
  <2>2. /\ TicketReady(x).branch = x.branch /\ TicketReady(x).active = x.active
        /\ TicketReady(x).status \in Held => x.status \in Held
    BY <1>0, BranchEvents
  <2> QED BY <1>4, <1>6, <2>1, <2>2 DEF PassGit
<1>11. CASE FailBlocked(t)
  <2>1. tk'[t] = f /\ branches' = branches /\ pc = "blocked" /\ t \in todo
    BY <1>11, Written DEF FailBlocked, First, gitVars, f
  <2>2. ~LiveAt(t) BY <2>1 DEF GoneOK
  <2> QED BY <1>1, <1>4, <1>6, <2>1, <2>2 DEF PassGit
<1>12. CASE RestartStalled(t)
  <2>1. tk'[t] = s /\ pc = "stall" /\ t \in todo
    BY <1>12, Written DEF RestartStalled, FirstId, s
  <2>2. ~LiveAt(t) /\ x.status \notin Held BY <2>1 DEF FoundOK
  <2> QED BY <1>2, <1>4, <1>6, <2>1, <2>2 DEF PassGit
<1> QED BY <1>7, <1>8, <1>9, <1>10, <1>11, <1>12

\* What the queue does with the proposals.
LEMMA QueueBranches ==
  ASSUME Types, QueueOK, JobsOK, CountOK, BranchOK, FoundOK, NEW t \in Ticket,
         \/ TakeProposal(t) \/ DropFromBatch(t) \/ Merge(t) \/ Park(t)
         \/ \E r \in Reasons : Reject(t, r)
  PROVE  PassGit(t)
<1> DEFINE x == tk[t]
           f(r) == TicketFailed(x, snap.tk[t].worker, r)
           v(r) == VerificationFailed(x, snap.tk[t].worker, r)
<1>0. x \in Rec BY DEF Types
<1>1. lost' = lost /\ hands \ {t} \subseteq hands'
  BY DEF TakeProposal, DropFromBatch, Merge, Park, Reject, OutcomeDone, histVars
<1>2. DOMAIN branches = Ticket BY DEF BranchOK
<1>3. /\ DOMAIN branches' = Ticket
      /\ \A u \in Ticket : u # t => branches'[u] = branches[u]
  <2>1. CleanupWorktree(t) \/ PreserveWorktree(t) \/ UNCHANGED branches
    BY DEF TakeProposal, DropFromBatch, Merge, Park, Reject, RejectOrFail, FailCancelled, gitVars
  <2> QED BY <1>2, <2>1, Cleaned
<1>4. t \in todo /\ x.status = "proposed" /\ ~LiveAt(t)
  <2>1. t \in todo /\ pc \in QueuePhases
    BY DEF TakeProposal, DropFromBatch, Merge, Park, Reject, NextOutcome, First, QueueOK,
           QueuePhases
  <2>2. x.status = "proposed" BY <2>1 DEF QueueOK
  <2> QED BY <2>1, <2>2 DEF JobsOK, LiveAt, Held
<1>5. CASE TakeProposal(t)
  <2>1. CASE DropCancelled(t) BY <1>1, <1>3, <1>4, <2>1 DEF PassGit, DropCancelled, Cancelled
  <2>2. CASE ~DropCancelled(t)
    <3>1. tk' = tk /\ branches' = branches
      BY <1>5, <2>2 DEF TakeProposal, logVars, gitVars
    <3> QED BY <1>1, <1>3, <3>1 DEF PassGit
  <2> QED BY <2>1, <2>2
<1>6. CASE DropFromBatch(t)
  <2>1. Cancelled(t) BY <1>6 DEF DropFromBatch, First, FoundOK
  <2> QED BY <1>1, <1>3, <1>4, <2>1 DEF PassGit
<1>7. CASE Merge(t)
  <2>1. tk'[t] = Merged(x) BY <1>7, Written DEF Merge
  <2>2. tk'[t].status \notin Held BY <1>0, <2>1, BranchEvents DEF Held
  <2> QED BY <1>1, <1>3, <1>4, <2>2 DEF PassGit
<1>8. CASE Park(t)
  <2>1. tk'[t] = ApprovalRequested(x) /\ branches' = branches
    BY <1>8, Written DEF Park, gitVars
  <2>2. ApprovalRequested(x).branch = x.branch BY <1>0, BranchEvents
  <2> QED BY <1>1, <1>3, <1>4, <2>1, <2>2 DEF PassGit, Held
<1>9. ASSUME NEW r \in Reasons, Reject(t, r) PROVE PassGit(t)
  <2>1. t \in hands /\ pc \in QueuePhases /\ RejectOrFail(t, r)
    BY <1>9 DEF Reject, NextOutcome, First, QueuePhases
  <2>2. x = snap.tk[t] BY <1>4, <2>1 DEF CountOK
  <2>3. f(r).status \notin Held /\ v(r).status \notin Held
    BY <1>0, <1>4, <2>2, BranchEvents
  <2> HIDE DEF f, v
  <2>4. tk'[t] = f(r) \/ tk'[t] = v(r)
    BY <2>1, <2>2, Written DEF RejectOrFail, f, v
  <2> QED BY <1>1, <1>3, <1>4, <2>3, <2>4 DEF PassGit
<1> QED BY <1>5, <1>6, <1>7, <1>8, <1>9
\* An attempt proposes a branch it has committed to.
JobGit(w) ==
  /\ DOMAIN branches' = Ticket /\ lost' = lost
  /\ \A u \in Ticket : u # TicketOf(w) => branches'[u] = branches[u]
  /\ tk'[TicketOf(w)].status \in Held => tk'[TicketOf(w)].branch \in branches'[TicketOf(w)]
  /\ job'[w].pc = "propose" => job'[w].branch \in branches'[TicketOf(w)]

\* The steps of an attempt do no more than that to the branches.
LEMMA JobBranches ==
  ASSUME Types, JobsOK, BranchOK, NEW w \in Attempt, Dispatch(w) \/ Beat(w) \/ EmitFails(w)
  PROVE  JobGit(w)
<1> DEFINE t == TicketOf(w)
           x == tk[TicketOf(w)]
<1>0. t \in Ticket /\ x \in Rec /\ job[w] \in Job BY Attempts
<1>1. lost' = lost
  BY DEF Dispatch, Beat, EmitFails, Claim, AddWorktree, StartWork, AgentFails, Commit, Propose,
         Invalidate, Split, FailDecompose, CreateChild, Decompose, ReadIsLast, FailAttempt, Exit,
         histVars
<1>2. DOMAIN branches = Ticket BY DEF BranchOK
<1>3. job[w].pc # "off" => x.status \notin Held BY DEF JobsOK, IsLive
<1>4. ASSUME EndJob(w), job[w].pc # "off" PROVE job'[w].pc # "propose"
  BY <1>4, IsOver
<1>5. ASSUME CleanupWorktree(t) \/ PreserveWorktree(t) \/ UNCHANGED branches,
             tk'[t].status \notin Held, job'[w].pc # "propose"
      PROVE  JobGit(w)
  BY <1>0, <1>1, <1>2, <1>5, Cleaned DEF JobGit
<1>6. CASE Claim(w)
  <2>1. /\ EmitTicket(t, TicketClaimed(x)) /\ UNCHANGED branches
        /\ job' = [job EXCEPT ![w].pc = "tree", ![w].branch = x.attempts + 1]
    BY <1>6 DEF Claim, gitVars
  <2>2. tk'[t].status = "claimed" BY <1>0, <2>1, Written, BusyEvents
  <2>3. job'[w].pc = "tree" BY <1>0, <2>1 DEF Types, Job
  <2> QED BY <1>5, <2>1, <2>2, <2>3 DEF Held
<1>7. CASE StartWork(w)
  <2>1. /\ EmitTicket(t, WorkStarted(x)) /\ UNCHANGED branches
        /\ job' = [job EXCEPT ![w].pc = "run", ![w].ran = TRUE]
    BY <1>7 DEF StartWork, gitVars
  <2>2. tk'[t].status = "running" BY <1>0, <2>1, Written, BusyEvents
  <2>3. job'[w].pc = "run" BY <1>0, <2>1 DEF Types, Job
  <2> QED BY <1>5, <2>1, <2>2, <2>3 DEF Held
<1>8. CASE AddWorktree(w)
  <2>1. /\ tk' = tk /\ job[w].pc = "tree"
        /\ DOMAIN branches' = Ticket
        /\ \A u \in Ticket : u # t => branches'[u] = branches[u]
        /\ \E p \in {"start", "failing"} : job' = [job EXCEPT ![w].pc = p]
    BY <1>2, <1>8 DEF AddWorktree, Goto, logVars, gitVars
  <2>2. job'[w].pc \in {"start", "failing"} BY <1>0, <2>1 DEF Types, Job
  <2> QED BY <1>1, <1>3, <2>1, <2>2 DEF JobGit
<1>9. CASE AgentFails(w) \/ ReadIsLast(w) \/ Split(w)
  <2>1. /\ tk' = tk /\ job[w].pc # "off"
        /\ CleanupWorktree(t) \/ UNCHANGED branches
    BY <1>9 DEF AgentFails, ReadIsLast, Split, logVars, gitVars
  <2>2. \/ job' = [job EXCEPT ![w].pc = "fail", ![w].last = x.active <= 1]
        \/ \E p \in {"failing", "split", "nosplit"} : job' = [job EXCEPT ![w].pc = p]
    BY <1>9 DEF AgentFails, ReadIsLast, Split, Goto
  <2>3. job'[w].pc # "propose" BY <1>0, <2>2 DEF Types, Job
  <2> QED BY <1>3, <1>5, <2>1, <2>3
<1>10. CASE Commit(w)
  <2>1. /\ tk' = tk /\ UNCHANGED branches /\ job[w].pc # "off"
        /\ job[w].branch \in branches[t] /\ job' = [job EXCEPT ![w].pc = "propose"]
    BY <1>10 DEF Commit, Goto, logVars, gitVars
  <2>2. job'[w].branch = job[w].branch BY <1>0, <2>1 DEF Types, Job
  <2> QED BY <1>1, <1>2, <1>3, <2>1, <2>2 DEF JobGit
<1>11. CASE Beat(w)
  <2>1. /\ EmitTicket(t, Heartbeat(x)) /\ UNCHANGED branches /\ job' = job /\ job[w].pc = "run"
    BY <1>11 DEF Beat, gitVars
  <2>2. tk'[t].status \in Held => x.status \in Held
    BY <1>0, <2>1, Written, CalmEvents DEF Calm
  <2> QED BY <1>3, <1>5, <2>1, <2>2
<1>12. CASE CreateChild(w)
  <2>1. /\ job' = job /\ job[w].pc = "split" /\ UNCHANGED branches
        /\ \E u \in Unborn(w) : EmitCreated(u)
    BY <1>12 DEF CreateChild, gitVars
  <2>2. PICK u \in Unborn(w) : EmitCreated(u) BY <2>1
  <2>3. u # t BY <1>0, <2>2, GraphAssumption DEF Unborn, Ticket
  <2>4. tk'[t] = x BY <1>0, <2>2, <2>3 DEF EmitCreated, EmitTicket, Types
  <2> QED BY <1>3, <1>5, <2>1, <2>4
<1>13. CASE Propose(w)
  <2>1. /\ EmitTicket(t, ProposalSubmitted(x, job[w].branch)) /\ UNCHANGED branches
        /\ EndJob(w) /\ job[w].pc = "propose"
    BY <1>13 DEF Propose, gitVars
  <2>2. job[w].branch \in branches[t] BY <2>1 DEF BranchOK, IsLive
  <2>3. tk'[t].status \in Held => tk'[t].branch = job[w].branch
    BY <1>0, <1>3, <2>1, Written, BusyEvents
  <2> QED BY <1>1, <1>2, <1>4, <2>1, <2>2, <2>3 DEF JobGit
<1>14. CASE Decompose(w)
  <2>1. /\ EmitTicket(t, TicketDecomposed(x)) /\ UNCHANGED branches
        /\ EndJob(w) /\ job[w].pc = "split"
    BY <1>14 DEF Decompose, gitVars
  <2>2. tk'[t].status \in Held => x.status \in Held
    BY <1>0, <2>1, Written, CalmEvents DEF Calm
  <2> QED BY <1>3, <1>4, <1>5, <2>1, <2>2
<1>15. CASE Invalidate(w) \/ FailDecompose(w) \/ \E r \in Reasons : FailAttempt(w, r)
  <2>1. /\ \E y : /\ EmitTicket(t, y)
                  /\ \E r : \/ y = TicketInvalidated(x, r) \/ y = TicketFailed(x, Worker, r)
                            \/ y = WorkerRestarted(x, Worker, r)
        /\ CleanupWorktree(t) \/ PreserveWorktree(t) \/ UNCHANGED branches
        /\ EndJob(w) /\ job[w].pc # "off"
    BY <1>15 DEF Invalidate, FailDecompose, FailAttempt, gitVars
  <2>2. PICK y, r : /\ EmitTicket(t, y)
                    /\ \/ y = TicketInvalidated(x, r) \/ y = TicketFailed(x, Worker, r)
                       \/ y = WorkerRestarted(x, Worker, r)
    BY <2>1
  <2>3. Calm(x, y) BY <1>0, <2>2, CalmEvents
  <2>4. tk'[t].status \in Held => x.status \in Held BY <1>0, <2>2, <2>3, Written DEF Calm
  <2> QED BY <1>3, <1>4, <1>5, <2>1, <2>4
<1>16. CASE EmitFails(w)
  <2>1. /\ tk' = tk /\ EndJob(w) /\ job[w].pc # "off"
        /\ CleanupWorktree(t) \/ PreserveWorktree(t) \/ UNCHANGED branches
    BY <1>16 DEF EmitFails, logVars, gitVars
  <2> QED BY <1>3, <1>4, <1>5, <2>1
<1>17. CASE Exit(w) BY <1>17 DEF Exit, JobsOK
<1> QED BY <1>6, <1>7, <1>8, <1>9, <1>10, <1>11, <1>12, <1>13, <1>14, <1>15, <1>16, <1>17
        DEF Dispatch
\* People, the clock and the budget leave git alone; the clock passes over no
\* ticket that has an attempt.
FrontGit ==
  /\ UNCHANGED <<branches, lost>>
  /\ \A g \in Goal : gl[g].cancelled => gl'[g].cancelled
  /\ \A t \in Ticket : tk'[t].quiet /\ LiveAt(t) => tk[t].quiet

\* They do no more than that.
LEMMA FrontBranches ==
  ASSUME Types, ~StallLive,
         \/ \E g \in Goal : Submit(g) \/ Cancel(g) \/ TripBudget(g)
         \/ \E t \in Ticket : Approve(t) \/ Deny(t) \/ Elapse(t)
  PROVE  FrontGit
<1>1. UNCHANGED <<branches, lost>>
  BY DEF Submit, Cancel, TripBudget, Approve, Deny, Elapse, gitVars, histVars
<1>2. ASSUME NEW g \in Goal, Submit(g) \/ Cancel(g) \/ TripBudget(g) PROVE FrontGit
  <2>1. /\ tk' = tk
        /\ \E y \in {GoalSubmitted(gl[g]), GoalCancelled(gl[g]), GoalBudgetExceeded(gl[g])} :
             gl' = [gl EXCEPT ![g] = y]
    BY <1>2 DEF Submit, Cancel, TripBudget, EmitGoal
  <2>2. gl[g] \in GoalRecord BY DEF Types
  <2>3. \A y \in {GoalSubmitted(gl[g]), GoalCancelled(gl[g]), GoalBudgetExceeded(gl[g])} :
          gl[g].cancelled => y.cancelled
    BY <2>2 DEF GoalRecord, GoalSubmitted, GoalCancelled, GoalBudgetExceeded
  <2>4. \A h \in Goal : gl[h].cancelled => gl'[h].cancelled BY <2>1, <2>3 DEF Types
  <2> QED BY <1>1, <2>1, <2>4 DEF FrontGit
<1>3. ASSUME NEW t \in Ticket, Approve(t) \/ Deny(t) \/ Elapse(t) PROVE FrontGit
  <2>1. gl' = gl BY <1>3 DEF Approve, Deny, Elapse
  <2>2. \/ tk' = [tk EXCEPT ![t] = ApprovalGranted(tk[t])]
        \/ tk' = [tk EXCEPT ![t] = ApprovalDenied(tk[t])]
        \/ tk' = [tk EXCEPT ![t].quiet = TRUE] /\ InFlight(t) = 0
    BY <1>3 DEF Approve, Deny, Elapse, EmitTicket
  <2>3. tk[t] \in Rec BY DEF Types
  <2>4. /\ ApprovalGranted(tk[t]).quiet => tk[t].quiet
        /\ ApprovalDenied(tk[t]).quiet => tk[t].quiet
    BY <2>3 DEF ApprovalGranted, ApprovalDenied, Rec, TicketRecord
  <2>5. InFlight(t) = 0 => ~LiveAt(t) BY NoneInFlight DEF LiveAt
  <2>6. \A u \in Ticket : u # t => tk'[u] = tk[u] BY <2>2 DEF Types
  <2>7. tk'[t].quiet /\ LiveAt(t) => tk[t].quiet BY <2>2, <2>4, <2>5 DEF Types
  <2> QED BY <1>1, <2>1, <2>6, <2>7 DEF FrontGit
<1> QED BY <1>2, <1>3

-----------------------------------------------------------------------------
(* The branches are kept *)

\* The pass deals with a ticket.
LEMMA BranchPass ==
  ASSUME Types, QueueOK, TriesOK, TriesOK', CountOK, BranchOK, FoundOK,
         NEW t \in Ticket, PassStep(t), PassTries(t), PassGit(t)
  PROVE  BranchOK' /\ FoundOK'
<1>1. UNCHANGED <<gl, job, snap, opt, pc>> /\ lost' = lost BY DEF PassStep, PassGit
<1>2. \A u \in Ticket : u # t => tk'[u] = tk[u] /\ branches'[u] = branches[u]
  BY DEF PassStep, OnlyTicket, PassGit
<1>3. \A u \in Ticket : LiveAt(u)' <=> LiveAt(u) BY <1>1 DEF LiveAt, IsLive
<1>4. \A u \in Ticket : Cancelled(u)' <=> Cancelled(u) BY <1>1 DEF Cancelled
<1>5. tk'[t].status \in Held /\ ~Cancelled(t) => HasBranch(t)'
  BY <1>1 DEF PassGit, BranchOK, HasBranch
<1>6. /\ tk'[t].status \in Busy => tk'[t].active = 1
      /\ tk'[t].status \in Busy /\ tk'[t].quiet => ~LiveAt(t)
      /\ tk'[t].status \in {"pending", "ready"} => tk'[t].worker = Nobody
  <2>1. CASE Fresh(tk[t], tk'[t]) BY <2>1 DEF Fresh, Busy
  <2>2. CASE Calm(tk[t], tk'[t])
    <3>1. tk[t].active \in Nat /\ tk'[t].active \in {0, tk[t].active} /\ tk'[t].active <= 1
      BY <2>2, Tallies DEF Calm, TriesOK
    <3>2. tk'[t].status \in Busy => tk'[t].active # 0 \/ tk'[t].active = 1
      BY <2>2 DEF Calm, BranchOK
    <3>3. tk'[t].status \in Busy => tk'[t].active = 1 BY <3>1, <3>2
    <3> QED BY <2>2, <3>3 DEF Calm, BranchOK
  <2> QED BY <2>1, <2>2 DEF PassTries
<1>7. ASSUME NEW w \in Attempt, IsLive(w)'
      PROVE  /\ job'[w].pc = "propose" => job'[w].branch \in branches'[TicketOf(w)]
             /\ job'[w].pc # "claim" => tk'[TicketOf(w)].active = 1
  <2>1. IsLive(w) /\ TicketOf(w) \in Ticket /\ job'[w] = job[w]
    BY <1>1, <1>7, Attempts DEF IsLive
  <2>2. CASE TicketOf(w) # t BY <1>2, <2>1, <2>2 DEF BranchOK
  <2>3. CASE TicketOf(w) = t
    <3>1. LiveAt(t) BY <2>1, <2>3 DEF LiveAt
    <3> QED BY <2>1, <2>3, <3>1 DEF PassGit, BranchOK
  <2> QED BY <2>2, <2>3
<1>8. BranchOK'
  <2>1. ASSUME NEW u \in Ticket
        PROVE  /\ tk'[u].status \in Held /\ ~Cancelled(u)' => HasBranch(u)'
               /\ tk'[u].status \in Busy => tk'[u].active = 1
               /\ tk'[u].status \in Busy /\ tk'[u].quiet => ~LiveAt(u)'
               /\ tk'[u].status \in {"pending", "ready"} => tk'[u].worker = Nobody
    <3>1. CASE u = t BY <1>3, <1>4, <1>5, <1>6, <3>1
    <3>2. CASE u # t BY <1>1, <1>2, <1>3, <1>4, <3>2 DEF BranchOK, HasBranch
    <3> QED BY <3>1, <3>2
  <2>2. DOMAIN branches' = Ticket /\ DOMAIN lost' = Ticket BY <1>1 DEF PassGit, BranchOK
  <2> QED BY <1>7, <2>1, <2>2 DEF BranchOK
<1>9. FoundOK'
  <2>1. CASE todo' = todo \ {t} /\ hands' \subseteq hands
    BY <1>1, <1>2, <1>3, <1>4, <2>1 DEF FoundOK, PassGit
  <2>2. CASE todo' = todo /\ pc = "drain" BY <1>1, <2>2 DEF FoundOK
  <2> QED BY <2>1, <2>2 DEF PassStep
<1> QED BY <1>8, <1>9

\* A step of an attempt.
LEMMA BranchJob ==
  ASSUME Types, PromptWorkers, JobsOK, TriesOK, TriesOK', CountOK, BranchOK, FoundOK,
         NEW w \in Attempt, JobStep(w), JobTries(w), JobGit(w)
  PROVE  BranchOK' /\ FoundOK'
<1> DEFINE t == TicketOf(w)
<1>1. /\ t \in Ticket /\ IsLive(w) /\ LiveAt(t) /\ job'[w].pc # "exit"
      /\ UNCHANGED <<snap, opt, pc, todo, hands>> /\ lost' = lost
  BY DEF JobStep, JobsOK, IsLive, TicketOf, Attempt, LiveAt, JobGit
<1>2. \A u \in Ticket : u # t => branches'[u] = branches[u] BY DEF JobGit
<1>3. \A u \in Ticket : u # t => tk'[u] = tk[u] \/ Fresh(tk[u], tk'[u]) BY DEF JobTries
<1>4. \A v \in Attempt : v # w => job'[v] = job[v] /\ ~(IsLive(v) /\ TicketOf(v) = t)
  BY <1>1 DEF JobStep, JobsOK
<1>5. \A u \in Ticket : u # t => (LiveAt(u)' <=> LiveAt(u)) BY <1>4 DEF LiveAt, IsLive
<1>6. LiveAt(t)' => job'[w].pc # "off" BY <1>1, <1>4 DEF LiveAt, IsLive
<1>7. \A u \in Ticket : Cancelled(u)' <=> Cancelled(u)
  BY GraphAssumption DEF JobStep, Cancelled
<1>8. /\ tk'[t].status \in Held => HasBranch(t)'
      /\ tk'[t].status \in Busy => tk'[t].active = 1
      /\ tk'[t].status \in Busy /\ tk'[t].quiet => job'[w].pc = "off"
      /\ tk'[t].status \in {"pending", "ready"} => tk'[t].worker = Nobody
      /\ job'[w].pc # "off" => tk'[t].active = 1
  <2>0. /\ tk[t].active \in Nat /\ tk'[t].active <= 1
        /\ tk[t].status \in Busy => ~tk[t].quiet /\ tk[t].active = 1
        /\ tk[t].status \in {"pending", "ready"} => tk[t].worker = Nobody
        /\ job[w].pc = "claim" => tk[t].active = 0
        /\ job[w].pc # "claim" => tk[t].active = 1
    BY <1>1, Tallies DEF TriesOK, CountOK, BranchOK
  <2>1. tk'[t].status \in Held => HasBranch(t)' BY DEF JobGit, HasBranch
  <2>2. CASE JobClaims(w) BY <2>0, <2>1, <2>2 DEF JobClaims
  <2>3. CASE JobGoesOn(w) BY <2>0, <2>1, <2>3 DEF JobGoesOn, Busy
  <2>4. CASE JobEnds(w)
    <3>1. job'[w].pc = "off" BY <1>1, <2>4 DEF JobEnds
    <3>2. CASE Calm(tk[t], tk'[t])
      <4>1. tk'[t].active \in {0, tk[t].active} BY <3>2 DEF Calm
      <4>2. tk'[t].status \in Busy => tk'[t].active # 0 \/ tk'[t].active = 1
        BY <2>0, <3>2 DEF Calm
      <4>3. tk'[t].status \in Busy => tk'[t].active = 1 BY <2>0, <4>1, <4>2
      <4> QED BY <2>0, <2>1, <3>1, <3>2, <4>3 DEF Calm
    <3>3. CASE tk'[t].status \notin Early BY <2>1, <3>1, <3>3 DEF Early, Busy
    <3> QED BY <2>4, <3>2, <3>3 DEF JobEnds
  <2> QED BY <2>2, <2>3, <2>4 DEF JobTries
<1>9. BranchOK'
  <2>1. ASSUME NEW u \in Ticket
        PROVE  /\ tk'[u].status \in Held /\ ~Cancelled(u)' => HasBranch(u)'
               /\ tk'[u].status \in Busy => tk'[u].active = 1
               /\ tk'[u].status \in Busy /\ tk'[u].quiet => ~LiveAt(u)'
               /\ tk'[u].status \in {"pending", "ready"} => tk'[u].worker = Nobody
    <3>1. CASE u = t BY <1>6, <1>8, <3>1
    <3>2. CASE u # t /\ tk'[u] = tk[u]
      BY <1>1, <1>2, <1>5, <1>7, <3>2 DEF BranchOK, HasBranch
    <3>3. CASE Fresh(tk[u], tk'[u]) BY <3>3 DEF Fresh, Held, Busy
    <3> QED BY <1>3, <3>1, <3>2, <3>3
  <2>2. ASSUME NEW v \in Attempt, IsLive(v)'
        PROVE  /\ job'[v].pc = "propose" => job'[v].branch \in branches'[TicketOf(v)]
               /\ job'[v].pc # "claim" => tk'[TicketOf(v)].active = 1
    <3>1. CASE v = w BY <1>8, <2>2, <3>1 DEF JobGit, IsLive
    <3>2. CASE v # w
      <4>1. job'[v] = job[v] /\ IsLive(v) /\ TicketOf(v) # t /\ TicketOf(v) \in Ticket
        BY <1>4, <2>2, <3>2, Attempts DEF IsLive
      <4>2. tk'[TicketOf(v)] = tk[TicketOf(v)] BY <1>3, <4>1 DEF CountOK, Fresh
      <4> QED BY <1>2, <4>1, <4>2 DEF BranchOK
    <3> QED BY <3>1, <3>2
  <2>3. DOMAIN branches' = Ticket /\ DOMAIN lost' = Ticket BY <1>1 DEF JobGit, BranchOK
  <2> QED BY <2>1, <2>2, <2>3 DEF BranchOK
<1>10. FoundOK'
  <2>1. ASSUME pc = "stall", NEW u \in todo \cap Ticket
        PROVE  ~LiveAt(u)' /\ tk'[u].status \notin Held
    <3>1. ~LiveAt(u) /\ tk[u].status \notin Held BY <2>1 DEF FoundOK
    <3>2. u # t BY <1>1, <3>1
    <3> QED BY <1>3, <1>5, <3>1, <3>2 DEF Fresh, Held
  <2> QED BY <1>1, <1>7, <2>1 DEF FoundOK
<1> QED BY <1>9, <1>10
\* Somebody at a front door, the clock, or the budget.
LEMMA BranchFront ==
  ASSUME Types, BranchOK, FoundOK, FrontStep, FrontTries, FrontGit
  PROVE  BranchOK' /\ FoundOK'
<1>1. UNCHANGED <<job, snap, opt, pc, todo, hands, branches, lost>> BY DEF FrontStep, FrontGit
<1>2. \A t \in Ticket :
        /\ tk'[t].active = tk[t].active
        /\ tk'[t].worker = tk[t].worker /\ tk'[t].branch = tk[t].branch
        /\ \/ tk'[t].status = tk[t].status
           \/ tk[t].status = "awaiting" /\ tk'[t].status \in {"proposed", "failed"}
  BY DEF FrontTries
<1>3. \A t \in Ticket : LiveAt(t)' <=> LiveAt(t) BY <1>1 DEF LiveAt, IsLive
<1>4. \A t \in Ticket : Cancelled(t) => Cancelled(t)'
  BY GraphAssumption DEF FrontGit, Cancelled
<1>5. BranchOK'
  <2>1. ASSUME NEW t \in Ticket
        PROVE  /\ tk'[t].status \in Held /\ ~Cancelled(t)' => HasBranch(t)'
               /\ tk'[t].status \in Busy => tk'[t].active = 1
               /\ tk'[t].status \in Busy /\ tk'[t].quiet => ~LiveAt(t)'
               /\ tk'[t].status \in {"pending", "ready"} => tk'[t].worker = Nobody
    <3>1. tk'[t].status \in Held => tk[t].status \in Held BY <1>2 DEF Held
    <3>2. tk'[t].status \in Busy \cup {"pending", "ready"} => tk'[t].status = tk[t].status
      BY <1>2 DEF Busy
    <3>3. HasBranch(t) => HasBranch(t)' BY <1>1, <1>2 DEF HasBranch
    <3> QED BY <1>2, <1>3, <1>4, <3>1, <3>2, <3>3 DEF BranchOK, FrontGit
  <2>2. ASSUME NEW w \in Attempt, IsLive(w)'
        PROVE  /\ job'[w].pc = "propose" => job'[w].branch \in branches'[TicketOf(w)]
               /\ job'[w].pc # "claim" => tk'[TicketOf(w)].active = 1
    <3>1. IsLive(w) /\ TicketOf(w) \in Ticket BY <1>1, <2>2, Attempts DEF IsLive
    <3> QED BY <1>1, <1>2, <3>1 DEF BranchOK
  <2> QED BY <1>1, <2>1, <2>2 DEF BranchOK
<1>6. FoundOK' BY <1>1, <1>2, <1>3, <1>4 DEF FoundOK, Held
<1> QED BY <1>5, <1>6

\* Attempts are launched at tickets that have no worker.
LEMMA BranchLaunch ==
  ASSUME Types, OneByOne, CountOK, BranchOK, Launch
  PROVE  BranchOK' /\ FoundOK'
<1>1. pc = "count" /\ pc' \in {"join", "launch"} /\ UNCHANGED <<tk, gl, branches, lost>>
  BY DEF Launch, ReturnFromRun, logVars, gitVars, histVars
<1>2. PICK L \in SUBSET Dispatchable :
        job' = [w \in Attempt |->
                  IF TicketOf(w) \in L /\ w = FreeSlot(TicketOf(w))
                  THEN [NoJob EXCEPT !.pc = "claim", !.number = snap.tk[TicketOf(w)].attempts + 1]
                  ELSE job[w]]
  BY DEF Launch
<1>3. ASSUME NEW t \in L PROVE t \in Ticket /\ tk[t].status \notin Busy
  <2>1. /\ t \in Ticket /\ InFlight(t) < 1 /\ snap.tk[t].active < 1
        /\ snap.tk[t].status \in Claimable
    BY DEF Dispatchable, ReadyTickets, OneByOne, Claimable
  <2>2. ~LiveAt(t) BY <2>1, NoneInFlight DEF LiveAt
  <2>3. tk[t].active = snap.tk[t].active BY <1>1, <2>1, <2>2 DEF CountOK
  <2> QED BY <2>1, <2>3 DEF BranchOK
<1>4. ASSUME NEW w \in Attempt
      PROVE  job'[w] = job[w] \/ (TicketOf(w) \in L /\ job'[w].pc = "claim")
  BY <1>2 DEF NoJob
<1>5. \A t \in Ticket : LiveAt(t)' => LiveAt(t) \/ t \in L BY <1>4 DEF LiveAt, IsLive
<1>6. BranchOK'
  <2>1. ASSUME NEW w \in Attempt, IsLive(w)'
        PROVE  /\ job'[w].pc = "propose" => job'[w].branch \in branches[TicketOf(w)]
               /\ job'[w].pc # "claim" => tk[TicketOf(w)].active = 1
    BY <1>4, <2>1 DEF BranchOK, IsLive
  <2> QED BY <1>1, <1>3, <1>5, <2>1 DEF BranchOK, HasBranch, Cancelled
<1>7. FoundOK' BY <1>1 DEF FoundOK
<1> QED BY <1>6, <1>7

\* The pass reads the log and finds what its next step has to do.
LEMMA BranchAdvance ==
  ASSUME Types, BranchOK, Advance
  PROVE  BranchOK' /\ FoundOK'
<1>1. UNCHANGED <<tk, gl, job, branches, lost>>
  BY DEF Advance, logVars, gitVars, histVars
<1>2. PICK p \in {NextPhase} : Load(p) BY DEF Advance
<1>3. /\ pc' = p /\ todo' = Work(p)
      /\ p = "budget" => snap'.tk = tk
  BY <1>2 DEF Load
<1>4. \A t \in Ticket : (LiveAt(t)' <=> LiveAt(t)) /\ (Cancelled(t)' <=> Cancelled(t))
  BY <1>1 DEF LiveAt, IsLive, Cancelled
<1>5. BranchOK' BY <1>1, <1>4 DEF BranchOK, HasBranch, IsLive
<1>6. ASSUME p = "stall", NEW t \in todo' \cap Ticket PROVE ~LiveAt(t) /\ tk[t].status \notin Held
  BY <1>3, <1>6 DEF Work, BranchOK, Busy, Held
<1>7. ASSUME p = "budget", NEW t \in todo' \cap Ticket PROVE snap'.tk[t].worker = Nobody
  BY <1>3, <1>7 DEF Work, BranchOK
<1>8. ASSUME p = "cancel", NEW t \in todo' \cap Ticket PROVE Cancelled(t)
  BY <1>3, <1>8 DEF Work, Cancelled
<1>9. p # "outcomes" BY <1>2 DEF Advance, NextPhase, Phase
<1>10. FoundOK' BY <1>1, <1>3, <1>4, <1>6, <1>7, <1>8, <1>9 DEF FoundOK
<1> QED BY <1>5, <1>10

\* The pass moves on, ends or dies; a decision that is lost is written down as
\* lost when the branch goes.
LEMMA BranchMoves ==
  ASSUME Types, QueueOK, JobsOK, BranchOK, FoundOK,
         \/ Start \/ BeginPass \/ TakeBatch \/ EndPass \/ Join
         \/ SchedulerFails \/ Crash \/ \E t \in Ticket : DecisionLost(t)
  PROVE  BranchOK' /\ FoundOK'
<1>1. /\ UNCHANGED <<tk, gl>>
      /\ pc' \in {"pass", "begin", "down", "outcomes", "join"}
      /\ job' = job \/ job' = [w \in Attempt |-> NoJob]
  BY DEF Start, BeginPass, TakeBatch, EndPass, Join, SchedulerFails, Crash, DecisionLost,
         ReturnFromRun, logVars
<1>2. \A w \in Attempt : IsLive(w)' => IsLive(w) /\ job'[w] = job[w] BY <1>1 DEF IsLive, NoJob
<1>3. \A t \in Ticket : (LiveAt(t)' => LiveAt(t)) /\ (Cancelled(t)' <=> Cancelled(t))
  BY <1>1, <1>2 DEF LiveAt, Cancelled
<1>4. \/ UNCHANGED <<branches, lost>>
      \/ \E t \in Ticket :
           /\ ~LiveAt(t) /\ lost' = [lost EXCEPT ![t] = tk[t].branch]
           /\ DOMAIN branches' = Ticket
           /\ \A u \in Ticket : u # t => branches'[u] = branches[u]
  <2>1. CASE \/ Start \/ BeginPass \/ TakeBatch \/ EndPass \/ Join \/ SchedulerFails \/ Crash
    BY <2>1 DEF Start, BeginPass, TakeBatch, EndPass, Join, SchedulerFails, Crash, gitVars, histVars
  <2>2. ASSUME NEW t \in Ticket, DecisionLost(t)
        PROVE  /\ ~LiveAt(t) /\ lost' = [lost EXCEPT ![t] = tk[t].branch]
               /\ DOMAIN branches' = Ticket
               /\ \A u \in Ticket : u # t => branches'[u] = branches[u]
    <3>1. CleanupWorktree(t) \/ PreserveWorktree(t) BY <2>2 DEF DecisionLost
    <3>2. InFlight(t) = 0 \/ (pc \in QueuePhases /\ t \in todo)
      BY <2>2 DEF DecisionLost, NextOutcome, First, QueuePhases, QueueOK
    <3>3. ~LiveAt(t)
      <4>1. CASE InFlight(t) = 0 BY <4>1, NoneInFlight DEF LiveAt
      <4>2. CASE pc \in QueuePhases /\ t \in todo BY <4>2 DEF QueueOK, JobsOK, LiveAt, Held
      <4> QED BY <3>2, <4>1, <4>2
    <3> QED BY <2>2, <3>1, <3>3, Cleaned DEF DecisionLost, BranchOK
  <2> QED BY <2>1, <2>2
<1>5. BranchOK'
  <2>1. CASE UNCHANGED <<branches, lost>> BY <1>1, <1>2, <1>3, <2>1 DEF BranchOK, HasBranch
  <2>2. ASSUME NEW t \in Ticket, ~LiveAt(t), lost' = [lost EXCEPT ![t] = tk[t].branch],
               DOMAIN branches' = Ticket,
               \A u \in Ticket : u # t => branches'[u] = branches[u]
        PROVE  BranchOK'
    <3>1. ASSUME NEW u \in Ticket, tk[u].status \in Held, ~Cancelled(u) PROVE HasBranch(u)'
      BY <1>1, <2>2, <3>1 DEF BranchOK, HasBranch
    <3>2. ASSUME NEW w \in Attempt, IsLive(w)'
          PROVE  /\ job'[w].pc = "propose" => job'[w].branch \in branches'[TicketOf(w)]
                 /\ job'[w].pc # "claim" => tk[TicketOf(w)].active = 1
      <4>1. IsLive(w) /\ job'[w] = job[w] /\ TicketOf(w) \in Ticket /\ TicketOf(w) # t
        BY <1>2, <2>2, <3>2, Attempts DEF LiveAt
      <4> QED BY <2>2, <4>1 DEF BranchOK
    <3> QED BY <1>1, <1>3, <2>2, <3>1, <3>2 DEF BranchOK
  <2> QED BY <1>4, <2>1, <2>2
<1>6. pc' = "outcomes" => \A t \in todo' \ hands' : Cancelled(t)
  BY DEF Start, BeginPass, TakeBatch, EndPass, Join, SchedulerFails, Crash, DecisionLost,
         ReturnFromRun, DropCancelled, Cancelled
<1>7. FoundOK' BY <1>1, <1>3, <1>6 DEF FoundOK
<1> QED BY <1>5, <1>7

-----------------------------------------------------------------------------
(* The branch of a proposal *)

BranchInv ==
  /\ Types
  /\ OneByOne => QueueOK /\ JobsOK /\ GoneOK /\ DepsOK /\ TriesOK /\ CountOK
  /\ Timely => BranchOK /\ FoundOK

\* Every step keeps the branches.
LEMMA BranchKept ==
  ASSUME Types, Timely, QueueOK, JobsOK, GoneOK, TriesOK, TriesOK', CountOK, BranchOK, FoundOK,
         Next
  PROVE  BranchOK' /\ FoundOK'
<1>0. OneByOne /\ ~StallLive /\ PromptWorkers BY DEF Timely, OneByOne
<1>1. CASE \/ Start \/ BeginPass \/ TakeBatch \/ EndPass \/ Join
           \/ SchedulerFails \/ Crash \/ \E t \in Ticket : DecisionLost(t)
  BY <1>1, BranchMoves
<1>2. CASE Launch BY <1>0, <1>2, BranchLaunch
<1>3. CASE Advance BY <1>3, BranchAdvance
<1>4. CASE \/ \E g \in Goal : Submit(g) \/ Cancel(g) \/ TripBudget(g)
           \/ \E t \in Ticket : Approve(t) \/ Deny(t) \/ Elapse(t)
  BY <1>0, <1>4, FrontWork, FrontCounts, FrontBranches, BranchFront
<1>5. ASSUME NEW t \in Ticket,
             \/ CreateTicket(t) \/ EnforceCancellation(t) \/ EnforceBudget(t) \/ Promote(t)
             \/ FailBlocked(t) \/ RestartStalled(t)
      PROVE  BranchOK' /\ FoundOK'
  <2>1. PassStep(t) /\ PassTries(t) /\ PassGit(t)
    BY <1>5, PassWork, PassCounts, PassBranches
  <2> QED BY <2>1, BranchPass
<1>6. ASSUME NEW t \in Ticket,
             \/ TakeProposal(t) \/ DropFromBatch(t) \/ Merge(t) \/ Park(t)
             \/ \E r \in Reasons : Reject(t, r)
      PROVE  BranchOK' /\ FoundOK'
  <2>1. PassStep(t) /\ PassTries(t) /\ PassGit(t)
    BY <1>6, QueueWork, QueueCounts, QueueBranches
  <2> QED BY <2>1, BranchPass
<1>7. ASSUME NEW w \in Attempt, Dispatch(w) \/ Beat(w) \/ EmitFails(w)
      PROVE  BranchOK' /\ FoundOK'
  <2>1. JobStep(w) BY <1>7, AttemptGoesOn, AttemptEnds DEF Dispatch
  <2>2. JobTries(w) /\ JobGit(w) BY <1>7, JobCounts, JobBranches
  <2> QED BY <1>0, <2>1, <2>2, BranchJob
<1> QED BY <1>1, <1>2, <1>3, <1>4, <1>5, <1>6, <1>7 DEF Next, Reconcile, FrontDoor

\* The invariant holds of the whole system, and is kept.
LEMMA BranchInductive ==
  /\ Init => BranchInv
  /\ BranchInv /\ [Next]_vars => BranchInv'
<1>1. ASSUME Init PROVE BranchInv
  <2>1. /\ \A t \in Ticket : tk[t] = NoTicket
        /\ \A w \in Attempt : job[w].pc = "off"
        /\ DOMAIN branches = Ticket /\ DOMAIN lost = Ticket /\ pc = "down"
    BY <1>1 DEF Init, NoJob
  <2>2. BranchOK BY <2>1 DEF BranchOK, NoTicket, Held, Busy, IsLive
  <2>3. FoundOK BY <2>1 DEF FoundOK
  <2> QED BY <1>1, <2>2, <2>3, WorkInductive, TriesInductive DEF BranchInv, WorkInv, TriesInv
<1>2. ASSUME BranchInv, [Next]_vars PROVE BranchInv'
  <2>1. WorkInv' /\ TriesInv'
    BY <1>2, WorkInductive, TriesInductive DEF BranchInv, WorkInv, TriesInv
  <2>2. opt' = opt
    BY <1>2, SameOptions DEF BranchInv, vars
  <2>3. (OneByOne' => OneByOne) /\ (Timely' => Timely) /\ (Timely => OneByOne /\ OneByOne')
    BY <2>2 DEF Timely, OneByOne, PromptWorkers, BestOfN, StallLive
  <2>4. Timely => BranchOK' /\ FoundOK'
    <3>1. CASE Next BY <1>2, <2>1, <2>3, <3>1, BranchKept DEF BranchInv, TriesInv
    <3>2. CASE UNCHANGED vars
      <4>1. UNCHANGED <<tk, gl, job, snap, pc, todo, hands, branches, lost>>
        BY <3>2 DEF vars, logVars, passVars, gitVars, histVars
      <4>2. \A t \in Ticket : (LiveAt(t)' <=> LiveAt(t)) /\ (Cancelled(t)' <=> Cancelled(t))
        BY <4>1 DEF LiveAt, IsLive, Cancelled
      <4>3. BranchOK => BranchOK' BY <4>1, <4>2 DEF BranchOK, HasBranch, IsLive
      <4>4. FoundOK => FoundOK' BY <4>1, <4>2 DEF FoundOK
      <4> QED BY <1>2, <4>3, <4>4 DEF BranchInv
    <3> QED BY <1>2, <3>1, <3>2
  <2> QED BY <2>1, <2>3, <2>4 DEF BranchInv, WorkInv, TriesInv
<1> QED BY <1>1, <1>2

\* The branch of a proposal that may still land is in the repository until the
\* queue has decided: no cleanup of the failure detector, of a sibling, of a late
\* cancel or of an earlier Run takes it away, as long as no live attempt seems
\* stalled.
THEOREM BranchesKept == Spec => []ProposalHasBranch
<1>1. BranchInv => ProposalHasBranch
  BY DEF BranchInv, BranchOK, ProposalHasBranch, HasBranch, Cancelled, Held
<1> QED BY <1>1, BranchInductive, PTL DEF Spec

-----------------------------------------------------------------------------
(* A Run does not give up *)

\* Nothing was appended since the pass began, no attempt is live, and none has
\* left an error.
Still == ~grew /\ Live = {} /\ ~derr

\* Open tickets of cancelled goals that no worker has.
Doomed(tks, gls) ==
  {t \in Created(tks) : tks[t].status \notin Terminal \cup Busy /\ gls[GoalOf[t]].cancelled}

\* What the steps of a pass before p leave undone of what they found: nothing.
Clear(p, tks, gls) ==
  /\ p \notin {"begin", "create"} => AllGoalsDecomposed(tks, gls)
  /\ p \notin {"begin", "create", "cancel"} => Doomed(tks, gls) = {}
  /\ p \notin {"begin", "create", "cancel", "budget", "promote"} => NewlyReady(tks, gls) = {}
  /\ p \in {"launch", "drain", "batch", "outcomes", "blocked", "stall", "check"} /\ NoneActive(tks)
       => ReadyTickets(tks, gls) = {}
  /\ p \in {"blocked", "stall", "check"} => Proposed(tks) = {}
  /\ p \in {"stall", "check"} => Blocked(tks) = {}

\* The step the pass is at has all its work before it, and what the pass counts
\* is what there is.
Listed ==
  /\ pc \in {"create", "cancel", "promote", "drain", "batch", "blocked"} => todo = Work(pc)
  /\ pc = "outcomes" => todo = Proposed(tk)
  /\ pc = "count" =>
       /\ snap.gl = gl
       /\ \A t \in Ticket : snap.tk[t].status = tk[t].status /\ snap.tk[t].active = tk[t].active

\* What a ticket waits for exists: its dependencies and what it was split into.
Born(tks) ==
  \A t \in Created(tks) :
    /\ Deps[t] \subseteq Created(tks)
    /\ tks[t].status = "decomposed" => Kids[t] \subseteq Created(tks)

BornOK ==
  /\ Born(tk)
  /\ \A w \in Attempt : job[w].pc = "split" => KnownDeps(TicketOf(w))
  /\ pc = "create" => todo \subseteq {Root(g) : g \in Goal}

\* As long as nothing is appended, every step of the pass leaves its work done; and
\* the state that Run judges by at the end is such a state.
ClearOK ==
  /\ pc \in Phase \ {"pass", "check"} /\ Still => Clear(pc, tk, gl) /\ Listed
  /\ pc = "check" /\ Live = {} /\ ~derr /\ ~snap.grew =>
       /\ Clear("check", snap.tk, snap.gl) /\ Born(snap.tk)
       /\ \A t \in Ticket : snap.tk[t].status \in Busy => snap.tk[t].active = 1

\* Where the tickets stand as they stood, they are complete or dead as they were.
LEMMA SameStanding ==
  ASSUME NEW old, NEW new, \A t \in Ticket : new[t].status = old[t].status
  PROVE  \A t \in Ticket : /\ TicketComplete(new)[t] <=> TicketComplete(old)[t]
                           /\ TicketDead(new)[t] <=> TicketDead(old)[t]
<1> DEFINE C == TicketComplete(old)
           D == TicketComplete(new)
           F == TicketDead(old)
           H == TicketDead(new)
           S == {t \in Ticket : ~(F[t] <=> H[t])}
<1>1. \A t \in Ticket : C[t] \in BOOLEAN /\ D[t] \in BOOLEAN /\ (C[t] => D[t]) /\ (D[t] => C[t])
  BY CompleteIs, CompleteStays
<1>2. \A t \in Ticket : F[t] <=> \/ old[t].status = "failed"
                                 \/ old[t].status = "decomposed" /\ \E u \in Kids[t] : F[u]
  BY DeadIs
<1>3. \A t \in Ticket : H[t] <=> \/ new[t].status = "failed"
                                 \/ new[t].status = "decomposed" /\ \E u \in Kids[t] : H[u]
  BY DeadIs
<1> HIDE DEF C, D, F, H
<1>4. S = {}
  <2> SUFFICES ASSUME S # {} PROVE FALSE OBVIOUS
  <2>1. PICK t \in S : \A u \in S : u <= t
    <3>1. S \subseteq Ticket OBVIOUS
    <3> HIDE DEF S
    <3> QED BY <3>1, LastTicket
  <2>2. t \in Ticket /\ new[t].status = old[t].status OBVIOUS
  <2>3. ASSUME NEW u \in Kids[t] PROVE F[u] <=> H[u]
    <3>1. u \in Ticket /\ t < u BY <2>2, GraphAssumption
    <3>2. u \notin S
      <4> SUFFICES ASSUME u \in S PROVE FALSE OBVIOUS
      <4>1. u <= t BY <2>1
      <4> QED BY <2>2, <3>1, <4>1, GraphAssumption DEF Ticket
    <3> QED BY <3>1, <3>2
  <2>4. F[t] <=> H[t] BY <1>2, <1>3, <2>2, <2>3
  <2> QED BY <2>4
<1> QED BY <1>1, <1>4 DEF C, D, F, H

\* Time that passes leaves what a pass has to do as it is.
LEMMA SameWork ==
  ASSUME NEW old, NEW new, NEW gls,
         \A t \in Ticket : new[t].status = old[t].status /\ new[t].active = old[t].active
  PROVE  /\ Created(new) = Created(old) /\ Proposed(new) = Proposed(old)
         /\ Blocked(new) = Blocked(old)
         /\ NewlyReady(new, gls) = NewlyReady(old, gls) /\ Doomed(new, gls) = Doomed(old, gls)
         /\ NoneActive(new) <=> NoneActive(old)
         /\ ReadyTickets(new, gls) = ReadyTickets(old, gls)
         /\ \A g : GoalHasTickets(new, g) <=> GoalHasTickets(old, g)
         /\ \A p : Clear(p, new, gls) <=> Clear(p, old, gls)
<1>1. \A t \in Ticket : /\ TicketComplete(new)[t] <=> TicketComplete(old)[t]
                        /\ TicketDead(new)[t] <=> TicketDead(old)[t]
  BY SameStanding
<1>2. \A t \in Ticket : Deps[t] \subseteq Ticket BY GraphAssumption
<1>3. Created(new) = Created(old) /\ Proposed(new) = Proposed(old) BY DEF Created, Proposed
<1>4. Blocked(new) = Blocked(old) BY <1>1, <1>2, <1>3 DEF Blocked, DeadDependency, Created
<1>5. NewlyReady(new, gls) = NewlyReady(old, gls) BY <1>1, <1>2 DEF NewlyReady, DepsSatisfied
<1>6. Doomed(new, gls) = Doomed(old, gls) BY <1>3 DEF Doomed, Created
<1>7. NoneActive(new) <=> NoneActive(old) BY DEF NoneActive
<1>8. ReadyTickets(new, gls) = ReadyTickets(old, gls) BY DEF ReadyTickets
<1>9. \A g : GoalHasTickets(new, g) <=> GoalHasTickets(old, g) BY <1>3 DEF GoalHasTickets
<1>10. AllGoalsDecomposed(new, gls) <=> AllGoalsDecomposed(old, gls) BY <1>9 DEF AllGoalsDecomposed
<1>11. \A p : Clear(p, new, gls) <=> Clear(p, old, gls)
  BY <1>3, <1>4, <1>5, <1>6, <1>7, <1>8, <1>10 DEF Clear
<1> QED BY <1>3, <1>4, <1>5, <1>6, <1>7, <1>8, <1>9, <1>11

\* As long as something was said, lives or went wrong, nothing is asked of the pass.
LEMMA NotStill ==
  ASSUME ClearOK, UNCHANGED <<pc, snap>>, ~Still',
         pc = "check" /\ Live' = {} /\ ~derr' => Live = {} /\ ~derr
  PROVE  ClearOK'
BY DEF ClearOK

\* The pass deals with a ticket it found, and says so.
LEMMA ClearWork ==
  ASSUME ClearOK, NEW t \in Ticket,
         \/ CreateTicket(t) \/ EnforceCancellation(t) \/ EnforceBudget(t) \/ Promote(t)
         \/ FailBlocked(t) \/ RestartStalled(t)
  PROVE  ClearOK'
<1>1. UNCHANGED <<pc, snap, job, derr>> /\ pc # "check"
  BY DEF CreateTicket, EnforceCancellation, EnforceBudget, Promote, FailBlocked, RestartStalled
<1>2. Live' = Live BY <1>1 DEF Live
<1>3. grew' \/ Live # {}
  <2>1. CASE EnforceCancellation(t) /\ InFlight(t) > 0
    <3>1. Live # {}
      <4> SUFFICES ASSUME Live = {} PROVE FALSE OBVIOUS
      <4>1. At(t) = {} BY DEF At
      <4>2. InFlight(t) = 0 BY <4>1, Counted, FS_EmptySet
      <4> QED BY <2>1, <4>2
    <3> QED BY <3>1
  <2>2. CASE ~(EnforceCancellation(t) /\ InFlight(t) > 0)
    BY <2>2 DEF CreateTicket, EnforceCancellation, EnforceBudget, Promote, FailBlocked,
                RestartStalled, FailCancelled, EmitCreated, EmitTicket
  <2> QED BY <2>1, <2>2
<1> QED BY <1>1, <1>2, <1>3, NotStill DEF Still

\* So does the queue, unless it only takes a proposal into its hands.
LEMMA ClearQueue ==
  ASSUME ClearOK, NEW t \in Ticket,
         \/ TakeProposal(t) \/ DropFromBatch(t) \/ Merge(t) \/ Park(t)
         \/ \E r \in Reasons : Reject(t, r)
  PROVE  ClearOK'
<1>1. UNCHANGED <<gl, opt, pc, snap, job, derr>> /\ pc \in {"drain", "outcomes"}
  BY DEF TakeProposal, DropFromBatch, Merge, Park, Reject, NextOutcome, OutcomeDone,
         FailCancelled, logVars, histVars
<1>2. Live' = Live BY <1>1 DEF Live
<1>3. grew' \/ (UNCHANGED <<tk, grew, todo>> /\ pc = "drain")
  BY DEF TakeProposal, DropFromBatch, Merge, Park, Reject, RejectOrFail, FailCancelled,
         EmitTicket, logVars
<1>4. CASE grew' BY <1>1, <1>2, <1>4, NotStill DEF Still
<1>5. CASE UNCHANGED <<tk, grew, todo>> /\ pc = "drain"
  <2>1. Still' <=> Still BY <1>1, <1>2, <1>5 DEF Still
  <2>2. Work("drain")' = Work("drain") BY <1>5 DEF Work
  <2>3. Listed => Listed' BY <1>1, <1>5, <2>2 DEF Listed
  <2> QED BY <1>1, <1>5, <2>1, <2>3 DEF ClearOK
<1> QED BY <1>3, <1>4, <1>5

\* An attempt says something with every step that ends it, or leaves its error.
LEMMA ClearJob ==
  ASSUME Types, PromptWorkers, JobsOK, ClearOK, NEW w \in Attempt,
         Dispatch(w) \/ Beat(w) \/ EmitFails(w), JobStep(w)
  PROVE  ClearOK'
<1>1. UNCHANGED <<pc, snap>> /\ job[w].pc # "exit" /\ job[w].pc # "off"
  BY DEF JobStep, JobsOK
<1>2. pc = "check" => w \in Live' BY <1>1 DEF JobStep, Live
<1>3. grew' \/ derr' \/ w \in Live'
  <2>0. DOMAIN job = Attempt /\ job[w] \in Job BY DEF Types
  <2>1. CASE \/ Propose(w) \/ Invalidate(w) \/ FailDecompose(w) \/ CreateChild(w) \/ Decompose(w)
             \/ StartWork(w) \/ Claim(w) \/ Beat(w) \/ EmitFails(w)
             \/ \E r \in Reasons : FailAttempt(w, r)
    BY <2>1 DEF Propose, Invalidate, FailDecompose, CreateChild, Decompose, StartWork, Claim,
                Beat, EmitFails, FailAttempt, EmitCreated, EmitTicket
  <2>2. CASE AddWorktree(w) \/ AgentFails(w) \/ Commit(w) \/ Split(w) \/ ReadIsLast(w)
    <3>1. job'[w].pc # "off"
      BY <2>0, <2>2 DEF AddWorktree, AgentFails, Commit, Split, ReadIsLast, Goto, Job
    <3> QED BY <3>1 DEF Live
  <2>3. CASE Exit(w) BY <1>1, <2>3 DEF Exit
  <2> QED BY <2>1, <2>2, <2>3 DEF Dispatch
<1> QED BY <1>1, <1>2, <1>3, NotStill DEF Still

\* The front doors and the budget say something; only time passes in silence.
LEMMA ClearFront ==
  ASSUME Types, ClearOK, FrontTries,
         \/ \E g \in Goal : Submit(g) \/ Cancel(g) \/ TripBudget(g)
         \/ \E t \in Ticket : Approve(t) \/ Deny(t) \/ Elapse(t)
  PROVE  ClearOK'
<1>1. UNCHANGED <<pc, snap, todo, job, derr, opt>>
  BY DEF Submit, Cancel, TripBudget, Approve, Deny, Elapse, passVars
<1>2. Live' = Live BY <1>1 DEF Live
<1>3. CASE grew' BY <1>1, <1>2, <1>3, NotStill DEF Still
<1>4. CASE UNCHANGED <<gl, grew>> /\ \E t \in Ticket : Elapse(t)
  <2>1. \A t \in Ticket : tk'[t].status = tk[t].status /\ tk'[t].active = tk[t].active
    <3>1. PICK t \in Ticket : Elapse(t) BY <1>4
    <3>2. tk' = [tk EXCEPT ![t].quiet = TRUE] BY <3>1 DEF Elapse
    <3>3. tk[t] \in Rec /\ DOMAIN tk = Ticket BY DEF Types
    <3>4. tk'[t] = [tk[t] EXCEPT !.quiet = TRUE] /\ \A u \in Ticket : u # t => tk'[u] = tk[u]
      BY <3>2, <3>3
    <3> QED BY <3>3, <3>4 DEF Rec, TicketRecord
  <2>2. /\ Created(tk') = Created(tk) /\ Proposed(tk') = Proposed(tk)
        /\ Blocked(tk') = Blocked(tk)
        /\ NewlyReady(tk', gl) = NewlyReady(tk, gl)
        /\ \A g : GoalHasTickets(tk', g) <=> GoalHasTickets(tk, g)
        /\ Clear(pc, tk', gl) <=> Clear(pc, tk, gl)
    <3> DEFINE new == tk'
    <3>1. \A t \in Ticket : new[t].status = tk[t].status /\ new[t].active = tk[t].active
      BY <2>1
    <3> HIDE DEF new
    <3>2. /\ Created(new) = Created(tk) /\ Proposed(new) = Proposed(tk)
          /\ Blocked(new) = Blocked(tk)
          /\ NewlyReady(new, gl) = NewlyReady(tk, gl)
          /\ \A g : GoalHasTickets(new, g) <=> GoalHasTickets(tk, g)
          /\ Clear(pc, new, gl) <=> Clear(pc, tk, gl)
      BY <3>1, SameWork
    <3> QED BY <3>2 DEF new
  <2>3. \A p \in {"create", "cancel", "promote", "drain", "batch", "blocked"} :
          Work(p)' = Work(p)
    <3>1. Work("create")' = Work("create") BY <1>4, <2>2 DEF Work
    <3>2. Work("cancel")' = Work("cancel") BY <1>4, <2>1, <2>2 DEF Work, Created
    <3>3. /\ Work("promote")' = Work("promote") /\ Work("drain")' = Work("drain")
          /\ Work("batch")' = Work("batch") /\ Work("blocked")' = Work("blocked")
      BY <1>4, <2>2 DEF Work
    <3> QED BY <3>1, <3>2, <3>3
  <2>4. Listed => Listed' BY <1>1, <1>4, <2>1, <2>2, <2>3 DEF Listed
  <2>5. Still' <=> Still BY <1>1, <1>2, <1>4 DEF Still
  <2> QED BY <1>1, <1>2, <1>4, <2>2, <2>4, <2>5 DEF ClearOK
<1>5. grew' \/ (UNCHANGED <<gl, grew>> /\ \E t \in Ticket : Elapse(t))
  BY DEF Submit, Cancel, TripBudget, Approve, Deny, Elapse, EmitGoal, EmitTicket
<1> QED BY <1>3, <1>4, <1>5

\* The numbers a launch goes by.
LEMMA NoAttempts ==
  ASSUME Live = {}, NoneActive(snap.tk)
  PROVE  ActiveAttempts = 0 /\ \A t \in Ticket : InFlight(t) = 0
<1>1. ASSUME NEW t \in Ticket PROVE InFlight(t) = 0
  <2>1. At(t) = {} BY DEF At
  <2> QED BY <2>1, Counted, FS_EmptySet
<1>2. \A t \in Ticket : AttemptsAt(t) = 0 BY <1>1 DEF AttemptsAt, NoneActive
<1>3. \A t \in Ticket : 1..AttemptsAt(t) = {} BY <1>2
<1>4. UNION {{t} \X (1..AttemptsAt(t)) : t \in Ticket} = {}
  <2>1. \A t \in Ticket : {t} \X (1..AttemptsAt(t)) = {} BY <1>3
  <2> QED BY <2>1
<1>5. ActiveAttempts = Cardinality(UNION {{t} \X (1..AttemptsAt(t)) : t \in Ticket})
  BY DEF ActiveAttempts, Total
<1> QED BY <1>1, <1>4, <1>5, FS_EmptySet

\* When a launch starts nothing and nothing lives, nothing is ready.
LEMMA ClearLaunch ==
  ASSUME Types, OneByOne, ClearOK, Launch
  PROVE  ClearOK'
<1>1. pc = "count" /\ UNCHANGED <<tk, gl, grew>> /\ pc' \in {"join", "launch"}
      /\ (pc' = "launch" => ~derr)
  BY DEF Launch, ReturnFromRun, logVars
<1>2. PICK L \in SUBSET Dispatchable :
        /\ IsWave(L)
        /\ job' = [w \in Attempt |->
                    IF TicketOf(w) \in L /\ w = FreeSlot(TicketOf(w))
                    THEN [NoJob EXCEPT !.pc = "claim", !.number = snap.tk[TicketOf(w)].attempts + 1]
                    ELSE job[w]]
  BY DEF Launch
<1>3. SUFFICES ASSUME pc' = "launch", Live' = {}, ~grew
               PROVE  Clear("launch", tk, gl)
  <2>1. CASE pc' = "join" BY <2>1 DEF ClearOK, Phase
  <2>2. CASE pc' = "launch"
    <3>1. Listed' BY <2>2 DEF Listed
    <3>2. ASSUME Still' PROVE Clear(pc, tk, gl)'
      <4>1. Live' = {} /\ ~grew BY <1>1, <3>2 DEF Still
      <4>2. Clear("launch", tk, gl) BY <1>3, <2>2, <4>1
      <4> QED BY <1>1, <2>2, <4>2
    <3> QED BY <2>2, <3>1, <3>2 DEF ClearOK
  <2> QED BY <1>1, <2>1, <2>2
<1>4. \A w \in Attempt : job'[w].pc # "off" \/ (job'[w] = job[w] /\ job[w].pc = "off")
  <2>1. \A w \in Attempt : job'[w] = job[w] \/ job'[w].pc = "claim" BY <1>2 DEF NoJob
  <2> QED BY <2>1
<1>5. \A w \in Attempt : job'[w] = job[w] /\ job[w].pc = "off" BY <1>3, <1>4 DEF Live
<1>6. L = {}
  <2> SUFFICES ASSUME NEW t \in L PROVE FALSE OBVIOUS
  <2>1. t \in Ticket BY DEF Dispatchable, ReadyTickets
  <2> DEFINE w == FreeSlot(t)
  <2>2. <<t, 1>> \in Attempt /\ TicketOf(<<t, 1>>) = t /\ <<t, 1>>[2] = 1
    BY <2>1, OptionsAssumption DEF Attempt, TicketOf
  <2>3. \A v \in Attempt : 1 <= v[2] BY OptionsAssumption DEF Attempt
  <2>4. w \in Attempt /\ TicketOf(w) = t
    <3>1. \E v \in Attempt : /\ TicketOf(v) = t /\ job[v].pc = "off"
                             /\ \A u \in Attempt : TicketOf(u) = t /\ job[u].pc = "off" => v[2] <= u[2]
      BY <1>5, <2>2, <2>3
    <3> QED BY <3>1 DEF FreeSlot
  <2>5. job'[w].pc = "claim" BY <1>2, <2>4 DEF NoJob
  <2> QED BY <1>5, <2>4, <2>5
<1>7. Live = {} /\ Still BY <1>1, <1>3, <1>5 DEF Live, Still
<1>8. /\ Clear("count", tk, gl) /\ snap.gl = gl
      /\ \A t \in Ticket : snap.tk[t].status = tk[t].status /\ snap.tk[t].active = tk[t].active
  BY <1>1, <1>7 DEF ClearOK, Listed, Phase
<1>9. ASSUME NoneActive(tk) PROVE ReadyTickets(tk, gl) = {}
  <2>1. NoneActive(snap.tk) BY <1>8, <1>9 DEF NoneActive
  <2>2. ActiveAttempts = 0 /\ \A t \in Ticket : InFlight(t) = 0 BY <1>7, <2>1, NoAttempts
  <2>3. Concurrency \in Nat /\ 0 < Concurrency /\ BestOfN = 1
    BY OptionsAssumption DEF Types, OptionsRecord, Concurrency, OneByOne
  <2>4. IsFiniteSet(Dispatchable) /\ Cardinality(Dispatchable) \in Nat
    <3>1. Dispatchable \subseteq Ticket BY DEF Dispatchable, ReadyTickets
    <3> QED BY <3>1, Counted, FS_Subset, FS_CardinalityType
  <2>5. Cardinality(L) = 0 BY <1>6, FS_EmptySet
  <2>6. Cardinality(L) = IF Concurrency - 0 < Cardinality(Dispatchable)
                         THEN Concurrency - 0 ELSE Cardinality(Dispatchable)
    BY <1>2, <2>2, <2>3 DEF IsWave
  <2>7. Cardinality(Dispatchable) = 0 BY <2>3, <2>4, <2>5, <2>6
  <2>8. Dispatchable = {} BY <2>4, <2>7, FS_EmptySet
  <2>9. \A t \in ReadyTickets(snap.tk, snap.gl) : t \in Dispatchable
    BY <2>1, <2>2, <2>3 DEF Dispatchable, NoneActive, ReadyTickets
  <2>10. ReadyTickets(snap.tk, gl) = ReadyTickets(tk, gl) BY <1>8 DEF ReadyTickets
  <2> QED BY <1>8, <2>8, <2>9, <2>10
<1> QED BY <1>8, <1>9 DEF Clear

\* A step of the pass that has dealt with all it found leaves nothing undone.
LEMMA ClearAdvance ==
  ASSUME Types, BornOK, BranchOK, ClearOK, Advance
  PROVE  ClearOK'
<1>1. UNCHANGED <<tk, gl, grew, job, derr, opt>> /\ pc \in Phase \ {"pass", "count", "check"}
      /\ todo = {}
  BY DEF Advance, logVars
<1>2. PICK p \in {NextPhase} : Load(p) BY DEF Advance
<1>3. /\ pc' = p /\ todo' = Work(p)
      /\ p \in {"count", "check"} => snap' = [tk |-> tk, gl |-> gl, grew |-> grew]
  BY <1>2 DEF Load
<1>4. Live' = Live BY <1>1 DEF Live
<1>5. SUFFICES ASSUME Still, Clear(pc, tk, gl), Listed
               PROVE  Clear(p, tk, gl) /\ p # "outcomes"
  <2>1. Still' <=> Still BY <1>1, <1>4 DEF Still
  <2>2. Work(p)' = Work(p) BY <1>1, <1>2 DEF Work, Exceeded, Budget
  <2>3. ASSUME p # "outcomes" PROVE Listed'
    <3>1. Work(pc)' = Work(p)' BY <1>3
    <3>2. p = "count" => /\ snap'.gl = gl'
                         /\ \A t \in Ticket : /\ snap'.tk[t].status = tk'[t].status
                                              /\ snap'.tk[t].active = tk'[t].active
      BY <1>1, <1>3
    <3> QED BY <1>3, <2>2, <2>3, <3>1, <3>2 DEF Listed
  <2>4. ASSUME Still PROVE Clear(p, tk, gl) /\ Listed'
    <3>1. Clear(pc, tk, gl) /\ Listed BY <1>1, <2>4 DEF ClearOK
    <3> QED BY <1>5, <2>3, <2>4, <3>1
  <2>5. CASE p # "check" BY <1>1, <1>3, <2>1, <2>4, <2>5 DEF ClearOK
  <2>6. CASE p = "check"
    <3>1. snap'.tk = tk /\ snap'.gl = gl /\ snap'.grew = grew BY <1>3, <2>6
    <3>2. ASSUME Live = {}, ~derr, ~grew PROVE Clear("check", tk, gl)
      BY <2>4, <2>6, <3>2 DEF Still
    <3>3. \A t \in Ticket : tk[t].status \in Busy => tk[t].active = 1 BY DEF BranchOK
    <3> QED BY <1>1, <1>3, <1>4, <2>6, <3>1, <3>2, <3>3 DEF ClearOK, BornOK
  <2> QED BY <2>5, <2>6
<1>6. CASE pc = "begin"
  <2>1. p = "create" BY <1>2, <1>6 DEF NextPhase
  <2> QED BY <2>1 DEF Clear
<1>7. CASE pc = "create"
  <2>1. p = "cancel" BY <1>2, <1>7 DEF NextPhase
  <2>2. Work("create") = {} BY <1>1, <1>5, <1>7 DEF Listed
  <2>3. AllGoalsDecomposed(tk, gl) BY <2>2 DEF Work, AllGoalsDecomposed
  <2> QED BY <2>1, <2>3 DEF Clear
<1>8. CASE pc = "cancel"
  <2>1. p \in {"budget", "promote"} BY <1>2, <1>8 DEF NextPhase
  <2>2. Work("cancel") = {} BY <1>1, <1>5, <1>8 DEF Listed
  <2>3. Doomed(tk, gl) = {} BY <2>2 DEF Work, Doomed, Busy
  <2> QED BY <1>5, <1>8, <2>1, <2>3 DEF Clear
<1>9. CASE pc = "budget"
  <2>1. p = "promote" BY <1>2, <1>9 DEF NextPhase
  <2> QED BY <1>5, <1>9, <2>1 DEF Clear
<1>10. CASE pc = "promote"
  <2>1. p = "count" BY <1>2, <1>10 DEF NextPhase
  <2>2. NewlyReady(tk, gl) = {} BY <1>1, <1>5, <1>10 DEF Listed, Work
  <2> QED BY <1>5, <1>10, <2>1, <2>2 DEF Clear
<1>11. CASE pc = "launch"
  <2>1. p \in {"batch", "drain"} BY <1>2, <1>11 DEF NextPhase
  <2> QED BY <1>5, <1>11, <2>1 DEF Clear
<1>12. CASE pc \in {"drain", "batch", "outcomes"}
  <2>1. p = "blocked" BY <1>2, <1>12 DEF NextPhase
  <2>2. Proposed(tk) = {} BY <1>1, <1>5, <1>12 DEF Listed, Work
  <2> QED BY <1>5, <1>12, <2>1, <2>2 DEF Clear
<1>13. CASE pc = "blocked"
  <2>1. p = "stall" BY <1>2, <1>13 DEF NextPhase
  <2>2. Blocked(tk) = {} BY <1>1, <1>5, <1>13 DEF Listed, Work
  <2> QED BY <1>5, <1>13, <2>1, <2>2 DEF Clear
<1>14. CASE pc = "stall"
  <2>1. p = "check" BY <1>2, <1>14 DEF NextPhase
  <2> QED BY <1>5, <1>14, <2>1 DEF Clear
<1> QED BY <1>1, <1>6, <1>7, <1>8, <1>9, <1>10, <1>11, <1>12, <1>13, <1>14 DEF Phase

\* A pass begins, hands a batch to the queue, ends or dies.
LEMMA ClearMoves ==
  ASSUME ClearOK,
         \/ Start \/ BeginPass \/ TakeBatch \/ EndPass \/ Join
         \/ SchedulerFails \/ Crash \/ \E t \in Ticket : DecisionLost(t)
  PROVE  ClearOK'
<1>1. CASE ~TakeBatch
  <2>1. pc' \in {"pass", "begin", "down", "join"}
    BY <1>1 DEF Start, BeginPass, EndPass, Join, SchedulerFails, Crash, DecisionLost, ReturnFromRun
  <2>2. CASE pc' # "begin" BY <2>1, <2>2 DEF ClearOK, Phase
  <2>3. CASE pc' = "begin"
    <3>1. Clear(pc, tk, gl)' BY <2>3 DEF Clear
    <3>2. Listed' BY <2>3 DEF Listed
    <3> QED BY <2>3, <3>1, <3>2 DEF ClearOK
  <2> QED BY <2>2, <2>3
<1>2. CASE TakeBatch
  <2>1. /\ UNCHANGED <<tk, gl, grew, todo, snap, job, derr>>
        /\ pc = "batch" /\ pc' = "outcomes"
    BY <1>2 DEF TakeBatch, logVars
  <2>2. Live' = Live /\ (Still' <=> Still) BY <2>1 DEF Live, Still
  <2>3. Clear("batch", tk, gl) => Clear("outcomes", tk, gl) BY DEF Clear
  <2>4. Listed => Listed'
    BY <2>1 DEF Listed, Work, Proposed
  <2> QED BY <2>1, <2>2, <2>3, <2>4 DEF ClearOK, Phase
<1> QED BY <1>1, <1>2

-----------------------------------------------------------------------------
(* What is waited for exists *)

\* It does as long as what is created depends on tickets that are there, and what
\* is split is split into such tickets.
LEMMA BornStays ==
  ASSUME Born(tk), NEW new,
         \A t \in Ticket : tk[t].status # "none" => new[t].status # "none",
         \A t \in Ticket : tk[t].status = "none" /\ new[t].status # "none" => Deps[t] \subseteq Created(tk),
         \A t \in Ticket : new[t].status = "decomposed" =>
           tk[t].status = "decomposed" \/ Kids[t] \subseteq Created(tk)
  PROVE  Born(new) /\ Created(tk) \subseteq Created(new)
<1>1. Created(tk) \subseteq Created(new) BY DEF Created
<1>2. ASSUME NEW t \in Created(new)
      PROVE  /\ Deps[t] \subseteq Created(tk)
             /\ new[t].status = "decomposed" => Kids[t] \subseteq Created(tk)
  <2>1. t \in Ticket /\ new[t].status # "none" BY DEF Created
  <2>2. CASE tk[t].status = "none" BY <2>1, <2>2
  <2>3. CASE tk[t].status # "none"
    <3>1. t \in Created(tk) BY <2>1, <2>3 DEF Created
    <3> QED BY <2>1, <3>1 DEF Born
  <2> QED BY <2>2, <2>3
<1> QED BY <1>1, <1>2 DEF Born

\* No event but TicketCreated makes a ticket, and none but TicketDecomposed splits one.
LEMMA PlainOfSplits ==
  ASSUME NEW x \in Rec, NEW w, NEW r, NEW b,
         NEW y \in {x, TicketReady(x), ApprovalRequested(x), TicketFailed(x, w, r),
                    VerificationFailed(x, w, r), WorkerRestarted(x, w, r),
                    TicketInvalidated(x, r), ProposalSubmitted(x, b)}
  PROVE  /\ x.status = "none" => y.status = "none"
         /\ y.status = "decomposed" => x.status = "decomposed"
<1>0. x.active \in Nat /\ x.status \in Status BY Numbers
<1>1. CASE y \in {x, TicketReady(x), ApprovalRequested(x)}
  BY <1>1 DEF TicketReady, ApprovalRequested, Rec, TicketRecord
<1>2. CASE y = TicketFailed(x, w, r) BY <1>2 DEF TicketFailed, Rec, TicketRecord, Early
<1>3. CASE y = VerificationFailed(x, w, r)
  BY <1>3 DEF VerificationFailed, Rec, TicketRecord, Early
<1>4. CASE y = WorkerRestarted(x, w, r)
  <2>1. y.status \in {"ready", x.status} /\ (x.status \notin Early => y.status = x.status)
    BY <1>4 DEF WorkerRestarted, Rec, TicketRecord
  <2> QED BY <2>1 DEF Early
<1>5. CASE y = TicketInvalidated(x, r) BY <1>5 DEF TicketInvalidated, Rec, TicketRecord
<1>6. CASE y = ProposalSubmitted(x, b) BY <1>6 DEF ProposalSubmitted, Rec, TicketRecord, Early
<1> QED BY <1>1, <1>2, <1>3, <1>4, <1>5, <1>6

\* A pass creates the ticket of a goal, and splits nothing.
LEMMA PassBears ==
  ASSUME Types, QueueOK, BornOK, NEW t \in Ticket,
         \/ CreateTicket(t) \/ EnforceCancellation(t) \/ EnforceBudget(t) \/ Promote(t)
         \/ FailBlocked(t) \/ RestartStalled(t)
         \/ TakeProposal(t) \/ DropFromBatch(t) \/ Merge(t) \/ Park(t)
         \/ \E r \in Reasons : Reject(t, r)
  PROVE  /\ tk[t].status = "none" /\ tk'[t].status # "none" => Deps[t] = {}
         /\ tk'[t].status = "decomposed" => tk[t].status = "decomposed"
<1> DEFINE x == tk[t]
           w == snap.tk[t].worker
<1>0. x \in Rec BY DEF Types
<1>1. ASSUME tk' = tk \/ \E y : EmitTicket(t, y) /\
               \/ y \in {TicketReady(x), ApprovalRequested(x)}
               \/ \E r : y \in {TicketFailed(x, w, r), VerificationFailed(x, w, r),
                                WorkerRestarted(x, w, r)}
      PROVE  /\ tk[t].status = "none" => tk'[t].status = "none"
             /\ tk'[t].status = "decomposed" => tk[t].status = "decomposed"
  <2>1. CASE tk' = tk BY <2>1
  <2>2. ASSUME NEW y, EmitTicket(t, y), NEW r,
               y \in {TicketReady(x), ApprovalRequested(x), TicketFailed(x, w, r),
                      VerificationFailed(x, w, r), WorkerRestarted(x, w, r)}
        PROVE  /\ tk[t].status = "none" => tk'[t].status = "none"
               /\ tk'[t].status = "decomposed" => tk[t].status = "decomposed"
    <3>1. tk'[t] = y BY <2>2, Written
    <3> QED BY <1>0, <2>2, <3>1, PlainOfSplits
  <2> QED BY <1>1, <2>1, <2>2
<1>2. CASE CreateTicket(t)
  <2>1. t \in todo /\ pc = "create" BY <1>2 DEF CreateTicket, FirstId
  <2>2. PICK g \in Goal : t = Root(g) BY <2>1 DEF BornOK
  <2>3. Deps[t] = {} BY <2>2, RootsAssumption
  <2>4. tk'[t] = TicketCreated(x, Cardinality(Created(tk)) + 1)
    BY <1>2, Written DEF CreateTicket, EmitCreated
  <2>5. tk'[t].status \in {"pending", x.status} BY <2>4 DEF TicketCreated, NoTicket
  <2> QED BY <2>3, <2>5
<1>3. CASE EnforceCancellation(t) \/ EnforceBudget(t) \/ FailBlocked(t) \/ DropFromBatch(t) \/ TakeProposal(t)
  <2>1. tk' = tk \/ EmitTicket(t, TicketFailed(x, w, "other"))
    BY <1>3 DEF EnforceCancellation, EnforceBudget, FailBlocked, DropFromBatch, TakeProposal,
                FailCancelled, logVars
  <2> QED BY <1>1, <2>1
<1>4. CASE Promote(t) BY <1>1, <1>4 DEF Promote
<1>5. CASE RestartStalled(t) BY <1>1, <1>5 DEF RestartStalled
<1>6. CASE Park(t) BY <1>1, <1>6 DEF Park
<1>7. CASE Merge(t)
  <2>1. t \in todo /\ pc \in QueuePhases
    BY <1>7 DEF Merge, NextOutcome, First, QueueOK, QueuePhases
  <2>2. tk[t].status = "proposed" BY <2>1 DEF QueueOK
  <2>3. tk'[t].status = "merged" BY <1>0, <1>7, Written, LandingEvents DEF Merge
  <2> QED BY <2>2, <2>3
<1>8. ASSUME NEW r \in Reasons, Reject(t, r)
      PROVE  /\ tk[t].status = "none" => tk'[t].status = "none"
             /\ tk'[t].status = "decomposed" => tk[t].status = "decomposed"
  <2>1. \/ EmitTicket(t, TicketFailed(x, w, r)) \/ EmitTicket(t, VerificationFailed(x, w, r))
    BY <1>8 DEF Reject, RejectOrFail
  <2> QED BY <1>1, <2>1
<1> QED BY <1>2, <1>3, <1>4, <1>5, <1>6, <1>7, <1>8

\* An attempt creates a child when what it depends on is there, and ends its ticket
\* as split when all the children are.
LEMMA JobBears ==
  ASSUME Types, PromptWorkers, JobsOK, CountOK, BornOK, NEW w \in Attempt,
         Dispatch(w) \/ Beat(w) \/ EmitFails(w), JobStep(w), JobTries(w)
  PROVE  /\ \A u \in Ticket : tk[u].status # "none" => tk'[u].status # "none"
         /\ \A u \in Ticket : tk[u].status = "none" /\ tk'[u].status # "none"
              => Deps[u] \subseteq Created(tk)
         /\ \A u \in Ticket : tk'[u].status = "decomposed" =>
              tk[u].status = "decomposed" \/ Kids[u] \subseteq Created(tk)
         /\ job'[w].pc = "split" => job[w].pc = "split" \/ KnownDeps(TicketOf(w))
<1> DEFINE t == TicketOf(w)
           x == tk[TicketOf(w)]
<1>0. t \in Ticket /\ x \in Rec /\ x.status # "none" /\ job[w] \in Job
  BY Attempts DEF JobStep, CountOK, IsLive
<1>1. \A u \in Ticket : u # t => tk'[u] = tk[u] \/ Fresh(tk[u], tk'[u]) BY DEF JobTries
<1>2. tk'[t].status # "none"
  BY <1>0 DEF JobTries, JobClaims, JobGoesOn, JobEnds, Calm
<1>3. \A u \in Ticket : tk[u].status # "none" => tk'[u].status # "none"
  BY <1>1, <1>2 DEF Fresh
<1>4. ASSUME \/ tk' = tk
             \/ \E y : /\ EmitTicket(t, y)
                       /\ y.status = "decomposed" => x.status = "decomposed"
      PROVE  /\ \A u \in Ticket : tk[u].status = "none" => tk'[u].status = "none"
             /\ \A u \in Ticket : tk'[u].status = "decomposed" => tk[u].status = "decomposed"
  <2>1. CASE tk' = tk BY <2>1
  <2>2. ASSUME NEW y, EmitTicket(t, y), y.status = "decomposed" => x.status = "decomposed"
        PROVE  /\ \A u \in Ticket : tk[u].status = "none" => tk'[u].status = "none"
               /\ \A u \in Ticket : tk'[u].status = "decomposed" => tk[u].status = "decomposed"
    <3>1. tk'[t] = y BY <1>0, <2>2, Written
    <3>2. \A u \in Ticket : u # t => tk'[u] = tk[u] BY <2>2 DEF EmitTicket, Types
    <3> QED BY <1>0, <2>2, <3>1, <3>2
  <2> QED BY <1>4, <2>1, <2>2
<1>5. ASSUME \/ tk' = tk
             \/ \E y : /\ EmitTicket(t, y)
                       /\ y.status = "decomposed" => x.status = "decomposed",
             job'[w].pc = "split" => KnownDeps(TicketOf(w))
      PROVE  /\ \A u \in Ticket : tk[u].status = "none" /\ tk'[u].status # "none"
                  => Deps[u] \subseteq Created(tk)
             /\ \A u \in Ticket : tk'[u].status = "decomposed" =>
                  tk[u].status = "decomposed" \/ Kids[u] \subseteq Created(tk)
             /\ job'[w].pc = "split" => job[w].pc = "split" \/ KnownDeps(TicketOf(w))
  BY <1>4, <1>5
<1>6. ASSUME EndJob(w) PROVE job'[w].pc # "split"
  BY <1>6, IsOver DEF JobStep
<1>7. CASE AddWorktree(w) \/ AgentFails(w) \/ Commit(w) \/ ReadIsLast(w) \/ Exit(w) \/ Split(w)
  <2>1. tk' = tk
    BY <1>7 DEF AddWorktree, AgentFails, Commit, ReadIsLast, Exit, Split, logVars
  <2>2. job'[w].pc = "split" => KnownDeps(TicketOf(w))
    <3>1. DOMAIN job = Attempt BY DEF Types
    <3> QED BY <1>0, <1>7, <3>1 DEF AddWorktree, AgentFails, Commit, ReadIsLast, Exit, Split,
               Goto, Job, NoJob
  <2> QED BY <1>3, <1>5, <2>1, <2>2
<1>8. CASE Claim(w) \/ StartWork(w) \/ Beat(w)
  <2>1. /\ TicketClaimed(x).status # "decomposed" /\ WorkStarted(x).status # "decomposed"
        /\ Heartbeat(x).status = x.status
    BY <1>0 DEF TicketClaimed, WorkStarted, Heartbeat, Rec, TicketRecord
  <2>2. \E y \in {TicketClaimed(x), WorkStarted(x), Heartbeat(x)} : EmitTicket(t, y)
    BY <1>8 DEF Claim, StartWork, Beat
  <2>3. job'[w].pc # "split"
    <3>1. DOMAIN job = Attempt BY DEF Types
    <3> QED BY <1>0, <1>8, <3>1 DEF Claim, StartWork, Beat, Job
  <2> QED BY <1>3, <1>5, <2>1, <2>2, <2>3
<1>9. CASE \/ Propose(w) \/ Invalidate(w) \/ FailDecompose(w) \/ EmitFails(w)
           \/ \E r \in Reasons : FailAttempt(w, r)
  <2>1. EndJob(w)
    BY <1>9 DEF Propose, Invalidate, FailDecompose, EmitFails, FailAttempt
  <2>2. \/ tk' = tk
        \/ \E r : \E y \in {ProposalSubmitted(x, job[w].branch), TicketInvalidated(x, r),
                            TicketFailed(x, Worker, r), WorkerRestarted(x, Worker, r)} :
             EmitTicket(t, y)
    <3>1. CASE Propose(w) \/ FailDecompose(w) \/ Invalidate(w) \/ EmitFails(w)
      BY <3>1 DEF Propose, FailDecompose, Invalidate, EmitFails, logVars
    <3>2. ASSUME NEW r \in Reasons, FailAttempt(w, r)
          PROVE  \E y \in {TicketFailed(x, Worker, r), WorkerRestarted(x, Worker, r)} :
                   EmitTicket(t, y)
      BY <3>2 DEF FailAttempt
    <3> QED BY <1>9, <3>1, <3>2
  <2>3. \A r : \A y \in {ProposalSubmitted(x, job[w].branch), TicketInvalidated(x, r),
                         TicketFailed(x, Worker, r), WorkerRestarted(x, Worker, r)} :
          y.status = "decomposed" => x.status = "decomposed"
    BY <1>0, PlainOfSplits
  <2> QED BY <1>3, <1>5, <1>6, <2>1, <2>2, <2>3
<1>10. CASE CreateChild(w)
  <2>1. PICK u \in Unborn(w) : (\A v \in Unborn(w) : u <= v) /\ EmitCreated(u)
    BY <1>10 DEF CreateChild
  <2>2. job[w].pc = "split" BY <1>10 DEF CreateChild
  <2>3. u \in Kids[t] /\ u \in Ticket BY <1>0, GraphAssumption DEF Unborn
  <2>4. \A v \in Ticket : v # u => tk'[v] = tk[v]
    BY <2>1 DEF EmitCreated, EmitTicket, Types
  <2>5. Deps[u] \subseteq Created(tk)
    <3> SUFFICES ASSUME NEW v \in Deps[u], v \notin Created(tk) PROVE FALSE OBVIOUS
    <3>1. v \in Ticket /\ v < u BY <2>3, GraphAssumption
    <3>2. v \in Kids[t] BY <2>2, <2>3 DEF BornOK, KnownDeps
    <3>3. u <= v BY <2>1, <3>2 DEF Unborn
    <3> QED BY <2>3, <3>1, <3>3 DEF Ticket
  <2>6. tk'[u].status \in {"pending", tk[u].status}
    <3>1. tk'[u] = TicketCreated(tk[u], Cardinality(Created(tk)) + 1)
      BY <2>1, <2>3, Written DEF EmitCreated
    <3> QED BY <3>1 DEF TicketCreated, NoTicket
  <2> QED BY <1>3, <2>2, <2>4, <2>5, <2>6
<1>11. CASE Decompose(w)
  <2>1. Kids[t] \subseteq Created(tk) BY <1>11 DEF Decompose, Unborn
  <2>2. \A u \in Ticket : u # t => tk'[u] = tk[u]
    BY <1>11 DEF Decompose, EmitTicket, Types
  <2>3. EndJob(w) BY <1>11 DEF Decompose
  <2> QED BY <1>0, <1>3, <1>6, <2>1, <2>2, <2>3
<1> QED BY <1>7, <1>8, <1>9, <1>10, <1>11 DEF Dispatch

\* What depends on what is there still does.
LEMMA KnownStays ==
  ASSUME Created(tk) \subseteq Created(tk'), NEW t, KnownDeps(t)
  PROVE  KnownDeps(t)'
BY DEF KnownDeps

\* Every step keeps it so.
LEMMA BornKept ==
  ASSUME Types, OneByOne, QueueOK, JobsOK, TriesOK, CountOK, BornOK, Next
  PROVE  BornOK'
<1> DEFINE Roots == {Root(g) : g \in Goal}
           Stand == Born(tk)' /\ Created(tk) \subseteq Created(tk')
<1>0. PromptWorkers BY DEF OneByOne
<1>1. ASSUME Stand, pc' = "create" => todo' \subseteq Roots,
             \A w \in Attempt : job'[w].pc = "split" =>
               job[w].pc = "split" \/ KnownDeps(TicketOf(w))
      PROVE  BornOK'
  <2>1. \A w \in Attempt : job'[w].pc = "split" => KnownDeps(TicketOf(w))
    BY <1>1 DEF BornOK
  <2>2. \A w \in Attempt : job'[w].pc = "split" => KnownDeps(TicketOf(w))'
    BY <1>1, <2>1, KnownStays
  <2> QED BY <1>1, <2>2 DEF BornOK
<1>2. CASE \/ Start \/ BeginPass \/ TakeBatch \/ EndPass \/ Join \/ Launch
           \/ SchedulerFails \/ Crash \/ \E t \in Ticket : DecisionLost(t)
  <2>1. tk' = tk /\ pc' # "create"
    BY <1>2 DEF Start, BeginPass, TakeBatch, EndPass, Join, Launch, SchedulerFails, Crash,
                DecisionLost, ReturnFromRun, logVars
  <2>2. ASSUME NEW w \in Attempt, job'[w].pc = "split" PROVE job[w].pc = "split"
    <3>1. CASE Launch
      <4>1. job'[w] = job[w] \/ job'[w].pc = "claim" BY <3>1 DEF Launch, NoJob
      <4> QED BY <2>2, <4>1
    <3>2. CASE ~Launch
      <4>1. job' = job \/ job' = [v \in Attempt |-> NoJob]
        BY <1>2, <3>2 DEF Start, BeginPass, TakeBatch, EndPass, Join, SchedulerFails, Crash,
                          DecisionLost
      <4> QED BY <2>2, <4>1 DEF NoJob
    <3> QED BY <3>1, <3>2
  <2>3. Stand BY <2>1 DEF BornOK, Born, Created
  <2> QED BY <1>1, <2>1, <2>2, <2>3
<1>3. CASE Advance
  <2>1. tk' = tk /\ job' = job BY <1>3 DEF Advance, logVars
  <2>2. PICK p \in {NextPhase} : Load(p) BY <1>3 DEF Advance
  <2>3. pc' = "create" => todo' \subseteq Roots BY <2>2 DEF Load, Work
  <2>4. Stand BY <2>1 DEF BornOK, Born, Created
  <2> QED BY <1>1, <2>1, <2>3, <2>4
<1>4. CASE \/ \E g \in Goal : Submit(g) \/ Cancel(g) \/ TripBudget(g)
           \/ \E t \in Ticket : Approve(t) \/ Deny(t) \/ Elapse(t)
  <2>1. FrontStep /\ FrontTries BY <1>4, FrontWork, FrontCounts
  <2>2. UNCHANGED <<pc, todo, job>> BY <2>1 DEF FrontStep
  <2>3. \A t \in Ticket : \/ tk'[t].status = tk[t].status
                          \/ tk[t].status = "awaiting" /\ tk'[t].status \in {"proposed", "failed"}
    BY <2>1 DEF FrontTries
  <2>4. \A t \in Ticket : /\ tk[t].status # "none" => tk'[t].status # "none"
                          /\ tk[t].status = "none" => tk'[t].status = "none"
                          /\ tk'[t].status = "decomposed" => tk[t].status = "decomposed"
    BY <2>3
  <2>5. Born(tk') /\ Created(tk) \subseteq Created(tk') BY <2>4, BornStays DEF BornOK
  <2>6. Born(tk)' BY <2>5 DEF Born, Created
  <2> QED BY <1>1, <2>2, <2>5, <2>6 DEF BornOK
<1>5. ASSUME NEW t \in Ticket,
             \/ CreateTicket(t) \/ EnforceCancellation(t) \/ EnforceBudget(t) \/ Promote(t)
             \/ FailBlocked(t) \/ RestartStalled(t)
             \/ TakeProposal(t) \/ DropFromBatch(t) \/ Merge(t) \/ Park(t)
             \/ \E r \in Reasons : Reject(t, r)
      PROVE  BornOK'
  <2>1. PassStep(t) /\ PassTries(t) BY <1>5, PassWork, PassCounts, QueueWork, QueueCounts
  <2>2. UNCHANGED <<pc, job>> /\ todo' \subseteq todo /\ \A u \in Ticket : u # t => tk'[u] = tk[u]
    BY <2>1 DEF PassStep, OnlyTicket
  <2>3. tk[t].status # "none" => tk'[t].status # "none"
    BY <2>1 DEF PassTries, Calm, Fresh
  <2>4. /\ tk[t].status = "none" /\ tk'[t].status # "none" => Deps[t] = {}
        /\ tk'[t].status = "decomposed" => tk[t].status = "decomposed"
    BY <1>5, PassBears
  <2>5. Born(tk') /\ Created(tk) \subseteq Created(tk')
    BY <2>2, <2>3, <2>4, BornStays DEF BornOK
  <2>6. Born(tk)' BY <2>5 DEF Born, Created
  <2> QED BY <1>1, <2>2, <2>5, <2>6 DEF BornOK
<1>6. ASSUME NEW w \in Attempt, Dispatch(w) \/ Beat(w) \/ EmitFails(w)
      PROVE  BornOK'
  <2>1. JobStep(w) BY <1>6, AttemptGoesOn, AttemptEnds DEF Dispatch
  <2>2. JobTries(w) BY <1>6, JobCounts
  <2>3. UNCHANGED <<pc, todo>> /\ \A v \in Attempt : v # w => job'[v] = job[v]
    BY <2>1 DEF JobStep
  <2>4. /\ \A u \in Ticket : tk[u].status # "none" => tk'[u].status # "none"
        /\ \A u \in Ticket : tk[u].status = "none" /\ tk'[u].status # "none"
             => Deps[u] \subseteq Created(tk)
        /\ \A u \in Ticket : tk'[u].status = "decomposed" =>
             tk[u].status = "decomposed" \/ Kids[u] \subseteq Created(tk)
        /\ job'[w].pc = "split" => job[w].pc = "split" \/ KnownDeps(TicketOf(w))
    BY <1>0, <1>6, <2>1, <2>2, JobBears
  <2>5. Born(tk') /\ Created(tk) \subseteq Created(tk') BY <2>4, BornStays DEF BornOK
  <2>6. Born(tk)' BY <2>5 DEF Born, Created
  <2> QED BY <1>1, <2>3, <2>4, <2>5, <2>6 DEF BornOK
<1> QED BY <1>2, <1>3, <1>4, <1>5, <1>6 DEF Next, Reconcile, FrontDoor

-----------------------------------------------------------------------------
(* The end of a Run *)

StuckInv == BranchInv /\ (Timely => BornOK /\ ClearOK)

\* Every step leaves the work of the pass done, or something said.
LEMMA ClearKept ==
  ASSUME Types, OneByOne, JobsOK, BranchOK, BornOK, ClearOK, Next
  PROVE  ClearOK'
<1>0. PromptWorkers BY DEF OneByOne
<1>1. CASE \/ Start \/ BeginPass \/ TakeBatch \/ EndPass \/ Join
           \/ SchedulerFails \/ Crash \/ \E t \in Ticket : DecisionLost(t)
  BY <1>1, ClearMoves
<1>2. CASE Launch BY <1>2, ClearLaunch
<1>3. CASE Advance BY <1>3, ClearAdvance
<1>4. CASE \/ \E g \in Goal : Submit(g) \/ Cancel(g) \/ TripBudget(g)
           \/ \E t \in Ticket : Approve(t) \/ Deny(t) \/ Elapse(t)
  BY <1>4, FrontCounts, ClearFront
<1>5. ASSUME NEW t \in Ticket,
             \/ CreateTicket(t) \/ EnforceCancellation(t) \/ EnforceBudget(t) \/ Promote(t)
             \/ FailBlocked(t) \/ RestartStalled(t)
      PROVE  ClearOK'
  BY <1>5, ClearWork
<1>6. ASSUME NEW t \in Ticket,
             \/ TakeProposal(t) \/ DropFromBatch(t) \/ Merge(t) \/ Park(t)
             \/ \E r \in Reasons : Reject(t, r)
      PROVE  ClearOK'
  BY <1>6, ClearQueue
<1>7. ASSUME NEW w \in Attempt, Dispatch(w) \/ Beat(w) \/ EmitFails(w)
      PROVE  ClearOK'
  <2>1. JobStep(w) BY <1>7, AttemptGoesOn, AttemptEnds DEF Dispatch
  <2> QED BY <1>0, <1>7, <2>1, ClearJob
<1> QED BY <1>1, <1>2, <1>3, <1>4, <1>5, <1>6, <1>7 DEF Next, Reconcile, FrontDoor

\* The invariant holds of the whole system, and is kept.
LEMMA StuckInductive ==
  /\ Init => StuckInv
  /\ StuckInv /\ [Next]_vars => StuckInv'
<1>1. ASSUME Init PROVE StuckInv
  <2>1. /\ \A t \in Ticket : tk[t].status = "none"
        /\ \A w \in Attempt : job[w].pc = "off"
        /\ pc = "down"
    BY <1>1 DEF Init, NoJob, NoTicket
  <2>2. BornOK BY <2>1 DEF BornOK, Born, Created
  <2>3. ClearOK BY <2>1 DEF ClearOK, Phase
  <2> QED BY <1>1, <2>2, <2>3, BranchInductive DEF StuckInv
<1>2. ASSUME StuckInv, [Next]_vars PROVE StuckInv'
  <2>1. BranchInv' BY <1>2, BranchInductive DEF StuckInv
  <2>2. opt' = opt BY <1>2, SameOptions DEF StuckInv, BranchInv, vars
  <2>3. (Timely' => Timely) /\ (Timely => OneByOne)
    BY <2>2 DEF Timely, OneByOne, PromptWorkers, BestOfN, StallLive
  <2>4. Timely => BornOK' /\ ClearOK'
    <3>1. CASE Next
      BY <1>2, <2>3, <3>1, BornKept, ClearKept DEF StuckInv, BranchInv
    <3>2. CASE UNCHANGED vars
      <4>1. UNCHANGED <<opt, tk, gl, grew, job, snap, pc, todo, derr>>
        BY <3>2 DEF vars, logVars, passVars
      <4>2. Live' = Live /\ (Still' <=> Still) BY <4>1 DEF Live, Still
      <4>3. BornOK => BornOK' BY <4>1 DEF BornOK, Born, Created, KnownDeps
      <4>4. Work(pc)' = Work(pc) BY <4>1 DEF Work, Exceeded, Budget
      <4>5. Listed => Listed' BY <4>1, <4>4 DEF Listed
      <4>6. ClearOK => ClearOK' BY <4>1, <4>2, <4>5 DEF ClearOK
      <4> QED BY <1>2, <4>3, <4>6 DEF StuckInv
    <3> QED BY <1>2, <3>1, <3>2
  <2> QED BY <2>1, <2>3, <2>4 DEF StuckInv
<1> QED BY <1>1, <1>2

\* Tickets of which each waits for another, because none of them is done or dead,
\* wait for ever.
LEMMA StuckWaits ==
  ASSUME NEW tks, NEW gls, Born(tks), Doomed(tks, gls) = {}, NewlyReady(tks, gls) = {},
         Blocked(tks) = {},
         \A t \in Created(tks) : tks[t].status \in {"pending"} \cup Terminal,
         ~Settled(tks)
  PROVE  \E S \in SUBSET Created(tks) : WaitForEver(S)
<1> DEFINE C == TicketComplete(tks)
           D == TicketDead(tks)
           S == {t \in Created(tks) : ~C[t] /\ ~D[t]}
<1>1. \A t \in Ticket : C[t] <=> \/ tks[t].status = "merged"
                                 \/ tks[t].status = "decomposed" /\ \A u \in Kids[t] : C[u]
  BY CompleteIs
<1>2. \A t \in Ticket : D[t] <=> \/ tks[t].status = "failed"
                                 \/ tks[t].status = "decomposed" /\ \E u \in Kids[t] : D[u]
  BY DeadIs
<1>3. \A t \in Ticket : Deps[t] \subseteq Ticket /\ Kids[t] \subseteq Ticket BY GraphAssumption
<1>4. NewlyReady(tks, gls) =
        {t \in Ticket : /\ tks[t].status = "pending" /\ \A u \in Deps[t] : C[u]
                        /\ ~gls[GoalOf[t]].cancelled}
  BY DEF NewlyReady, DepsSatisfied
<1>5. Blocked(tks) = {t \in Created(tks) : tks[t].status \notin Terminal /\ \E u \in Deps[t] : D[u]}
  BY DEF Blocked, DeadDependency
<1> HIDE DEF C, D
<1>6. S # {}
  <2>1. PICK t \in Created(tks) : tks[t].status \notin Terminal BY DEF Settled
  <2>2. t \in Ticket /\ tks[t].status = "pending" BY <2>1 DEF Created
  <2> QED BY <1>1, <1>2, <2>1, <2>2
<1>7. ASSUME NEW t \in S PROVE (Deps[t] \cup Kids[t]) \cap S # {}
  <2>1. t \in Ticket /\ t \in Created(tks) /\ ~C[t] /\ ~D[t] BY DEF Created
  <2>2. tks[t].status \in {"pending", "decomposed"} BY <1>1, <1>2, <2>1 DEF Terminal
  <2>3. CASE tks[t].status = "pending"
    <3>1. ~gls[GoalOf[t]].cancelled
      <4>1. t \notin Doomed(tks, gls) OBVIOUS
      <4> QED BY <2>1, <2>3, <4>1 DEF Doomed, Terminal, Busy
    <3>2. PICK u \in Deps[t] : ~C[u] BY <1>4, <2>1, <2>3, <3>1
    <3>3. ~D[u] BY <1>5, <2>1, <2>3 DEF Terminal
    <3>4. u \in Created(tks) BY <2>1 DEF Born
    <3> QED BY <3>2, <3>3, <3>4
  <2>4. CASE tks[t].status = "decomposed"
    <3>1. PICK u \in Kids[t] : ~C[u] BY <1>1, <2>1, <2>4
    <3>2. ~D[u] BY <1>2, <2>1, <2>4
    <3>3. u \in Created(tks) BY <2>1, <2>4 DEF Born
    <3> QED BY <3>1, <3>2, <3>3
  <2> QED BY <2>2, <2>3, <2>4
<1>8. S \subseteq Created(tks) OBVIOUS
<1> QED BY <1>6, <1>7, <1>8 DEF WaitForEver

\* Why a Run may give up.
LEMMA StuckWhy ==
  ASSUME Types, ClearOK, pc = "check", Outcome = "stuck", ~derr, ~ParkedBefore(snap.tk)
  PROVE  \E S \in SUBSET Created(snap.tk) : WaitForEver(S)
<1> DEFINE T == snap.tk
           Gs == snap.gl
<1>1. /\ ~Finished /\ ~snap.grew /\ Live = {} /\ NoneActive(T) /\ ~PausedForApproval(T)
  BY DEF Outcome, Waiting
<1>2. /\ Clear("check", T, Gs) /\ Born(T)
      /\ \A t \in Ticket : T[t].status \in Busy => T[t].active = 1
  BY <1>1 DEF ClearOK
<1>3. /\ AllGoalsDecomposed(T, Gs) /\ Doomed(T, Gs) = {} /\ NewlyReady(T, Gs) = {}
      /\ ReadyTickets(T, Gs) = {} /\ Proposed(T) = {} /\ Blocked(T) = {}
  BY <1>1, <1>2 DEF Clear
<1>4. ~Settled(T) BY <1>1, <1>3 DEF Finished
<1>5. \A t \in Ticket : T[t].status \notin Busy BY <1>1, <1>2 DEF NoneActive
<1>6. \A t \in Ticket : T[t].status \in Status
  <2>1. \A t \in Ticket : T[t] \in Rec BY DEF Types
  <2> HIDE DEF T
  <2> QED BY <2>1 DEF Rec, TicketRecord
<1> HIDE DEF T, Gs
<1>7. ASSUME NEW t \in Created(T), T[t].status \notin Terminal
      PROVE  T[t].status \in {"pending", "awaiting"}
  <2>1. t \in Ticket /\ T[t].status # "none" BY DEF Created
  <2>2. T[t].status # "proposed" BY <1>3, <2>1 DEF Proposed
  <2>3. T[t].status # "ready"
    <3> SUFFICES ASSUME T[t].status = "ready" PROVE FALSE OBVIOUS
    <3>1. Gs[GoalOf[t]].cancelled BY <1>3, <2>1 DEF ReadyTickets
    <3>2. t \in Doomed(T, Gs) BY <1>7, <3>1 DEF Doomed, Busy
    <3> QED BY <1>3, <3>2
  <2> QED BY <1>5, <1>6, <1>7, <2>1, <2>2, <2>3 DEF Status, Early, Terminal, Busy
<1>8. \E t \in Created(T) : T[t].status = "pending"
  <2>1. PICK t \in Created(T) : T[t].status \notin Terminal BY <1>4 DEF Settled
  <2>2. PICK u \in Created(T) : T[u].status \notin Terminal /\ T[u].status # "awaiting"
    BY <1>1, <2>1 DEF PausedForApproval, T
  <2> QED BY <1>7, <2>2
<1>9. \A t \in Ticket : T[t].status # "awaiting" BY <1>8 DEF ParkedBefore, T, Created
<1>10. \A t \in Created(T) : T[t].status \in {"pending"} \cup Terminal
  BY <1>7, <1>9 DEF Created
<1> QED BY <1>2, <1>3, <1>4, <1>10, StuckWaits DEF T, Gs

\* Only the end of a pass makes Run return otherwise than with an error.
LEMMA Returns ==
  ASSUME Next, how' = "stuck", how # "stuck"
  PROVE  EndPass
<1>1. CASE \/ Start \/ BeginPass \/ Advance \/ Launch \/ TakeBatch \/ Join
           \/ SchedulerFails \/ Crash \/ \E t \in Ticket : DecisionLost(t)
  BY <1>1 DEF Start, BeginPass, Advance, Launch, TakeBatch, Join, SchedulerFails, Crash,
              DecisionLost, ReturnFromRun
<1>2. CASE \/ \E g \in Goal : Submit(g) \/ Cancel(g) \/ TripBudget(g)
           \/ \E t \in Ticket : Approve(t) \/ Deny(t) \/ Elapse(t)
  BY <1>2 DEF Submit, Cancel, TripBudget, Approve, Deny, Elapse, passVars
<1>3. ASSUME NEW t \in Ticket,
             \/ CreateTicket(t) \/ EnforceCancellation(t) \/ EnforceBudget(t) \/ Promote(t)
             \/ FailBlocked(t) \/ RestartStalled(t)
             \/ TakeProposal(t) \/ DropFromBatch(t) \/ Merge(t) \/ Park(t)
             \/ \E r \in Reasons : Reject(t, r)
      PROVE  how' = how
  BY <1>3 DEF CreateTicket, EnforceCancellation, EnforceBudget, Promote, FailBlocked,
              RestartStalled, TakeProposal, DropFromBatch, Merge, Park, Reject, OutcomeDone
<1>4. ASSUME NEW w \in Attempt, Dispatch(w) \/ Beat(w) \/ EmitFails(w)
      PROVE  how' = how
  BY <1>4 DEF Dispatch, Claim, AddWorktree, StartWork, AgentFails, Commit, Propose, Invalidate,
              Split, FailDecompose, CreateChild, Decompose, ReadIsLast, Exit, FailAttempt, Beat,
              EmitFails, passVars
<1> QED BY <1>1, <1>2, <1>3, <1>4 DEF Next, Reconcile, FrontDoor

\* Run gives up with "made no progress but work is unsettled" only when an attempt
\* it was waiting for died of a failed append, or work may wait for a ticket that
\* is parked, or for itself.
THEOREM GivesUpForReason == Spec => NeverStuck
<1> DEFINE Why == Timely /\ how' = "stuck" =>
                    \/ how = "stuck" \/ derr \/ ParkedBefore(snap.tk)
                    \/ \E S \in SUBSET Created(snap.tk) : WaitForEver(S)
<1>1. StuckInv /\ [Next]_vars => [Why]_vars
  <2> SUFFICES ASSUME StuckInv, Next, Timely, how' = "stuck", how # "stuck", ~derr,
                      ~ParkedBefore(snap.tk)
               PROVE  \E S \in SUBSET Created(snap.tk) : WaitForEver(S)
    OBVIOUS
  <2>1. EndPass BY Returns
  <2>2. pc = "check" /\ Outcome = "stuck" BY <2>1 DEF EndPass, ReturnFromRun
  <2> QED BY <2>2, StuckWhy DEF StuckInv, BranchInv
<1>2. [Why]_vars <=> [Timely /\ how' = "stuck" =>
                        \/ how = "stuck" \/ derr \/ ParkedBefore(snap.tk)
                        \/ \E S \in SUBSET Created(snap.tk) : WaitForEver(S)]_vars
  OBVIOUS
<1> QED BY <1>1, <1>2, StuckInductive, PTL DEF Spec, NeverStuck
=============================================================================
