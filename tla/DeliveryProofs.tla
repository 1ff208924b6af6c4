----------------------------- MODULE DeliveryProofs -----------------------------
(***************************************************************************)
(* Pull-request mode, for any tickets, goals and settings: the repository's*)
(* own checker finds nothing in any log a pass writes, the branches of the *)
(* goals and the remote are what the log says, metrics and diagnosis agree *)
(* with the state, and an answer once given by `aoa status` or `aoa wait`  *)
(* stays.  The argument is in three parts.  WorkInv: what a phase counts on*)
(* of each item it listed when it read the log is still so when it comes to*)
(* the item, whatever attempts, people and crashes did since.  GitInv: what*)
(* is on each branch, and what the queue has made of it so far.  AccInv:   *)
(* what each reader holds in its maps, in terms of the state.              *)
(***************************************************************************)
EXTENDS Delivery, FiniteSetTheorems, WellFoundedInduction, TLAPS

-----------------------------------------------------------------------------
(* What the recursive queries of the log compute.  TicketComplete and        *)
(* TicketDead walk the children a ticket was split into; both are fixed      *)
(* points of their bodies.  A ticket that is complete stays so as long as    *)
(* tickets that merged or were split stay so, and is never dead.             *)

\* A set of tickets has a ticket that none of its tickets comes after.
LEMMA LastTicket ==
  ASSUME NEW S, S \subseteq Ticket, S # {}
  PROVE  \E t \in S : \A u \in S : u <= t
<1> DEFINE R == OpToRel(<, Nat)
           M == {N - t : t \in S}
<1>0. N \in Nat BY GraphAssumption
<1>1. \A t \in S : t \in Nat /\ t <= N BY <1>0 DEF Ticket
<1>2. M \subseteq Nat /\ M # {} BY <1>0, <1>1
<1>3. IsWellFoundedOn(R, Nat) BY NatLessThanWellFounded
<1> HIDE DEF M, R
<1>4. PICK m \in M : \A n \in M : ~(<<n, m>> \in R) BY <1>2, <1>3, WFMin
<1>5. \A n \in M : ~(n < m) BY <1>2, <1>4 DEF OpToRel, R
<1>6. PICK t \in S : m = N - t BY DEF M
<1>7. ASSUME NEW u \in S PROVE u <= t
  <2>1. N - u \in M BY DEF M
  <2>2. ~(N - u < N - t) BY <1>5, <1>6, <2>1
  <2> QED BY <1>0, <1>1, <2>2
<1> QED BY <1>7

\* TicketComplete has the value its definition says.
LEMMA CompleteIs ==
  ASSUME NEW tks
  PROVE  /\ DOMAIN TicketComplete(tks) = Ticket
         /\ \A t \in Ticket :
              /\ TicketComplete(tks)[t] \in BOOLEAN
              /\ TicketComplete(tks)[t] <=>
                   \/ tks[t].status = "merged"
                   \/ tks[t].status = "decomposed" /\ \A u \in Kids[t] : TicketComplete(tks)[u]
<1> DEFINE Body(S, t) == \/ tks[t].status = "merged"
                         \/ tks[t].status = "decomposed" /\ \A u \in Kids[t] : u \in S
           Closed(S) == \A t \in Ticket : Body(S, t) => t \in S
           L == {t \in Ticket : \A S \in SUBSET Ticket : Closed(S) => t \in S}
           f == [t \in Ticket |-> t \in L]
           IsComplete(g) ==
             g = [t \in Ticket |->
                    \/ tks[t].status = "merged"
                    \/ tks[t].status = "decomposed" /\ \A u \in Kids[t] : g[u]]
<1>1. \A t \in Ticket : Kids[t] \subseteq Ticket BY GraphAssumption
<1>2. ASSUME NEW t \in Ticket, Body(L, t) PROVE t \in L
  <2>1. ASSUME NEW S \in SUBSET Ticket, Closed(S) PROVE t \in S
    <3>1. L \subseteq S BY <2>1
    <3>2. Body(S, t) BY <1>2, <3>1
    <3> QED BY <2>1, <3>2
  <2> QED BY <2>1
<1>3. ASSUME NEW t \in L PROVE Body(L, t)
  <2> SUFFICES ASSUME ~Body(L, t) PROVE FALSE OBVIOUS
  <2> DEFINE S == L \ {t}
  <2>1. S \in SUBSET Ticket OBVIOUS
  <2>2. ASSUME NEW u \in Ticket, Body(S, u) PROVE u \in S
    <3>1. Body(L, u) BY <2>2
    <3>2. u \in L BY <1>2, <3>1
    <3> QED BY <3>1, <3>2
  <2>3. Closed(S) BY <2>2
  <2>4. t \in S BY <2>1, <2>3
  <2> QED BY <2>4
<1>4. \A t \in Ticket : t \in L <=> Body(L, t) BY <1>2, <1>3
<1>5. IsComplete(f)
  <2> HIDE DEF L
  <2>1. \A t \in Ticket : \A u \in Kids[t] : f[u] = (u \in L) BY <1>1
  <2>2. \A t \in Ticket : f[t] <=> Body(L, t) BY <1>4
  <2>3. \A t \in Ticket : f[t] \in BOOLEAN OBVIOUS
  <2>4. f = [t \in Ticket |-> f[t]] OBVIOUS
  <2> HIDE DEF f
  <2>5. ASSUME NEW t \in Ticket
        PROVE  f[t] = (\/ tks[t].status = "merged"
                       \/ tks[t].status = "decomposed" /\ \A u \in Kids[t] : f[u])
    <3>1. f[t] <=> \/ tks[t].status = "merged"
                   \/ tks[t].status = "decomposed" /\ \A u \in Kids[t] : f[u]
      BY <2>1, <2>2
    <3> QED BY <2>3, <3>1
  <2> QED BY <2>4, <2>5
<1> HIDE DEF f, L
<1>6. TicketComplete(tks) = CHOOSE g : IsComplete(g) BY DEF TicketComplete
<1>7. IsComplete(CHOOSE g : IsComplete(g)) BY <1>5
<1> HIDE DEF IsComplete
<1>8. IsComplete(TicketComplete(tks)) BY <1>6, <1>7
<1> USE DEF IsComplete
<1> QED BY <1>8

\* So has TicketDead.
LEMMA DeadIs ==
  ASSUME NEW tks
  PROVE  /\ DOMAIN TicketDead(tks) = Ticket
         /\ \A t \in Ticket :
              /\ TicketDead(tks)[t] \in BOOLEAN
              /\ TicketDead(tks)[t] <=>
                   \/ tks[t].status = "failed"
                   \/ tks[t].status = "decomposed" /\ \E u \in Kids[t] : TicketDead(tks)[u]
<1> DEFINE Body(S, t) == \/ tks[t].status = "failed"
                         \/ tks[t].status = "decomposed" /\ \E u \in Kids[t] : u \in S
           Closed(S) == \A t \in Ticket : Body(S, t) => t \in S
           L == {t \in Ticket : \A S \in SUBSET Ticket : Closed(S) => t \in S}
           f == [t \in Ticket |-> t \in L]
           IsDead(g) ==
             g = [t \in Ticket |->
                    \/ tks[t].status = "failed"
                    \/ tks[t].status = "decomposed" /\ \E u \in Kids[t] : g[u]]
<1>1. \A t \in Ticket : Kids[t] \subseteq Ticket BY GraphAssumption
<1>2. ASSUME NEW t \in Ticket, Body(L, t) PROVE t \in L
  <2>1. ASSUME NEW S \in SUBSET Ticket, Closed(S) PROVE t \in S
    <3>1. L \subseteq S BY <2>1
    <3>2. Body(S, t) BY <1>2, <3>1
    <3> QED BY <2>1, <3>2
  <2> QED BY <2>1
<1>3. ASSUME NEW t \in L PROVE Body(L, t)
  <2> SUFFICES ASSUME ~Body(L, t) PROVE FALSE OBVIOUS
  <2> DEFINE S == L \ {t}
  <2>1. S \in SUBSET Ticket OBVIOUS
  <2>2. ASSUME NEW u \in Ticket, Body(S, u) PROVE u \in S
    <3>1. Body(L, u) BY <2>2
    <3>2. u \in L BY <1>2, <3>1
    <3> QED BY <3>1, <3>2
  <2>3. Closed(S) BY <2>2
  <2>4. t \in S BY <2>1, <2>3
  <2> QED BY <2>4
<1>4. \A t \in Ticket : t \in L <=> Body(L, t) BY <1>2, <1>3
<1>5. IsDead(f)
  <2> HIDE DEF L
  <2>1. \A t \in Ticket : \A u \in Kids[t] : f[u] = (u \in L) BY <1>1
  <2>2. \A t \in Ticket : f[t] <=> Body(L, t) BY <1>4
  <2>3. \A t \in Ticket : f[t] \in BOOLEAN OBVIOUS
  <2>4. f = [t \in Ticket |-> f[t]] OBVIOUS
  <2> HIDE DEF f
  <2>5. ASSUME NEW t \in Ticket
        PROVE  f[t] = (\/ tks[t].status = "failed"
                       \/ tks[t].status = "decomposed" /\ \E u \in Kids[t] : f[u])
    <3>1. f[t] <=> \/ tks[t].status = "failed"
                   \/ tks[t].status = "decomposed" /\ \E u \in Kids[t] : f[u]
      BY <2>1, <2>2
    <3> QED BY <2>3, <3>1
  <2> QED BY <2>4, <2>5
<1> HIDE DEF f, L
<1>6. TicketDead(tks) = CHOOSE g : IsDead(g) BY DEF TicketDead
<1>7. IsDead(CHOOSE g : IsDead(g)) BY <1>5
<1> HIDE DEF IsDead
<1>8. IsDead(TicketDead(tks)) BY <1>6, <1>7
<1> USE DEF IsDead
<1> QED BY <1>8

\* A ticket that is complete stays so, as long as what merged stays merged and
\* what was split stays split.
LEMMA CompleteStays ==
  ASSUME NEW old, NEW new,
         \A t \in Ticket : old[t].status \in {"merged", "decomposed"} => new[t].status = old[t].status
  PROVE  \A t \in Ticket : TicketComplete(old)[t] => TicketComplete(new)[t]
<1> DEFINE C == TicketComplete(old)
           D == TicketComplete(new)
           S == {t \in Ticket : C[t] /\ ~D[t]}
<1>1. \A t \in Ticket : C[t] <=> \/ old[t].status = "merged"
                                 \/ old[t].status = "decomposed" /\ \A u \in Kids[t] : C[u]
  BY CompleteIs
<1>2. \A t \in Ticket : D[t] <=> \/ new[t].status = "merged"
                                 \/ new[t].status = "decomposed" /\ \A u \in Kids[t] : D[u]
  BY CompleteIs
<1> HIDE DEF C, D
<1>3. SUFFICES ASSUME S # {} PROVE FALSE BY DEF C, D
<1>4. PICK t \in S : \A u \in S : u <= t
  <2>1. S \subseteq Ticket OBVIOUS
  <2> HIDE DEF S
  <2> QED BY <1>3, <2>1, LastTicket
<1>5. old[t].status = "decomposed" /\ new[t].status = "decomposed" BY <1>1, <1>2
<1>6. PICK u \in Kids[t] : C[u] /\ ~D[u] BY <1>1, <1>2, <1>5
<1>7. u \in Ticket /\ t < u BY GraphAssumption
<1>8. u \in S BY <1>6, <1>7
<1>9. u <= t BY <1>4, <1>8
<1> QED BY <1>7, <1>9, GraphAssumption DEF Ticket

\* No ticket is both complete and dead.
LEMMA NeverBoth ==
  ASSUME NEW tks
  PROVE  \A t \in Ticket : ~(TicketComplete(tks)[t] /\ TicketDead(tks)[t])
<1> DEFINE C == TicketComplete(tks)
           D == TicketDead(tks)
           S == {t \in Ticket : C[t] /\ D[t]}
<1>1. \A t \in Ticket : C[t] <=> \/ tks[t].status = "merged"
                                 \/ tks[t].status = "decomposed" /\ \A u \in Kids[t] : C[u]
  BY CompleteIs
<1>2. \A t \in Ticket : D[t] <=> \/ tks[t].status = "failed"
                                 \/ tks[t].status = "decomposed" /\ \E u \in Kids[t] : D[u]
  BY DeadIs
<1> HIDE DEF C, D
<1>3. SUFFICES ASSUME S # {} PROVE FALSE BY DEF C, D
<1>4. PICK t \in S : \A u \in S : u <= t
  <2>1. S \subseteq Ticket OBVIOUS
  <2> HIDE DEF S
  <2> QED BY <1>3, <2>1, LastTicket
<1>5. PICK u \in Kids[t] : C[u] /\ D[u] BY <1>1, <1>2
<1>6. u \in Ticket /\ t < u BY GraphAssumption
<1>7. u \in S BY <1>5, <1>6
<1>8. u <= t BY <1>4, <1>7
<1> QED BY <1>6, <1>8, GraphAssumption DEF Ticket

-----------------------------------------------------------------------------
(* The invariant *)

\* While the queue works on a ticket, and while a goal is sent.
Judging == {"gate", "park", "update", "verified", "record"}
Sending == {"push", "open", "note"}

\* A ticket, and the attempt at it.
TicketOK(x, f) ==
  /\ x \in TicketRecord({}) /\ x.status # "claimed"
  /\ IF x.status = "running" THEN x.active = 1 /\ x.worker = Worker ELSE x.active = 0
  /\ x.status \in {"proposed", "awaiting"} => x.worker = Worker
  /\ f \in {"no", "launched", "working"}
  /\ f = "launched" => x.status = "ready"
  /\ f = "working" => x.status = "running"

\* The tables, and a ticket at a time.
TableOK ==
  /\ tk = [t \in Ticket |-> tk[t]] /\ gl \in [Goal -> GoalRecord]
  /\ dl \in [Goal -> DeliveryRecord] /\ flight = [t \in Ticket |-> flight[t]]
  /\ \A t \in Ticket : TicketOK(tk[t], flight[t])

\* What was promoted had its dependencies.
Started == {"ready", "running", "proposed", "awaiting"}

DepsOK == \A t \in Ticket : tk[t].status \in Started => DepsSatisfied(tk, t)

\* What a phase may count on of each item it has left, whatever happened since it
\* read the log.
OfTickets == {"cancel", "promote", "launch", "merge", "block", "restart"} \cup Judging
OfGoals == {"create", "deliver"} \cup Sending

Listed(p, x, tks, fl, dls) ==
  /\ p \in OfTickets => x \in Ticket
  /\ p \in OfGoals => x \in Goal
  /\ p = "create" => TasksOf(tks, x) = {}
  /\ p = "cancel" =>
       fl[x] = "no" /\ tks[x].status \in {"pending", "ready", "proposed", "awaiting", "failed"}
  /\ p = "promote" => tks[x].status = "pending" /\ DepsSatisfied(tks, x)
  /\ p = "launch" => tks[x].status = "ready" /\ fl[x] = "no"
  /\ p \in Judging \cup {"merge"} => tks[x].status = "proposed"
  /\ p \in Sending \cup {"deliver"} =>
       GoalComplete(tks, x) /\ dls[x].branch /\ ~dls[x].delivered
  /\ p = "block" => tks[x].status = "pending"
  /\ p = "restart" => tks[x].status = "running" /\ fl[x] = "no"

\* The list of the pass.
ListOK ==
  /\ pc \in Label
  /\ pc = "off" => todo = {}
  /\ pc \in Judging \cup Sending => todo # {}
  /\ \A x \in todo : Listed(pc, x, tk, flight, dl)

\* The work: tickets, dependencies and lists.
WorkInv == TableOK /\ DepsOK /\ ListOK

-----------------------------------------------------------------------------
\* Branches are commits; only goals are pushed.
GitTypes ==
  /\ tip \in [Goal -> Commit] /\ remote \in [Goal -> Commit] /\ gated \in [Goal -> SUBSET Commit]
  /\ cand \in [Ticket -> Commit] /\ base \in [Ticket -> Commit] /\ pushed \subseteq Goal
  /\ head \in Commit

\* A commit has changes of one goal only.
Whole(c, g) == \A x \in c : GoalOf[x[1]] = g
\* It has a change of the ticket.
Holds(c, t) == \E x \in c : x[1] = t

\* The branch of a ticket is of its goal, and holds its change while it is proposed;
\* the goal branch holds that of every merged ticket.
CandOK ==
  \A t \in Ticket :
    /\ Whole(cand[t], GoalOf[t]) /\ base[t] \subseteq tip[GoalOf[t]]
    /\ tk[t].status \in {"proposed", "awaiting"} => Holds(cand[t], t)
    /\ tk[t].status = "merged" => Holds(tip[GoalOf[t]], t)

\* Only what passed the Gate is on a goal branch, or about to be.
TipOK ==
  /\ \A g \in Goal : tip[g] \in gated[g] /\ Whole(tip[g], g)
  /\ pc = "update" => Candidate \in gated[CurrentGoal]
  /\ pc \in {"verified", "record"} => tip[CurrentGoal] = Candidate

\* What was pushed is complete, and is what the branch still points to.
SentOK ==
  /\ \A g \in pushed : GoalComplete(tk, g) /\ remote[g] = tip[g]
  /\ \A g \in Goal : dl[g].delivered => g \in pushed
  /\ pc \in {"open", "note"} => First(todo) \in pushed

\* The branches.
GitInv == GitTypes /\ CandOK /\ TipOK /\ SentOK

-----------------------------------------------------------------------------
\* The checker found nothing, and knows of the log what the state knows.
CheckOK ==
  /\ acc.found = {} /\ ~acc.unverified /\ acc.missing = {}
  /\ acc.passed \subseteq acc.verified
  /\ \A t \in acc.merged : tk[t].status = "merged"
  /\ \A t \in acc.requested \ acc.granted : tk[t].status \in {"awaiting", "failed"}
  /\ acc.cancelled = {g \in Goal : gl[g].cancelled}
  /\ \A t \in acc.late : gl[GoalOf[t]].cancelled
  /\ acc.sent = {g \in Goal : dl[g].delivered}

\* A goal with a task that has not landed.
Unfinished(g) == \E t \in TasksOf(tk, g) : tk[t].status \notin {"merged", "decomposed"}

\* The last merge of a goal is the tip of its branch, unless a merge is under way.
LastOK == \A g \in Goal : acc.last[g] = tip[g] \/ Unfinished(g)

\* Metrics and diagnosis see in flight what runs, and queued what is proposed.
SeenOK ==
  /\ \A t \in Ticket : /\ t \in acc.active \ acc.voided <=> tk[t].status = "running"
                       /\ t \in acc.running \ acc.voided <=> tk[t].status = "running"
                       /\ t \in acc.queued => tk[t].status = "proposed"
                       /\ tk[t].status = "proposed" /\ t \notin acc.queued => tk[t].approved
  /\ acc.active \cup acc.running \cup acc.queued \subseteq Ticket

\* As long as the Gate did not contradict itself, its verdicts are true.
JudgedOK ==
  ~flipped => /\ \A c \in acc.passedTrees : ~Red(c)
              /\ \A c \in acc.failedTrees : Red(c)

\* What the queue found out of the ticket it works on.
StageOK ==
  /\ pc \in Judging => Current \notin acc.late
  /\ pc = "record" => Current \in acc.passed
  /\ ~flipped /\ pc \in {"park", "update", "verified"} => ~Red(Candidate)

\* The readers.
AccInv == acc \in AuditRecord /\ CheckOK /\ LastOK /\ SeenOK /\ JudgedOK /\ StageOK

-----------------------------------------------------------------------------
(* The tickets, and the lists of the phases *)

\* A set of numbers that is not empty has a least.
LEMMA Smallest ==
  ASSUME NEW S, S \subseteq Nat, S # {} PROVE First(S) \in S
<1> DEFINE R == OpToRel(<, Nat)
<1>1. IsWellFoundedOn(R, Nat) BY NatLessThanWellFounded
<1> HIDE DEF R
<1>2. PICK m \in S : \A k \in S : ~(<<k, m>> \in R) BY <1>1, WFMin
<1>3. \A k \in S : ~(k < m) BY <1>2 DEF OpToRel, R
<1>4. \A k \in S : m <= k BY <1>3
<1> QED BY <1>4 DEF First, Min

\* The item a phase deals with next is on its list.
LEMMA NextItem ==
  ASSUME ListOK, todo # {}
  PROVE  First(todo) \in todo /\ Listed(pc, First(todo), tk, flight, dl)
<1>1. pc \in OfTickets \cup OfGoals
  BY DEF ListOK, Label, Phase, OfTickets, OfGoals, Judging, Sending
<1>2. \A x \in todo : x \in Nat
  <2>1. \A x \in todo : x \in Ticket \cup Goal BY <1>1 DEF ListOK, Listed
  <2>2. \A x \in Ticket \cup Goal : x \in Nat BY GraphAssumption DEF Ticket, Goal
  <2> QED BY <2>1, <2>2
<1>3. First(todo) \in todo BY <1>2, Smallest
<1> QED BY <1>3 DEF ListOK

\* The numbers of a ticket.
LEMMA TicketNumbers ==
  ASSUME NEW x, NEW f, TicketOK(x, f)
  PROVE  /\ x.attempts + 1 \in Nat /\ x.same + 1 \in Nat
         /\ x.status = "ready" => x.active + 1 = 1
<1>1. x \in TicketRecord({}) /\ (x.status = "ready" => x.active = 0) BY DEF TicketOK
<1>2. x.attempts \in Nat /\ x.same \in Nat BY <1>1 DEF TicketRecord
<1> QED BY <1>1, <1>2

\* What the log makes of a ticket when nothing is in flight, by the event.
LEMMA CalmOK ==
  ASSUME NEW x, TicketOK(x, "no"), NEW place \in Nat
  PROVE  /\ x.status = "none" => /\ TicketOK(TicketCreated(x, place), "no")
                                 /\ TicketCreated(x, place).status = "pending"
         /\ x.status = "pending" => TicketOK(TicketReady(x), "no") /\ TicketReady(x).status = "ready"
         /\ x.status \in {"pending", "ready", "proposed", "awaiting", "failed"} =>
              LET y == TicketFailed(x, x.worker, NoReason)
              IN TicketOK(y, "no") /\ y.status = "failed"
         /\ x.status = "running" =>
              LET y == WorkerRestarted(x, x.worker, NoReason)
              IN TicketOK(y, "no") /\ y.status = "ready"
         /\ x.status = "proposed" =>
              /\ LET y == TicketFailed(x, Worker, NoReason)
                 IN TicketOK(y, "no") /\ y.status = "failed"
              /\ LET y == VerificationFailed(x, Worker, NoReason)
                 IN TicketOK(y, "no") /\ y.status = "ready"
              /\ TicketOK(ApprovalRequested(x), "no") /\ ApprovalRequested(x).status = "awaiting"
              /\ TicketOK(Merged(x), "no") /\ Merged(x).status = "merged"
         /\ x.status = "awaiting" =>
              /\ TicketOK(ApprovalGranted(x), "no") /\ ApprovalGranted(x).status = "proposed"
              /\ TicketOK(ApprovalDenied(x), "no") /\ ApprovalDenied(x).status = "failed"
<1>0. x.same + 1 \in Nat /\ 1 \in Nat BY TicketNumbers
<1> USE DEF TicketOK, TicketRecord, Status, Early, Terminal, Worker, Nobody, NoReason, RemoveWorker
<1>1. x.status = "none" => /\ TicketOK(TicketCreated(x, place), "no")
                           /\ TicketCreated(x, place).status = "pending"
  BY DEF TicketCreated, NoTicket
<1>2. x.status = "pending" => TicketOK(TicketReady(x), "no") /\ TicketReady(x).status = "ready"
  BY DEF TicketReady
<1>3. x.status \in {"pending", "ready", "proposed", "awaiting", "failed"} =>
        TicketOK(TicketFailed(x, x.worker, NoReason), "no")
          /\ TicketFailed(x, x.worker, NoReason).status = "failed"
  BY DEF TicketFailed
<1>4. x.status = "running" =>
        TicketOK(WorkerRestarted(x, x.worker, NoReason), "no")
          /\ WorkerRestarted(x, x.worker, NoReason).status = "ready"
  BY DEF WorkerRestarted
<1>5. x.status = "proposed" =>
        TicketOK(TicketFailed(x, Worker, NoReason), "no")
          /\ TicketFailed(x, Worker, NoReason).status = "failed"
  BY DEF TicketFailed
<1>6. x.status = "proposed" =>
        TicketOK(VerificationFailed(x, Worker, NoReason), "no")
          /\ VerificationFailed(x, Worker, NoReason).status = "ready"
  <2> DEFINE n == Streak(x, NoReason)
             y == [x EXCEPT !.active = 0, !.status = "ready", !.reason = NoReason, !.same = n,
                            !.worker = Nobody, !.branch = 0, !.quiet = FALSE]
  <2>1. x.status = "proposed" => VerificationFailed(x, Worker, NoReason) = y
    BY DEF VerificationFailed
  <2>2. n \in Nat BY <1>0 DEF Streak
  <2> HIDE DEF n
  <2>3. x.status = "proposed" => TicketOK(y, "no") /\ y.status = "ready" BY <2>2
  <2> QED BY <2>1, <2>3
<1>7. x.status = "proposed" =>
        /\ TicketOK(ApprovalRequested(x), "no") /\ ApprovalRequested(x).status = "awaiting"
        /\ TicketOK(Merged(x), "no") /\ Merged(x).status = "merged"
  BY DEF ApprovalRequested, Merged
<1>8. x.status = "awaiting" =>
        /\ TicketOK(ApprovalGranted(x), "no") /\ ApprovalGranted(x).status = "proposed"
        /\ TicketOK(ApprovalDenied(x), "no") /\ ApprovalDenied(x).status = "failed"
  BY DEF ApprovalGranted, ApprovalDenied
<1> HIDE DEF TicketOK, TicketRecord, Status, Early, Terminal, Worker, Nobody, NoReason, RemoveWorker
<1> QED BY <1>1, <1>2, <1>3, <1>4, <1>5, <1>6, <1>7, <1>8

\* What the log makes of a ticket with an attempt in flight.
LEMMA FlyingOK ==
  ASSUME NEW x, NEW f, TicketOK(x, f)
  PROVE  /\ f = "launched" => LET y == WorkStarted(TicketClaimed(x))
                              IN TicketOK(y, "working") /\ y.status = "running"
         /\ f = "working" =>
              /\ LET y == ProposalSubmitted(x, 1)
                 IN TicketOK(y, "no") /\ y.status = "proposed" /\ y.approved = x.approved
              /\ LET y == TicketFailed(x, Worker, NoReason)
                 IN TicketOK(y, "no") /\ y.status = "failed"
              /\ LET y == WorkerRestarted(x, Worker, NoReason)
                 IN TicketOK(y, "no") /\ y.status = "ready"
              /\ LET y == TicketInvalidated(x, NoReason)
                 IN TicketOK(y, "no") /\ y.status = "pending"
<1>0. x.attempts + 1 \in Nat /\ (f = "launched" => x.active + 1 = 1)
  BY TicketNumbers DEF TicketOK
<1> USE DEF TicketOK, TicketRecord, Status, Early, Terminal, Worker, Nobody, NoReason, RemoveWorker
<1>1. f = "launched" => /\ TicketOK(WorkStarted(TicketClaimed(x)), "working")
                        /\ WorkStarted(TicketClaimed(x)).status = "running"
  <2> SUFFICES ASSUME f = "launched"
               PROVE  LET y == WorkStarted(TicketClaimed(x))
                      IN TicketOK(y, "working") /\ y.status = "running"
    OBVIOUS
  <2> DEFINE n == x.attempts + 1
             m == x.active + 1
             y == [x EXCEPT !.status = "running", !.worker = Worker, !.active = m,
                            !.attempts = n, !.quiet = FALSE]
  <2>1. WorkStarted(TicketClaimed(x)) = y BY DEF WorkStarted, TicketClaimed
  <2>2. n \in Nat /\ m = 1 BY <1>0
  <2> HIDE DEF n, m
  <2>3. y \in TicketRecord({}) BY <2>2
  <2>4. y.status = "running" /\ y.active = 1 /\ y.worker = Worker BY <2>2
  <2>5. TicketOK(y, "working") BY <2>3, <2>4
  <2> HIDE DEF y, TicketOK
  <2> QED BY <2>1, <2>4, <2>5
<1>2. f = "working" => /\ TicketOK(ProposalSubmitted(x, 1), "no")
                       /\ ProposalSubmitted(x, 1).status = "proposed"
                       /\ ProposalSubmitted(x, 1).approved = x.approved
  BY DEF ProposalSubmitted
<1>3. f = "working" => /\ TicketOK(TicketFailed(x, Worker, NoReason), "no")
                       /\ TicketFailed(x, Worker, NoReason).status = "failed"
  BY DEF TicketFailed
<1>4. f = "working" => /\ TicketOK(WorkerRestarted(x, Worker, NoReason), "no")
                       /\ WorkerRestarted(x, Worker, NoReason).status = "ready"
  BY DEF WorkerRestarted
<1>5. f = "working" => /\ TicketOK(TicketInvalidated(x, NoReason), "no")
                       /\ TicketInvalidated(x, NoReason).status = "pending"
  BY DEF TicketInvalidated
<1> HIDE DEF TicketOK, TicketRecord, Status, Early, Terminal, Worker, Nobody, NoReason, RemoveWorker
<1> QED BY <1>1, <1>2, <1>3, <1>4, <1>5

\* Nothing is created, and what is merged or split stays so.
Onward(old, new) ==
  \A u \in Ticket : /\ old[u].status = "none" <=> new[u].status = "none"
                    /\ old[u].status \in {"merged", "decomposed"} => new[u].status = old[u].status

\* Then goals keep their tasks, and what is complete stays so.
LEMMA TasksStay ==
  ASSUME NEW old, NEW new, Onward(old, new)
  PROVE  /\ \A g : TasksOf(new, g) = TasksOf(old, g)
         /\ \A g : GoalComplete(old, g) => GoalComplete(new, g)
         /\ \A u \in Ticket : DepsSatisfied(old, u) => DepsSatisfied(new, u)
<1>1. \A g : TasksOf(new, g) = TasksOf(old, g) BY DEF TasksOf, Created, Onward
<1>2. \A u \in Ticket : TicketComplete(old)[u] => TicketComplete(new)[u]
  BY CompleteStays DEF Onward
<1>3. \A g : GoalComplete(old, g) => GoalComplete(new, g)
  BY <1>1, <1>2 DEF GoalComplete, TasksOf, Created
<1>4. \A u \in Ticket : DepsSatisfied(old, u) => DepsSatisfied(new, u)
  BY <1>2, GraphAssumption DEF DepsSatisfied
<1> QED BY <1>1, <1>3, <1>4

\* An event on a ticket, and what becomes of the attempt at it.
Moves(t, r, f) ==
  /\ tk' = [tk EXCEPT ![t] = r] /\ flight' = [flight EXCEPT ![t] = f]
  /\ TicketOK(r, f)
  /\ r.status # "none" /\ tk[t].status # "none"
  /\ tk[t].status \in {"merged", "decomposed"} => r.status = tk[t].status
  /\ r.status \in Started => DepsSatisfied(tk, t)

\* What it leaves as it was.
LEMMA MoveTicket ==
  ASSUME WorkInv, NEW t \in Ticket, NEW r, NEW f, Moves(t, r, f)
  PROVE  /\ tk' = [u \in Ticket |-> tk'[u]] /\ flight' = [u \in Ticket |-> flight'[u]]
         /\ tk'[t] = r /\ flight'[t] = f
         /\ \A u \in Ticket : u # t => tk'[u] = tk[u] /\ flight'[u] = flight[u]
         /\ \A u \in Ticket : TicketOK(tk'[u], flight'[u])
         /\ \A g : TasksOf(tk', g) = TasksOf(tk, g) /\ (GoalComplete(tk, g) => GoalComplete(tk', g))
         /\ \A u \in Ticket : DepsSatisfied(tk, u) => DepsSatisfied(tk', u)
         /\ DepsOK'
<1> USE DEF WorkInv, TableOK, Moves
<1>1. /\ tk' = [u \in Ticket |-> tk'[u]] /\ flight' = [u \in Ticket |-> flight'[u]]
      /\ tk'[t] = r /\ flight'[t] = f
      /\ \A u \in Ticket : u # t => tk'[u] = tk[u] /\ flight'[u] = flight[u]
  OBVIOUS
<1>2. \A u \in Ticket : TicketOK(tk'[u], flight'[u]) BY <1>1
<1>3. Onward(tk, tk') BY <1>1 DEF Onward
<1>4. /\ \A g : TasksOf(tk', g) = TasksOf(tk, g)
      /\ \A g : GoalComplete(tk, g) => GoalComplete(tk', g)
      /\ \A u \in Ticket : DepsSatisfied(tk, u) => DepsSatisfied(tk', u)
  BY <1>3, TasksStay
<1>5. DepsOK'
  <2>1. ASSUME NEW u \in Ticket, tk'[u].status \in Started PROVE DepsSatisfied(tk', u)
    <3>1. DepsSatisfied(tk, u)
      <4>1. CASE u = t BY <1>1, <2>1, <4>1
      <4>2. CASE u # t BY <1>1, <2>1, <4>2 DEF DepsOK
      <4> QED BY <4>1, <4>2
    <3> QED BY <1>4, <3>1
  <2> QED BY <2>1 DEF DepsOK
<1> QED BY <1>1, <1>2, <1>4, <1>5

\* Deliveries only go forward.
Kept(old, new) ==
  \A g \in Goal : (old[g].branch => new[g].branch) /\ new[g].delivered = old[g].delivered

\* Items other than the ticket keep what their phase counts on.
LEMMA ListStays ==
  ASSUME WorkInv, NEW t \in Ticket, NEW r, NEW f, Moves(t, r, f), Kept(dl, dl'),
         NEW p, NEW x, Listed(p, x, tk, flight, dl), p \in OfGoals \/ x # t
  PROVE  Listed(p, x, tk', flight', dl')
<1>1. /\ \A u \in Ticket : u # t => tk'[u] = tk[u] /\ flight'[u] = flight[u]
      /\ \A g : TasksOf(tk', g) = TasksOf(tk, g) /\ (GoalComplete(tk, g) => GoalComplete(tk', g))
      /\ \A u \in Ticket : DepsSatisfied(tk, u) => DepsSatisfied(tk', u)
  BY MoveTicket
<1>2. CASE p \in OfGoals
  <2>1. x \in Goal BY <1>2 DEF Listed
  <2> QED BY <1>1, <1>2, <2>1 DEF Listed, OfGoals, OfTickets, Judging, Sending, Kept
<1>3. CASE p \in OfTickets
  <2>1. x \in Ticket /\ p \notin OfGoals /\ x # t
    BY <1>3 DEF Listed, OfGoals, OfTickets, Judging, Sending
  <2>2. tk'[x] = tk[x] /\ flight'[x] = flight[x] BY <1>1, <2>1
  <2> QED BY <1>1, <1>3, <2>1, <2>2 DEF Listed, OfGoals, OfTickets, Judging, Sending
<1>4. CASE p \notin OfGoals /\ p \notin OfTickets
  BY <1>4 DEF Listed, OfGoals, OfTickets, Judging, Sending
<1> QED BY <1>2, <1>3, <1>4

\* An event of an attempt, or of a person, comes while the pass is anywhere.
LEMMA FreeMove ==
  ASSUME WorkInv, NEW t \in Ticket, NEW r, NEW f, Moves(t, r, f),
         \/ flight[t] # "no"
         \/ tk[t].status = "awaiting" /\ r.status \in {"proposed", "failed"} /\ f = "no",
         UNCHANGED <<gl, dl, pc, todo>>
  PROVE  WorkInv'
<1>1. Kept(dl, dl') BY DEF Kept
<1>2. TicketOK(tk[t], flight[t]) BY DEF WorkInv, TableOK
<1>3. tk'[t] = r /\ flight'[t] = f BY MoveTicket
<1>4. ASSUME NEW x \in todo PROVE Listed(pc, x, tk', flight', dl')
  <2>1. Listed(pc, x, tk, flight, dl) BY DEF WorkInv, ListOK
  <2>2. CASE pc \in OfGoals \/ x # t BY <1>1, <2>1, <2>2, ListStays
  <2>3. CASE pc \notin OfGoals /\ x = t
    <3>1. CASE flight[t] # "no"
      <4>1. tk[t].status \in {"ready", "running"} BY <1>2, <3>1 DEF TicketOK
      <4>2. pc \notin OfTickets
        BY <2>1, <2>3, <3>1, <4>1 DEF Listed, OfTickets, Judging
      <4>3. pc \notin OfTickets \cup OfGoals BY <2>3, <4>2
      <4> QED BY <4>3 DEF Listed, OfGoals, OfTickets, Judging, Sending
    <3>2. CASE tk[t].status = "awaiting" /\ r.status \in {"proposed", "failed"} /\ f = "no"
      <4>1. pc \notin OfTickets \/ pc = "cancel"
        BY <2>1, <2>3, <3>2 DEF Listed, OfTickets, Judging
      <4> QED BY <1>3, <2>3, <3>2, <4>1 DEF Listed, OfGoals, OfTickets, Judging, Sending
    <3> QED BY <3>1, <3>2
  <2> QED BY <2>2, <2>3
<1>5. ListOK' BY <1>4 DEF WorkInv, ListOK
<1> QED BY <1>5, MoveTicket DEF WorkInv, TableOK

\* The pass deals with a ticket of its list.
LEMMA ItemMove ==
  ASSUME WorkInv, NEW t \in Ticket, NEW r, Moves(t, r, flight[t]),
         Kept(dl, dl'), dl' \in [Goal -> DeliveryRecord], gl' = gl,
         todo' = todo \ {t}, todo # {},
         \/ pc' = pc /\ pc \in Phase
         \/ pc \in Judging /\ pc' = "merge"
  PROVE  WorkInv'
<1>1. ASSUME NEW x \in todo' PROVE Listed(pc', x, tk', flight', dl')
  <2>1. Listed(pc, x, tk, flight, dl) /\ x # t BY DEF WorkInv, ListOK
  <2>2. Listed(pc, x, tk', flight', dl') BY <2>1, ListStays
  <2> QED BY <2>2 DEF Listed, OfTickets, OfGoals, Judging, Sending, Phase
<1>2. pc' \in Phase /\ pc' # "off" /\ pc' \notin Judging \cup Sending
  BY DEF Phase, Judging, Sending
<1>3. ListOK' BY <1>1, <1>2 DEF ListOK, Label
<1> QED BY <1>3, MoveTicket DEF WorkInv, TableOK

\* The tables stay as they are, and the pass goes on.
LEMMA StillStep ==
  ASSUME WorkInv, tk' = tk, flight' = flight, dl' = dl, gl' \in [Goal -> GoalRecord],
         pc' \in Label, todo' \subseteq todo, pc' = "off" => todo' = {},
         pc' \in Judging \cup Sending => todo' # {},
         \/ todo' = {}
         \/ pc' = pc
         \/ pc \in Judging \cup {"merge"} /\ pc' \in Judging \cup {"merge"}
         \/ pc \in Sending \cup {"deliver"} /\ pc' \in Sending \cup {"deliver"}
  PROVE  WorkInv'
<1>1. ASSUME NEW x \in todo' PROVE Listed(pc', x, tk', flight', dl')
  <2>1. Listed(pc, x, tk, flight, dl) BY DEF WorkInv, ListOK
  <2> QED BY <2>1 DEF Listed, OfTickets, OfGoals, Judging, Sending
<1>2. ListOK' BY <1>1 DEF ListOK
<1> QED BY <1>2 DEF WorkInv, TableOK, DepsOK

\* A phase begins: what it lists it may count on.
LEMMA BeginOK ==
  ASSUME TableOK, DepsOK, NEW p \in Phase, NEW x \in Work(p)
  PROVE  Listed(p, x, tk, flight, dl)
<1> USE DEF Listed, OfTickets, OfGoals, Judging, Sending
<1>0. \A t \in Ticket : TicketOK(tk[t], flight[t]) BY DEF TableOK
<1>1. CASE p = "create" BY <1>1 DEF Work, GoalHasTickets
<1>2. CASE p = "cancel"
  <2>1. x \in Doomed BY <1>2 DEF Work
  <2>2. x \in Ticket /\ TicketOK(tk[x], flight[x]) BY <1>0, <2>1 DEF Doomed, Created
  <2> QED BY <1>2, <2>1, <2>2
       DEF Doomed, Created, Terminal, InFlight, TicketOK, TicketRecord, Status, Early
<1>3. CASE p = "promote" BY <1>3 DEF Work, NewlyReady
<1>4. CASE p = "launch"
  <2>1. x \in Dispatchable BY <1>4 DEF Work
  <2>2. x \in Ticket /\ TicketOK(tk[x], flight[x]) BY <1>0, <2>1 DEF Dispatchable, ReadyTickets
  <2> QED BY <1>4, <2>1, <2>2 DEF Dispatchable, ReadyTickets, InFlight, TicketOK
<1>5. CASE p = "merge" BY <1>5 DEF Work, Proposed
<1>6. CASE p = "deliver" BY <1>6 DEF Work, Undelivered, Deliverable
<1>7. CASE p = "block"
  <2>1. x \in Blocked(tk) BY <1>7 DEF Work
  <2>2. x \in Ticket /\ TicketOK(tk[x], flight[x]) BY <1>0, <2>1 DEF Blocked, Created
  <2>3. PICK u \in Deps[x] : TicketDead(tk)[u] BY <2>1 DEF Blocked, DeadDependency
  <2>4. u \in Ticket BY <2>2, GraphAssumption
  <2>5. ~DepsSatisfied(tk, x) BY <2>3, <2>4, NeverBoth DEF DepsSatisfied
  <2>6. tk[x].status \notin Started BY <2>2, <2>5 DEF DepsOK
  <2> QED BY <1>7, <2>1, <2>2, <2>6
       DEF Blocked, Created, Terminal, TicketOK, TicketRecord, Status, Early, Started
<1>8. CASE p = "restart"
  <2>1. x \in Stalled BY <1>8 DEF Work
  <2>2. x \in Ticket /\ TicketOK(tk[x], flight[x]) BY <1>0, <2>1 DEF Stalled
  <2> QED BY <1>8, <2>1, <2>2 DEF Stalled, InFlight, TicketOK
<1> QED BY <1>1, <1>2, <1>3, <1>4, <1>5, <1>6, <1>7, <1>8 DEF Phase

\* An item of a phase is what the phase counts on.
LEMMA ItemIs ==
  ASSUME WorkInv, NEW p \in Phase, NEW x, Item(p, x)
  PROVE  /\ pc = p /\ pc' = p /\ todo # {} /\ todo' = todo \ {x}
         /\ x \in todo /\ Listed(p, x, tk, flight, dl)
<1>1. pc = p /\ pc' = p /\ todo # {} /\ todo' = todo \ {x} /\ x = First(todo) BY DEF Item
<1> QED BY <1>1, NextItem DEF WorkInv

\* Nothing is in flight of a ticket that is neither ready nor running.
LEMMA Grounded ==
  ASSUME WorkInv, NEW t \in Ticket
  PROVE  /\ TicketOK(tk[t], flight[t])
         /\ tk[t].status \notin {"ready", "running"} => flight[t] = "no"
         /\ tk[t].status \in {"proposed", "awaiting"} => tk[t].worker = Worker
<1>1. TicketOK(tk[t], flight[t]) BY DEF WorkInv, TableOK
<1> QED BY <1>1 DEF TicketOK

\* The ticket and the goal the queue works on.
LEMMA CurrentIs ==
  ASSUME WorkInv, todo # {}, pc \in Judging \cup {"merge"}
  PROVE  /\ Current \in Ticket /\ CurrentGoal \in Goal /\ Current \in todo
         /\ tk[Current].status = "proposed" /\ flight[Current] = "no"
<1>1. Current \in todo /\ Listed(pc, Current, tk, flight, dl) BY NextItem DEF WorkInv, Current
<1>2. Current \in Ticket /\ tk[Current].status = "proposed" BY <1>1 DEF Listed, OfTickets
<1> QED BY <1>1, <1>2, Grounded, GraphAssumption DEF CurrentGoal

\* A pass that judges or sends has something to work on.
LEMMA AtWork == ASSUME WorkInv, pc \in Judging \cup Sending PROVE todo # {}
BY DEF WorkInv, ListOK

\* The goal that is sent is complete.
LEMMA SentIs ==
  ASSUME WorkInv, todo # {}, pc \in Sending \cup {"deliver"}
  PROVE  /\ First(todo) \in Goal /\ First(todo) \in todo /\ GoalComplete(tk, First(todo))
         /\ dl[First(todo)].branch /\ ~dl[First(todo)].delivered
<1>1. First(todo) \in todo /\ Listed(pc, First(todo), tk, flight, dl) BY NextItem DEF WorkInv
<1> QED BY <1>1 DEF Listed, OfGoals

-----------------------------------------------------------------------------
(* The events of the pass *)

\* A ticket of a cancelled goal is given up.
LEMMA FailCancelledIs ==
  ASSUME WorkInv, NEW t \in Ticket, FailCancelled(t)
  PROVE  /\ Moves(t, TicketFailed(tk[t], tk[t].worker, NoReason), flight[t]) /\ WorkInv'
         /\ tk[t].status \in {"pending", "ready", "proposed", "awaiting", "failed"}
         /\ TicketFailed(tk[t], tk[t].worker, NoReason).status = "failed"
         /\ pc = "cancel" /\ pc' = pc
<1> DEFINE r == TicketFailed(tk[t], tk[t].worker, NoReason)
<1>1. /\ Item("cancel", t) /\ tk' = [tk EXCEPT ![t] = r]
      /\ UNCHANGED <<gl, dl, flight>>
  BY DEF FailCancelled, Emit
<1>2. /\ pc = "cancel" /\ pc' = pc /\ todo # {} /\ todo' = todo \ {t}
      /\ Listed("cancel", t, tk, flight, dl)
  BY <1>1, ItemIs DEF Phase
<1>3. flight[t] = "no" /\ tk[t].status \in {"pending", "ready", "proposed", "awaiting", "failed"}
  BY <1>2 DEF Listed
<1>4. TicketOK(r, "no") /\ r.status = "failed" BY <1>3, Grounded, CalmOK
<1>5. flight' = [flight EXCEPT ![t] = flight[t]] BY <1>1 DEF WorkInv, TableOK
<1>6. Moves(t, r, flight[t]) BY <1>1, <1>3, <1>4, <1>5 DEF Moves, Started
<1> HIDE DEF r
<1>7. WorkInv' BY <1>1, <1>2, <1>6, ItemMove DEF Kept, WorkInv, TableOK, Phase
<1> QED BY <1>2, <1>3, <1>4, <1>6, <1>7 DEF r

\* A pending ticket that has its dependencies becomes ready.
LEMMA PromoteIs ==
  ASSUME WorkInv, NEW t \in Ticket, Promote(t)
  PROVE  /\ Moves(t, TicketReady(tk[t]), flight[t]) /\ WorkInv'
         /\ tk[t].status = "pending" /\ TicketReady(tk[t]).status = "ready"
         /\ pc = "promote" /\ pc' = pc
<1> DEFINE r == TicketReady(tk[t])
<1>1. Item("promote", t) /\ tk' = [tk EXCEPT ![t] = r] /\ UNCHANGED <<gl, dl, flight>>
  BY DEF Promote, Emit, workVars
<1>2. /\ pc = "promote" /\ pc' = pc /\ todo # {} /\ todo' = todo \ {t}
      /\ Listed("promote", t, tk, flight, dl)
  BY <1>1, ItemIs DEF Phase
<1>3. tk[t].status = "pending" /\ DepsSatisfied(tk, t) BY <1>2 DEF Listed
<1>4. flight[t] = "no" BY <1>3, Grounded
<1>5. TicketOK(r, "no") /\ r.status = "ready" BY <1>3, <1>4, Grounded, CalmOK
<1>6. flight' = [flight EXCEPT ![t] = flight[t]] BY <1>1 DEF WorkInv, TableOK
<1>7. Moves(t, r, flight[t]) BY <1>1, <1>3, <1>4, <1>5, <1>6 DEF Moves
<1> HIDE DEF r
<1>8. WorkInv' BY <1>1, <1>2, <1>7, ItemMove DEF Kept, WorkInv, TableOK, Phase
<1> QED BY <1>2, <1>3, <1>5, <1>7, <1>8 DEF r

\* A ticket that waits for dead work is given up.
LEMMA FailBlockedIs ==
  ASSUME WorkInv, NEW t \in Ticket, FailBlocked(t)
  PROVE  /\ Moves(t, TicketFailed(tk[t], tk[t].worker, NoReason), flight[t]) /\ WorkInv'
         /\ tk[t].status = "pending"
         /\ TicketFailed(tk[t], tk[t].worker, NoReason).status = "failed"
         /\ pc = "block" /\ pc' = pc
<1> DEFINE r == TicketFailed(tk[t], tk[t].worker, NoReason)
<1>1. Item("block", t) /\ tk' = [tk EXCEPT ![t] = r] /\ UNCHANGED <<gl, dl, flight>>
  BY DEF FailBlocked, Emit, workVars
<1>2. /\ pc = "block" /\ pc' = pc /\ todo # {} /\ todo' = todo \ {t}
      /\ Listed("block", t, tk, flight, dl)
  BY <1>1, ItemIs DEF Phase
<1>3. tk[t].status = "pending" BY <1>2 DEF Listed
<1>4. flight[t] = "no" BY <1>3, Grounded
<1>5. TicketOK(r, "no") /\ r.status = "failed" BY <1>3, <1>4, Grounded, CalmOK
<1>6. flight' = [flight EXCEPT ![t] = flight[t]] BY <1>1 DEF WorkInv, TableOK
<1>7. Moves(t, r, flight[t]) BY <1>1, <1>3, <1>4, <1>5, <1>6 DEF Moves, Started
<1> HIDE DEF r
<1>8. WorkInv' BY <1>1, <1>2, <1>7, ItemMove DEF Kept, WorkInv, TableOK, Phase
<1> QED BY <1>2, <1>3, <1>5, <1>7, <1>8 DEF r

\* A ticket whose attempt died with its process is ready again.
LEMMA RestartStalledIs ==
  ASSUME WorkInv, NEW t \in Ticket, RestartStalled(t)
  PROVE  /\ Moves(t, WorkerRestarted(tk[t], tk[t].worker, NoReason), flight[t]) /\ WorkInv'
         /\ tk[t].status = "running"
         /\ WorkerRestarted(tk[t], tk[t].worker, NoReason).status = "ready"
         /\ pc = "restart" /\ pc' = pc
<1> DEFINE r == WorkerRestarted(tk[t], tk[t].worker, NoReason)
<1>1. Item("restart", t) /\ tk' = [tk EXCEPT ![t] = r] /\ UNCHANGED <<gl, dl, flight>>
  BY DEF RestartStalled, Emit
<1>2. /\ pc = "restart" /\ pc' = pc /\ todo # {} /\ todo' = todo \ {t}
      /\ Listed("restart", t, tk, flight, dl)
  BY <1>1, ItemIs DEF Phase
<1>3. tk[t].status = "running" /\ flight[t] = "no" BY <1>2 DEF Listed
<1>4. TicketOK(r, "no") /\ r.status = "ready" BY <1>3, Grounded, CalmOK
<1>5. flight' = [flight EXCEPT ![t] = flight[t]] BY <1>1 DEF WorkInv, TableOK
<1>6. DepsSatisfied(tk, t) BY <1>3 DEF WorkInv, DepsOK, Started
<1>7. Moves(t, r, flight[t]) BY <1>1, <1>3, <1>4, <1>5, <1>6 DEF Moves
<1> HIDE DEF r
<1>8. WorkInv' BY <1>1, <1>2, <1>7, ItemMove DEF Kept, WorkInv, TableOK, Phase
<1> QED BY <1>2, <1>3, <1>4, <1>7, <1>8 DEF r

\* The least ticket of a goal is nobody's child.
LEMMA RootIs ==
  ASSUME NEW g \in Goal
  PROVE  /\ Min({u \in Roots : GoalOf[u] = g}) \in Ticket
         /\ GoalOf[Min({u \in Roots : GoalOf[u] = g})] = g
<1> DEFINE S == {u \in Ticket : GoalOf[u] = g}
           R == {u \in Roots : GoalOf[u] = g}
<1>1. S # {} /\ S \subseteq Nat BY GraphAssumption DEF Ticket
<1>2. First(S) \in S /\ \A u \in S : First(S) <= u
  <2> DEFINE Q == OpToRel(<, Nat)
  <2>1. IsWellFoundedOn(Q, Nat) BY NatLessThanWellFounded
  <2> HIDE DEF Q, S
  <2>2. PICK m \in S : \A k \in S : ~(<<k, m>> \in Q) BY <1>1, <2>1, WFMin
  <2>3. \A k \in S : ~(k < m) BY <1>1, <2>2 DEF OpToRel, Q
  <2>4. \A k \in S : m <= k BY <1>1, <2>3
  <2> QED BY <2>4 DEF First, Min
<1> DEFINE m == First(S)
<1> HIDE DEF m
<1>3. m \in Ticket /\ GoalOf[m] = g /\ \A u \in Ticket : GoalOf[u] = g => m <= u BY <1>2 DEF m
<1>4. \A u \in Ticket : m \notin Kids[u]
  <2> SUFFICES ASSUME NEW u \in Ticket, m \in Kids[u] PROVE FALSE OBVIOUS
  <2>1. u < m /\ GoalOf[u] = g BY <1>3, GraphAssumption
  <2>2. m <= u BY <1>3, <2>1
  <2> QED BY <1>3, <2>1, <2>2, GraphAssumption DEF Ticket
<1>5. m \in R BY <1>3, <1>4 DEF Roots
<1>6. R # {} /\ R \subseteq Nat BY <1>5, GraphAssumption DEF Roots, Ticket
<1>7. First(R) \in R BY <1>6, Smallest
<1> QED BY <1>7 DEF First, Roots

\* A goal without tasks gets its first.
LEMMA CreateRootIs ==
  ASSUME WorkInv, NEW g \in Goal, CreateRoot(g)
  PROVE  /\ WorkInv' /\ pc = "create" /\ pc' = pc /\ TasksOf(tk, g) = {}
         /\ \E t \in Ticket :
              /\ GoalOf[t] = g /\ tk[t].status = "none" /\ flight[t] = "no"
              /\ tk' = [tk EXCEPT ![t] = TicketCreated(tk[t], t)]
              /\ acc' = Scan(acc, tk, Event("TicketCreated", t))
              /\ TicketCreated(tk[t], t).status = "pending"
         /\ \A u \in Ticket : DepsSatisfied(tk, u) => DepsSatisfied(tk', u)
         /\ \A h : GoalComplete(tk, h) => GoalComplete(tk', h)
<1> DEFINE t == Min({u \in Roots : GoalOf[u] = g})
           r == TicketCreated(tk[t], t)
<1>1. /\ Item("create", g) /\ tk' = [tk EXCEPT ![t] = r] /\ UNCHANGED <<gl, dl, flight>>
      /\ acc' = Scan(acc, tk, Event("TicketCreated", t))
  BY DEF CreateRoot, Emit, workVars
<1>2. t \in Ticket /\ GoalOf[t] = g BY RootIs
<1> HIDE DEF t
<1>3. /\ pc = "create" /\ pc' = pc /\ todo # {} /\ todo' = todo \ {g}
      /\ Listed("create", g, tk, flight, dl)
  BY <1>1, ItemIs DEF Phase
<1>4. TasksOf(tk, g) = {} BY <1>3 DEF Listed
<1>5. tk[t].status = "none" BY <1>2, <1>4 DEF TasksOf, Created
<1>6. flight[t] = "no" /\ TicketOK(tk[t], "no") BY <1>2, <1>5, Grounded
<1>7. TicketOK(r, "no") /\ r.status = "pending"
  <2>1. t \in Nat BY <1>2, GraphAssumption DEF Ticket
  <2> QED BY <1>5, <1>6, <2>1, CalmOK
<1> HIDE DEF r
<1>8. /\ \A u \in Ticket : u # t => tk'[u] = tk[u] /\ tk'[t] = r
      /\ tk' = [u \in Ticket |-> tk'[u]]
  BY <1>1, <1>2 DEF WorkInv, TableOK
<1>9. TableOK'
  <2>1. \A u \in Ticket : TicketOK(tk'[u], flight'[u])
    BY <1>1, <1>2, <1>6, <1>7, <1>8 DEF WorkInv, TableOK
  <2> QED BY <1>1, <1>8, <2>1 DEF WorkInv, TableOK
<1>10. \A u \in Ticket : TicketComplete(tk)[u] => TicketComplete(tk')[u]
  <2>1. \A u \in Ticket : tk[u].status \in {"merged", "decomposed"} => tk'[u].status = tk[u].status
    BY <1>5, <1>8
  <2> QED BY <2>1, CompleteStays
<1>11. \A u \in Ticket : DepsSatisfied(tk, u) => DepsSatisfied(tk', u)
  BY <1>10, GraphAssumption DEF DepsSatisfied
<1>12. DepsOK'
  <2>1. \A u \in Ticket : tk'[u].status \in Started => tk[u].status \in Started
    BY <1>1, <1>2, <1>7, <1>8 DEF Started, WorkInv, TableOK
  <2> QED BY <1>11, <2>1 DEF WorkInv, DepsOK
<1>13. \A h \in Goal : h # g => TasksOf(tk', h) = TasksOf(tk, h)
  BY <1>2, <1>8 DEF TasksOf, Created
<1>14. ListOK'
  <2>1. ASSUME NEW h \in todo' PROVE Listed("create", h, tk', flight', dl')
    <3>1. Listed("create", h, tk, flight, dl) /\ h # g BY <1>3, <2>1 DEF WorkInv, ListOK
    <3> QED BY <1>13, <3>1 DEF Listed, OfTickets, OfGoals, Judging, Sending
  <2> QED BY <1>3, <2>1 DEF ListOK, Label, Phase, Judging, Sending
<1>15. \A h : GoalComplete(tk, h) => GoalComplete(tk', h)
  <2>1. ASSUME NEW h, GoalComplete(tk, h) PROVE GoalComplete(tk', h)
    <3>1. h # g BY <1>4, <2>1 DEF GoalComplete
    <3>2. TasksOf(tk', h) = TasksOf(tk, h) BY <1>2, <1>8, <3>1 DEF TasksOf, Created
    <3> QED BY <1>10, <2>1, <3>2 DEF GoalComplete, TasksOf, Created
  <2> QED BY <2>1
<1> QED BY <1>1, <1>2, <1>3, <1>4, <1>5, <1>6, <1>7, <1>9, <1>11, <1>12, <1>14, <1>15 DEF WorkInv, r

-----------------------------------------------------------------------------
(* The events of attempts and people *)

\* A launched attempt claims its ticket and starts.
LEMMA StartWorkIs ==
  ASSUME WorkInv, NEW t \in Ticket, StartWork(t)
  PROVE  /\ Moves(t, WorkStarted(TicketClaimed(tk[t])), "working") /\ WorkInv'
         /\ tk[t].status = "ready" /\ flight[t] = "launched"
         /\ WorkStarted(TicketClaimed(tk[t])).status = "running"
<1> DEFINE r == WorkStarted(TicketClaimed(tk[t]))
<1>1. /\ flight[t] = "launched" /\ tk' = [tk EXCEPT ![t] = r]
      /\ flight' = [flight EXCEPT ![t] = "working"] /\ UNCHANGED <<gl, dl, pc, todo>>
  BY DEF StartWork, Emit
<1>2. TicketOK(tk[t], "launched") /\ tk[t].status = "ready" BY <1>1, Grounded DEF TicketOK
<1>3. TicketOK(r, "working") /\ r.status = "running" BY <1>2, FlyingOK
<1>4. DepsSatisfied(tk, t) BY <1>2 DEF WorkInv, DepsOK, Started
<1> HIDE DEF r
<1>5. Moves(t, r, "working") BY <1>1, <1>2, <1>3, <1>4 DEF Moves
<1>6. WorkInv' BY <1>1, <1>5, FreeMove
<1> QED BY <1>1, <1>2, <1>3, <1>5, <1>6 DEF r

\* An attempt proposes its work.
LEMMA ProposeIs ==
  ASSUME WorkInv, NEW t \in Ticket, NEW kind, Propose(t, kind)
  PROVE  /\ Moves(t, ProposalSubmitted(tk[t], 1), "no") /\ WorkInv'
         /\ tk[t].status = "running" /\ flight[t] = "working"
         /\ ProposalSubmitted(tk[t], 1).status = "proposed"
<1> DEFINE r == ProposalSubmitted(tk[t], 1)
<1>1. /\ flight[t] = "working" /\ tk' = [tk EXCEPT ![t] = r]
      /\ flight' = [flight EXCEPT ![t] = "no"] /\ UNCHANGED <<gl, dl, pc, todo>>
  BY DEF Propose, Emit
<1>2. TicketOK(tk[t], "working") /\ tk[t].status = "running" BY <1>1, Grounded DEF TicketOK
<1>3. TicketOK(r, "no") /\ r.status = "proposed" BY <1>2, FlyingOK
<1>4. DepsSatisfied(tk, t) BY <1>2 DEF WorkInv, DepsOK, Started
<1> HIDE DEF r
<1>5. Moves(t, r, "no") BY <1>1, <1>2, <1>3, <1>4 DEF Moves
<1>6. WorkInv' BY <1>1, <1>5, FreeMove
<1> QED BY <1>1, <1>2, <1>3, <1>5, <1>6 DEF r

\* The attempt is over, for the last time or for this time.
LEMMA FailAttemptIs ==
  ASSUME WorkInv, NEW t \in Ticket, FailAttempt(t)
  PROVE  /\ tk[t].status = "running" /\ flight[t] = "working" /\ WorkInv'
         /\ \/ /\ Moves(t, TicketFailed(tk[t], Worker, NoReason), "no")
               /\ TicketFailed(tk[t], Worker, NoReason).status = "failed"
               /\ acc' = Scan(acc, tk, Event("TicketFailed", t))
            \/ /\ Moves(t, WorkerRestarted(tk[t], Worker, NoReason), "no")
               /\ WorkerRestarted(tk[t], Worker, NoReason).status = "ready"
               /\ acc' = Scan(acc, tk, Event("WorkerRestarted", t))
<1> DEFINE r == TicketFailed(tk[t], Worker, NoReason)
           s == WorkerRestarted(tk[t], Worker, NoReason)
<1>1. /\ flight[t] = "working" /\ flight' = [flight EXCEPT ![t] = "no"]
      /\ UNCHANGED <<gl, dl, pc, todo>>
      /\ \/ tk' = [tk EXCEPT ![t] = r] /\ acc' = Scan(acc, tk, Event("TicketFailed", t))
         \/ tk' = [tk EXCEPT ![t] = s] /\ acc' = Scan(acc, tk, Event("WorkerRestarted", t))
  BY DEF FailAttempt, Emit
<1>2. TicketOK(tk[t], "working") /\ tk[t].status = "running" BY <1>1, Grounded DEF TicketOK
<1>3. TicketOK(r, "no") /\ r.status = "failed" BY <1>2, FlyingOK
<1>4. TicketOK(s, "no") /\ s.status = "ready" BY <1>2, FlyingOK
<1>5. DepsSatisfied(tk, t) BY <1>2 DEF WorkInv, DepsOK, Started
<1> HIDE DEF r, s
<1>6. CASE tk' = [tk EXCEPT ![t] = r] /\ acc' = Scan(acc, tk, Event("TicketFailed", t))
  <2>1. Moves(t, r, "no") BY <1>1, <1>2, <1>3, <1>5, <1>6 DEF Moves
  <2>2. WorkInv' BY <1>1, <2>1, FreeMove
  <2> QED BY <1>1, <1>2, <1>3, <1>6, <2>1, <2>2 DEF r
<1>7. CASE tk' = [tk EXCEPT ![t] = s] /\ acc' = Scan(acc, tk, Event("WorkerRestarted", t))
  <2>1. Moves(t, s, "no") BY <1>1, <1>2, <1>4, <1>5, <1>7 DEF Moves
  <2>2. WorkInv' BY <1>1, <2>1, FreeMove
  <2> QED BY <1>1, <1>2, <1>4, <1>7, <2>1, <2>2 DEF s
<1> QED BY <1>1, <1>6, <1>7

\* An attempt finds that its ticket was not to be worked on.
LEMMA InvalidateIs ==
  ASSUME WorkInv, NEW t \in Ticket, Invalidate(t)
  PROVE  /\ Moves(t, TicketInvalidated(tk[t], NoReason), "no") /\ WorkInv'
         /\ tk[t].status = "running" /\ flight[t] = "working"
         /\ TicketInvalidated(tk[t], NoReason).status = "pending"
<1> DEFINE r == TicketInvalidated(tk[t], NoReason)
<1>1. /\ flight[t] = "working" /\ tk' = [tk EXCEPT ![t] = r]
      /\ flight' = [flight EXCEPT ![t] = "no"] /\ UNCHANGED <<gl, dl, pc, todo>>
  BY DEF Invalidate, Emit
<1>2. TicketOK(tk[t], "working") /\ tk[t].status = "running" BY <1>1, Grounded DEF TicketOK
<1>3. TicketOK(r, "no") /\ r.status = "pending" BY <1>2, FlyingOK
<1> HIDE DEF r
<1>5. Moves(t, r, "no") BY <1>1, <1>2, <1>3 DEF Moves, Started
<1>6. WorkInv' BY <1>1, <1>5, FreeMove
<1> QED BY <1>1, <1>2, <1>3, <1>5, <1>6 DEF r

\* A human grants or denies.
LEMMA DecideIs ==
  ASSUME WorkInv, NEW t \in Ticket, Decide(t)
  PROVE  /\ tk[t].status = "awaiting" /\ flight[t] = "no" /\ WorkInv'
         /\ \/ /\ Moves(t, ApprovalGranted(tk[t]), "no")
               /\ ApprovalGranted(tk[t]).status = "proposed"
               /\ acc' = Scan(acc, tk, Event("ApprovalGranted", t))
            \/ /\ Moves(t, ApprovalDenied(tk[t]), "no")
               /\ ApprovalDenied(tk[t]).status = "failed"
               /\ acc' = Scan(acc, tk, Event("ApprovalDenied", t))
<1> DEFINE r == ApprovalGranted(tk[t])
           s == ApprovalDenied(tk[t])
<1>1. /\ tk[t].status = "awaiting" /\ UNCHANGED <<gl, dl, pc, todo, flight>>
      /\ \/ tk' = [tk EXCEPT ![t] = r] /\ acc' = Scan(acc, tk, Event("ApprovalGranted", t))
         \/ tk' = [tk EXCEPT ![t] = s] /\ acc' = Scan(acc, tk, Event("ApprovalDenied", t))
  BY DEF Decide, Emit, workVars
<1>2. TicketOK(tk[t], "no") /\ flight[t] = "no" BY <1>1, Grounded
<1>3. TicketOK(r, "no") /\ r.status = "proposed" BY <1>1, <1>2, CalmOK
<1>4. TicketOK(s, "no") /\ s.status = "failed" BY <1>1, <1>2, CalmOK
<1>5. DepsSatisfied(tk, t) BY <1>1 DEF WorkInv, DepsOK, Started
<1>6. flight' = [flight EXCEPT ![t] = "no"] BY <1>1, <1>2 DEF WorkInv, TableOK
<1> HIDE DEF r, s
<1>7. CASE tk' = [tk EXCEPT ![t] = r] /\ acc' = Scan(acc, tk, Event("ApprovalGranted", t))
  <2>1. Moves(t, r, "no") BY <1>1, <1>3, <1>5, <1>6, <1>7 DEF Moves
  <2>2. WorkInv' BY <1>1, <1>3, <2>1, FreeMove
  <2> QED BY <1>1, <1>2, <1>3, <1>7, <2>1, <2>2 DEF r
<1>8. CASE tk' = [tk EXCEPT ![t] = s] /\ acc' = Scan(acc, tk, Event("ApprovalDenied", t))
  <2>1. Moves(t, s, "no") BY <1>1, <1>4, <1>5, <1>6, <1>8 DEF Moves
  <2>2. WorkInv' BY <1>1, <1>4, <2>1, FreeMove
  <2> QED BY <1>1, <1>2, <1>4, <1>8, <2>1, <2>2 DEF s
<1> QED BY <1>1, <1>7, <1>8

-----------------------------------------------------------------------------
(* The events of the queue *)

\* The current ticket is given up, put back, parked or merged.
LEMMA CurrentMove ==
  ASSUME WorkInv, todo # {}, pc \in Judging \cup {"merge"}, NEW r,
         tk' = [tk EXCEPT ![Current] = r], flight' = flight, gl' = gl,
         TicketOK(r, "no"), r.status # "none",
         Kept(dl, dl'), dl' \in [Goal -> DeliveryRecord],
         todo' = todo \ {Current}, pc' = "merge"
  PROVE  Moves(Current, r, flight[Current]) /\ WorkInv'
<1>1. /\ Current \in Ticket /\ tk[Current].status = "proposed" /\ flight[Current] = "no"
  BY CurrentIs
<1>2. flight' = [flight EXCEPT ![Current] = flight[Current]] BY DEF WorkInv, TableOK
<1>3. DepsSatisfied(tk, Current) BY <1>1 DEF WorkInv, DepsOK, Started
<1>4. Moves(Current, r, flight[Current]) BY <1>1, <1>2, <1>3 DEF Moves
<1>5. (pc' = pc /\ pc \in Phase) \/ (pc \in Judging /\ pc' = "merge") BY DEF Phase
<1>6. WorkInv' BY <1>1, <1>4, <1>5, ItemMove
<1> QED BY <1>4, <1>6

\* The queue drops a ticket whose goal was cancelled.
LEMMA DropCancelledIs ==
  ASSUME WorkInv, DropCancelled
  PROVE  /\ Moves(Current, TicketFailed(tk[Current], tk[Current].worker, NoReason), flight[Current])
         /\ TicketFailed(tk[Current], tk[Current].worker, NoReason).status = "failed" /\ WorkInv'
<1> DEFINE r == TicketFailed(tk[Current], tk[Current].worker, NoReason)
<1>1. /\ pc = "merge" /\ pc' = pc /\ todo # {} /\ todo' = todo \ {Current}
      /\ tk' = [tk EXCEPT ![Current] = r] /\ UNCHANGED <<gl, dl, flight>>
  BY DEF DropCancelled, Emit
<1>2. /\ Current \in Ticket /\ tk[Current].status = "proposed" /\ flight[Current] = "no"
  BY <1>1, CurrentIs
<1>3. TicketOK(r, "no") /\ r.status = "failed" BY <1>2, Grounded, CalmOK
<1> HIDE DEF r
<1>4. Moves(Current, r, flight[Current]) /\ WorkInv'
  BY <1>1, <1>3, CurrentMove DEF Kept, WorkInv, TableOK
<1> QED BY <1>3, <1>4 DEF r

\* The queue puts a ticket back, or gives it up after its last attempt.
LEMMA RejectOrFailIs ==
  ASSUME WorkInv, pc = "gate", NEW type \in {"TicketFailed", "VerificationFailed"}, NEW e,
         RejectOrFail(type, e)
  PROVE  /\ WorkInv'
         /\ \/ /\ type = "TicketFailed"
               /\ Moves(Current, TicketFailed(tk[Current], Worker, NoReason), flight[Current])
               /\ TicketFailed(tk[Current], Worker, NoReason).status = "failed"
               /\ cand' = cand
            \/ /\ type = "VerificationFailed"
               /\ Moves(Current, VerificationFailed(tk[Current], Worker, NoReason), flight[Current])
               /\ VerificationFailed(tk[Current], Worker, NoReason).status = "ready"
               /\ cand' = [cand EXCEPT ![Current] = {}]
<1> DEFINE r == TicketFailed(tk[Current], Worker, NoReason)
           s == VerificationFailed(tk[Current], Worker, NoReason)
<1>1. /\ pc' = "merge" /\ todo' = todo \ {Current} /\ UNCHANGED <<gl, dl, flight>>
      /\ \/ type = "TicketFailed" /\ tk' = [tk EXCEPT ![Current] = r] /\ cand' = cand
         \/ /\ type = "VerificationFailed" /\ tk' = [tk EXCEPT ![Current] = s]
            /\ cand' = [cand EXCEPT ![Current] = {}]
  BY DEF RejectOrFail, Emit
<1>2. todo # {} BY AtWork DEF Judging
<1>3. /\ Current \in Ticket /\ tk[Current].status = "proposed" /\ flight[Current] = "no"
  BY <1>2, CurrentIs DEF Judging
<1>4. TicketOK(r, "no") /\ r.status = "failed" BY <1>3, Grounded, CalmOK
<1>5. TicketOK(s, "no") /\ s.status = "ready" BY <1>3, Grounded, CalmOK
<1>6. Kept(dl, dl') /\ dl' \in [Goal -> DeliveryRecord] BY <1>1 DEF Kept, WorkInv, TableOK
<1> HIDE DEF r, s
<1>7. CASE type = "TicketFailed" /\ tk' = [tk EXCEPT ![Current] = r] /\ cand' = cand
  <2>1. Moves(Current, r, flight[Current]) /\ WorkInv'
    BY <1>1, <1>2, <1>4, <1>6, <1>7, CurrentMove DEF Judging
  <2> QED BY <1>4, <1>7, <2>1 DEF r
<1>8. CASE /\ type = "VerificationFailed" /\ tk' = [tk EXCEPT ![Current] = s]
           /\ cand' = [cand EXCEPT ![Current] = {}]
  <2>1. Moves(Current, s, flight[Current]) /\ WorkInv'
    BY <1>1, <1>2, <1>5, <1>6, <1>8, CurrentMove DEF Judging
  <2> QED BY <1>5, <1>8, <2>1 DEF s
<1> QED BY <1>1, <1>7, <1>8

\* A tree passed: nothing becomes of the ticket yet.
LEMMA PassedIs ==
  ASSUME WorkInv, pc \in Judging, pc' \in Judging, NEW e, Emit(Current, tk[Current], e),
         UNCHANGED <<gl, dl, todo, flight>>
  PROVE  tk' = tk /\ WorkInv'
<1>1. todo # {} BY AtWork
<1>2. tk' = tk BY DEF Emit, WorkInv, TableOK
<1>3. WorkInv' BY <1>1, <1>2, StillStep DEF WorkInv, TableOK, Label, Judging, Sending
<1> QED BY <1>2, <1>3

\* The queue parks a candidate that passed, for a human.
LEMMA ParkIs ==
  ASSUME WorkInv, Park
  PROVE  /\ WorkInv' /\ pc = "park"
         /\ \/ /\ tk' = tk /\ pc' = pc /\ todo' = todo
               /\ acc' = Scan(acc, tk, TreeEvent("VerificationPassed", Current, Candidate))
            \/ /\ Moves(Current, ApprovalRequested(tk[Current]), flight[Current])
               /\ ApprovalRequested(tk[Current]).status = "awaiting" /\ pc' = "merge"
               /\ acc' = Scan(acc, tk, Event("ApprovalRequested", Current))
<1> DEFINE r == ApprovalRequested(tk[Current])
<1>1. pc = "park" /\ UNCHANGED <<gl, dl, flight>> BY DEF Park, workVars
<1>2. todo # {} BY <1>1, AtWork DEF Judging
<1>3. /\ Current \in Ticket /\ tk[Current].status = "proposed" /\ flight[Current] = "no"
  BY <1>1, <1>2, CurrentIs DEF Judging
<1>4. CASE /\ Emit(Current, tk[Current], TreeEvent("VerificationPassed", Current, Candidate))
           /\ UNCHANGED <<pc, todo>>
  <2>1. tk' = tk /\ WorkInv' BY <1>1, <1>4, PassedIs DEF Judging
  <2> QED BY <1>1, <1>4, <2>1 DEF Emit
<1>5. CASE /\ Emit(Current, r, Event("ApprovalRequested", Current))
           /\ pc' = "merge" /\ todo' = todo \ {Current}
  <2>1. TicketOK(r, "no") /\ r.status = "awaiting" BY <1>3, Grounded, CalmOK
  <2> HIDE DEF r
  <2>2. tk' = [tk EXCEPT ![Current] = r] BY <1>5 DEF Emit
  <2>3. Moves(Current, r, flight[Current]) /\ WorkInv'
    BY <1>1, <1>2, <1>5, <2>1, <2>2, CurrentMove DEF Kept, WorkInv, TableOK, Judging
  <2> QED BY <1>1, <1>5, <2>1, <2>3 DEF Emit, r
<1> QED BY <1>4, <1>5 DEF Park

\* The log says that the candidate passed.
LEMMA RecordPassIs ==
  ASSUME WorkInv, RecordPass PROVE tk' = tk /\ WorkInv'
<1>1. /\ pc = "verified" /\ pc' = "record" /\ UNCHANGED <<gl, dl, todo, flight>>
      /\ Emit(Current, tk[Current], TreeEvent("VerificationPassed", Current, Candidate))
  BY DEF RecordPass, workVars
<1> QED BY <1>1, PassedIs DEF Judging

\* The log says that the ticket is merged, and its goal has a branch.
LEMMA RecordMergeIs ==
  ASSUME WorkInv, RecordMerge
  PROVE  /\ Moves(Current, Merged(tk[Current]), flight[Current])
         /\ Merged(tk[Current]).status = "merged" /\ WorkInv' /\ Kept(dl, dl')
<1> DEFINE r == Merged(tk[Current])
<1>1. /\ pc = "record" /\ pc' = "merge" /\ todo' = todo \ {Current}
      /\ tk' = [tk EXCEPT ![Current] = r] /\ UNCHANGED <<gl, flight>>
      /\ dl' = [dl EXCEPT ![CurrentGoal] = MergedOnBranch(dl[CurrentGoal])]
  BY DEF RecordMerge, Emit
<1>2. todo # {} BY <1>1, AtWork DEF Judging
<1>3. /\ Current \in Ticket /\ tk[Current].status = "proposed" /\ flight[Current] = "no"
      /\ CurrentGoal \in Goal
  BY <1>1, <1>2, CurrentIs DEF Judging
<1>4. TicketOK(r, "no") /\ r.status = "merged" BY <1>3, Grounded, CalmOK
<1>5. Kept(dl, dl') /\ dl' \in [Goal -> DeliveryRecord]
  BY <1>1, <1>3 DEF Kept, WorkInv, TableOK, MergedOnBranch, DeliveryRecord
<1> HIDE DEF r
<1>6. Moves(Current, r, flight[Current]) /\ WorkInv'
  BY <1>1, <1>2, <1>4, <1>5, CurrentMove DEF Judging
<1> QED BY <1>4, <1>5, <1>6 DEF r

-----------------------------------------------------------------------------
(* The steps that say nothing of a ticket *)

\* A phase begins with a list it can count on.
LEMMA BeginStep ==
  ASSUME WorkInv, NEW p \in Phase, Begin(p), UNCHANGED <<tk, gl, dl, flight>>
  PROVE  WorkInv' /\ pc' = p
<1>1. pc' = p /\ todo' = Work(p) BY DEF Begin
<1>2. \A x \in todo' : Listed(p, x, tk, flight, dl) BY <1>1, BeginOK DEF WorkInv
<1>3. ListOK' BY <1>1, <1>2 DEF ListOK, Label, Phase, Judging, Sending
<1> QED BY <1>1, <1>3 DEF WorkInv, TableOK, DepsOK

\* The pass turns to another phase, begins or ends.
LEMMA TurnIs ==
  ASSUME WorkInv, StartRun \/ Turn \/ EndPass
  PROVE  WorkInv' /\ UNCHANGED <<tk, gl, dl, flight>> /\ pc' \in Phase \cup {"off"}
<1>1. CASE StartRun
  <2>1. Begin("create") /\ UNCHANGED <<tk, gl, dl, flight>> BY <1>1 DEF StartRun, logVars, workVars
  <2> QED BY <2>1, BeginStep DEF Phase
<1>2. CASE Turn
  <2>1. pc \in DOMAIN NextPhase /\ Begin(NextPhase[pc]) /\ UNCHANGED <<tk, gl, dl, flight>>
    BY <1>2 DEF Turn, logVars, workVars
  <2>2. NextPhase[pc] \in Phase BY <2>1 DEF NextPhase, Phase
  <2> QED BY <2>1, <2>2, BeginStep
<1>3. CASE EndPass
  <2>1. /\ todo = {} /\ UNCHANGED <<tk, gl, dl, flight>>
        /\ (pc' = "off" /\ todo' = todo) \/ Begin("create")
    BY <1>3 DEF EndPass, logVars, workVars
  <2>2. CASE pc' = "off" /\ todo' = todo
    <3>1. WorkInv' BY <2>1, <2>2, StillStep DEF WorkInv, TableOK, Label, Judging, Sending
    <3> QED BY <2>1, <2>2, <3>1
  <2>3. CASE Begin("create") BY <2>1, <2>3, BeginStep DEF Phase
  <2> QED BY <2>1, <2>2, <2>3
<1> QED BY <1>1, <1>2, <1>3

\* The queue and the delivery go on in the repository.
LEMMA SilentIs ==
  ASSUME WorkInv, Detach \/ GatePasses \/ UpdateRef \/ Deliver \/ Push \/ OpenPR
  PROVE  WorkInv' /\ UNCHANGED <<tk, gl, dl, flight>>
<1> USE DEF logVars, workVars, Label, Phase, Judging, Sending
<1>1. gl \in [Goal -> GoalRecord] BY DEF WorkInv, TableOK
<1>2. CASE Detach
  <2>1. pc = "merge" /\ pc' = "gate" /\ todo # {} /\ todo' = todo /\ UNCHANGED <<tk, gl, dl, flight>>
    BY <1>2 DEF Detach
  <2> QED BY <1>1, <2>1, StillStep
<1>3. CASE GatePasses
  <2>1. pc = "gate" /\ pc' \in {"park", "update"} /\ todo' = todo /\ UNCHANGED <<tk, gl, dl, flight>>
    BY <1>3 DEF GatePasses
  <2>2. todo # {} BY <2>1, AtWork
  <2> QED BY <1>1, <2>1, <2>2, StillStep
<1>4. CASE UpdateRef
  <2>1. pc = "update" /\ pc' = "verified" /\ todo' = todo /\ UNCHANGED <<tk, gl, dl, flight>>
    BY <1>4 DEF UpdateRef
  <2>2. todo # {} BY <2>1, AtWork
  <2> QED BY <1>1, <2>1, <2>2, StillStep
<1>5. CASE Deliver
  <2>1. /\ pc = "deliver" /\ todo # {} /\ UNCHANGED <<tk, gl, dl, flight>>
        /\ \/ pc' = "push" /\ todo' = todo
           \/ pc' = "deliver" /\ todo' = todo \ {First(todo)}
    BY <1>5 DEF Deliver
  <2> QED BY <1>1, <2>1, StillStep
<1>6. CASE Push
  <2>1. pc = "push" /\ pc' = "open" /\ todo' = todo /\ UNCHANGED <<tk, gl, dl, flight>>
    BY <1>6 DEF Push
  <2>2. todo # {} BY <2>1, AtWork
  <2> QED BY <1>1, <2>1, <2>2, StillStep
<1>7. CASE OpenPR
  <2>1. pc = "open" /\ pc' = "note" /\ todo' = todo /\ UNCHANGED <<tk, gl, dl, flight>>
    BY <1>7 DEF OpenPR
  <2>2. todo # {} BY <2>1, AtWork
  <2> QED BY <1>1, <2>1, <2>2, StillStep
<1> QED BY <1>2, <1>3, <1>4, <1>5, <1>6, <1>7

\* An attempt is launched.
LEMMA LaunchIs ==
  ASSUME WorkInv, NEW t \in Ticket, Launch(t)
  PROVE  WorkInv' /\ UNCHANGED <<tk, gl, dl>> /\ pc = "launch" /\ pc' = pc
<1>1. /\ Item("launch", t) /\ flight' = [flight EXCEPT ![t] = "launched"] /\ UNCHANGED <<tk, gl, dl>>
  BY DEF Launch, logVars
<1>2. /\ pc = "launch" /\ pc' = pc /\ todo # {} /\ todo' = todo \ {t}
      /\ Listed("launch", t, tk, flight, dl)
  BY <1>1, ItemIs DEF Phase
<1>3. TicketOK(tk[t], "launched")
  BY <1>2, Grounded DEF Listed, TicketOK
<1>4. TableOK' BY <1>1, <1>3 DEF WorkInv, TableOK
<1>5. ListOK'
  <2>1. ASSUME NEW x \in todo' PROVE Listed("launch", x, tk', flight', dl')
    <3>1. Listed("launch", x, tk, flight, dl) /\ x # t BY <1>2, <2>1 DEF WorkInv, ListOK
    <3>2. x \in Ticket BY <3>1 DEF Listed, OfTickets
    <3>3. flight'[x] = flight[x] BY <1>1, <3>1, <3>2 DEF WorkInv, TableOK
    <3> QED BY <1>1, <3>1, <3>3 DEF Listed, OfTickets, OfGoals, Judging, Sending
  <2> QED BY <1>2, <2>1 DEF ListOK, Label, Phase, Judging, Sending
<1> QED BY <1>1, <1>2, <1>4, <1>5 DEF WorkInv, DepsOK

\* Run ends with an error, or its process dies.
LEMMA StopIs ==
  ASSUME WorkInv, RunFails \/ Crash
  PROVE  WorkInv' /\ UNCHANGED <<tk, gl, dl>> /\ pc' = "off" /\ todo' = {}
<1>1. CASE RunFails
  <2>1. pc' = "off" /\ todo' = {} /\ UNCHANGED <<tk, gl, dl, flight>>
    BY <1>1 DEF RunFails, logVars, workVars
  <2>2. WorkInv' BY <2>1, StillStep DEF WorkInv, TableOK, Label, Judging, Sending
  <2> QED BY <2>1, <2>2
<1>2. CASE Crash
  <2>1. /\ pc' = "off" /\ todo' = {} /\ UNCHANGED <<tk, gl, dl>>
        /\ flight' = [t \in Ticket |-> "no"]
    BY <1>2 DEF Crash, logVars
  <2>2. \A t \in Ticket : TicketOK(tk[t], "no")
    <3>1. \A t \in Ticket : TicketOK(tk[t], flight[t]) BY DEF WorkInv, TableOK
    <3> QED BY <3>1 DEF TicketOK
  <2>3. TableOK' BY <2>1, <2>2 DEF WorkInv, TableOK
  <2>4. ListOK' BY <2>1 DEF ListOK, Label, Judging, Sending
  <2> QED BY <2>1, <2>3, <2>4 DEF WorkInv, DepsOK
<1> QED BY <1>1, <1>2

\* The goal that was sent, or was not.
LEMMA SentStep ==
  ASSUME WorkInv, DeliveryFails \/ RecordDelivery
  PROVE  /\ WorkInv' /\ UNCHANGED <<tk, gl, flight>> /\ pc' = "deliver"
         /\ \A g \in Goal : dl'[g].branch = dl[g].branch
         /\ \A g \in Goal : g # First(todo) => dl'[g] = dl[g]
<1> DEFINE g == First(todo)
<1>1. /\ pc \in Sending /\ pc' = "deliver" /\ todo' = todo \ {g} /\ UNCHANGED <<tk, gl, flight>>
      /\ \E d \in {DeliveryFailed(dl[g]), Delivered(dl[g], TRUE)} : dl' = [dl EXCEPT ![g] = d]
  BY DEF DeliveryFails, RecordDelivery, EmitGoal, Sending, workVars
<1>2. todo # {} BY <1>1, AtWork
<1>3. g \in Goal BY <1>1, <1>2, SentIs
<1> HIDE DEF g
<1>4. dl[g] \in DeliveryRecord BY <1>3 DEF WorkInv, TableOK
<1>5. /\ DeliveryFailed(dl[g]) \in DeliveryRecord /\ Delivered(dl[g], TRUE) \in DeliveryRecord
      /\ DeliveryFailed(dl[g]).branch = dl[g].branch /\ Delivered(dl[g], TRUE).branch = dl[g].branch
  BY <1>4 DEF DeliveryFailed, Delivered, DeliveryRecord
<1>6. PICK d \in DeliveryRecord : dl' = [dl EXCEPT ![g] = d] /\ d.branch = dl[g].branch
  BY <1>1, <1>5
<1>7. TableOK' BY <1>1, <1>6 DEF WorkInv, TableOK
<1>8. /\ \A h \in Goal : dl'[h].branch = dl[h].branch
      /\ \A h \in Goal : h # g => dl'[h] = dl[h]
  BY <1>3, <1>6 DEF WorkInv, TableOK
<1>9. ListOK'
  <2>1. ASSUME NEW x \in todo' PROVE Listed("deliver", x, tk', flight', dl')
    <3>1. Listed(pc, x, tk, flight, dl) /\ x # g BY <1>1, <2>1 DEF WorkInv, ListOK
    <3>2. x \in Goal /\ GoalComplete(tk, x) /\ dl[x].branch /\ ~dl[x].delivered
      BY <1>1, <3>1 DEF Listed, OfGoals
    <3>3. dl'[x] = dl[x] BY <1>8, <3>1, <3>2
    <3> QED BY <1>1, <3>2, <3>3 DEF Listed, OfTickets, OfGoals, Judging, Sending
  <2> QED BY <1>1, <2>1 DEF ListOK, Label, Phase, Judging, Sending
<1> QED BY <1>1, <1>7, <1>8, <1>9 DEF WorkInv, DepsOK, g

\* A goal is cancelled.
LEMMA CancelIs ==
  ASSUME WorkInv, NEW g \in Goal, Cancel(g)
  PROVE  /\ WorkInv' /\ UNCHANGED <<tk, dl, pc, todo, flight>>
         /\ gl' = [gl EXCEPT ![g].cancelled = TRUE]
<1>1. gl' = [gl EXCEPT ![g] = GoalCancelled(gl[g])] /\ UNCHANGED <<tk, dl, pc, todo, flight>>
  BY DEF Cancel, workVars
<1>2. gl[g] \in GoalRecord BY DEF WorkInv, TableOK
<1>3. gl' = [gl EXCEPT ![g].cancelled = TRUE] BY <1>1 DEF GoalCancelled
<1>4. gl' \in [Goal -> GoalRecord] BY <1>1, <1>2 DEF WorkInv, TableOK, GoalRecord, GoalCancelled
<1>5. WorkInv' BY <1>1, <1>4, StillStep DEF WorkInv, ListOK, TableOK
<1> QED BY <1>1, <1>3, <1>5

-----------------------------------------------------------------------------
\* The first invariant holds at the start.
LEMMA WorkStart == Init => WorkInv
<1> SUFFICES ASSUME Init PROVE WorkInv OBVIOUS
<1>1. ASSUME NEW t \in Ticket
      PROVE  TicketOK(tk[t], flight[t]) /\ tk[t].status \notin Started
  <2>0. t \in Nat BY GraphAssumption DEF Ticket
  <2>1. flight[t] = "no" BY DEF Init
  <2>2. TicketOK(NoTicket, "no") /\ NoTicket.status = "none"
    BY DEF TicketOK, TicketRecord, Status, NoTicket, Nobody, NoReason, Worker
  <2>3. TicketOK(TicketCreated(NoTicket, t), "no") /\ TicketCreated(NoTicket, t).status = "pending"
    BY <2>0, <2>2, CalmOK
  <2> DEFINE x == TicketReady(TicketCreated(NoTicket, t))
             y == WorkStarted(TicketClaimed(x))
  <2>4. TicketOK(x, "no") /\ x.status = "ready" BY <2>0, <2>3, CalmOK
  <2> HIDE DEF x
  <2>5. TicketOK(x, "launched") BY <2>4 DEF TicketOK
  <2>6. TicketOK(y, "working") /\ y.status = "running" BY <2>5, FlyingOK
  <2> HIDE DEF y
  <2>7. TicketOK(TicketDecomposed(y), "no") /\ TicketDecomposed(y).status = "decomposed"
    BY <2>6 DEF TicketOK, TicketRecord, TicketDecomposed, Status, Terminal
  <2>8. tk[t] \in {NoTicket, TicketDecomposed(y), TicketCreated(NoTicket, t)}
    BY DEF Init, x, y
  <2> QED BY <2>1, <2>2, <2>3, <2>7, <2>8 DEF Started
<1>2. tk = [t \in Ticket |-> tk[t]] /\ flight = [t \in Ticket |-> flight[t]] BY DEF Init
<1>3. gl \in [Goal -> GoalRecord] /\ dl \in [Goal -> DeliveryRecord]
  <2>1. GoalSubmitted(NoGoal) \in GoalRecord BY DEF GoalSubmitted, NoGoal, GoalRecord
  <2>2. NoDelivery \in DeliveryRecord BY DEF NoDelivery, DeliveryRecord
  <2> QED BY <2>1, <2>2 DEF Init
<1>4. ListOK BY DEF Init, ListOK, Label, Judging, Sending
<1> QED BY <1>1, <1>2, <1>3, <1>4 DEF WorkInv, TableOK, DepsOK

\* Every step keeps it.
LEMMA WorkKept == WorkInv /\ [Next]_vars => WorkInv'
<1> SUFFICES ASSUME WorkInv, [Next]_vars PROVE WorkInv' OBVIOUS
<1>1. CASE UNCHANGED vars
  BY <1>1 DEF vars, logVars, runVars, workVars, WorkInv, TableOK, DepsOK, ListOK
<1>2. ASSUME NEW t \in Ticket, Attempt(t) \/ Invalidate(t) \/ Decide(t) PROVE WorkInv'
  BY <1>2, StartWorkIs, ProposeIs, FailAttemptIs, InvalidateIs, DecideIs DEF Attempt
<1>3. ASSUME NEW t \in Ticket,
             FailCancelled(t) \/ Promote(t) \/ Launch(t) \/ FailBlocked(t) \/ RestartStalled(t)
      PROVE  WorkInv'
  BY <1>3, FailCancelledIs, PromoteIs, LaunchIs, FailBlockedIs, RestartStalledIs
<1>4. ASSUME GateFails \/ GateBreaks PROVE WorkInv'
  <2>1. pc = "gate" /\ \E type \in {"TicketFailed", "VerificationFailed"} : \E e : RejectOrFail(type, e)
    BY <1>4 DEF GateFails, GateBreaks
  <2> QED BY <2>1, RejectOrFailIs
<1>5. ASSUME DropCancelled \/ Park \/ RecordPass \/ RecordMerge PROVE WorkInv'
  BY <1>5, DropCancelledIs, ParkIs, RecordPassIs, RecordMergeIs
<1>6. ASSUME NEW g \in Goal, CreateRoot(g) \/ Cancel(g) PROVE WorkInv'
  BY <1>6, CreateRootIs, CancelIs
<1> QED BY <1>1, <1>2, <1>3, <1>4, <1>5, <1>6, TurnIs, SilentIs, StopIs, SentStep DEF Next, Reconcile

-----------------------------------------------------------------------------
(* The branches *)

\* Nobody touches the ticket the queue works on.
LEMMA Away ==
  ASSUME WorkInv, NEW t \in Ticket, tk[t].status # "proposed", pc \in Judging
  PROVE  t # Current
BY AtWork, CurrentIs

\* An event on a ticket, with what becomes of its branch and of its attempt's base.
Cuts(t, c, b) ==
  /\ cand' = [cand EXCEPT ![t] = c] /\ base' = [base EXCEPT ![t] = b]
  /\ c \in Commit /\ Whole(c, GoalOf[t]) /\ b \subseteq tip[GoalOf[t]]
  /\ UNCHANGED <<head, tip, gated, pushed, remote>>

\* The pass stays where it is, or where it goes nothing is claimed of branches.
Elsewhere(t) ==
  \/ pc' \notin {"update", "verified", "record", "open", "note"}
  \/ UNCHANGED <<pc, todo>> /\ (pc \in Judging => t # Current)

\* Then the branches stay in order.
LEMMA GitMove ==
  ASSUME WorkInv, GitInv, NEW t \in Ticket, NEW r, NEW f, NEW c, NEW b,
         Moves(t, r, f), Cuts(t, c, b), Kept(dl, dl'), Elsewhere(t),
         r.status \in {"proposed", "awaiting"} => Holds(c, t),
         r.status = "merged" => Holds(tip[GoalOf[t]], t)
  PROVE  GitInv'
<1> USE DEF GitInv, GitTypes, Cuts
<1>1. GoalOf[t] \in Goal BY GraphAssumption
<1>2. GitTypes'
  <2>1. b \in Commit BY <1>1 DEF Commit
  <2> QED BY <2>1
<1>3. CandOK'
  <2>1. ASSUME NEW u \in Ticket
        PROVE  /\ Whole(cand'[u], GoalOf[u]) /\ base'[u] \subseteq tip'[GoalOf[u]]
               /\ tk'[u].status \in {"proposed", "awaiting"} => Holds(cand'[u], u)
               /\ tk'[u].status = "merged" => Holds(tip'[GoalOf[u]], u)
    <3>1. CASE u = t
      <4>1. cand'[u] = c /\ base'[u] = b /\ tk'[u] = r BY <3>1, MoveTicket
      <4> QED BY <3>1, <4>1
    <3>2. CASE u # t
      <4>1. cand'[u] = cand[u] /\ base'[u] = base[u] /\ tk'[u] = tk[u] BY <3>2, MoveTicket
      <4> QED BY <4>1 DEF CandOK
    <3> QED BY <3>1, <3>2
  <2> QED BY <2>1 DEF CandOK
<1>4. TipOK'
  <2>1. CASE pc' \notin {"update", "verified", "record"} BY <2>1 DEF TipOK
  <2>2. CASE pc' \in {"update", "verified", "record"}
    <3>1. UNCHANGED <<pc, todo>> /\ t # Current BY <2>2 DEF Elsewhere, Judging
    <3>2. Current \in Ticket BY <2>2, <3>1, AtWork, CurrentIs DEF Judging
    <3>3. Current' = Current /\ cand'[Current] = cand[Current] BY <3>1, <3>2 DEF Current
    <3>4. Candidate' = Candidate /\ CurrentGoal' = CurrentGoal
      BY <3>3 DEF Candidate, CurrentGoal
    <3> QED BY <3>1, <3>4 DEF TipOK
  <2> QED BY <2>1, <2>2
<1>5. SentOK'
  <2>1. \A g \in pushed : GoalComplete(tk', g) BY MoveTicket DEF SentOK
  <2>2. pc' \in {"open", "note"} => UNCHANGED <<pc, todo>> BY DEF Elsewhere
  <2> QED BY <2>1, <2>2 DEF SentOK, Kept
<1> QED BY <1>2, <1>3, <1>4, <1>5

\* Steps that leave tickets and branches alone.
LEMMA GitStill ==
  ASSUME GitInv, UNCHANGED <<tk, cand, tip, gated, pushed, remote>>, head' \in Commit,
         base' \in [Ticket -> Commit], \A t \in Ticket : base'[t] \subseteq base[t],
         \A g \in Goal : dl'[g].delivered => dl[g].delivered \/ g \in pushed,
         \/ pc' \notin {"update", "verified", "record", "open", "note"}
         \/ UNCHANGED <<pc, todo, head>>
         \/ pc = "verified" /\ pc' = "record" /\ UNCHANGED <<todo, head>>
         \/ pc = "open" /\ pc' = "note" /\ UNCHANGED <<todo, head>>
  PROVE  GitInv'
<1> USE DEF GitInv
<1>1. GitTypes' BY DEF GitTypes
<1>2. CandOK' BY DEF CandOK
<1>3. TipOK'
  <2>1. \/ pc' \notin {"update", "verified", "record"}
        \/ UNCHANGED <<pc, todo, head>>
        \/ pc = "verified" /\ pc' = "record" /\ UNCHANGED <<todo, head>>
    OBVIOUS
  <2>2. UNCHANGED <<todo, head>> => Candidate' = Candidate /\ CurrentGoal' = CurrentGoal
    BY DEF Candidate, CurrentGoal, Current
  <2> QED BY <2>1, <2>2 DEF TipOK
<1>4. SentOK' BY DEF SentOK
<1> QED BY <1>1, <1>2, <1>3, <1>4

\* A ticket is created: its branch is not there yet.
LEMMA GitCreate ==
  ASSUME WorkInv, GitInv, NEW g \in Goal, CreateRoot(g) PROVE GitInv'
<1> USE DEF GitInv
<1>1. UNCHANGED <<dl, head, tip, gated, pushed, remote, base, cand>>
  BY DEF CreateRoot, gitVars, workVars
<1>2. PICK t \in Ticket : /\ tk' = [tk EXCEPT ![t] = TicketCreated(tk[t], t)]
                          /\ TicketCreated(tk[t], t).status = "pending"
  BY CreateRootIs
<1>3. pc' = "create" /\ \A h : GoalComplete(tk, h) => GoalComplete(tk', h) BY CreateRootIs
<1>4. GitTypes' BY <1>1 DEF GitTypes
<1>5. CandOK'
  <2>1. \A u \in Ticket : tk'[u] = tk[u] \/ tk'[u].status = "pending"
    BY <1>2 DEF WorkInv, TableOK
  <2> QED BY <1>1, <2>1 DEF CandOK
<1>6. TipOK' BY <1>1, <1>3 DEF TipOK
<1>7. SentOK' BY <1>1, <1>3 DEF SentOK
<1> QED BY <1>4, <1>5, <1>6, <1>7

\* The Gate passed the candidate.
LEMMA GitPasses ==
  ASSUME WorkInv, GitInv, GatePasses PROVE GitInv'
<1> USE DEF GitInv
<1>1. /\ pc = "gate" /\ pc' \in {"park", "update"}
      /\ gated' = [gated EXCEPT ![CurrentGoal] = gated[CurrentGoal] \cup {Candidate}]
      /\ UNCHANGED <<tk, dl, todo, head, tip, pushed, remote, base, cand>>
  BY DEF GatePasses, logVars, workVars
<1>2. todo # {} /\ Current \in Ticket /\ CurrentGoal \in Goal
  BY <1>1, AtWork, CurrentIs DEF Judging
<1>3. Candidate \in Commit BY <1>2 DEF Candidate, GitTypes, Commit
<1>4. Candidate' = Candidate /\ CurrentGoal' = CurrentGoal
  BY <1>1 DEF Candidate, CurrentGoal, Current
<1>5. GitTypes' BY <1>1, <1>2, <1>3 DEF GitTypes
<1>6. TipOK'
  <2>1. \A g \in Goal : gated[g] \subseteq gated'[g] BY <1>1, <1>2 DEF GitTypes
  <2>2. Candidate \in gated'[CurrentGoal] BY <1>1, <1>2 DEF GitTypes
  <2> QED BY <1>1, <1>4, <2>1, <2>2 DEF TipOK
<1>7. CandOK' BY <1>1 DEF CandOK
<1>8. SentOK' BY <1>1 DEF SentOK
<1> QED BY <1>5, <1>6, <1>7, <1>8

\* The goal's branch moves to the candidate, which the Gate has passed.
LEMMA GitUpdates ==
  ASSUME WorkInv, GitInv, UpdateRef
  PROVE  /\ GitInv' /\ \A g \in Goal : tip[g] \subseteq tip'[g]
         /\ \A g \in Goal : g # CurrentGoal => tip'[g] = tip[g]
         /\ CurrentGoal \in Goal /\ tk[Current].status = "proposed" /\ Current \in Ticket
<1> USE DEF GitInv
<1>1. /\ pc = "update" /\ pc' = "verified" /\ tip[CurrentGoal] = head
      /\ tip' = [tip EXCEPT ![CurrentGoal] = Candidate]
      /\ UNCHANGED <<tk, dl, todo, head, gated, pushed, remote, base, cand>>
  BY DEF UpdateRef, logVars, workVars
<1>2. /\ todo # {} /\ Current \in Ticket /\ CurrentGoal \in Goal
      /\ tk[Current].status = "proposed"
  BY <1>1, AtWork, CurrentIs DEF Judging
<1>3. Candidate \in Commit BY <1>2 DEF Candidate, GitTypes, Commit
<1>4. Candidate' = Candidate /\ CurrentGoal' = CurrentGoal
  BY <1>1 DEF Candidate, CurrentGoal, Current
<1>5. GitTypes' BY <1>1, <1>2, <1>3 DEF GitTypes
<1>6. \A g \in Goal : tip[g] \subseteq tip'[g]
  <2>1. tip[CurrentGoal] \subseteq Candidate BY <1>1 DEF Candidate
  <2> QED BY <1>1, <1>2, <2>1 DEF GitTypes
<1>7. \A g \in Goal : g # CurrentGoal => tip'[g] = tip[g] BY <1>1 DEF GitTypes
<1>8. tip'[CurrentGoal] = Candidate BY <1>1, <1>2 DEF GitTypes
<1>9. CandOK'
  <2>1. ASSUME NEW u \in Ticket
        PROVE  base[u] \subseteq tip'[GoalOf[u]] /\ (Holds(tip[GoalOf[u]], u) => Holds(tip'[GoalOf[u]], u))
    <3>1. tip[GoalOf[u]] \subseteq tip'[GoalOf[u]] BY <1>6, GraphAssumption
    <3> QED BY <3>1 DEF CandOK, Holds
  <2> QED BY <1>1, <2>1 DEF CandOK
<1>10. Whole(Candidate, CurrentGoal)
  BY <1>1, <1>2 DEF Candidate, CurrentGoal, Whole, TipOK, CandOK
<1>11. TipOK'
  <2>1. \A g \in Goal : tip'[g] \in gated[g] /\ Whole(tip'[g], g)
    BY <1>1, <1>2, <1>7, <1>8, <1>10 DEF TipOK
  <2> QED BY <1>1, <1>2, <1>4, <1>8, <2>1 DEF TipOK
<1>12. SentOK'
  <2>1. CurrentGoal \notin pushed
    <3>1. Current \in TasksOf(tk, CurrentGoal)
      BY <1>2 DEF TasksOf, Created, CurrentGoal
    <3>2. ~TicketComplete(tk)[Current] BY <1>2, CompleteIs
    <3> QED BY <3>1, <3>2 DEF SentOK, GoalComplete
  <2> QED BY <1>1, <1>7, <2>1 DEF SentOK, GitTypes
<1> QED BY <1>2, <1>5, <1>6, <1>7, <1>9, <1>11, <1>12

\* The branch of a goal that is complete goes to the remote.
LEMMA GitPushes ==
  ASSUME WorkInv, GitInv, Push PROVE GitInv'
<1> USE DEF GitInv
<1> DEFINE g == First(todo)
<1>1. /\ pc = "push" /\ pc' = "open" /\ pushed' = pushed \cup {g}
      /\ remote' = [remote EXCEPT ![g] = tip[g]]
      /\ UNCHANGED <<tk, dl, todo, head, tip, gated, base, cand>>
  BY DEF Push, logVars, workVars
<1>2. g \in Goal /\ GoalComplete(tk, g) BY <1>1, AtWork, SentIs DEF Sending
<1> HIDE DEF g
<1>3. GitTypes' BY <1>1, <1>2 DEF GitTypes
<1>4. CandOK' BY <1>1 DEF CandOK
<1>5. TipOK' BY <1>1 DEF TipOK
<1>6. SentOK'
  <2>1. First(todo') \in pushed' BY <1>1 DEF g
  <2>2. \A h \in pushed' : GoalComplete(tk, h) /\ remote'[h] = tip[h]
    BY <1>1, <1>2 DEF SentOK, GitTypes
  <2> QED BY <1>1, <2>1, <2>2 DEF SentOK
<1> QED BY <1>3, <1>4, <1>5, <1>6

\* An event that cuts nothing new: the branch and the base stay or go.
LEMMA GitPlain ==
  ASSUME WorkInv, GitInv, NEW t \in Ticket, NEW r, NEW f, Moves(t, r, f),
         UNCHANGED <<head, tip, gated, pushed, remote>>, Kept(dl, dl'), Elsewhere(t),
         cand' = cand \/ cand' = [cand EXCEPT ![t] = {}],
         base' = base \/ base' = [base EXCEPT ![t] = {}],
         r.status # "merged",
         r.status \in {"proposed", "awaiting"} =>
           tk[t].status \in {"proposed", "awaiting"} /\ cand' = cand
  PROVE  GitInv'
<1>0. cand[t] \in Commit /\ {} \in Commit /\ GoalOf[t] \in Goal
  BY GraphAssumption DEF GitInv, GitTypes, Commit
<1>1. PICK c \in {cand[t], {}} : cand' = [cand EXCEPT ![t] = c] /\ (cand' = cand => c = cand[t])
  BY DEF GitInv, GitTypes
<1>2. PICK b \in {base[t], {}} : base' = [base EXCEPT ![t] = b]
  BY DEF GitInv, GitTypes
<1>3. Whole(c, GoalOf[t]) /\ b \subseteq tip[GoalOf[t]]
  BY DEF GitInv, CandOK, Whole
<1>4. Cuts(t, c, b) BY <1>0, <1>1, <1>2, <1>3 DEF Cuts
<1>5. r.status \in {"proposed", "awaiting"} => Holds(c, t) BY <1>1 DEF GitInv, CandOK
<1> QED BY <1>4, <1>5, GitMove

\* Attempts and people: the pass stays where it is.
LEMMA GitAttempts ==
  ASSUME WorkInv, GitInv, NEW t \in Ticket, Attempt(t) \/ Invalidate(t) \/ Decide(t)
  PROVE  GitInv'
<1> USE DEF Started
<1>0. Kept(dl, dl') /\ UNCHANGED <<pc, todo, head, tip, gated, pushed, remote>>
  BY DEF Attempt, StartWork, Propose, FailAttempt, Invalidate, Decide, Kept, gitVars
<1>1. tk[t].status # "proposed" => Elsewhere(t) BY <1>0, Away DEF Elsewhere
<1>2. CASE StartWork(t)
  <2>1. /\ Moves(t, WorkStarted(TicketClaimed(tk[t])), "working") /\ tk[t].status = "ready"
        /\ WorkStarted(TicketClaimed(tk[t])).status = "running"
    BY <1>2, StartWorkIs
  <2>2. base' = [base EXCEPT ![t] = tip[GoalOf[t]]] /\ cand' = cand BY <1>2 DEF StartWork
  <2>3. Cuts(t, cand[t], tip[GoalOf[t]])
    BY <1>0, <2>2, GraphAssumption DEF Cuts, GitInv, GitTypes, CandOK
  <2>4. Elsewhere(t) BY <1>1, <2>1
  <2> QED BY <1>0, <2>1, <2>3, <2>4, GitMove
<1>3. ASSUME NEW kind \in {"good", "bad"}, Propose(t, kind) PROVE GitInv'
  <2> DEFINE c == base[t] \cup {<<t, kind>>}
  <2>1. /\ Moves(t, ProposalSubmitted(tk[t], 1), "no") /\ tk[t].status = "running"
        /\ ProposalSubmitted(tk[t], 1).status = "proposed"
    BY <1>3, ProposeIs
  <2>2. base' = [base EXCEPT ![t] = {}] /\ cand' = [cand EXCEPT ![t] = c] BY <1>3 DEF Propose
  <2>3. <<t, kind>> \in Tree BY DeliveryAssumption
  <2>4. Whole(c, GoalOf[t])
    <3>1. base[t] \subseteq tip[GoalOf[t]] /\ Whole(tip[GoalOf[t]], GoalOf[t])
      BY GraphAssumption DEF GitInv, CandOK, TipOK
    <3> QED BY <3>1 DEF Whole
  <2>5. c \in Commit BY <2>3 DEF GitInv, GitTypes, Commit
  <2>6. Holds(c, t)
    <3>1. <<t, kind>> \in c /\ <<t, kind>>[1] = t OBVIOUS
    <3> HIDE DEF c
    <3> QED BY <3>1 DEF Holds
  <2> HIDE DEF c
  <2>7. Cuts(t, c, {}) BY <1>0, <2>2, <2>4, <2>5 DEF Cuts
  <2>8. Elsewhere(t) BY <1>1, <2>1
  <2> QED BY <1>0, <2>1, <2>6, <2>7, <2>8, GitMove
<1>4. CASE FailAttempt(t)
  <2>1. base' = [base EXCEPT ![t] = {}] /\ cand' = cand BY <1>4 DEF FailAttempt
  <2>2. PICK r : /\ tk[t].status = "running" /\ Moves(t, r, "no")
                 /\ r.status \in {"failed", "ready"}
    BY <1>4, FailAttemptIs
  <2>3. Elsewhere(t) BY <1>1, <2>2
  <2> QED BY <1>0, <2>1, <2>2, <2>3, GitPlain
<1>5. CASE Invalidate(t)
  <2>1. base' = [base EXCEPT ![t] = {}] /\ cand' = cand BY <1>5 DEF Invalidate
  <2>2. PICK r : tk[t].status = "running" /\ Moves(t, r, "no") /\ r.status = "pending"
    BY <1>5, InvalidateIs
  <2>3. Elsewhere(t) BY <1>1, <2>2
  <2> QED BY <1>0, <2>1, <2>2, <2>3, GitPlain
<1>6. CASE Decide(t)
  <2>1. base' = base /\ cand' = cand BY <1>6 DEF Decide, workVars
  <2>2. PICK r : /\ tk[t].status = "awaiting" /\ Moves(t, r, "no")
                 /\ r.status \in {"proposed", "failed"}
    BY <1>6, DecideIs
  <2>3. Elsewhere(t) BY <1>1, <2>2
  <2> QED BY <1>0, <2>1, <2>2, <2>3, GitPlain
<1> QED BY <1>2, <1>3, <1>4, <1>5, <1>6 DEF Attempt

\* The phases of a pass that deal with tickets one by one.
LEMMA GitItems ==
  ASSUME WorkInv, GitInv, NEW t \in Ticket,
         FailCancelled(t) \/ Promote(t) \/ FailBlocked(t) \/ RestartStalled(t)
  PROVE  GitInv'
<1>1. /\ Kept(dl, dl') /\ UNCHANGED <<head, tip, gated, pushed, remote>>
      /\ base' = base /\ (cand' = cand \/ cand' = [cand EXCEPT ![t] = {}])
  BY DEF FailCancelled, Promote, FailBlocked, RestartStalled, Kept, gitVars, workVars
<1>2. PICK r : /\ Moves(t, r, flight[t]) /\ r.status \in {"failed", "ready"}
               /\ pc' \in {"cancel", "promote", "block", "restart"}
  BY FailCancelledIs, PromoteIs, FailBlockedIs, RestartStalledIs
<1>3. Elsewhere(t) BY <1>2 DEF Elsewhere
<1> QED BY <1>1, <1>2, <1>3, GitPlain

\* The queue lets go of a ticket that did not pass.
LEMMA GitReturns ==
  ASSUME WorkInv, GitInv, DropCancelled \/ GateFails \/ GateBreaks PROVE GitInv'
<1>1. CASE DropCancelled
  <2>1. /\ pc = "merge" /\ pc' = pc /\ todo # {} /\ Kept(dl, dl')
        /\ UNCHANGED <<head, tip, gated, pushed, remote, base>>
        /\ cand' = [cand EXCEPT ![Current] = {}]
    BY <1>1 DEF DropCancelled, Kept, gitVars
  <2>2. Current \in Ticket BY <2>1, CurrentIs
  <2>3. PICK r : Moves(Current, r, flight[Current]) /\ r.status = "failed"
    BY <1>1, DropCancelledIs
  <2>4. Elsewhere(Current) BY <2>1 DEF Elsewhere
  <2> QED BY <2>1, <2>2, <2>3, <2>4, GitPlain
<1>2. ASSUME GateFails \/ GateBreaks PROVE GitInv'
  <2>1. PICK type \in {"TicketFailed", "VerificationFailed"} : \E e :
          pc = "gate" /\ RejectOrFail(type, e)
    BY <1>2 DEF GateFails, GateBreaks
  <2>2. /\ pc' = "merge" /\ Kept(dl, dl')
        /\ UNCHANGED <<head, tip, gated, pushed, remote, base>>
    BY <2>1 DEF RejectOrFail, Kept, gitVars
  <2>3. todo # {} BY <2>1, AtWork DEF Judging
  <2>4. Current \in Ticket BY <2>1, <2>3, CurrentIs DEF Judging
  <2>5. PICK r : /\ Moves(Current, r, flight[Current]) /\ r.status \in {"failed", "ready"}
                 /\ (cand' = cand \/ cand' = [cand EXCEPT ![Current] = {}])
    BY <2>1, RejectOrFailIs
  <2>6. Elsewhere(Current) BY <2>2 DEF Elsewhere
  <2> QED BY <2>2, <2>4, <2>5, <2>6, GitPlain
<1> QED BY <1>1, <1>2

\* The dry run, and the merge on the record.
LEMMA GitRecords ==
  ASSUME WorkInv, GitInv, Park \/ RecordPass \/ RecordMerge PROVE GitInv'
<1>0. UNCHANGED <<head, tip, gated, pushed, remote, base>> /\ head \in Commit
  BY DEF Park, RecordPass, RecordMerge, gitVars, workVars, GitInv, GitTypes
<1>1. pc \in Judging BY DEF Park, RecordPass, RecordMerge, Judging
<1>2. todo # {} /\ Current \in Ticket /\ tk[Current].status = "proposed"
  BY <1>1, AtWork, CurrentIs
<1>3. CASE Park
  <2>1. cand' = cand /\ dl' = dl /\ Kept(dl, dl') BY <1>3 DEF Park, workVars, Kept
  <2>2. CASE tk' = tk /\ pc' = pc /\ todo' = todo
    BY <1>0, <2>1, <2>2, GitStill DEF GitInv, GitTypes
  <2>3. ASSUME NEW r, Moves(Current, r, flight[Current]), r.status = "awaiting", pc' = "merge"
        PROVE  GitInv'
    BY <1>0, <1>2, <2>1, <2>3, GitPlain DEF Elsewhere
  <2> QED BY <1>3, <2>2, <2>3, ParkIs
<1>4. CASE RecordPass
  <2>1. cand' = cand /\ dl' = dl /\ pc = "verified" /\ pc' = "record" /\ todo' = todo
    BY <1>4 DEF RecordPass, workVars
  <2>2. tk' = tk BY <1>4, RecordPassIs
  <2> QED BY <1>0, <2>1, <2>2, GitStill DEF GitInv, GitTypes
<1>5. CASE RecordMerge
  <2>1. cand' = [cand EXCEPT ![Current] = {}] /\ pc = "record" /\ pc' = "merge"
    BY <1>5 DEF RecordMerge
  <2>2. /\ Moves(Current, Merged(tk[Current]), flight[Current]) /\ Kept(dl, dl')
        /\ Merged(tk[Current]).status = "merged"
    BY <1>5, RecordMergeIs
  <2>3. Cuts(Current, {}, base[Current])
    BY <1>0, <1>2, <2>1 DEF Cuts, GitInv, GitTypes, CandOK, Commit, Whole
  <2>4. Holds(tip[GoalOf[Current]], Current)
    <3>1. tip[CurrentGoal] = head \cup cand[Current]
      BY <2>1 DEF GitInv, TipOK, Candidate
    <3>2. Holds(cand[Current], Current) BY <1>2 DEF GitInv, CandOK
    <3> QED BY <3>1, <3>2 DEF Holds, CurrentGoal
  <2>5. Elsewhere(Current) BY <2>1 DEF Elsewhere
  <2> QED BY <1>2, <2>2, <2>3, <2>4, <2>5, GitMove
<1> QED BY <1>3, <1>4, <1>5

\* Everything else leaves the branches alone.
LEMMA GitOthers ==
  ASSUME WorkInv, GitInv,
         \/ StartRun \/ Turn \/ EndPass \/ Detach \/ Deliver \/ OpenPR
         \/ DeliveryFails \/ RecordDelivery \/ RunFails \/ Crash
         \/ \E t \in Ticket : Launch(t)
         \/ \E g \in Goal : Cancel(g)
  PROVE  GitInv'
<1> USE DEF logVars, gitVars, workVars
<1>0. /\ head \in Commit /\ base \in [Ticket -> Commit] /\ tip \in [Goal -> Commit]
      /\ {} \in Commit
  BY DEF GitInv, GitTypes, Commit
<1>1. CASE StartRun \/ Turn \/ EndPass
  <2>1. UNCHANGED <<tk, dl>> /\ pc' \in Phase \cup {"off"} BY <1>1, TurnIs
  <2>2. UNCHANGED <<cand, tip, gated, pushed, remote, head, base>>
    BY <1>1 DEF StartRun, Turn, EndPass
  <2> QED BY <1>0, <2>1, <2>2, GitStill DEF Phase
<1>2. CASE Detach
  <2>1. /\ pc = "merge" /\ todo # {} /\ pc' = "gate" /\ head' = tip[CurrentGoal]
        /\ UNCHANGED <<tk, dl, cand, tip, gated, pushed, remote, base>>
    BY <1>2 DEF Detach
  <2>2. CurrentGoal \in Goal BY <2>1, CurrentIs
  <2> QED BY <1>0, <2>1, <2>2, GitStill
<1>3. CASE Deliver
  <2>1. UNCHANGED <<tk, dl, cand, tip, gated, pushed, remote, head, base>>
        /\ pc' \in {"push", "deliver"}
    BY <1>3 DEF Deliver
  <2> QED BY <1>0, <2>1, GitStill
<1>4. CASE OpenPR
  <2>1. UNCHANGED <<tk, dl, cand, tip, gated, pushed, remote, head, base, todo>>
        /\ pc = "open" /\ pc' = "note"
    BY <1>4 DEF OpenPR
  <2> QED BY <1>0, <2>1, GitStill
<1>5. CASE DeliveryFails \/ RecordDelivery
  <2>1. UNCHANGED <<cand, tip, gated, pushed, remote, head, base>>
    BY <1>5 DEF DeliveryFails, RecordDelivery
  <2>2. tk' = tk /\ pc' = "deliver" /\ \A g \in Goal : g # First(todo) => dl'[g] = dl[g]
    BY <1>5, SentStep
  <2>3. CASE DeliveryFails
    <3> DEFINE g == First(todo)
    <3>1. pc \in Sending /\ dl' = [dl EXCEPT ![g] = DeliveryFailed(dl[g])]
      BY <2>3 DEF DeliveryFails, EmitGoal, Sending
    <3>2. g \in Goal BY <3>1, AtWork, SentIs
    <3> HIDE DEF g
    <3>3. \A h \in Goal : dl'[h].delivered = dl[h].delivered
      BY <3>1, <3>2 DEF DeliveryFailed, DeliveryRecord, WorkInv, TableOK
    <3> QED BY <1>0, <2>1, <2>2, <3>3, GitStill
  <2>4. CASE RecordDelivery
    <3>1. First(todo) \in pushed BY <2>4 DEF RecordDelivery, GitInv, SentOK
    <3> QED BY <1>0, <2>1, <2>2, <3>1, GitStill
  <2> QED BY <1>5, <2>3, <2>4
<1>6. CASE RunFails \/ Crash
  <2>1. UNCHANGED <<tk, dl>> /\ pc' = "off" BY <1>6, StopIs
  <2>2. UNCHANGED <<cand, tip, gated, pushed, remote, head>>
        /\ (base' = base \/ base' = [t \in Ticket |-> {}])
    BY <1>6 DEF RunFails, Crash
  <2> QED BY <1>0, <2>1, <2>2, GitStill
<1>7. ASSUME NEW t \in Ticket, Launch(t) PROVE GitInv'
  <2>1. UNCHANGED <<tk, dl, cand, tip, gated, pushed, remote, head, base>> BY <1>7 DEF Launch
  <2>2. pc' = "launch" BY <1>7, LaunchIs
  <2> QED BY <1>0, <2>1, <2>2, GitStill
<1>8. ASSUME NEW g \in Goal, Cancel(g) PROVE GitInv'
  <2>1. UNCHANGED <<tk, dl, pc, todo, cand, tip, gated, pushed, remote, head, base>>
    BY <1>8 DEF Cancel
  <2> QED BY <1>0, <2>1, GitStill
<1> QED BY <1>1, <1>2, <1>3, <1>4, <1>5, <1>6, <1>7, <1>8

\* A branch is cut empty.
LEMMA GitStart == Init => GitInv
<1> SUFFICES ASSUME Init PROVE GitInv OBVIOUS
<1>1. GitTypes BY DEF Init, GitTypes, Commit
<1>2. CandOK
  <2>1. \A t \in Ticket : tk[t].status \in {"none", "pending", "decomposed"}
    BY DEF Init, NoTicket, TicketCreated, TicketDecomposed, WorkStarted, TicketClaimed, TicketReady
  <2>2. \A t \in Ticket : cand[t] = {} /\ base[t] = {} BY DEF Init
  <2> QED BY <2>1, <2>2 DEF CandOK, Whole
<1>3. TipOK BY DEF Init, TipOK, Whole
<1>4. SentOK BY DEF Init, SentOK, NoDelivery
<1> QED BY <1>1, <1>2, <1>3, <1>4 DEF GitInv

\* Every step keeps the branches in order.
LEMMA GitKept == WorkInv /\ GitInv /\ [Next]_vars => GitInv'
<1> SUFFICES ASSUME WorkInv, GitInv, [Next]_vars PROVE GitInv' OBVIOUS
<1>1. CASE UNCHANGED vars
  BY <1>1 DEF vars, logVars, runVars, workVars, gitVars, GitInv, GitTypes, CandOK, TipOK, SentOK,
              Candidate, CurrentGoal, Current
<1>2. CASE Next
  BY <1>2, GitAttempts, GitItems, GitReturns, GitRecords, GitOthers, GitCreate, GitPasses,
     GitUpdates, GitPushes DEF Next, Reconcile
<1> QED BY <1>1, <1>2

-----------------------------------------------------------------------------
(* What the readers make of one more event *)

\* An event of the log: on a ticket, or on a goal.
EventOK(e) ==
  /\ e.goal \in Goal /\ e.tree \in SUBSET Tree
  /\ e.ticket \in Ticket \/ e.type \in {"GoalCancelled", "Delivered", "DeliveryFailed"}

\* What the invariant checker holds after the event, and what it leaves.
Checked(a, tks, e, b) ==
  /\ b.passed = IF e.type = "ProposalSubmitted" THEN a.passed \ {e.ticket}
                ELSE IF e.type = "VerificationPassed" THEN a.passed \cup {e.ticket} ELSE a.passed
  /\ b.merged = IF e.type = "Merged" THEN a.merged \cup {e.ticket} ELSE a.merged
  /\ b.requested = IF e.type = "ApprovalRequested" THEN a.requested \cup {e.ticket} ELSE a.requested
  /\ b.granted = IF e.type = "ApprovalGranted" THEN a.granted \cup {e.ticket} ELSE a.granted
  /\ b.late = IF e.type \in {"ProposalSubmitted", "ApprovalGranted"}
              THEN Put(a.late, e.ticket, e.goal \in a.cancelled) ELSE a.late
  /\ b.cancelled = IF e.type = "GoalCancelled" THEN a.cancelled \cup {e.goal} ELSE a.cancelled
  /\ b.sent = IF e.type = "Delivered" THEN a.sent \cup {e.goal} ELSE a.sent
  /\ b.last = IF e.type = "Merged" THEN [a.last EXCEPT ![e.goal] = e.tree] ELSE a.last
  /\ b.found = IF e.type = "Merged" THEN a.found \cup MergeBreaches(a, e.ticket)
               ELSE IF e.type = "Delivered" THEN a.found \cup DeliveryBreaches(a, tks, e) ELSE a.found

\* What the others hold.
Measured(a, e, b) ==
  /\ b.active = IF e.type = "WorkStarted" THEN a.active \cup {e.ticket}
                ELSE IF e.type \in EndsSession THEN a.active \ {e.ticket} ELSE a.active
  /\ b.queued = IF e.type = "ProposalSubmitted" THEN a.queued \cup {e.ticket}
                ELSE IF e.type \in LeavesQueue THEN a.queued \ {e.ticket} ELSE a.queued
  /\ b.unverified = (a.unverified \/ (e.type = "Merged" /\ e.ticket \notin a.passed))

\* What the diagnosis holds.
Classified(a, e, b) ==
  /\ b.running = IF e.type = "WorkStarted" THEN a.running \cup {e.ticket}
                 ELSE IF e.type \in EndsAttempt THEN a.running \ {e.ticket} ELSE a.running
  /\ b.verified = IF e.type = "VerificationPassed" THEN a.verified \cup {e.ticket} ELSE a.verified
  /\ b.missing = IF e.type = "Merged" /\ e.ticket \notin a.verified
                 THEN a.missing \cup {e.ticket} ELSE a.missing
  /\ b.passedTrees = IF e.type = "VerificationPassed" THEN a.passedTrees \cup {e.tree} ELSE a.passedTrees
  /\ b.failedTrees = IF IsGateRejection(e) THEN a.failedTrees \cup {e.tree} ELSE a.failedTrees

\* Whose attempt was void.
Voided(a, e, b) ==
  b.voided = IF e.type = "TicketInvalidated" THEN a.voided \cup {e.ticket}
             ELSE IF e.type = "WorkStarted" THEN a.voided \ {e.ticket} ELSE a.voided

\* The maps each reader has for itself.
SameCheck(a, b) ==
  /\ b.passed = a.passed /\ b.merged = a.merged /\ b.requested = a.requested
  /\ b.granted = a.granted /\ b.late = a.late /\ b.cancelled = a.cancelled
  /\ b.sent = a.sent /\ b.last = a.last /\ b.found = a.found
SameMeasure(a, b) == b.active = a.active /\ b.queued = a.queued /\ b.unverified = a.unverified
SameClassify(a, b) ==
  /\ b.running = a.running /\ b.verified = a.verified /\ b.missing = a.missing
  /\ b.passedTrees = a.passedTrees /\ b.failedTrees = a.failedTrees

\* What the checker finds has one of its names.
LEMMA BreachesAre ==
  ASSUME NEW a, NEW tks, NEW e
  PROVE  MergeBreaches(a, e.ticket) \subseteq Checks /\ DeliveryBreaches(a, tks, e) \subseteq Checks
<1>1. ASSUME NEW name \in Checks, NEW p PROVE Breach(name, p) \subseteq Checks
  BY Zenon DEF Breach
<1>2. /\ "MergeImpliesVerified" \in Checks /\ "MergedAtMostOnceByQueue" \in Checks
      /\ "ApprovalGate" \in Checks /\ "CancelHonored" \in Checks
      /\ "DeliveredOnceAndVerified" \in Checks
  BY DEF Checks
<1> QED BY <1>1, <1>2 DEF MergeBreaches, DeliveryBreaches

\* The loop of the checker, one event on.
LEMMA CheckIs ==
  ASSUME NEW a \in AuditRecord, NEW tks, NEW e, EventOK(e)
  PROVE  /\ Check(a, tks, e) \in AuditRecord /\ Checked(a, tks, e, Check(a, tks, e))
         /\ SameMeasure(a, Check(a, tks, e)) /\ SameClassify(a, Check(a, tks, e))
         /\ Check(a, tks, e).voided = a.voided
<1> DEFINE t == e.ticket
           b == Check(a, tks, e)
           Good(r) == /\ r \in AuditRecord /\ Checked(a, tks, e, r)
                      /\ SameMeasure(a, r) /\ SameClassify(a, r) /\ r.voided = a.voided
<1>0. /\ e.goal \in Goal /\ e.tree \in SUBSET Tree
      /\ t \in Ticket \/ e.type \in {"GoalCancelled", "Delivered", "DeliveryFailed"}
  BY DEF EventOK
<1> USE DEF SameMeasure, SameClassify, Checked
<1>1. CASE e.type = "ProposalSubmitted"
  <2>1. b = [a EXCEPT !.passed = a.passed \ {t}, !.late = Put(a.late, t, e.goal \in a.cancelled)]
    BY <1>1 DEF Check
  <2>2. Put(a.late, t, e.goal \in a.cancelled) \in SUBSET Ticket
    BY <1>0, <1>1 DEF Put, AuditRecord
  <2> HIDE DEF b
  <2>3. b \in AuditRecord BY <1>0, <2>1, <2>2 DEF AuditRecord
  <2> QED BY <1>1, <2>1, <2>3 DEF AuditRecord, b
<1>2. CASE e.type = "VerificationPassed"
  <2>1. b = [a EXCEPT !.passed = a.passed \cup {t}] BY <1>2 DEF Check
  <2> HIDE DEF b
  <2>3. b \in AuditRecord BY <1>0, <1>2, <2>1 DEF AuditRecord
  <2> QED BY <1>2, <2>1, <2>3 DEF AuditRecord, b
<1>3. CASE e.type = "ApprovalRequested"
  <2>1. b = [a EXCEPT !.requested = a.requested \cup {t}] BY <1>3 DEF Check
  <2> HIDE DEF b
  <2>3. b \in AuditRecord BY <1>0, <1>3, <2>1 DEF AuditRecord
  <2> QED BY <1>3, <2>1, <2>3 DEF AuditRecord, b
<1>4. CASE e.type = "ApprovalGranted"
  <2>1. b = [a EXCEPT !.granted = a.granted \cup {t}, !.late = Put(a.late, t, e.goal \in a.cancelled)]
    BY <1>4 DEF Check
  <2>2. Put(a.late, t, e.goal \in a.cancelled) \in SUBSET Ticket
    BY <1>0, <1>4 DEF Put, AuditRecord
  <2> HIDE DEF b
  <2>3. b \in AuditRecord BY <1>0, <1>4, <2>1, <2>2 DEF AuditRecord
  <2> QED BY <1>4, <2>1, <2>3 DEF AuditRecord, b
<1>5. CASE e.type = "GoalCancelled"
  <2>1. b = [a EXCEPT !.cancelled = a.cancelled \cup {e.goal}] BY <1>5 DEF Check
  <2> HIDE DEF b
  <2>3. b \in AuditRecord BY <1>0, <2>1 DEF AuditRecord
  <2> QED BY <1>5, <2>1, <2>3 DEF AuditRecord, b
<1>6. CASE e.type = "Merged"
  <2>1. b = [a EXCEPT !.found = a.found \cup MergeBreaches(a, t), !.merged = a.merged \cup {t},
                      !.last = [a.last EXCEPT ![e.goal] = e.tree]]
    BY <1>6 DEF Check, AuditRecord
  <2>2. a.found \cup MergeBreaches(a, t) \in SUBSET Checks BY BreachesAre DEF AuditRecord
  <2>3. [a.last EXCEPT ![e.goal] = e.tree] \in [Goal -> SUBSET Tree] BY <1>0 DEF AuditRecord
  <2> HIDE DEF b
  <2>4. b \in AuditRecord BY <1>0, <1>6, <2>1, <2>2, <2>3 DEF AuditRecord
  <2> QED BY <1>6, <2>1, <2>4 DEF AuditRecord, b
<1>7. CASE e.type = "Delivered"
  <2>1. b = [a EXCEPT !.found = a.found \cup DeliveryBreaches(a, tks, e), !.sent = a.sent \cup {e.goal}]
    BY <1>7 DEF Check
  <2>2. a.found \cup DeliveryBreaches(a, tks, e) \in SUBSET Checks BY BreachesAre DEF AuditRecord
  <2> HIDE DEF b
  <2>4. b \in AuditRecord BY <1>0, <2>1, <2>2 DEF AuditRecord
  <2> QED BY <1>7, <2>1, <2>4 DEF AuditRecord, b
<1>8. CASE e.type \notin {"ProposalSubmitted", "VerificationPassed", "ApprovalRequested",
                          "ApprovalGranted", "GoalCancelled", "Merged", "Delivered"}
  <2>1. b = a BY <1>8 DEF Check
  <2> QED BY <1>8, <2>1
<1> QED BY <1>1, <1>2, <1>3, <1>4, <1>5, <1>6, <1>7, <1>8

\* The loop of the metrics.
LEMMA MeasureIs ==
  ASSUME NEW a \in AuditRecord, NEW e, EventOK(e)
  PROVE  /\ Measure(a, e) \in AuditRecord /\ Measured(a, e, Measure(a, e))
         /\ SameCheck(a, Measure(a, e)) /\ SameClassify(a, Measure(a, e))
         /\ Measure(a, e).voided = a.voided
<1> DEFINE A == IF e.type = "WorkStarted" THEN a.active \cup {e.ticket}
                ELSE IF e.type \in EndsSession THEN a.active \ {e.ticket} ELSE a.active
           Q == IF e.type = "ProposalSubmitted" THEN a.queued \cup {e.ticket}
                ELSE IF e.type \in LeavesQueue THEN a.queued \ {e.ticket} ELSE a.queued
           U == a.unverified \/ (e.type = "Merged" /\ e.ticket \notin a.passed)
           b == Measure(a, e)
<1>1. b = [a EXCEPT !.active = A, !.queued = Q, !.unverified = U] BY DEF Measure
<1>2. A \in SUBSET Ticket /\ Q \in SUBSET Ticket BY DEF AuditRecord, EventOK
<1>3. U \in BOOLEAN OBVIOUS
<1>4. Measured(a, e, [active |-> A, queued |-> Q, unverified |-> U]) BY DEF Measured
<1> HIDE DEF A, Q, U, b
<1>5. b \in AuditRecord BY <1>1, <1>2, <1>3 DEF AuditRecord
<1>6. b.active = A /\ b.queued = Q /\ b.unverified = U BY <1>1 DEF AuditRecord
<1>7. SameCheck(a, b) /\ SameClassify(a, b) /\ b.voided = a.voided
  BY <1>1 DEF AuditRecord, SameCheck, SameClassify
<1>8. Measured(a, e, b) BY <1>4, <1>6 DEF Measured
<1> QED BY <1>5, <1>7, <1>8 DEF b

\* The loop of the diagnosis.
LEMMA ClassifyIs ==
  ASSUME NEW a \in AuditRecord, NEW e, EventOK(e)
  PROVE  /\ Classify(a, e) \in AuditRecord /\ Classified(a, e, Classify(a, e))
         /\ SameCheck(a, Classify(a, e)) /\ SameMeasure(a, Classify(a, e))
         /\ Classify(a, e).voided = a.voided
<1> DEFINE R == IF e.type = "WorkStarted" THEN a.running \cup {e.ticket}
                ELSE IF e.type \in EndsAttempt THEN a.running \ {e.ticket} ELSE a.running
           V == IF e.type = "VerificationPassed" THEN a.verified \cup {e.ticket} ELSE a.verified
           M == IF e.type = "Merged" /\ e.ticket \notin a.verified
                THEN a.missing \cup {e.ticket} ELSE a.missing
           P == IF e.type = "VerificationPassed" THEN a.passedTrees \cup {e.tree} ELSE a.passedTrees
           F == IF IsGateRejection(e) THEN a.failedTrees \cup {e.tree} ELSE a.failedTrees
           b == Classify(a, e)
<1>1. b = [a EXCEPT !.running = R, !.verified = V, !.missing = M, !.passedTrees = P, !.failedTrees = F]
  BY DEF Classify
<1>2. R \in SUBSET Ticket /\ V \in SUBSET Ticket /\ M \in SUBSET Ticket BY DEF AuditRecord, EventOK
<1>3. P \in SUBSET SUBSET Tree /\ F \in SUBSET SUBSET Tree BY DEF AuditRecord, EventOK
<1>4. Classified(a, e, [running |-> R, verified |-> V, missing |-> M, passedTrees |-> P, failedTrees |-> F])
  BY DEF Classified
<1> HIDE DEF R, V, M, P, F, b
<1>5. b \in AuditRecord BY <1>1, <1>2, <1>3 DEF AuditRecord
<1>6. b.running = R /\ b.verified = V /\ b.missing = M /\ b.passedTrees = P /\ b.failedTrees = F
  BY <1>1 DEF AuditRecord
<1>7. SameCheck(a, b) /\ SameMeasure(a, b) /\ b.voided = a.voided
  BY <1>1 DEF AuditRecord, SameCheck, SameMeasure
<1>8. Classified(a, e, b) BY <1>4, <1>6 DEF Classified
<1> QED BY <1>5, <1>7, <1>8 DEF b

\* Whose attempt was void.
LEMMA VoidIs ==
  ASSUME NEW a \in AuditRecord, NEW e, EventOK(e)
  PROVE  /\ Void(a, e) \in AuditRecord /\ Voided(a, e, Void(a, e))
         /\ SameCheck(a, Void(a, e)) /\ SameMeasure(a, Void(a, e)) /\ SameClassify(a, Void(a, e))
<1> DEFINE V == IF e.type = "TicketInvalidated" THEN a.voided \cup {e.ticket}
                ELSE IF e.type = "WorkStarted" THEN a.voided \ {e.ticket} ELSE a.voided
           b == Void(a, e)
<1>1. b = [a EXCEPT !.voided = V] BY DEF Void
<1>2. V \in SUBSET Ticket BY DEF AuditRecord, EventOK
<1>3. Voided(a, e, [voided |-> V]) BY DEF Voided
<1> HIDE DEF V, b
<1>4. b \in AuditRecord BY <1>1, <1>2 DEF AuditRecord
<1>5. b.voided = V BY <1>1 DEF AuditRecord
<1>6. SameCheck(a, b) /\ SameMeasure(a, b) /\ SameClassify(a, b)
  BY <1>1 DEF AuditRecord, SameCheck, SameMeasure, SameClassify
<1> QED BY <1>3, <1>4, <1>5, <1>6 DEF b, Voided

\* All of them together.
Reads(a, tks, e, b) ==
  /\ b \in AuditRecord /\ Checked(a, tks, e, b) /\ Measured(a, e, b)
  /\ Classified(a, e, b) /\ Voided(a, e, b)

\* One more event, read by all three.
LEMMA ScanReads ==
  ASSUME NEW a \in AuditRecord, NEW tks, NEW e, EventOK(e)
  PROVE  Reads(a, tks, e, Scan(a, tks, e))
<1> DEFINE b == Check(a, tks, e)
           c == Measure(b, e)
           d == Classify(c, e)
           f == Void(d, e)
<1>1. /\ b \in AuditRecord /\ Checked(a, tks, e, b)
      /\ SameMeasure(a, b) /\ SameClassify(a, b) /\ b.voided = a.voided
  BY CheckIs
<1> HIDE DEF b
<1>2. /\ c \in AuditRecord /\ Measured(b, e, c)
      /\ SameCheck(b, c) /\ SameClassify(b, c) /\ c.voided = b.voided
  BY <1>1, MeasureIs
<1> HIDE DEF c
<1>3. /\ d \in AuditRecord /\ Classified(c, e, d)
      /\ SameCheck(c, d) /\ SameMeasure(c, d) /\ d.voided = c.voided
  BY <1>2, ClassifyIs
<1> HIDE DEF d
<1>4. f \in AuditRecord /\ Voided(d, e, f) /\ SameCheck(d, f) /\ SameMeasure(d, f) /\ SameClassify(d, f)
  BY <1>3, VoidIs
<1> HIDE DEF f
<1>5. Checked(a, tks, e, f) BY <1>1, <1>2, <1>3, <1>4 DEF Checked, SameCheck
<1>6. Measured(a, e, f)
  <2>1. e.type = "Merged" => b.passed = a.passed BY <1>1 DEF Checked
  <2> QED BY <1>1, <1>2, <1>3, <1>4, <2>1 DEF Measured, SameMeasure
<1>7. Classified(a, e, f)
  BY <1>1, <1>2, <1>3, <1>4 DEF Classified, SameClassify
<1>8. Voided(a, e, f) BY <1>1, <1>2, <1>3, <1>4 DEF Voided
<1>9. f = Scan(a, tks, e) BY DEF Scan, b, c, d, f
<1> QED BY <1>4, <1>5, <1>6, <1>7, <1>8, <1>9 DEF Reads

-----------------------------------------------------------------------------
(* The readers and the state *)

\* The status of a ticket before an event of the type, and after it.
Told(type, x, y) ==
  \/ type = "TicketCreated" /\ x.status = "none" /\ y.status = "pending"
  \/ type = "TicketReady" /\ x.status = "pending" /\ y.status = "ready"
  \/ type = "WorkStarted" /\ x.status = "ready" /\ y.status = "running"
  \/ type = "ProposalSubmitted" /\ x.status = "running" /\ y.status = "proposed"
  \/ type = "WorkerRestarted" /\ x.status = "running" /\ y.status = "ready"
  \/ type = "TicketInvalidated" /\ x.status = "running" /\ y.status = "pending"
  \/ type = "VerificationFailed" /\ x.status = "proposed" /\ y.status = "ready"
  \/ type = "VerificationPassed" /\ x.status = "proposed" /\ y = x
  \/ type = "ApprovalRequested" /\ x.status = "proposed" /\ y.status = "awaiting"
  \/ type = "ApprovalGranted" /\ x.status = "awaiting" /\ y.status = "proposed" /\ y.approved
  \/ type = "ApprovalDenied" /\ x.status = "awaiting" /\ y.status = "failed"
  \/ type = "Merged" /\ x.status = "proposed" /\ y.status = "merged"
  \/ /\ type = "TicketFailed" /\ y.status = "failed"
     /\ x.status \in {"pending", "ready", "running", "proposed", "awaiting", "failed"}

\* An event on a ticket that is appended when it may be.
Tells(t, r, e) ==
  /\ tk' = [tk EXCEPT ![t] = r] /\ acc' = Scan(acc, tk, e)
  /\ e.ticket = t /\ e.goal = GoalOf[t] /\ e.tree \in SUBSET Tree
  /\ Told(e.type, tk[t], r)
  /\ UNCHANGED <<gl, tip>> /\ \A g \in Goal : dl'[g].delivered = dl[g].delivered
  /\ e.type = "Merged" => t \in acc.passed /\ t \notin acc.late /\ e.tree = tip[GoalOf[t]]
  /\ ~flipped' => /\ ~flipped
                  /\ e.type = "VerificationPassed" => ~Red(e.tree)
                  /\ IsGateRejection(e) => Red(e.tree)

\* What becomes of the records.
LEMMA TellsWhat ==
  ASSUME TableOK, acc \in AuditRecord, NEW t \in Ticket, NEW r, NEW e, Tells(t, r, e)
  PROVE  /\ tk'[t] = r /\ \A u \in Ticket : u # t => tk'[u] = tk[u]
         /\ Reads(acc, tk, e, acc')
<1>1. tk' = [tk EXCEPT ![t] = r] /\ acc' = Scan(acc, tk, e) BY DEF Tells
<1>2. EventOK(e) BY GraphAssumption DEF Tells, EventOK
<1>3. Reads(acc, tk, e, acc') BY <1>1, <1>2, ScanReads
<1> QED BY <1>1, <1>3 DEF TableOK

\* The checker finds nothing in an event that is appended when it may be.
LEMMA CheckTold ==
  ASSUME TableOK, acc \in AuditRecord, CheckOK, NEW t \in Ticket, NEW r, NEW e, Tells(t, r, e)
  PROVE  CheckOK'
<1> USE TellsWhat
<1>1. Checked(acc, tk, e, acc') /\ Measured(acc, e, acc') /\ Classified(acc, e, acc')
  BY DEF Reads
<1>2. tk'[t] = r /\ \A u \in Ticket : u # t => tk'[u] = tk[u] OBVIOUS
<1>3. Told(e.type, tk[t], r) /\ e.ticket = t /\ gl' = gl BY DEF Tells
<1>4. /\ acc.merged \subseteq Ticket /\ acc.requested \subseteq Ticket /\ acc.late \subseteq Ticket
  BY DEF AuditRecord
<1> USE DEF CheckOK
<1>5. acc'.found = {} /\ ~acc'.unverified /\ acc'.missing = {}
  <2>1. CASE e.type = "Merged"
    <3>1. t \in acc.passed /\ t \notin acc.late /\ tk[t].status = "proposed"
      BY <1>3, <2>1 DEF Tells, Told
    <3>2. t \notin acc.merged /\ ~(t \in acc.requested /\ t \notin acc.granted) BY <3>1
    <3>3. MergeBreaches(acc, t) = {} BY <3>1, <3>2 DEF MergeBreaches, Breach
    <3> QED BY <1>1, <1>3, <2>1, <3>1, <3>3 DEF Checked, Measured, Classified
  <2>2. CASE e.type # "Merged"
    <3>1. e.type # "Delivered" BY <1>3 DEF Told
    <3> QED BY <1>1, <2>2, <3>1 DEF Checked, Measured, Classified
  <2> QED BY <2>1, <2>2
<1>6. acc'.passed \subseteq acc'.verified BY <1>1 DEF Checked, Classified
<1>7. \A u \in acc'.merged : tk'[u].status = "merged"
  BY <1>1, <1>2, <1>3, <1>4 DEF Checked, Told
<1>8. \A u \in acc'.requested \ acc'.granted : tk'[u].status \in {"awaiting", "failed"}
  <2>1. \A u \in acc'.requested \ acc'.granted : u # t => u \in acc.requested \ acc.granted
    BY <1>1, <1>3 DEF Checked
  <2>2. t \in acc'.requested \ acc'.granted =>
          /\ e.type # "ApprovalGranted"
          /\ e.type = "ApprovalRequested" \/ t \in acc.requested \ acc.granted
    BY <1>1, <1>3 DEF Checked
  <2>3. t \in acc'.requested \ acc'.granted => r.status \in {"awaiting", "failed"}
    BY <1>3, <2>2 DEF Told
  <2> QED BY <1>2, <1>4, <2>1, <2>3
<1>9. acc'.cancelled = {g \in Goal : gl'[g].cancelled}
  BY <1>1, <1>3 DEF Checked, Told
<1>10. \A u \in acc'.late : gl'[GoalOf[u]].cancelled
  BY <1>1, <1>3 DEF Checked, Put, Tells
<1>11. acc'.sent = {g \in Goal : dl'[g].delivered}
  BY <1>1, <1>3 DEF Checked, Told, Tells
<1> QED BY <1>5, <1>6, <1>7, <1>8, <1>9, <1>10, <1>11

\* The last merge it knows of is the tip of the branch, or there is more to come.
LEMMA LastTold ==
  ASSUME TableOK, acc \in AuditRecord, LastOK, NEW t \in Ticket, NEW r, NEW e, Tells(t, r, e)
  PROVE  LastOK'
<1>1. Checked(acc, tk, e, acc') /\ tk'[t] = r /\ \A u \in Ticket : u # t => tk'[u] = tk[u]
  BY TellsWhat DEF Reads
<1>2. Told(e.type, tk[t], r) /\ e.goal = GoalOf[t] /\ tip' = tip BY DEF Tells
<1>3. ASSUME NEW g \in Goal PROVE acc'.last[g] = tip[g] \/ Unfinished(g)'
  <2>1. CASE e.type = "Merged" /\ g = GoalOf[t]
    <3>1. acc'.last = [acc.last EXCEPT ![GoalOf[t]] = e.tree] /\ e.tree = tip[g]
      BY <1>1, <1>2, <2>1 DEF Checked, Tells
    <3>2. acc.last \in [Goal -> SUBSET Tree] BY DEF AuditRecord
    <3> QED BY <2>1, <3>1, <3>2
  <2>2. CASE ~(e.type = "Merged" /\ g = GoalOf[t])
    <3>1. acc.last \in [Goal -> SUBSET Tree] BY DEF AuditRecord
    <3>2. acc'.last[g] = acc.last[g] BY <1>1, <1>2, <2>2, <3>1, GraphAssumption DEF Checked
    <3>3. ASSUME Unfinished(g) PROVE Unfinished(g)'
      <4>1. PICK u \in TasksOf(tk, g) : tk[u].status \notin {"merged", "decomposed"}
        BY <3>3 DEF Unfinished
      <4>2. u \in Ticket /\ tk[u].status # "none" /\ GoalOf[u] = g BY <4>1 DEF TasksOf, Created
      <4>3. tk'[u].status \notin {"none", "merged", "decomposed"}
        <5>1. CASE u # t BY <1>1, <4>1, <4>2, <5>1
        <5>2. CASE u = t
          <6>1. e.type # "Merged" BY <2>2, <4>2, <5>2
          <6>2. r.status \notin {"none", "merged", "decomposed"} BY <1>2, <6>1 DEF Told
          <6> QED BY <1>1, <5>2, <6>2
        <5> QED BY <5>1, <5>2
      <4> QED BY <4>2, <4>3 DEF Unfinished, TasksOf, Created
    <3> QED BY <3>2, <3>3 DEF LastOK
  <2> QED BY <2>1, <2>2
<1> QED BY <1>2, <1>3 DEF LastOK

\* What is in flight and in the queue is what the state says.
LEMMA SeenTold ==
  ASSUME TableOK, acc \in AuditRecord, SeenOK, NEW t \in Ticket, NEW r, NEW e, Tells(t, r, e)
  PROVE  SeenOK'
<1>1. /\ Measured(acc, e, acc') /\ Classified(acc, e, acc') /\ Voided(acc, e, acc')
      /\ tk'[t] = r /\ \A u \in Ticket : u # t => tk'[u] = tk[u]
  BY TellsWhat DEF Reads
<1>2. Told(e.type, tk[t], r) /\ e.ticket = t BY DEF Tells
<1> USE DEF SeenOK
<1>3. acc'.active \cup acc'.running \cup acc'.queued \subseteq Ticket
  BY <1>1, <1>2 DEF Measured, Classified
<1>4. t \in acc'.active \ acc'.voided <=> r.status = "running"
  BY <1>1, <1>2 DEF Measured, Voided, Told, EndsSession
<1>5. t \in acc'.running \ acc'.voided <=> r.status = "running"
  BY <1>1, <1>2 DEF Classified, Voided, Told, EndsAttempt
<1>6. /\ t \in acc'.queued => r.status = "proposed"
      /\ r.status = "proposed" /\ t \notin acc'.queued => r.approved
  BY <1>1, <1>2 DEF Measured, Told, LeavesQueue
<1>7. \A u \in Ticket : u # t => /\ u \in acc'.active <=> u \in acc.active
                                 /\ u \in acc'.queued <=> u \in acc.queued
                                 /\ u \in acc'.running <=> u \in acc.running
                                 /\ u \in acc'.voided <=> u \in acc.voided
  BY <1>1, <1>2 DEF Measured, Classified, Voided
<1> QED BY <1>1, <1>3, <1>4, <1>5, <1>6, <1>7

\* The Gate is not called flaky when it is not.
LEMMA JudgedTold ==
  ASSUME TableOK, acc \in AuditRecord, JudgedOK, NEW t \in Ticket, NEW r, NEW e, Tells(t, r, e)
  PROVE  JudgedOK'
<1>1. Classified(acc, e, acc') BY TellsWhat DEF Reads
<1> QED BY <1>1 DEF JudgedOK, Classified, Tells

\* Where the pass judges another ticket, or none.
LEMMA StageTold ==
  ASSUME TableOK, acc \in AuditRecord, StageOK, NEW t \in Ticket, NEW r, NEW e, Tells(t, r, e),
         \/ pc' \notin Judging
         \/ /\ UNCHANGED <<pc, todo, head>> /\ t # Current
            /\ cand'[Current] = cand[Current]
  PROVE  StageOK'
<1>1. Checked(acc, tk, e, acc') BY TellsWhat DEF Reads
<1>2. CASE pc' \notin Judging BY <1>2 DEF StageOK, Judging
<1>3. CASE /\ UNCHANGED <<pc, todo, head>> /\ t # Current
           /\ cand'[Current] = cand[Current]
  <2>1. Current' = Current /\ Candidate' = Candidate BY <1>3 DEF Current, Candidate
  <2>2. e.ticket = t /\ (~flipped' => ~flipped) BY DEF Tells
  <2>3. Current \in acc'.late <=> Current \in acc.late BY <1>1, <1>3, <2>2 DEF Checked, Put
  <2>4. Current \in acc.passed => Current \in acc'.passed BY <1>1, <1>3, <2>2 DEF Checked
  <2> QED BY <1>3, <2>1, <2>2, <2>3, <2>4 DEF StageOK
<1> QED BY <1>2, <1>3

\* All of it together.
LEMMA AccTold ==
  ASSUME TableOK, AccInv, NEW t \in Ticket, NEW r, NEW e, Tells(t, r, e),
         \/ pc' \notin Judging
         \/ /\ UNCHANGED <<pc, todo, head>> /\ t # Current
            /\ cand'[Current] = cand[Current]
  PROVE  AccInv'
<1>1. acc' \in AuditRecord BY TellsWhat DEF Reads, AccInv
<1> QED BY <1>1, CheckTold, LastTold, SeenTold, JudgedTold, StageTold DEF AccInv

\* The fields of an event.
LEMMA EventIs ==
  ASSUME NEW type, NEW t, NEW c
  PROVE  /\ LET e == Event(type, t)
            IN e.type = type /\ e.ticket = t /\ e.goal = GoalOf[t] /\ e.tree = NoTree /\ ~e.judged
         /\ LET e == TreeEvent(type, t, c)
            IN e.type = type /\ e.ticket = t /\ e.goal = GoalOf[t] /\ e.tree = c /\ ~e.judged
         /\ LET e == Judged(type, t, c)
            IN e.type = type /\ e.ticket = t /\ e.goal = GoalOf[t] /\ e.tree = c /\ e.judged
         /\ LET e == GoalEvent(type, t, c)
            IN e.type = type /\ e.ticket = 0 /\ e.goal = t /\ e.tree = c
BY DEF Event, TreeEvent, Judged, GoalEvent

\* An event that says nothing of a tree.
LEMMA PlainTells ==
  ASSUME NEW type, NEW t \in Ticket, NEW r, Told(type, tk[t], r),
         type \notin {"Merged", "VerificationPassed"},
         tk' = [tk EXCEPT ![t] = r], acc' = Scan(acc, tk, Event(type, t)),
         UNCHANGED <<gl, tip, flipped>>, \A g \in Goal : dl'[g].delivered = dl[g].delivered
  PROVE  Tells(t, r, Event(type, t))
<1> DEFINE e == Event(type, t)
<1>1. e.type = type /\ e.ticket = t /\ e.goal = GoalOf[t] /\ e.tree = NoTree /\ ~e.judged
  BY DEF Event
<1> HIDE DEF e
<1>2. ~IsGateRejection(e) BY <1>1 DEF IsGateRejection
<1>3. NoTree \in SUBSET Tree BY DEF NoTree
<1>4. Told(e.type, tk[t], r) /\ acc' = Scan(acc, tk, e) BY <1>1 DEF e
<1>5. ~flipped' => ~flipped OBVIOUS
<1>6. e.type # "Merged" /\ e.type # "VerificationPassed" BY <1>1
<1>7. Tells(t, r, e) BY <1>1, <1>2, <1>3, <1>4, <1>5, <1>6 DEF Tells
<1> QED BY <1>7 DEF e

\* An item of the pass.
LEMMA AccItems ==
  ASSUME WorkInv, AccInv, NEW t \in Ticket,
         FailCancelled(t) \/ Promote(t) \/ FailBlocked(t) \/ RestartStalled(t)
  PROVE  AccInv'
<1> USE DEF Moves, gitVars
<1>0. /\ UNCHANGED <<gl, dl, tip, flipped>> /\ TableOK
  BY DEF FailCancelled, Promote, FailBlocked, RestartStalled, WorkInv
<1>1. CASE FailCancelled(t)
  <2>1. acc' = Scan(acc, tk, Event("TicketFailed", t)) BY <1>1 DEF FailCancelled, Emit
  <2>2. PICK r : /\ tk' = [tk EXCEPT ![t] = r] /\ Told("TicketFailed", tk[t], r)
                 /\ pc' = "cancel"
    BY <1>1, FailCancelledIs DEF Told
  <2>3. Tells(t, r, Event("TicketFailed", t)) BY <1>0, <2>1, <2>2, PlainTells
  <2> QED BY <1>0, <2>2, <2>3, AccTold DEF Judging
<1>2. CASE Promote(t)
  <2>1. acc' = Scan(acc, tk, Event("TicketReady", t)) BY <1>2 DEF Promote, Emit
  <2>2. PICK r : /\ tk' = [tk EXCEPT ![t] = r] /\ Told("TicketReady", tk[t], r)
                 /\ pc' = "promote"
    BY <1>2, PromoteIs DEF Told
  <2>3. Tells(t, r, Event("TicketReady", t)) BY <1>0, <2>1, <2>2, PlainTells
  <2> QED BY <1>0, <2>2, <2>3, AccTold DEF Judging
<1>3. CASE FailBlocked(t)
  <2>1. acc' = Scan(acc, tk, Event("TicketFailed", t)) BY <1>3 DEF FailBlocked, Emit
  <2>2. PICK r : /\ tk' = [tk EXCEPT ![t] = r] /\ Told("TicketFailed", tk[t], r)
                 /\ pc' = "block"
    BY <1>3, FailBlockedIs DEF Told
  <2>3. Tells(t, r, Event("TicketFailed", t)) BY <1>0, <2>1, <2>2, PlainTells
  <2> QED BY <1>0, <2>2, <2>3, AccTold DEF Judging
<1>4. CASE RestartStalled(t)
  <2>1. acc' = Scan(acc, tk, Event("WorkerRestarted", t)) BY <1>4 DEF RestartStalled, Emit
  <2>2. PICK r : /\ tk' = [tk EXCEPT ![t] = r] /\ Told("WorkerRestarted", tk[t], r)
                 /\ pc' = "restart"
    BY <1>4, RestartStalledIs DEF Told
  <2>3. Tells(t, r, Event("WorkerRestarted", t)) BY <1>0, <2>1, <2>2, PlainTells
  <2> QED BY <1>0, <2>2, <2>3, AccTold DEF Judging
<1> QED BY <1>1, <1>2, <1>3, <1>4

\* A goal gets its first task.
LEMMA AccCreates ==
  ASSUME WorkInv, AccInv, NEW g \in Goal, CreateRoot(g) PROVE AccInv'
<1>1. UNCHANGED <<gl, dl, tip, flipped>> /\ TableOK BY DEF CreateRoot, gitVars, WorkInv
<1>2. pc' = "create" BY CreateRootIs
<1>3. PICK t \in Ticket : /\ tk[t].status = "none"
                          /\ tk' = [tk EXCEPT ![t] = TicketCreated(tk[t], t)]
                          /\ acc' = Scan(acc, tk, Event("TicketCreated", t))
                          /\ TicketCreated(tk[t], t).status = "pending"
  BY CreateRootIs
<1>4. PICK r : tk' = [tk EXCEPT ![t] = r] /\ Told("TicketCreated", tk[t], r) BY <1>3 DEF Told
<1>5. Tells(t, r, Event("TicketCreated", t)) BY <1>1, <1>3, <1>4, PlainTells
<1> QED BY <1>1, <1>2, <1>5, AccTold DEF Judging

\* Attempts and people: the pass stays where it is.
LEMMA AccAttempts ==
  ASSUME WorkInv, GitInv, AccInv, NEW t \in Ticket, Attempt(t) \/ Invalidate(t) \/ Decide(t)
  PROVE  AccInv'
<1> USE DEF Moves, gitVars
<1>0. /\ UNCHANGED <<gl, dl, tip, head, flipped, pc, todo>> /\ TableOK
      /\ cand' = cand \/ \E c : cand' = [cand EXCEPT ![t] = c]
  BY DEF Attempt, StartWork, Propose, FailAttempt, Invalidate, Decide, WorkInv, workVars
<1>1. ASSUME NEW r, NEW type, tk[t].status # "proposed",
             tk' = [tk EXCEPT ![t] = r], Told(type, tk[t], r),
             acc' = Scan(acc, tk, Event(type, t)),
             type \in {"WorkStarted", "ProposalSubmitted", "TicketFailed", "WorkerRestarted",
                       "TicketInvalidated", "ApprovalGranted", "ApprovalDenied"}
      PROVE  AccInv'
  <2>1. Tells(t, r, Event(type, t)) BY <1>0, <1>1, PlainTells
  <2>2. CASE pc \in Judging
    <3>1. t # Current /\ Current \in Ticket BY <1>1, <2>2, Away, AtWork, CurrentIs
    <3>2. cand'[Current] = cand[Current] BY <1>0, <3>1 DEF GitInv, GitTypes
    <3> QED BY <1>0, <2>1, <3>1, <3>2, AccTold
  <2>3. CASE pc \notin Judging BY <1>0, <2>1, <2>3, AccTold
  <2> QED BY <2>2, <2>3
<1>2. CASE StartWork(t)
  <2>1. acc' = Scan(acc, tk, Event("WorkStarted", t)) BY <1>2 DEF StartWork, Emit
  <2>2. PICK r : tk' = [tk EXCEPT ![t] = r] /\ tk[t].status = "ready" /\ r.status = "running"
    BY <1>2, StartWorkIs
  <2>3. Told("WorkStarted", tk[t], r) BY <2>2 DEF Told
  <2> QED BY <1>1, <2>1, <2>2, <2>3
<1>3. ASSUME NEW kind, Propose(t, kind) PROVE AccInv'
  <2>1. acc' = Scan(acc, tk, Event("ProposalSubmitted", t)) BY <1>3 DEF Propose, Emit
  <2>2. PICK r : tk' = [tk EXCEPT ![t] = r] /\ tk[t].status = "running" /\ r.status = "proposed"
    BY <1>3, ProposeIs
  <2>3. Told("ProposalSubmitted", tk[t], r) BY <2>2 DEF Told
  <2> QED BY <1>1, <2>1, <2>2, <2>3
<1>4. CASE FailAttempt(t)
  <2>1. PICK r : /\ tk' = [tk EXCEPT ![t] = r] /\ tk[t].status = "running"
                 /\ \/ r.status = "failed" /\ acc' = Scan(acc, tk, Event("TicketFailed", t))
                    \/ r.status = "ready" /\ acc' = Scan(acc, tk, Event("WorkerRestarted", t))
    BY <1>4, FailAttemptIs
  <2>2. /\ r.status = "failed" => Told("TicketFailed", tk[t], r)
        /\ r.status = "ready" => Told("WorkerRestarted", tk[t], r)
    BY <2>1 DEF Told
  <2> QED BY <1>1, <2>1, <2>2
<1>5. CASE Invalidate(t)
  <2>1. acc' = Scan(acc, tk, Event("TicketInvalidated", t)) BY <1>5 DEF Invalidate, Emit
  <2>2. PICK r : tk' = [tk EXCEPT ![t] = r] /\ tk[t].status = "running" /\ r.status = "pending"
    BY <1>5, InvalidateIs
  <2>3. Told("TicketInvalidated", tk[t], r) BY <2>2 DEF Told
  <2> QED BY <1>1, <2>1, <2>2, <2>3
<1>6. CASE Decide(t)
  <2>1. tk[t].status = "awaiting" => ApprovalGranted(tk[t]).approved
    BY <1>0 DEF ApprovalGranted, TableOK, TicketOK, TicketRecord
  <2>2. PICK r : /\ tk' = [tk EXCEPT ![t] = r] /\ tk[t].status = "awaiting"
                 /\ \/ /\ r.status = "proposed" /\ r.approved
                       /\ acc' = Scan(acc, tk, Event("ApprovalGranted", t))
                    \/ r.status = "failed" /\ acc' = Scan(acc, tk, Event("ApprovalDenied", t))
    BY <1>6, <2>1, DecideIs
  <2>3. /\ r.status = "proposed" /\ r.approved => Told("ApprovalGranted", tk[t], r)
        /\ r.status = "failed" => Told("ApprovalDenied", tk[t], r)
    BY <2>2 DEF Told
  <2> QED BY <1>1, <2>2, <2>3
<1> QED BY <1>2, <1>3, <1>4, <1>5, <1>6 DEF Attempt

\* A cancelled goal's ticket is dropped, a rejected one put back or given up.
LEMMA AccReturns ==
  ASSUME WorkInv, GitInv, AccInv, DropCancelled \/ GateFails \/ GateBreaks PROVE AccInv'
<1> USE DEF Moves, gitVars
<1>0. TableOK BY DEF WorkInv
<1>1. CASE DropCancelled
  <2>1. /\ pc = "merge" /\ pc' = pc /\ todo # {} /\ UNCHANGED <<gl, dl, tip, flipped>>
        /\ acc' = Scan(acc, tk, Event("TicketFailed", Current))
    BY <1>1 DEF DropCancelled, Emit
  <2>2. Current \in Ticket /\ tk[Current].status = "proposed" BY <2>1, CurrentIs
  <2>3. PICK r : tk' = [tk EXCEPT ![Current] = r] /\ r.status = "failed" BY <1>1, DropCancelledIs
  <2>4. Told("TicketFailed", tk[Current], r) BY <2>2, <2>3 DEF Told
  <2>5. Tells(Current, r, Event("TicketFailed", Current)) BY <2>1, <2>2, <2>3, <2>4, PlainTells
  <2> QED BY <1>0, <2>1, <2>2, <2>5, AccTold DEF Judging
<1>2. ASSUME NEW type \in {"TicketFailed", "VerificationFailed"}, NEW e, pc = "gate",
             RejectOrFail(type, e), e.type = type, e.ticket = Current, e.goal = GoalOf[Current],
             e.tree \in SUBSET Tree, ~flipped' => ~flipped /\ (IsGateRejection(e) => Red(e.tree))
      PROVE  AccInv'
  <2>1. /\ pc' = "merge" /\ UNCHANGED <<gl, dl, tip>> /\ acc' = Scan(acc, tk, e)
    BY <1>2 DEF RejectOrFail, Emit
  <2>2. Current \in Ticket /\ tk[Current].status = "proposed"
    BY <1>2, AtWork, CurrentIs DEF Judging
  <2>3. PICK r : /\ tk' = [tk EXCEPT ![Current] = r]
                 /\ \/ type = "TicketFailed" /\ r.status = "failed"
                    \/ type = "VerificationFailed" /\ r.status = "ready"
    BY <1>2, RejectOrFailIs
  <2>4. Told(type, tk[Current], r) BY <2>2, <2>3 DEF Told
  <2>5. Tells(Current, r, e) BY <1>2, <2>1, <2>2, <2>3, <2>4 DEF Tells
  <2> QED BY <1>0, <2>1, <2>2, <2>5, AccTold DEF Judging
<1>3. ASSUME pc = "gate" PROVE Candidate \in SUBSET Tree
  <2>1. Current \in Ticket BY <1>3, AtWork, CurrentIs DEF Judging
  <2> QED BY <2>1 DEF GitInv, GitTypes, Candidate, Commit
<1>4. CASE GateFails
  <2>1. PICK type \in {"TicketFailed", "VerificationFailed"} :
          pc = "gate" /\ Verdict(FALSE) /\ RejectOrFail(type, Judged(type, Current, Candidate))
    BY <1>4 DEF GateFails
  <2>2. ~flipped' => ~flipped /\ Red(Candidate) BY <2>1 DEF Verdict
  <2> QED BY <1>2, <1>3, <2>1, <2>2, EventIs
<1>5. CASE GateBreaks
  <2>1. PICK type \in {"TicketFailed", "VerificationFailed"} :
          pc = "gate" /\ RejectOrFail(type, TreeEvent(type, Current, Candidate)) /\ flipped' = flipped
    BY <1>5 DEF GateBreaks
  <2> QED BY <1>2, <1>3, <2>1, EventIs DEF IsGateRejection
<1> QED BY <1>1, <1>4, <1>5

\* The passed tree, and the merge, on the record.
LEMMA AccPasses ==
  ASSUME WorkInv, GitInv, AccInv, NEW e, e = TreeEvent("VerificationPassed", Current, Candidate),
         acc' = Scan(acc, tk, e), tk' = tk, UNCHANGED <<gl, dl, todo, head, tip, cand, flipped>>,
         \/ pc = "park" /\ pc' = pc
         \/ pc = "verified" /\ pc' = "record"
  PROVE  AccInv'
<1>1. pc \in Judging BY DEF Judging
<1>2. Current \in Ticket /\ tk[Current].status = "proposed" BY <1>1, AtWork, CurrentIs
<1>3. /\ e.type = "VerificationPassed" /\ e.ticket = Current /\ e.goal = GoalOf[Current]
      /\ e.tree = Candidate /\ ~e.judged
  BY EventIs
<1>4. Candidate \in SUBSET Tree BY <1>2 DEF GitInv, GitTypes, Candidate, Commit
<1>5. Told(e.type, tk[Current], tk[Current]) BY <1>2, <1>3 DEF Told
<1>6. tk' = [tk EXCEPT ![Current] = tk[Current]] BY <1>2 DEF WorkInv, TableOK
<1>7. ~flipped => ~Red(Candidate) BY DEF AccInv, StageOK
<1>8. ~IsGateRejection(e) BY <1>3 DEF IsGateRejection
<1>9. Tells(Current, tk[Current], e)
  BY <1>3, <1>4, <1>5, <1>6, <1>7, <1>8 DEF Tells
<1> USE DEF WorkInv, AccInv
<1>10. /\ acc' \in AuditRecord /\ Checked(acc, tk, e, acc')
  BY <1>2, <1>9, TellsWhat DEF Reads
<1>11. Current' = Current /\ Candidate' = Candidate BY DEF Current, Candidate
<1>12. StageOK'
  BY <1>3, <1>7, <1>10, <1>11 DEF StageOK, Checked, Judging
<1>13. CheckOK' /\ LastOK' /\ SeenOK' /\ JudgedOK'
  BY <1>2, <1>9, CheckTold, LastTold, SeenTold, JudgedTold
<1> QED BY <1>10, <1>12, <1>13

\* What the queue appends when the Gate passed.
LEMMA AccRecords ==
  ASSUME WorkInv, GitInv, AccInv, Park \/ RecordPass \/ RecordMerge PROVE AccInv'
<1> USE DEF Moves, gitVars, workVars
<1>1. pc \in Judging /\ TableOK BY DEF Park, RecordPass, RecordMerge, Judging, WorkInv
<1>2. Current \in Ticket /\ tk[Current].status = "proposed" BY <1>1, AtWork, CurrentIs
<1>3. CASE Park
  <2>1. UNCHANGED <<gl, dl, head, tip, cand, flipped>> BY <1>3 DEF Park
  <2>2. CASE /\ tk' = tk /\ pc' = pc /\ todo' = todo
             /\ acc' = Scan(acc, tk, TreeEvent("VerificationPassed", Current, Candidate))
    <3>1. pc = "park" BY <1>3 DEF Park
    <3> QED BY <2>1, <2>2, <3>1, AccPasses
  <2>3. ASSUME NEW r, tk' = [tk EXCEPT ![Current] = r], r.status = "awaiting", pc' = "merge",
               acc' = Scan(acc, tk, Event("ApprovalRequested", Current))
        PROVE  AccInv'
    <3>1. Told("ApprovalRequested", tk[Current], r) BY <1>2, <2>3 DEF Told
    <3>2. Tells(Current, r, Event("ApprovalRequested", Current))
      BY <1>2, <2>1, <2>3, <3>1, PlainTells
    <3> QED BY <1>1, <1>2, <2>3, <3>2, AccTold DEF Judging
  <2> QED BY <1>3, <2>2, <2>3, ParkIs
<1>4. CASE RecordPass
  <2>1. /\ UNCHANGED <<gl, dl, head, tip, cand, flipped, todo>> /\ pc = "verified" /\ pc' = "record"
        /\ acc' = Scan(acc, tk, TreeEvent("VerificationPassed", Current, Candidate))
    BY <1>4 DEF RecordPass, Emit
  <2>2. tk' = tk BY <1>4, RecordPassIs
  <2> QED BY <2>1, <2>2, AccPasses
<1>5. CASE RecordMerge
  <2> DEFINE e == TreeEvent("Merged", Current, Candidate)
             r == Merged(tk[Current])
  <2>1. /\ pc = "record" /\ pc' = "merge" /\ UNCHANGED <<gl, head, tip, flipped>>
        /\ acc' = Scan(acc, tk, e)
    BY <1>5 DEF RecordMerge, Emit
  <2>2. /\ tk' = [tk EXCEPT ![Current] = r] /\ r.status = "merged"
        /\ \A g \in Goal : dl'[g].delivered = dl[g].delivered
    BY <1>5, RecordMergeIs DEF Kept
  <2>3. e.type = "Merged" /\ e.ticket = Current /\ e.goal = GoalOf[Current] /\ e.tree = Candidate
        /\ ~e.judged
    BY EventIs
  <2>4. Candidate \in SUBSET Tree BY <1>2 DEF GitInv, GitTypes, Candidate, Commit
  <2>5. Candidate = tip[GoalOf[Current]] BY <2>1 DEF GitInv, TipOK, CurrentGoal
  <2>6. Current \in acc.passed /\ Current \notin acc.late
    BY <2>1 DEF AccInv, StageOK, Judging
  <2> HIDE DEF e, r
  <2>7. Told(e.type, tk[Current], r) BY <1>2, <2>2, <2>3 DEF Told
  <2>8. ~IsGateRejection(e) BY <2>3 DEF IsGateRejection
  <2>9. Tells(Current, r, e)
    BY <2>1, <2>2, <2>3, <2>4, <2>5, <2>6, <2>7, <2>8 DEF Tells
  <2> QED BY <1>1, <1>2, <2>1, <2>9, AccTold DEF Judging
<1> QED BY <1>3, <1>4, <1>5

\* A goal branch moves, and its goal has a proposed ticket.
LEMMA AccUpdates ==
  ASSUME WorkInv, GitInv, AccInv, UpdateRef PROVE AccInv'
<1>1. UNCHANGED <<tk, gl, dl, acc, todo, head, cand, flipped>> /\ pc = "update" /\ pc' = "verified"
  BY DEF UpdateRef, logVars, workVars
<1>2. /\ \A g \in Goal : g # CurrentGoal => tip'[g] = tip[g]
      /\ tk[Current].status = "proposed" /\ Current \in Ticket
  BY GitUpdates
<1>3. Unfinished(CurrentGoal) BY <1>2 DEF Unfinished, TasksOf, Created, CurrentGoal
<1>4. LastOK'
  <2>1. ASSUME NEW g \in Goal PROVE acc.last[g] = tip'[g] \/ Unfinished(g)
    BY <1>2, <1>3 DEF AccInv, LastOK
  <2> QED BY <1>1, <2>1 DEF LastOK, Unfinished
<1>5. Current' = Current /\ Candidate' = Candidate BY <1>1 DEF Current, Candidate
<1>6. StageOK' BY <1>1, <1>5 DEF AccInv, StageOK, Judging
<1> QED BY <1>1, <1>4, <1>6 DEF AccInv, CheckOK, SeenOK, JudgedOK

\* Nothing is appended and no branch moves.
LEMMA AccSilent ==
  ASSUME AccInv, UNCHANGED <<tk, gl, dl, acc, tip>>, ~flipped' => ~flipped, StageOK'
  PROVE  AccInv'
BY DEF AccInv, CheckOK, LastOK, Unfinished, SeenOK, JudgedOK

\* The steps that append nothing.
LEMMA AccOthers ==
  ASSUME WorkInv, GitInv, AccInv,
         \/ StartRun \/ Turn \/ EndPass \/ Detach \/ GatePasses \/ Deliver \/ Push \/ OpenPR
         \/ RunFails \/ Crash
         \/ \E t \in Ticket : Launch(t)
  PROVE  AccInv'
<1> USE DEF logVars, gitVars, workVars
<1>1. CASE StartRun \/ Turn \/ EndPass
  <2>1. UNCHANGED <<tk, gl, dl>> /\ pc' \notin Judging BY <1>1, TurnIs DEF Phase, Judging
  <2>2. UNCHANGED <<acc, tip, flipped>> BY <1>1 DEF StartRun, Turn, EndPass
  <2>3. StageOK' BY <2>1 DEF StageOK, Judging
  <2> QED BY <2>1, <2>2, <2>3, AccSilent
<1>2. CASE Detach
  <2>1. /\ UNCHANGED <<tk, gl, dl, acc, tip, flipped, todo>> /\ pc = "merge" /\ pc' = "gate"
        /\ todo # {} /\ ~gl[CurrentGoal].cancelled
    BY <1>2 DEF Detach
  <2>2. Current \notin acc.late
    <3>1. \A t \in acc.late : gl[GoalOf[t]].cancelled BY DEF AccInv, CheckOK
    <3> QED BY <2>1, <3>1 DEF CurrentGoal
  <2>3. Current' = Current BY <2>1 DEF Current
  <2>4. StageOK' BY <2>1, <2>2, <2>3 DEF StageOK
  <2> QED BY <2>1, <2>4, AccSilent
<1>3. CASE GatePasses
  <2>1. /\ UNCHANGED <<tk, gl, dl, acc, tip, todo, head, cand>> /\ pc = "gate"
        /\ pc' \in {"park", "update"} /\ Verdict(TRUE)
    BY <1>3 DEF GatePasses
  <2>2. ~flipped' => ~flipped /\ ~Red(Candidate) BY <2>1 DEF Verdict
  <2>3. Current' = Current /\ Candidate' = Candidate BY <2>1 DEF Current, Candidate
  <2>4. StageOK' BY <2>1, <2>2, <2>3 DEF AccInv, StageOK, Judging
  <2> QED BY <2>1, <2>2, <2>4, AccSilent
<1>4. CASE Deliver \/ Push \/ OpenPR
  <2>1. UNCHANGED <<tk, gl, dl, acc, tip, flipped>> /\ pc' \notin Judging
    BY <1>4 DEF Deliver, Push, OpenPR, Judging
  <2>2. StageOK' BY <2>1 DEF StageOK, Judging
  <2> QED BY <2>1, <2>2, AccSilent
<1>5. CASE RunFails \/ Crash
  <2>1. UNCHANGED <<tk, gl, dl, acc, tip, flipped>> /\ pc' \notin Judging
    BY <1>5 DEF RunFails, Crash, Judging
  <2>2. StageOK' BY <2>1 DEF StageOK, Judging
  <2> QED BY <2>1, <2>2, AccSilent
<1>6. ASSUME NEW t \in Ticket, Launch(t) PROVE AccInv'
  <2>1. UNCHANGED <<tk, gl, dl, acc, tip, flipped>> BY <1>6 DEF Launch
  <2>2. pc' = "launch" BY <1>6, LaunchIs
  <2>3. StageOK' BY <2>2 DEF StageOK, Judging
  <2> QED BY <2>1, <2>3, AccSilent
<1> QED BY <1>1, <1>2, <1>3, <1>4, <1>5, <1>6

\* The work of a complete goal is finished.
LEMMA CompleteFinished ==
  ASSUME NEW g \in Goal, GoalComplete(tk, g) PROVE ~Unfinished(g)
<1>1. \A t \in TasksOf(tk, g) : t \in Ticket /\ TicketComplete(tk)[t]
  BY DEF GoalComplete, TasksOf, Created
<1>2. \A t \in TasksOf(tk, g) : tk[t].status \in {"merged", "decomposed"}
  BY <1>1, CompleteIs
<1> QED BY <1>2 DEF Unfinished

\* The checker knows what became of the goals.
GoalsAgree ==
  /\ acc.cancelled = {g \in Goal : gl[g].cancelled}
  /\ acc.sent = {g \in Goal : dl[g].delivered}

\* An event on a goal that is not merged: what the readers of tickets hold stays.
LEMMA GoalReads ==
  ASSUME AccInv, NEW e, e.ticket = 0, e.goal \in Goal, e.tree \in SUBSET Tree,
         e.type \in {"GoalCancelled", "Delivered", "DeliveryFailed"},
         acc' = Scan(acc, tk, e), UNCHANGED <<tk, tip, flipped>>
  PROVE  /\ acc' \in AuditRecord /\ Checked(acc, tk, e, acc') /\ acc'.late = acc.late
         /\ LastOK' /\ SeenOK' /\ JudgedOK'
         /\ acc'.passed = acc.passed
         /\ (/\ e.type = "Delivered" => DeliveryBreaches(acc, tk, e) = {}
             /\ GoalsAgree' /\ \A g \in Goal : gl[g].cancelled => gl'[g].cancelled) => CheckOK'
<1>1. EventOK(e) BY DEF EventOK
<1>2. Reads(acc, tk, e, acc') BY <1>1, ScanReads DEF AccInv
<1>3. acc' \in AuditRecord /\ Checked(acc, tk, e, acc') BY <1>2 DEF Reads
<1>4. /\ acc'.passed = acc.passed /\ acc'.late = acc.late /\ acc'.last = acc.last
      /\ acc'.merged = acc.merged /\ acc'.requested = acc.requested /\ acc'.granted = acc.granted
  BY <1>3 DEF Checked
<1>5. acc'.active = acc.active /\ acc'.queued = acc.queued /\ acc'.unverified = acc.unverified
  BY <1>2 DEF Reads, Measured, EndsSession, LeavesQueue, AccInv, AuditRecord
<1>6. /\ acc'.running = acc.running /\ acc'.verified = acc.verified /\ acc'.missing = acc.missing
      /\ acc'.passedTrees = acc.passedTrees /\ acc'.failedTrees = acc.failedTrees
      /\ acc'.voided = acc.voided
  BY <1>2 DEF Reads, Classified, Voided, EndsAttempt, IsGateRejection, Rejects
<1>7. LastOK' BY <1>4 DEF AccInv, LastOK, Unfinished
<1>8. SeenOK' BY <1>5, <1>6 DEF AccInv, SeenOK
<1>9. JudgedOK' BY <1>6 DEF AccInv, JudgedOK
<1>10. ASSUME e.type = "Delivered" => DeliveryBreaches(acc, tk, e) = {},
              GoalsAgree', \A g \in Goal : gl[g].cancelled => gl'[g].cancelled
       PROVE  CheckOK'
  <2>1. acc'.found = {} BY <1>3, <1>10 DEF Checked, AccInv, CheckOK
  <2>2. \A t \in acc'.late : gl'[GoalOf[t]].cancelled
    BY <1>4, <1>10, GraphAssumption DEF AccInv, CheckOK, AuditRecord
  <2> QED BY <1>4, <1>5, <1>6, <1>10, <2>1, <2>2 DEF AccInv, CheckOK, GoalsAgree
<1> QED BY <1>3, <1>4, <1>7, <1>8, <1>9, <1>10

\* A cancel.
LEMMA AccCancels ==
  ASSUME WorkInv, AccInv, NEW g \in Goal, Cancel(g) PROVE AccInv'
<1> DEFINE e == GoalEvent("GoalCancelled", g, NoTree)
<1>1. /\ acc' = Scan(acc, tk, e) /\ UNCHANGED <<tk, dl, pc, todo, tip, flipped, head, cand>>
  BY DEF Cancel, gitVars, workVars
<1>2. gl' = [gl EXCEPT ![g].cancelled = TRUE] BY CancelIs
<1>3. e.type = "GoalCancelled" /\ e.ticket = 0 /\ e.goal = g /\ e.tree = NoTree BY EventIs
<1>4. e.tree \in SUBSET Tree BY <1>3 DEF NoTree
<1> HIDE DEF e
<1>5. /\ acc' \in AuditRecord /\ Checked(acc, tk, e, acc') /\ acc'.late = acc.late
      /\ LastOK' /\ SeenOK' /\ JudgedOK' /\ acc'.passed = acc.passed
  BY <1>1, <1>3, <1>4, GoalReads
<1>6. \A h \in Goal : gl'[h].cancelled <=> h = g \/ gl[h].cancelled
  BY <1>2 DEF WorkInv, TableOK, GoalRecord
<1>7. acc'.cancelled = {h \in Goal : gl'[h].cancelled}
  <2>1. acc'.cancelled = acc.cancelled \cup {g} BY <1>3, <1>5 DEF Checked
  <2> QED BY <1>6, <2>1 DEF AccInv, CheckOK
<1>8. acc'.sent = {h \in Goal : dl'[h].delivered}
  BY <1>1, <1>3, <1>5 DEF Checked, AccInv, CheckOK
<1>9. GoalsAgree' BY <1>7, <1>8 DEF GoalsAgree
<1>10. CheckOK' BY <1>1, <1>3, <1>4, <1>6, <1>9, GoalReads
<1>11. StageOK'
  BY <1>1, <1>5 DEF AccInv, StageOK, Current, Candidate
<1> QED BY <1>5, <1>10, <1>11 DEF AccInv

\* A delivery on the record, or one that failed.
LEMMA AccSends ==
  ASSUME WorkInv, GitInv, AccInv, DeliveryFails \/ RecordDelivery PROVE AccInv'
<1> DEFINE g == First(todo)
<1>1. pc \in Sending BY DEF DeliveryFails, RecordDelivery, Sending
<1>2. g \in Goal /\ GoalComplete(tk, g) /\ ~dl[g].delivered BY <1>1, AtWork, SentIs
<1>3. UNCHANGED <<tk, gl, tip, flipped>> /\ pc' = "deliver"
  BY SentStep DEF DeliveryFails, RecordDelivery, gitVars
<1>4. StageOK' BY <1>3 DEF StageOK, Judging
<1>5. dl \in [Goal -> DeliveryRecord] BY DEF WorkInv, TableOK
<1>6. CASE DeliveryFails
  <2> DEFINE e == GoalEvent("DeliveryFailed", g, NoTree)
  <2>1. acc' = Scan(acc, tk, e) /\ dl' = [dl EXCEPT ![g] = DeliveryFailed(dl[g])]
    BY <1>6 DEF DeliveryFails, EmitGoal
  <2>2. e.type = "DeliveryFailed" /\ e.ticket = 0 /\ e.goal = g /\ e.tree = NoTree BY EventIs
  <2>3. e.tree \in SUBSET Tree BY <2>2 DEF NoTree
  <2> HIDE DEF e, g
  <2>4. \A h \in Goal : dl'[h].delivered = dl[h].delivered
    BY <1>2, <1>5, <2>1 DEF DeliveryFailed, DeliveryRecord
  <2>5. /\ acc' \in AuditRecord /\ Checked(acc, tk, e, acc')
        /\ LastOK' /\ SeenOK' /\ JudgedOK'
    BY <1>2, <1>3, <2>1, <2>2, <2>3, GoalReads
  <2>6. GoalsAgree' BY <1>3, <2>2, <2>4, <2>5 DEF Checked, AccInv, CheckOK, GoalsAgree
  <2>7. CheckOK' BY <1>2, <1>3, <2>1, <2>2, <2>3, <2>6, GoalReads
  <2> QED BY <1>4, <2>5, <2>7 DEF AccInv
<1>7. CASE RecordDelivery
  <2> DEFINE e == GoalEvent("Delivered", g, tip[g])
  <2>1. acc' = Scan(acc, tk, e) /\ dl' = [dl EXCEPT ![g] = Delivered(dl[g], TRUE)]
    BY <1>7 DEF RecordDelivery, EmitGoal
  <2>2. e.type = "Delivered" /\ e.ticket = 0 /\ e.goal = g /\ e.tree = tip[g] BY EventIs
  <2>3. e.tree \in SUBSET Tree BY <1>2, <2>2 DEF GitInv, GitTypes, Commit
  <2> HIDE DEF e, g
  <2>4. \A h \in Goal : dl'[h].delivered <=> h = g \/ dl[h].delivered
    BY <1>2, <1>5, <2>1 DEF Delivered, DeliveryRecord
  <2>5. DeliveryBreaches(acc, tk, e) = {}
    <3>1. g \notin acc.sent BY <1>2 DEF AccInv, CheckOK
    <3>2. acc.last[g] = tip[g] BY <1>2, CompleteFinished DEF AccInv, LastOK
    <3> QED BY <1>2, <2>2, <3>1, <3>2 DEF DeliveryBreaches, Breach
  <2>6. /\ acc' \in AuditRecord /\ Checked(acc, tk, e, acc')
        /\ LastOK' /\ SeenOK' /\ JudgedOK'
    BY <1>2, <1>3, <2>1, <2>2, <2>3, GoalReads
  <2>7. acc'.cancelled = {h \in Goal : gl'[h].cancelled}
    BY <1>3, <2>2, <2>6 DEF Checked, AccInv, CheckOK
  <2>8. acc'.sent = {h \in Goal : dl'[h].delivered}
    <3>1. acc'.sent = acc.sent \cup {g} BY <2>2, <2>6 DEF Checked
    <3> QED BY <1>2, <2>4, <3>1 DEF AccInv, CheckOK
  <2>9. GoalsAgree' BY <2>7, <2>8 DEF GoalsAgree
  <2>10. CheckOK' BY <1>2, <1>3, <2>1, <2>2, <2>3, <2>5, <2>9, GoalReads
  <2> QED BY <1>4, <2>6, <2>10 DEF AccInv
<1> QED BY <1>6, <1>7

\* The readers start with nothing read.
LEMMA AccStart == Init => AccInv
<1> SUFFICES ASSUME Init PROVE AccInv OBVIOUS
<1>1. acc = NothingRead /\ flipped = FALSE /\ pc = "off" /\ tip = [g \in Goal |-> {}] BY DEF Init
<1>2. \A t \in Ticket : tk[t].status \in {"none", "pending", "decomposed"}
  BY DEF Init, NoTicket, TicketCreated, TicketDecomposed, WorkStarted, TicketClaimed, TicketReady
<1>3. \A g \in Goal : ~gl[g].cancelled /\ ~dl[g].delivered
  BY DEF Init, NoGoal, GoalSubmitted, NoDelivery
<1>4. acc \in AuditRecord BY <1>1 DEF NothingRead, AuditRecord, NoTree
<1>5. CheckOK BY <1>1, <1>3 DEF CheckOK, NothingRead
<1>6. LastOK BY <1>1 DEF LastOK, NothingRead, NoTree
<1>7. SeenOK BY <1>1, <1>2 DEF SeenOK, NothingRead
<1>8. JudgedOK BY <1>1 DEF JudgedOK, NothingRead
<1>9. StageOK BY <1>1 DEF StageOK, Judging
<1> QED BY <1>4, <1>5, <1>6, <1>7, <1>8, <1>9 DEF AccInv

\* Every step keeps the readers in agreement with the state.
LEMMA AccKept == WorkInv /\ GitInv /\ AccInv /\ [Next]_vars => AccInv'
<1> SUFFICES ASSUME WorkInv, GitInv, AccInv, [Next]_vars PROVE AccInv' OBVIOUS
<1>1. CASE UNCHANGED vars
  BY <1>1 DEF vars, logVars, runVars, workVars, gitVars, AccInv, CheckOK, LastOK, Unfinished,
              SeenOK, JudgedOK, StageOK, Candidate, Current
<1>2. CASE Next
  BY <1>2, AccItems, AccCreates, AccAttempts, AccReturns, AccRecords, AccUpdates, AccOthers,
     AccCancels, AccSends DEF Next, Reconcile
<1> QED BY <1>1, <1>2

-----------------------------------------------------------------------------
(* What is true of every run *)

\* The parts of the invariant hold together.
LEMMA AllAlong == Spec => [](WorkInv /\ GitInv /\ AccInv)
<1>1. Init => WorkInv /\ GitInv /\ AccInv BY WorkStart, GitStart, AccStart
<1>2. WorkInv /\ GitInv /\ AccInv /\ [Next]_vars => (WorkInv /\ GitInv /\ AccInv)'
  BY WorkKept, GitKept, AccKept
<1> QED BY <1>1, <1>2, PTL DEF Spec

\* The repository's own checker finds nothing in any log the pass writes.
THEOREM CheckerFindsNothing == Spec => []CheckerClean
<1>1. AccInv => CheckerClean BY DEF AccInv, CheckOK, CheckerClean
<1> QED BY <1>1, AllAlong, PTL

\* The branch of a goal, the remote and the log agree.
THEOREM BranchesTrue == Spec => []BranchTruth
<1>1. ASSUME WorkInv, GitInv, AccInv PROVE BranchTruth
  <2>1. ASSUME NEW g \in Goal
        PROVE  /\ tip[g] \in gated[g]
               /\ \A t \in Ticket : GoalOf[t] = g /\ tk[t].status = "merged" =>
                    \E x \in tip[g] : x[1] = t
               /\ \A x \in tip[g] : GoalOf[x[1]] = g
               /\ \A t \in TasksOf(tk, g) : base[t] \subseteq tip[g]
               /\ g \in pushed => GoalComplete(tk, g) /\ remote[g] = tip[g]
    BY <1>1 DEF GitInv, CandOK, TipOK, SentOK, Holds, Whole, TasksOf, Created
  <2>2. ASSUME NEW g \in Goal, dl[g].delivered PROVE g \in pushed /\ remote[g] = acc.last[g]
    <3>1. g \in pushed /\ GoalComplete(tk, g) /\ remote[g] = tip[g]
      BY <1>1, <2>2 DEF GitInv, SentOK
    <3> QED BY <1>1, <3>1, CompleteFinished DEF AccInv, LastOK
  <2> QED BY <2>1, <2>2 DEF BranchTruth
<1> QED BY <1>1, AllAlong, PTL

\* Metrics, diagnosis and checker agree with the state and with each other.
THEOREM ReadersAgree == Spec => []ReportsAgree
<1>1. ASSUME WorkInv, AccInv PROVE ReportsAgree
  <2>1. /\ acc.active \subseteq Ticket /\ acc.running \subseteq Ticket /\ acc.queued \subseteq Ticket
    BY <1>1 DEF AccInv, AuditRecord
  <2>2. /\ acc.active \ acc.voided = {t \in Ticket : tk[t].status = "running"}
        /\ acc.running \ acc.voided = {t \in Ticket : tk[t].status = "running"}
    BY <1>1, <2>1 DEF AccInv, SeenOK
  <2>3. /\ acc.queued \subseteq Proposed(tk)
        /\ \A t \in Proposed(tk) \ acc.queued : tk[t].approved
    BY <1>1, <2>1 DEF AccInv, SeenOK, Proposed
  <2>4. ~acc.unverified /\ acc.missing = {} BY <1>1 DEF AccInv, CheckOK
  <2>5. FlakyTrees(acc) # {} => flipped BY <1>1 DEF AccInv, JudgedOK, FlakyTrees
  <2>6. SettledLog(tk, gl) => Starved(tk) = {} /\ Deadlocked(tk) = {}
    BY DEF SettledLog, WorkSettled, Starved, Deadlocked, Terminal
  <2> QED BY <2>2, <2>3, <2>4, <2>5, <2>6 DEF ReportsAgree
<1> QED BY <1>1, AllAlong, PTL

-----------------------------------------------------------------------------
(* Answers that stay *)

\* Where the tickets of a goal stand as they stood, they are complete or dead as
\* they were: whatever they were split into is of the same goal.
LEMMA SameWork ==
  ASSUME NEW old, NEW new, NEW g,
         \A t \in Ticket : GoalOf[t] = g => new[t].status = old[t].status
  PROVE  \A t \in Ticket : GoalOf[t] = g =>
           /\ TicketComplete(new)[t] = TicketComplete(old)[t]
           /\ TicketDead(new)[t] = TicketDead(old)[t]
<1> DEFINE C == TicketComplete(old)
           D == TicketComplete(new)
           F == TicketDead(old)
           H == TicketDead(new)
           S == {t \in Ticket : GoalOf[t] = g /\ ~((C[t] <=> D[t]) /\ (F[t] <=> H[t]))}
<1>1. \A t \in Ticket : /\ C[t] \in BOOLEAN
                        /\ C[t] <=> \/ old[t].status = "merged"
                                    \/ old[t].status = "decomposed" /\ \A u \in Kids[t] : C[u]
  BY CompleteIs
<1>2. \A t \in Ticket : /\ D[t] \in BOOLEAN
                        /\ D[t] <=> \/ new[t].status = "merged"
                                    \/ new[t].status = "decomposed" /\ \A u \in Kids[t] : D[u]
  BY CompleteIs
<1>3. \A t \in Ticket : /\ F[t] \in BOOLEAN
                        /\ F[t] <=> \/ old[t].status = "failed"
                                    \/ old[t].status = "decomposed" /\ \E u \in Kids[t] : F[u]
  BY DeadIs
<1>4. \A t \in Ticket : /\ H[t] \in BOOLEAN
                        /\ H[t] <=> \/ new[t].status = "failed"
                                    \/ new[t].status = "decomposed" /\ \E u \in Kids[t] : H[u]
  BY DeadIs
<1> HIDE DEF C, D, F, H
<1>5. S = {}
  <2> SUFFICES ASSUME S # {} PROVE FALSE OBVIOUS
  <2>1. PICK t \in S : \A u \in S : u <= t
    <3>1. S \subseteq Ticket OBVIOUS
    <3> HIDE DEF S
    <3> QED BY <3>1, LastTicket
  <2>2. t \in Ticket /\ GoalOf[t] = g /\ new[t].status = old[t].status OBVIOUS
  <2>3. ASSUME NEW u \in Kids[t] PROVE (C[u] <=> D[u]) /\ (F[u] <=> H[u])
    <3>1. u \in Ticket /\ t < u /\ GoalOf[u] = g BY <2>2, GraphAssumption
    <3>2. u \notin S
      <4> SUFFICES ASSUME u \in S PROVE FALSE OBVIOUS
      <4>1. u <= t BY <2>1
      <4> QED BY <2>2, <3>1, <4>1, GraphAssumption DEF Ticket
    <3> QED BY <3>1, <3>2
  <2>4. C[t] <=> D[t] BY <1>1, <1>2, <2>2, <2>3
  <2>5. F[t] <=> H[t] BY <1>3, <1>4, <2>2, <2>3
  <2> QED BY <2>4, <2>5
<1>6. \A t \in Ticket : GoalOf[t] = g => (C[t] <=> D[t]) /\ (F[t] <=> H[t]) BY <1>5
<1> QED BY <1>1, <1>2, <1>3, <1>4, <1>6 DEF C, D, F, H

\* What no step does to a goal: start finished work again or add to it, cancel it
\* when it is settled, or put an undelivered one on the way.
Steady(g) ==
  /\ TasksOf(tk, g) # {} =>
       \A t \in Ticket : GoalOf[t] = g /\ tk[t].status \in Terminal \cup {"none"} =>
         tk'[t].status = tk[t].status
  /\ gl'[g].over = gl[g].over
  /\ gl[g].cancelled => gl'[g].cancelled
  /\ gl'[g].cancelled => gl[g].cancelled \/ Cancels(tk, gl, dl, g)
  /\ dl[g].delivered => dl'[g].delivered
  /\ dl'[g].delivered => dl[g].delivered \/ (GoalComplete(tk, g) /\ dl[g].branch)
  /\ dl'[g].branch = dl[g].branch \/ \E t \in TasksOf(tk, g) : tk[t].status = "proposed"

\* An event on a ticket.
LEMMA SteadyMove ==
  ASSUME WorkInv, NEW t \in Ticket, NEW r, NEW f, Moves(t, r, f),
         tk[t].status = "failed" => r.status = "failed", gl' = gl,
         \/ dl' = dl
         \/ /\ tk[t].status = "proposed"
            /\ \A g \in Goal : dl'[g].delivered = dl[g].delivered
            /\ \A g \in Goal : g # GoalOf[t] => dl'[g] = dl[g],
         NEW g \in Goal
  PROVE  Steady(g)
<1>1. /\ tk'[t] = r /\ \A u \in Ticket : u # t => tk'[u] = tk[u] BY MoveTicket
<1>2. ASSUME NEW u \in Ticket, tk[u].status \in Terminal \cup {"none"}
      PROVE  tk'[u].status = tk[u].status
  BY <1>1, <1>2 DEF Moves, Terminal
<1>3. dl'[g].branch = dl[g].branch \/ \E u \in TasksOf(tk, g) : tk[u].status = "proposed"
  BY DEF TasksOf, Created
<1> QED BY <1>2, <1>3 DEF Steady

\* The items of a pass, attempts and people.
LEMMA SteadyItems ==
  ASSUME WorkInv, NEW t \in Ticket, NEW g \in Goal,
         \/ FailCancelled(t) \/ Promote(t) \/ FailBlocked(t) \/ RestartStalled(t)
         \/ Attempt(t) \/ Invalidate(t) \/ Decide(t)
  PROVE  Steady(g)
<1>1. UNCHANGED <<gl, dl>>
  BY DEF FailCancelled, Promote, FailBlocked, RestartStalled, Attempt, StartWork, Propose,
         FailAttempt, Invalidate, Decide
<1>2. \E r, f : Moves(t, r, f) /\ (tk[t].status = "failed" => r.status = "failed")
  <2>1. CASE FailCancelled(t) BY <2>1, FailCancelledIs
  <2>2. CASE Promote(t) BY <2>2, PromoteIs
  <2>3. CASE FailBlocked(t) BY <2>3, FailBlockedIs
  <2>4. CASE RestartStalled(t) BY <2>4, RestartStalledIs
  <2>5. CASE StartWork(t) BY <2>5, StartWorkIs
  <2>6. ASSUME NEW kind, Propose(t, kind)
        PROVE  \E r, f : Moves(t, r, f) /\ (tk[t].status = "failed" => r.status = "failed")
    BY <2>6, ProposeIs
  <2>7. CASE FailAttempt(t) BY <2>7, FailAttemptIs
  <2>8. CASE Invalidate(t) BY <2>8, InvalidateIs
  <2>9. CASE Decide(t) BY <2>9, DecideIs
  <2> QED BY <2>1, <2>2, <2>3, <2>4, <2>5, <2>6, <2>7, <2>8, <2>9 DEF Attempt
<1> QED BY <1>1, <1>2, SteadyMove

\* The queue.
LEMMA SteadyQueue ==
  ASSUME WorkInv, NEW g \in Goal,
         DropCancelled \/ GateFails \/ GateBreaks \/ Park \/ RecordPass \/ RecordMerge
  PROVE  Steady(g)
<1>1. todo # {} /\ pc \in Judging \cup {"merge"}
  <2>1. DropCancelled \/ pc \in Judging
    BY DEF GateFails, GateBreaks, Park, RecordPass, RecordMerge, Judging
  <2> QED BY <2>1, AtWork DEF DropCancelled
<1>2. Current \in Ticket /\ tk[Current].status = "proposed" BY <1>1, CurrentIs
<1>3. gl' = gl
  BY DEF DropCancelled, GateFails, GateBreaks, RejectOrFail, Park, RecordPass, RecordMerge
<1>4. CASE RecordMerge
  <2>1. Moves(Current, Merged(tk[Current]), flight[Current]) /\ Kept(dl, dl') BY <1>4, RecordMergeIs
  <2>2. dl' = [dl EXCEPT ![CurrentGoal] = MergedOnBranch(dl[CurrentGoal])] BY <1>4 DEF RecordMerge
  <2>3. \A h \in Goal : h # GoalOf[Current] => dl'[h] = dl[h]
    BY <2>2 DEF CurrentGoal, WorkInv, TableOK
  <2> QED BY <1>2, <1>3, <2>1, <2>3, SteadyMove DEF Kept
<1>5. CASE DropCancelled \/ GateFails \/ GateBreaks \/ Park \/ RecordPass
  <2>1. dl' = dl BY <1>5 DEF DropCancelled, GateFails, GateBreaks, RejectOrFail, Park, RecordPass
  <2>2. tk' = tk \/ \E r, f : Moves(Current, r, f)
    <3>1. CASE DropCancelled BY <3>1, DropCancelledIs
    <3>2. CASE GateFails \/ GateBreaks
      <4>1. PICK type \in {"TicketFailed", "VerificationFailed"} : \E e :
              pc = "gate" /\ RejectOrFail(type, e)
        BY <3>2 DEF GateFails, GateBreaks
      <4> QED BY <4>1, RejectOrFailIs
    <3>3. CASE Park BY <3>3, ParkIs
    <3>4. CASE RecordPass BY <3>4, RecordPassIs
    <3> QED BY <1>5, <3>1, <3>2, <3>3, <3>4
  <2>3. CASE tk' = tk BY <1>3, <2>1, <2>3 DEF Steady
  <2>4. CASE tk' # tk BY <1>2, <1>3, <2>1, <2>2, <2>4, SteadyMove
  <2> QED BY <2>3, <2>4
<1> QED BY <1>4, <1>5

\* The steps that append nothing.
LEMMA SteadyOthers ==
  ASSUME WorkInv, NEW g \in Goal,
         \/ StartRun \/ Turn \/ EndPass \/ Detach \/ GatePasses \/ UpdateRef
         \/ Deliver \/ Push \/ OpenPR \/ RunFails \/ Crash \/ \E t \in Ticket : Launch(t)
         \/ UNCHANGED vars
  PROVE  Steady(g)
<1>1. UNCHANGED <<tk, gl, dl>> BY TurnIs, SilentIs, StopIs, LaunchIs DEF vars, logVars
<1> QED BY <1>1 DEF Steady

\* The events on goals, and a task that is created.
LEMMA SteadyGoals ==
  ASSUME WorkInv, NEW g \in Goal, NEW h \in Goal,
         CreateRoot(h) \/ Cancel(h) \/ DeliveryFails \/ RecordDelivery
  PROVE  Steady(g)
<1>0. TableOK BY DEF WorkInv
<1>1. CASE CreateRoot(h)
  <2>1. UNCHANGED <<gl, dl>> BY <1>1 DEF CreateRoot
  <2>2. TasksOf(tk, h) = {} BY <1>1, CreateRootIs
  <2>3. PICK t \in Ticket : GoalOf[t] = h /\ tk' = [tk EXCEPT ![t] = TicketCreated(tk[t], t)]
    BY <1>1, CreateRootIs
  <2>4. \A u \in Ticket : u # t => tk'[u] = tk[u] BY <1>0, <2>3 DEF TableOK
  <2> QED BY <2>1, <2>2, <2>3, <2>4 DEF Steady
<1>2. CASE Cancel(h)
  <2>1. UNCHANGED <<tk, dl>> /\ gl' = [gl EXCEPT ![h].cancelled = TRUE] BY <1>2, CancelIs
  <2>2. Cancels(tk, gl, dl, h) BY <1>2 DEF Cancel
  <2>3. /\ gl'[g].over = gl[g].over /\ (gl[g].cancelled => gl'[g].cancelled)
        /\ g # h => gl'[g] = gl[g]
    BY <1>0, <2>1 DEF TableOK, GoalRecord
  <2> QED BY <2>1, <2>2, <2>3 DEF Steady
<1>3. CASE DeliveryFails \/ RecordDelivery
  <2>1. UNCHANGED <<tk, gl>> /\ dl'[g].branch = dl[g].branch /\ (g # First(todo) => dl'[g] = dl[g])
    BY <1>3, SentStep
  <2>2. pc \in Sending BY <1>3 DEF DeliveryFails, RecordDelivery, Sending
  <2>3. g = First(todo) => GoalComplete(tk, g) /\ dl[g].branch /\ ~dl[g].delivered
    BY <2>2, AtWork, SentIs
  <2> QED BY <2>1, <2>3 DEF Steady
<1> QED BY <1>1, <1>2, <1>3

\* Every step.
LEMMA SteadyStep ==
  ASSUME WorkInv, [Next]_vars, NEW g \in Goal PROVE Steady(g)
BY SteadyItems, SteadyQueue, SteadyOthers, SteadyGoals DEF Next, Reconcile

\* An answer once given.
LEMMA AnswerStays ==
  ASSUME NEW g \in Goal, Steady(g), GoalDone(GoalConditions(tk, gl, dl, g))
  PROVE  /\ Outcome(tk', gl', dl', g) = Outcome(tk, gl, dl, g)
         /\ TasksOf(tk, g) # {} => GoalDone(GoalConditions(tk', gl', dl', g))
<1> DEFINE o == Outcome(tk, gl, dl, g)
<1>1. /\ o \in SettledOutcomes
      /\ o = "cancelled" => ~AnyInFlight(tk, g) /\ ~AnyAwaiting(tk, g)
  BY DEF GoalDone, GoalConditions, Complete, Yes, No
<1>2. ASSUME NEW tks, NEW gls, NEW dls, Outcome(tks, gls, dls, g) = o,
             o = "cancelled" => ~AnyInFlight(tks, g) /\ ~AnyAwaiting(tks, g)
      PROVE  GoalDone(GoalConditions(tks, gls, dls, g))
  BY <1>1, <1>2 DEF GoalDone, GoalConditions, Complete, Yes
<1>3. ASSUME TasksOf(tk, g) # {}, ~AnyInFlight(tk, g), ~AnyAwaiting(tk, g)
      PROVE  /\ \A t \in Ticket : GoalOf[t] = g => tk'[t].status = tk[t].status
             /\ TasksOf(tk', g) = TasksOf(tk, g)
             /\ ~AnyInFlight(tk', g) /\ ~AnyAwaiting(tk', g)
             /\ GoalComplete(tk', g) = GoalComplete(tk, g)
             /\ (\E t \in TasksOf(tk', g) : TicketDead(tk')[t]) <=> (\E t \in TasksOf(tk, g) : TicketDead(tk)[t])
             /\ dl'[g].branch = dl[g].branch
  <2>1. \A t \in TasksOf(tk, g) : tk[t].status \in Terminal
    BY <1>3 DEF AnyInFlight, AnyAwaiting
  <2>2. \A t \in Ticket : GoalOf[t] = g => tk'[t].status = tk[t].status
    BY <1>3, <2>1 DEF Steady, TasksOf, Created
  <2>3. TasksOf(tk', g) = TasksOf(tk, g) BY <2>2 DEF TasksOf, Created
  <2>4. ~AnyInFlight(tk', g) /\ ~AnyAwaiting(tk', g)
    BY <2>1, <2>2, <2>3 DEF AnyInFlight, AnyAwaiting, TasksOf, Created, Terminal
  <2>5. \A t \in TasksOf(tk, g) : /\ TicketComplete(tk')[t] = TicketComplete(tk)[t]
                                  /\ TicketDead(tk')[t] = TicketDead(tk)[t]
    BY <2>2, SameWork DEF TasksOf, Created
  <2>6. GoalComplete(tk', g) = GoalComplete(tk, g) BY <2>3, <2>5 DEF GoalComplete
  <2>7. dl'[g].branch = dl[g].branch BY <2>1 DEF Steady, Terminal
  <2> QED BY <2>2, <2>3, <2>4, <2>5, <2>6, <2>7
<1>4. CASE o = "cancelled"
  <2>1. gl[g].cancelled /\ gl'[g].cancelled BY <1>4 DEF Outcome, Steady
  <2>2. Outcome(tk', gl', dl', g) = "cancelled" BY <2>1 DEF Outcome
  <2>3. TasksOf(tk, g) # {} => ~AnyInFlight(tk', g) /\ ~AnyAwaiting(tk', g) BY <1>1, <1>3, <1>4
  <2> QED BY <1>2, <1>4, <2>2, <2>3
<1>5. CASE o = "delivered"
  <2>1. ~gl[g].cancelled /\ dl[g].delivered BY <1>5 DEF Outcome
  <2>2. ~gl'[g].cancelled /\ dl'[g].delivered BY <1>5, <2>1 DEF Steady, Cancels
  <2>3. Outcome(tk', gl', dl', g) = "delivered" BY <2>2 DEF Outcome
  <2> QED BY <1>2, <1>5, <2>3
<1>6. CASE o \in {"merged", "failed"}
  <2>1. /\ ~gl[g].cancelled /\ ~dl[g].delivered /\ TasksOf(tk, g) # {}
        /\ ~AnyInFlight(tk, g) /\ ~AnyAwaiting(tk, g) /\ ~(GoalComplete(tk, g) /\ dl[g].branch)
    BY <1>6 DEF Outcome
  <2>2. ~gl'[g].cancelled /\ ~dl'[g].delivered BY <1>6, <2>1 DEF Steady, Cancels
  <2>3. gl'[g].over = gl[g].over BY DEF Steady
  <2>4. Outcome(tk', gl', dl', g) = o BY <1>3, <2>1, <2>2, <2>3 DEF Outcome
  <2> QED BY <1>2, <1>6, <2>4
<1> QED BY <1>1, <1>4, <1>5, <1>6 DEF SettledOutcomes

\* What was called done stays done, with the same outcome.
THEOREM AnswersStay == Spec => DoneStays
<1>1. ASSUME WorkInv, [Next]_vars
      PROVE  [\A g \in Goal :
                GoalDone(GoalConditions(tk, gl, dl, g)) =>
                  /\ Outcome(tk', gl', dl', g) = Outcome(tk, gl, dl, g)
                  /\ TasksOf(tk, g) # {} => GoalDone(GoalConditions(tk', gl', dl', g))]_vars
  BY <1>1, SteadyStep, AnswerStays
<1> QED BY <1>1, AllAlong, PTL DEF Spec, DoneStays
=============================================================================
