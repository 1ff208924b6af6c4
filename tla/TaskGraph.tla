------------------------------- MODULE TaskGraph -------------------------------
(***************************************************************************)
(* The task graph that agents grow (ADR 006, ADR 007): decompose in        *)
(* src/internal/orchestrator/orchestrator.go, the rules of TicketCreated   *)
(* and the queries on dependencies, children and cycles in state.go, the   *)
(* shape of the graph in metrics.go, and what status.go shows of a goal    *)
(* while the log is replayed.                                              *)
(*                                                                         *)
(* A ticket's id is the path to it: <<g>> is the ticket the Scheduler makes*)
(* of goal g, and a child's id is its parent's with the local id appended  *)
(* (childID; local ids have no slash in them).  Two attempts may be        *)
(* splitting at once: each reads the log once, judges by what it read, and *)
(* appends its children one by one.                                        *)
(***************************************************************************)
EXTENDS Goals, Sequences, FiniteSets, SequencesExt, FiniteSetsExt

CONSTANTS Key, NoKey,         \* idempotency keys agents give, "" among them
          Local, NoLocal,     \* local ids, "" among them
          MaxGraphDepth, MaxFanOut, MaxTicketsPerGoal,   \* Options
          Answers             \* what agents may say, by setting and goal

\* Ids of tickets.
Path == {p \in Seq(Goal \cup Local) : p # <<>>}

\* A subtask depends on local ids and on ids of tickets.
Subtask == [local : Local, key : Key, deps : SUBSET (Local \cup Path)]

\* New puts numbers above 0 in the place of a limit of 0.
ASSUME GraphAssumption ==
  MaxGraphDepth \in Nat /\ MaxFanOut \in Nat /\ MaxTicketsPerGoal \in Nat \ {0}

\* goals are those whose ticket is not merged yet.  An answer is a list of subtasks,
\* and each of them lists what it depends on.
ASSUME AnswersAssumption ==
  \A o \in Answers :
    /\ o.goals \subseteq Goal
    /\ \A g \in Goal : \A subs \in o.says[g] :
         subs \in Seq(Subtask) /\ \A i \in DOMAIN subs : IsFiniteSet(subs[i].deps)

VARIABLES tickets,   \* Tickets: a record for each id that was created
          byKey,     \* KeyToTicket
          plan,      \* of each ticket being split: what is left to append
          view,      \* of each goal: its Complete condition, as statusView has it
          opt,       \* the answers of this run of the model, and its crashes
          lost,      \* history: ids that were not created, their key being taken
          crashes

gvars == <<tickets, byKey, plan, view, opt, lost, crashes>>

RootKey(g) == <<"impl", g>>

NewTicket(goal, deps, key, depth) ==
  [goal |-> goal, deps |-> deps, key |-> key, depth |-> depth,
   status |-> "pending", children |-> {}]

Ids(tks) == DOMAIN tks

-----------------------------------------------------------------------------
(* Queries *)

\* The nodes reached from the set S along E, itself included.
Reached(E, S) ==
  LET near[n \in Nat] ==
        IF n = 0 THEN S
        ELSE LET nearer == near[n - 1] IN nearer \cup UNION {E[m] : m \in nearer \cap DOMAIN E}
  IN near[Cardinality(DOMAIN E)]

Children(tks) == [t \in Ids(tks) |-> IF tks[t].status = "decomposed" THEN tks[t].children ELSE {}]

Dependencies(tks) == [t \in Ids(tks) |-> tks[t].deps]

\* What ticketComplete and ticketDead look at.
Family(tks, t) == Reached(Children(tks), {t})

Complete(tks, t) ==
  \A u \in Family(tks, t) : u \in Ids(tks) /\ tks[u].status \in {"merged", "decomposed"}

Dead(tks, t) == \E u \in Family(tks, t) \cap Ids(tks) : tks[u].status = "failed"

DepsSatisfied(tks, t) == \A d \in tks[t].deps : Complete(tks, d)

Terminal == {"merged", "failed", "decomposed"}

\* Mutant: a ticket that still waits is not looked at.
BlockedWhenReady(tks) == {t \in Ids(tks) : tks[t].status = "ready" /\ \E d \in tks[t].deps : Dead(tks, d)}

Blocked(tks) == {t \in Ids(tks) : tks[t].status \notin Terminal /\ \E d \in tks[t].deps : Dead(tks, d)}

Settled(tks) == \A t \in Ids(tks) : tks[t].status \in Terminal

\* HasCycle's search, one step of it: it begins at a white node, looks along an edge of
\* the gray node it visits, which is on top of its stack, or paints that node black.
Visit(adj, s) ==
  LET gray == ToSet(s.stack)
      white == DOMAIN adj \ (gray \cup s.black)
      n == Last(s.stack)
      left == {e \in s.edges : e[1] = n}
      e == CHOOSE x \in left : TRUE
  IN IF s.found \/ (s.stack = <<>> /\ white = {}) THEN s
     ELSE IF s.stack = <<>> THEN [s EXCEPT !.stack = <<CHOOSE m \in white : TRUE>>]
     ELSE IF left = {} THEN [s EXCEPT !.stack = Front(@), !.black = @ \cup {n}]
     ELSE [s EXCEPT !.edges = @ \ {e}, !.found = e[2] \in gray,
                    !.stack = IF e[2] \in gray \cup s.black THEN @ ELSE Append(@, e[2])]

Edges(adj) == UNION {{<<n, m>> : m \in adj[n]} : n \in DOMAIN adj}

Nodes(adj) == DOMAIN adj \cup UNION {adj[n] : n \in DOMAIN adj}

\* Every step uses up an edge, or paints a node.
HasCycle(adj) ==
  LET start == [stack |-> <<>>, black |-> {}, edges |-> Edges(adj), found |-> FALSE]
      search[i \in Nat] == IF i = 0 THEN start ELSE Visit(adj, search[i - 1])
  IN search[Cardinality(Edges(adj)) + 2 * Cardinality(Nodes(adj))].found

\* WouldCycle: the edges there are, with the new ones.
WouldCycle(tks, extra) ==
  HasCycle([n \in Ids(tks) \cup DOMAIN extra |->
              (IF n \in Ids(tks) THEN tks[n].deps ELSE {})
                \cup (IF n \in DOMAIN extra THEN extra[n] ELSE {})])

-----------------------------------------------------------------------------
(* Goals, as the views have them *)

Tasks(tks, g) == {t \in Ids(tks) : tks[t].goal = g}

\* GoalOutcome, of a goal that is not cancelled and has no branch.
Outcome(tks, g) ==
  IF \E t \in Tasks(tks, g) : tks[t].status \notin Terminal THEN "running"
  ELSE IF \E t \in Tasks(tks, g) : Dead(tks, t) THEN "failed"
  ELSE IF \A t \in Tasks(tks, g) : Complete(tks, t) THEN "merged"
  ELSE "running"

\* The Complete condition.
Done(tks, g) == Outcome(tks, g) \in {"merged", "failed"}

\* GraphShapes; own counts the children that were not adopted.
Shape(tks, g) ==
  [tickets |-> Cardinality(Tasks(tks, g)),
   depth |-> Max({tks[t].depth : t \in Tasks(tks, g)}),
   fanOut |-> Max({Cardinality(tks[t].children) : t \in Tasks(tks, g)}),
   own |-> Max({Cardinality({u \in tks[t].children : Front(u) = t}) : t \in Tasks(tks, g)})]

\* criticalPathDepth: the longest chain of dependencies.
CriticalPath(tks) ==
  LET chain[n \in Nat] ==
        IF n = 0 THEN Ids(tks)
        ELSE LET shorter == chain[n - 1] IN {t \in Ids(tks) : tks[t].deps \cap shorter # {}}
  IN Cardinality({n \in 0..Cardinality(Ids(tks)) : chain[n] # {}})

-----------------------------------------------------------------------------
(* Apply, and an append that statusView replays *)

\* goalsMoved: the goal the event names, or that of the ticket it names.
Replay(g, tks) ==
  /\ tickets' = tks
  /\ view' = [view EXCEPT ![g] = Done(tks, g)]

\* A key that was seen, and an id that exists, change nothing.
TicketCreated(id, x) ==
  LET fresh == x.key = NoKey \/ x.key \notin DOMAIN byKey
  IN /\ lost' = IF ~fresh /\ id \notin Ids(tickets) THEN lost \cup {id} ELSE lost
     /\ byKey' = IF fresh /\ x.key # NoKey
                 THEN [k \in DOMAIN byKey \cup {x.key} |-> IF k = x.key THEN id ELSE byKey[k]]
                 ELSE byKey
     /\ Replay(x.goal, IF fresh /\ id \notin Ids(tickets)
                       THEN [t \in Ids(tickets) \cup {id} |-> IF t = id THEN x ELSE tickets[t]]
                       ELSE tickets)

Become(t, status) == Replay(tickets[t].goal, [tickets EXCEPT ![t].status = status])

-----------------------------------------------------------------------------
(* decompose *)

\* The key names a ticket.
Known(key) == key # NoKey /\ key \in DOMAIN byKey

\* Resolve: an earlier subtask with the same key, then a ticket with it, then a new id.
IdOf(t, subs, i) ==
  LET same == {j \in 1..i - 1 : subs[j].key = subs[i].key}
  IN IF Known(subs[i].key) THEN byKey[subs[i].key]
     ELSE IF subs[i].key # NoKey /\ same # {} THEN Append(t, subs[Min(same)].local)
     ELSE Append(t, subs[i].local)

\* The children, each once, with its place in the list; those whose key names a
\* ticket are adopted.
ChildrenOf(t, subs) ==
  LET id(i) == IdOf(t, subs, i)
      first == {i \in DOMAIN subs : \A j \in 1..i - 1 : id(j) # id(i)}
      adopted == {id(i) : i \in {j \in DOMAIN subs : Known(subs[j].key)}}
      resolve(d) == IF \E j \in DOMAIN subs : subs[j].local = d
                    THEN id(CHOOSE j \in DOMAIN subs : subs[j].local = d)
                    ELSE d
  IN {[place |-> i, id |-> id(i), key |-> subs[i].key, adopt |-> id(i) \in adopted,
       deps |-> {resolve(d) : d \in subs[i].deps}] : i \in first}

\* Mutant: the children of one answer are not looked at together.
TooMuchGreedy(t, cs) ==
  \/ tickets[t].depth >= MaxGraphDepth
  \/ Cardinality(Tasks(tickets, tickets[t].goal)) >= MaxTicketsPerGoal

\* The governors.
TooMuch(t, cs) ==
  LET added == Cardinality({c.id : c \in cs} \ Ids(tickets))
  IN \/ tickets[t].depth >= MaxGraphDepth
     \/ added > MaxFanOut
     \/ Cardinality(Tasks(tickets, tickets[t].goal)) + added > MaxTicketsPerGoal

UnknownDependency(cs) ==
  \E c \in cs : \E d \in c.deps : d \notin Ids(tickets) /\ \A b \in cs : b.id # d

\* The edges of the children that are not there yet.
NewEdges(cs) ==
  LET new == {c \in cs : ~c.adopt}
  IN [id \in {c.id : c \in new} |-> (CHOOSE c \in new : c.id = id).deps]

Rejected(t, subs) ==
  \/ \E i \in DOMAIN subs : subs[i].local = NoLocal
  \/ \E i, j \in DOMAIN subs : i # j /\ subs[i].local = subs[j].local
  \/ LET cs == ChildrenOf(t, subs)
     IN TooMuch(t, cs) \/ UnknownDependency(cs) \/ WouldCycle(tickets, NewEdges(cs))

NoPlan == [todo |-> {}, children |-> {}, at |-> "no"]

Splitting(t) == plan[t].at # "no"

\* The agent answers with subtasks; decompose reads the log and judges.
Split(t, subs) ==
  /\ tickets[t].status = "running" /\ ~Splitting(t)
  /\ plan' = [plan EXCEPT ![t] =
       IF Rejected(t, subs) THEN [NoPlan EXCEPT !.at = "fail"]
       ELSE [todo |-> {c \in ChildrenOf(t, subs) : ~c.adopt},
             children |-> {c.id : c \in ChildrenOf(t, subs)}, at |-> "emit"]]
  /\ UNCHANGED <<tickets, byKey, view, opt, lost, crashes>>

\* failDecompose
FailDecompose(t) ==
  /\ plan[t].at = "fail"
  /\ Become(t, "failed") /\ plan' = [plan EXCEPT ![t] = NoPlan]
  /\ UNCHANGED <<byKey, opt, lost, crashes>>

\* The next child on the list.
CreateChild(t, c) ==
  /\ plan[t].at = "emit" /\ \A b \in plan[t].todo : c.place <= b.place
  /\ TicketCreated(c.id, NewTicket(tickets[t].goal, c.deps, c.key, tickets[t].depth + 1))
  /\ plan' = [s \in Ids(tickets') |->
                IF s = t THEN [plan[t] EXCEPT !.todo = @ \ {c}]
                ELSE IF s \in DOMAIN plan THEN plan[s] ELSE NoPlan]
  /\ UNCHANGED <<opt, crashes>>

Decomposed(t) ==
  /\ plan[t].at = "emit" /\ plan[t].todo = {}
  /\ Replay(tickets[t].goal,
            [tickets EXCEPT ![t].status = "decomposed", ![t].children = plan[t].children])
  /\ plan' = [plan EXCEPT ![t] = NoPlan]
  /\ UNCHANGED <<byKey, opt, lost, crashes>>

-----------------------------------------------------------------------------
(* The rest of a ticket's life, as far as the graph goes *)

Promote(t) ==
  /\ tickets[t].status = "pending" /\ DepsSatisfied(tickets, t)
  /\ Become(t, "ready")
  /\ UNCHANGED <<byKey, plan, opt, lost, crashes>>

Start(t) ==
  /\ tickets[t].status = "ready"
  /\ Cardinality({u \in Ids(tickets) : tickets[u].status = "running"}) < Concurrency
  /\ Become(t, "running")
  /\ UNCHANGED <<byKey, plan, opt, lost, crashes>>

\* The agent changes the code instead, and its change is merged, or it gives up.
Finish(t) ==
  /\ tickets[t].status = "running" /\ ~Splitting(t)
  /\ Become(t, "merged") \/ Become(t, "failed")
  /\ UNCHANGED <<byKey, plan, opt, lost, crashes>>

FailBlocked(t) ==
  /\ t \in Blocked(tickets) /\ tickets[t].status # "running"
  /\ Become(t, "failed")
  /\ UNCHANGED <<byKey, plan, opt, lost, crashes>>

\* The process dies with its attempts; each is restarted.
BreakOff ==
  /\ crashes < opt.crashes /\ crashes' = crashes + 1
  /\ \E t \in Ids(tickets) : Splitting(t)
  /\ plan' = [t \in DOMAIN plan |-> NoPlan]
  /\ tickets' = [t \in Ids(tickets) |->
                   IF tickets[t].status = "running" THEN [tickets[t] EXCEPT !.status = "ready"]
                   ELSE tickets[t]]
  /\ UNCHANGED <<byKey, view, opt, lost>>

GraphInit ==
  /\ opt \in Answers /\ lost = {} /\ crashes = 0
  /\ tickets = [t \in {<<g>> : g \in Goal} |->
                  [NewTicket(t[1], {}, RootKey(t[1]), 0) EXCEPT
                     !.status = IF t[1] \in opt.goals THEN "pending" ELSE "merged"]]
  /\ byKey = [k \in {RootKey(g) : g \in Goal} |-> <<k[2]>>]
  /\ plan = [t \in {<<g>> : g \in Goal} |-> NoPlan]
  /\ view = [g \in Goal |-> g \notin opt.goals]

Step(t) ==
  \/ Promote(t) \/ Start(t) \/ Finish(t) \/ FailBlocked(t)
  \/ FailDecompose(t) \/ Decomposed(t) \/ \E c \in plan[t].todo : CreateChild(t, c)
  \/ \E subs \in opt.says[tickets[t].goal] : Split(t, subs)

GraphNext == BreakOff \/ \E t \in Ids(tickets) : Step(t)

GraphSpec == GraphInit /\ [][GraphNext]_gvars

-----------------------------------------------------------------------------
(* Properties *)

\* E has no cycle: no node is reached from a node it leads to.
Acyclic(E) == \A n \in DOMAIN E : n \notin Reached(E, E[n])

\* What a ticket depends on or was split into, and is not there.
Missing(tks) == (UNION {tks[t].deps \cup Children(tks)[t] : t \in Ids(tks)}) \ Ids(tks)

\* What the splits at work are going to create.
Coming == UNION {{c.id : c \in plan[t].todo} : t \in DOMAIN plan}

\* Whatever agents answer, and however their splits interleave and crash: HasCycle
\* tells whether the dependencies have a cycle; a key names one ticket; and the graph is
\* no larger than its governors say: each split is judged by the log before the others,
\* so a goal may pass its limit by what the splits beside the last one add.  Until a
\* crash, the dependencies have no cycle, and they name tickets there are or will be.
GraphSound ==
  /\ HasCycle(Dependencies(tickets)) <=> ~Acyclic(Dependencies(tickets))
  /\ \A t, u \in Ids(tickets) : t # u /\ tickets[t].key = tickets[u].key => tickets[t].key = NoKey
  /\ \A k \in DOMAIN byKey : byKey[k] \in Ids(tickets)
  /\ \A g \in Goal :
       LET shape == Shape(tickets, g)
       IN /\ shape.depth <= MaxGraphDepth
          /\ crashes = 0 => shape.own <= MaxFanOut
          /\ shape.tickets <= MaxTicketsPerGoal + (Concurrency - 1) * MaxFanOut
  /\ crashes = 0 =>
       /\ Acyclic(Dependencies(tickets))
       /\ Missing(tickets) \subseteq lost \cup Coming
       /\ CriticalPath(tickets) <= Cardinality(Ids(tickets))

\* "The graph is a DAG (enforced at creation)" (state.go); "the task graph is always a
\* DAG" (ADR 007).
AlwaysDAG == Acyclic(Dependencies(tickets))

\* A ticket that waits for a family it is in.
SelfWait(tks) ==
  LET E == [t \in Ids(tks) |-> tks[t].deps \cup Children(tks)[t]]
  IN {t \in Ids(tks) : t \in Reached(E, E[t])}

Quiet ==
  \A t \in Ids(tickets) :
    /\ tickets[t].status \in Terminal \cup {"pending"}
    /\ tickets[t].status = "pending" => ~DepsSatisfied(tickets, t) /\ t \notin Blocked(tickets)

\* When nothing is left to do, everything is done: no ticket waits for ever, and
\* every goal has its outcome.  Two kinds of split escape the checks: one whose
\* child depends on the ticket that is being split, and one that names a ticket
\* that never comes, since another split takes its key while it is at work, or
\* since it breaks off in a crash and the next answer is another one.
WaitsEnd ==
  Quiet /\ SelfWait(tickets) = {} /\ Missing(tickets) = {} =>
    Settled(tickets) /\ \A g \in Goal : Outcome(tickets, g) # "running"

\* The condition that `aoa status --json` and `aoa wait` go by is that of the
\* log they have read (status.go: "the Goals event e can have moved").
ViewFresh == \A g \in Goal : view[g] = Done(tickets, g)
=============================================================================
