---------------------------- MODULE BudgetProofs ----------------------------
(***************************************************************************)
(* The budgets of a run and of a day hold, up to one attempt for each slot,*)
(* and Run's verdict on work it left is honest, for any goals, slots,      *)
(* prices, limits, costs of attempts, runs, days and crashes.  What a      *)
(* window has used is a walk over the log; the lemmas of the first part    *)
(* say what one more event adds to it.                                     *)
(***************************************************************************)
EXTENDS Budget, FiniteSetTheorems, SequenceTheorems, WellFoundedInduction, TLAPS

\* What the log records of budgets, and what a window has used.
Window == {<<"run">>} \cup {<<"day", d>> : d \in Nat}

Event ==
  [type : {"TicketCreated"}, goal : Goal, day : Nat]
    \cup [type : {"charge"}, goal : Goal, day : Nat, charge : ChargeRecord]
    \cup [type : {"BudgetExhausted"}, window : Window, day : Nat]

UsageRecord ==
  [tokens : Nat, reported : Nat, toPrice : Nat, goals : SUBSET Goal, known : SUBSET Goal]

\* The variables, as far as budgets depend on them.
Types ==
  /\ log \in Seq(Event) /\ today \in Nat /\ setting \in Options /\ since \in 0..Len(log)
  /\ status \in [Goal -> {"queued", "ready", "claimed", "proposed", "done"}]
  /\ attempts = [g \in Goal |-> attempts[g]]
  /\ flight \in [Goal -> {"no", "launched", "claimed", "closing"}]
  /\ pc \in {"off", "goals", "create", "slots", "spend", "launch", "drain", "end"}
  /\ todo \subseteq Goal /\ slots \in Nat /\ left \in Nat /\ stop \in BOOLEAN
  /\ snap.active \subseteq Goal /\ snap.ready \subseteq Goal
  /\ \A i \in 1..Len(log) : log[i].day <= today

\* The attempts that have still to be charged.
Open == {g \in Goal : flight[g] \in {"launched", "claimed"}}

\* With k attempts to come the window stays within its budget and what Concurrency
\* attempts cost; with n goals to come it stays within its goals.
Room(b, u, k) ==
  /\ b.tokens > 0 => u.tokens + k * MaxTokens < b.tokens + Concurrency * MaxTokens
  /\ b.usd > 0 => CostUSD(u) + k * MaxUSD < b.usd + Concurrency * MaxUSD

GoalRoom(b, u, n) == b.goals > 0 => Cardinality(u.goals) + n <= b.goals

\* Of the window of this run, and of today.
RoomLeft(k) == Room(setting.run, RunUsage(log, since), k) /\ Room(setting.day, DayUsage(log, today), k)

GoalsRoom(n) ==
  /\ GoalRoom(setting.run, RunUsage(log, since), n)
  /\ GoalRoom(setting.day, DayUsage(log, today), n)

\* The attempts to come, with those the pass is about to launch from the moment it
\* found the budgets open; and the slots taken, with those it has counted as free.
Ahead == Cardinality(Open) + (IF pc = "launch" /\ ~stop THEN slots ELSE 0)
Taken == Cardinality(Open) + (IF pc \in {"spend", "launch"} THEN slots ELSE 0)

\* No more slots are taken than there are, and what is to come has room.
SpendInv == Taken <= Concurrency /\ RoomLeft(Ahead)

\* The goals a pass may start have room; no limit is no limit for all of them.
Coming == IF pc = "create" /\ left # Unlimited THEN left ELSE 0

GoalInv ==
  /\ left <= Unlimited /\ GoalsRoom(Coming)
  /\ pc = "create" /\ left = Unlimited =>
       /\ setting.run.goals > 0 => setting.run.goals > G
       /\ setting.day.goals > 0 => setting.day.goals > G

\* The days that are over kept their budget.
PastInv == \A d \in 1..today : Within(setting.day, DayUsage(log, d))

-----------------------------------------------------------------------------
\* As long as a pass has appended nothing, and no midnight came, what it found
\* holds: its list of goals, how many may start, whether spend has stopped.
Calm == ~moved /\ "midnight" \notin odd

Queued  == {g \in Goal : status[g] = "queued"}
Claimed == {g \in Goal : status[g] = "claimed"}

\* The goals: they are started, or none may be.
QueueInv ==
  /\ pc = "create" /\ ~moved => todo = Queued
  /\ pc = "create" /\ Calm => left = GoalsLeft
  /\ pc \in {"slots", "spend", "launch", "drain", "end"} /\ Calm => Queued = {} \/ GoalsLeft = 0

\* Whatever is ready is in its backoff.
AllRest == \A g \in Goal : status[g] = "ready" => g \in resting

\* The slots: what is ready and rested is launched, unless spend has stopped or a slot
\* is held by an attempt at work.
SlotInv ==
  /\ pc \in {"spend", "launch"} /\ ~moved =>
       snap.active = Claimed /\ snap.ready = {g \in Goal : status[g] \in {"ready", "claimed"}}
  /\ pc \in {"spend", "launch"} /\ ~moved /\ "lingered" \notin odd =>
       /\ \A g \in Goal : flight[g] # "closing"
       /\ slots = 0 => Open # {} \/ Claimed # {}
  /\ pc = "launch" /\ Calm => stop = SpendStopped
  /\ pc \in {"drain", "end"} /\ Calm /\ "lingered" \notin odd /\ "rested" \notin odd =>
       SpendStopped \/ Open # {} \/ Claimed # {} \/ AllRest
  /\ pc = "end" /\ ~moved => \A g \in Goal : status[g] # "proposed"

\* No window is recorded twice.
Once(events) ==
  \A i, j \in 1..Len(events) :
    /\ events[i].type = "BudgetExhausted" /\ events[j].type = "BudgetExhausted"
    /\ events[i].window = events[j].window
    => i = j

\* The record: a window is recorded when it is first found tripped, and once.
RecordInv ==
  /\ pc \notin {"off", "goals"} /\ Calm => Tripped \subseteq Recorded(log)
  /\ pc = "spend" => snap.recorded = Recorded(log)
  /\ Once(log)

\* A budget holds back whatever is left, but for what is in its backoff.
AllHeld ==
  /\ GoalsLeft = 0 /\ Tripped \subseteq Recorded(log)
  /\ odd = {} => \A g \in Goal : status[g] # "done" => Held(g) \/ g \in resting

\* A Run that ended left nothing at work.
EndInv ==
  /\ odd \subseteq {"midnight", "lingered", "rested"}
  /\ outcome # "none" => pc = "off"
  /\ outcome \in {"paused", "stuck"} => \A g \in Goal : flight[g] = "no"
  /\ outcome = "stuck" => odd # {}
  /\ outcome = "paused" /\ "midnight" \notin odd => AllHeld

-----------------------------------------------------------------------------
(* Numbers and sets *)

\* A set of numbers that is not empty has a least.
LEMMA Smallest ==
  ASSUME NEW S, S \subseteq Nat, S # {} PROVE \E m \in S : \A k \in S : m <= k
<1> DEFINE R == OpToRel(<, Nat)
<1>1. IsWellFoundedOn(R, Nat) BY NatLessThanWellFounded
<1> HIDE DEF R
<1>2. PICK m \in S : \A k \in S : ~(<<k, m>> \in R) BY <1>1, WFMin
<1>3. \A k \in S : ~(k < m) BY <1>2 DEF OpToRel, R
<1>4. \A k \in S : m <= k BY <1>3
<1> QED BY <1>4

\* The least of a set of numbers is in it.
LEMMA MinIs ==
  ASSUME NEW S, S \subseteq Nat, S # {}
  PROVE  Min(S) \in S /\ \A k \in S : Min(S) <= k
<1>1. PICK m \in S : \A k \in S : m <= k BY Smallest
<1> QED BY <1>1 DEF Min

\* A finite set of numbers that is not empty has a greatest.
LEMMA MaxIs ==
  ASSUME NEW S, IsFiniteSet(S), S \subseteq Nat, S # {}
  PROVE  Max(S) \in S /\ \A k \in S : k <= Max(S)
<1> DEFINE Above(x) == {y \in S : y > x}
           H == {Cardinality(Above(x)) : x \in S}
<1>1. \A x \in S : Above(x) \subseteq S /\ IsFiniteSet(Above(x)) BY FS_Subset
<1>2. \A x \in S : Cardinality(Above(x)) \in Nat BY <1>1, FS_CardinalityType
<1>3. H \subseteq Nat /\ H # {} BY <1>2
<1>4. PICK m \in H : \A k \in H : m <= k BY <1>3, Smallest
<1>5. PICK x \in S : m = Cardinality(Above(x)) BY <1>4
<1>6. ASSUME NEW y \in S, y > x PROVE FALSE
  <2>1. Above(y) \subseteq Above(x) BY <1>5, <1>6
  <2>2. y \in Above(x) /\ y \notin Above(y) BY <1>5, <1>6
  <2>3. Cardinality(Above(y)) <= Cardinality(Above(x)) /\ Cardinality(Above(y)) # Cardinality(Above(x))
    BY <1>1, <2>1, <2>2, FS_Subset
  <2>4. Cardinality(Above(x)) <= Cardinality(Above(y)) BY <1>4, <1>5, <1>6
  <2> QED BY <1>2, <1>6, <2>3, <2>4
<1>7. \A y \in S : x >= y BY <1>5, <1>6
<1> QED BY <1>7 DEF Max

\* What an attempt may cost is a number, and the most of it bounds it.
LEMMA MostIs ==
  ASSUME setting \in Options
  PROVE  /\ MaxTokens \in Nat /\ MaxUSD \in Nat
         /\ \A c \in setting.charges :
              c.tokens <= MaxTokens /\ CostUSD(AddCharge(NoUsage, c)) <= MaxUSD
<1> DEFINE cost(c) == CostUSD(AddCharge(NoUsage, c))
           f == [c \in setting.charges |-> c.tokens]
           h == [c \in setting.charges |-> cost(c)]
           A == {c.tokens : c \in setting.charges}
           B == {cost(c) : c \in setting.charges}
<1>1. /\ IsFiniteSet(setting.charges) /\ setting.charges \subseteq ChargeRecord /\ setting.charges # {}
      /\ Price \in Nat
  BY BudgetAssumption, GoalsAssumption
<1>2. \A c \in setting.charges : c.tokens \in Nat /\ c.usd \in Nat BY <1>1 DEF ChargeRecord
<1>3. ASSUME NEW c \in setting.charges PROVE cost(c) \in Nat
  <2> DEFINE u == AddCharge(NoUsage, c)
  <2>1. u.reported = 0 + c.usd /\ u.toPrice \in {0, 0 + c.tokens} BY DEF AddCharge, NoUsage
  <2>2. u.reported \in Nat /\ u.toPrice \in Nat BY <1>2, <2>1
  <2> HIDE DEF u
  <2> QED BY <1>1, <2>2 DEF CostUSD, u
<1> HIDE DEF cost
<1>4. f \in Surjection(setting.charges, A) /\ h \in Surjection(setting.charges, B)
  BY DEF Surjection
<1>5. IsFiniteSet(A) /\ IsFiniteSet(B) BY <1>1, <1>4, FS_Surjection
<1>6. A \subseteq Nat /\ B \subseteq Nat /\ A # {} /\ B # {} BY <1>1, <1>2, <1>3
<1>7. Max(A) \in Nat /\ \A k \in A : k <= Max(A) BY <1>5, <1>6, MaxIs
<1>8. Max(B) \in Nat /\ \A k \in B : k <= Max(B) BY <1>5, <1>6, MaxIs
<1>9. MaxTokens = Max(A) BY DEF MaxTokens
<1>10. MaxUSD = Max(B) BY DEF MaxUSD, cost
<1>11. \A c \in setting.charges : c.tokens \in A /\ cost(c) \in B OBVIOUS
<1> QED BY <1>7, <1>8, <1>9, <1>10, <1>11 DEF cost

-----------------------------------------------------------------------------
(* What a window has used *)

\* The walk over the first n events.
Walk(s, w, f, n) ==
  f = [i \in 0..n |-> IF i = 0 THEN NoUsage ELSE Read(f[i - 1], s[i], i \in w)]

\* There is one for every length.
LEMMA WalkExists == ASSUME NEW s, NEW w, NEW n \in Nat PROVE \E f : Walk(s, w, f, n)
<1> DEFINE Bad == {k \in Nat : ~\E f : Walk(s, w, f, k)}
<1> SUFFICES ASSUME Bad # {} PROVE FALSE OBVIOUS
<1>1. PICK m \in Bad : \A k \in Bad : m <= k BY Smallest
<1>2. CASE m = 0
  <2> DEFINE f == [i \in 0..0 |-> NoUsage]
  <2>1. f = [i \in 0..0 |-> IF i = 0 THEN NoUsage ELSE Read(f[i - 1], s[i], i \in w)] OBVIOUS
  <2> QED BY <1>1, <1>2, <2>1 DEF Walk
<1>3. CASE m # 0
  <2>1. m - 1 \in Nat /\ m - 1 \notin Bad BY <1>1, <1>3
  <2>2. PICK f : Walk(s, w, f, m - 1) BY <2>1
  <2> DEFINE g == [i \in 0..m |-> IF i = m THEN Read(f[m - 1], s[m], m \in w) ELSE f[i]]
             h == [i \in 0..m |-> IF i = 0 THEN NoUsage ELSE Read(g[i - 1], s[i], i \in w)]
  <2>3. ASSUME NEW i \in 0..m PROVE g[i] = h[i]
    <3>1. CASE i = m
      <4>1. g[i] = Read(f[m - 1], s[m], m \in w) BY <3>1
      <4>2. g[m - 1] = f[m - 1] BY <2>1
      <4>3. h[i] = Read(g[m - 1], s[m], m \in w) BY <1>3, <3>1
      <4> QED BY <4>1, <4>2, <4>3
    <3>2. CASE i = 0
      <4>1. g[i] = f[0] /\ h[i] = NoUsage BY <1>3, <3>2
      <4>2. f[0] = NoUsage BY <2>1, <2>2 DEF Walk
      <4> QED BY <4>1, <4>2
    <3>3. CASE i # m /\ i # 0
      <4>1. i \in 0..m - 1 /\ i - 1 \in 0..m - 1 /\ i - 1 # m /\ i - 1 \in 0..m
        BY <1>1, <3>3
      <4>2. g[i] = f[i] /\ g[i - 1] = f[i - 1] BY <3>3, <4>1
      <4>3. f[i] = Read(f[i - 1], s[i], i \in w) BY <2>2, <3>3, <4>1 DEF Walk
      <4>4. h[i] = Read(g[i - 1], s[i], i \in w) BY <3>3
      <4> QED BY <4>2, <4>3, <4>4
    <3> QED BY <3>1, <3>2, <3>3
  <2>4. g = h BY <2>3
  <2>5. Walk(s, w, g, m) BY <2>4 DEF Walk
  <2> QED BY <1>1, <2>5
<1> QED BY <1>2, <1>3

\* Its steps.
LEMMA WalkSteps ==
  ASSUME NEW s, NEW w, NEW f, NEW n \in Nat, Walk(s, w, f, n)
  PROVE  /\ f[0] = NoUsage
         /\ \A i \in 1..n : f[i] = Read(f[i - 1], s[i], i \in w)
<1>1. 0 \in 0..n OBVIOUS
<1>2. \A i \in 1..n : i \in 0..n /\ i # 0 OBVIOUS
<1> QED BY <1>1, <1>2 DEF Walk

\* UsageOf is what the walk ends with.
LEMMA UsageIs ==
  ASSUME NEW s, NEW w, Len(s) \in Nat
  PROVE  \E f : Walk(s, w, f, Len(s)) /\ UsageOf(s, w) = f[Len(s)]
<1> DEFINE f == CHOOSE f : f = [i \in 0..Len(s) |->
                                IF i = 0 THEN NoUsage ELSE Read(f[i - 1], s[i], i \in w)]
<1>1. UsageOf(s, w) = f[Len(s)] BY DEF UsageOf
<1>2. \E g : g = [i \in 0..Len(s) |-> IF i = 0 THEN NoUsage ELSE Read(g[i - 1], s[i], i \in w)]
  <2>1. PICK g : Walk(s, w, g, Len(s)) BY WalkExists
  <2> QED BY <2>1 DEF Walk
<1>3. f = [i \in 0..Len(s) |-> IF i = 0 THEN NoUsage ELSE Read(f[i - 1], s[i], i \in w)]
  BY <1>2
<1> HIDE DEF f
<1> QED BY <1>1, <1>3 DEF Walk

\* Two walks agree as far as their events and windows do.
LEMMA WalksAgree ==
  ASSUME NEW s, NEW w, NEW f, NEW n \in Nat, Walk(s, w, f, n),
         NEW t, NEW v, NEW g, NEW m \in Nat, Walk(t, v, g, m),
         NEW k \in Nat, k <= n, k <= m,
         \A i \in 1..k : s[i] = t[i] /\ (i \in w <=> i \in v)
  PROVE  f[k] = g[k]
<1> DEFINE Bad == {i \in 0..k : f[i] # g[i]}
<1> SUFFICES ASSUME Bad # {} PROVE FALSE BY DEF Bad
<1>1. PICK a \in Bad : \A i \in Bad : a <= i
  <2>1. Bad \subseteq Nat OBVIOUS
  <2> QED BY <2>1, Smallest
<1>2. a # 0 BY <1>1, WalkSteps
<1>3. a - 1 \in 0..k /\ a - 1 \notin Bad /\ a \in 1..k BY <1>1, <1>2
<1>4. f[a - 1] = g[a - 1] BY <1>3
<1>5. a \in 1..n /\ a \in 1..m BY <1>3
<1>6. (a \in w) = (a \in v) /\ s[a] = t[a] BY <1>3
<1>7. f[a] = Read(f[a - 1], s[a], a \in w) /\ g[a] = Read(g[a - 1], t[a], a \in v)
  BY <1>5, WalkSteps
<1> QED BY <1>1, <1>4, <1>6, <1>7

\* One more event.
LEMMA UsageAppend ==
  ASSUME NEW s \in Seq(Event), NEW e \in Event, NEW w, NEW v,
         \A i \in 1..Len(s) : i \in w <=> i \in v
  PROVE  UsageOf(Append(s, e), v) = Read(UsageOf(s, w), e, Len(s) + 1 \in v)
<1> DEFINE t == Append(s, e)
           n == Len(s)
<1>1. n \in Nat /\ Len(t) = n + 1 /\ t[n + 1] = e /\ \A i \in 1..n : t[i] = s[i] OBVIOUS
<1> HIDE DEF t, n
<1>2. PICK f : Walk(s, w, f, n) /\ UsageOf(s, w) = f[n] BY <1>1, UsageIs DEF n
<1>3. PICK g : Walk(t, v, g, n + 1) /\ UsageOf(t, v) = g[n + 1]
  <2>1. Len(t) \in Nat BY <1>1
  <2> QED BY <1>1, <2>1, UsageIs
<1>4. n + 1 \in Nat /\ n <= n /\ n <= n + 1 /\ n + 1 \in 1..n + 1 /\ (n + 1) - 1 = n BY <1>1
<1>5. \A i \in 1..n : s[i] = t[i] /\ (i \in w <=> i \in v) BY <1>1 DEF n
<1>6. f[n] = g[n] BY <1>1, <1>2, <1>3, <1>4, <1>5, WalksAgree
<1>7. g[n + 1] = Read(g[n], t[n + 1], n + 1 \in v) BY <1>3, <1>4, WalkSteps
<1> QED BY <1>1, <1>2, <1>3, <1>6, <1>7 DEF t, n

\* What was recorded of budgets is no spend.
LEMMA UsageIdle ==
  ASSUME NEW s \in Seq(Event), NEW x \in Seq(Event), NEW w, NEW v,
         \A i \in 1..Len(x) : x[i].type = "BudgetExhausted",
         \A i \in 1..Len(s) : i \in w <=> i \in v
  PROVE  UsageOf(s \o x, v) = UsageOf(s, w)
<1> DEFINE t == s \o x
           n == Len(s)
           m == Len(t)
<1>1. /\ n \in Nat /\ m \in Nat /\ n <= m /\ \A i \in 1..n : t[i] = s[i]
      /\ \A i \in n + 1..m : t[i].type = "BudgetExhausted"
  <2>1. Len(x) \in Nat /\ m = n + Len(x) /\ n \in Nat OBVIOUS
  <2>2. \A i \in 1..n : t[i] = s[i] OBVIOUS
  <2>3. \A i \in n + 1..m : t[i] = x[i - n] /\ i - n \in 1..Len(x) BY <2>1
  <2> QED BY <2>1, <2>2, <2>3
<1>2. PICK f : Walk(s, w, f, n) /\ UsageOf(s, w) = f[n] BY <1>1, UsageIs
<1> HIDE DEF t, n, m
<1>3. PICK g : Walk(t, v, g, m) /\ UsageOf(t, v) = g[m] BY <1>1, UsageIs DEF m
<1>4. \A i \in 1..n : s[i] = t[i] /\ (i \in w <=> i \in v) BY <1>1 DEF n
<1>5. f[n] = g[n]
  <2>1. n <= n BY <1>1
  <2> QED BY <1>1, <1>2, <1>3, <1>4, <2>1, WalksAgree
<1> DEFINE Bad == {i \in n..m : g[i] # g[n]}
<1>6. SUFFICES ASSUME Bad # {} PROVE FALSE
  <2>1. m \in n..m BY <1>1
  <2> QED BY <1>2, <1>3, <1>5, <1>6, <2>1 DEF t
<1>7. PICK a \in Bad : \A i \in Bad : a <= i
  <2>1. Bad \subseteq Nat BY <1>1
  <2> QED BY <1>6, <2>1, Smallest
<1>8. a # n BY <1>7
<1>9. a - 1 \in n..m /\ a - 1 \notin Bad /\ a \in 1..m /\ a \in n + 1..m BY <1>1, <1>7, <1>8
<1>10. g[a] = Read(g[a - 1], t[a], a \in v) BY <1>1, <1>3, <1>9, WalkSteps
<1>11. t[a].type = "BudgetExhausted" BY <1>1, <1>9
<1>12. Read(g[a - 1], t[a], a \in v) = g[a - 1] BY <1>11 DEF Read
<1> QED BY <1>7, <1>9, <1>10, <1>12

\* An event leaves a usage a usage.
LEMMA ReadType ==
  ASSUME NEW u \in UsageRecord, NEW e \in Event, NEW inside
  PROVE  Read(u, e, inside) \in UsageRecord
<1>1. CASE e.type = "TicketCreated"
  <2>1. e.goal \in Goal BY <1>1 DEF Event
  <2>2. u.known \cup {e.goal} \in SUBSET Goal /\ u.goals \cup {e.goal} \in SUBSET Goal
    BY <2>1 DEF UsageRecord
  <2> QED BY <1>1, <2>2 DEF Read, UsageRecord
<1>2. CASE e.type = "charge"
  <2>1. e.charge \in ChargeRecord BY <1>2 DEF Event
  <2>2. /\ u.reported + e.charge.usd \in Nat /\ u.tokens + e.charge.tokens \in Nat
        /\ u.toPrice + e.charge.tokens \in Nat
    BY <2>1 DEF UsageRecord, ChargeRecord
  <2> QED BY <1>2, <2>2 DEF Read, AddCharge, UsageRecord
<1>3. CASE e.type \notin {"TicketCreated", "charge"} BY <1>3 DEF Read
<1> QED BY <1>1, <1>2, <1>3

\* Every window has a usage.
LEMMA UsageType ==
  ASSUME NEW s \in Seq(Event), NEW w
  PROVE  UsageOf(s, w) \in UsageRecord
<1> DEFINE n == Len(s)
<1>1. n \in Nat /\ \A i \in 1..n : s[i] \in Event OBVIOUS
<1>2. PICK f : Walk(s, w, f, n) /\ UsageOf(s, w) = f[n] BY <1>1, UsageIs
<1> HIDE DEF n
<1> DEFINE Bad == {i \in 0..n : f[i] \notin UsageRecord}
<1> SUFFICES ASSUME Bad # {} PROVE FALSE
  <2>1. n \in 0..n BY <1>1
  <2> QED BY <1>2, <2>1
<1>3. PICK a \in Bad : \A i \in Bad : a <= i
  <2>1. Bad \subseteq Nat OBVIOUS
  <2> QED BY <2>1, Smallest
<1>4. f[0] = NoUsage BY <1>1, <1>2, WalkSteps
<1>5. NoUsage \in UsageRecord BY DEF NoUsage, UsageRecord
<1>6. a # 0 BY <1>3, <1>4, <1>5
<1>7. a - 1 \in 0..n /\ a - 1 \notin Bad /\ a \in 1..n BY <1>1, <1>3, <1>6
<1>8. f[a] = Read(f[a - 1], s[a], a \in w) BY <1>1, <1>2, <1>7, WalkSteps
<1>9. f[a - 1] \in UsageRecord /\ s[a] \in Event BY <1>1, <1>7
<1>10. f[a] \in UsageRecord BY <1>8, <1>9, ReadType
<1> QED BY <1>3, <1>10

\* It has used nothing.
Fresh(u) == u.tokens = 0 /\ u.reported = 0 /\ u.toPrice = 0 /\ u.goals = {}

\* A window none of the events is in.
LEMMA UsageNone ==
  ASSUME NEW s \in Seq(Event), NEW w, \A i \in 1..Len(s) : i \notin w
  PROVE  Fresh(UsageOf(s, w))
<1> DEFINE n == Len(s)
<1>1. n \in Nat /\ \A i \in 1..n : s[i] \in Event /\ i \notin w OBVIOUS
<1>2. PICK f : Walk(s, w, f, n) /\ UsageOf(s, w) = f[n] BY <1>1, UsageIs
<1> HIDE DEF n
<1> DEFINE Good(u) == u \in UsageRecord /\ Fresh(u)
           Bad == {i \in 0..n : ~Good(f[i])}
<1> SUFFICES ASSUME Bad # {} PROVE FALSE
  <2>1. n \in 0..n BY <1>1
  <2> QED BY <1>2, <2>1
<1>3. PICK a \in Bad : \A i \in Bad : a <= i
  <2>1. Bad \subseteq Nat OBVIOUS
  <2> QED BY <2>1, Smallest
<1>4. f[0] = NoUsage BY <1>1, <1>2, WalkSteps
<1>5. Good(NoUsage) BY DEF NoUsage, UsageRecord, Fresh
<1> HIDE DEF Good
<1>6. a # 0 BY <1>3, <1>4, <1>5
<1>7. a - 1 \in 0..n /\ a - 1 \notin Bad /\ a \in 1..n BY <1>1, <1>3, <1>6
<1>8. f[a] = Read(f[a - 1], s[a], FALSE)
  <2>1. f[a] = Read(f[a - 1], s[a], a \in w) BY <1>1, <1>2, <1>7, WalkSteps
  <2>2. (a \in w) = FALSE BY <1>1, <1>7
  <2> QED BY <2>1, <2>2
<1>9. Good(f[a - 1]) /\ s[a] \in Event BY <1>1, <1>7
<1>10. Fresh(f[a])
  <2>1. Fresh(f[a - 1]) /\ f[a - 1] \in UsageRecord BY <1>9 DEF Good
  <2>2. \/ f[a] = [f[a - 1] EXCEPT !.known = @ \cup {s[a].goal}, !.goals = @]
        \/ f[a] = f[a - 1]
    BY <1>8 DEF Read
  <2> QED BY <2>1, <2>2 DEF Fresh, UsageRecord
<1>11. f[a] \in UsageRecord BY <1>8, <1>9, ReadType DEF Good
<1> QED BY <1>3, <1>10, <1>11 DEF Good

\* What an event adds: a charge to the spend, a first ticket to the goals.
LEMMA ReadCharge ==
  ASSUME NEW u \in UsageRecord, NEW e \in Event, e.type = "charge", NEW inside \in BOOLEAN
  PROVE  IF inside
         THEN /\ Read(u, e, inside).tokens = u.tokens + e.charge.tokens
              /\ CostUSD(Read(u, e, inside)) = CostUSD(u) + CostUSD(AddCharge(NoUsage, e.charge))
              /\ Read(u, e, inside).goals = u.goals
         ELSE Read(u, e, inside) = u
<1>1. e.charge \in ChargeRecord BY DEF Event
<1>2. CASE ~inside BY <1>2 DEF Read
<1>3. CASE inside
  <2> DEFINE v == AddCharge(u, e.charge)
             z == AddCharge(NoUsage, e.charge)
  <2>1. Read(u, e, inside) = v BY <1>3 DEF Read
  <2>2. /\ v.tokens = u.tokens + e.charge.tokens /\ v.goals = u.goals
        /\ v.reported = u.reported + e.charge.usd
        /\ v.toPrice = u.toPrice + (IF e.charge.priced /\ e.charge.usd = 0 THEN e.charge.tokens ELSE 0)
    BY DEF AddCharge, UsageRecord
  <2>3. /\ z.reported = e.charge.usd
        /\ z.toPrice = IF e.charge.priced /\ e.charge.usd = 0 THEN e.charge.tokens ELSE 0
    BY <1>1 DEF AddCharge, NoUsage, ChargeRecord
  <2>4. /\ u.reported \in Nat /\ u.toPrice \in Nat /\ e.charge.usd \in Nat /\ e.charge.tokens \in Nat
        /\ Price \in Nat
    BY <1>1, BudgetAssumption, GoalsAssumption DEF UsageRecord, ChargeRecord
  <2> HIDE DEF v, z
  <2>5. z.reported \in Nat /\ z.toPrice \in Nat BY <2>3, <2>4
  <2>6. v.reported = u.reported + z.reported /\ v.toPrice = u.toPrice + z.toPrice BY <2>2, <2>3
  <2>7. Price * (u.toPrice + z.toPrice) = Price * u.toPrice + Price * z.toPrice BY <2>4, <2>5
  <2>8. Price * u.toPrice \in Nat /\ Price * z.toPrice \in Nat BY <2>4, <2>5
  <2>9. CostUSD(v) = CostUSD(u) + CostUSD(z) BY <2>4, <2>5, <2>6, <2>7, <2>8 DEF CostUSD
  <2> QED BY <1>3, <2>1, <2>2, <2>9 DEF z
<1> QED BY <1>2, <1>3

\* A ticket is no spend.
LEMMA ReadStart ==
  ASSUME NEW u \in UsageRecord, NEW e \in Event, e.type = "TicketCreated", NEW inside \in BOOLEAN
  PROVE  /\ Read(u, e, inside).tokens = u.tokens /\ CostUSD(Read(u, e, inside)) = CostUSD(u)
         /\ Read(u, e, inside).goals \in {u.goals, u.goals \cup {e.goal}}
         /\ ~inside => Read(u, e, inside).goals = u.goals
BY DEF Read, CostUSD, UsageRecord

-----------------------------------------------------------------------------
(* The windows *)

\* The window of the run takes in every event, that of a day the day's.
LEMMA WindowsGrow ==
  ASSUME Types, NEW e \in Event
  PROVE  /\ RunUsage(Append(log, e), since) = Read(RunUsage(log, since), e, TRUE)
         /\ \A d : DayUsage(Append(log, e), d) = Read(DayUsage(log, d), e, e.day = d)
<1> DEFINE t == Append(log, e)
           n == Len(log)
<1>1. log \in Seq(Event) /\ n \in Nat /\ since \in Nat /\ since <= n BY DEF Types
<1>2. t \in Seq(Event) /\ Len(t) = n + 1 /\ t[n + 1] = e /\ \A i \in 1..n : t[i] = log[i] BY <1>1
<1>3. DOMAIN t = 1..n + 1 /\ DOMAIN log = 1..n BY <1>1, <1>2
<1> HIDE DEF n
<1>4. RunUsage(t, since) = Read(RunUsage(log, since), e, TRUE)
  <2>1. \A i \in 1..n : i \in since + 1..n <=> i \in since + 1..n + 1 BY <1>1
  <2>2. (n + 1 \in since + 1..n + 1) = TRUE BY <1>1
  <2>3. UsageOf(t, since + 1..n + 1)
          = Read(UsageOf(log, since + 1..n), e, n + 1 \in since + 1..n + 1)
    BY <1>1, <2>1, UsageAppend DEF n
  <2> QED BY <1>2, <2>2, <2>3 DEF RunUsage, n
<1>5. ASSUME NEW d PROVE DayUsage(t, d) = Read(DayUsage(log, d), e, e.day = d)
  <2> DEFINE w == {i \in DOMAIN log : log[i].day = d}
             v == {i \in DOMAIN t : t[i].day = d}
  <2>1. \A i \in 1..n : i \in w <=> i \in v BY <1>1, <1>2, <1>3
  <2>2. (n + 1 \in v) = (e.day = d) BY <1>1, <1>2, <1>3
  <2> HIDE DEF w, v
  <2>3. UsageOf(t, v) = Read(UsageOf(log, w), e, n + 1 \in v) BY <1>1, <2>1, UsageAppend DEF n
  <2> QED BY <2>2, <2>3 DEF DayUsage, w, v
<1> QED BY <1>4, <1>5

\* The events that budgetStop appends.
Records(x) == x \in Seq(Event) /\ \A i \in 1..Len(x) : x[i].type = "BudgetExhausted"

\* They change no usage.
LEMMA WindowsRest ==
  ASSUME Types, NEW x, Records(x)
  PROVE  /\ RunUsage(log \o x, since) = RunUsage(log, since)
         /\ \A d : DayUsage(log \o x, d) = DayUsage(log, d)
<1> DEFINE t == log \o x
           n == Len(log)
           m == Len(x)
<1>1. log \in Seq(Event) /\ n \in Nat /\ since \in Nat /\ since <= n BY DEF Types
<1>2. x \in Seq(Event) /\ m \in Nat BY DEF Records
<1>3. /\ t \in Seq(Event) /\ Len(t) = n + m /\ DOMAIN t = 1..n + m /\ DOMAIN log = 1..n
      /\ \A i \in 1..n : t[i] = log[i]
  BY <1>1, <1>2
<1> HIDE DEF t, n, m
<1>4. ASSUME NEW w, NEW v, \A i \in 1..n : i \in w <=> i \in v PROVE UsageOf(t, v) = UsageOf(log, w)
  BY <1>1, <1>2, <1>4, UsageIdle DEF Records, t, n
<1>5. RunUsage(t, since) = RunUsage(log, since)
  <2>1. \A i \in 1..n : i \in since + 1..n <=> i \in since + 1..n + m BY <1>1, <1>2
  <2>2. UsageOf(t, since + 1..n + m) = UsageOf(log, since + 1..n) BY <1>4, <2>1
  <2> QED BY <1>3, <2>2 DEF RunUsage, n
<1>6. ASSUME NEW d PROVE DayUsage(t, d) = DayUsage(log, d)
  <2> DEFINE w == {i \in DOMAIN log : log[i].day = d}
             v == {i \in DOMAIN t : t[i].day = d}
  <2>1. \A i \in 1..n : i \in w <=> i \in v BY <1>1, <1>2, <1>3
  <2> HIDE DEF w, v
  <2> QED BY <1>4, <2>1 DEF DayUsage, w, v
<1> QED BY <1>5, <1>6 DEF t

\* A window has numbers.
LEMMA WindowTypes ==
  ASSUME Types
  PROVE  /\ RunUsage(log, since) \in UsageRecord /\ \A d : DayUsage(log, d) \in UsageRecord
BY UsageType DEF Types, RunUsage, DayUsage

\* A usage has a cost, and finitely many goals.
LEMMA UsageNumbers ==
  ASSUME NEW u \in UsageRecord
  PROVE  /\ u.tokens \in Nat /\ CostUSD(u) \in Nat
         /\ IsFiniteSet(u.goals) /\ Cardinality(u.goals) \in 0..G
<1>1. Price * u.toPrice \in Nat /\ u.reported \in Nat /\ u.tokens \in Nat
  BY BudgetAssumption, GoalsAssumption DEF UsageRecord
<1>2. u.goals \in SUBSET Goal BY DEF UsageRecord
<1>3. IsFiniteSet(Goal) /\ Cardinality(Goal) = G
  <2>1. G \in Nat /\ G > 0 /\ 1 \in Int /\ G \in Int BY BudgetAssumption, GoalsAssumption
  <2>2. IsFiniteSet(1..G) /\ Cardinality(1..G) = IF 1 > G THEN 0 ELSE G - 1 + 1
    BY <2>1, FS_Interval
  <2> QED BY <2>1, <2>2 DEF Goal
<1>4. IsFiniteSet(u.goals) /\ Cardinality(u.goals) <= G BY <1>2, <1>3, FS_Subset
<1>5. Cardinality(u.goals) \in Nat BY <1>4, FS_CardinalityType
<1> QED BY <1>1, <1>4, <1>5, BudgetAssumption, GoalsAssumption DEF CostUSD

-----------------------------------------------------------------------------
(* What the budgets say *)

\* The two windows; a budget that limits nothing is not looked at.
LEMMA StoppedIs ==
  ASSUME Types
  PROVE  SpendStopped <=> \/ SpendReached(setting.run, RunUsage(log, since))
                          \/ SpendReached(setting.day, DayUsage(log, today))
<1> DEFINE A == [window |-> <<"run">>, budget |-> setting.run, usage |-> RunUsage(log, since)]
           B == [window |-> <<"day", today>>, budget |-> setting.day, usage |-> DayUsage(log, today)]
           P(w) == SpendReached(w.budget, w.usage)
<1>1. \A b, u : SpendReached(b, u) => b # NoBudget BY DEF SpendReached, NoBudget
<1>2. SpendStopped <=> \E w \in {x \in {A, B} : x.budget # NoBudget} : P(w)
  BY DEF SpendStopped, Windows
<1>3. \A w \in {A, B} : P(w) => w.budget # NoBudget BY <1>1
<1>4. SpendStopped <=> P(A) \/ P(B) BY <1>2, <1>3
<1>5. /\ P(A) <=> SpendReached(setting.run, RunUsage(log, since))
      /\ P(B) <=> SpendReached(setting.day, DayUsage(log, today))
  OBVIOUS
<1> QED BY <1>4, <1>5

\* A window is tripped if its spend or its goals have reached the budget.
LEMMA TrippedIs ==
  ASSUME Types
  PROVE  /\ <<"run">> \in Tripped =>
              \/ SpendReached(setting.run, RunUsage(log, since))
              \/ GoalsReached(setting.run, RunUsage(log, since))
         /\ <<"day", today>> \in Tripped <=>
              \/ SpendReached(setting.day, DayUsage(log, today))
              \/ GoalsReached(setting.day, DayUsage(log, today))
         /\ Tripped \subseteq {<<"run">>, <<"day", today>>} /\ IsFiniteSet(Tripped)
<1>1. \A b, u : SpendReached(b, u) \/ GoalsReached(b, u) => b # NoBudget
  BY DEF SpendReached, GoalsReached, NoBudget
<1>2. <<"run">> # <<"day", today>> OBVIOUS
<1>3. Tripped \subseteq {<<"run">>, <<"day", today>>} BY DEF Tripped, Windows
<1>4. IsFiniteSet({<<"run">>, <<"day", today>>})
  <2>1. IsFiniteSet({<<"run">>}) BY FS_Singleton
  <2>2. IsFiniteSet({<<"run">>} \cup {<<"day", today>>}) BY <2>1, FS_AddElement
  <2>3. {<<"run">>} \cup {<<"day", today>>} = {<<"run">>, <<"day", today>>} OBVIOUS
  <2> QED BY <2>2, <2>3
<1>5. IsFiniteSet(Tripped) BY <1>3, <1>4, FS_Subset
<1> DEFINE A == [window |-> <<"run">>, budget |-> setting.run, usage |-> RunUsage(log, since)]
           B == [window |-> <<"day", today>>, budget |-> setting.day, usage |-> DayUsage(log, today)]
           P(w) == SpendReached(w.budget, w.usage) \/ GoalsReached(w.budget, w.usage)
<1>6. Tripped = {w.window : w \in {v \in {x \in {A, B} : x.budget # NoBudget} : P(v)}}
  BY DEF Tripped, Windows
<1>7. \A w \in {A, B} : P(w) => w.budget # NoBudget BY <1>1
<1>8. \A w \in {A, B} : P(w) => w.window \in Tripped BY <1>6, <1>7
<1>9. \A x \in Tripped : \E w \in {A, B} : P(w) /\ x = w.window BY <1>6
<1>10. A.window = <<"run">> /\ B.window = <<"day", today>> OBVIOUS
<1>11. P(A) <=> \/ SpendReached(setting.run, RunUsage(log, since))
                \/ GoalsReached(setting.run, RunUsage(log, since))
  OBVIOUS
<1>12. P(B) <=> \/ SpendReached(setting.day, DayUsage(log, today))
                \/ GoalsReached(setting.day, DayUsage(log, today))
  OBVIOUS
<1> HIDE DEF A, B, P
<1> QED BY <1>2, <1>3, <1>5, <1>8, <1>9, <1>10, <1>11, <1>12

\* The goals that may start fit into both budgets.
LEMMA GoalsLeftIs ==
  ASSUME Types
  PROVE  /\ GoalsLeft \in Nat /\ GoalsLeft <= Unlimited
         /\ GoalsLeft = Unlimited => /\ setting.run.goals > 0 => setting.run.goals > G
                                     /\ setting.day.goals > 0 => setting.day.goals > G
         /\ GoalsRoom(0) => GoalsRoom(GoalsLeft)
<1> DEFINE A == [window |-> <<"run">>, budget |-> setting.run, usage |-> RunUsage(log, since)]
           B == [window |-> <<"day", today>>, budget |-> setting.day, usage |-> DayUsage(log, today)]
           rest(b, u) == IF Cardinality(u.goals) < b.goals THEN b.goals - Cardinality(u.goals) ELSE 0
           W == {v \in Windows : v.budget.goals > 0}
           S == {Unlimited} \cup {rest(w.budget, w.usage) : w \in W}
<1>1. /\ setting.run \in BudgetRecord /\ setting.day \in BudgetRecord /\ G \in Nat /\ G > 0
  BY BudgetAssumption, GoalsAssumption DEF Types
<1>2. /\ setting.run.goals \in Nat /\ setting.day.goals \in Nat BY <1>1 DEF BudgetRecord
<1>3. /\ Cardinality(RunUsage(log, since).goals) \in Nat
      /\ Cardinality(DayUsage(log, today).goals) \in Nat
  BY WindowTypes, UsageNumbers
<1>4. CASE SpendStopped
  BY <1>1, <1>4 DEF GoalsLeft, Unlimited
<1>5. CASE ~SpendStopped
  <2>1. GoalsLeft = Min(S) BY <1>5 DEF GoalsLeft
  <2>2. \A w \in Windows : w \in {A, B} BY DEF Windows
  <2>3. \A w \in {A, B} : rest(w.budget, w.usage) \in Nat BY <1>2, <1>3
  <2>4. Unlimited \in Nat /\ Unlimited = G + 1 BY <1>1 DEF Unlimited
  <2>5. S \subseteq Nat /\ S # {} BY <2>2, <2>3, <2>4
  <2>6. Min(S) \in Nat /\ Min(S) <= Unlimited /\ \A w \in W : Min(S) <= rest(w.budget, w.usage)
    <3>1. Min(S) \in S /\ \A k \in S : Min(S) <= k BY <2>5, MinIs
    <3> QED BY <2>5, <3>1
  <2>7. ASSUME setting.run.goals > 0 PROVE Min(S) <= rest(setting.run, RunUsage(log, since))
    <3>1. A \in W BY <2>7 DEF Windows, NoBudget
    <3> HIDE DEF S, W
    <3> QED BY <2>6, <3>1
  <2>8. ASSUME setting.day.goals > 0 PROVE Min(S) <= rest(setting.day, DayUsage(log, today))
    <3>1. B \in W BY <2>8 DEF Windows, NoBudget
    <3> HIDE DEF S, W
    <3> QED BY <2>6, <3>1
  <2> HIDE DEF S, W
  <2>9. ASSUME Min(S) = Unlimited
        PROVE  /\ setting.run.goals > 0 => setting.run.goals > G
               /\ setting.day.goals > 0 => setting.day.goals > G
    BY <1>1, <1>2, <1>3, <2>4, <2>6, <2>7, <2>8, <2>9
  <2>10. ASSUME GoalsRoom(0) PROVE GoalsRoom(Min(S))
    BY <1>2, <1>3, <2>6, <2>7, <2>8, <2>10 DEF GoalsRoom, GoalRoom
  <2> QED BY <2>1, <2>6, <2>9, <2>10
<1> QED BY <1>4, <1>5

\* A list of a finite set has each of its elements once.
LEMMA ListIs ==
  ASSUME NEW S, IsFiniteSet(S)
  PROVE  /\ Cardinality(S) \in Nat /\ SetToSeq(S) \in [1..Cardinality(S) -> S]
         /\ SetToSeq(S) \in Seq(S) /\ Len(SetToSeq(S)) = Cardinality(S)
         /\ DOMAIN SetToSeq(S) = 1..Cardinality(S)
         /\ \A i, j \in DOMAIN SetToSeq(S) : SetToSeq(S)[i] = SetToSeq(S)[j] => i = j
         /\ \A x \in S : \E i \in DOMAIN SetToSeq(S) : SetToSeq(S)[i] = x
<1> DEFINE n == Cardinality(S)
           f == SetToSeq(S)
<1>1. n \in Nat /\ ExistsBijection(1..n, S) BY FS_CardinalityType
<1>2. PICK h : h \in Bijection(1..n, S) BY <1>1 DEF ExistsBijection
<1>3. h \in [1..n -> S] /\ IsInjective(h) BY <1>2 DEF Bijection, Injection, IsInjective
<1>4. f \in [1..n -> S] /\ IsInjective(f) BY <1>3 DEF SetToSeq
<1> HIDE DEF f
<1>5. f \in Injection(1..n, S) BY <1>4 DEF Injection, IsInjective
<1>6. IsFiniteSet(1..n) /\ Cardinality(1..n) = n
  <2>1. 1 \in Int /\ n \in Int BY <1>1
  <2>2. IsFiniteSet(1..n) /\ Cardinality(1..n) = IF 1 > n THEN 0 ELSE n - 1 + 1 BY <2>1, FS_Interval
  <2> QED BY <1>1, <2>2
<1>7. f \in Surjection(1..n, S)
  <2>1. Cardinality(1..n) = Cardinality(S) <=> f \in Surjection(1..n, S) BY <1>5, FS_Injection
  <2> QED BY <1>6, <2>1
<1>8. \A x \in S : \E i \in 1..n : f[i] = x BY <1>7 DEF Surjection
<1>9. DOMAIN f = 1..n BY <1>4
<1>10. f \in Seq(S) /\ Len(f) = n BY <1>1, <1>4, <1>9
<1>11. \A i, j \in DOMAIN f : f[i] = f[j] => i = j BY <1>4 DEF IsInjective
<1> QED BY <1>1, <1>4, <1>8, <1>9, <1>10, <1>11 DEF f

\* budgetStop appends an event for each tripped window the state does not know of.
LEMMA RecordIs ==
  ASSUME Types, NEW known, Record(known)
  PROVE  \E x : /\ Records(x) /\ log' = log \o x
                /\ moved' = (moved \/ Tripped \ known # {})
                /\ (Tripped \subseteq known => x = <<>>)
                /\ \A i \in 1..Len(x) : x[i].day = today /\ x[i].window \in Tripped \ known
                /\ \A i, j \in 1..Len(x) : x[i].window = x[j].window => i = j
                /\ \A w \in Tripped \ known : \E i \in 1..Len(x) : x[i].window = w
<1> DEFINE S == Tripped \ known
           new == SetToSeq(S)
           x == [i \in DOMAIN new |-> Exhausted(new[i])]
<1>1. IsFiniteSet(S) BY TrippedIs, FS_Subset
<1>2. /\ Cardinality(S) \in Nat /\ DOMAIN new = 1..Cardinality(S)
      /\ Len(new) = Cardinality(S) /\ new \in Seq(S)
      /\ \A i \in DOMAIN new : new[i] \in S
      /\ \A i, j \in DOMAIN new : new[i] = new[j] => i = j
      /\ \A w \in S : \E i \in DOMAIN new : new[i] = w
  BY <1>1, ListIs
<1>3. log' = log \o x /\ moved' = (moved \/ new # <<>>) BY DEF Record
<1>4. \A w \in S : w \in Window /\ today \in Nat BY TrippedIs DEF Types, Window
<1>5. Cardinality(S) = 0 <=> S = {} BY <1>1, FS_EmptySet
<1> HIDE DEF S, new
<1>6. \A i \in DOMAIN new : x[i] = [type |-> "BudgetExhausted", window |-> new[i], day |-> today]
  BY DEF Exhausted
<1>7. \A i \in DOMAIN new : x[i] \in Event BY <1>2, <1>4, <1>6 DEF Event
<1>8. DOMAIN x = DOMAIN new OBVIOUS
<1> HIDE DEF x
<1>9. x \in Seq(Event) /\ Len(x) = Cardinality(S)
  <2>1. x \in [1..Cardinality(S) -> Event] BY <1>2, <1>7, <1>8 DEF x
  <2> QED BY <1>2, <2>1
<1>10. Records(x) BY <1>2, <1>6, <1>9 DEF Records
<1>11. new # <<>> <=> S # {} BY <1>2, <1>5
<1>12. S = {} => x = <<>> BY <1>5, <1>9
<1>13. \A i \in 1..Len(x) : i \in DOMAIN new BY <1>2, <1>9
<1>14. \A i \in 1..Len(x) : x[i].window = new[i] /\ x[i].day = today
  <2> TAKE i \in 1..Len(x)
  <2>1. i \in DOMAIN new BY <1>13
  <2>2. x[i] = [type |-> "BudgetExhausted", window |-> new[i], day |-> today] BY <1>6, <2>1
  <2> QED BY <2>2
<1>15. \A i \in 1..Len(x) : x[i].day = today /\ x[i].window \in S BY <1>2, <1>13, <1>14
<1>16. \A i, j \in 1..Len(x) : x[i].window = x[j].window => i = j BY <1>2, <1>13, <1>14
<1>17. \A w \in S : \E i \in 1..Len(x) : x[i].window = w
  <2>1. \A i \in DOMAIN new : i \in 1..Len(x) BY <1>2, <1>9
  <2> QED BY <1>2, <1>14, <2>1
<1>18. moved' = (moved \/ S # {}) BY <1>3, <1>11
<1>19. Tripped \subseteq known => x = <<>> BY <1>12 DEF S
<1> QED BY <1>3, <1>10, <1>15, <1>16, <1>17, <1>18, <1>19 DEF S

-----------------------------------------------------------------------------
(* The log and the types *)

\* The events of a day are events.
LEMMA EventsOfToday ==
  ASSUME Types
  PROVE  /\ \A g \in Goal : /\ Started(g) \in Event /\ Started(g).day = today
                            /\ Started(g).type = "TicketCreated" /\ Started(g).goal = g
         /\ \A g \in Goal : \A c \in setting.charges :
              /\ Charged(g, c) \in Event /\ Charged(g, c).day = today
              /\ Charged(g, c).type = "charge" /\ Charged(g, c).charge = c
<1>1. setting.charges \subseteq ChargeRecord /\ today \in Nat BY BudgetAssumption, GoalsAssumption DEF Types
<1> QED BY <1>1 DEF Started, Charged, Event

\* What an append makes of the log.
LogTypes ==
  /\ log \in Seq(Event) /\ since \in 0..Len(log)
  /\ \A i \in 1..Len(log) : log[i].day <= today

\* An event of today leaves the log well formed.
LEMMA LogAppend ==
  ASSUME Types, NEW e \in Event, e.day = today, log' = Append(log, e),
         since' = since, today' = today
  PROVE  LogTypes'
<1> DEFINE n == Len(log)
<1>1. /\ log \in Seq(Event) /\ n \in Nat /\ since \in 0..n /\ today \in Nat
      /\ \A i \in 1..n : log[i].day <= today
  BY DEF Types
<1>2. log' \in Seq(Event) /\ Len(log') = n + 1 /\ log'[n + 1] = e /\ \A i \in 1..n : log'[i] = log[i]
  BY <1>1
<1> HIDE DEF n
<1>3. \A i \in 1..n + 1 : i = n + 1 \/ i \in 1..n BY <1>1
<1>4. ASSUME NEW i \in 1..n + 1 PROVE log'[i].day <= today
  <2>1. CASE i = n + 1
    <3>1. log'[i].day = today BY <1>2, <2>1
    <3>2. today <= today BY <1>1
    <3> QED BY <3>1, <3>2
  <2>2. CASE i \in 1..n
    <3>1. log'[i] = log[i] /\ log[i].day <= today BY <1>1, <1>2, <2>2
    <3> QED BY <3>1
  <2> QED BY <1>3, <2>1, <2>2
<1>5. since \in 0..n + 1 BY <1>1
<1> QED BY <1>2, <1>4, <1>5 DEF LogTypes

\* So do the records of budgets that ran out.
LEMMA LogRecord ==
  ASSUME Types, NEW known, Record(known), since' = since, today' = today
  PROVE  LogTypes'
<1> DEFINE n == Len(log)
<1>1. /\ log \in Seq(Event) /\ n \in Nat /\ since \in 0..n /\ today \in Nat
      /\ \A i \in 1..n : log[i].day <= today
  BY DEF Types
<1>2. PICK x : Records(x) /\ log' = log \o x /\ \A i \in 1..Len(x) : x[i].day = today BY RecordIs
<1>3. x \in Seq(Event) /\ Len(x) \in Nat BY <1>2 DEF Records
<1>4. log' \in Seq(Event) /\ Len(log') = n + Len(x) BY <1>1, <1>2, <1>3
<1>5. ASSUME NEW i \in 1..n + Len(x) PROVE log'[i].day <= today
  <2>1. CASE i \in 1..n
    <3>1. log'[i] = log[i] BY <1>1, <1>2, <1>3, <2>1
    <3> QED BY <1>1, <2>1, <3>1
  <2>2. CASE i \notin 1..n
    <3>1. i - n \in 1..Len(x) /\ log'[i] = x[i - n] BY <1>1, <1>2, <1>3, <2>2
    <3>2. log'[i].day = today BY <1>2, <3>1
    <3>3. today <= today BY <1>1
    <3> QED BY <3>2, <3>3
  <2> QED BY <2>1, <2>2
<1>6. since \in 0..n + Len(x) BY <1>1, <1>3
<1> QED BY <1>4, <1>5, <1>6 DEF LogTypes

\* What the pass holds, and how far the attempts are.
PassTypes ==
  /\ setting \in Options /\ today \in Nat
  /\ pc \in {"off", "goals", "create", "slots", "spend", "launch", "drain", "end"}
  /\ todo \subseteq Goal /\ slots \in Nat /\ left \in Nat /\ stop \in BOOLEAN
  /\ snap.active \subseteq Goal /\ snap.ready \subseteq Goal

WorkTypes ==
  /\ status \in [Goal -> {"queued", "ready", "claimed", "proposed", "done"}]
  /\ attempts = [g \in Goal |-> attempts[g]]
  /\ flight \in [Goal -> {"no", "launched", "claimed", "closing"}]

\* Together they are the types.
LEMMA TypesAre == Types <=> LogTypes /\ PassTypes /\ WorkTypes
BY DEF Types, LogTypes, PassTypes, WorkTypes

\* The phases follow one another.
LEMMA PhaseIs ==
  /\ pc = "goals" => NextPhase[pc] = "create"
  /\ pc = "create" => NextPhase[pc] = "slots"
  /\ pc = "slots" => NextPhase[pc] = "spend"
  /\ pc = "spend" => NextPhase[pc] = "launch"
  /\ pc = "launch" => NextPhase[pc] = "drain"
  /\ pc = "drain" => NextPhase[pc] = "end"
BY DEF NextPhase

\* The slots that are free, and the attempts, are finitely many.
LEMMA Finite ==
  /\ G \in Nat /\ G > 0 /\ Concurrency \in Nat /\ Concurrency > 0
  /\ \A S \in SUBSET Goal : IsFiniteSet(S) /\ Cardinality(S) \in Nat
<1>1. G \in Nat /\ G > 0 /\ Concurrency \in Nat /\ Concurrency > 0 BY BudgetAssumption, GoalsAssumption
<1>2. IsFiniteSet(1..G)
  <2>1. 1 \in Int /\ G \in Int BY <1>1
  <2> QED BY <2>1, FS_Interval
<1>3. ASSUME NEW S \in SUBSET Goal PROVE IsFiniteSet(S) /\ Cardinality(S) \in Nat
  <2>1. IsFiniteSet(S) BY <1>2, FS_Subset DEF Goal
  <2> QED BY <2>1, FS_CardinalityType
<1> QED BY <1>1, <1>3

\* Nobody's types are lost.
LEMMA WorkTyped ==
  ASSUME Types, BudgetNext
  PROVE  WorkTypes'
<1> USE DEF Types, WorkTypes
<1>1. CASE UNCHANGED workVars BY <1>1 DEF workVars
<1>2. CASE StartGoal
  <2>1. PICK g : status' = [status EXCEPT ![g] = "ready"] BY <1>2 DEF StartGoal
  <2> QED BY <1>2, <2>1 DEF StartGoal
<1>3. CASE Launch
  <2>1. PICK L : flight' = [g \in Goal |-> IF g \in L THEN "launched" ELSE flight[g]]
    BY <1>3 DEF Launch
  <2> QED BY <1>3, <2>1 DEF Launch
<1>4. CASE Die BY <1>4 DEF Die
<1>5. ASSUME NEW g \in Goal, Drain(g) PROVE WorkTypes' BY <1>5 DEF Drain, Settle, SendBack
<1>6. ASSUME NEW g \in Goal, RestartStalled(g) PROVE WorkTypes'
  BY <1>6 DEF RestartStalled, SendBack
<1>7. ASSUME NEW g \in Goal, Claim(g) PROVE WorkTypes' BY <1>7 DEF Claim
<1>8. ASSUME NEW g \in Goal, Close(g) PROVE WorkTypes' BY <1>8 DEF Close, Settle, SendBack
<1>9. ASSUME NEW g \in Goal, Release(g) PROVE WorkTypes' BY <1>9 DEF Release
<1>10. ASSUME EndPass \/ \E g \in Goal : Rested(g) PROVE WorkTypes' BY <1>10 DEF EndPass, Rested
<1> QED BY <1>1, <1>2, <1>3, <1>4, <1>5, <1>6, <1>7, <1>8, <1>9, <1>10
     DEF BudgetNext, StartRun, AskGoals, EndGoals, CountSlots, AskSpend, EndDrain, Midnight

\* Nor the pass's.
LEMMA PassTyped ==
  ASSUME Types, BudgetNext
  PROVE  PassTypes' /\ setting' = setting
<1> USE DEF PassTypes
<1>0. PassTypes BY TypesAre
<1>1. CASE StartRun BY <1>0, <1>1 DEF StartRun
<1>2. CASE AskGoals
  <2>1. GoalsLeft \in Nat BY GoalsLeftIs
  <2> QED BY <1>0, <1>2, <2>1, PhaseIs DEF AskGoals, winVars
<1>3. CASE StartGoal
  <2>1. left' \in Nat BY <1>0, <1>3 DEF StartGoal
  <2> QED BY <1>0, <1>3, <2>1 DEF StartGoal, winVars
<1>4. CASE EndGoals BY <1>0, <1>4, PhaseIs DEF EndGoals, winVars
<1>5. CASE CountSlots
  <2>1. \A S \in SUBSET Goal : Cardinality(S) \in Nat BY Finite
  <2>2. Concurrency \in Nat BY Finite
  <2>3. slots' \in Nat
    <3> DEFINE a == Loaded.active \cup {g \in Goal : InFlight(g)}
    <3>1. a \in SUBSET Goal BY DEF Loaded
    <3> HIDE DEF a
    <3>2. slots' = IF Cardinality(a) < Concurrency THEN Concurrency - Cardinality(a) ELSE 0
      BY <1>5 DEF CountSlots, a
    <3> QED BY <2>1, <2>2, <3>1, <3>2
  <2>4. snap'.active \subseteq Goal /\ snap'.ready \subseteq Goal BY <1>5 DEF CountSlots, Loaded
  <2> QED BY <1>0, <1>5, <2>3, <2>4, PhaseIs DEF CountSlots, winVars
<1>6. CASE AskSpend
  <2>1. stop' \in BOOLEAN BY <1>6 DEF AskSpend, SpendStopped
  <2> QED BY <1>0, <1>6, <2>1, PhaseIs DEF AskSpend, winVars
<1>7. CASE Launch BY <1>0, <1>7, PhaseIs DEF Launch, winVars
<1>8. CASE EndDrain BY <1>0, <1>8, PhaseIs DEF EndDrain, winVars
<1>9. CASE EndPass BY <1>0, <1>9 DEF EndPass, winVars
<1>10. CASE Midnight BY <1>0, <1>10 DEF Midnight
<1>11. CASE Die BY <1>0, <1>11 DEF Die
<1>12. ASSUME NEW g \in Goal, Drain(g) \/ RestartStalled(g) \/ Claim(g) \/ Close(g) \/ Release(g)
       PROVE  PassTypes' /\ setting' = setting
  BY <1>0, <1>12 DEF Drain, RestartStalled, Claim, Close, Release, runVars, winVars
<1>13. ASSUME NEW g \in Goal, Rested(g) PROVE PassTypes' /\ setting' = setting
  BY <1>0, <1>13 DEF Rested, winVars
<1> QED BY <1>1, <1>2, <1>3, <1>4, <1>5, <1>6, <1>7, <1>8, <1>9, <1>10, <1>11, <1>12, <1>13
     DEF BudgetNext

\* Nor the log's.
LEMMA LogTyped ==
  ASSUME Types, BudgetNext
  PROVE  LogTypes'
<1>0. LogTypes BY TypesAre
<1>1. CASE StartRun
  <2>1. log \in Seq(Event) BY <1>0 DEF LogTypes
  <2>2. Len(log) \in 0..Len(log) BY <2>1
  <2> QED BY <1>0, <1>1, <2>2 DEF StartRun, LogTypes
<1>2. CASE AskGoals BY <1>2, LogRecord DEF AskGoals, winVars
<1>3. CASE AskSpend BY <1>3, LogRecord DEF AskSpend, winVars
<1>4. CASE StartGoal
  <2>1. PICK g \in Goal : log' = Append(log, Started(g))
    <3>1. todo \subseteq Nat /\ todo # {} /\ todo \subseteq Goal
      BY <1>4, Finite DEF StartGoal, Types, Goal
    <3>2. Min(todo) \in Goal BY <3>1, MinIs
    <3> QED BY <1>4, <3>2 DEF StartGoal, Append1
  <2>2. since' = since /\ today' = today BY <1>4 DEF StartGoal, winVars
  <2> QED BY <2>1, <2>2, EventsOfToday, LogAppend
<1>5. ASSUME NEW g \in Goal, Close(g) PROVE LogTypes'
  <2>1. PICK c \in setting.charges : log' = Append(log, Charged(g, c)) BY <1>5 DEF Close, Append1
  <2>2. since' = since /\ today' = today BY <1>5 DEF Close, winVars
  <2> QED BY <2>1, <2>2, EventsOfToday, LogAppend
<1>6. CASE Midnight
  <2>1. today \in Nat /\ log \in Seq(Event) /\ \A i \in 1..Len(log) : log[i].day \in Nat
    BY DEF Types, Event
  <2> QED BY <1>0, <1>6, <2>1 DEF Midnight, LogTypes
<1>7. CASE UNCHANGED <<log, since, today>> BY <1>0, <1>7 DEF LogTypes
<1>8. ASSUME NEW g \in Goal, Drain(g) \/ RestartStalled(g) \/ Claim(g) \/ Release(g) \/ Rested(g)
      PROVE  UNCHANGED <<log, since, today>>
  BY <1>8 DEF Drain, RestartStalled, Claim, Release, Rested, winVars
<1>9. CASE EndGoals \/ CountSlots \/ Launch \/ EndDrain \/ EndPass \/ Die
  <2>1. UNCHANGED <<log, since, today>>
    BY <1>9 DEF EndGoals, CountSlots, Launch, EndDrain, EndPass, Die, winVars
  <2> QED BY <1>7, <2>1
<1> QED BY <1>1, <1>2, <1>3, <1>4, <1>5, <1>6, <1>7, <1>8, <1>9 DEF BudgetNext

\* The types hold to begin with and are kept.
LEMMA TypesInit == BudgetInit => Types
<1> SUFFICES ASSUME BudgetInit PROVE Types OBVIOUS
<1>1. log = <<>> /\ since = 0 /\ today = 1 BY DEF BudgetInit
<1>2. log \in Seq(Event) /\ Len(log) = 0 BY <1>1
<1>3. since \in 0..Len(log) /\ today \in Nat /\ \A i \in 1..Len(log) : log[i].day <= today
  BY <1>1, <1>2
<1>4. setting \in Options /\ pc = "off" /\ todo = {} /\ slots = 0 /\ left = 0 /\ stop = FALSE
      /\ snap.active = {} /\ snap.ready = {}
  BY DEF BudgetInit, NothingLoaded
<1>5. /\ status = [g \in Goal |-> IF g \in setting.goals THEN "queued" ELSE "done"]
      /\ attempts = [g \in Goal |-> 0]
      /\ flight = [g \in Goal |-> "no"]
  BY DEF BudgetInit
<1> QED BY <1>2, <1>3, <1>4, <1>5 DEF Types

\* Every step keeps the types, and the setting.
LEMMA TypesKept ==
  ASSUME Types, [BudgetNext]_bvars
  PROVE  Types' /\ setting' = setting
<1>1. CASE BudgetNext
  <2>1. WorkTypes' /\ PassTypes' /\ LogTypes' /\ setting' = setting
    BY <1>1, WorkTyped, PassTyped, LogTyped
  <2> QED BY <2>1 DEF Types, LogTypes, PassTypes, WorkTypes
<1>2. CASE UNCHANGED bvars BY <1>2 DEF bvars, runVars, workVars, winVars, Types
<1> QED BY <1>1, <1>2

-----------------------------------------------------------------------------
(* Room in a window *)

\* It has spent the same, and started the same goals.
SameSpend(u, v) == v.tokens = u.tokens /\ CostUSD(v) = CostUSD(u)
SameUse(u, v) == SameSpend(u, v) /\ v.goals = u.goals

\* Fewer attempts need less room.
LEMMA RoomLess ==
  ASSUME setting \in Options, NEW b \in BudgetRecord, NEW u \in UsageRecord,
         NEW j \in Nat, NEW k \in Nat, j <= k, Room(b, u, k)
  PROVE  Room(b, u, j)
<1>1. MaxTokens \in Nat /\ MaxUSD \in Nat BY MostIs
<1>2. u.tokens \in Nat /\ CostUSD(u) \in Nat BY UsageNumbers
<1>3. b.tokens \in Nat /\ b.usd \in Nat /\ Concurrency \in Nat BY Finite DEF BudgetRecord
<1>4. ASSUME NEW m \in Nat PROVE j * m <= k * m /\ j * m \in Nat /\ k * m \in Nat
  <2>1. k - j \in Nat /\ k = j + (k - j) OBVIOUS
  <2>2. (k - j) * m \in Nat /\ j * m \in Nat /\ k * m \in Nat BY <2>1
  <2>3. k * m = j * m + (k - j) * m BY <2>1
  <2> QED BY <2>2, <2>3
<1>5. j * MaxTokens <= k * MaxTokens /\ j * MaxTokens \in Nat /\ k * MaxTokens \in Nat BY <1>1, <1>4
<1>6. j * MaxUSD <= k * MaxUSD /\ j * MaxUSD \in Nat /\ k * MaxUSD \in Nat BY <1>1, <1>4
<1>7. Concurrency * MaxTokens \in Nat /\ Concurrency * MaxUSD \in Nat BY <1>1, <1>3
<1> QED BY <1>2, <1>3, <1>5, <1>6, <1>7 DEF Room

\* A window that has not reached its budget has room for every slot.
LEMMA RoomOpen ==
  ASSUME setting \in Options, NEW b \in BudgetRecord, NEW u \in UsageRecord,
         NEW k \in Nat, k <= Concurrency, ~SpendReached(b, u)
  PROVE  Room(b, u, k)
<1>1. MaxTokens \in Nat /\ MaxUSD \in Nat BY MostIs
<1>2. u.tokens \in Nat /\ CostUSD(u) \in Nat BY UsageNumbers
<1>3. b.tokens \in Nat /\ b.usd \in Nat /\ Concurrency \in Nat BY Finite DEF BudgetRecord
<1>4. Concurrency * MaxTokens \in Nat /\ Concurrency * MaxUSD \in Nat BY <1>1, <1>3
<1>5. Room(b, u, Concurrency)
  BY <1>2, <1>3, <1>4 DEF Room, SpendReached
<1> QED BY <1>3, <1>5, RoomLess

\* So has one that is new.
LEMMA RoomFresh ==
  ASSUME setting \in Options, NEW b \in BudgetRecord, NEW u \in UsageRecord,
         NEW k \in Nat, k <= Concurrency, Fresh(u)
  PROVE  Room(b, u, k)
<1>1. u.tokens = 0 /\ CostUSD(u) = 0 BY Finite, BudgetAssumption, GoalsAssumption DEF Fresh, CostUSD
<1>2. ~SpendReached(b, u) BY <1>1 DEF SpendReached, BudgetRecord
<1> QED BY <1>2, RoomOpen

\* An attempt that is charged takes the room it had.
LEMMA RoomCharge ==
  ASSUME setting \in Options, NEW b \in BudgetRecord, NEW u \in UsageRecord, NEW k \in Nat,
         NEW e \in Event, e.type = "charge", e.charge \in setting.charges, NEW inside \in BOOLEAN,
         Room(b, u, k + 1)
  PROVE  Room(b, Read(u, e, inside), k)
<1>1. MaxTokens \in Nat /\ MaxUSD \in Nat BY MostIs
<1>2. u.tokens \in Nat /\ CostUSD(u) \in Nat BY UsageNumbers
<1>3. b.tokens \in Nat /\ b.usd \in Nat /\ Concurrency \in Nat BY Finite DEF BudgetRecord
<1> DEFINE v == Read(u, e, inside)
           cost == CostUSD(AddCharge(NoUsage, e.charge))
<1>4. CASE ~inside
  <2>1. v = u BY <1>4, ReadCharge
  <2>2. Room(b, u, k) BY RoomLess
  <2> QED BY <2>1, <2>2
<1>5. CASE inside
  <2>1. v.tokens = u.tokens + e.charge.tokens /\ CostUSD(v) = CostUSD(u) + cost BY <1>5, ReadCharge
  <2>2. v \in UsageRecord BY ReadType
  <2>3. v.tokens \in Nat /\ CostUSD(v) \in Nat BY <2>2, UsageNumbers
  <2>4. e.charge.tokens <= MaxTokens /\ cost <= MaxUSD BY MostIs
  <2>5. e.charge.tokens \in Nat /\ cost \in Nat
    <3>1. e.charge.tokens \in Nat BY DEF Event, ChargeRecord
    <3>2. NoUsage \in UsageRecord BY DEF NoUsage, UsageRecord
    <3>3. Read(NoUsage, e, TRUE) = AddCharge(NoUsage, e.charge) BY DEF Read
    <3>4. AddCharge(NoUsage, e.charge) \in UsageRecord BY <3>2, <3>3, ReadType
    <3> QED BY <3>1, <3>4, UsageNumbers
  <2> HIDE DEF v, cost
  <2>6. (k + 1) * MaxTokens = k * MaxTokens + MaxTokens /\ k * MaxTokens \in Nat BY <1>1
  <2>7. (k + 1) * MaxUSD = k * MaxUSD + MaxUSD /\ k * MaxUSD \in Nat BY <1>1
  <2>8. Concurrency * MaxTokens \in Nat /\ Concurrency * MaxUSD \in Nat BY <1>1, <1>3
  <2>9. /\ b.tokens > 0 => u.tokens + (k * MaxTokens + MaxTokens) < b.tokens + Concurrency * MaxTokens
        /\ b.usd > 0 => CostUSD(u) + (k * MaxUSD + MaxUSD) < b.usd + Concurrency * MaxUSD
    BY <2>6, <2>7 DEF Room
  <2>10. Room(b, v, k) BY <1>1, <1>2, <1>3, <2>1, <2>3, <2>4, <2>5, <2>6, <2>7, <2>8, <2>9 DEF Room
  <2> QED BY <2>10 DEF v
<1> QED BY <1>4, <1>5

\* What stays within its room stays within its bounds.
LEMMA RoomWithin ==
  ASSUME setting \in Options, NEW b \in BudgetRecord, NEW u \in UsageRecord,
         NEW k \in Nat, NEW n \in Nat, Room(b, u, k), GoalRoom(b, u, n)
  PROVE  Within(b, u)
<1>1. Room(b, u, 0) BY RoomLess
<1>2. MaxTokens \in Nat /\ MaxUSD \in Nat BY MostIs
<1>3. 0 * MaxTokens = 0 /\ 0 * MaxUSD = 0 BY <1>2
<1>4. u.tokens \in Nat /\ CostUSD(u) \in Nat /\ Cardinality(u.goals) \in Nat BY UsageNumbers
<1>5. b.goals \in Nat BY DEF BudgetRecord
<1> QED BY <1>1, <1>3, <1>4, <1>5 DEF Room, GoalRoom, Within

-----------------------------------------------------------------------------
(* What the steps do to the windows *)

\* The attempts at work are finitely many, and the amounts ahead are numbers.
LEMMA AheadIs ==
  ASSUME Types
  PROVE  /\ IsFiniteSet(Open) /\ Cardinality(Open) \in Nat /\ Ahead \in Nat /\ Taken \in Nat
         /\ Ahead <= Taken /\ Cardinality(Open) <= Ahead
         /\ setting.run \in BudgetRecord /\ setting.day \in BudgetRecord
<1>1. Open \in SUBSET Goal BY DEF Open
<1>2. IsFiniteSet(Open) /\ Cardinality(Open) \in Nat BY <1>1, Finite
<1>3. slots \in Nat /\ setting \in Options BY DEF Types
<1> QED BY <1>2, <1>3, BudgetAssumption, GoalsAssumption DEF Ahead, Taken

\* Nothing is spent and nothing started: the windows are the same.
Still ==
  /\ SameUse(RunUsage(log, since), RunUsage(log, since)')
  /\ SameUse(DayUsage(log, today), DayUsage(log, today)')

\* Where nothing was spent, there is as much room as there was.
LEMMA RoomStays ==
  ASSUME Types, Types', setting' = setting, Still, RoomLeft(Ahead), Ahead' <= Ahead
  PROVE  RoomLeft(Ahead)'
<1> DEFINE R == RunUsage(log, since)
           D == DayUsage(log, today)
<1>1. R \in UsageRecord /\ D \in UsageRecord BY WindowTypes
<1>2. Ahead \in Nat /\ setting.run \in BudgetRecord /\ setting.day \in BudgetRecord BY AheadIs
<1>3. Ahead' \in Nat
  <2>1. (Types => Ahead \in Nat)' BY AheadIs, PTL
  <2> QED BY <2>1
<1>4. setting \in Options BY DEF Types
<1>5. Room(setting.run, R, Ahead) /\ Room(setting.day, D, Ahead) BY DEF RoomLeft
<1>6. Room(setting.run, R, Ahead') /\ Room(setting.day, D, Ahead') BY <1>1, <1>2, <1>3, <1>4, <1>5, RoomLess
<1>7. MaxTokens' = MaxTokens /\ MaxUSD' = MaxUSD BY DEF MaxTokens, MaxUSD
<1>8. SameSpend(R, R') /\ SameSpend(D, D') BY DEF Still, SameUse
<1> HIDE DEF R, D
<1>9. Room(setting.run, R, Ahead)' /\ Room(setting.day, D, Ahead)'
  BY <1>6, <1>7, <1>8 DEF Room, SameSpend
<1> QED BY <1>9 DEF RoomLeft, R, D

\* Where no goal was started, as many may start.
LEMMA GoalsStay ==
  ASSUME Types, Types', setting' = setting, Still, GoalsRoom(Coming),
         Coming' \in Nat, Coming \in Nat, Coming' <= Coming
  PROVE  GoalsRoom(Coming)'
<1> DEFINE R == RunUsage(log, since)
           D == DayUsage(log, today)
<1>1. R \in UsageRecord /\ D \in UsageRecord BY WindowTypes
<1>2. Cardinality(R.goals) \in Nat /\ Cardinality(D.goals) \in Nat BY <1>1, UsageNumbers
<1>3. setting.run.goals \in Nat /\ setting.day.goals \in Nat BY AheadIs DEF BudgetRecord
<1>4. R'.goals = R.goals /\ D'.goals = D.goals BY DEF Still, SameUse
<1>5. GoalRoom(setting.run, R, Coming) /\ GoalRoom(setting.day, D, Coming) BY DEF GoalsRoom
<1> HIDE DEF R, D
<1>6. GoalRoom(setting.run, R, Coming)' /\ GoalRoom(setting.day, D, Coming)'
  BY <1>2, <1>3, <1>4, <1>5 DEF GoalRoom
<1> QED BY <1>6 DEF GoalsRoom, R, D

\* An event that is no spend leaves the windows as they are.
LEMMA StillLog ==
  ASSUME Types, UNCHANGED <<log, since, today>>
  PROVE  Still
BY DEF Still, SameUse, SameSpend, RunUsage, DayUsage, CostUSD

\* Records of budgets that ran out change no usage.
LEMMA StillRecord ==
  ASSUME Types, NEW known, Record(known), since' = since, today' = today
  PROVE  Still /\ \A d : DayUsage(log, d)' = DayUsage(log, d)
<1>1. PICK x : Records(x) /\ log' = log \o x BY RecordIs
<1>2. RunUsage(log', since) = RunUsage(log, since) /\ \A d : DayUsage(log', d) = DayUsage(log, d)
  BY <1>1, WindowsRest
<1> QED BY <1>2 DEF Still, SameUse, SameSpend, RunUsage, DayUsage

\* The steps at which nothing is spent, nothing started and no window begins.
Others ==
  \/ AskGoals \/ EndGoals \/ CountSlots \/ AskSpend \/ Launch \/ EndDrain \/ EndPass \/ Die
  \/ \E g \in Goal : Drain(g) \/ RestartStalled(g) \/ Claim(g) \/ Release(g) \/ Rested(g)

\* At these steps usage stays what it was.
LEMMA StillStep ==
  ASSUME Types, Others
  PROVE  /\ Still /\ today' = today /\ since' = since
         /\ \A d : DayUsage(log, d)' = DayUsage(log, d)
<1>1. CASE AskGoals
  <2>1. Record(Recorded(log)) /\ since' = since /\ today' = today BY <1>1 DEF AskGoals, winVars
  <2> QED BY <2>1, StillRecord
<1>2. CASE AskSpend
  <2>1. Record(snap.recorded) /\ since' = since /\ today' = today BY <1>2 DEF AskSpend, winVars
  <2> QED BY <2>1, StillRecord
<1>3. CASE UNCHANGED <<log, since, today>> BY <1>3, StillLog DEF DayUsage
<1>4. ASSUME NEW g \in Goal, Drain(g) \/ RestartStalled(g) \/ Claim(g) \/ Release(g) \/ Rested(g)
      PROVE  UNCHANGED <<log, since, today>>
  BY <1>4 DEF Drain, RestartStalled, Claim, Release, Rested, winVars
<1>5. CASE EndGoals \/ CountSlots \/ Launch \/ EndDrain \/ EndPass \/ Die
  <2>1. UNCHANGED <<log, since, today>>
    BY <1>5 DEF EndGoals, CountSlots, Launch, EndDrain, EndPass, Die, winVars
  <2> QED BY <1>3, <2>1
<1> QED BY <1>1, <1>2, <1>3, <1>4, <1>5 DEF Others

\* A step to a phase without slots at which no attempt is launched.
LEMMA NoSlots ==
  ASSUME Types, SpendInv, Open' \subseteq Open, pc' \notin {"spend", "launch"}
  PROVE  Taken' <= Concurrency /\ Ahead' <= Ahead
<1>1. /\ IsFiniteSet(Open) /\ Cardinality(Open) \in Nat /\ Ahead \in Nat /\ Taken \in Nat
      /\ Ahead <= Taken /\ Cardinality(Open) <= Ahead
  BY AheadIs
<1>2. Cardinality(Open') <= Cardinality(Open) /\ IsFiniteSet(Open') BY <1>1, FS_Subset
<1>3. Cardinality(Open') \in Nat BY <1>2, FS_CardinalityType
<1>4. Cardinality(Open)' = Cardinality(Open') OBVIOUS
<1>5. Taken' = Cardinality(Open') /\ Ahead' = Cardinality(Open') BY <1>3, <1>4 DEF Taken, Ahead
<1> QED BY <1>1, <1>2, <1>3, <1>5, Finite DEF SpendInv

\* The slots a pass counts are free.
LEMMA CountFree ==
  ASSUME Types, SpendInv, CountSlots
  PROVE  Taken' <= Concurrency /\ Ahead' <= Ahead
<1> DEFINE a == Loaded.active \cup {g \in Goal : InFlight(g)}
<1>1. a \in SUBSET Goal BY DEF Loaded
<1>2. Open \subseteq a BY DEF Open, InFlight
<1>3. slots' = IF Cardinality(a) < Concurrency THEN Concurrency - Cardinality(a) ELSE 0
  BY DEF CountSlots
<1> HIDE DEF a
<1>4. Cardinality(a) \in Nat /\ IsFiniteSet(a) /\ Concurrency \in Nat BY <1>1, Finite
<1>5. Cardinality(Open) <= Cardinality(a) BY <1>2, <1>4, FS_Subset
<1>6. pc = "slots" /\ pc' = "spend" /\ Open' = Open BY PhaseIs DEF CountSlots, workVars, Open
<1>7. Cardinality(Open)' = Cardinality(Open) BY <1>6
<1>8. /\ Cardinality(Open) \in Nat /\ Taken = Cardinality(Open) /\ Ahead = Cardinality(Open)
  BY <1>6, AheadIs DEF Taken, Ahead
<1>9. Taken' = Cardinality(Open) + slots' /\ Ahead' = Cardinality(Open)
  BY <1>6, <1>7, <1>8 DEF Taken, Ahead
<1> QED BY <1>3, <1>4, <1>5, <1>8, <1>9 DEF SpendInv

\* A launch takes no more than them.
LEMMA LaunchFree ==
  ASSUME Types, SpendInv, Launch
  PROVE  Taken' <= Concurrency /\ Ahead' <= Ahead
<1>1. PICK L \in SUBSET Dispatchable :
        /\ Cardinality(L) = IF stop THEN 0 ELSE Min({slots, Cardinality(Dispatchable)})
        /\ flight' = [g \in Goal |-> IF g \in L THEN "launched" ELSE flight[g]]
  BY DEF Launch
<1>2. Dispatchable \in SUBSET Goal BY DEF Dispatchable, Types
<1>3. /\ Cardinality(Dispatchable) \in Nat /\ IsFiniteSet(L) /\ Cardinality(L) \in Nat
      /\ L \subseteq Goal
  BY <1>1, <1>2, Finite
<1>4. slots \in Nat BY DEF Types
<1>5. Min({slots, Cardinality(Dispatchable)}) <= slots
  <2>1. {slots, Cardinality(Dispatchable)} \subseteq Nat BY <1>3, <1>4
  <2> QED BY <2>1, MinIs
<1>6. Cardinality(L) <= IF stop THEN 0 ELSE slots BY <1>1, <1>4, <1>5
<1>7. Open' = Open \cup L
  <2>1. \A g \in Goal : flight'[g] = IF g \in L THEN "launched" ELSE flight[g] BY <1>1
  <2> QED BY <1>3, <2>1 DEF Open
<1>8. /\ IsFiniteSet(Open) /\ Cardinality(Open) \in Nat /\ Taken \in Nat /\ Ahead \in Nat
      /\ Ahead <= Taken
  BY AheadIs
<1>9. Cardinality(Open') <= Cardinality(Open) + Cardinality(L) /\ Cardinality(Open') \in Nat
  <2>1. Cardinality(Open \cup L) = Cardinality(Open) + Cardinality(L) - Cardinality(Open \cap L)
    BY <1>3, <1>8, FS_Union
  <2>2. IsFiniteSet(Open \cap L) BY <1>8, FS_Subset
  <2>3. Cardinality(Open \cap L) \in Nat BY <2>2, FS_CardinalityType
  <2>4. IsFiniteSet(Open \cup L) BY <1>3, <1>8, FS_Union
  <2>5. Cardinality(Open \cup L) \in Nat BY <2>4, FS_CardinalityType
  <2> QED BY <1>3, <1>7, <1>8, <2>1, <2>3, <2>5
<1>10. pc = "launch" /\ pc' = "drain" BY PhaseIs DEF Launch
<1>11. Cardinality(Open)' = Cardinality(Open') OBVIOUS
<1>12. Taken' = Cardinality(Open') /\ Ahead' = Cardinality(Open')
  BY <1>9, <1>10, <1>11 DEF Taken, Ahead
<1>13. Ahead = Cardinality(Open) + (IF stop THEN 0 ELSE slots)
  BY <1>10 DEF Ahead
<1> QED BY <1>3, <1>4, <1>6, <1>8, <1>9, <1>12, <1>13, Finite DEF SpendInv

\* An attempt that is charged is ahead no more.
LEMMA CloseFree ==
  ASSUME Types, Types', SpendInv, NEW g \in Goal, Close(g)
  PROVE  Taken' <= Concurrency /\ Ahead = Ahead' + 1
<1>1. Open' = Open \ {g} /\ g \in Open BY DEF Close, Open, Types
<1>2. IsFiniteSet(Open) /\ Cardinality(Open) \in Nat /\ Taken \in Nat /\ Ahead \in Nat BY AheadIs
<1>3. Cardinality(Open') = Cardinality(Open) - 1 BY <1>1, <1>2, FS_RemoveElement
<1>4. UNCHANGED <<pc, slots, stop>> BY DEF Close, runVars
<1>5. Cardinality(Open)' = Cardinality(Open') OBVIOUS
<1>6. slots \in Nat BY DEF Types
<1>7. Taken' = Taken - 1 /\ Ahead' = Ahead - 1 BY <1>2, <1>3, <1>4, <1>5, <1>6 DEF Taken, Ahead
<1> QED BY <1>2, <1>7, Finite DEF SpendInv

\* The other steps launch nothing and count nothing.
LEMMA OthersFree ==
  ASSUME Types, SpendInv, Others, ~AskSpend
  PROVE  Taken' <= Concurrency /\ Ahead' <= Ahead
<1>1. CASE CountSlots \/ Launch BY <1>1, CountFree, LaunchFree
<1>2. CASE AskGoals \/ EndGoals \/ EndDrain \/ EndPass
  <2>1. flight' = flight /\ pc' \notin {"spend", "launch"}
    BY <1>2, PhaseIs DEF AskGoals, EndGoals, EndDrain, EndPass, workVars
  <2> QED BY <2>1, NoSlots DEF Open
<1>3. CASE Die
  <2>1. Open' \subseteq Open /\ pc' \notin {"spend", "launch"} BY <1>3 DEF Die, Open
  <2> QED BY <2>1, NoSlots
<1>4. ASSUME NEW g \in Goal, Drain(g) \/ RestartStalled(g)
      PROVE  Taken' <= Concurrency /\ Ahead' <= Ahead
  <2>1. flight' = flight /\ pc' = "drain" BY <1>4 DEF Drain, RestartStalled, runVars
  <2> QED BY <2>1, NoSlots DEF Open
<1>5. ASSUME NEW g \in Goal, Claim(g) \/ Release(g) \/ Rested(g)
      PROVE  Taken' <= Concurrency /\ Ahead' <= Ahead
  <2>1. Open' = Open /\ UNCHANGED <<pc, slots, stop>>
    BY <1>5 DEF Claim, Release, Rested, runVars, Open, Types
  <2>2. Cardinality(Open)' = Cardinality(Open) BY <2>1
  <2>3. Taken' = Taken /\ Ahead' = Ahead BY <2>1, <2>2 DEF Taken, Ahead
  <2> QED BY <2>3, AheadIs DEF SpendInv
<1> QED BY <1>1, <1>2, <1>3, <1>4, <1>5 DEF Others

\* When a pass finds the budgets open, there is room for every slot.
LEMMA AskRoom ==
  ASSUME Types, Types', SpendInv, AskSpend, setting' = setting
  PROVE  SpendInv'
<1>1. /\ pc = "spend" /\ pc' = "launch" /\ stop' = SpendStopped
      /\ UNCHANGED <<slots, flight>>
  BY PhaseIs DEF AskSpend, workVars
<1>2. Open' = Open BY <1>1 DEF Open
<1>3. Cardinality(Open)' = Cardinality(Open) BY <1>2
<1>4. /\ Cardinality(Open) \in Nat /\ Taken \in Nat /\ Ahead \in Nat
      /\ setting.run \in BudgetRecord /\ setting.day \in BudgetRecord
  BY AheadIs
<1>5. slots \in Nat /\ setting \in Options BY DEF Types
<1>6. Taken' = Taken BY <1>1, <1>3 DEF Taken
<1>7. Still BY StillStep DEF Others
<1>8. CASE SpendStopped
  <2>1. Ahead' = Ahead BY <1>1, <1>3, <1>8 DEF Ahead
  <2>2. RoomLeft(Ahead)' BY <1>4, <1>7, <2>1, RoomStays DEF SpendInv
  <2> QED BY <1>6, <2>2 DEF SpendInv
<1>9. CASE ~SpendStopped
  <2> DEFINE R == RunUsage(log, since)
             D == DayUsage(log, today)
  <2>1. R \in UsageRecord /\ D \in UsageRecord BY WindowTypes
  <2>2. ~SpendReached(setting.run, R) /\ ~SpendReached(setting.day, D) BY <1>9, StoppedIs
  <2>3. Ahead' = Taken BY <1>1, <1>3, <1>9 DEF Ahead, Taken
  <2>4. Taken <= Concurrency BY DEF SpendInv
  <2>5. Room(setting.run, R, Taken) /\ Room(setting.day, D, Taken)
    BY <1>4, <1>5, <2>1, <2>2, <2>4, RoomOpen
  <2>6. MaxTokens' = MaxTokens /\ MaxUSD' = MaxUSD BY DEF MaxTokens, MaxUSD
  <2>7. SameSpend(R, R') /\ SameSpend(D, D') BY <1>7 DEF Still, SameUse
  <2> HIDE DEF R, D
  <2>8. Room(setting.run, R, Ahead)' /\ Room(setting.day, D, Ahead)'
    BY <2>3, <2>5, <2>6, <2>7 DEF Room, SameSpend
  <2> QED BY <1>6, <2>4, <2>8 DEF SpendInv, RoomLeft, R, D
<1> QED BY <1>8, <1>9

\* What an event of today does to the windows.
LEMMA TodayGrows ==
  ASSUME Types, NEW e \in Event, e.day = today, log' = Append(log, e), since' = since, today' = today
  PROVE  /\ RunUsage(log, since)' = Read(RunUsage(log, since), e, TRUE)
         /\ DayUsage(log, today)' = Read(DayUsage(log, today), e, TRUE)
         /\ \A d : d # today => DayUsage(log, d)' = Read(DayUsage(log, d), e, FALSE)
<1>1. /\ RunUsage(Append(log, e), since) = Read(RunUsage(log, since), e, TRUE)
      /\ \A d : DayUsage(Append(log, e), d) = Read(DayUsage(log, d), e, e.day = d)
  BY WindowsGrow
<1>2. (e.day = today) = TRUE /\ \A d : d # today => (e.day = d) = FALSE OBVIOUS
<1>3. /\ DayUsage(Append(log, e), today) = Read(DayUsage(log, today), e, TRUE)
      /\ \A d : d # today => DayUsage(Append(log, e), d) = Read(DayUsage(log, d), e, FALSE)
  BY <1>1, <1>2
<1>4. RunUsage(log, since)' = RunUsage(Append(log, e), since) BY DEF RunUsage
<1>5. DayUsage(log, today)' = DayUsage(Append(log, e), today) BY DEF DayUsage
<1>6. \A d : DayUsage(log, d)' = DayUsage(Append(log, e), d) BY DEF DayUsage
<1> QED BY <1>1, <1>3, <1>4, <1>5, <1>6

\* A charge takes the room of the attempt it is for.
LEMMA CloseRoom ==
  ASSUME Types, Types', SpendInv, NEW g \in Goal, Close(g), setting' = setting
  PROVE  SpendInv'
<1>1. PICK c \in setting.charges : log' = Append(log, Charged(g, c)) BY DEF Close, Append1
<1> DEFINE e == Charged(g, c)
           R == RunUsage(log, since)
           D == DayUsage(log, today)
<1>2. e \in Event /\ e.type = "charge" /\ e.charge \in setting.charges /\ e.day = today
  BY EventsOfToday
<1>3. since' = since /\ today' = today BY DEF Close, winVars
<1> HIDE DEF e
<1>4. R' = Read(R, e, TRUE) /\ D' = Read(D, e, TRUE)
  <2>1. log' = Append(log, e) BY <1>1 DEF e
  <2> QED BY <1>2, <1>3, <2>1, TodayGrows DEF R, D
<1>5. R \in UsageRecord /\ D \in UsageRecord BY WindowTypes
<1>6. Taken' <= Concurrency /\ Ahead = Ahead' + 1 BY CloseFree
<1>7. Ahead' \in Nat
  <2>1. (Types => Ahead \in Nat)' BY AheadIs, PTL
  <2> QED BY <2>1
<1>8. setting.run \in BudgetRecord /\ setting.day \in BudgetRecord /\ setting \in Options BY AheadIs DEF Types
<1>9. Room(setting.run, R, Ahead' + 1) /\ Room(setting.day, D, Ahead' + 1) BY <1>6 DEF SpendInv, RoomLeft
<1> HIDE DEF R, D
<1>10. Room(setting.run, R', Ahead') /\ Room(setting.day, D', Ahead')
  BY <1>2, <1>4, <1>5, <1>7, <1>8, <1>9, RoomCharge
<1>11. MaxTokens' = MaxTokens /\ MaxUSD' = MaxUSD BY DEF MaxTokens, MaxUSD
<1>12. Room(setting.run, R, Ahead)' /\ Room(setting.day, D, Ahead)' BY <1>10, <1>11 DEF Room
<1> QED BY <1>6, <1>12 DEF SpendInv, RoomLeft, R, D

\* What a first ticket changes.
LEMMA StartUse ==
  ASSUME Types, StartGoal
  PROVE  \E g \in Goal :
           /\ log' = Append(log, Started(g)) /\ since' = since /\ today' = today
           /\ RunUsage(log, since)' = Read(RunUsage(log, since), Started(g), TRUE)
           /\ DayUsage(log, today)' = Read(DayUsage(log, today), Started(g), TRUE)
<1>1. todo \subseteq Nat /\ todo # {} /\ todo \subseteq Goal
  BY Finite DEF StartGoal, Types, Goal
<1>2. Min(todo) \in Goal BY <1>1, MinIs
<1> DEFINE e == Started(Min(todo))
<1>3. log' = Append(log, e) /\ since' = since /\ today' = today
  BY DEF StartGoal, Append1, winVars
<1>4. e \in Event /\ e.day = today BY <1>2, EventsOfToday
<1> HIDE DEF e
<1>5. /\ RunUsage(log, since)' = Read(RunUsage(log, since), e, TRUE)
      /\ DayUsage(log, today)' = Read(DayUsage(log, today), e, TRUE)
  BY <1>3, <1>4, TodayGrows
<1> QED BY <1>2, <1>3, <1>5 DEF e

\* A first ticket costs nothing.
LEMMA StartRoom ==
  ASSUME Types, Types', SpendInv, StartGoal, setting' = setting
  PROVE  SpendInv'
<1> DEFINE R == RunUsage(log, since)
           D == DayUsage(log, today)
<1>1. PICK g \in Goal : R' = Read(R, Started(g), TRUE) /\ D' = Read(D, Started(g), TRUE)
  BY StartUse
<1>2. Started(g) \in Event /\ Started(g).type = "TicketCreated" BY EventsOfToday
<1>3. R \in UsageRecord /\ D \in UsageRecord BY WindowTypes
<1> HIDE DEF R, D
<1>4. /\ R'.tokens = R.tokens /\ CostUSD(Read(R, Started(g), TRUE)) = CostUSD(R)
      /\ D'.tokens = D.tokens /\ CostUSD(Read(D, Started(g), TRUE)) = CostUSD(D)
  BY <1>1, <1>2, <1>3, ReadStart
<1>5. SameSpend(R, R') /\ SameSpend(D, D') BY <1>1, <1>4 DEF SameSpend
<1>6. pc = "create" /\ pc' = pc /\ flight' = flight BY DEF StartGoal
<1>7. Open' = Open BY <1>6 DEF Open
<1>8. Cardinality(Open)' = Cardinality(Open) BY <1>7
<1>9. Taken' = Taken /\ Ahead' = Ahead BY <1>6, <1>8 DEF Taken, Ahead
<1>10. MaxTokens' = MaxTokens /\ MaxUSD' = MaxUSD BY DEF MaxTokens, MaxUSD
<1>11. Room(setting.run, R, Ahead) /\ Room(setting.day, D, Ahead) BY DEF SpendInv, RoomLeft, R, D
<1>12. Room(setting.run, R, Ahead)' /\ Room(setting.day, D, Ahead)'
  BY <1>5, <1>9, <1>10, <1>11 DEF Room, SameSpend
<1> QED BY <1>9, <1>12 DEF SpendInv, RoomLeft, R, D

\* A run begins with nothing spent.
LEMMA RunFresh ==
  ASSUME Types, StartRun
  PROVE  /\ Fresh(RunUsage(log, since)') /\ RunUsage(log, since)' \in UsageRecord
         /\ DayUsage(log, today)' = DayUsage(log, today) /\ today' = today
<1>1. log' = log /\ since' = Len(log) /\ today' = today BY DEF StartRun
<1>2. log \in Seq(Event) /\ Len(log) \in Nat BY DEF Types
<1>3. \A i \in 1..Len(log) : i \notin Len(log) + 1..Len(log) BY <1>2
<1>4. RunUsage(log, since)' = UsageOf(log, Len(log) + 1..Len(log)) BY <1>1 DEF RunUsage
<1> QED BY <1>1, <1>2, <1>3, <1>4, UsageNone, UsageType DEF DayUsage

\* So does a day.
LEMMA DayFresh ==
  ASSUME Types, Midnight
  PROVE  /\ Fresh(DayUsage(log, today)') /\ DayUsage(log, today)' \in UsageRecord
         /\ RunUsage(log, since)' = RunUsage(log, since)
<1>1. log' = log /\ since' = since /\ today' = today + 1 BY DEF Midnight
<1>2. log \in Seq(Event) /\ today \in Nat /\ \A i \in 1..Len(log) : log[i].day <= today
  BY DEF Types
<1> DEFINE w == {i \in DOMAIN log : log[i].day = today + 1}
<1>3. \A i \in 1..Len(log) : i \notin w
  <2>1. \A i \in 1..Len(log) : log[i] \in Event BY <1>2
  <2>2. \A i \in 1..Len(log) : log[i].day \in Nat BY <2>1 DEF Event
  <2> QED BY <1>2, <2>2
<1>4. DayUsage(log, today)' = UsageOf(log, w) BY <1>1 DEF DayUsage
<1> HIDE DEF w
<1> QED BY <1>1, <1>2, <1>3, <1>4, UsageNone, UsageType DEF RunUsage

\* One of the windows begins, and the other goes on.
LEMMA NewWindow ==
  ASSUME Types, StartRun \/ Midnight
  PROVE  \/ /\ Fresh(RunUsage(log, since)') /\ RunUsage(log, since)' \in UsageRecord
            /\ DayUsage(log, today)' = DayUsage(log, today)
         \/ /\ Fresh(DayUsage(log, today)') /\ DayUsage(log, today)' \in UsageRecord
            /\ RunUsage(log, since)' = RunUsage(log, since)
BY RunFresh, DayFresh

\* A window that begins has room for every slot.
LEMMA NewRoom ==
  ASSUME Types, Types', SpendInv, StartRun \/ Midnight, setting' = setting
  PROVE  SpendInv'
<1> DEFINE R == RunUsage(log, since)
           D == DayUsage(log, today)
<1>1. /\ R \in UsageRecord /\ D \in UsageRecord
      /\ setting.run \in BudgetRecord /\ setting.day \in BudgetRecord
      /\ Ahead \in Nat /\ Taken \in Nat /\ Ahead <= Taken /\ setting \in Options
  BY WindowTypes, AheadIs DEF Types
<1>2. Open' = Open BY DEF StartRun, Midnight, workVars, Open
<1>3. Cardinality(Open)' = Cardinality(Open) BY <1>2
<1>4. Cardinality(Open) \in Nat BY AheadIs
<1>5. Taken' <= Concurrency /\ Ahead' \in Nat /\ Ahead' <= Ahead /\ Ahead' <= Concurrency
  <2>1. CASE StartRun
    <3>1. Taken' = Cardinality(Open) /\ Ahead' = Cardinality(Open)
      BY <1>3, <1>4, <2>1 DEF StartRun, Taken, Ahead
    <3>2. Taken <= Concurrency /\ Cardinality(Open) <= Ahead BY AheadIs DEF SpendInv
    <3> QED BY <1>1, <1>4, <3>1, <3>2, Finite
  <2>2. CASE Midnight
    <3>1. Taken' = Taken /\ Ahead' = Ahead BY <1>3, <2>2 DEF Midnight, Taken, Ahead
    <3>2. Taken <= Concurrency BY DEF SpendInv
    <3> QED BY <1>1, <3>1, <3>2, Finite
  <2> QED BY <2>1, <2>2
<1>6. Room(setting.run, R, Ahead') /\ Room(setting.day, D, Ahead')
  BY <1>1, <1>5, RoomLess DEF SpendInv, RoomLeft
<1>7. \/ Fresh(R') /\ R' \in UsageRecord /\ D' = D
      \/ Fresh(D') /\ D' \in UsageRecord /\ R' = R
  BY NewWindow
<1> HIDE DEF R, D
<1>8. Room(setting.run, R', Ahead') /\ Room(setting.day, D', Ahead')
  BY <1>1, <1>5, <1>6, <1>7, RoomFresh
<1>9. MaxTokens' = MaxTokens /\ MaxUSD' = MaxUSD BY DEF MaxTokens, MaxUSD
<1>10. Room(setting.run, R, Ahead)' /\ Room(setting.day, D, Ahead)' BY <1>8, <1>9 DEF Room
<1> QED BY <1>5, <1>10 DEF SpendInv, RoomLeft, R, D

\* No more is ahead than there is room for.
LEMMA SpendKept ==
  ASSUME Types, Types', SpendInv, BudgetNext, setting' = setting
  PROVE  SpendInv'
<1>1. CASE AskSpend BY <1>1, AskRoom
<1>2. CASE Others /\ ~AskSpend
  <2>1. Taken' <= Concurrency /\ Ahead' <= Ahead BY <1>2, OthersFree
  <2>2. Still BY <1>2, StillStep
  <2>3. RoomLeft(Ahead)' BY <2>1, <2>2, RoomStays DEF SpendInv
  <2> QED BY <2>1, <2>3 DEF SpendInv
<1>3. CASE \E g \in Goal : Close(g) BY <1>3, CloseRoom
<1>4. CASE StartGoal BY <1>4, StartRoom
<1>5. CASE StartRun \/ Midnight BY <1>5, NewRoom
<1> QED BY <1>1, <1>2, <1>3, <1>4, <1>5 DEF BudgetNext, Others

-----------------------------------------------------------------------------
(* The goals *)

\* A ticket starts one goal at most, and there are only so many.
LEMMA StartCounts ==
  ASSUME NEW u \in UsageRecord, NEW g \in Goal, Started(g) \in Event
  PROVE  /\ Cardinality(Read(u, Started(g), TRUE).goals) <= Cardinality(u.goals) + 1
         /\ Cardinality(Read(u, Started(g), TRUE).goals) \in 0..G
         /\ Cardinality(u.goals) \in Nat
<1> DEFINE v == Read(u, Started(g), TRUE)
<1>1. v \in UsageRecord BY ReadType
<1>2. Started(g).type = "TicketCreated" /\ Started(g).goal = g BY DEF Started
<1>3. v.goals \in {u.goals, u.goals \cup {g}} BY <1>2, ReadStart
<1> HIDE DEF v
<1>4. IsFiniteSet(u.goals) /\ Cardinality(u.goals) \in Nat BY UsageNumbers
<1>5. Cardinality(u.goals \cup {g}) <= Cardinality(u.goals) + 1
  <2>1. Cardinality(u.goals \cup {g}) \in {Cardinality(u.goals), Cardinality(u.goals) + 1}
    BY <1>4, FS_AddElement
  <2> QED BY <1>4, <2>1
<1>6. Cardinality(v.goals) \in 0..G BY <1>1, UsageNumbers
<1>7. Cardinality(v.goals) \in {Cardinality(u.goals), Cardinality(u.goals \cup {g})} BY <1>3
<1>8. Cardinality(v.goals) <= Cardinality(u.goals) + 1 BY <1>4, <1>5, <1>7
<1> QED BY <1>4, <1>6, <1>8 DEF v

\* With one goal fewer to come, one more was started.
LEMMA StartFits ==
  ASSUME Types, Types', GoalInv, StartGoal, setting' = setting
  PROVE  GoalInv'
<1> DEFINE R == RunUsage(log, since)
           D == DayUsage(log, today)
<1>1. PICK g \in Goal : R' = Read(R, Started(g), TRUE) /\ D' = Read(D, Started(g), TRUE)
  BY StartUse
<1>2. Started(g) \in Event BY EventsOfToday
<1>3. R \in UsageRecord /\ D \in UsageRecord BY WindowTypes
<1>4. GoalsRoom(Coming) BY DEF GoalInv
<1>5. GoalRoom(setting.run, R, Coming) /\ GoalRoom(setting.day, D, Coming) BY <1>4 DEF GoalsRoom
<1> HIDE DEF R, D
<1>6. /\ Cardinality(R'.goals) <= Cardinality(R.goals) + 1 /\ Cardinality(R'.goals) \in 0..G
      /\ Cardinality(R.goals) \in Nat
  BY <1>1, <1>2, <1>3, StartCounts
<1>7. /\ Cardinality(D'.goals) <= Cardinality(D.goals) + 1 /\ Cardinality(D'.goals) \in 0..G
      /\ Cardinality(D.goals) \in Nat
  BY <1>1, <1>2, <1>3, StartCounts
<1>8. setting.run.goals \in Nat /\ setting.day.goals \in Nat BY AheadIs DEF BudgetRecord
<1>9. /\ pc = "create" /\ pc' = "create" /\ left # 0 /\ left \in Nat /\ left <= Unlimited
      /\ left' = IF left = Unlimited THEN left ELSE left - 1
  BY DEF StartGoal, Types, GoalInv
<1>10. Unlimited = G + 1 /\ G \in Nat BY Finite DEF Unlimited
<1>11. CASE left = Unlimited
  <2>1. Coming' = 0 /\ left' = Unlimited BY <1>9, <1>11 DEF Coming
  <2>2. /\ setting.run.goals > 0 => setting.run.goals > G
        /\ setting.day.goals > 0 => setting.day.goals > G
    BY <1>9, <1>11 DEF GoalInv
  <2>3. GoalRoom(setting.run, R, Coming)' /\ GoalRoom(setting.day, D, Coming)'
    BY <1>6, <1>7, <1>8, <1>10, <2>1, <2>2 DEF GoalRoom
  <2> QED BY <1>9, <1>10, <2>1, <2>2, <2>3 DEF GoalInv, GoalsRoom, R, D
<1>12. CASE left # Unlimited
  <2>1. left' = left - 1 /\ left' # Unlimited /\ left' <= Unlimited /\ left' \in Nat
    BY <1>9, <1>10, <1>12
  <2>2. Coming = left /\ Coming' = left' BY <1>9, <1>12, <2>1 DEF Coming
  <2>3. GoalRoom(setting.run, R, Coming)' /\ GoalRoom(setting.day, D, Coming)'
    BY <1>5, <1>6, <1>7, <1>8, <1>9, <2>1, <2>2 DEF GoalRoom
  <2> QED BY <2>1, <2>3, <1>10 DEF GoalInv, GoalsRoom, R, D, Unlimited
<1> QED BY <1>11, <1>12

\* A charge starts none.
LEMMA CloseFits ==
  ASSUME Types, Types', GoalInv, NEW g \in Goal, Close(g), setting' = setting
  PROVE  GoalInv'
<1>1. PICK c \in setting.charges : log' = Append(log, Charged(g, c)) BY DEF Close, Append1
<1> DEFINE e == Charged(g, c)
           R == RunUsage(log, since)
           D == DayUsage(log, today)
<1>2. e \in Event /\ e.type = "charge" /\ e.day = today BY EventsOfToday
<1>3. since' = since /\ today' = today BY DEF Close, winVars
<1> HIDE DEF e
<1>4. R' = Read(R, e, TRUE) /\ D' = Read(D, e, TRUE)
  <2>1. log' = Append(log, e) BY <1>1 DEF e
  <2> QED BY <1>2, <1>3, <2>1, TodayGrows DEF R, D
<1>5. R \in UsageRecord /\ D \in UsageRecord BY WindowTypes
<1> HIDE DEF R, D
<1>6. R'.goals = R.goals /\ D'.goals = D.goals BY <1>2, <1>4, <1>5, ReadCharge
<1>7. pc' = pc /\ left' = left BY DEF Close, runVars
<1>8. Coming' = Coming BY <1>7 DEF Coming, Unlimited
<1>9. GoalRoom(setting.run, R, Coming) /\ GoalRoom(setting.day, D, Coming)
  BY DEF GoalInv, GoalsRoom, R, D
<1>10. GoalRoom(setting.run, R, Coming)' /\ GoalRoom(setting.day, D, Coming)' BY <1>6, <1>8, <1>9 DEF GoalRoom
<1> QED BY <1>7, <1>10 DEF GoalInv, GoalsRoom, R, D, Unlimited

\* A new window has started none.
LEMMA NewFits ==
  ASSUME Types, Types', GoalInv, StartRun \/ Midnight, setting' = setting
  PROVE  GoalInv'
<1> DEFINE R == RunUsage(log, since)
           D == DayUsage(log, today)
<1>1. R \in UsageRecord /\ D \in UsageRecord BY WindowTypes
<1>2. Cardinality(R.goals) \in Nat /\ Cardinality(D.goals) \in Nat BY <1>1, UsageNumbers
<1>3. setting.run.goals \in Nat /\ setting.day.goals \in Nat BY AheadIs DEF BudgetRecord
<1>4. left \in Nat BY DEF Types
<1>5. Coming \in Nat BY <1>4 DEF Coming
<1>6. /\ left' = left /\ Coming' \in Nat /\ Coming' <= Coming
      /\ pc' = "create" => pc = "create"
  <2>1. CASE StartRun
    <3>1. Coming' = 0 BY <2>1 DEF StartRun, Coming
    <3> QED BY <1>5, <2>1, <3>1 DEF StartRun
  <2>2. CASE Midnight
    <3>1. Coming' = Coming BY <2>2 DEF Midnight, Coming, Unlimited
    <3> QED BY <1>5, <2>2, <3>1 DEF Midnight
  <2> QED BY <2>1, <2>2
<1>7. (Fresh(R') /\ D' = D) \/ (Fresh(D') /\ R' = R) BY NewWindow
<1>8. GoalRoom(setting.run, R, Coming) /\ GoalRoom(setting.day, D, Coming)
  BY DEF GoalInv, GoalsRoom
<1> HIDE DEF R, D
<1>9. /\ Cardinality(R'.goals) \in {0, Cardinality(R.goals)}
      /\ Cardinality(D'.goals) \in {0, Cardinality(D.goals)}
  BY <1>7, FS_EmptySet DEF Fresh
<1>10. GoalRoom(setting.run, R, Coming)' /\ GoalRoom(setting.day, D, Coming)'
  BY <1>2, <1>3, <1>5, <1>6, <1>8, <1>9 DEF GoalRoom
<1> QED BY <1>6, <1>10 DEF GoalInv, GoalsRoom, R, D, Unlimited

\* What a pass may start was asked of both budgets.
LEMMA AskFits ==
  ASSUME Types, Types', GoalInv, AskGoals, setting' = setting
  PROVE  GoalInv'
<1> DEFINE R == RunUsage(log, since)
           D == DayUsage(log, today)
<1>1. pc = "goals" /\ pc' = "create" /\ left' = GoalsLeft BY PhaseIs DEF AskGoals
<1>2. Coming = 0 /\ GoalsRoom(0) BY <1>1 DEF Coming, GoalInv
<1>3. /\ GoalsLeft \in Nat /\ GoalsLeft <= Unlimited /\ GoalsRoom(GoalsLeft)
      /\ GoalsLeft = Unlimited => /\ setting.run.goals > 0 => setting.run.goals > G
                                  /\ setting.day.goals > 0 => setting.day.goals > G
  BY <1>2, GoalsLeftIs
<1>4. Still BY StillStep DEF Others
<1>5. R'.goals = R.goals /\ D'.goals = D.goals BY <1>4 DEF Still, SameUse
<1>6. Coming' \in {0, GoalsLeft} BY <1>1 DEF Coming
<1>7. GoalRoom(setting.run, R, Coming') /\ GoalRoom(setting.day, D, Coming')
  BY <1>2, <1>3, <1>6 DEF GoalsRoom
<1> HIDE DEF R, D
<1>8. GoalRoom(setting.run, R, Coming)' /\ GoalRoom(setting.day, D, Coming)' BY <1>5, <1>7 DEF GoalRoom
<1> QED BY <1>1, <1>3, <1>8 DEF GoalInv, GoalsRoom, R, D, Unlimited

\* No pass starts more goals than may start.
LEMMA GoalKept ==
  ASSUME Types, Types', GoalInv, BudgetNext, setting' = setting
  PROVE  GoalInv'
<1>1. CASE AskGoals BY <1>1, AskFits
<1>2. CASE Others /\ ~AskGoals
  <2>1. Still BY <1>2, StillStep
  <2>2. left' = left /\ (pc' = "create" => pc = "create")
    BY <1>2, PhaseIs DEF Others, EndGoals, CountSlots, AskSpend, Launch, EndDrain, EndPass, Die,
       Drain, RestartStalled, Claim, Release, Rested, runVars
  <2>3. left \in Nat BY DEF Types
  <2>4. Coming' \in Nat /\ Coming \in Nat /\ Coming' <= Coming
    BY <2>2, <2>3 DEF Coming, Unlimited
  <2>5. GoalsRoom(Coming)' BY <2>1, <2>4, GoalsStay DEF GoalInv
  <2> QED BY <2>2, <2>5 DEF GoalInv, Unlimited
<1>3. CASE \E g \in Goal : Close(g) BY <1>3, CloseFits
<1>4. CASE StartGoal BY <1>4, StartFits
<1>5. CASE StartRun \/ Midnight BY <1>5, NewFits
<1> QED BY <1>1, <1>2, <1>3, <1>4, <1>5 DEF BudgetNext, Others

-----------------------------------------------------------------------------
(* The days that are over *)

\* What is to come has room, so the windows are within their budgets now.
LEMMA NowWithin ==
  ASSUME Types, SpendInv, GoalInv
  PROVE  /\ Within(setting.run, RunUsage(log, since))
         /\ Within(setting.day, DayUsage(log, today))
<1>1. /\ RunUsage(log, since) \in UsageRecord /\ DayUsage(log, today) \in UsageRecord
      /\ setting.run \in BudgetRecord /\ setting.day \in BudgetRecord
      /\ Ahead \in Nat /\ setting \in Options
  BY WindowTypes, AheadIs DEF Types
<1>2. left \in Nat BY DEF Types
<1>3. Coming \in Nat BY <1>2 DEF Coming
<1>4. /\ Room(setting.run, RunUsage(log, since), Ahead) /\ Room(setting.day, DayUsage(log, today), Ahead)
      /\ GoalRoom(setting.run, RunUsage(log, since), Coming)
      /\ GoalRoom(setting.day, DayUsage(log, today), Coming)
  BY DEF SpendInv, GoalInv, RoomLeft, GoalsRoom
<1> QED BY <1>1, <1>3, <1>4, RoomWithin

\* Only today's usage changes.
LEMMA PastStays ==
  ASSUME Types, BudgetNext
  PROVE  /\ today' \in {today, today + 1}
         /\ \A d : d # today' => SameUse(DayUsage(log, d), DayUsage(log, d)')
<1>1. \A d : DayUsage(log, d) \in UsageRecord BY WindowTypes
<1>2. CASE Others
  <2>1. today' = today /\ \A d : DayUsage(log, d)' = DayUsage(log, d) BY <1>2, StillStep
  <2> QED BY <2>1 DEF SameUse, SameSpend
<1>3. ASSUME NEW g \in Goal, Close(g)
      PROVE  today' = today /\ \A d : d # today => SameUse(DayUsage(log, d), DayUsage(log, d)')
  <2>1. PICK c \in setting.charges : log' = Append(log, Charged(g, c)) BY <1>3 DEF Close, Append1
  <2>2. Charged(g, c) \in Event /\ Charged(g, c).type = "charge" /\ Charged(g, c).day = today
    BY EventsOfToday
  <2>3. since' = since /\ today' = today BY <1>3 DEF Close, winVars
  <2>4. \A d : d # today => DayUsage(log, d)' = Read(DayUsage(log, d), Charged(g, c), FALSE)
    BY <2>1, <2>2, <2>3, TodayGrows
  <2>5. \A d : Read(DayUsage(log, d), Charged(g, c), FALSE) = DayUsage(log, d)
    BY <1>1, <2>2, ReadCharge
  <2>6. \A d : d # today => DayUsage(log, d)' = DayUsage(log, d) BY <2>4, <2>5
  <2> QED BY <2>3, <2>6 DEF SameUse, SameSpend
<1>4. ASSUME StartGoal
      PROVE  today' = today /\ \A d : d # today => SameUse(DayUsage(log, d), DayUsage(log, d)')
  <2>1. PICK g \in Goal : /\ log' = Append(log, Started(g)) /\ since' = since /\ today' = today
    BY <1>4, StartUse
  <2>2. Started(g) \in Event /\ Started(g).type = "TicketCreated" /\ Started(g).day = today
    BY EventsOfToday
  <2>3. \A d : d # today => DayUsage(log, d)' = Read(DayUsage(log, d), Started(g), FALSE)
    BY <2>1, <2>2, TodayGrows
  <2>4. \A d : LET v == Read(DayUsage(log, d), Started(g), FALSE)
               IN SameUse(DayUsage(log, d), v)
    BY <1>1, <2>2, ReadStart DEF SameUse, SameSpend
  <2> QED BY <2>1, <2>3, <2>4
<1>5. CASE StartRun \/ Midnight
  <2>1. log' = log /\ today' \in {today, today + 1} BY <1>5 DEF StartRun, Midnight
  <2>2. \A d : DayUsage(log, d)' = DayUsage(log, d) BY <2>1 DEF DayUsage
  <2> QED BY <2>1, <2>2 DEF SameUse, SameSpend
<1> QED BY <1>2, <1>3, <1>4, <1>5 DEF BudgetNext, Others

\* A day that is over keeps what it was within.
LEMMA PastKept ==
  ASSUME Types, Types', PastInv, SpendInv', GoalInv', BudgetNext, setting' = setting
  PROVE  PastInv'
<1>1. Within(setting.day, DayUsage(log, today))'
  <2>1. (Types /\ SpendInv /\ GoalInv => Within(setting.day, DayUsage(log, today)))'
    BY NowWithin, PTL
  <2> QED BY <2>1
<1>2. \A d \in 1..today : Within(setting.day, DayUsage(log, d)) BY DEF PastInv
<1>3. /\ today' \in {today, today + 1} /\ today \in Nat
      /\ \A d : d # today' => SameUse(DayUsage(log, d), DayUsage(log, d)')
  BY PastStays DEF Types
<1>4. MaxTokens' = MaxTokens /\ MaxUSD' = MaxUSD BY DEF MaxTokens, MaxUSD
<1>5. ASSUME NEW d \in 1..today', d # today' PROVE Within(setting.day, DayUsage(log, d))'
  <2> DEFINE u == DayUsage(log, d)
  <2>1. d \in 1..today BY <1>3, <1>5
  <2>2. Within(setting.day, u) /\ SameUse(u, u') BY <1>2, <1>3, <1>5, <2>1
  <2> HIDE DEF u
  <2>3. Within(setting.day, u)' BY <1>4, <2>2 DEF Within, SameUse, SameSpend
  <2> QED BY <2>3 DEF u
<1>6. \A d \in 1..today' : Within(setting.day, DayUsage(log, d))'
  <2> TAKE d \in 1..today'
  <2>1. CASE d # today' BY <1>5, <2>1
  <2>2. CASE d = today' BY <1>1, <2>2 DEF Within, CostUSD
  <2> QED BY <2>1, <2>2
<1> QED BY <1>6 DEF PastInv

-----------------------------------------------------------------------------
(* The beginning *)

\* At first nothing is spent.
LEMMA InitSpend == BudgetInit => SpendInv /\ GoalInv /\ PastInv
<1> SUFFICES ASSUME BudgetInit PROVE SpendInv /\ GoalInv /\ PastInv OBVIOUS
<1>1. /\ log = <<>> /\ since = 0 /\ today = 1 /\ pc = "off" /\ left = 0
      /\ flight = [g \in Goal |-> "no"]
  BY DEF BudgetInit
<1>2. Types BY TypesInit
<1>3. /\ setting.run \in BudgetRecord /\ setting.day \in BudgetRecord /\ setting \in Options
  BY <1>2, AheadIs DEF Types
<1>4. Open = {} BY <1>1 DEF Open
<1>5. Cardinality(Open) = 0 BY <1>4, FS_EmptySet
<1>6. Taken = 0 /\ Ahead = 0 /\ Coming = 0 BY <1>1, <1>5 DEF Taken, Ahead, Coming
<1> DEFINE R == RunUsage(log, since)
           D == DayUsage(log, today)
<1>7. Fresh(R) /\ Fresh(D) /\ R \in UsageRecord /\ D \in UsageRecord
  <2>1. log \in Seq(Event) /\ Len(log) = 0 BY <1>1, <1>2 DEF Types
  <2>2. \A w : \A i \in 1..Len(log) : i \notin w BY <2>1
  <2> QED BY <1>2, <2>1, <2>2, UsageNone, WindowTypes DEF RunUsage, DayUsage
<1> HIDE DEF R, D
<1>8. Room(setting.run, R, 0) /\ Room(setting.day, D, 0) BY <1>3, <1>7, RoomFresh, Finite
<1>9. GoalRoom(setting.run, R, 0) /\ GoalRoom(setting.day, D, 0)
  BY <1>3, <1>7, FS_EmptySet DEF Fresh, GoalRoom, BudgetRecord
<1>10. SpendInv BY <1>6, <1>8, Finite DEF SpendInv, RoomLeft, R, D
<1>11. GoalInv BY <1>1, <1>6, <1>9, Finite DEF GoalInv, GoalsRoom, R, D, Unlimited
<1>12. PastInv BY <1>1, <1>2, <1>10, <1>11, NowWithin DEF PastInv
<1> QED BY <1>10, <1>11, <1>12

\* The inductive invariant of the spend.
SpendIInv == Types /\ SpendInv /\ GoalInv /\ PastInv

\* It is inductive.
LEMMA SpendStep == SpendIInv /\ [BudgetNext]_bvars => SpendIInv'
<1> SUFFICES ASSUME SpendIInv, [BudgetNext]_bvars PROVE SpendIInv' OBVIOUS
<1>1. Types' /\ setting' = setting BY TypesKept DEF SpendIInv
<1>2. CASE BudgetNext
  <2>1. SpendInv' /\ GoalInv' BY <1>1, <1>2, SpendKept, GoalKept DEF SpendIInv
  <2>2. PastInv' BY <1>1, <1>2, <2>1, PastKept DEF SpendIInv
  <2> QED BY <1>1, <2>1, <2>2 DEF SpendIInv
<1>3. CASE UNCHANGED bvars
  <2>1. UNCHANGED <<log, today, setting, since, status, flight, pc, slots, left, stop>>
    BY <1>3 DEF bvars, runVars, workVars, winVars
  <2>2. SpendInv'
    BY <2>1 DEF SpendIInv, SpendInv, RoomLeft, Room, Ahead, Taken, Open, RunUsage, DayUsage,
       CostUSD, MaxTokens, MaxUSD
  <2>3. GoalInv'
    BY <2>1 DEF SpendIInv, GoalInv, GoalsRoom, GoalRoom, Coming, RunUsage, DayUsage, Unlimited
  <2>4. PastInv'
    BY <2>1 DEF SpendIInv, PastInv, Within, DayUsage, CostUSD, MaxTokens, MaxUSD
  <2> QED BY <1>1, <2>2, <2>3, <2>4 DEF SpendIInv
<1> QED BY <1>2, <1>3

\* "The honest worst case is the limit plus concurrency x the per-attempt cap"
\* (ADR 017), of each run and of each day, and no more goals than the limit: for
\* any budgets, prices, slots and costs, and however ends of attempts, midnights
\* and crashes fall between what a pass reads.
THEOREM SpendHolds == BudgetSpec => []SpendBounded
<1>1. BudgetInit => SpendIInv BY TypesInit, InitSpend DEF SpendIInv
<1>2. SpendIInv => SpendBounded BY NowWithin DEF SpendIInv, PastInv, SpendBounded
<1> QED BY <1>1, <1>2, SpendStep, PTL DEF BudgetSpec

-----------------------------------------------------------------------------
(* The record of budgets that ran out *)

\* What a pass asks of the log is as it was as long as log and windows are.
LEMMA SameAnswers ==
  ASSUME UNCHANGED <<log, setting, since, today>>
  PROVE  /\ GoalsLeft' = GoalsLeft /\ (SpendStopped' <=> SpendStopped)
         /\ Tripped' = Tripped /\ Recorded(log)' = Recorded(log)
<1>1. RunUsage(log, since)' = RunUsage(log, since) /\ DayUsage(log, today)' = DayUsage(log, today)
  BY DEF RunUsage, DayUsage
<1>2. Windows' = Windows BY <1>1 DEF Windows
<1>3. SpendStopped' <=> SpendStopped BY <1>2 DEF SpendStopped, SpendReached, CostUSD
<1>4. GoalsLeft' = GoalsLeft BY <1>2, <1>3 DEF GoalsLeft, Unlimited
<1>5. Tripped' = Tripped BY <1>2 DEF Tripped, SpendReached, GoalsReached, CostUSD
<1> QED BY <1>3, <1>4, <1>5 DEF Recorded

\* The windows on record.
LEMMA RecordedIs ==
  ASSUME NEW s \in Seq(Event)
  PROVE  \A w : w \in Recorded(s) <=>
                \E i \in 1..Len(s) : s[i].type = "BudgetExhausted" /\ s[i].window = w
<1>1. DOMAIN s = 1..Len(s) OBVIOUS
<1> QED BY <1>1 DEF Recorded

\* A pass that records nothing found nothing to record, and left the log alone.
LEMMA RecordQuiet ==
  ASSUME Types, Record(Recorded(log)), UNCHANGED <<setting, since, today>>, ~moved'
  PROVE  log' = log /\ ~moved /\ Tripped \subseteq Recorded(log)
<1>1. PICK x : /\ log' = log \o x /\ (Tripped \subseteq Recorded(log) => x = <<>>)
               /\ moved' = (moved \/ Tripped \ Recorded(log) # {})
  BY RecordIs
<1>2. Tripped \subseteq Recorded(log) /\ ~moved BY <1>1
<1>3. log \in Seq(Event) BY DEF Types
<1>4. log \o <<>> = log BY <1>3
<1> QED BY <1>1, <1>2, <1>4

\* What is recorded was not on record, and is recorded once.
LEMMA RecordOnce ==
  ASSUME Types, Record(Recorded(log)), Once(log)
  PROVE  Once(log)'
<1> DEFINE n == Len(log)
<1>1. PICK x : /\ Records(x) /\ log' = log \o x
               /\ \A i \in 1..Len(x) : x[i].window \in Tripped \ Recorded(log)
               /\ \A i, j \in 1..Len(x) : x[i].window = x[j].window => i = j
  BY RecordIs
<1>2. log \in Seq(Event) /\ x \in Seq(Event) BY <1>1 DEF Types, Records
<1>3. /\ n \in Nat /\ Len(x) \in Nat /\ Len(log') = n + Len(x)
      /\ \A i \in 1..n : log'[i] = log[i]
      /\ \A i \in n + 1..n + Len(x) : log'[i] = x[i - n] /\ i - n \in 1..Len(x)
  BY <1>1, <1>2
<1>4. \A w : w \in Recorded(log) <=>
             \E i \in 1..n : log[i].type = "BudgetExhausted" /\ log[i].window = w
  BY <1>2, RecordedIs
<1> HIDE DEF n
<1>5. ASSUME NEW i \in 1..Len(log'), NEW j \in 1..Len(log'),
             log'[i].type = "BudgetExhausted", log'[j].type = "BudgetExhausted",
             log'[i].window = log'[j].window
      PROVE  i = j
  <2>1. i \in Nat /\ j \in Nat /\ (i \in 1..n \/ i \in n + 1..n + Len(x))
        /\ (j \in 1..n \/ j \in n + 1..n + Len(x))
    BY <1>3
  <2>2. CASE i \in 1..n /\ j \in 1..n BY <1>3, <1>5, <2>2 DEF Once, n
  <2>3. CASE i \in 1..n /\ j \in n + 1..n + Len(x)
    <3>1. log[i].window \in Recorded(log) BY <1>3, <1>4, <1>5, <2>3
    <3>2. log'[j].window \notin Recorded(log) BY <1>1, <1>3, <2>3
    <3> QED BY <1>3, <1>5, <2>3, <3>1, <3>2
  <2>4. CASE j \in 1..n /\ i \in n + 1..n + Len(x)
    <3>1. log[j].window \in Recorded(log) BY <1>3, <1>4, <1>5, <2>4
    <3>2. log'[i].window \notin Recorded(log) BY <1>1, <1>3, <2>4
    <3> QED BY <1>3, <1>5, <2>4, <3>1, <3>2
  <2>5. CASE i \in n + 1..n + Len(x) /\ j \in n + 1..n + Len(x)
    <3>1. i - n = j - n BY <1>1, <1>3, <1>5, <2>5
    <3> QED BY <1>3, <2>1, <3>1
  <2> QED BY <2>1, <2>2, <2>3, <2>4, <2>5
<1> QED BY <1>5 DEF Once

\* Charges and first tickets are no records.
LEMMA AppendOnce ==
  ASSUME Types, NEW e \in Event, e.type # "BudgetExhausted", log' = Append(log, e), Once(log)
  PROVE  Once(log)' /\ Recorded(log)' = Recorded(log)
<1> DEFINE n == Len(log)
<1>1. log \in Seq(Event) BY DEF Types
<1>2. /\ n \in Nat /\ Len(log') = n + 1 /\ log'[n + 1] = e /\ \A i \in 1..n : log'[i] = log[i]
      /\ log' \in Seq(Event)
  BY <1>1
<1>3. \A i \in 1..Len(log') : log'[i].type = "BudgetExhausted" => i \in 1..n
  BY <1>2
<1>4. Once(log)' BY <1>2, <1>3 DEF Once
<1>5. \A w : w \in Recorded(log') <=> w \in Recorded(log)
  <2> TAKE w
  <2>1. w \in Recorded(log') <=>
          \E i \in 1..Len(log') : log'[i].type = "BudgetExhausted" /\ log'[i].window = w
    BY <1>2, RecordedIs
  <2>2. w \in Recorded(log) <=>
          \E i \in 1..n : log[i].type = "BudgetExhausted" /\ log[i].window = w
    BY <1>1, RecordedIs
  <2>3. \A i \in 1..n : i \in 1..Len(log') BY <1>2
  <2> QED BY <1>2, <1>3, <2>1, <2>2, <2>3
<1>6. Recorded(log') = Recorded(log) BY <1>5
<1> QED BY <1>4, <1>6

\* The steps that append something, of the attempts and of the drain.
Moves == StartGoal \/ \E g \in Goal : Drain(g) \/ RestartStalled(g) \/ Claim(g) \/ Close(g)

\* They leave a trace for Run, and the pass where it is.
LEMMA MovesAre ==
  ASSUME Types, Moves, Once(log)
  PROVE  /\ moved' /\ UNCHANGED <<pc, snap, odd, outcome>>
         /\ Once(log)' /\ Recorded(log)' = Recorded(log)
<1>1. CASE StartGoal
  <2>1. moved' /\ UNCHANGED <<pc, snap, odd, outcome>> BY <1>1 DEF StartGoal, Append1
  <2>2. PICK g \in Goal : log' = Append(log, Started(g)) BY <1>1, StartUse
  <2>3. Started(g) \in Event /\ Started(g).type # "BudgetExhausted" BY EventsOfToday
  <2> QED BY <2>1, <2>2, <2>3, AppendOnce
<1>2. ASSUME NEW g \in Goal, Drain(g) \/ RestartStalled(g) \/ Claim(g)
      PROVE  /\ moved' /\ UNCHANGED <<pc, snap, odd, outcome>> /\ log' = log
  BY <1>2 DEF Drain, RestartStalled, Claim, runVars
<1>3. log' = log => Once(log)' /\ Recorded(log)' = Recorded(log) BY DEF Once, Recorded
<1>4. ASSUME NEW g \in Goal, Close(g)
      PROVE  /\ moved' /\ UNCHANGED <<pc, snap, odd, outcome>>
             /\ Once(log)' /\ Recorded(log)' = Recorded(log)
  <2>1. PICK c \in setting.charges : log' = Append(log, Charged(g, c)) /\ moved'
    BY <1>4 DEF Close, Append1
  <2>2. Charged(g, c) \in Event /\ Charged(g, c).type # "BudgetExhausted" BY EventsOfToday
  <2>3. UNCHANGED <<pc, snap, odd, outcome>> BY <1>4 DEF Close, runVars
  <2> QED BY <2>1, <2>2, <2>3, AppendOnce
<1> QED BY <1>1, <1>2, <1>3, <1>4 DEF Moves

\* The other steps, but for the asking, leave the log alone.
Rests ==
  \/ EndGoals \/ CountSlots \/ Launch \/ EndDrain \/ EndPass \/ Die
  \/ StartRun \/ Midnight \/ \E g \in Goal : Release(g) \/ Rested(g)

\* That is what they have in common.
LEMMA RestsAre ==
  ASSUME Rests
  PROVE  log' = log /\ setting' = setting
BY DEF Rests, EndGoals, CountSlots, Launch, EndDrain, EndPass, Die, StartRun, Midnight, Release,
   Rested, winVars

\* The steps, by what they do to the log.
LEMMA NextIs == BudgetNext <=> Moves \/ Rests \/ AskGoals \/ AskSpend
BY DEF BudgetNext, Moves, Rests

\* The record stays whole.
LEMMA RecordKept ==
  ASSUME Types, RecordInv, BudgetNext, setting' = setting
  PROVE  RecordInv'
<1>1. CASE Moves
  <2>1. moved' /\ UNCHANGED <<pc, snap, odd>> /\ Once(log)' /\ Recorded(log)' = Recorded(log)
    BY <1>1, MovesAre DEF RecordInv
  <2> QED BY <2>1 DEF RecordInv, Calm
<1>2. CASE AskGoals
  <2>1. /\ Record(Recorded(log)) /\ pc' = "create" /\ UNCHANGED <<setting, since, today>>
    BY <1>2, PhaseIs DEF AskGoals, winVars
  <2>2. Once(log)' BY <2>1, RecordOnce DEF RecordInv
  <2>3. ~moved' => Tripped' \subseteq Recorded(log)' BY <2>1, RecordQuiet, SameAnswers
  <2> QED BY <2>1, <2>2, <2>3 DEF RecordInv, Calm
<1>3. CASE AskSpend
  <2>1. /\ Record(snap.recorded) /\ pc = "spend" /\ pc' = "launch" /\ UNCHANGED <<setting, since, today>>
    BY <1>3, PhaseIs DEF AskSpend, winVars
  <2>2. Record(Recorded(log)) BY <2>1 DEF RecordInv
  <2>3. Once(log)' BY <2>2, RecordOnce DEF RecordInv
  <2>4. ~moved' => Tripped' \subseteq Recorded(log)' BY <2>1, <2>2, RecordQuiet, SameAnswers
  <2> QED BY <2>1, <2>3, <2>4 DEF RecordInv, Calm
<1>4. CASE Rests
  <2>1. log' = log BY <1>4, RestsAre
  <2>2. Once(log)' /\ Recorded(log)' = Recorded(log) BY <2>1 DEF RecordInv, Once, Recorded
  <2>3. CASE StartRun \/ EndPass \/ Die
    <3>1. pc' \in {"off", "goals"} BY <2>3 DEF StartRun, EndPass, Die
    <3> QED BY <2>2, <3>1 DEF RecordInv
  <2>4. CASE Midnight
    <3>1. pc' = pc /\ snap' = snap /\ "midnight" \in odd' BY <2>4 DEF Midnight
    <3> QED BY <2>2, <3>1 DEF RecordInv, Calm
  <2>5. CASE EndGoals \/ CountSlots \/ Launch \/ EndDrain \/ \E g \in Goal : Release(g) \/ Rested(g)
    <3>1. /\ UNCHANGED <<log, setting, since, today, moved>>
          /\ "midnight" \in odd' <=> "midnight" \in odd
      BY <2>5 DEF EndGoals, CountSlots, Launch, EndDrain, Release, Rested, winVars, runVars
    <3>2. Tripped' = Tripped /\ (Calm' <=> Calm) BY <3>1, SameAnswers DEF Calm
    <3>3. pc' \notin {"off", "goals"} => pc \notin {"off", "goals"}
      BY <2>5 DEF EndGoals, CountSlots, Launch, EndDrain, Release, Rested, runVars
    <3>4. pc' = "spend" => snap'.recorded = Recorded(log)
      <4>1. CASE CountSlots BY <4>1 DEF CountSlots, Loaded
      <4>2. CASE EndGoals \/ Launch \/ EndDrain
        BY <4>2, PhaseIs DEF EndGoals, Launch, EndDrain
      <4>3. CASE \E g \in Goal : Release(g) \/ Rested(g)
        BY <4>3 DEF Release, Rested, runVars, RecordInv
      <4> QED BY <2>5, <4>1, <4>2, <4>3
    <3> QED BY <2>2, <3>2, <3>3, <3>4 DEF RecordInv
  <2> QED BY <1>4, <2>3, <2>4, <2>5 DEF Rests
<1> QED BY <1>1, <1>2, <1>3, <1>4, NextIs

-----------------------------------------------------------------------------
(* The verdict *)

\* The goals of the list are started, or none may be.
LEMMA QueueKept ==
  ASSUME Types, QueueInv, Once(log), BudgetNext, setting' = setting
  PROVE  QueueInv'
<1>1. CASE Moves
  <2>1. moved' BY <1>1, MovesAre
  <2> QED BY <2>1 DEF QueueInv, Calm
<1>2. CASE AskGoals
  <2>1. /\ Record(Recorded(log)) /\ pc' = "create" /\ UNCHANGED <<setting, since, today, status>>
        /\ left' = GoalsLeft /\ todo' = Queued
    BY <1>2, PhaseIs DEF AskGoals, winVars, workVars, Queued
  <2>2. Queued' = Queued BY <2>1 DEF Queued
  <2>3. ~moved' => GoalsLeft' = GoalsLeft BY <2>1, RecordQuiet, SameAnswers
  <2> QED BY <2>1, <2>2, <2>3 DEF QueueInv, Calm
<1>3. CASE AskSpend
  <2>1. /\ Record(snap.recorded) /\ pc = "spend" /\ pc' = "launch"
        /\ UNCHANGED <<setting, since, today, status, odd>>
    BY <1>3, PhaseIs DEF AskSpend, winVars, workVars
  <2>2. ~moved' => ~moved /\ log' = log
    <3>1. PICK x : /\ log' = log \o x /\ (Tripped \subseteq snap.recorded => x = <<>>)
                   /\ moved' = (moved \/ Tripped \ snap.recorded # {})
      BY <2>1, RecordIs
    <3>2. log \in Seq(Event) BY DEF Types
    <3>3. log \o <<>> = log BY <3>2
    <3> QED BY <3>1, <3>3
  <2>3. ~moved' => GoalsLeft' = GoalsLeft BY <2>1, <2>2, SameAnswers
  <2>4. Queued' = Queued BY <2>1 DEF Queued
  <2> QED BY <2>1, <2>2, <2>3, <2>4 DEF QueueInv, Calm
<1>4. CASE StartRun \/ EndPass \/ Die
  <2>1. pc' \in {"off", "goals"} BY <1>4 DEF StartRun, EndPass, Die
  <2> QED BY <2>1 DEF QueueInv
<1>5. CASE Midnight
  <2>1. /\ pc' = pc /\ "midnight" \in odd' /\ UNCHANGED <<moved, todo, status>>
    BY <1>5 DEF Midnight, workVars
  <2> QED BY <2>1 DEF QueueInv, Calm, Queued
<1>6. CASE EndGoals \/ CountSlots \/ Launch \/ EndDrain \/ \E g \in Goal : Release(g) \/ Rested(g)
  <2>1. /\ UNCHANGED <<log, setting, since, today, moved, todo, left, status>>
        /\ "midnight" \in odd' <=> "midnight" \in odd
    BY <1>6 DEF EndGoals, CountSlots, Launch, EndDrain, Release, Rested, winVars, runVars, workVars
  <2>2. GoalsLeft' = GoalsLeft /\ Queued' = Queued /\ (Calm' <=> Calm)
    BY <2>1, SameAnswers DEF Queued, Calm
  <2>3. CASE EndGoals
    <3>1. pc = "create" /\ pc' = "slots" /\ (left = 0 \/ todo = {}) BY <2>3, PhaseIs DEF EndGoals
    <3>2. Calm => Queued = {} \/ GoalsLeft = 0 BY <3>1 DEF QueueInv, Calm
    <3> QED BY <2>2, <3>1, <3>2 DEF QueueInv
  <2>4. CASE CountSlots \/ Launch \/ EndDrain \/ \E g \in Goal : Release(g) \/ Rested(g)
    <3>1. \/ pc' = pc
          \/ /\ pc \in {"slots", "launch", "drain"} /\ pc' \in {"spend", "drain", "end"}
      BY <2>4, PhaseIs DEF CountSlots, Launch, EndDrain, Release, Rested, runVars
    <3> QED BY <2>1, <2>2, <3>1 DEF QueueInv
  <2> QED BY <1>6, <2>3, <2>4
<1> QED BY <1>1, <1>2, <1>3, <1>4, <1>5, <1>6, NextIs DEF Rests

\* A launch leaves nothing ready that is rested, unless spend has stopped or a slot is held.
LEMMA LaunchLeaves ==
  ASSUME Types, SlotInv, Launch, Calm, "lingered" \notin odd
  PROVE  SpendStopped \/ Open' # {} \/ Claimed # {} \/ AllRest
<1>1. PICK L \in SUBSET Dispatchable :
        /\ Cardinality(L) = IF stop THEN 0 ELSE Min({slots, Cardinality(Dispatchable)})
        /\ flight' = [g \in Goal |-> IF g \in L THEN "launched" ELSE flight[g]]
  BY DEF Launch
<1>2. /\ pc = "launch" /\ ~moved BY DEF Launch, Calm
<1>3. /\ snap.active = Claimed /\ snap.ready = {g \in Goal : status[g] \in {"ready", "claimed"}}
      /\ \A g \in Goal : flight[g] # "closing"
      /\ (slots = 0 => Open # {} \/ Claimed # {}) /\ stop = SpendStopped
  BY <1>2 DEF SlotInv
<1>4. Dispatchable \in SUBSET Goal /\ L \subseteq Goal BY <1>1 DEF Dispatchable, Types
<1>5. \A g \in Goal : flight'[g] = IF g \in L THEN "launched" ELSE flight[g] BY <1>1
<1>6. Open' = Open \cup L BY <1>4, <1>5 DEF Open
<1> SUFFICES ASSUME ~stop, Open = {}, Claimed = {}, L = {},
                    NEW g \in Goal, status[g] = "ready", g \notin resting
             PROVE  FALSE
  BY <1>3, <1>6 DEF AllRest
<1>7. flight[g] = "no" BY <1>3 DEF Open, Types
<1>8. g \in Dispatchable BY <1>3, <1>7 DEF Dispatchable, InFlight, Claimed
<1>9. Cardinality(Dispatchable) \in Nat /\ slots \in Nat /\ slots # 0 BY <1>3, <1>4, Finite DEF Types
<1>10. Cardinality(Dispatchable) # 0
  <2>1. IsFiniteSet(Dispatchable) BY <1>4, Finite
  <2> QED BY <1>8, <2>1, FS_EmptySet
<1>11. Min({slots, Cardinality(Dispatchable)}) \in {slots, Cardinality(Dispatchable)}
  <2>1. {slots, Cardinality(Dispatchable)} \subseteq Nat BY <1>9
  <2> QED BY <2>1, MinIs
<1>12. Cardinality(L) = 0 BY FS_EmptySet
<1>13. Cardinality(L) = Min({slots, Cardinality(Dispatchable)}) BY <1>1
<1> QED BY <1>9, <1>10, <1>11, <1>12, <1>13

\* The slots a pass counts are free unless an attempt is at work.
LEMMA CountSees ==
  ASSUME Types, CountSlots, "lingered" \notin odd'
  PROVE  /\ \A g \in Goal : flight[g] # "closing"
         /\ slots' = 0 => Open # {} \/ Claimed # {}
<1> DEFINE a == Loaded.active \cup {g \in Goal : InFlight(g)}
<1>1. \A g \in Goal : flight[g] # "closing" BY DEF CountSlots
<1>2. a \in SUBSET Goal BY DEF Loaded
<1>3. a = Claimed \cup {g \in Goal : InFlight(g)} BY DEF Loaded, Claimed
<1>4. slots' = IF Cardinality(a) < Concurrency THEN Concurrency - Cardinality(a) ELSE 0
  BY DEF CountSlots
<1>5. {g \in Goal : InFlight(g)} \subseteq Open BY <1>1 DEF InFlight, Open, Types
<1> HIDE DEF a
<1>6. Cardinality(a) \in Nat /\ Concurrency \in Nat /\ Concurrency > 0 BY <1>2, Finite
<1>7. slots' = 0 => Cardinality(a) # 0 BY <1>4, <1>6
<1>8. a = {} => Cardinality(a) = 0 BY FS_EmptySet
<1> QED BY <1>1, <1>3, <1>5, <1>7, <1>8

\* What the pass knows of its slots holds.
LEMMA SlotKept ==
  ASSUME Types, SlotInv, RecordInv, BudgetNext, setting' = setting
  PROVE  SlotInv'
<1>1. CASE Moves
  <2>1. moved' BY <1>1, MovesAre DEF RecordInv
  <2> QED BY <2>1 DEF SlotInv, Calm
<1>2. CASE AskGoals \/ StartRun \/ EndPass \/ Die \/ EndGoals
  <2>1. pc' \in {"off", "goals", "create", "slots"}
    BY <1>2, PhaseIs DEF AskGoals, StartRun, EndPass, Die, EndGoals
  <2> QED BY <2>1 DEF SlotInv
<1>3. CASE CountSlots
  <2>1. /\ pc' = "spend" /\ snap' = Loaded /\ UNCHANGED <<status, flight>>
    BY <1>3, PhaseIs DEF CountSlots, workVars
  <2>2. /\ Claimed' = Claimed /\ Open' = Open BY <2>1 DEF Claimed, Open
  <2>3. /\ snap'.active = Claimed
        /\ snap'.ready = {g \in Goal : status[g] \in {"ready", "claimed"}}
    BY <2>1 DEF Loaded, Claimed
  <2> QED BY <1>3, <2>1, <2>2, <2>3, CountSees DEF SlotInv
<1>4. CASE AskSpend
  <2>1. /\ Record(snap.recorded) /\ pc = "spend" /\ pc' = "launch" /\ stop' = SpendStopped
        /\ UNCHANGED <<setting, since, today, status, flight, odd, snap, slots>>
    BY <1>4, PhaseIs DEF AskSpend, winVars, workVars
  <2>2. Record(Recorded(log)) BY <2>1 DEF RecordInv
  <2>3. ~moved' => ~moved /\ (SpendStopped' <=> SpendStopped)
    BY <2>1, <2>2, RecordQuiet, SameAnswers
  <2>4. SpendStopped \in BOOLEAN /\ SpendStopped' \in BOOLEAN BY DEF SpendStopped
  <2>5. ~moved' => stop' = SpendStopped' BY <2>1, <2>3, <2>4
  <2>6. Claimed' = Claimed /\ Open' = Open BY <2>1 DEF Claimed, Open
  <2> QED BY <2>1, <2>3, <2>5, <2>6 DEF SlotInv, Calm
<1>5. CASE Launch
  <2>1. /\ pc = "launch" /\ pc' = "drain"
        /\ UNCHANGED <<log, setting, since, today, status, resting, odd, moved>>
    BY <1>5, PhaseIs DEF Launch, winVars
  <2>2. /\ Calm' = Calm /\ Claimed' = Claimed /\ (SpendStopped' <=> SpendStopped)
        /\ AllRest' = AllRest
    BY <2>1, SameAnswers DEF Calm, Claimed, AllRest
  <2> QED BY <1>5, <2>1, <2>2, LaunchLeaves DEF SlotInv
<1>6. CASE EndDrain
  <2>1. /\ pc = "drain" /\ pc' = "end" /\ \A g \in Goal : status[g] # "proposed"
        /\ UNCHANGED <<log, setting, since, today, status, resting, flight, odd, moved>>
    BY <1>6, PhaseIs DEF EndDrain, winVars, workVars
  <2>2. /\ Calm' = Calm /\ Claimed' = Claimed /\ Open' = Open /\ (SpendStopped' <=> SpendStopped)
        /\ AllRest' = AllRest
    BY <2>1, SameAnswers DEF Calm, Claimed, Open, AllRest
  <2> QED BY <2>1, <2>2 DEF SlotInv
<1>7. CASE Midnight
  <2>1. /\ "midnight" \in odd' /\ odd \subseteq odd'
        /\ UNCHANGED <<pc, snap, slots, status, flight, moved>>
    BY <1>7 DEF Midnight, workVars
  <2>2. Claimed' = Claimed /\ Open' = Open BY <2>1 DEF Claimed, Open
  <2> QED BY <2>1, <2>2 DEF SlotInv, Calm
<1>8. ASSUME NEW h \in Goal, Release(h) PROVE SlotInv'
  <2>1. /\ flight[h] = "closing" /\ flight' = [flight EXCEPT ![h] = "no"]
        /\ UNCHANGED <<pc, snap, slots, stop, odd, status, resting, moved, log, setting, since, today>>
    BY <1>8 DEF Release, runVars, winVars
  <2>2. Open' = Open /\ \A g \in Goal : flight[g] # "closing" => flight'[g] # "closing"
    BY <2>1 DEF Open, Types
  <2>3. /\ Calm' = Calm /\ Claimed' = Claimed /\ (SpendStopped' <=> SpendStopped)
        /\ AllRest' = AllRest
    BY <2>1, SameAnswers DEF Calm, Claimed, AllRest
  <2> QED BY <2>1, <2>2, <2>3 DEF SlotInv
<1>9. ASSUME NEW h \in Goal, Rested(h) PROVE SlotInv'
  <2>1. /\ UNCHANGED <<pc, snap, slots, stop, status, flight, moved, log, setting, since, today>>
        /\ odd \subseteq odd' /\ odd' \subseteq odd \cup {"rested"}
        /\ pc \in {"drain", "end"} => "rested" \in odd'
    BY <1>9 DEF Rested, winVars
  <2>2. Claimed' = Claimed /\ Open' = Open /\ (Calm' <=> Calm) /\ (SpendStopped' <=> SpendStopped)
    BY <2>1, SameAnswers DEF Calm, Claimed, Open
  <2>3. SpendStopped \in BOOLEAN /\ SpendStopped' \in BOOLEAN BY DEF SpendStopped
  <2>4. SpendStopped' = SpendStopped BY <2>2, <2>3
  <2> QED BY <2>1, <2>2, <2>4 DEF SlotInv
<1> QED BY <1>1, <1>2, <1>3, <1>4, <1>5, <1>6, <1>7, <1>8, <1>9, NextIs DEF Rests

\* What a Run says as its pass ends.
LEMMA VerdictIs ==
  ASSUME Types, QueueInv, SlotInv, RecordInv, EndInv, EndPass, outcome' \in {"paused", "stuck"}
  PROVE  /\ \A g \in Goal : flight[g] = "no"
         /\ resting' = resting
         /\ outcome' = "stuck" => odd # {}
         /\ outcome' = "paused" /\ "midnight" \notin odd => AllHeld
<1>1. pc = "end" BY DEF EndPass
<1>2. /\ ~moved /\ \A g \in Goal : ~InFlight(g) /\ status[g] # "claimed"
      /\ \E g \in Goal : status[g] # "done"
      /\ outcome' = IF BudgetPaused THEN "paused" ELSE "stuck"
      /\ BudgetPaused \/ ~BackoffWait
  BY DEF EndPass
<1>3. resting' = resting
  <2>1. \E woken \in {{}} : resting' = resting \ woken BY <1>2 DEF EndPass
  <2> QED BY <2>1
<1>4. \A g \in Goal : flight[g] = "no" BY <1>2 DEF InFlight
<1>5. \A g \in Goal : status[g] # "proposed" BY <1>1, <1>2 DEF SlotInv
<1>6. \A g \in Goal : status[g] \in {"queued", "ready", "done"} BY <1>2, <1>5 DEF Types
<1>7. Open = {} /\ Claimed = {} BY <1>2, <1>4 DEF Open, Claimed
<1>8. odd = {} => SpendStopped \/ AllRest BY <1>1, <1>2, <1>7 DEF SlotInv, Calm
<1>9. ASSUME outcome' = "stuck", odd = {} PROVE FALSE
  <2>1. ~SpendStopped /\ GoalsLeft # 0 /\ ~BackoffWait BY <1>2, <1>9 DEF BudgetPaused
  <2>2. Queued = {} BY <1>1, <1>2, <1>9, <2>1 DEF QueueInv, Calm
  <2>3. AllRest BY <1>8, <1>9, <2>1
  <2>4. \E g \in Goal : status[g] = "ready" BY <1>2, <1>6, <2>2 DEF Queued
  <2>5. BackoffWait BY <2>3, <2>4 DEF BackoffWait, AllRest
  <2> QED BY <2>1, <2>5
<1>10. ASSUME outcome' = "paused", "midnight" \notin odd PROVE AllHeld
  <2>1. SpendStopped \/ GoalsLeft = 0 BY <1>2, <1>10 DEF BudgetPaused
  <2>2. GoalsLeft = 0 BY <2>1 DEF GoalsLeft
  <2>3. Tripped \subseteq Recorded(log) BY <1>1, <1>2, <1>10 DEF RecordInv, Calm
  <2>4. ASSUME odd = {}, NEW g \in Goal, status[g] # "done" PROVE Held(g) \/ g \in resting
    BY <1>6, <1>8, <2>2, <2>4 DEF Held, AllRest
  <2> QED BY <2>2, <2>3, <2>4 DEF AllHeld
<1> QED BY <1>3, <1>4, <1>9, <1>10

\* What is held back stays so as long as nothing moves.
LEMMA HeldStays ==
  ASSUME UNCHANGED <<log, setting, since, today, status, resting, odd>>
  PROVE  AllHeld' <=> AllHeld
<1>1. /\ GoalsLeft' = GoalsLeft /\ (SpendStopped' <=> SpendStopped)
      /\ Tripped' = Tripped /\ Recorded(log)' = Recorded(log)
  BY SameAnswers
<1>2. \A g \in Goal : Held(g)' <=> Held(g) BY <1>1 DEF Held
<1> QED BY <1>1, <1>2 DEF AllHeld

\* A Run that ended stays as honest as it was.
LEMMA EndKept ==
  ASSUME Types, QueueInv, SlotInv, RecordInv, EndInv, BudgetNext, setting' = setting
  PROVE  EndInv'
<1>1. CASE Moves
  <2>1. UNCHANGED <<pc, odd, outcome>> BY <1>1, MovesAre DEF RecordInv
  <2>2. outcome \notin {"paused", "stuck"}
    <3>1. CASE StartGoal BY <3>1 DEF StartGoal, EndInv
    <3>2. ASSUME NEW g \in Goal, Drain(g) \/ RestartStalled(g) PROVE pc # "off"
      BY <3>2 DEF Drain, RestartStalled
    <3>3. ASSUME NEW g \in Goal, Claim(g) \/ Close(g) PROVE flight[g] # "no"
      BY <3>3 DEF Claim, Close
    <3> QED BY <1>1, <3>1, <3>2, <3>3 DEF Moves, EndInv
  <2> QED BY <2>1, <2>2 DEF EndInv
<1>2. CASE StartRun BY <1>2 DEF StartRun, EndInv
<1>3. CASE Die
  <2>1. outcome' = "crashed" /\ pc' = "off" /\ odd' = odd BY <1>3 DEF Die
  <2> QED BY <2>1 DEF EndInv
<1>4. CASE AskGoals \/ AskSpend \/ EndGoals \/ CountSlots \/ Launch \/ EndDrain
  <2>1. pc # "off" /\ outcome' = outcome /\ odd' \subseteq odd \cup {"lingered"}
    BY <1>4 DEF AskGoals, AskSpend, EndGoals, CountSlots, Launch, EndDrain
  <2>2. outcome = "none" BY <2>1 DEF EndInv
  <2> QED BY <2>1, <2>2 DEF EndInv
<1>5. CASE EndPass
  <2>1. /\ outcome' # "none" => pc' = "off" /\ odd' = odd
        /\ outcome' = "none" => odd' = {}
        /\ UNCHANGED <<log, setting, since, today, status, flight>>
    BY <1>5 DEF EndPass, winVars
  <2>2. odd' \subseteq {"midnight", "lingered", "rested"} BY <2>1 DEF EndInv
  <2>3. CASE outcome' \in {"paused", "stuck"}
    <3>1. resting' = resting /\ odd' = odd /\ pc' = "off" BY <1>5, <2>1, <2>3, VerdictIs
    <3>2. AllHeld' <=> AllHeld BY <2>1, <3>1, HeldStays
    <3>3. /\ \A g \in Goal : flight[g] = "no"
          /\ outcome' = "stuck" => odd # {}
          /\ outcome' = "paused" /\ "midnight" \notin odd => AllHeld
      BY <1>5, <2>3, VerdictIs
    <3> QED BY <2>1, <2>2, <3>1, <3>2, <3>3 DEF EndInv
  <2>4. CASE outcome' \notin {"paused", "stuck"} BY <2>1, <2>2, <2>4 DEF EndInv
  <2> QED BY <2>3, <2>4
<1>6. CASE Midnight
  <2>1. /\ UNCHANGED <<pc, outcome, flight>> /\ odd' = odd \cup {"midnight"}
    BY <1>6 DEF Midnight, workVars
  <2> QED BY <2>1 DEF EndInv
<1>7. ASSUME NEW h \in Goal, Release(h) PROVE EndInv'
  <2>1. /\ flight[h] # "no" /\ UNCHANGED <<pc, outcome, odd>> BY <1>7 DEF Release, runVars
  <2> QED BY <2>1 DEF EndInv
<1>8. ASSUME NEW h \in Goal, Rested(h) PROVE EndInv'
  <2>1. /\ UNCHANGED <<pc, outcome, flight, log, setting, since, today, status>>
        /\ odd \subseteq odd' /\ odd' \subseteq odd \cup {"rested"}
        /\ pc = "off" => odd' # {}
    BY <1>8 DEF Rested, winVars
  <2>2. GoalsLeft' = GoalsLeft /\ Tripped' = Tripped /\ Recorded(log)' = Recorded(log)
    BY <2>1, SameAnswers
  <2>3. outcome = "paused" /\ "midnight" \notin odd' => AllHeld' BY <2>1, <2>2 DEF EndInv, AllHeld
  <2> QED BY <2>1, <2>3 DEF EndInv
<1> QED BY <1>1, <1>2, <1>3, <1>4, <1>5, <1>6, <1>7, <1>8, NextIs DEF Rests

\* As many records as windows on record.
LEMMA RecordsCount ==
  ASSUME NEW s \in Seq(Event), Once(s)
  PROVE  Cardinality({i \in DOMAIN s : s[i].type = "BudgetExhausted"}) = Cardinality(Recorded(s))
<1> DEFINE J == {i \in DOMAIN s : s[i].type = "BudgetExhausted"}
           f == [i \in J |-> s[i].window]
<1>1. Len(s) \in Nat /\ DOMAIN s = 1..Len(s) OBVIOUS
<1>2. IsFiniteSet(J)
  <2>1. IsFiniteSet(1..Len(s)) BY <1>1, FS_Interval
  <2>2. J \subseteq 1..Len(s) BY <1>1
  <2> QED BY <2>1, <2>2, FS_Subset
<1>3. \A i \in J : f[i] \in Recorded(s) BY DEF Recorded
<1>4. \A w \in Recorded(s) : \E i \in J : f[i] = w BY DEF Recorded
<1>5. \A i, j \in J : f[i] = f[j] => i = j BY <1>1 DEF Once
<1>6. f \in Bijection(J, Recorded(s))
  <2>1. f \in [J -> Recorded(s)] BY <1>3
  <2> HIDE DEF J, f
  <2> QED BY <1>4, <1>5, <2>1 DEF Bijection, Injection, Surjection, IsInjective
<1>7. ExistsBijection(J, Recorded(s)) BY <1>6 DEF ExistsBijection
<1> HIDE DEF J
<1> QED BY <1>2, <1>7, FS_Bijection DEF J

\* The inductive invariant of the verdict.
PauseIInv == Types /\ QueueInv /\ SlotInv /\ RecordInv /\ EndInv

\* It is inductive.
LEMMA PauseStep == PauseIInv /\ [BudgetNext]_bvars => PauseIInv'
<1> SUFFICES ASSUME PauseIInv, [BudgetNext]_bvars PROVE PauseIInv' OBVIOUS
<1>1. Types' /\ setting' = setting BY TypesKept DEF PauseIInv
<1>2. CASE BudgetNext
  <2>1. Once(log) BY DEF PauseIInv, RecordInv
  <2>2. QueueInv' /\ SlotInv' /\ RecordInv' /\ EndInv'
    BY <1>1, <1>2, <2>1, QueueKept, SlotKept, RecordKept, EndKept DEF PauseIInv
  <2> QED BY <1>1, <2>2 DEF PauseIInv
<1>3. CASE UNCHANGED bvars
  <2>1. UNCHANGED <<log, today, setting, since, status, resting, flight, pc, todo, snap, slots, left,
                    stop, moved, odd, outcome>>
    BY <1>3 DEF bvars, runVars, workVars, winVars
  <2>2. /\ GoalsLeft' = GoalsLeft /\ (SpendStopped' <=> SpendStopped)
        /\ Tripped' = Tripped /\ Recorded(log)' = Recorded(log)
        /\ Queued' = Queued /\ Claimed' = Claimed /\ Open' = Open /\ (Calm' <=> Calm)
        /\ (AllRest' <=> AllRest) /\ (AllHeld' <=> AllHeld)
    BY <2>1, SameAnswers, HeldStays DEF Queued, Claimed, Open, Calm, AllRest
  <2>3. QueueInv' BY <2>1, <2>2 DEF PauseIInv, QueueInv
  <2>4. SlotInv'
    <3>1. SpendStopped \in BOOLEAN /\ SpendStopped' \in BOOLEAN BY DEF SpendStopped
    <3>2. SpendStopped' = SpendStopped BY <2>2, <3>1
    <3> QED BY <2>1, <2>2, <3>2 DEF PauseIInv, SlotInv
  <2>5. RecordInv' BY <2>1, <2>2 DEF PauseIInv, RecordInv, Once
  <2>6. EndInv' BY <2>1, <2>2 DEF PauseIInv, EndInv
  <2> QED BY <1>1, <2>3, <2>4, <2>5, <2>6 DEF PauseIInv
<1> QED BY <1>2, <1>3

\* At first there is nothing to say.
LEMMA InitPause == BudgetInit => QueueInv /\ SlotInv /\ RecordInv /\ EndInv
<1> SUFFICES ASSUME BudgetInit PROVE QueueInv /\ SlotInv /\ RecordInv /\ EndInv OBVIOUS
<1>1. pc = "off" /\ odd = {} /\ outcome = "none" /\ log = <<>> BY DEF BudgetInit
<1>2. Len(log) = 0 BY <1>1
<1> QED BY <1>1, <1>2 DEF QueueInv, SlotInv, RecordInv, Once, EndInv

\* Run says that a budget holds work back only if a limit is reached and on record,
\* and holds back everything that is left but for retries in their backoff; it says
\* stuck only if midnight, an attempt just gone or a backoff just over explains it; and
\* each window is recorded once: for any number of goals, slots, runs, days and
\* crashes, under any budgets.
THEOREM PausesHonest == BudgetSpec => []PauseHonest
<1>1. BudgetInit => PauseIInv BY TypesInit, InitPause DEF PauseIInv
<1>2. PauseIInv => PauseHonest
  <2> SUFFICES ASSUME PauseIInv PROVE PauseHonest OBVIOUS
  <2>1. Cardinality({i \in DOMAIN log : log[i].type = "BudgetExhausted"}) = Cardinality(Recorded(log))
    BY RecordsCount DEF PauseIInv, Types, RecordInv
  <2> QED BY <2>1 DEF PauseIInv, EndInv, AllHeld, PauseHonest
<1> QED BY <1>1, <1>2, PauseStep, PTL DEF BudgetSpec
=============================================================================
