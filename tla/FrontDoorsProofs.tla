--------------------------- MODULE FrontDoorsProofs ---------------------------
(***************************************************************************)
(* The follower of the log prints it exactly and the runner forgets         *)
(* nothing, for any deliveries, writers, torn lines, cuts of the file and   *)
(* places to begin at; and session commands that race each other record     *)
(* what changed once, with verdicts that hold.                              *)
(***************************************************************************)
EXTENDS FrontDoors, FiniteSetTheorems, FunctionTheorems, SequenceTheorems, WellFoundedInduction,
        TLAPS

Lines == [by : {"webhook", "other"}, key : Deliveries \cup {"none"}, cuts : Nat]

Out == [seq : Nat, line : Lines]

LoopRecord == [at : {"off", "take", "submit", "run"}, batch : Seq(Deliveries)]

\* Who writes to the log, and what.
WriterTypes ==
  /\ quota \in Quota /\ torn \in Lines \cup {NoLine}
  /\ queue \in Seq(Deliveries) /\ loops \in [Slots -> LoopRecord]

\* The log is what it would be had it not been cut, up to where it was; after
\* lines were written to a short log nothing is said of it.
LogInv ==
  /\ log \in Seq(Lines) /\ book \in Seq(Lines) /\ split \in BOOLEAN
  /\ ~split => Len(log) <= Len(book) /\ \A i \in 1..Len(log) : log[i] = book[i]

\* What is printed ends at the last number handed over, is numbered from where
\* it began, and is the log's; the follower has not read further than that.
TailInv ==
  /\ tail \in [on : BOOLEAN, from : Nat, last : Nat, offset : Nat, out : Seq(Out)]
  /\ tail.offset <= tail.last
  /\ tail.from + Len(tail.out) = tail.last
  /\ \A i \in 1..Len(tail.out) : tail.out[i].seq = tail.from + i
  /\ ~split => \A i \in 1..Len(tail.out) :
       tail.from + i <= Len(book) /\ tail.out[i].line = book[tail.from + i]

FollowInv == WriterTypes /\ LogInv /\ TailInv

-----------------------------------------------------------------------------
(* What is printed *)

\* The larger of two numbers.
LEMMA Larger ==
  ASSUME NEW a \in Int, NEW b \in Int
  PROVE  Max({a, b}) = IF a >= b THEN a ELSE b
<1>1. \E m \in {a, b} : \A y \in {a, b} : m >= y OBVIOUS
<1>2. Max({a, b}) \in {a, b} /\ \A y \in {a, b} : Max({a, b}) >= y BY <1>1 DEF Max
<1> QED BY <1>2

\* The lines after a place to the end, each with its number.
LEMMA PrintedLines ==
  ASSUME NEW l \in Seq(Lines), NEW from \in Nat
  PROVE  LET p == Printed(l, from, Len(l))
         IN /\ p \in Seq(Out)
            /\ Len(p) = IF Len(l) > from THEN Len(l) - from ELSE 0
            /\ \A i \in 1..Len(p) : /\ p[i].seq = from + i /\ p[i].line = l[from + i]
                                    /\ from + i <= Len(l)
<1> DEFINE n == IF Len(l) > from THEN Len(l) - from ELSE 0
           p == Printed(l, from, Len(l))
<1>1. Len(l) \in Nat /\ n \in Nat OBVIOUS
<1>2. Max({Len(l) - from, 0}) = n BY <1>1, Larger
<1>3. p = [i \in 1..n |-> [seq |-> from + i, line |-> l[from + i]]] BY <1>2 DEF Printed
<1>4. ASSUME NEW i \in 1..n
      PROVE  /\ from + i <= Len(l) /\ [seq |-> from + i, line |-> l[from + i]] \in Out
  <2>1. from + i \in 1..Len(l) BY <1>1
  <2>2. l[from + i] \in Lines BY <2>1
  <2> QED BY <2>1, <2>2 DEF Out
<1> HIDE DEF n
<1>5. p \in [1..n -> Out] BY <1>3, <1>4
<1>6. p \in Seq(Out) /\ Len(p) = n BY <1>1, <1>5
<1>7. \A i \in 1..n : p[i].seq = from + i /\ p[i].line = l[from + i] BY <1>3
<1> QED BY <1>4, <1>6, <1>7 DEF n

\* What is printed after something else keeps its place behind it.
LEMMA Joined ==
  ASSUME NEW a \in Seq(Out), NEW b \in Seq(Out)
  PROVE  /\ a \o b \in Seq(Out) /\ Len(a \o b) = Len(a) + Len(b)
         /\ \A i \in 1..Len(a) : (a \o b)[i] = a[i]
         /\ \A i \in 1..Len(a \o b) : i \notin 1..Len(a) =>
              /\ i - Len(a) \in 1..Len(b) /\ (a \o b)[i] = b[i - Len(a)]
<1>1. a \o b \in Seq(Out) /\ Len(a \o b) = Len(a) + Len(b) OBVIOUS
<1>2. Len(a) \in Nat /\ Len(b) \in Nat OBVIOUS
<1>3. \A i \in 1..Len(a) : (a \o b)[i] = a[i] OBVIOUS
<1>4. ASSUME NEW i \in 1..Len(a \o b), i \notin 1..Len(a)
      PROVE  i - Len(a) \in 1..Len(b) /\ (a \o b)[i] = b[i - Len(a)]
  <2>1. i \in 1..(Len(a) + Len(b)) /\ i > Len(a) BY <1>1, <1>2, <1>4
  <2>2. i - Len(a) \in 1..Len(b) BY <1>2, <2>1
  <2> QED BY <1>2, <2>1, <2>2
<1> QED BY <1>1, <1>3, <1>4

-----------------------------------------------------------------------------
(* Steps *)

\* Steps that leave the log and the follower alone.
Aside == UNCHANGED <<log, book, split, tail>>

\* They keep what is known of both.
LEMMA AsideHolds ==
  ASSUME LogInv, TailInv, Aside PROVE LogInv' /\ TailInv'
BY DEF LogInv, TailInv, Aside

\* A whole line is written, by whomever.
LEMMA WriteHolds ==
  ASSUME LogInv, TailInv, NEW line \in Lines, Write(line), tail' = tail
  PROVE  LogInv' /\ TailInv'
<1>1. /\ log' = Append(log, line) /\ split' = (split \/ log # book)
      /\ book' = IF log = book THEN log' ELSE book
  BY DEF Write
<1>2. log' \in Seq(Lines) /\ book' \in Seq(Lines) /\ split' \in BOOLEAN
  BY <1>1 DEF LogInv
<1>3. CASE split'
  BY <1>2, <1>3 DEF LogInv, TailInv
<1>4. CASE ~split'
  <2>1. ~split /\ log = book /\ book' = log' BY <1>1, <1>4
  <2>2. /\ Len(book') = Len(book) + 1
        /\ \A i \in 1..Len(book) : book'[i] = book[i]
    BY <1>1, <2>1 DEF LogInv
  <2>3. ASSUME NEW i \in 1..Len(tail.out)
        PROVE  tail.from + i <= Len(book') /\ tail.out[i].line = book'[tail.from + i]
    <3>1. tail.from + i <= Len(book) /\ tail.out[i].line = book[tail.from + i]
      BY <2>1 DEF TailInv
    <3>2. tail.from \in Nat /\ Len(book) \in Nat /\ Len(tail.out) \in Nat
      BY DEF TailInv, LogInv
    <3>3. tail.from + i \in 1..Len(book) BY <3>1, <3>2
    <3> QED BY <2>2, <3>1, <3>2, <3>3
  <2>4. LogInv' BY <1>2, <2>1 DEF LogInv
  <2>5. TailInv' BY <2>3 DEF TailInv
  <2> QED BY <2>4, <2>5
<1> QED BY <1>3, <1>4

\* The file is cut short, or put back.
LEMMA CutHolds ==
  ASSUME LogInv, TailInv, Cut \/ PutBack PROVE LogInv' /\ TailInv'
<1>1. UNCHANGED <<book, split, tail>> BY DEF Cut, PutBack
<1>2. CASE Cut
  <2>1. PICK n \in 0..Len(log) : log' = SubSeq(log, 1, n) BY <1>2 DEF Cut
  <2>2. /\ log' \in Seq(Lines) /\ Len(log') = n
        /\ \A i \in 1..n : log'[i] = log[i]
    BY <2>1 DEF LogInv
  <2>3. LogInv' BY <1>1, <2>2 DEF LogInv
  <2> QED BY <1>1, <2>3 DEF TailInv
<1>3. CASE PutBack
  <2>1. log' = book BY <1>3 DEF PutBack
  <2>2. LogInv' BY <1>1, <2>1 DEF LogInv
  <2> QED BY <1>1, <2>2 DEF TailInv
<1> QED BY <1>2, <1>3

\* What follows on from the last number handed over.
LEMMA PollHolds ==
  ASSUME LogInv, TailInv, Poll PROVE LogInv' /\ TailInv'
<1> DEFINE p == Printed(log, tail.last, Len(log))
<1>1. UNCHANGED <<log, book, split>> BY DEF Poll
<1>t. /\ tail \in [on : BOOLEAN, from : Nat, last : Nat, offset : Nat, out : Seq(Out)]
      /\ log \in Seq(Lines) /\ Len(log) \in Nat
  BY DEF TailInv, LogInv
<1>2. Max({tail.last, tail.offset}) = tail.last
  <2>1. tail.offset <= tail.last /\ tail.last \in Int /\ tail.offset \in Int
    BY <1>t DEF TailInv
  <2> QED BY <2>1, Larger
<1>3. Max({tail.last, Len(log)}) = IF tail.last >= Len(log) THEN tail.last ELSE Len(log)
  BY <1>t, Larger
<1>4. /\ p \in Seq(Out)
      /\ Len(p) = IF Len(log) > tail.last THEN Len(log) - tail.last ELSE 0
      /\ \A i \in 1..Len(p) : /\ p[i].seq = tail.last + i /\ p[i].line = log[tail.last + i]
                              /\ tail.last + i <= Len(log)
  BY <1>t, PrintedLines
<1> HIDE DEF p
<1>5. /\ tail'.on = tail.on /\ tail'.from = tail.from
      /\ tail'.offset = Len(log) /\ tail'.last = Max({tail.last, Len(log)})
      /\ tail'.out = tail.out \o p
      /\ tail' = [on |-> tail'.on, from |-> tail'.from, last |-> tail'.last,
                  offset |-> tail'.offset, out |-> tail'.out]
  BY <1>t, <1>2 DEF Poll, NextOffset, p
<1>6. /\ tail'.out \in Seq(Out) /\ Len(tail'.out) = Len(tail.out) + Len(p)
      /\ \A i \in 1..Len(tail.out) : tail'.out[i] = tail.out[i]
      /\ \A i \in 1..Len(tail'.out) : i \notin 1..Len(tail.out) =>
           /\ i - Len(tail.out) \in 1..Len(p) /\ tail'.out[i] = p[i - Len(tail.out)]
  <2>1. tail.out \in Seq(Out) BY <1>t
  <2> DEFINE a == tail.out
             c == a \o p
  <2>2. /\ c \in Seq(Out) /\ Len(c) = Len(a) + Len(p)
        /\ \A i \in 1..Len(a) : c[i] = a[i]
        /\ \A i \in 1..Len(c) : i \notin 1..Len(a) =>
             i - Len(a) \in 1..Len(p) /\ c[i] = p[i - Len(a)]
    <3> HIDE DEF a
    <3>1. a \in Seq(Out) /\ p \in Seq(Out) BY <1>4, <2>1 DEF a
    <3> QED BY <3>1, Joined
  <2>3. tail'.out = c BY <1>5
  <2> HIDE DEF c
  <2> QED BY <2>2, <2>3
<1>7. /\ Len(tail.out) \in Nat /\ Len(p) \in Nat /\ Len(book) \in Nat
      /\ tail.from \in Nat /\ tail.last \in Nat
      /\ tail.from + Len(tail.out) = tail.last
  BY <1>t, <1>4 DEF TailInv, LogInv
<1>8. ASSUME NEW i \in 1..Len(tail'.out), i \notin 1..Len(tail.out)
      PROVE  /\ tail'.out[i].seq = tail.from + i
             /\ tail'.out[i].line = log[tail.from + i] /\ tail.from + i <= Len(log)
  <2> DEFINE j == i - Len(tail.out)
  <2>1. j \in 1..Len(p) /\ tail'.out[i] = p[j] BY <1>6, <1>8
  <2>2. i \in Nat BY <1>6, <1>7
  <2>3. tail.last + j = tail.from + i BY <1>7, <2>2
  <2> QED BY <1>4, <2>1, <2>3
<1>9. ASSUME NEW i \in 1..Len(tail'.out)
      PROVE  /\ tail'.out[i].seq = tail.from + i
             /\ ~split => tail.from + i <= Len(book) /\ tail'.out[i].line = book[tail.from + i]
  <2>1. CASE i \in 1..Len(tail.out) BY <1>6, <2>1 DEF TailInv
  <2>2. CASE i \notin 1..Len(tail.out)
    <3>1. /\ tail'.out[i].seq = tail.from + i
          /\ tail'.out[i].line = log[tail.from + i] /\ tail.from + i <= Len(log)
      BY <1>8, <2>2
    <3>2. tail.from + i \in 1..Len(log) BY <1>t, <1>7, <3>1
    <3> QED BY <1>t, <1>7, <3>1, <3>2 DEF LogInv
  <2> QED BY <2>1, <2>2
<1>10. tail'.last \in Nat /\ Len(log) <= tail'.last /\ tail.from + Len(tail'.out) = tail'.last
  BY <1>t, <1>3, <1>4, <1>5, <1>6, <1>7
<1>11. TailInv' BY <1>1, <1>t, <1>5, <1>6, <1>9, <1>10 DEF TailInv
<1> QED BY <1>1, <1>11 DEF LogInv

\* A follower begins, or starts over from the first line.
LEMMA FollowHolds ==
  ASSUME LogInv, TailInv, StartOver \/ \E from \in Nat : Follow(from)
  PROVE  LogInv' /\ TailInv'
<1>1. UNCHANGED <<log, book, split>> BY DEF StartOver, Follow
<1>2. LogInv' BY <1>1 DEF LogInv
<1>3. CASE StartOver
  <2>1. tail' = [tail EXCEPT !.offset = 0] BY <1>3 DEF StartOver
  <2> QED BY <1>1, <1>2, <2>1 DEF TailInv
<1>4. ASSUME NEW from \in Nat, Follow(from) PROVE TailInv'
  <2> DEFINE p == Printed(log, from, Len(log))
  <2>1. /\ log \in Seq(Lines) /\ Len(log) \in Nat /\ Len(book) \in Nat BY DEF LogInv
  <2>2. /\ p \in Seq(Out)
        /\ Len(p) = IF Len(log) > from THEN Len(log) - from ELSE 0
        /\ \A i \in 1..Len(p) : /\ p[i].seq = from + i /\ p[i].line = log[from + i]
                                /\ from + i <= Len(log)
    BY <2>1, PrintedLines
  <2>3. Max({from, Len(log)}) = IF from >= Len(log) THEN from ELSE Len(log)
    BY <2>1, Larger
  <2> HIDE DEF p
  <2>4. tail' = [on |-> TRUE, from |-> from, last |-> Max({from, Len(log)}), offset |-> 0,
                 out |-> p]
    BY <1>4 DEF Follow, p
  <2>5. ASSUME ~split, NEW i \in 1..Len(p)
        PROVE  from + i <= Len(book) /\ p[i].line = book[from + i]
    <3>1. from + i \in 1..Len(log) /\ p[i].line = log[from + i] BY <2>1, <2>2
    <3> QED BY <2>1, <2>5, <3>1 DEF LogInv
  <2>6. Max({from, Len(log)}) \in Nat /\ from + Len(p) = Max({from, Len(log)})
    BY <2>1, <2>2, <2>3
  <2>7. tail' \in [on : BOOLEAN, from : Nat, last : Nat, offset : Nat, out : Seq(Out)]
    BY <2>2, <2>4, <2>6
  <2>8. /\ tail'.from = from /\ tail'.last = Max({from, Len(log)}) /\ tail'.offset = 0
        /\ tail'.out = p
    BY <2>4
  <2>9. /\ tail'.offset <= tail'.last
        /\ tail'.from + Len(tail'.out) = tail'.last
        /\ \A i \in 1..Len(tail'.out) : tail'.out[i].seq = tail'.from + i
    BY <2>2, <2>6, <2>8
  <2>10. ~split' => \A i \in 1..Len(tail'.out) :
           tail'.from + i <= Len(book') /\ tail'.out[i].line = book'[tail'.from + i]
    BY <1>1, <2>5, <2>8
  <2> QED BY <2>7, <2>9, <2>10 DEF TailInv
<1> QED BY <1>2, <1>3, <1>4

-----------------------------------------------------------------------------
(* Types of the writers *)

\* A bound that is not used up can be taken from.
LEMMA Fewer ==
  ASSUME quota \in Quota
  PROVE  /\ quota.deliveries > 0 => [quota EXCEPT !.deliveries = @ - 1] \in Quota
         /\ quota.failures > 0 => [quota EXCEPT !.failures = @ - 1] \in Quota
         /\ quota.others > 0 => [quota EXCEPT !.others = @ - 1] \in Quota
         /\ quota.cuts > 0 => [quota EXCEPT !.cuts = @ - 1] \in Quota
         /\ quota.cuts \in Nat /\ quota.from \subseteq Nat
BY DEF Quota

\* The loops and the queue hold deliveries.
LEMMA LoopTypes ==
  ASSUME WriterTypes,
         \/ \E d \in Deliveries : Enqueue(d)
         \/ \E l \in Slots :
              Take(l) \/ SubmitNext(l) \/ SubmitFails(l) \/ Submitted(l) \/ RunOnce(l)
         \/ Die
  PROVE  queue' \in Seq(Deliveries) /\ loops' \in [Slots -> LoopRecord]
<1>0. /\ <<>> \in Seq(Deliveries) /\ Off \in LoopRecord
      /\ \A at \in {"take", "submit", "run"} : [Off EXCEPT !.at = at] \in LoopRecord
      /\ \A x \in LoopRecord : \A at \in {"take", "submit", "run"} :
           [x EXCEPT !.at = at] \in LoopRecord
  <2>1. <<>> \in Seq(Deliveries) OBVIOUS
  <2>2. Off \in LoopRecord BY <2>1 DEF Off, LoopRecord
  <2>3. \A x \in LoopRecord : \A at \in {"take", "submit", "run"} :
        [x EXCEPT !.at = at] \in LoopRecord
    BY DEF LoopRecord
  <2> QED BY <2>1, <2>2, <2>3
<1>1. ASSUME NEW d \in Deliveries, Enqueue(d)
      PROVE  queue' \in Seq(Deliveries) /\ loops' \in [Slots -> LoopRecord]
  BY <1>0, <1>1 DEF Enqueue, WriterTypes, Live
<1>2. ASSUME NEW l \in Slots, Take(l)
      PROVE  queue' \in Seq(Deliveries) /\ loops' \in [Slots -> LoopRecord]
  <2>1. [at |-> "submit", batch |-> queue] \in LoopRecord BY DEF WriterTypes, LoopRecord
  <2> QED BY <1>0, <1>2, <2>1 DEF Take, WriterTypes
<1>3. ASSUME NEW l \in Slots, SubmitNext(l)
      PROVE  queue' \in Seq(Deliveries) /\ loops' \in [Slots -> LoopRecord]
  <2>1. loops[l] \in LoopRecord /\ loops[l].batch # <<>> /\ queue' = queue
        /\ loops' = [loops EXCEPT ![l].batch = Tail(@)]
    BY <1>3 DEF SubmitNext, WriterTypes
  <2>2. Tail(loops[l].batch) \in Seq(Deliveries) BY <2>1 DEF LoopRecord
  <2>3. [loops[l] EXCEPT !.batch = Tail(loops[l].batch)] \in LoopRecord
    BY <2>1, <2>2 DEF LoopRecord
  <2> QED BY <2>1, <2>3 DEF WriterTypes
<1>4. ASSUME NEW l \in Slots, SubmitFails(l) \/ Submitted(l) \/ RunOnce(l)
      PROVE  queue' \in Seq(Deliveries) /\ loops' \in [Slots -> LoopRecord]
  <2>1. /\ queue' = queue
        /\ \/ loops' = [loops EXCEPT ![l] = [Off EXCEPT !.at = "take"]]
           \/ loops' = [loops EXCEPT ![l] = [loops[l] EXCEPT !.at = "run"]]
           \/ loops' = [loops EXCEPT ![l] = [loops[l] EXCEPT !.at = "take"]]
    BY <1>4 DEF SubmitFails, Submitted, RunOnce
  <2>2. loops[l] \in LoopRecord BY DEF WriterTypes
  <2>3. /\ [Off EXCEPT !.at = "take"] \in LoopRecord
        /\ [loops[l] EXCEPT !.at = "run"] \in LoopRecord
        /\ [loops[l] EXCEPT !.at = "take"] \in LoopRecord
    BY <1>0, <2>2
  <2> QED BY <2>1, <2>3 DEF WriterTypes
<1>5. CASE Die BY <1>0, <1>5 DEF Die
<1> QED BY <1>1, <1>2, <1>3, <1>4, <1>5

-----------------------------------------------------------------------------
(* The invariant *)

\* It holds whatever the server is to do.
LEMMA FollowInit ==
  ASSUME NEW work \in Serving \cup {Idling}, WebhookInit(work) PROVE FollowInv
<1>1. /\ quota \in Quota /\ torn = NoLine /\ queue = <<>> /\ log = <<>> /\ book = <<>>
      /\ split = FALSE /\ tail = NoTail /\ loops = [l \in Slots |-> Off]
  BY WorkAssumption DEF WebhookInit
<1>2. <<>> \in Seq(Deliveries) /\ <<>> \in Seq(Lines) /\ <<>> \in Seq(Out)
      /\ Len(<<>>) = 0
  OBVIOUS
<1>3. Off \in LoopRecord BY <1>2 DEF Off, LoopRecord
<1>4. WriterTypes BY <1>1, <1>2, <1>3 DEF WriterTypes
<1>5. LogInv
  <2>1. Len(log) = 0 /\ Len(book) = 0 /\ 1..0 = {} BY <1>1, <1>2
  <2>2. \A i \in 1..Len(log) : log[i] = book[i] BY <2>1
  <2>3. log \in Seq(Lines) /\ book \in Seq(Lines) /\ split \in BOOLEAN BY <1>1, <1>2
  <2> QED BY <2>1, <2>2, <2>3 DEF LogInv
<1>6. TailInv BY <1>1, <1>2 DEF TailInv, NoTail
<1> QED BY <1>4, <1>5, <1>6 DEF FollowInv

\* What the runner does.
LEMMA RunnerHolds ==
  ASSUME FollowInv,
         \/ \E d \in Deliveries : Receive(d)
         \/ \E l \in Slots :
              Take(l) \/ SubmitNext(l) \/ SubmitFails(l) \/ Submitted(l) \/ RunOnce(l)
         \/ Die
  PROVE  FollowInv'
<1> USE DEF FollowInv
<1>1. queue' \in Seq(Deliveries) /\ loops' \in [Slots -> LoopRecord]
  <2>1. CASE \E d \in Deliveries : Receive(d) /\ ~Enqueue(d)
    BY <2>1 DEF Receive, WriterTypes
  <2>2. CASE ~\E d \in Deliveries : Receive(d) /\ ~Enqueue(d)
    BY <2>2, LoopTypes
  <2> QED BY <2>1, <2>2
<1>2. quota' \in Quota /\ torn' = torn
  <2>1. quota \in Quota BY DEF WriterTypes
  <2> QED BY <2>1, Fewer DEF Receive, Take, SubmitNext, SubmitFails, Submitted, RunOnce, Die
<1>3. WriterTypes' BY <1>1, <1>2 DEF WriterTypes
<1>4. CASE Aside BY <1>3, <1>4, AsideHolds
<1>5. ASSUME NEW l \in Slots, SubmitNext(l) PROVE FollowInv'
  <2>1. loops[l] \in LoopRecord /\ loops[l].batch # <<>> /\ tail' = tail
    BY <1>5 DEF SubmitNext, WriterTypes
  <2>2. Head(loops[l].batch) \in Deliveries BY <2>1 DEF LoopRecord
  <2>3. Line("webhook", Head(loops[l].batch)) \in Lines
    BY <2>2, Fewer DEF Line, Lines, WriterTypes
  <2>4. Aside \/ Write(Line("webhook", Head(loops[l].batch)))
    BY <1>5 DEF SubmitNext, Aside
  <2> QED BY <1>3, <1>4, <2>1, <2>3, <2>4, WriteHolds
<1>6. Aside \/ \E l \in Slots : SubmitNext(l)
  BY DEF Receive, Take, SubmitFails, Submitted, RunOnce, Die, Aside
<1> QED BY <1>4, <1>5, <1>6

\* What other writers do, and what is done to the file.
LEMMA OthersHold ==
  ASSUME FollowInv, OtherWrite \/ OtherFinish \/ Cut \/ PutBack PROVE FollowInv'
<1> USE DEF FollowInv
<1>1. quota \in Quota /\ UNCHANGED <<queue, loops>>
  BY DEF WriterTypes, OtherWrite, OtherFinish, Cut, PutBack
<1>2. Line("other", "none") \in Lines BY <1>1, Fewer DEF Line, Lines
<1>3. quota' \in Quota BY <1>1, Fewer DEF OtherWrite, OtherFinish, Cut, PutBack
<1>4. torn' \in Lines \cup {NoLine}
  BY <1>2 DEF WriterTypes, OtherWrite, OtherFinish, Cut, PutBack
<1>5. WriterTypes' BY <1>1, <1>3, <1>4 DEF WriterTypes
<1>6. CASE Cut \/ PutBack BY <1>5, <1>6, CutHolds
<1>7. CASE OtherWrite
  <2>1. Aside \/ (Write(Line("other", "none")) /\ tail' = tail)
    BY <1>7 DEF OtherWrite, Aside
  <2> QED BY <1>2, <1>5, <2>1, AsideHolds, WriteHolds
<1>8. CASE OtherFinish
  <2>1. torn \in Lines BY <1>8 DEF OtherFinish, WriterTypes
  <2>2. Aside \/ (Write(torn) /\ tail' = tail) BY <1>8 DEF OtherFinish, Aside
  <2> QED BY <1>5, <2>1, <2>2, AsideHolds, WriteHolds
<1> QED BY <1>6, <1>7, <1>8

\* What the follower does.
LEMMA FollowerHolds ==
  ASSUME FollowInv, Poll \/ StartOver \/ \E from \in quota.from : Follow(from) PROVE FollowInv'
<1> USE DEF FollowInv
<1>1. UNCHANGED <<quota, torn, queue, loops>> BY DEF Poll, StartOver, Follow
<1>2. WriterTypes' BY <1>1 DEF WriterTypes
<1>3. quota.from \subseteq Nat BY Fewer DEF WriterTypes
<1> QED BY <1>2, <1>3, PollHolds, FollowHolds

\* Every step keeps it.
LEMMA FollowStep ==
  ASSUME FollowInv, [Next]_<<wvars, svars>> PROVE FollowInv'
<1>1. CASE WebhookNext
  BY <1>1, RunnerHolds, OthersHold, FollowerHolds DEF WebhookNext
<1>2. CASE UNCHANGED wvars
  BY <1>2 DEF wvars, FollowInv, WriterTypes, LogInv, TailInv
<1> QED BY <1>1, <1>2 DEF Next

\* It is strong enough.
LEMMA FollowExact == FollowInv => FollowedExactly
<1> SUFFICES ASSUME FollowInv PROVE FollowedExactly OBVIOUS
<1>1. /\ tail \in [on : BOOLEAN, from : Nat, last : Nat, offset : Nat, out : Seq(Out)]
      /\ tail.offset <= tail.last /\ tail.from + Len(tail.out) = tail.last
      /\ \A i \in 1..Len(tail.out) : tail.out[i].seq = tail.from + i
  BY DEF FollowInv, TailInv
<1>2. /\ Len(tail.out) \in Nat /\ DOMAIN tail.out = 1..Len(tail.out) /\ tail.from \in Nat
      /\ \A i \in 1..Len(tail.out) : tail.out[i] \in Out
  BY <1>1
<1>3. \A i \in 1..Len(tail.out) - 1 : tail.out[i].seq < tail.out[i + 1].seq
  BY <1>1, <1>2
<1>4. ASSUME ~split, NEW i \in DOMAIN tail.out
      PROVE  tail.out[i] = [seq |-> tail.from + i, line |-> book[tail.from + i]]
  <2>1. /\ tail.out[i].seq = tail.from + i /\ tail.out[i] \in Out
        /\ tail.out[i].line = book[tail.from + i]
    BY <1>1, <1>2, <1>4 DEF FollowInv, TailInv
  <2> QED BY <2>1 DEF Out
<1>5. tail.offset = Len(book) => tail.from + Len(tail.out) >= Len(book)
  BY <1>1
<1> QED BY <1>3, <1>4, <1>5 DEF FollowedExactly

\* The follower prints the log after where it began, each line once and in order,
\* whatever is appended, torn, repaired, cut short and put back meanwhile; and
\* what it has read to the end it has printed.
THEOREM FollowsExactly == Spec => []FollowedExactly
<1>1. Init => FollowInv BY FollowInit DEF Init
<1>2. FollowInv /\ [Next]_<<wvars, svars>> => FollowInv' BY FollowStep
<1>3. FollowInv => FollowedExactly BY FollowExact
<1> QED BY <1>1, <1>2, <1>3, PTL DEF Spec

-----------------------------------------------------------------------------
(* Counting deliveries *)

\* How often something is in a sequence, as one end of it changes.
LEMMA CountChanges ==
  ASSUME NEW S, NEW s \in Seq(S), NEW d
  PROVE  /\ Count(d, s) \in Nat /\ Count(d, <<>>) = 0
         /\ \A e \in S : Count(d, Append(s, e)) = Count(d, s) + IF e = d THEN 1 ELSE 0
         /\ s # <<>> => Count(d, s) = Count(d, Tail(s)) + IF Head(s) = d THEN 1 ELSE 0
<1> DEFINE At(q) == {i \in DOMAIN q : q[i] = d}
<1>1. Len(s) \in Nat /\ DOMAIN s = 1..Len(s) /\ IsFiniteSet(1..Len(s)) BY FS_Interval
<1>2. IsFiniteSet(At(s)) /\ Cardinality(At(s)) \in Nat
  BY <1>1, FS_Subset, FS_CardinalityType
<1>3. Count(d, <<>>) = 0
  <2>1. {i \in DOMAIN <<>> : <<>>[i] = d} = {} OBVIOUS
  <2> QED BY <2>1, FS_EmptySet DEF Count
<1>4. ASSUME NEW e \in S
      PROVE  Count(d, Append(s, e)) = Count(d, s) + IF e = d THEN 1 ELSE 0
  <2>1. /\ DOMAIN Append(s, e) = 1..(Len(s) + 1) /\ Append(s, e)[Len(s) + 1] = e
        /\ \A i \in 1..Len(s) : Append(s, e)[i] = s[i]
    OBVIOUS
  <2>2. At(Append(s, e)) = At(s) \cup (IF e = d THEN {Len(s) + 1} ELSE {})
    BY <1>1, <2>1
  <2>3. Len(s) + 1 \notin At(s) BY <1>1
  <2>4. CASE e = d
    <3>1. Cardinality(At(s) \cup {Len(s) + 1}) = Cardinality(At(s)) + 1
      BY <1>2, <2>3, FS_AddElement
    <3> QED BY <2>2, <2>4, <3>1 DEF Count
  <2>5. CASE e # d
    <3>1. At(Append(s, e)) = At(s) BY <2>2, <2>5
    <3>2. Count(d, Append(s, e)) = Count(d, s) /\ Count(d, s) \in Nat BY <1>2, <3>1 DEF Count
    <3> QED BY <2>5, <3>2
  <2> QED BY <2>4, <2>5
<1>5. ASSUME s # <<>>
      PROVE  Count(d, s) = Count(d, Tail(s)) + IF Head(s) = d THEN 1 ELSE 0
  <2> DEFINE n == Len(s)
             f == [i \in At(Tail(s)) |-> i + 1]
             rest == At(s) \ {1}
  <2>1. /\ n \in Nat /\ n > 0 /\ Tail(s) \in Seq(S) /\ DOMAIN Tail(s) = 1..(n - 1)
        /\ Head(s) = s[1]
    BY <1>1, <1>5
  <2>2. \A i \in 1..(n - 1) : Tail(s)[i] = s[i + 1] BY <1>5
  <2>3. \A i \in At(Tail(s)) : i + 1 \in rest /\ i \in Nat BY <1>1, <2>1, <2>2
  <2>4. \A j \in rest : j - 1 \in At(Tail(s)) /\ (j - 1) + 1 = j
    <3>1. ASSUME NEW j \in rest PROVE j - 1 \in At(Tail(s)) /\ (j - 1) + 1 = j
      <4>1. j \in 1..n /\ j # 1 /\ s[j] = d BY <1>1
      <4>2. j - 1 \in 1..(n - 1) /\ (j - 1) + 1 = j BY <2>1, <4>1
      <4> QED BY <2>1, <2>2, <4>1, <4>2
    <3> QED BY <3>1
  <2>5. f \in Bijection(At(Tail(s)), rest)
    <3>1. f \in [At(Tail(s)) -> rest] BY <2>3
    <3>2. \A a, b \in At(Tail(s)) : f[a] = f[b] => a = b BY <2>3
    <3>3. \A j \in rest : \E i \in At(Tail(s)) : f[i] = j BY <2>4
    <3> HIDE DEF f
    <3> QED BY <3>1, <3>2, <3>3, Fun_IsInj, Fun_IsSurj DEF Bijection, Injection, Surjection
  <2>6. IsFiniteSet(At(Tail(s)))
    <3>1. IsFiniteSet(1..(n - 1)) BY <2>1, FS_Interval
    <3> QED BY <2>1, <3>1, FS_Subset
  <2>7. Cardinality(rest) = Cardinality(At(Tail(s))) /\ IsFiniteSet(rest)
    BY <2>5, <2>6, FS_Bijection DEF ExistsBijection
  <2>8. CASE Head(s) = d
    <3>1. At(s) = rest \cup {1} /\ 1 \notin rest BY <1>1, <2>1, <2>8
    <3>2. Cardinality(rest \cup {1}) = Cardinality(rest) + 1 BY <2>7, <3>1, FS_AddElement
    <3> QED BY <2>7, <2>8, <3>1, <3>2 DEF Count
  <2>9. CASE Head(s) # d
    <3>1. At(s) = rest BY <2>1, <2>9
    <3>2. Cardinality(At(Tail(s))) \in Nat BY <2>6, FS_CardinalityType
    <3>3. Count(d, s) = Count(d, Tail(s)) /\ Count(d, Tail(s)) \in Nat
      BY <2>7, <3>1, <3>2 DEF Count
    <3> QED BY <2>9, <3>3
  <2> QED BY <2>8, <2>9
<1> QED BY <1>2, <1>3, <1>4, <1>5 DEF Count

\* How many goals of a delivery are on a log, when a line is added.
LEMMA GoalsGrow ==
  ASSUME NEW l \in Seq(Lines), NEW d
  PROVE  /\ Cardinality(Goals(d, l)) \in Nat /\ (Cardinality(Goals(d, l)) = 0 <=> Goals(d, l) = {})
         /\ Cardinality(Goals(d, <<>>)) = 0
         /\ \A line \in Lines : Cardinality(Goals(d, Append(l, line))) =
              Cardinality(Goals(d, l)) + IF line.by = "webhook" /\ line.key = d THEN 1 ELSE 0
<1>1. Len(l) \in Nat /\ DOMAIN l = 1..Len(l) /\ IsFiniteSet(1..Len(l)) BY FS_Interval
<1>2. IsFiniteSet(Goals(d, l)) /\ Cardinality(Goals(d, l)) \in Nat
  BY <1>1, FS_Subset, FS_CardinalityType DEF Goals
<1>3. Goals(d, <<>>) = {} BY DEF Goals
<1>4. ASSUME NEW line \in Lines
      PROVE  Cardinality(Goals(d, Append(l, line))) =
              Cardinality(Goals(d, l)) + IF line.by = "webhook" /\ line.key = d THEN 1 ELSE 0
  <2>1. /\ DOMAIN Append(l, line) = 1..(Len(l) + 1) /\ Append(l, line)[Len(l) + 1] = line
        /\ \A i \in 1..Len(l) : Append(l, line)[i] = l[i]
    OBVIOUS
  <2>2. Len(l) + 1 \notin Goals(d, l) BY <1>1 DEF Goals
  <2>3. CASE line.by = "webhook" /\ line.key = d
    <3>1. Goals(d, Append(l, line)) = Goals(d, l) \cup {Len(l) + 1}
      BY <1>1, <2>1, <2>3 DEF Goals
    <3> QED BY <1>2, <2>2, <2>3, <3>1, FS_AddElement
  <2>4. CASE ~(line.by = "webhook" /\ line.key = d)
    <3>1. Goals(d, Append(l, line)) = Goals(d, l) BY <1>1, <2>1, <2>4 DEF Goals
    <3> QED BY <1>2, <2>4, <3>1
  <2> QED BY <2>3, <2>4
<1> QED BY <1>2, <1>3, <1>4, FS_EmptySet

\* A sum over the loops that are at work, when there is one at most.
LEMMA SumOfOne ==
  ASSUME NEW d, NEW l, NEW S, S \subseteq {l}, S # {} => Count(d, loops[l].batch) \in Nat
  PROVE  MapThenSumSet(LAMBDA k : Count(d, loops[k].batch), S)
           = IF S = {} THEN 0 ELSE Count(d, loops[l].batch)
<1> DEFINE f(k) == Count(d, loops[k].batch)
           g == [s \in SUBSET S |-> IF s = {} THEN 0 ELSE f(l)]
           P(it) == it = [s \in SUBSET S |->
               IF s = {} THEN 0
               ELSE LET x == CHOOSE x \in s : TRUE IN f(x) + it[s \ {x}]]
<1>0. S # {} => f(l) \in Nat OBVIOUS
<1>5. MapThenSumSet(LAMBDA k : Count(d, loops[k].batch), S) = (CHOOSE it : P(it))[S]
  BY DEF MapThenSumSet, MapThenFoldSet
<1> HIDE DEF f
<1>1. \A s \in SUBSET S : s = {} \/ (s = {l} /\ S = {l}) OBVIOUS
<1>6. \A s \in SUBSET S : s # {} => (CHOOSE x \in s : TRUE) = l BY <1>1
<1>2. ASSUME NEW it, P(it) PROVE it[S] = IF S = {} THEN 0 ELSE f(l)
  <2>1. it[{}] = 0 BY <1>2
  <2>2. CASE S # {}
    <3>1. S = {l} /\ (CHOOSE x \in S : TRUE) = l /\ S \ {l} = {} BY <2>2
    <3>2. it[S] = f(CHOOSE x \in S : TRUE) + it[S \ {CHOOSE x \in S : TRUE}] BY <1>2, <2>2
    <3> QED BY <1>0, <2>1, <3>1, <3>2, <2>2
  <2> QED BY <2>1, <2>2
<1>3. P(g)
  <2>1. \A s \in SUBSET S : g[s] = IF s = {} THEN 0
               ELSE LET x == CHOOSE x \in s : TRUE IN f(x) + g[s \ {x}]
    <3>1. ASSUME NEW s \in SUBSET S, s # {}
          PROVE  f(l) = f(CHOOSE x \in s : TRUE) + g[s \ {CHOOSE x \in s : TRUE}]
      <4>1. s = {l} /\ (CHOOSE x \in s : TRUE) = l /\ s \ {l} = {} BY <3>1, <1>1, <1>6
      <4>2. g[{}] = 0 OBVIOUS
      <4> QED BY <1>0, <4>1, <4>2
    <3> QED BY <3>1
  <2> HIDE DEF g
  <2>2. g = [s \in SUBSET S |-> g[s]] BY DEF g
  <2> QED BY <2>1, <2>2
<1> HIDE DEF g
<1>4. P(CHOOSE it : P(it)) BY <1>3
<1> HIDE DEF P
<1> QED BY <1>2, <1>4, <1>5 DEF f
-----------------------------------------------------------------------------
(* The runner *)

\* What the loop at work has in hand.
Batch == IF Live = {} THEN <<>> ELSE loops[CHOOSE l \in Live : TRUE].batch

Waiting(d) == Count(d, queue) + Count(d, Batch)

\* The runner's flag says whether there is a loop, there is one at most, and
\* only between taking a batch and the run does it hold deliveries.
OneInv ==
  /\ running \in BOOLEAN /\ (running <=> Live # {})
  /\ \A k, l \in Live : k = l
  /\ queue # <<>> => running
  /\ \A l \in Slots : loops[l].at # "submit" => loops[l].batch = <<>>

\* A goal that was written waits for the run of its batch.
HandInv == \A i \in unrun \ stray : \E l \in Live : loops[l].at \in {"submit", "run"}

\* The runner writes whole lines.
TornInv == torn.by # "webhook"

\* Where a delivery is that was accepted: it waits, is lost or is a goal.  With an
\* id it is one goal at most, and until it is one every delivery waits or is lost.
Settled(d, goals, waiting, gone, all) ==
  IF Request[d].id
  THEN goals <= 1 /\ (goals = 0 => waiting + gone = all)
  ELSE goals + waiting + gone = all

TallyInv ==
  /\ accepted \in [Deliveries -> Nat] /\ lost \in [Deliveries -> Nat]
  /\ ~split => \A d \in Deliveries :
       Settled(d, Cardinality(Goals(d, book)), Waiting(d), lost[d], accepted[d])

\* The loop at work is the only one, and its batch is the one in hand.
LEMMA TheLoop ==
  ASSUME OneInv, NEW l \in Live PROVE Live = {l} /\ Batch = loops[l].batch
<1>1. Live = {l} BY DEF OneInv
<1>2. (CHOOSE k \in Live : TRUE) = l BY <1>1
<1> QED BY <1>1, <1>2 DEF Batch

\* What is in hand is a sequence of deliveries.
LEMMA BatchType ==
  ASSUME WriterTypes PROVE Batch \in Seq(Deliveries)
<1>1. <<>> \in Seq(Deliveries) OBVIOUS
<1>2. ASSUME NEW l \in Live PROVE loops[l].batch \in Seq(Deliveries)
  BY DEF WriterTypes, LoopRecord, Live
<1>3. Live # {} => (CHOOSE l \in Live : TRUE) \in Live OBVIOUS
<1> QED BY <1>1, <1>2, <1>3 DEF Batch

\* How one loop's step changes which loops are at work.
LEMMA LoopMoves ==
  ASSUME WriterTypes, OneInv, NEW l \in Live, NEW r \in LoopRecord,
         loops' = [loops EXCEPT ![l] = r], r.at # "submit" => r.batch = <<>>
  PROVE  /\ Live' = (IF r.at = "off" THEN {} ELSE {l}) /\ Batch' = r.batch
         /\ \A k, m \in Live' : k = m
         /\ \A k \in Slots : loops'[k].at # "submit" => loops'[k].batch = <<>>
         /\ loops'[l] = r
<1>1. l \in Slots /\ Live = {l} BY TheLoop DEF Live
<1>2. loops'[l] = r /\ \A k \in Slots \ {l} : loops'[k] = loops[k]
  BY <1>1 DEF WriterTypes
<1>3. \A k \in Slots \ {l} : loops[k].at = "off" BY <1>1 DEF Live
<1>4. Live' = IF r.at = "off" THEN {} ELSE {l} BY <1>1, <1>2, <1>3 DEF Live
<1>5. \A k \in Slots : loops'[k].at # "submit" => loops'[k].batch = <<>>
  <2>1. ASSUME NEW k \in Slots, loops'[k].at # "submit" PROVE loops'[k].batch = <<>>
    <3>1. CASE k = l BY <1>2, <2>1, <3>1
    <3>2. CASE k # l BY <1>2, <2>1, <3>2 DEF OneInv
    <3> QED BY <3>1, <3>2
  <2> QED BY <2>1
<1>6. Batch' = r.batch
  <2>1. CASE r.at = "off" BY <1>4, <2>1 DEF Batch
  <2>2. CASE r.at # "off"
    <3>1. Live' = {l} /\ (CHOOSE k \in {l} : TRUE) = l BY <1>4, <2>2
    <3>2. Batch' = loops'[CHOOSE k \in Live' : TRUE].batch BY <3>1 DEF Batch
    <3> QED BY <1>2, <3>1, <3>2
  <2> QED BY <2>1, <2>2
<1> QED BY <1>2, <1>4, <1>5, <1>6

\* A delivery is accepted, and starts a loop if there is none.
LEMMA EnqueueMoves ==
  ASSUME WriterTypes, OneInv, NEW d \in Deliveries, Enqueue(d)
  PROVE  /\ OneInv' /\ Batch' = Batch /\ queue' = Append(queue, d)
         /\ \A l \in Live : l \in Live' /\ loops'[l] = loops[l]
<1>1. queue' = Append(queue, d) /\ running' = TRUE BY DEF Enqueue
<1>2. CASE running
  <2>1. loops' = loops BY <1>2 DEF Enqueue
  <2>2. Live' = Live /\ Batch' = Batch BY <2>1 DEF Live, Batch
  <2>3. OneInv' BY <1>1, <1>2, <2>1, <2>2 DEF OneInv
  <2> QED BY <1>1, <2>1, <2>2, <2>3
<1>3. CASE ~running
  <2>1. Live = {} BY <1>3 DEF OneInv
  <2>2. PICK l \in Slots : loops' = [loops EXCEPT ![l] = [Off EXCEPT !.at = "take"]]
    BY <1>3 DEF Enqueue
  <2> DEFINE r == [Off EXCEPT !.at = "take"]
  <2>3. r.at = "take" /\ r.batch = <<>> BY DEF Off
  <2> HIDE DEF r
  <2>4. loops'[l] = r /\ \A k \in Slots \ {l} : loops'[k] = loops[k]
    BY <2>2 DEF WriterTypes, r
  <2>5. \A k \in Slots : loops[k].at = "off" BY <2>1 DEF Live
  <2>6. Live' = {l} BY <2>3, <2>4, <2>5 DEF Live
  <2>7. Batch' = <<>>
    <3>1. (CHOOSE k \in {l} : TRUE) = l OBVIOUS
    <3>2. Batch' = loops'[CHOOSE k \in Live' : TRUE].batch BY <2>6 DEF Batch
    <3> QED BY <2>3, <2>4, <2>6, <3>1, <3>2
  <2>8. Batch = <<>> BY <2>1 DEF Batch
  <2>9. \A k \in Slots : loops'[k].at # "submit" => loops'[k].batch = <<>>
    <3>1. ASSUME NEW k \in Slots, loops'[k].at # "submit" PROVE loops'[k].batch = <<>>
      <4>1. CASE k = l BY <2>3, <2>4, <4>1
      <4>2. CASE k # l BY <2>4, <3>1, <4>2 DEF OneInv
      <4> QED BY <4>1, <4>2
    <3> QED BY <3>1
  <2>10. OneInv' BY <1>1, <2>6, <2>9 DEF OneInv
  <2> QED BY <1>1, <2>1, <2>7, <2>8, <2>10
<1> QED BY <1>2, <1>3

\* The loop stays the only one.
LEMMA OneHolds ==
  ASSUME WriterTypes, WriterTypes', OneInv, WebhookNext PROVE OneInv'
<1>1. ASSUME NEW d \in Deliveries, Receive(d) PROVE OneInv'
  <2>1. CASE Enqueue(d) BY <2>1, EnqueueMoves
  <2>2. CASE UNCHANGED <<queue, running, loops>> BY <2>2 DEF OneInv, Live
  <2> QED BY <1>1, <2>1, <2>2 DEF Receive
<1>2. ASSUME NEW l \in Slots, NEW r \in LoopRecord, loops[l].at # "off",
             loops' = [loops EXCEPT ![l] = r], r.at # "submit" => r.batch = <<>>,
             running' = IF r.at = "off" THEN FALSE ELSE running,
             queue' = queue \/ queue' = <<>>, r.at = "off" => queue' = <<>>
      PROVE  OneInv'
  <2>1. l \in Live BY <1>2 DEF Live
  <2>2. /\ Live' = (IF r.at = "off" THEN {} ELSE {l})
        /\ \A k, m \in Live' : k = m
        /\ \A k \in Slots : loops'[k].at # "submit" => loops'[k].batch = <<>>
    BY <1>2, <2>1, LoopMoves
  <2> QED BY <1>2, <2>1, <2>2 DEF OneInv
<1>3. ASSUME NEW l \in Slots, Take(l) PROVE OneInv'
  <2> DEFINE r == IF queue = <<>> THEN Off ELSE [at |-> "submit", batch |-> queue]
  <2>1. r \in LoopRecord /\ (r.at # "submit" => r.batch = <<>>) /\ (r.at = "off" <=> queue = <<>>)
    <3>1. CASE queue = <<>>
      <4>1. <<>> \in Seq(Deliveries) OBVIOUS
      <4> QED BY <3>1, <4>1 DEF Off, LoopRecord
    <3>2. CASE queue # <<>> BY <3>2 DEF LoopRecord, WriterTypes
    <3> QED BY <3>1, <3>2
  <2>2. /\ loops[l].at = "take" /\ queue' = <<>> /\ loops' = [loops EXCEPT ![l] = r]
        /\ running' = IF queue = <<>> THEN FALSE ELSE running
    BY <1>3 DEF Take
  <2> HIDE DEF r
  <2> QED BY <1>2, <2>1, <2>2
<1>4. ASSUME NEW l \in Slots, SubmitNext(l) \/ SubmitFails(l) \/ Submitted(l) \/ RunOnce(l)
      PROVE  OneInv'
  <2>1. /\ loops[l].at \in {"submit", "run"} /\ queue' = queue /\ running' = running
        /\ loops[l] \in LoopRecord /\ loops \in [Slots -> LoopRecord]
    BY <1>4 DEF SubmitNext, SubmitFails, Submitted, RunOnce, WriterTypes
  <2>2. PICK r : /\ loops' = [loops EXCEPT ![l] = r]
                 /\ r.at # "off" /\ (r.at # "submit" => r.batch = <<>>)
    <3>1. CASE SubmitNext(l)
      <4> DEFINE q == [loops[l] EXCEPT !.batch = Tail(loops[l].batch)]
      <4>1. loops' = [loops EXCEPT ![l] = q] /\ loops[l].at = "submit"
        BY <3>1 DEF SubmitNext
      <4>2. q.at = "submit" BY <2>1, <4>1 DEF LoopRecord
      <4> QED BY <4>1, <4>2
    <3>2. CASE SubmitFails(l)
      <4> DEFINE q == [Off EXCEPT !.at = "take"]
      <4>1. q.at = "take" /\ q.batch = <<>> BY DEF Off
      <4>2. loops' = [loops EXCEPT ![l] = q] BY <3>2 DEF SubmitFails
      <4> QED BY <4>1, <4>2
    <3>3. CASE Submitted(l)
      <4> DEFINE q == [loops[l] EXCEPT !.at = "run"]
      <4>1. loops' = [loops EXCEPT ![l] = q] /\ loops[l].batch = <<>>
        BY <3>3 DEF Submitted
      <4>2. q.at = "run" /\ q.batch = <<>> BY <2>1, <4>1 DEF LoopRecord
      <4> QED BY <4>1, <4>2
    <3>4. CASE RunOnce(l)
      <4> DEFINE q == [loops[l] EXCEPT !.at = "take"]
      <4>1. loops' = [loops EXCEPT ![l] = q] /\ loops[l].at = "run"
        BY <3>4 DEF RunOnce
      <4>2. q.at = "take" /\ q.batch = <<>> BY <2>1, <4>1 DEF LoopRecord, OneInv
      <4> QED BY <4>1, <4>2
    <3> QED BY <1>4, <3>1, <3>2, <3>3, <3>4
  <2>3. r \in LoopRecord
    <3>1. loops'[l] = r BY <2>1, <2>2
    <3> QED BY <3>1 DEF WriterTypes
  <2> QED BY <1>2, <2>1, <2>2, <2>3
<1>5. CASE Die
  <2>1. queue' = <<>> /\ running' = FALSE /\ loops' = [l \in Slots |-> Off] BY <1>5 DEF Die
  <2>2. \A l \in Slots : loops'[l].at = "off" /\ loops'[l].batch = <<>> BY <2>1 DEF Off
  <2>3. Live' = {} BY <2>2 DEF Live
  <2> QED BY <2>1, <2>2, <2>3 DEF OneInv
<1>6. CASE UNCHANGED <<queue, running, loops>> BY <1>6 DEF OneInv, Live
<1>7. \/ \E d \in Deliveries : Receive(d)
      \/ \E l \in Slots : Take(l) \/ SubmitNext(l) \/ SubmitFails(l) \/ Submitted(l) \/ RunOnce(l)
      \/ Die \/ UNCHANGED <<queue, running, loops>>
  BY DEF WebhookNext, OtherWrite, OtherFinish, Cut, PutBack, Follow, Poll, StartOver
<1> QED BY <1>1, <1>3, <1>4, <1>5, <1>6, <1>7

\* What was written and is not about to be run went astray.
LEMMA HandHolds ==
  ASSUME WriterTypes, WriterTypes', OneInv, HandInv, WebhookNext PROVE HandInv'
<1>1. CASE unrun' \subseteq unrun /\ stray' = stray
           /\ \A l \in Live : loops[l].at \in {"submit", "run"} =>
                l \in Live' /\ loops'[l].at \in {"submit", "run"}
  BY <1>1 DEF HandInv
<1>2. CASE unrun' \subseteq stray' BY <1>2 DEF HandInv
<1>3. CASE UNCHANGED <<unrun, stray, loops>> BY <1>3 DEF HandInv, Live
<1>4. ASSUME NEW d \in Deliveries, Receive(d) PROVE HandInv'
  <2>1. CASE Enqueue(d)
    <3>1. \A l \in Live : l \in Live' /\ loops'[l] = loops[l] BY <2>1, EnqueueMoves
    <3> QED BY <1>1, <1>4, <3>1 DEF Receive
  <2> QED BY <1>3, <1>4, <2>1 DEF Receive
<1>5. ASSUME NEW l \in Slots, Take(l) PROVE HandInv'
  <2>1. l \in Live /\ loops[l].at = "take" BY <1>5 DEF Take, Live
  <2>2. Live = {l} BY <2>1, TheLoop
  <2>3. unrun \subseteq stray BY <2>1, <2>2 DEF HandInv
  <2> QED BY <1>2, <1>5, <2>3 DEF Take
<1>6. ASSUME NEW l \in Slots, SubmitNext(l) \/ Submitted(l) PROVE HandInv'
  <2>1. loops'[l].at \in {"submit", "run"}
    BY <1>6 DEF SubmitNext, Submitted, WriterTypes, LoopRecord
  <2>2. l \in Live' BY <2>1 DEF Live
  <2> QED BY <2>1, <2>2 DEF HandInv
<1>7. ASSUME NEW l \in Slots, SubmitFails(l) \/ RunOnce(l) PROVE HandInv'
  BY <1>2, <1>7 DEF SubmitFails, RunOnce
<1>8. CASE Die BY <1>2, <1>8 DEF Die
<1>9. \/ \E d \in Deliveries : Receive(d)
      \/ \E l \in Slots : Take(l) \/ SubmitNext(l) \/ SubmitFails(l) \/ Submitted(l) \/ RunOnce(l)
      \/ Die \/ UNCHANGED <<unrun, stray, loops>>
  BY DEF WebhookNext, OtherWrite, OtherFinish, Cut, PutBack, Follow, Poll, StartOver
<1> QED BY <1>3, <1>4, <1>5, <1>6, <1>7, <1>8, <1>9
\* The numbers that the tally adds up.
LEMMA Numbers ==
  ASSUME FollowInv, TallyInv, NEW d \in Deliveries
  PROVE  /\ Count(d, queue) \in Nat /\ Count(d, Batch) \in Nat /\ Waiting(d) \in Nat
         /\ Cardinality(Goals(d, book)) \in Nat /\ lost[d] \in Nat /\ accepted[d] \in Nat
<1>1. queue \in Seq(Deliveries) /\ Batch \in Seq(Deliveries) /\ book \in Seq(Lines)
  BY BatchType DEF FollowInv, WriterTypes, LogInv
<1>2. Count(d, queue) \in Nat /\ Count(d, Batch) \in Nat BY <1>1, CountChanges
<1> QED BY <1>1, <1>2, GoalsGrow DEF Waiting, TallyInv

\* The sum over the loops at work is what is in hand.
LEMMA LiveSum ==
  ASSUME OneInv, NEW d, Count(d, Batch) \in Nat, Count(d, <<>>) = 0
  PROVE  MapThenSumSet(LAMBDA l : Count(d, loops[l].batch), Live) = Count(d, Batch)
<1>1. CASE Live = {}
  <2> DEFINE s == Live
  <2>0. s \subseteq {d} /\ s = {} BY <1>1
  <2> HIDE DEF s
  <2>1. MapThenSumSet(LAMBDA l : Count(d, loops[l].batch), s)
              = IF s = {} THEN 0 ELSE Count(d, loops[d].batch)
    <3>1. s \subseteq {d} /\ (s # {} => Count(d, loops[d].batch) \in Nat) BY <2>0
    <3> QED BY <3>1, SumOfOne
  <2>2. MapThenSumSet(LAMBDA l : Count(d, loops[l].batch), Live) = 0 BY <2>0, <2>1 DEF s
  <2> QED BY <1>1, <2>2 DEF Batch
<1>2. ASSUME NEW l \in Live
      PROVE  MapThenSumSet(LAMBDA k : Count(d, loops[k].batch), Live) = Count(d, Batch)
  <2>1. Live = {l} /\ Batch = loops[l].batch BY <1>2, TheLoop
  <2> HIDE DEF Batch
  <2>2. Live \subseteq {l} /\ Live # {} /\ Count(d, loops[l].batch) \in Nat BY <2>1
  <2>3. MapThenSumSet(LAMBDA k : Count(d, loops[k].batch), Live) = Count(d, loops[l].batch)
    BY <2>2, SumOfOne
  <2> QED BY <2>1, <2>3
<1> QED BY <1>1, <1>2

\* What moves only from the queue to a batch is as it was.
LEMMA TallySame ==
  ASSUME TallyInv, UNCHANGED <<accepted, lost, book, split>>,
         \A d \in Deliveries : Waiting(d)' = Waiting(d)
  PROVE  TallyInv'
BY DEF TallyInv

\* A delivery is taken in, or turned away.
LEMMA TallyReceive ==
  ASSUME FollowInv, OneInv, TallyInv, NEW d \in Deliveries, Receive(d) PROVE TallyInv'
<1>1. UNCHANGED <<lost, book, split>> BY DEF Receive
<1>2. CASE UNCHANGED <<queue, loops, accepted>>
  <2>1. \A e \in Deliveries : Waiting(e)' = Waiting(e) BY <1>2 DEF Waiting, Batch, Live
  <2> QED BY <1>1, <1>2, <2>1, TallySame
<1>3. CASE Enqueue(d) /\ accepted' = [accepted EXCEPT ![d] = @ + 1]
  <2>1. Batch' = Batch /\ queue' = Append(queue, d)
    BY <1>3, EnqueueMoves DEF FollowInv
  <2>2. queue \in Seq(Deliveries) BY DEF FollowInv, WriterTypes
  <2>3. ASSUME NEW e \in Deliveries
        PROVE  /\ Waiting(e)' = Waiting(e) + IF e = d THEN 1 ELSE 0
               /\ accepted'[e] = accepted[e] + IF e = d THEN 1 ELSE 0
    <3>1. /\ Count(e, queue) \in Nat /\ Count(e, Batch) \in Nat /\ accepted[e] \in Nat
          /\ accepted \in [Deliveries -> Nat]
      BY Numbers DEF TallyInv
    <3>2. Count(e, Append(queue, d)) = Count(e, queue) + IF d = e THEN 1 ELSE 0
      BY <2>2, CountChanges
    <3>3. Waiting(e)' = Count(e, Append(queue, d)) + Count(e, Batch) BY <2>1 DEF Waiting
    <3>4. Waiting(e) = Count(e, queue) + Count(e, Batch) BY DEF Waiting
    <3>5. accepted'[e] = IF e = d THEN accepted[e] + 1 ELSE accepted[e] BY <1>3, <3>1
    <3> QED BY <3>1, <3>2, <3>3, <3>4, <3>5
  <2>4. ASSUME ~split, NEW e \in Deliveries
        PROVE  Settled(e, Cardinality(Goals(e, book)), Waiting(e)', lost[e], accepted'[e])
    <3>1. Settled(e, Cardinality(Goals(e, book)), Waiting(e), lost[e], accepted[e])
      BY <2>4 DEF TallyInv
    <3> DEFINE v == Waiting(e)'
               a == accepted'[e]
    <3>2. v = Waiting(e) + (IF e = d THEN 1 ELSE 0) /\ a = accepted[e] + IF e = d THEN 1 ELSE 0
      BY <2>3
    <3> HIDE DEF v, a
    <3>3. Settled(e, Cardinality(Goals(e, book)), v, lost[e], a)
      BY <3>1, <3>2, Numbers DEF Settled
    <3> QED BY <3>3 DEF v, a
  <2>5. accepted' \in [Deliveries -> Nat] BY <1>3 DEF TallyInv
  <2> QED BY <1>1, <2>4, <2>5 DEF TallyInv
<1> QED BY <1>2, <1>3 DEF Receive

\* The next of a batch is written, or dropped as a duplicate.
LEMMA TallySubmit ==
  ASSUME FollowInv, FollowInv', OneInv, TallyInv, NEW l \in Slots, SubmitNext(l) PROVE TallyInv'
<1> DEFINE h == Head(loops[l].batch)
           r == [loops[l] EXCEPT !.batch = Tail(loops[l].batch)]
<1>1. /\ l \in Live /\ loops[l] \in LoopRecord /\ loops[l].at = "submit"
      /\ loops[l].batch # <<>> /\ loops' = [loops EXCEPT ![l] = r]
      /\ UNCHANGED <<queue, accepted, lost>>
  BY DEF SubmitNext, Live, FollowInv, WriterTypes
<1>2. r \in LoopRecord /\ r.at = "submit" /\ r.batch = Tail(loops[l].batch)
  <2>1. loops[l].batch \in Seq(Deliveries) BY <1>1 DEF LoopRecord
  <2>2. Tail(loops[l].batch) \in Seq(Deliveries) BY <1>1, <2>1
  <2> QED BY <1>1, <2>2 DEF LoopRecord
<1>3. Batch = loops[l].batch /\ Batch' = Tail(Batch) /\ Batch # <<>> /\ h = Head(Batch)
  <2>1. Batch = loops[l].batch BY <1>1, TheLoop
  <2> HIDE DEF r
  <2>2. Batch' = r.batch BY <1>1, <1>2, LoopMoves DEF FollowInv
  <2> QED BY <1>1, <1>2, <2>1, <2>2
<1> HIDE DEF r
<1>4. Batch \in Seq(Deliveries) /\ h \in Deliveries
  <2>1. Batch \in Seq(Deliveries) BY BatchType DEF FollowInv
  <2> QED BY <1>3, <2>1
<1>5. \/ UNCHANGED <<log, book, split>> /\ Duplicate(h)
      \/ Write(Line("webhook", h)) /\ ~Duplicate(h)
  BY DEF SubmitNext
<1> HIDE DEF h
<1>6. ASSUME NEW d \in Deliveries
      PROVE  Waiting(d) = Waiting(d)' + IF h = d THEN 1 ELSE 0
  <2>1. Count(d, Batch) = Count(d, Tail(Batch)) + IF h = d THEN 1 ELSE 0
    BY <1>3, <1>4, CountChanges
  <2>2. Tail(Batch) \in Seq(Deliveries) BY <1>3, <1>4
  <2>3. Count(d, Tail(Batch)) \in Nat /\ Count(d, queue) \in Nat
    BY <2>2, CountChanges, Numbers
  <2>4. Waiting(d)' = Count(d, queue) + Count(d, Tail(Batch)) BY <1>1, <1>3 DEF Waiting
  <2>5. Waiting(d) = Count(d, queue) + Count(d, Batch) BY DEF Waiting
  <2> QED BY <2>1, <2>3, <2>4, <2>5
<1>7. ASSUME NEW d \in Deliveries PROVE Waiting(d)' \in Nat
  <2>1. queue' \in Seq(Deliveries) /\ Batch' \in Seq(Deliveries)
    <3>1. queue \in Seq(Deliveries) BY DEF FollowInv, WriterTypes
    <3> QED BY <1>1, <1>3, <1>4, <3>1
  <2>2. Count(d, queue') \in Nat /\ Count(d, Batch') \in Nat BY <2>1, CountChanges
  <2> QED BY <2>2 DEF Waiting
<1>8. ASSUME ~split', NEW d \in Deliveries
      PROVE  Settled(d, Cardinality(Goals(d, book')), Waiting(d)', lost[d], accepted[d])
  <2> DEFINE n == Cardinality(Goals(d, book))
             m == Cardinality(Goals(d, book'))
             w == Waiting(d)
             v == Waiting(d)'
  <2>1. ~split BY <1>5, <1>8 DEF Write
  <2>2. Settled(d, n, w, lost[d], accepted[d]) BY <2>1 DEF TallyInv
  <2>3. w = v + (IF h = d THEN 1 ELSE 0) /\ v \in Nat BY <1>6, <1>7
  <2>4. n \in Nat /\ w \in Nat /\ lost[d] \in Nat /\ accepted[d] \in Nat BY Numbers
  <2>5. CASE UNCHANGED <<log, book, split>> /\ Duplicate(h)
    <3>1. m = n BY <2>5
    <3>2. h = d => Request[d].id /\ n # 0
      <4>1. SUFFICES ASSUME h = d PROVE Request[d].id /\ n # 0 OBVIOUS
      <4>2. Request[d].id /\ Goals(d, log) # {} BY <2>5, <4>1 DEF Duplicate
      <4>3. Goals(d, log) \subseteq Goals(d, book)
        <5>1. /\ log \in Seq(Lines) /\ book \in Seq(Lines) /\ Len(log) \in Nat
              /\ Len(book) \in Nat /\ Len(log) <= Len(book)
              /\ \A i \in 1..Len(log) : log[i] = book[i]
          BY <2>1 DEF FollowInv, LogInv
        <5>2. DOMAIN log = 1..Len(log) /\ DOMAIN book = 1..Len(book) BY <5>1
        <5>3. \A i \in 1..Len(log) : i \in 1..Len(book) BY <5>1
        <5> QED BY <5>1, <5>2, <5>3 DEF Goals
      <4>4. book \in Seq(Lines) BY DEF FollowInv, LogInv
      <4> QED BY <4>2, <4>3, <4>4, GoalsGrow
    <3> HIDE DEF n, m, w, v
    <3>3. Settled(d, m, v, lost[d], accepted[d])
      BY <2>2, <2>3, <2>4, <3>1, <3>2 DEF Settled
    <3> QED BY <3>3 DEF m, v
  <2>6. CASE Write(Line("webhook", h)) /\ ~Duplicate(h)
    <3> DEFINE line == Line("webhook", h)
    <3>1. line \in Lines /\ line.by = "webhook" /\ line.key = h
      BY <1>4, Fewer DEF Line, Lines, FollowInv, WriterTypes
    <3>2. log = book /\ book' = Append(book, line) BY <1>8, <2>6 DEF Write
    <3>3. book \in Seq(Lines) BY DEF FollowInv, LogInv
    <3> HIDE DEF line
    <3>4. m = n + IF h = d THEN 1 ELSE 0
      <4>1. Cardinality(Goals(d, Append(book, line)))
              = n + IF line.by = "webhook" /\ line.key = d THEN 1 ELSE 0
        BY <3>1, <3>3, GoalsGrow
      <4> QED BY <3>1, <3>2, <4>1
    <3>5. h = d /\ Request[d].id => n = 0
      <4>1. SUFFICES ASSUME h = d, Request[d].id PROVE n = 0 OBVIOUS
      <4>2. Goals(d, book) = {} BY <2>6, <3>2, <4>1 DEF Duplicate
      <4> QED BY <3>3, <4>2, GoalsGrow
    <3> HIDE DEF n, m, w, v
    <3>6. Settled(d, m, v, lost[d], accepted[d])
      BY <2>2, <2>3, <2>4, <3>4, <3>5 DEF Settled
    <3> QED BY <3>6 DEF m, v
  <2> QED BY <1>5, <2>5, <2>6
<1> QED BY <1>1, <1>8 DEF TallyInv

\* A batch is dropped, or the server dies with all it has.
LEMMA TallyLost ==
  ASSUME FollowInv, FollowInv', OneInv, TallyInv,
         UNCHANGED <<accepted, book, split>>, NEW gone, lost' = [d \in Deliveries |-> lost[d] + gone[d]],
         \A d \in Deliveries : gone[d] \in Nat /\ Waiting(d) = Waiting(d)' + gone[d]
           /\ Waiting(d)' \in Nat
  PROVE  TallyInv'
<1>1. ASSUME NEW d \in Deliveries PROVE lost'[d] = lost[d] + gone[d] /\ lost'[d] \in Nat
  BY Numbers
<1>2. lost' \in [Deliveries -> Nat] BY <1>1
<1>3. ASSUME ~split, NEW d \in Deliveries
      PROVE  Settled(d, Cardinality(Goals(d, book)), Waiting(d)', lost'[d], accepted[d])
  <2> DEFINE n == Cardinality(Goals(d, book))
             w == Waiting(d)
             v == Waiting(d)'
             x == lost'[d]
  <2>1. Settled(d, n, w, lost[d], accepted[d]) BY <1>3 DEF TallyInv
  <2>2. n \in Nat /\ w \in Nat /\ lost[d] \in Nat /\ accepted[d] \in Nat BY Numbers
  <2>3. gone[d] \in Nat /\ v \in Nat /\ w = v + gone[d] /\ x = lost[d] + gone[d] BY <1>1
  <2> HIDE DEF n, w, v, x
  <2>4. Settled(d, n, v, x, accepted[d]) BY <2>1, <2>2, <2>3 DEF Settled
  <2> QED BY <2>4 DEF n, v, x
<1> QED BY <1>2, <1>3 DEF TallyInv

\* What was accepted stays accounted for.
LEMMA TallyHolds ==
  ASSUME FollowInv, FollowInv', OneInv, TornInv, TallyInv, WebhookNext PROVE TallyInv'
<1>0. /\ WriterTypes /\ queue \in Seq(Deliveries) /\ Batch \in Seq(Deliveries)
      /\ \A d \in Deliveries : Count(d, <<>>) = 0
  BY BatchType, CountChanges DEF FollowInv, WriterTypes
<1>1. ASSUME NEW d \in Deliveries, Receive(d) PROVE TallyInv'
  BY <1>1, TallyReceive
<1>2. ASSUME NEW l \in Slots, Take(l) PROVE TallyInv'
  <2> DEFINE r == IF queue = <<>> THEN Off ELSE [at |-> "submit", batch |-> queue]
  <2>1. r \in LoopRecord /\ (r.at # "submit" => r.batch = <<>>) /\ r.batch = queue
    <3>1. CASE queue = <<>>
      <4>1. <<>> \in Seq(Deliveries) OBVIOUS
      <4> QED BY <3>1, <4>1 DEF Off, LoopRecord
    <3>2. CASE queue # <<>> BY <1>0, <3>2 DEF LoopRecord
    <3> QED BY <3>1, <3>2
  <2>2. /\ loops[l].at = "take" /\ queue' = <<>> /\ loops' = [loops EXCEPT ![l] = r]
        /\ UNCHANGED <<accepted, lost, book, split>>
    BY <1>2 DEF Take
  <2> HIDE DEF r
  <2>3. l \in Live BY <2>2 DEF Live
  <2>4. Batch' = queue BY <1>0, <2>1, <2>2, <2>3, LoopMoves
  <2>5. Batch = <<>> BY <2>2, <2>3, TheLoop DEF OneInv, Live
  <2>6. \A d \in Deliveries : Waiting(d)' = Waiting(d)
    <3>1. ASSUME NEW d \in Deliveries PROVE Waiting(d)' = Waiting(d)
      <4>1. Waiting(d) = Count(d, queue) + Count(d, <<>>) BY <2>5 DEF Waiting
      <4>2. Waiting(d)' = Count(d, <<>>) + Count(d, queue) BY <2>2, <2>4 DEF Waiting
      <4> QED BY <4>1, <4>2, <1>0, Numbers
    <3> QED BY <3>1
  <2> QED BY <2>2, <2>6, TallySame
<1>3. ASSUME NEW l \in Slots, SubmitNext(l) PROVE TallyInv' BY <1>3, TallySubmit
<1>4. ASSUME NEW l \in Slots, SubmitFails(l) PROVE TallyInv'
  <2> DEFINE r == [Off EXCEPT !.at = "take"]
             gone == [d \in Deliveries |-> Count(d, loops[l].batch)]
  <2>1. r \in LoopRecord /\ r.at = "take" /\ r.batch = <<>>
    <3>1. <<>> \in Seq(Deliveries) OBVIOUS
    <3> QED BY <3>1 DEF Off, LoopRecord
  <2>2. /\ l \in Live /\ loops' = [loops EXCEPT ![l] = r] /\ queue' = queue
        /\ UNCHANGED <<accepted, book, split>>
        /\ lost' = [d \in Deliveries |-> lost[d] + Count(d, loops[l].batch)]
    BY <1>4 DEF SubmitFails, Live, Drop
  <2> HIDE DEF r
  <2>3. Batch' = <<>> BY <1>0, <2>1, <2>2, LoopMoves
  <2>4. Batch = loops[l].batch BY <2>2, TheLoop
  <2>5. lost' = [d \in Deliveries |-> lost[d] + gone[d]] BY <2>2
  <2>6. ASSUME NEW d \in Deliveries
        PROVE  gone[d] \in Nat /\ Waiting(d) = Waiting(d)' + gone[d] /\ Waiting(d)' \in Nat
    <3>1. Waiting(d) = Count(d, queue) + Count(d, Batch) BY DEF Waiting
    <3>2. Waiting(d)' = Count(d, queue) + Count(d, <<>>) BY <2>2, <2>3 DEF Waiting
    <3>3. gone[d] = Count(d, Batch) BY <2>4
    <3> HIDE DEF gone
    <3> QED BY <3>1, <3>2, <3>3, <1>0, Numbers
  <2> HIDE DEF gone
  <2> QED BY <2>2, <2>5, <2>6, TallyLost
<1>5. ASSUME NEW l \in Slots, Submitted(l) \/ RunOnce(l) PROVE TallyInv'
  <2>1. PICK at \in {"run", "take"} : loops' = [loops EXCEPT ![l] = [loops[l] EXCEPT !.at = at]]
    BY <1>5 DEF Submitted, RunOnce
  <2> DEFINE r == [loops[l] EXCEPT !.at = at]
  <2>2. /\ loops[l] \in LoopRecord /\ loops[l].batch = <<>> /\ l \in Live
    BY <1>5 DEF Submitted, RunOnce, FollowInv, WriterTypes, OneInv, Live
  <2>3. r \in LoopRecord /\ r.at # "off" /\ r.batch = <<>> BY <2>2 DEF LoopRecord
  <2> HIDE DEF r
  <2>4. Batch' = <<>> BY <1>0, <2>1, <2>2, <2>3, LoopMoves DEF r
  <2>5. Batch = <<>> BY <2>2, TheLoop
  <2>6. UNCHANGED <<queue, accepted, lost, book, split>> BY <1>5 DEF Submitted, RunOnce
  <2>7. \A d \in Deliveries : Waiting(d)' = Waiting(d) BY <2>4, <2>5, <2>6 DEF Waiting
  <2> QED BY <2>6, <2>7, TallySame
<1>6. CASE Die
  <2> DEFINE gone == [d \in Deliveries |-> Waiting(d)]
  <2>1. /\ queue' = <<>> /\ loops' = [l \in Slots |-> Off] /\ UNCHANGED <<accepted, book, split>>
        /\ lost' = [d \in Deliveries |->
             lost[d] + Count(d, queue) + MapThenSumSet(LAMBDA l : Count(d, loops[l].batch), Live)]
    BY <1>6 DEF Die
  <2>2. ASSUME NEW d \in Deliveries
        PROVE  lost[d] + Count(d, queue) + MapThenSumSet(LAMBDA l : Count(d, loops[l].batch), Live)
                 = lost[d] + gone[d]
    <3>1. MapThenSumSet(LAMBDA l : Count(d, loops[l].batch), Live) = Count(d, Batch)
      BY <1>0, LiveSum, Numbers
    <3>2. gone[d] = Count(d, queue) + Count(d, Batch) BY DEF Waiting
    <3> HIDE DEF gone
    <3> QED BY <3>1, <3>2, Numbers
  <2>3. lost' = [d \in Deliveries |-> lost[d] + gone[d]] BY <2>1, <2>2
  <2>4. Batch' = <<>>
    <3>1. \A l \in Slots : loops'[l].at = "off" BY <2>1 DEF Off
    <3>2. Live' = {} BY <3>1 DEF Live
    <3> QED BY <3>2 DEF Batch
  <2>5. ASSUME NEW d \in Deliveries
        PROVE  gone[d] \in Nat /\ Waiting(d) = Waiting(d)' + gone[d] /\ Waiting(d)' \in Nat
    <3>1. Waiting(d)' = Count(d, <<>>) + Count(d, <<>>) BY <2>1, <2>4 DEF Waiting
    <3>2. gone[d] = Waiting(d) OBVIOUS
    <3> HIDE DEF gone
    <3> QED BY <3>1, <3>2, <1>0, Numbers
  <2> HIDE DEF gone
  <2> QED BY <2>1, <2>3, <2>5, TallyLost
<1>7. CASE UNCHANGED <<queue, loops, accepted, lost>> /\ (~split' => UNCHANGED <<book, split>>)
  <2>1. \A d \in Deliveries : Waiting(d)' = Waiting(d) BY <1>7 DEF Waiting, Batch, Live
  <2> QED BY <1>7, <2>1 DEF TallyInv
<1>8. CASE UNCHANGED <<queue, loops, accepted, lost>>
           /\ \E line \in Lines : line.by = "other" /\ Write(line)
  <2>1. PICK line \in Lines : line.by = "other" /\ Write(line) BY <1>8
  <2>2. \A d \in Deliveries : Waiting(d)' = Waiting(d) BY <1>8 DEF Waiting, Batch, Live
  <2>3. CASE ~split'
    <3>1. ~split /\ log = book /\ book' = Append(book, line) /\ book \in Seq(Lines)
      BY <2>1, <2>3 DEF Write, FollowInv, LogInv
    <3>2. ASSUME NEW d \in Deliveries
          PROVE  Cardinality(Goals(d, book')) = Cardinality(Goals(d, book))
      <4>1. Cardinality(Goals(d, Append(book, line))) = Cardinality(Goals(d, book)) + 0
        BY <2>1, <3>1, GoalsGrow
      <4> QED BY <3>1, <4>1, Numbers
    <3> QED BY <1>8, <2>2, <3>1, <3>2 DEF TallyInv
  <2> QED BY <1>8, <2>3 DEF TallyInv
<1>9. CASE OtherWrite \/ OtherFinish
  <2>1. UNCHANGED <<queue, loops, accepted, lost>> BY <1>9 DEF OtherWrite, OtherFinish
  <2>2. \/ UNCHANGED <<book, split>>
        \/ \E line \in {Line("other", "none"), torn} : line # NoLine /\ Write(line)
    BY <1>9 DEF OtherWrite, OtherFinish, Line, NoLine
  <2>3. Line("other", "none") \in Lines /\ Line("other", "none").by = "other"
    BY Fewer DEF Line, Lines, FollowInv, WriterTypes
  <2>4. torn # NoLine => torn \in Lines /\ torn.by = "other"
    BY DEF FollowInv, WriterTypes, TornInv, Lines
  <2> QED BY <1>7, <1>8, <2>1, <2>2, <2>3, <2>4
<1>10. CASE Cut \/ PutBack \/ Poll \/ StartOver \/ \E from \in quota.from : Follow(from)
  BY <1>7, <1>10 DEF Cut, PutBack, Poll, StartOver, Follow
<1> QED BY <1>1, <1>2, <1>3, <1>4, <1>5, <1>6, <1>9, <1>10 DEF WebhookNext

\* The runner keeps what it was handed.
RunnerInv == FollowInv /\ OneInv /\ HandInv /\ TornInv /\ TallyInv

\* It has nothing to begin with.
LEMMA RunnerInit ==
  ASSUME NEW work \in Serving \cup {Idling}, WebhookInit(work) PROVE RunnerInv
<1>1. FollowInv BY FollowInit
<1>2. /\ queue = <<>> /\ running = FALSE /\ loops = [l \in Slots |-> Off] /\ unrun = {}
      /\ accepted = [d \in Deliveries |-> 0] /\ lost = accepted /\ book = <<>> /\ torn = NoLine
  BY DEF WebhookInit
<1>3. \A l \in Slots : loops[l].at = "off" /\ loops[l].batch = <<>> BY <1>2 DEF Off
<1>4. Live = {} BY <1>3 DEF Live
<1>5. OneInv BY <1>2, <1>3, <1>4 DEF OneInv
<1>6. HandInv /\ TornInv BY <1>2 DEF HandInv, TornInv, NoLine
<1>7. ASSUME NEW d \in Deliveries
      PROVE  Settled(d, Cardinality(Goals(d, book)), Waiting(d), lost[d], accepted[d])
  <2>1. <<>> \in Seq(Deliveries) /\ <<>> \in Seq(Lines) OBVIOUS
  <2>2. Count(d, <<>>) = 0 /\ Cardinality(Goals(d, <<>>)) = 0
    BY <2>1, CountChanges, GoalsGrow
  <2>3. Waiting(d) = 0 BY <1>2, <1>4, <2>2 DEF Waiting, Batch
  <2> QED BY <1>2, <2>2, <2>3 DEF Settled
<1>8. TallyInv BY <1>2, <1>7 DEF TallyInv
<1> QED BY <1>1, <1>5, <1>6, <1>8 DEF RunnerInv

\* Every step keeps it.
LEMMA RunnerStep ==
  ASSUME RunnerInv, [Next]_<<wvars, svars>> PROVE RunnerInv'
<1> USE DEF RunnerInv
<1>1. FollowInv' BY FollowStep
<1>2. WriterTypes /\ WriterTypes' BY <1>1 DEF FollowInv
<1>3. CASE WebhookNext
  <2>1. TornInv'
    <3>1. torn' \in {torn, NoLine, Line("other", "none")}
      BY <1>3 DEF WebhookNext, Receive, Take, SubmitNext, SubmitFails, Submitted, RunOnce, Die,
         OtherWrite, OtherFinish, Cut, PutBack, Follow, Poll, StartOver
    <3> QED BY <3>1 DEF TornInv, NoLine, Line
  <2> QED BY <1>1, <1>2, <1>3, <2>1, OneHolds, HandHolds, TallyHolds
<1>4. CASE UNCHANGED wvars
  <2>1. UNCHANGED <<queue, running, loops, accepted, lost, unrun, stray, book, split, torn>>
    BY <1>4 DEF wvars
  <2>2. UNCHANGED <<Live, Batch>> BY <2>1 DEF Live, Batch
  <2>3. \A d \in Deliveries : Waiting(d)' = Waiting(d) BY <2>1, <2>2 DEF Waiting
  <2> QED BY <1>1, <2>1, <2>2, <2>3, TallySame DEF OneInv, HandInv, TornInv
<1> QED BY <1>3, <1>4 DEF Next

\* It says what is promised.
LEMMA RunnerKeeps == RunnerInv => NothingForgotten
<1> SUFFICES ASSUME RunnerInv PROVE NothingForgotten OBVIOUS
<1> USE DEF RunnerInv
<1>1. Cardinality(Live) <= 1
  <2>1. CASE Live = {} BY <2>1, FS_EmptySet
  <2>2. ASSUME NEW l \in Live PROVE Cardinality(Live) <= 1
    <3>1. Live = {l} BY TheLoop
    <3>2. Cardinality({l}) = 1 BY FS_Singleton
    <3> QED BY <3>1, <3>2
  <2> QED BY <2>1, <2>2
<1>2. queue # <<>> => Live # {} BY DEF OneInv
<1>3. ASSUME ~split, NEW d \in Deliveries
      PROVE  LET goals == Cardinality(Goals(d, book))
                 waiting == Count(d, queue)
                              + MapThenSumSet(LAMBDA l : Count(d, loops[l].batch), Live)
             IN IF Request[d].id
                THEN goals <= 1 /\ (accepted[d] > lost[d] => goals + waiting > 0)
                ELSE goals + waiting + lost[d] = accepted[d]
  <2>0. <<>> \in Seq(Deliveries) OBVIOUS
  <2>1. Count(d, <<>>) = 0 BY <2>0, CountChanges
  <2>2. MapThenSumSet(LAMBDA l : Count(d, loops[l].batch), Live) = Count(d, Batch)
    BY <2>1, LiveSum, Numbers
  <2> DEFINE w == Count(d, queue) + Count(d, Batch)
             n == Cardinality(Goals(d, book))
  <2>3. w = Waiting(d) BY DEF Waiting
  <2>4. Settled(d, n, w, lost[d], accepted[d]) BY <1>3, <2>3 DEF TallyInv
  <2>5. w \in Nat /\ n \in Nat /\ lost[d] \in Nat /\ accepted[d] \in Nat BY Numbers
  <2> HIDE DEF w, n
  <2>6. IF Request[d].id
        THEN n <= 1 /\ (accepted[d] > lost[d] => n + w > 0)
        ELSE n + w + lost[d] = accepted[d]
    BY <2>4, <2>5 DEF Settled
  <2> QED BY <2>2, <2>6 DEF w, n
<1> QED BY <1>1, <1>2, <1>3 DEF NothingForgotten, HandInv

\* There is one runner at most, and nothing that was answered 202 is forgotten: it
\* waits for a loop that is at work, it is a goal, or it went with a failed batch
\* or the server; with an id it is one goal however often it was delivered.
THEOREM NoneForgotten == Spec => []NothingForgotten
<1>1. Init => RunnerInv BY RunnerInit DEF Init
<1>2. RunnerInv /\ [Next]_<<wvars, svars>> => RunnerInv' BY RunnerStep
<1>3. RunnerInv => NothingForgotten BY RunnerKeeps
<1> QED BY <1>1, <1>2, <1>3, PTL DEF Spec

-----------------------------------------------------------------------------
(* Sets of numbers, and sequences of sets *)

\* A set of places in a sequence that is not empty has a last one.
LEMMA Greatest ==
  ASSUME NEW n \in Nat, NEW S, S \subseteq 1..n, S # {}
  PROVE  Max(S) \in S /\ \A i \in S : i <= Max(S)
<1> DEFINE R == OpToRel(<, Nat)
           M == {n - i : i \in S}
<1>1. \A i \in S : i \in Nat /\ i <= n OBVIOUS
<1>2. M \subseteq Nat /\ M # {}
  <2>1. \A i \in S : n - i \in Nat BY <1>1
  <2> QED BY <2>1
<1>3. IsWellFoundedOn(R, Nat) BY NatLessThanWellFounded
<1> HIDE DEF M, R
<1>4. PICK m \in M : \A k \in M : ~(<<k, m>> \in R) BY <1>2, <1>3, WFMin
<1>5. \A k \in M : ~(k < m) BY <1>2, <1>4 DEF OpToRel, R
<1>6. PICK t \in S : m = n - t BY DEF M
<1>7. ASSUME NEW u \in S PROVE t >= u
  <2>1. n - u \in M BY DEF M
  <2>2. ~(n - u < n - t) BY <1>5, <1>6, <2>1
  <2> QED BY <1>1, <2>2
<1>8. Max(S) \in S /\ \A y \in S : Max(S) >= y BY <1>7 DEF Max
<1> QED BY <1>1, <1>8

\* The sequence of a finite set has each of its elements once.
LEMMA SeqOfSet ==
  ASSUME NEW S, IsFiniteSet(S)
  PROVE  /\ SetToSeq(S) \in Seq(S)
         /\ \A i, k \in 1..Len(SetToSeq(S)) : SetToSeq(S)[i] = SetToSeq(S)[k] => i = k
         /\ \A x \in S : \E i \in 1..Len(SetToSeq(S)) : SetToSeq(S)[i] = x
<1> DEFINE n == Cardinality(S)
           q == SetToSeq(S)
<1>1. n \in Nat /\ ExistsBijection(1..n, S) BY FS_CardinalityType
<1>2. \E f \in [1..n -> S] : IsInjective(f)
  BY <1>1 DEF ExistsBijection, Bijection, Injection
<1>3. q \in [1..n -> S] /\ IsInjective(q) BY <1>2 DEF SetToSeq
<1> HIDE DEF q
<1>4. q \in Seq(S) /\ Len(q) = n BY <1>1, <1>3
<1>5. \A i, k \in 1..n : q[i] = q[k] => i = k BY <1>3 DEF IsInjective
<1>6. q \in Injection(1..n, S) BY <1>3 DEF Injection
<1>7. Cardinality(1..n) = n BY <1>1, FS_Interval
<1>8. q \in Surjection(1..n, S) BY <1>6, <1>7, FS_Injection
<1>9. \A x \in S : \E i \in 1..n : q[i] = x BY <1>8 DEF Surjection
<1> QED BY <1>4, <1>5, <1>9 DEF q

-----------------------------------------------------------------------------
(* The log of the sessions *)

FpRecord == [tracked : Contents, agent : Nat, gate : Nat]

Id == Paths \X Nat

TreeRecord ==
  [born : Nat, is : {"fine", "gone", "own", "strange", "empty"}, tracked : Contents,
   agent : Nat, gate : Nat]

\* A session was seen, it was not found, or the Gate's verdict on it: what the Gate
\* is said to have left behind has the tracked files of the tree it judged.
Sighting == [type : {"observed"}, id : Id, removed : {FALSE}, fp : FpRecord, base : Bases,
             there : {TRUE}]
Loss == [type : {"observed"}, id : Id, removed : {TRUE}, fp : {NoPrint}, base : Bases,
         there : {FALSE}]
Verdict ==
  {e \in [type : {"checked"}, id : Id, fp : FpRecord, after : FpRecord \cup {NoPrint},
          passed : BOOLEAN, saw : FpRecord] : e.after = NoPrint \/ e.after.tracked = e.fp.tracked}

SLine == Sighting \cup Loss \cup Verdict

Earlier(l, j) == {i \in Observed(l, l[j].id) : i < j}

\* An observation tells something new of its session.
Changes(o, e) ==
  /\ <<o.removed, o.fp, o.base>> # <<e.removed, e.fp, e.base>>
  /\ ~(o.removed /\ e.removed)

\* What a line of the log owes to those before it.
LineOK(l, j) ==
  /\ l[j].type = "observed" =>
       /\ l[j].removed => Earlier(l, j) # {}
       /\ Earlier(l, j) # {} => Changes(l[Max(Earlier(l, j))], l[j])
  /\ l[j].type = "checked" => \E i \in 1..j - 1 : l[i].type = "observed" /\ l[i].id = l[j].id

SoundLog(l) == l \in Seq(SLine) /\ \A j \in 1..Len(l) : LineOK(l, j)

\* What a scan has read: what it found it calls present, and what was there it
\* found or skipped.
ScanOK(sc) ==
  /\ IsFiniteSet(DOMAIN sc.obs) /\ DOMAIN sc.obs \subseteq sc.present /\ sc.present \subseteq Id
  /\ sc.base \in Bases
  /\ \A id \in DOMAIN sc.obs : sc.obs[id] \in [fp : FpRecord, base : Bases]
  /\ \A id \in sc.there : id \in sc.present \/ id[1] \in sc.skipped

\* The last observation of a session that is known, and the last that showed it.
LEMMA SessionIs ==
  ASSUME NEW l, SoundLog(l), NEW id \in Known(l)
  PROVE  /\ Max(Observed(l, id)) \in Observed(l, id)
         /\ \A i \in Observed(l, id) : i <= Max(Observed(l, id))
         /\ Session(l, id).removed = l[Max(Observed(l, id))].removed
         /\ Session(l, id).fp \in FpRecord
         /\ ~Session(l, id).removed => /\ Session(l, id).fp = l[Max(Observed(l, id))].fp
                                       /\ Session(l, id).base = l[Max(Observed(l, id))].base
<1> DEFINE S == Observed(l, id)
           T == {i \in Observed(l, id) : ~l[i].removed}
           m == Max(S)
<1>1. l \in Seq(SLine) /\ Len(l) \in Nat /\ DOMAIN l = 1..Len(l) BY DEF SoundLog
<1>2. S \subseteq 1..Len(l) /\ S # {} BY <1>1 DEF Observed, Known
<1>3. m \in S /\ \A i \in S : i <= m BY <1>1, <1>2, Greatest
<1>4. \A i \in S : l[i] \in Sighting \cup Loss /\ i \in Nat
  <2>1. ASSUME NEW i \in S PROVE l[i] \in Sighting \cup Loss /\ i \in Nat
    <3>1. i \in 1..Len(l) /\ l[i].type = "observed" BY <1>1 DEF Observed
    <3>2. l[i] \in SLine BY <1>1, <3>1
    <3> QED BY <3>1, <3>2 DEF SLine, Verdict
  <2> QED BY <2>1
<1>5. T # {}
  <2>1. CASE ~l[m].removed BY <1>3, <2>1
  <2>2. CASE l[m].removed
    <3>1. m \in 1..Len(l) /\ l[m].type = "observed" /\ l[m].id = id BY <1>2, <1>3 DEF Observed
    <3>2. /\ Earlier(l, m) # {} /\ Changes(l[Max(Earlier(l, m))], l[m])
      BY <2>2, <3>1 DEF SoundLog, LineOK
    <3>3. Earlier(l, m) \subseteq S BY <3>1 DEF Earlier
    <3>4. Max(Earlier(l, m)) \in Earlier(l, m)
      <4>1. Earlier(l, m) \subseteq 1..Len(l) BY <1>2, <3>3
      <4> QED BY <1>1, <3>2, <4>1, Greatest
    <3>5. ~l[Max(Earlier(l, m))].removed BY <2>2, <3>2 DEF Changes
    <3> QED BY <3>3, <3>4, <3>5
  <2> QED BY <2>1, <2>2
<1>6. Max(T) \in T /\ \A i \in T : i <= Max(T)
  <2>1. T \subseteq 1..Len(l) BY <1>2
  <2> HIDE DEF T
  <2> QED BY <1>1, <1>5, <2>1, Greatest
<1>7. l[Max(T)] \in Sighting BY <1>4, <1>6 DEF Loss
<1>8. ~l[m].removed => Max(T) = m
  <2>1. SUFFICES ASSUME ~l[m].removed PROVE Max(T) = m OBVIOUS
  <2>2. m \in T BY <1>3, <2>1
  <2>3. m <= Max(T) /\ Max(T) <= m BY <1>3, <1>6, <2>2
  <2> QED BY <1>3, <1>4, <1>6, <2>3
<1>9. Session(l, id) = [removed |-> l[m].removed, fp |-> l[Max(T)].fp, base |-> l[Max(T)].base]
  BY DEF Session
<1> HIDE DEF m, T, S
<1>10. l[Max(T)].fp \in FpRecord BY <1>7 DEF Sighting
<1> QED BY <1>3, <1>8, <1>9, <1>10 DEF m, S

\* A log that goes on with observations of sessions that are all different, and
\* each of which says something new, is sound.
LEMMA Recording ==
  ASSUME NEW l, SoundLog(l), NEW q \in Seq(Sighting \cup Loss),
         \A i, k \in 1..Len(q) : q[i].id = q[k].id => i = k,
         \A i \in 1..Len(q) :
           /\ q[i].removed => q[i].id \in Known(l)
           /\ q[i].id \in Known(l) => Changes(l[Max(Observed(l, q[i].id))], q[i])
  PROVE  SoundLog(l \o q)
<1> DEFINE r == l \o q
           n == Len(l)
<1>1. l \in Seq(SLine) /\ n \in Nat /\ DOMAIN l = 1..n /\ Len(q) \in Nat BY DEF SoundLog
<1>2. q \in Seq(SLine)
  <2>1. \A i \in 1..Len(q) : q[i] \in SLine BY DEF SLine
  <2>2. q = [i \in 1..Len(q) |-> q[i]] OBVIOUS
  <2>3. q \in [1..Len(q) -> SLine] BY <2>1, <2>2
  <2> QED BY <1>1, <2>3
<1>3. /\ r \in Seq(SLine) /\ Len(r) = n + Len(q) /\ DOMAIN r = 1..n + Len(q)
      /\ \A i \in 1..n : r[i] = l[i]
      /\ \A i \in n + 1..n + Len(q) : i - n \in 1..Len(q) /\ r[i] = q[i - n]
  <2>1. r \in Seq(SLine) /\ Len(r) = n + Len(q) BY <1>1, <1>2
  <2>2. \A i \in 1..n : r[i] = l[i] BY <1>1
  <2>3. ASSUME NEW i \in n + 1..n + Len(q) PROVE i - n \in 1..Len(q) /\ r[i] = q[i - n]
    <3>1. i \in 1..n + Len(q) /\ i > n /\ i - n \in 1..Len(q) BY <1>1
    <3> QED BY <1>1, <1>2, <3>1
  <2> QED BY <1>1, <2>1, <2>2, <2>3
<1> HIDE DEF r
<1>4. ASSUME NEW j \in 1..n PROVE LineOK(r, j)
  <2>1. r[j] = l[j] /\ j \in DOMAIN r BY <1>1, <1>3
  <2>2. Earlier(r, j) = Earlier(l, j)
    BY <1>1, <1>3, <2>1 DEF Earlier, Observed
  <2>3. \A i \in Earlier(l, j) : r[i] = l[i] BY <1>1, <1>3 DEF Earlier, Observed
  <2>4. LineOK(l, j) BY <1>1 DEF SoundLog
  <2>5. Earlier(l, j) # {} => Max(Earlier(l, j)) \in Earlier(l, j)
    <3>1. Earlier(l, j) \subseteq 1..n BY <1>1 DEF Earlier, Observed
    <3> QED BY <1>1, <3>1, Greatest
  <2>6. l[j].type = "checked" => \E i \in 1..j - 1 : r[i].type = "observed" /\ r[i].id = r[j].id
    <3>1. SUFFICES ASSUME l[j].type = "checked"
                   PROVE  \E i \in 1..j - 1 : r[i].type = "observed" /\ r[i].id = r[j].id
      OBVIOUS
    <3>2. PICK i \in 1..j - 1 : l[i].type = "observed" /\ l[i].id = l[j].id
      BY <2>4, <3>1 DEF LineOK
    <3>3. i \in 1..n BY <1>1
    <3> QED BY <1>3, <2>1, <3>2, <3>3
  <2> QED BY <2>1, <2>2, <2>3, <2>4, <2>5, <2>6 DEF LineOK
<1>5. ASSUME NEW j \in n + 1..n + Len(q) PROVE LineOK(r, j)
  <2> DEFINE k == j - n
             e == q[k]
  <2>1. k \in 1..Len(q) /\ r[j] = e
    <3>1. j - n \in 1..Len(q) /\ r[j] = q[j - n] BY <1>3, <1>5
    <3> QED BY <3>1
  <2>2. e.type = "observed"
    <3>1. q[k] \in Sighting \cup Loss
      <4> HIDE DEF k
      <4> QED BY <2>1
    <3> QED BY <3>1 DEF Sighting, Loss
  <2> HIDE DEF e, k
  <2>3. Earlier(r, j) = Observed(l, e.id)
    <3>1. ASSUME NEW i \in Earlier(r, j) PROVE i \in Observed(l, e.id)
      <4>1. i \in 1..n + Len(q) /\ i < j /\ r[i].type = "observed" /\ r[i].id = e.id
        BY <1>3, <2>1 DEF Earlier, Observed
      <4>2. CASE i \in 1..n BY <1>1, <1>3, <4>1, <4>2 DEF Observed
      <4>3. CASE i \notin 1..n
        <5>1. i \in n + 1..n + Len(q) BY <1>1, <4>1, <4>3
        <5>2. i - n \in 1..Len(q) /\ r[i] = q[i - n] BY <1>3, <5>1
        <5>3. i - n = k BY <2>1, <4>1, <5>2 DEF e
        <5>4. i = j BY <1>1, <5>1, <5>3 DEF k
        <5> QED BY <4>1, <5>4
      <4> QED BY <4>2, <4>3
    <3>2. ASSUME NEW i \in Observed(l, e.id) PROVE i \in Earlier(r, j)
      <4>1. i \in 1..n /\ l[i].type = "observed" /\ l[i].id = e.id BY <1>1 DEF Observed
      <4>2. i < j /\ i \in 1..n + Len(q) BY <1>1, <4>1
      <4> QED BY <1>3, <2>1, <4>1, <4>2 DEF Earlier, Observed
    <3> QED BY <3>1, <3>2
  <2>4. Observed(l, e.id) # {} => e.id \in Known(l) BY DEF Observed, Known
  <2>5. e.id \in Known(l) => /\ Observed(l, e.id) # {}
                             /\ Max(Observed(l, e.id)) \in 1..n
    <3>1. e.id \in Known(l) => Max(Observed(l, e.id)) \in Observed(l, e.id) BY SessionIs
    <3> QED BY <1>1, <3>1 DEF Observed
  <2>6. e.removed => e.id \in Known(l) BY <2>1 DEF e
  <2>7. e.id \in Known(l) => Changes(l[Max(Observed(l, e.id))], e) BY <2>1 DEF e
  <2>8. e.id \in Known(l) => r[Max(Observed(l, e.id))] = l[Max(Observed(l, e.id))]
    BY <1>3, <2>5
  <2>9. Earlier(r, j) # {} => Changes(r[Max(Earlier(r, j))], r[j])
    BY <2>1, <2>3, <2>4, <2>7, <2>8
  <2> QED BY <2>1, <2>2, <2>3, <2>5, <2>6, <2>9 DEF LineOK
<1>6. \A j \in 1..Len(r) : j \in 1..n \/ j \in n + 1..n + Len(q) BY <1>1, <1>3
<1>7. SoundLog(r) BY <1>3, <1>4, <1>5, <1>6 DEF SoundLog
<1> QED BY <1>7 DEF r

\* An id that a log knows stays known when it goes on, and with one more line.
LEMMA KnownGrows ==
  ASSUME NEW l \in Seq(SLine), NEW q \in Seq(SLine)
  PROVE  Known(l) \subseteq Known(l \o q)
         /\ \A i \in 1..Len(q) : q[i].type = "observed" => q[i].id \in Known(l \o q)
<1>1. /\ Len(l) \in Nat /\ DOMAIN l = 1..Len(l) /\ Len(q) \in Nat
      /\ DOMAIN (l \o q) = 1..Len(l) + Len(q)
  OBVIOUS
<1>2. \A i \in 1..Len(l) : (l \o q)[i] = l[i] OBVIOUS
<1>3. ASSUME NEW id \in Known(l) PROVE id \in Known(l \o q)
  <2>1. PICK i \in 1..Len(l) : l[i].type = "observed" /\ l[i].id = id BY <1>1 DEF Known
  <2>2. i \in 1..Len(l) + Len(q) BY <1>1
  <2> QED BY <1>1, <1>2, <2>1, <2>2 DEF Known
<1>4. ASSUME NEW i \in 1..Len(q), q[i].type = "observed" PROVE q[i].id \in Known(l \o q)
  <2>1. Len(l) + i \in 1..Len(l) + Len(q) /\ (l \o q)[Len(l) + i] = q[i] BY <1>1
  <2> QED BY <1>1, <1>4, <2>1 DEF Known
<1> QED BY <1>3, <1>4

\* The ids that a log knows are finitely many.
LEMMA KnownIds ==
  ASSUME NEW l \in Seq(SLine) PROVE Known(l) \subseteq Id /\ IsFiniteSet(Known(l))
<1> DEFINE S == {i \in DOMAIN l : l[i].type = "observed"}
           f == [i \in S |-> l[i].id]
<1>1. Len(l) \in Nat /\ DOMAIN l = 1..Len(l) /\ IsFiniteSet(1..Len(l)) BY FS_Interval
<1>2. \A i \in S : l[i].id \in Id
  <2>1. ASSUME NEW i \in S PROVE l[i].id \in Id
    <3>1. l[i] \in SLine BY <1>1
    <3> QED BY <3>1 DEF SLine, Sighting, Loss, Verdict
  <2> QED BY <2>1
<1>3. S \in SUBSET (1..Len(l)) BY <1>1
<1>4. IsFiniteSet(S) BY <1>1, <1>3, FS_Subset
<1>5. Known(l) = {f[i] : i \in S} BY DEF Known
<1> HIDE DEF S
<1>6. f \in [S -> Known(l)] BY <1>5
<1>7. \A x \in Known(l) : \E i \in S : f[i] = x BY <1>5
<1> HIDE DEF f
<1>8. f \in Surjection(S, Known(l)) BY <1>6, <1>7, Fun_IsSurj
<1>9. IsFiniteSet(Known(l)) BY <1>4, <1>8, FS_Surjection
<1> QED BY <1>2, <1>9 DEF S, Known

\* A sequence over a set is one over a larger set.
LEMMA Wider ==
  ASSUME NEW R, NEW T, R \subseteq T, NEW q \in Seq(R) PROVE q \in Seq(T)
<1>1. Len(q) \in Nat /\ q = [i \in 1..Len(q) |-> q[i]] OBVIOUS
<1>2. \A i \in 1..Len(q) : q[i] \in R OBVIOUS
<1>3. q \in [1..Len(q) -> T] BY <1>1, <1>2
<1> QED BY <1>1, <1>3

\* A set has a line for each id of a finite set, and a sequence has them once each.
HasLines(S, f, R) ==
  /\ IsFiniteSet(S) /\ \A id \in S : f[id].id = id
  /\ (\A id \in S : f[id] \in R) /\ \A x \in R : \E id \in S : x = f[id]

ListsLines(S, f, q) ==
  /\ \A i, k \in 1..Len(q) : q[i].id = q[k].id => i = k
  /\ \A i \in 1..Len(q) : \E id \in S : q[i] = f[id]
  /\ \A id \in S : \E i \in 1..Len(q) : q[i] = f[id]

\* What a recording appends has a line for each id.
LEMMA LinesOf ==
  ASSUME NEW S, NEW f, NEW R, HasLines(S, f, R)
  PROVE  SetToSeq(R) \in Seq(R) /\ ListsLines(S, f, SetToSeq(R))
<1> USE DEF HasLines
<1> DEFINE g == [id \in S |-> f[id]]
           q == SetToSeq(R)
<1>1. g \in [S -> R] /\ \A x \in R : \E id \in S : g[id] = x OBVIOUS
<1>3. \A x, y \in R : x.id = y.id => x = y OBVIOUS
<1> HIDE DEF g
<1>4. g \in Surjection(S, R) BY <1>1, Fun_IsSurj
<1>5. IsFiniteSet(R) BY <1>4, FS_Surjection
<1>6. /\ q \in Seq(R)
      /\ \A i, k \in 1..Len(q) : q[i] = q[k] => i = k
      /\ \A x \in R : \E i \in 1..Len(q) : q[i] = x
  BY <1>5, SeqOfSet
<1> HIDE DEF q
<1>7. \A i \in 1..Len(q) : q[i] \in R BY <1>6
<1>9. \A i, k \in 1..Len(q) : q[i].id = q[k].id => i = k BY <1>3, <1>6, <1>7
<1>10. \A i \in 1..Len(q) : \E id \in S : q[i] = f[id] BY <1>7
<1>11. \A id \in S : \E i \in 1..Len(q) : q[i] = f[id] BY <1>6
<1> QED BY <1>6, <1>9, <1>10, <1>11 DEF q, ListsLines

\* A scan is recorded: the log stays sound and knows all that was found.
LEMMA RecordSound ==
  ASSUME NEW l, SoundLog(l), NEW sc, ScanOK(sc)
  PROVE  /\ SoundLog(Recorded(l, sc)) /\ Known(l) \subseteq Known(Recorded(l, sc))
         /\ DOMAIN sc.obs \subseteq Known(Recorded(l, sc))
<1> DEFINE new == {id \in DOMAIN sc.obs : ~(id \in Known(l) /\ Same(Session(l, id), sc.obs[id]))}
           removed == Removed(l, sc)
           f == [id \in new |->
                   [type |-> "observed", id |-> id, removed |-> FALSE, fp |-> sc.obs[id].fp,
                    base |-> sc.obs[id].base, there |-> TRUE]]
           g == [id \in removed |->
                   [type |-> "observed", id |-> id, removed |-> TRUE, fp |-> NoPrint,
                    base |-> sc.base, there |-> id \in sc.there]]
           a == SetToSeq({f[id] : id \in new})
           b == SetToSeq({g[id] : id \in removed})
<1>1. Recorded(l, sc) = l \o a \o b BY DEF Recorded
<1>2. l \in Seq(SLine) BY DEF SoundLog
<1>3. IsFiniteSet(new) /\ IsFiniteSet(removed) /\ removed \subseteq Known(l)
  <2>1. new \in SUBSET DOMAIN sc.obs /\ removed \in SUBSET Known(l) BY DEF Removed
  <2>2. IsFiniteSet(DOMAIN sc.obs) /\ IsFiniteSet(Known(l)) BY <1>2, KnownIds DEF ScanOK
  <2> HIDE DEF new, removed
  <2> QED BY <2>1, <2>2, FS_Subset
<1>4. ASSUME NEW id \in new PROVE f[id] \in Sighting /\ f[id].id = id
  BY DEF Sighting, ScanOK
<1>5. ASSUME NEW id \in removed PROVE g[id] \in Loss /\ g[id].id = id
  <2>1. id \notin sc.there BY DEF Removed, ScanOK
  <2>2. id \in Id BY <1>2, <1>3, KnownIds
  <2>3. sc.base \in Bases BY DEF ScanOK
  <2>4. (id \in sc.there) = FALSE BY <2>1
  <2>5. g[id] = [type |-> "observed", id |-> id, removed |-> TRUE, fp |-> NoPrint,
                 base |-> sc.base, there |-> FALSE]
    BY <2>4
  <2> HIDE DEF g
  <2> QED BY <2>2, <2>3, <2>5 DEF Loss
<1>6. \A id \in new : id \notin removed BY DEF Removed, ScanOK
<1>7. \A id \in new : id \in Known(l) => Changes(l[Max(Observed(l, id))], f[id])
  <2>1. ASSUME NEW id \in new, id \in Known(l) PROVE Changes(l[Max(Observed(l, id))], f[id])
    <3> DEFINE o == l[Max(Observed(l, id))]
    <3>1. /\ Session(l, id).removed = o.removed
          /\ ~Session(l, id).removed => Session(l, id).fp = o.fp /\ Session(l, id).base = o.base
      BY <2>1, SessionIs
    <3>2. ~Same(Session(l, id), sc.obs[id]) BY <2>1
    <3>3. f[id].removed = FALSE /\ f[id].fp = sc.obs[id].fp /\ f[id].base = sc.obs[id].base
      OBVIOUS
    <3> HIDE DEF o, f, new
    <3>4. ~(o.removed = FALSE /\ o.fp = sc.obs[id].fp /\ o.base = sc.obs[id].base)
      BY <3>1, <3>2 DEF Same
    <3>5. Changes(o, f[id]) BY <3>3, <3>4 DEF Changes
    <3> QED BY <3>5 DEF o
  <2> QED BY <2>1
<1>8. \A id \in removed : Changes(l[Max(Observed(l, id))], g[id])
  <2>1. ASSUME NEW id \in removed PROVE Changes(l[Max(Observed(l, id))], g[id])
    <3> DEFINE o == l[Max(Observed(l, id))]
    <3>1. Session(l, id).removed = o.removed /\ ~Session(l, id).removed /\ o \in SLine
               /\ o.type = "observed"
      <4>1. Session(l, id).removed = o.removed /\ Max(Observed(l, id)) \in Observed(l, id)
        BY <1>3, SessionIs
      <4>2. Max(Observed(l, id)) \in 1..Len(l) /\ o.type = "observed" BY <1>2, <4>1 DEF Observed
      <4>3. ~Session(l, id).removed BY DEF Removed
      <4> QED BY <1>2, <4>1, <4>2, <4>3
    <3>2. o.removed = FALSE BY <3>1 DEF SLine, Sighting, Loss, Verdict
    <3>3. g[id].removed = TRUE OBVIOUS
    <3> HIDE DEF o, g, removed
    <3>4. Changes(o, g[id]) BY <3>2, <3>3 DEF Changes
    <3> QED BY <3>4 DEF o
  <2> QED BY <2>1
<1>9. \A id \in new : f[id].removed = FALSE OBVIOUS
<1>11. \A id \in DOMAIN sc.obs : id \in new \/ id \in Known(l) OBVIOUS
<1> HIDE DEF f, g, new, removed
<1>12. /\ a \in Seq(Sighting)
       /\ \A i, k \in 1..Len(a) : a[i].id = a[k].id => i = k
       /\ \A i \in 1..Len(a) : \E id \in new : a[i] = f[id]
       /\ \A id \in new : \E i \in 1..Len(a) : a[i] = f[id]
  <2> DEFINE A == {f[id] : id \in new}
  <2>1. A \subseteq Sighting BY <1>4
  <2>2. a = SetToSeq(A) /\ HasLines(new, f, A)
    BY <1>3, <1>4 DEF HasLines
  <2> HIDE DEF a, A
  <2>3. a \in Seq(A) /\ ListsLines(new, f, a) BY <2>2, LinesOf
  <2>4. a \in Seq(Sighting) BY <2>1, <2>3, Wider
  <2> QED BY <2>3, <2>4 DEF ListsLines
<1>13. /\ b \in Seq(Loss)
       /\ \A i, k \in 1..Len(b) : b[i].id = b[k].id => i = k
       /\ \A i \in 1..Len(b) : \E id \in removed : b[i] = g[id]
  <2> DEFINE B == {g[id] : id \in removed}
  <2>1. B \subseteq Loss BY <1>5
  <2>2. b = SetToSeq(B) /\ HasLines(removed, g, B)
    BY <1>3, <1>5 DEF HasLines
  <2> HIDE DEF b, B
  <2>3. b \in Seq(B) /\ ListsLines(removed, g, b) BY <2>2, LinesOf
  <2>4. b \in Seq(Loss) BY <2>1, <2>3, Wider
  <2> QED BY <2>3, <2>4 DEF ListsLines
<1> HIDE DEF a, b
<1> DEFINE q == a \o b
<1>14. /\ a \in Seq(Sighting \cup Loss) /\ b \in Seq(Sighting \cup Loss)
       /\ q \in Seq(Sighting \cup Loss) /\ q \in Seq(SLine)
       /\ Len(a) \in Nat /\ Len(b) \in Nat /\ Len(q) = Len(a) + Len(b)
  <2>1. a \in Seq(Sighting \cup Loss) /\ b \in Seq(Sighting \cup Loss) BY <1>12, <1>13
  <2>2. a \in Seq(SLine) /\ b \in Seq(SLine) BY <1>12, <1>13 DEF SLine
  <2> QED BY <2>1, <2>2
<1>15. /\ \A i \in 1..Len(a) : q[i] = a[i]
       /\ \A i \in 1..Len(q) : i \in 1..Len(a) \/ (i - Len(a) \in 1..Len(b) /\ q[i] = b[i - Len(a)])
  <2>1. \A i \in 1..Len(a) : q[i] = a[i] BY <1>14
  <2>2. ASSUME NEW i \in 1..Len(q), i \notin 1..Len(a)
        PROVE  i - Len(a) \in 1..Len(b) /\ q[i] = b[i - Len(a)]
    <3>1. i \in 1..Len(a) + Len(b) /\ i > Len(a) /\ i - Len(a) \in 1..Len(b) BY <1>14, <2>2
    <3> QED BY <1>14, <3>1
  <2> QED BY <2>1, <2>2
<1> HIDE DEF q
<1>16. \A i \in 1..Len(q) :
         \/ i \in 1..Len(a) /\ q[i] = a[i] /\ \E id \in new : q[i] = f[id]
         \/ i - Len(a) \in 1..Len(b) /\ q[i] = b[i - Len(a)] /\ \E id \in removed : q[i] = g[id]
  BY <1>12, <1>13, <1>15
<1>17. \A i, k \in 1..Len(q) : q[i].id = q[k].id => i = k
  <2>1. SUFFICES ASSUME NEW i \in 1..Len(q), NEW k \in 1..Len(q), q[i].id = q[k].id
                 PROVE  i = k
    OBVIOUS
  <2>2. CASE i \in 1..Len(a) /\ q[i] = a[i] /\ \E id \in new : q[i] = f[id]
    <3>1. q[i].id \in new BY <1>4, <2>2
    <3>2. k \in 1..Len(a) /\ q[k] = a[k] BY <1>5, <1>6, <1>16, <2>1, <3>1
    <3> QED BY <1>12, <2>1, <2>2, <3>2
  <2>3. CASE i - Len(a) \in 1..Len(b) /\ q[i] = b[i - Len(a)] /\ \E id \in removed : q[i] = g[id]
    <3>1. q[i].id \in removed BY <1>5, <2>3
    <3>2. k - Len(a) \in 1..Len(b) /\ q[k] = b[k - Len(a)] BY <1>4, <1>6, <1>16, <2>1, <3>1
    <3>3. i - Len(a) = k - Len(a) BY <1>13, <2>1, <2>3, <3>2
    <3>4. i \in Int /\ k \in Int /\ Len(a) \in Int BY <1>14
    <3> QED BY <3>3, <3>4
  <2> QED BY <1>16, <2>2, <2>3
<1>18. \A i \in 1..Len(q) :
         /\ q[i].removed => q[i].id \in Known(l)
         /\ q[i].id \in Known(l) => Changes(l[Max(Observed(l, q[i].id))], q[i])
  <2>1. SUFFICES ASSUME NEW i \in 1..Len(q)
                 PROVE  /\ q[i].removed => q[i].id \in Known(l)
                        /\ q[i].id \in Known(l) => Changes(l[Max(Observed(l, q[i].id))], q[i])
    OBVIOUS
  <2>2. ASSUME NEW id \in new, q[i] = f[id]
        PROVE  /\ q[i].removed => q[i].id \in Known(l)
               /\ q[i].id \in Known(l) => Changes(l[Max(Observed(l, q[i].id))], q[i])
    <3>1. q[i].id = id /\ q[i].removed = FALSE BY <1>4, <1>9, <2>2
    <3> QED BY <1>7, <2>2, <3>1
  <2>3. ASSUME NEW id \in removed, q[i] = g[id]
        PROVE  /\ q[i].removed => q[i].id \in Known(l)
               /\ q[i].id \in Known(l) => Changes(l[Max(Observed(l, q[i].id))], q[i])
    <3>1. q[i].id = id /\ id \in Known(l) BY <1>3, <1>5, <2>3
    <3> QED BY <1>8, <2>3, <3>1
  <2> QED BY <1>16, <2>2, <2>3
<1>19. SoundLog(l \o q) BY <1>14, <1>17, <1>18, Recording
<1>20. l \o q = l \o a \o b BY <1>2, <1>14 DEF q
<1>21. DOMAIN sc.obs \subseteq Known(l \o q)
  <2>1. ASSUME NEW id \in new PROVE id \in Known(l \o q)
    <3>1. PICK i \in 1..Len(a) : a[i] = f[id] BY <1>12
    <3>2. i \in 1..Len(q) /\ q[i] = f[id] BY <1>14, <1>15, <3>1
    <3>3. q[i].type = "observed" /\ q[i].id = id BY <1>4, <3>2 DEF Sighting
    <3> QED BY <1>2, <1>14, <3>2, <3>3, KnownGrows
  <2>2. Known(l) \subseteq Known(l \o q) BY <1>2, <1>14, KnownGrows
  <2> QED BY <1>11, <2>1, <2>2
<1> QED BY <1>1, <1>2, <1>14, <1>19, <1>20, <1>21, KnownGrows

\* A verdict on a session that is known goes on the log.
LEMMA VerdictSound ==
  ASSUME NEW l, SoundLog(l), NEW e \in Verdict, e.id \in Known(l)
  PROVE  SoundLog(Append(l, e)) /\ Known(l) \subseteq Known(Append(l, e))
<1> DEFINE n == Len(l)
           r == Append(l, e)
<1>1. l \in Seq(SLine) /\ n \in Nat /\ DOMAIN l = 1..n /\ e \in SLine BY DEF SoundLog, SLine
<1>2. /\ r \in Seq(SLine) /\ Len(r) = n + 1 /\ DOMAIN r = 1..n + 1 /\ r[n + 1] = e
      /\ \A i \in 1..n : r[i] = l[i]
  BY <1>1
<1> HIDE DEF r
<1>3. ASSUME NEW j \in 1..n PROVE LineOK(r, j)
  <2>1. r[j] = l[j] /\ j \in DOMAIN r BY <1>1, <1>2
  <2>2. Earlier(r, j) = Earlier(l, j) BY <1>1, <1>2, <2>1 DEF Earlier, Observed
  <2>3. \A i \in Earlier(l, j) : r[i] = l[i] BY <1>1, <1>2 DEF Earlier, Observed
  <2>4. LineOK(l, j) BY <1>1 DEF SoundLog
  <2>5. Earlier(l, j) # {} => Max(Earlier(l, j)) \in Earlier(l, j)
    <3>1. Earlier(l, j) \subseteq 1..n BY <1>1 DEF Earlier, Observed
    <3> QED BY <1>1, <3>1, Greatest
  <2>6. l[j].type = "checked" => \E i \in 1..j - 1 : r[i].type = "observed" /\ r[i].id = r[j].id
    <3>1. SUFFICES ASSUME l[j].type = "checked"
                   PROVE  \E i \in 1..j - 1 : r[i].type = "observed" /\ r[i].id = r[j].id
      OBVIOUS
    <3>2. PICK i \in 1..j - 1 : l[i].type = "observed" /\ l[i].id = l[j].id
      BY <2>4, <3>1 DEF LineOK
    <3>3. i \in 1..n BY <1>1
    <3> QED BY <1>2, <2>1, <3>2, <3>3
  <2> QED BY <2>1, <2>2, <2>3, <2>4, <2>5, <2>6 DEF LineOK
<1>4. LineOK(r, n + 1)
  <2>1. PICK i \in 1..n : l[i].type = "observed" /\ l[i].id = e.id BY <1>1 DEF Known
  <2>2. i \in 1..(n + 1) - 1 BY <1>1
  <2>3. e.type = "checked" BY DEF Verdict
  <2> QED BY <1>2, <2>1, <2>2, <2>3 DEF LineOK
<1>5. \A j \in 1..Len(r) : j \in 1..n \/ j = n + 1 BY <1>1, <1>2
<1>6. SoundLog(r) BY <1>2, <1>3, <1>4, <1>5 DEF SoundLog
<1>7. Known(l) \subseteq Known(r)
  <2>1. ASSUME NEW id \in Known(l) PROVE id \in Known(r)
    <3>1. PICK i \in 1..n : l[i].type = "observed" /\ l[i].id = id BY <1>1 DEF Known
    <3>2. i \in 1..n + 1 BY <1>1
    <3> QED BY <1>2, <3>1, <3>2 DEF Known
  <2> QED BY <2>1
<1> QED BY <1>6, <1>7 DEF r

-----------------------------------------------------------------------------
(* The commands at work *)

ProcOK(r, known) ==
  /\ r.at = "scanned" => ScanOK(r.scan)
  /\ r.at \in {"gate", "ran"} => r.id \in known /\ r.id \in Id /\ r.fp \in FpRecord
  /\ r.at = "ran" => r.saw \in FpRecord /\ r.passed \in BOOLEAN
  /\ r.at = "judged" => r.event \in Verdict /\ r.event.id \in known

SessionsInv ==
  /\ trees \in [Paths -> TreeRecord] /\ left \in Visits
  /\ SoundLog(slog)
  /\ procs = [p \in Processes |-> procs[p]]
  /\ \A p \in Processes : ProcOK(procs[p], Known(slog))

\* A fingerprint is of a tree.
LEMMA PrintOf == ASSUME NEW t \in TreeRecord PROVE Fingerprint(t) \in FpRecord
BY DEF TreeRecord, Fingerprint, FpRecord

\* What a scan reads is what the next steps of a command may rely on.
LEMMA ScanReads == ASSUME SessionsInv, NEW base \in Bases PROVE ScanOK(Scan(base))
<1> DEFINE fine == {p \in Paths : trees[p].is \in {"fine"}}
           found == {IdOf(p) : p \in fine}
           f == [p \in fine |-> IdOf(p)]
           sc == Scan(base)
<1>1. \A p \in Paths : trees[p] \in TreeRecord /\ IdOf(p) \in Id /\ IdOf(p)[1] = p
  BY DEF SessionsInv, IdOf, TreeRecord, Id
<1>2. sc.base = base /\ DOMAIN sc.obs = found BY DEF Scan
<1>3. \A id \in found : sc.obs[id] = [fp |-> Fingerprint(trees[id[1]]), base |-> base] BY DEF Scan
<1>4. sc.present = {IdOf(p) : p \in {q \in Paths : trees[q].is \in {"fine", "empty"}}} BY DEF Scan
<1>5. sc.skipped = {q \in Paths : trees[q].is \in {"strange"}} BY DEF Scan
<1>6. sc.there = {IdOf(p) : p \in {q \in Paths : trees[q].is \in {"fine", "empty", "strange"}}}
  BY DEF Scan
<1> HIDE DEF sc
<1>7. IsFiniteSet(found)
  <2>1. IsFiniteSet(fine) BY SessionAssumption, FS_Subset
  <2>2. f \in [fine -> found] /\ \A x \in found : \E p \in fine : f[p] = x OBVIOUS
  <2> HIDE DEF f, found, fine
  <2>3. f \in Surjection(fine, found) BY <2>2, Fun_IsSurj
  <2> QED BY <2>1, <2>3, FS_Surjection
<1>8. found \subseteq sc.present /\ sc.present \subseteq Id BY <1>1, <1>4
<1>9. \A id \in found : sc.obs[id] \in [fp : FpRecord, base : Bases]
  <2>1. ASSUME NEW p \in fine PROVE sc.obs[IdOf(p)] \in [fp : FpRecord, base : Bases]
    <3>1. sc.obs[IdOf(p)] = [fp |-> Fingerprint(trees[p]), base |-> base] BY <1>1, <1>3
    <3>2. Fingerprint(trees[p]) \in FpRecord BY <1>1, PrintOf
    <3> QED BY <3>1, <3>2
  <2> QED BY <2>1
<1>10. \A id \in sc.there : id \in sc.present \/ id[1] \in sc.skipped BY <1>1, <1>4, <1>5, <1>6
<1>11. ScanOK(sc) BY <1>2, <1>7, <1>8, <1>9, <1>10 DEF ScanOK
<1> QED BY <1>11 DEF sc

\* What a command relies on stays true when the log knows more.
LEMMA StillOK ==
  ASSUME NEW r, NEW K, NEW L, K \subseteq L, ProcOK(r, K) PROVE ProcOK(r, L)
BY DEF ProcOK

\* A step of one command: the others rely on a log that knows as much.
LEMMA OneMoves ==
  ASSUME SessionsInv, NEW p \in Processes, NEW r,
         procs' = [procs EXCEPT ![p] = r],
         SoundLog(slog'), Known(slog) \subseteq Known(slog'), ProcOK(r, Known(slog')),
         trees' \in [Paths -> TreeRecord], left' \in Visits
  PROVE  SessionsInv'
<1>1. procs' = [q \in Processes |-> procs'[q]] BY DEF SessionsInv
<1>2. \A q \in Processes : ProcOK(procs'[q], Known(slog'))
  <2>1. ASSUME NEW q \in Processes PROVE ProcOK(procs'[q], Known(slog'))
    <3>1. CASE q = p BY <3>1 DEF SessionsInv
    <3>2. CASE q # p
      <4>1. procs'[q] = procs[q] BY <3>2 DEF SessionsInv
      <4>2. ProcOK(procs[q], Known(slog)) BY DEF SessionsInv
      <4> QED BY <4>1, <4>2, StillOK
    <3> QED BY <3>1, <3>2
  <2> QED BY <2>1
<1> QED BY <1>1, <1>2 DEF SessionsInv

\* Nothing is relied on by a command that is idle.
LEMMA IdleOK == ASSUME NEW K PROVE ProcOK(Idle, K)
BY DEF ProcOK, Idle

LEMMA StartScanOK ==
  ASSUME SessionsInv, NEW p \in Processes, NEW target, NEW base \in left.bases,
         StartScan(p, target, base)
  PROVE  SessionsInv'
<1> DEFINE r == [at |-> "scanned", target |-> target, scan |-> Scan(base)]
<1>1. base \in Bases /\ left' \in Visits BY DEF SessionsInv, Visits, StartScan
<1>2. ScanOK(Scan(base)) BY <1>1, ScanReads
<1>3. ProcOK(r, Known(slog)) BY <1>2 DEF ProcOK
<1>4. procs' = [procs EXCEPT ![p] = r] /\ trees' = trees /\ slog' = slog BY DEF StartScan
<1> HIDE DEF r
<1> QED BY <1>1, <1>3, <1>4, OneMoves DEF SessionsInv

LEMMA RecordOK ==
  ASSUME SessionsInv, NEW p \in Processes, Record(p) PROVE SessionsInv'
<1> DEFINE sc == procs[p].scan
           hit == {id \in DOMAIN sc.obs : id[1] = procs[p].target}
           h == CHOOSE id \in DOMAIN sc.obs : id[1] = procs[p].target
           r == IF \E id \in DOMAIN sc.obs : id[1] = procs[p].target
                THEN [at |-> "gate", id |-> h, fp |-> sc.obs[h].fp] ELSE Idle
<1>1. ScanOK(sc) /\ SoundLog(slog) BY DEF SessionsInv, ProcOK, Record
<1>2. slog' = Recorded(slog, sc) /\ trees' = trees /\ left' = left BY DEF Record
<1>3. procs' = [procs EXCEPT ![p] = r] BY DEF Record, SessionsInv
<1>4. SoundLog(slog') /\ Known(slog) \subseteq Known(slog') /\ DOMAIN sc.obs \subseteq Known(slog')
  BY <1>1, <1>2, RecordSound
<1>5. ProcOK(r, Known(slog'))
  <2>1. CASE \E id \in DOMAIN sc.obs : id[1] = procs[p].target
    <3>1. h \in DOMAIN sc.obs BY <2>1
    <3>2. r = [at |-> "gate", id |-> h, fp |-> sc.obs[h].fp] BY <2>1
    <3> HIDE DEF h, r, sc
    <3>3. h \in Known(slog') /\ h \in Id /\ sc.obs[h].fp \in FpRecord
      BY <1>1, <1>4, <3>1 DEF ScanOK
    <3> QED BY <3>2, <3>3 DEF ProcOK
  <2>2. CASE ~\E id \in DOMAIN sc.obs : id[1] = procs[p].target BY <2>2, IdleOK
  <2> QED BY <2>1, <2>2
<1> HIDE DEF r
<1> QED BY <1>2, <1>3, <1>4, <1>5, OneMoves DEF SessionsInv

LEMMA RunGateOK ==
  ASSUME SessionsInv, NEW p \in Processes, RunGate(p) PROVE SessionsInv'
<1> DEFINE id == procs[p].id
           t == trees[id[1]]
<1>1. id \in Known(slog) /\ id \in Id /\ procs[p].fp \in FpRecord /\ id[1] \in Paths /\ t \in TreeRecord
  BY DEF SessionsInv, ProcOK, RunGate, Id
<1>2. PICK out \in {0, 1} :
        trees' = [trees EXCEPT ![id[1]].gate = IF t.is = "gone" THEN t.gate ELSE t.gate + out]
  BY <1>1 DEF RunGate, SessionsInv
<1>3. PICK passed \in BOOLEAN :
        procs' = [procs EXCEPT ![p] =
          [at |-> "ran", id |-> id, fp |-> procs[p].fp, passed |-> passed, saw |-> Fingerprint(t)]]
  BY DEF RunGate, SessionsInv
<1>4. trees' \in [Paths -> TreeRecord]
  <2>1. [t EXCEPT !.gate = IF t.is = "gone" THEN t.gate ELSE t.gate + out] \in TreeRecord
    BY <1>1 DEF TreeRecord
  <2>2. trees' = [trees EXCEPT ![id[1]] =
                   [t EXCEPT !.gate = IF t.is = "gone" THEN t.gate ELSE t.gate + out]]
    BY <1>2
  <2> HIDE DEF t, id
  <2> QED BY <1>1, <2>1, <2>2 DEF SessionsInv
<1>5. slog' = slog /\ left' = left BY DEF RunGate
<1> DEFINE r == [at |-> "ran", id |-> id, fp |-> procs[p].fp, passed |-> passed, saw |-> Fingerprint(t)]
<1>6. ProcOK(r, Known(slog)) BY <1>1, PrintOf DEF ProcOK
<1>7. procs' = [procs EXCEPT ![p] = r] BY <1>3
<1> HIDE DEF r
<1> QED BY <1>4, <1>5, <1>6, <1>7, OneMoves DEF SessionsInv

LEMMA ReadAgainOK ==
  ASSUME SessionsInv, NEW p \in Processes, ReadAgain(p) PROVE SessionsInv'
<1> DEFINE s == procs[p]
           t == trees[s.id[1]]
           e == [type |-> "checked", id |-> s.id, fp |-> s.fp,
                 after |-> After(s.fp, Fingerprint(t)), passed |-> s.passed, saw |-> s.saw]
           r == IF t.is \in {"gone", "empty"} THEN Idle ELSE [at |-> "judged", event |-> e]
<1>1. /\ s.id \in Known(slog) /\ s.id \in Id /\ s.fp \in FpRecord /\ s.saw \in FpRecord
      /\ s.passed \in BOOLEAN
  BY DEF SessionsInv, ProcOK, ReadAgain
<1>2. t \in TreeRecord BY <1>1 DEF SessionsInv, Id
<1>3. Fingerprint(t) \in FpRecord BY <1>2, PrintOf
<1>4. /\ After(s.fp, Fingerprint(t)) \in FpRecord \cup {NoPrint}
      /\ \/ After(s.fp, Fingerprint(t)) = NoPrint
         \/ After(s.fp, Fingerprint(t)).tracked = s.fp.tracked
  BY <1>3 DEF After, Tracked
<1>5. procs' = [procs EXCEPT ![p] = r] /\ slog' = slog /\ trees' = trees /\ left' = left
  BY DEF ReadAgain, SessionsInv
<1> HIDE DEF s, t
<1>6. e \in Verdict /\ e.id = s.id BY <1>1, <1>4 DEF Verdict
<1> HIDE DEF e
<1>7. ProcOK(r, Known(slog)) BY <1>1, <1>6, IdleOK DEF ProcOK
<1> HIDE DEF r
<1> QED BY <1>5, <1>7, OneMoves DEF SessionsInv

LEMMA AppendCheckOK ==
  ASSUME SessionsInv, NEW p \in Processes, AppendCheck(p) PROVE SessionsInv'
<1> DEFINE e == procs[p].event
<1>1. e \in Verdict /\ e.id \in Known(slog) /\ SoundLog(slog) BY DEF SessionsInv, ProcOK, AppendCheck
<1>2. slog' = Append(slog, e) /\ procs' = [procs EXCEPT ![p] = Idle] /\ trees' = trees /\ left' = left
  BY DEF AppendCheck
<1> HIDE DEF e
<1>3. SoundLog(slog') /\ Known(slog) \subseteq Known(slog') BY <1>1, <1>2, VerdictSound
<1> QED BY <1>2, <1>3, IdleOK, OneMoves DEF SessionsInv

LEMMA GiveUpOK ==
  ASSUME SessionsInv, NEW p \in Processes, GiveUp(p) PROVE SessionsInv'
<1>1. procs' = [procs EXCEPT ![p] = Idle] /\ slog' = slog /\ trees' = trees /\ left' = left
  BY DEF GiveUp
<1> QED BY <1>1, IdleOK, OneMoves DEF SessionsInv

\* An edit of a worktree leaves the log and the commands as they are.
LEMMA TouchOK ==
  ASSUME SessionsInv, NEW path \in Paths, NEW new \in TreeRecord, Touch(path, new)
  PROVE  SessionsInv'
<1>1. trees' \in [Paths -> TreeRecord] BY DEF Touch, SessionsInv
<1>2. left' \in Visits BY DEF Touch, SessionsInv, Visits
<1>3. slog' = slog /\ procs' = procs BY DEF Touch
<1> QED BY <1>1, <1>2, <1>3 DEF SessionsInv

LEMMA EditOK ==
  ASSUME SessionsInv, NEW path \in Paths,
         EditTracked(path) \/ WriteUntracked(path) \/ RemoveOrAdd(path) \/ Unsettle(path)
  PROVE  SessionsInv'
<1> DEFINE t == trees[path]
<1>1. t \in TreeRecord BY DEF SessionsInv
<1>2. CASE EditTracked(path)
  <2>1. PICK c \in Contents : Touch(path, [t EXCEPT !.tracked = c]) BY <1>2 DEF EditTracked
  <2>2. [t EXCEPT !.tracked = c] \in TreeRecord BY <1>1 DEF TreeRecord
  <2> QED BY <2>1, <2>2, TouchOK
<1>3. CASE WriteUntracked(path)
  <2>1. Touch(path, [t EXCEPT !.agent = t.agent + 1])
    <3>1. [t EXCEPT !.agent = @ + 1] = [t EXCEPT !.agent = t.agent + 1] OBVIOUS
    <3> QED BY <1>3, <3>1 DEF WriteUntracked
  <2>2. [t EXCEPT !.agent = t.agent + 1] \in TreeRecord BY <1>1 DEF TreeRecord
  <2> QED BY <2>1, <2>2, TouchOK
<1>4. CASE RemoveOrAdd(path)
  <2> DEFINE new == IF t.is = "gone" THEN Tree(t.born + 1) ELSE [t EXCEPT !.is = "gone"]
  <2>1. Touch(path, new) BY <1>4 DEF RemoveOrAdd
  <2>2. (CHOOSE c \in Contents : TRUE) \in Contents BY SessionAssumption
  <2>3. Tree(t.born + 1) \in TreeRecord BY <1>1, <2>2 DEF Tree, TreeRecord
  <2>4. [t EXCEPT !.is = "gone"] \in TreeRecord BY <1>1 DEF TreeRecord
  <2>5. new \in TreeRecord BY <2>3, <2>4
  <2> HIDE DEF new
  <2> QED BY <2>1, <2>5, TouchOK
<1>5. CASE Unsettle(path)
  <2>1. PICK how \in {"strange", "empty", "own"} :
          Touch(path, [t EXCEPT !.is = IF t.is = "fine" THEN how ELSE "fine"])
    BY <1>5 DEF Unsettle
  <2>2. [t EXCEPT !.is = IF t.is = "fine" THEN how ELSE "fine"] \in TreeRecord BY <1>1 DEF TreeRecord
  <2> QED BY <2>1, <2>2, TouchOK
<1> QED BY <1>2, <1>3, <1>4, <1>5

LEMMA SessionsStart ==
  ASSUME NEW work \in Visits, SessionsInit(work) PROVE SessionsInv
<1>1. (CHOOSE c \in Contents : TRUE) \in Contents BY SessionAssumption
<1>2. Tree(1) \in TreeRecord BY <1>1 DEF Tree, TreeRecord
<1>3. trees \in [Paths -> TreeRecord] BY <1>2 DEF SessionsInit
<1>4. SoundLog(slog)
  <2>1. slog = <<>> BY DEF SessionsInit
  <2> QED BY <2>1 DEF SoundLog
<1>5. procs = [p \in Processes |-> procs[p]] /\ \A p \in Processes : procs[p] = Idle
  BY DEF SessionsInit
<1> QED BY <1>3, <1>4, <1>5, IdleOK DEF SessionsInv, SessionsInit

\* The log of the sessions is sound in every state, and every command at work holds
\* what its next step relies on.
THEOREM SessionsKept == Spec => []SessionsInv
<1>1. Init => SessionsInv
  <2>1. Resting \in Visits /\ \A work \in Watching : work \in Visits BY VisitAssumption
  <2> QED BY <2>1, SessionsStart DEF Init
<1>2. SessionsInv /\ [Next]_<<wvars, svars>> => SessionsInv'
  <2> SUFFICES ASSUME SessionsInv, [Next]_<<wvars, svars>> PROVE SessionsInv' OBVIOUS
  <2>1. CASE UNCHANGED svars BY <2>1 DEF svars, SessionsInv
  <2>2. CASE SessionsNext
    <3>1. ASSUME NEW p \in Processes, NEW target \in Paths \cup {"all"}, NEW base \in left.bases,
                 StartScan(p, target, base)
          PROVE  SessionsInv'
      BY <3>1, StartScanOK
    <3>2. ASSUME NEW p \in Processes,
                 Record(p) \/ RunGate(p) \/ ReadAgain(p) \/ AppendCheck(p) \/ GiveUp(p)
          PROVE  SessionsInv'
      BY <3>2, RecordOK, RunGateOK, ReadAgainOK, AppendCheckOK, GiveUpOK
    <3> QED BY <2>2, <3>1, <3>2, EditOK DEF SessionsNext
  <2> QED BY <2>1, <2>2 DEF Next
<1> QED BY <1>1, <1>2, PTL DEF Spec

\* Scans that race each other record what changed, once; a session is removed only by
\* a scan that did not find its worktree, and a check is of a session that was observed.
THEOREM RecordsOnce == Spec => []RecordedOnce
<1>1. SessionsInv => RecordedOnce
  <2> SUFFICES ASSUME SessionsInv PROVE RecordedOnce OBVIOUS
  <2>1. /\ slog \in Seq(SLine) /\ Len(slog) \in Nat /\ DOMAIN slog = 1..Len(slog)
        /\ \A j \in DOMAIN slog : LineOK(slog, j) /\ slog[j] \in SLine
    BY DEF SessionsInv, SoundLog
  <2>2. ASSUME NEW j \in DOMAIN slog, slog[j].type = "observed"
        PROVE  /\ slog[j].removed => Earlier(slog, j) # {} /\ ~slog[j].there
               /\ Earlier(slog, j) # {} => Changes(slog[Max(Earlier(slog, j))], slog[j])
    <3>1. slog[j].removed => ~slog[j].there BY <2>1, <2>2 DEF SLine, Sighting, Loss, Verdict
    <3> QED BY <2>1, <2>2, <3>1 DEF LineOK
  <2>3. ASSUME NEW j \in DOMAIN slog, slog[j].type = "checked"
        PROVE  j # 1 /\ slog[j].id \in Known(SubSeq(slog, 1, j - 1))
    <3>1. PICK i \in 1..j - 1 : slog[i].type = "observed" /\ slog[i].id = slog[j].id
      BY <2>1, <2>3 DEF LineOK
    <3>2. j \in 1..Len(slog) /\ j # 1 BY <2>1, <3>1
    <3> DEFINE b == SubSeq(slog, 1, j - 1)
    <3>3. DOMAIN b = 1..j - 1 /\ b[i] = slog[i] BY <2>1, <3>1, <3>2
    <3> HIDE DEF b
    <3>4. slog[j].id \in Known(b) BY <3>1, <3>3 DEF Known
    <3> QED BY <3>2, <3>4 DEF b
  <2> QED BY <2>2, <2>3 DEF RecordedOnce, Earlier, Changes
<1> QED BY <1>1, SessionsKept, PTL

\* A verdict that is not marked stale is the Gate's on the tree observed last, up to
\* the Gate's own output and the two edits that a check cannot see.
THEOREM VerdictsHold == Spec => []VerdictHolds
<1>1. SessionsInv => VerdictHolds
  <2> SUFFICES ASSUME SessionsInv, NEW id \in Known(slog), Checks(slog, id) # {},
                      ~CheckStale(slog, id)
               PROVE  LET c == Check(slog, id)
                          early == Content(c.fp) # Content(c.saw)
                          absorbed == c.after # NoPrint /\ c.after.agent # c.saw.agent
                      IN early \/ absorbed \/ Content(Session(slog, id).fp) = Content(c.saw)
    BY DEF VerdictHolds
  <2> DEFINE c == Check(slog, id)
             fp == Session(slog, id).fp
  <2>1. SoundLog(slog) /\ slog \in Seq(SLine) /\ Len(slog) \in Nat /\ DOMAIN slog = 1..Len(slog)
    BY DEF SessionsInv, SoundLog
  <2>2. Max(Checks(slog, id)) \in Checks(slog, id)
    <3>1. Checks(slog, id) \subseteq 1..Len(slog) BY <2>1 DEF Checks
    <3> QED BY <2>1, <3>1, Greatest
  <2>3. c \in Verdict
    <3>1. c \in SLine /\ c.type = "checked" BY <2>1, <2>2 DEF Check, Checks
    <3> QED BY <3>1 DEF SLine, Sighting, Loss
  <2>4. fp \in FpRecord BY <2>1, SessionIs
  <2>5. fp # NoPrint BY <2>4, SessionAssumption DEF FpRecord, NoPrint
  <2>6. fp = c.fp \/ fp = c.after BY DEF CheckStale
  <2> HIDE DEF c, fp
  <2>7. c.after = NoPrint \/ c.after.tracked = c.fp.tracked BY <2>3 DEF Verdict
  <2>8. \/ Content(c.fp) # Content(c.saw)
        \/ c.after # NoPrint /\ c.after.agent # c.saw.agent
        \/ Content(fp) = Content(c.saw)
    BY <2>5, <2>6, <2>7 DEF Content
  <2> QED BY <2>8 DEF c, fp
<1> QED BY <1>1, SessionsKept, PTL
=============================================================================
