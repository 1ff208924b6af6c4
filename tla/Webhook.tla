------------------------------- MODULE Webhook -------------------------------
(***************************************************************************)
(* The webhook server (src/cmd/aoa/serve.go) and a follower of the log     *)
(* (`aoa events --follow`, src/cmd/aoa/main.go).                           *)
(*                                                                         *)
(* A handler only queues a goal; the one goroutine of the runner takes the *)
(* queue, writes it to the Event Log and then runs the Scheduler, and ends *)
(* when the queue is empty.  The queue is in memory: it dies with the      *)
(* server.  Deliveries come more than once.                                *)
(*                                                                         *)
(* The follower reads the log without its lock, by line offsets here, while *)
(* the runner and other processes append to it, a line may be written in   *)
(* part, and the file may be cut short and put back.                       *)
(***************************************************************************)
EXTENDS Naturals, Sequences, FiniteSets, SequencesExt, FiniteSetsExt

CONSTANTS Request,     \* of each delivery: its checks, and whether it has an id
          Slots        \* for goroutines of the runner's loop

Deliveries == DOMAIN Request

VARIABLES queue, running,   \* the runner's, under its mutex
          loops,       \* by slot: where a loop is, and its batch
          accepted,    \* history: how often a delivery was answered 202
          lost,        \* history: how often what was accepted went with a batch or the server
          log, torn,   \* the Event Log's lines, and a line written in part
          unrun,       \* history: goals the runner wrote that no run has seen
          stray,       \* history: those of them whose batch failed, or whose run did
          tail,        \* the follower
          book, split, \* history: the log had it not been cut, and whether lines
                       \* were written to it while it was short
          quota        \* bounds: of deliveries, failures, appends and cuts

wvars == <<queue, running, loops, accepted, lost, log, torn, unrun, stray, tail, book, split,
          quota>>

Line(by, key) == [by |-> by, key |-> key, cuts |-> quota.cuts]

NoLine == [by |-> "nobody"]

\* The goals of a delivery on the log, or its places in a queue or a batch.
Count(d, s) == Cardinality({i \in DOMAIN s : s[i] = d})
Goals(d, l) == {i \in DOMAIN l : l[i].by = "webhook" /\ l[i].key = d}

-----------------------------------------------------------------------------
(* webhookHandler *)

\* The checks in their order; GitHub delivers again what is not answered 2xx.
Answer(q) ==
  IF ~q.post THEN 405
  ELSE IF ~q.whole THEN 400
  ELSE IF ~q.signed THEN 401
  ELSE IF ~q.comment THEN 200
  ELSE IF ~q.parses THEN 400
  ELSE IF ~q.command \/ ~q.allowed THEN 200
  ELSE 202

Off == [at |-> "off", batch |-> <<>>]

Live == {l \in Slots : loops[l].at # "off"}

\* enqueue starts the loop if it is idle.
Enqueue(d) ==
  /\ queue' = Append(queue, d)
  /\ running' = TRUE
  /\ IF running THEN UNCHANGED loops
     ELSE \E l \in Slots \ Live : loops' = [loops EXCEPT ![l] = [Off EXCEPT !.at = "take"]]

Receive(d) ==
  /\ quota.deliveries > 0 /\ quota' = [quota EXCEPT !.deliveries = @ - 1]
  /\ IF Answer(Request[d]) = 202
     THEN Enqueue(d) /\ accepted' = [accepted EXCEPT ![d] = @ + 1]
     ELSE UNCHANGED <<queue, running, loops, accepted>>
  /\ UNCHANGED <<lost, log, torn, unrun, stray, tail, book, split>>

-----------------------------------------------------------------------------
(* The loop *)

\* Mutant: a loop that ends leaves running as it was.
TakeForgetting(l) ==
  /\ loops[l].at = "take"
  /\ queue' = <<>> /\ running' = running
  /\ loops' = [loops EXCEPT ![l] =
       IF queue = <<>> THEN Off ELSE [at |-> "submit", batch |-> queue]]
  /\ UNCHANGED <<accepted, lost, log, torn, unrun, stray, tail, book, split, quota>>

Take(l) ==
  /\ loops[l].at = "take"
  /\ queue' = <<>>
  /\ running' = IF queue = <<>> THEN FALSE ELSE running
  /\ loops' = [loops EXCEPT ![l] =
       IF queue = <<>> THEN Off ELSE [at |-> "submit", batch |-> queue]]
  /\ UNCHANGED <<accepted, lost, log, torn, unrun, stray, tail, book, split, quota>>

Write(line) ==
  /\ log' = Append(log, line)
  /\ book' = IF log = book THEN log' ELSE book
  /\ split' = (split \/ log # book)

\* A goal's key is its delivery's, if that has one.
Duplicate(d) == Request[d].id /\ Goals(d, log) # {}

\* submitGoal, of the next of the batch, under the log's lock.
SubmitNext(l) ==
  /\ loops[l].at = "submit" /\ loops[l].batch # <<>> /\ torn = NoLine
  /\ LET d == Head(loops[l].batch)
     IN IF Duplicate(d) THEN UNCHANGED <<log, book, split, unrun>>
        ELSE /\ Write(Line("webhook", d))
             /\ unrun' = unrun \cup {Len(log) + 1}
  /\ loops' = [loops EXCEPT ![l].batch = Tail(@)]
  /\ UNCHANGED <<queue, running, accepted, lost, torn, stray, tail, quota>>

Drop(ds) == lost' = [d \in Deliveries |-> lost[d] + Count(d, ds)]

\* The log cannot be opened or written: the rest of the batch is dropped, and
\* there is no run.
SubmitFails(l) ==
  /\ loops[l].at = "submit" /\ loops[l].batch # <<>>
  /\ quota.failures > 0 /\ quota' = [quota EXCEPT !.failures = @ - 1]
  /\ Drop(loops[l].batch) /\ stray' = unrun
  /\ loops' = [loops EXCEPT ![l] = [Off EXCEPT !.at = "take"]]
  /\ UNCHANGED <<queue, running, accepted, log, torn, unrun, tail, book, split>>

Submitted(l) ==
  /\ loops[l].at = "submit" /\ loops[l].batch = <<>>
  /\ loops' = [loops EXCEPT ![l].at = "run"]
  /\ UNCHANGED <<queue, running, accepted, lost, log, torn, unrun, stray, tail, book, split, quota>>

\* cmdRun works on all that is on the log, or fails.
RunOnce(l) ==
  /\ loops[l].at = "run"
  /\ \/ /\ unrun' = {} /\ stray' = {} /\ UNCHANGED quota
     \/ /\ quota.failures > 0 /\ quota' = [quota EXCEPT !.failures = @ - 1]
        /\ stray' = unrun /\ UNCHANGED unrun
  /\ loops' = [loops EXCEPT ![l].at = "take"]
  /\ UNCHANGED <<queue, running, accepted, lost, log, torn, tail, book, split>>

\* The server dies and is started again.
Die ==
  /\ quota.failures > 0 /\ quota' = [quota EXCEPT !.failures = @ - 1]
  /\ lost' = [d \in Deliveries |->
       lost[d] + Count(d, queue) + MapThenSumSet(LAMBDA l : Count(d, loops[l].batch), Live)]
  /\ stray' = unrun
  /\ queue' = <<>> /\ running' = FALSE /\ loops' = [l \in Slots |-> Off]
  /\ UNCHANGED <<accepted, log, torn, unrun, tail, book, split>>

-----------------------------------------------------------------------------
(* The other writers, and the file *)

\* A line may be written in part, and is finished, or taken away by the repair
\* of the next writer.
OtherWrite ==
  /\ torn = NoLine /\ quota.others > 0 /\ quota' = [quota EXCEPT !.others = @ - 1]
  /\ \/ Write(Line("other", "none")) /\ UNCHANGED torn
     \/ torn' = Line("other", "none") /\ UNCHANGED <<log, book, split>>
  /\ UNCHANGED <<queue, running, loops, accepted, lost, unrun, stray, tail>>

OtherFinish ==
  /\ torn # NoLine /\ torn' = NoLine
  /\ Write(torn) \/ UNCHANGED <<log, book, split>>
  /\ UNCHANGED <<queue, running, loops, accepted, lost, unrun, stray, tail, quota>>

\* The file is replaced by an older copy of it, and may be put back.
Cut ==
  /\ torn = NoLine /\ quota.cuts > 0 /\ quota' = [quota EXCEPT !.cuts = @ - 1]
  /\ \E n \in 0..Len(log) : log' = SubSeq(log, 1, n)
  /\ UNCHANGED <<queue, running, loops, accepted, lost, torn, unrun, stray, tail, book, split>>

PutBack ==
  /\ torn = NoLine /\ ~split /\ log' = book
  /\ UNCHANGED <<queue, running, loops, accepted, lost, torn, unrun, stray, tail, book, split, quota>>

-----------------------------------------------------------------------------
(* The follower *)

NoTail == [on |-> FALSE, from |-> 0, last |-> 0, offset |-> 0, out |-> <<>>]

\* A line and its seq.
Printed(l, from, to) == [i \in 1..Max({to - from, 0}) |-> [seq |-> from + i, line |-> l[from + i]]]

\* cmdEvents prints what is there after --since, or the last --count of it, and
\* follows on from everything it has read.
Follow(from) ==
  /\ ~tail.on
  /\ tail' = [on |-> TRUE, from |-> from, last |-> Max({from, Len(log)}), offset |-> 0,
              out |-> Printed(log, from, Len(log))]
  /\ UNCHANGED <<queue, running, loops, accepted, lost, log, torn, unrun, stray, book, split, quota>>

\* ReadFrom: the lines after the offset that are whole.  Once other lines have
\* been written, the offset may not be the start of one.
Shrank(offset) == offset > Len(log) \/ (split /\ offset > 0)

\* Mutant: a line written in part counts as read.
NextOffsetTorn(offset) == Len(log) + IF torn = NoLine THEN 0 ELSE 1

NextOffset(offset) == Len(log)

\* What is handed over is after the last seq that was.
Poll ==
  /\ tail.on /\ tail.offset <= Len(log)
  /\ tail' = [tail EXCEPT !.offset = NextOffset(@), !.last = Max({@, Len(log)}),
                          !.out = @ \o Printed(log, Max({tail.last, tail.offset}), Len(log))]
  /\ UNCHANGED <<queue, running, loops, accepted, lost, log, torn, unrun, stray, book, split, quota>>

\* ErrLogShrank: it is read again from the start.
StartOver ==
  /\ tail.on /\ Shrank(tail.offset) /\ tail' = [tail EXCEPT !.offset = 0]
  /\ UNCHANGED <<queue, running, loops, accepted, lost, log, torn, unrun, stray, book, split, quota>>

WebhookInit(work) ==
  /\ queue = <<>> /\ running = FALSE /\ loops = [l \in Slots |-> Off]
  /\ accepted = [d \in Deliveries |-> 0] /\ lost = accepted
  /\ log = <<>> /\ torn = NoLine /\ unrun = {} /\ stray = {}
  /\ tail = NoTail /\ book = <<>> /\ split = FALSE
  /\ quota = work

WebhookNext ==
  \/ \E d \in Deliveries : Receive(d)
  \/ \E l \in Slots :
       Take(l) \/ SubmitNext(l) \/ SubmitFails(l) \/ Submitted(l) \/ RunOnce(l)
  \/ Die \/ OtherWrite \/ OtherFinish \/ Cut \/ PutBack
  \/ \E from \in quota.from : Follow(from)
  \/ Poll \/ StartOver

-----------------------------------------------------------------------------
(* Properties *)

\* The runner is one: two deliveries never drive two runs.  Nothing that was
\* answered 202 is forgotten: it waits, with a loop at work that will take it, or
\* is on the log, but for what went with a failed batch or the server; a delivery
\* with an id is one goal however often it comes, and one without is a goal each
\* time.  That holds too while the file is cut short, of the log it had, as long
\* as no lines were written to the short file.  A goal the runner wrote is about
\* to be run, but for those of a batch that failed in the middle, or whose run did.
NothingForgotten ==
  /\ Cardinality(Live) <= 1
  /\ queue # <<>> => Live # {}
  /\ \A i \in unrun \ stray : \E l \in Live : loops[l].at \in {"submit", "run"}
  /\ \A d \in Deliveries :
       LET goals == Cardinality(Goals(d, book))
           waiting == Count(d, queue) + MapThenSumSet(LAMBDA l : Count(d, loops[l].batch), Live)
       IN ~split =>
            IF Request[d].id
            THEN goals <= 1 /\ (accepted[d] > lost[d] => goals + waiting > 0)
            ELSE goals + waiting + lost[d] = accepted[d]

\* The follower prints the log after where it began, each line once and in
\* order, whatever is appended, torn or repaired meanwhile, and also when the file
\* is cut short and put back; and what it has read to the end it has printed.
\* If other lines were written to the short file, it still repeats no seq.
FollowedExactly ==
  /\ \A i \in 1..Len(tail.out) - 1 : tail.out[i].seq < tail.out[i + 1].seq
  /\ tail.on /\ ~split =>
       /\ \A i \in DOMAIN tail.out : tail.out[i] = [seq |-> tail.from + i, line |-> book[tail.from + i]]
       /\ tail.offset = Len(book) => tail.from + Len(tail.out) >= Len(book)
=============================================================================
