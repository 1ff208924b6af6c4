-------------------------------- MODULE Ledger --------------------------------
(***************************************************************************)
(* The durable event log of src/internal/ledger/ledger.go: one JSONL file, *)
(* written by the threads (goroutines) of several handles (a Ledger value, *)
(* one per process), each write under the handle's mutex and under an      *)
(* exclusive lock on a sidecar file, and read by lock-free readers.        *)
(*                                                                         *)
(* The file is abstracted to its complete lines and its tail.  A line is   *)
(* two pieces of bytes, its text and its newline, so that a write can be   *)
(* seen, or cut short by an error or a crash, at and inside every line.    *)
(* Text written behind a torn tail is glued to it, and the line they make  *)
(* does not parse (Corrupt).                                               *)
(***************************************************************************)
EXTENDS Naturals, Sequences, FiniteSets

CONSTANTS Key,         \* the events writers want on the log
          NoKey,       \* what a line that does not parse holds
          Handle,      \* the Ledger values, each in a process of its own
          Thread,      \* the goroutines that append
          HandleOf,    \* the handle each thread uses
          NoThread,    \* nobody holds the lock
          Op,          \* the calls a thread can make
          MaxOps,      \* bound: calls made
          MaxFaults    \* bound: failed calls to the operating system and crashes

ASSUME LedgerAssumption ==
  /\ NoKey \notin Key
  /\ NoThread \notin Thread
  /\ HandleOf \in [Thread -> Handle]
  /\ Op \subseteq [kind : {"Append", "Update"}, keys : SUBSET Key]
  /\ \A o \in Op : IsFiniteSet(o.keys)
  /\ MaxOps \in Nat
  /\ MaxFaults \in Nat

VARIABLES lines,    \* the complete lines of the file
          tail,     \* the bytes past the last newline: none, a piece of one
                    \* line, or pieces of two lines glued together
          open,     \* the handles that are open
          size,     \* Ledger.size, in lines: what a handle has accounted for
          nextSeq,  \* Ledger.nextSeq of each handle
          mu,       \* Ledger.mu of each handle
          flock,    \* the thread that holds the lock on the sidecar file
          pc,       \* where each thread is
          op,       \* the call each thread is in
          buf,      \* the events a thread's write has not yet put in the file
          stored,   \* the events a thread's write was given
          acked,    \* history: the events returned to callers
          hooked,   \* the events each handle's append hook has seen
          offset,   \* a lock-free reader's offset, in lines (ReadFrom)
          seen,     \* history: what that reader was given
          ops, faults

fileVars   == <<lines, tail>>
handleVars == <<open, size, nextSeq>>
threadVars == <<op, buf, stored>>
readerVars == <<offset, seen>>
vars == <<fileVars, handleVars, mu, flock, pc, threadVars, acked, hooked,
          readerVars, ops, faults>>

Event   == [key : Key, seq : Nat]
Corrupt == [key |-> NoKey, seq |-> 0]
NoOp    == [kind |-> "none", keys |-> {}]
Locked  == {"sync", "decide", "write", "close", "unlock", "fail"}
Label   == {"idle", "mu", "lock", "sync", "decide", "write", "close", "unlock",
            "fail", "notify"}

-----------------------------------------------------------------------------
(* What the code reads from the file *)

\* Mutant: the bytes of a torn tail cost the last whole line too.
ValidLenOneShort(ls, tl) == IF tl # "none" /\ Len(ls) > 0 THEN Len(ls) - 1 ELSE Len(ls)

\* Mutant: a handle that has read the log once trusts what it knows.
UpToDateOnceKnown(known) == known > 0

\* scanLines: the length of the prefix of ls that parses.  A line that does
\* not parse ends it if no byte follows (it counts as a torn tail) and is an
\* error otherwise.
BadLines(ls) == {i \in DOMAIN ls : ls[i] = Corrupt}

ScanFails(ls, tl, from) ==
  \/ from > Len(ls)
  \/ \E i \in BadLines(ls) : i > from /\ (i < Len(ls) \/ tl # "none")

ValidLen(ls, tl) ==
  IF Len(ls) > 0 /\ ls[Len(ls)] = Corrupt /\ tl = "none" THEN Len(ls) - 1 ELSE Len(ls)

\* nextSeq after scanning from a given offset: unchanged if nothing was new.
SeqAfter(ls, valid, from, old) == IF valid > from THEN ls[valid].seq + 1 ELSE old

\* sync of a handle that knows `known` lines and `next`: nothing to do if the
\* size is the one it knows; otherwise only the new bytes are parsed, or all
\* of them if the file shrank or they do not parse.
UpToDate(known) == tail = "none" /\ Len(lines) = known

ScanStart(known) ==
  IF Len(lines) < known \/ ScanFails(lines, tail, known) THEN 0 ELSE known

SyncFails(known) == ~UpToDate(known) /\ ScanFails(lines, tail, ScanStart(known))

Sync(h) ==
  IF UpToDate(size[h]) THEN UNCHANGED <<fileVars, size, nextSeq>>
  ELSE LET from  == ScanStart(size[h])
           valid == ValidLen(lines, tail)
           old   == IF from = size[h] THEN nextSeq[h] ELSE 1
       IN /\ lines' = SubSeq(lines, 1, valid)
          /\ tail' = "none"
          /\ size' = [size EXCEPT ![h] = valid]
          /\ nextSeq' = [nextSeq EXCEPT ![h] = SeqAfter(lines, valid, from, old)]

-----------------------------------------------------------------------------
Init ==
  /\ lines = <<>> /\ tail = "none"
  /\ open = {}
  /\ size = [h \in Handle |-> 0]
  /\ nextSeq = [h \in Handle |-> 1]
  /\ mu = [h \in Handle |-> NoThread]
  /\ flock = NoThread
  /\ pc = [t \in Thread |-> "idle"]
  /\ op = [t \in Thread |-> NoOp]
  /\ buf = [t \in Thread |-> <<>>]
  /\ stored = [t \in Thread |-> <<>>]
  /\ acked = {}
  /\ hooked = [h \in Handle |-> <<>>]
  /\ offset = 0 /\ seen = <<>>
  /\ ops = 0 /\ faults = 0

\* Open: sync a new handle under the file lock.
Open(h) ==
  /\ h \notin open
  /\ flock = NoThread
  /\ ~SyncFails(size[h])
  /\ Sync(h)
  /\ open' = open \union {h}
  /\ UNCHANGED <<mu, flock, pc, threadVars, acked, hooked, readerVars, ops, faults>>

\* Open when the lock file cannot be created: scan without repairing the tail,
\* even while another process is writing.
OpenUnlocked(h) ==
  /\ h \notin open
  /\ faults < MaxFaults
  /\ ~ScanFails(lines, tail, 0)
  /\ LET valid == ValidLen(lines, tail)
     IN /\ size' = [size EXCEPT ![h] = valid]
        /\ nextSeq' = [nextSeq EXCEPT ![h] = SeqAfter(lines, valid, 0, 1)]
  /\ open' = open \union {h}
  /\ faults' = faults + 1
  /\ UNCHANGED <<fileVars, mu, flock, pc, threadVars, acked, hooked, readerVars, ops>>

Goto(t, from, to) == pc[t] = from /\ pc' = [pc EXCEPT ![t] = to]

\* A thread calls Append or Update.
Call(t, o) ==
  /\ HandleOf[t] \in open
  /\ ops < MaxOps
  /\ Goto(t, "idle", "mu")
  /\ op' = [op EXCEPT ![t] = o]
  /\ ops' = ops + 1
  /\ UNCHANGED <<fileVars, handleVars, mu, flock, buf, stored, acked, hooked,
                 readerVars, faults>>

LockMu(t) ==
  /\ mu[HandleOf[t]] = NoThread
  /\ Goto(t, "mu", "lock")
  /\ mu' = [mu EXCEPT ![HandleOf[t]] = t]
  /\ UNCHANGED <<fileVars, handleVars, flock, threadVars, acked, hooked,
                 readerVars, ops, faults>>

\* withLock takes the file lock ...
LockFile(t) ==
  /\ flock = NoThread
  /\ Goto(t, "lock", "sync")
  /\ flock' = t
  /\ UNCHANGED <<fileVars, handleVars, mu, threadVars, acked, hooked,
                 readerVars, ops, faults>>

\* ... or fails to, and the call returns the error.
LockFileFails(t) ==
  /\ faults < MaxFaults
  /\ Goto(t, "lock", "idle")
  /\ mu' = [mu EXCEPT ![HandleOf[t]] = NoThread]
  /\ op' = [op EXCEPT ![t] = NoOp]
  /\ faults' = faults + 1
  /\ UNCHANGED <<fileVars, handleVars, flock, buf, stored, acked, hooked,
                 readerVars, ops>>

SyncLog(t) ==
  LET h == HandleOf[t]
  IN /\ pc[t] = "sync"
     /\ \/ /\ SyncFails(size[h])
           /\ pc' = [pc EXCEPT ![t] = "fail"]
           /\ UNCHANGED <<fileVars, size, nextSeq>>
        \/ /\ ~SyncFails(size[h])
           /\ pc' = [pc EXCEPT ![t] = "decide"]
           /\ Sync(h)
     /\ UNCHANGED <<open, mu, flock, threadVars, acked, hooked, readerVars, ops, faults>>

\* What is to be appended: Append's event, whatever the log holds; for Update,
\* what decide returns for the log it was shown.  Every caller's decide drops
\* what the log already says (submitGoal, recordSessions).
OnLog(k) == \E i \in DOMAIN lines : lines[i].key = k

\* Mutant: the events are appended whatever the log holds.
DecideUnchecked(o) == o.keys

Decide(o) == IF o.kind = "Append" THEN o.keys ELSE {k \in o.keys : ~OnLog(k)}

\* The orders in which a caller can list the events of one write.
Orders(S) == {f \in [1..Cardinality(S) -> S] : \A i, j \in DOMAIN f : f[i] = f[j] => i = j}

\* write: consecutive numbers from nextSeq, in one buffer.
Numbered(keys, first) == [i \in DOMAIN keys |-> [key |-> keys[i], seq |-> first + i - 1]]

PrepareWrite(t) ==
  /\ \E keys \in Orders(Decide(op[t])) :
       LET evs == Numbered(keys, nextSeq[HandleOf[t]])
       IN /\ buf' = [buf EXCEPT ![t] = evs]
          /\ stored' = [stored EXCEPT ![t] = evs]
  /\ Goto(t, "decide", IF Decide(op[t]) = {} THEN "unlock" ELSE "write")
  /\ UNCHANGED <<fileVars, handleVars, mu, flock, op, acked, hooked,
                 readerVars, ops, faults>>

\* decide returns an error: nothing is appended.
DecideFails(t) ==
  /\ op[t].kind = "Update"
  /\ faults < MaxFaults
  /\ Goto(t, "decide", "fail")
  /\ faults' = faults + 1
  /\ UNCHANGED <<fileVars, handleVars, mu, flock, threadVars, acked, hooked,
                 readerVars, ops>>

\* The bytes of the buffer reach the file piece by piece: a line's text ...
WriteText(t) ==
  /\ pc[t] = "write"
  /\ tail' = IF tail = "none" THEN "part" ELSE "glued"
  /\ pc' = [pc EXCEPT ![t] = "close"]
  /\ UNCHANGED <<lines, handleVars, mu, flock, threadVars, acked, hooked,
                 readerVars, ops, faults>>

\* ... and its newline, which makes it a line.
WriteNewline(t) ==
  LET h == HandleOf[t]
  IN /\ pc[t] = "close"
     /\ lines' = Append(lines, IF tail = "part" THEN Head(buf[t]) ELSE Corrupt)
     /\ tail' = "none"
     /\ buf' = [buf EXCEPT ![t] = Tail(@)]
     /\ IF Tail(buf[t]) # <<>>
        THEN /\ pc' = [pc EXCEPT ![t] = "write"]
             /\ UNCHANGED <<size, nextSeq>>
        ELSE /\ pc' = [pc EXCEPT ![t] = "unlock"]
             /\ size' = [size EXCEPT ![h] = @ + Len(stored[t])]
             /\ nextSeq' = [nextSeq EXCEPT ![h] = @ + Len(stored[t])]
     /\ UNCHANGED <<open, mu, flock, op, stored, acked, hooked, readerVars, ops, faults>>

\* appendLine fails, wherever the write was: the handle forgets what it knows.
\* A failed open or close of the file is the same, before the first byte or
\* after the last.
WriteFails(t) ==
  LET h == HandleOf[t]
  IN /\ pc[t] \in {"write", "close"} \/ (pc[t] = "unlock" /\ stored[t] # <<>>)
     /\ faults < MaxFaults
     /\ pc' = [pc EXCEPT ![t] = "fail"]
     /\ size' = [size EXCEPT ![h] = 0]
     /\ nextSeq' = [nextSeq EXCEPT ![h] = 1]
     /\ faults' = faults + 1
     /\ UNCHANGED <<fileVars, open, mu, flock, threadVars, acked, hooked, readerVars, ops>>

\* Mutant: both locks are released before the hook runs.
UnlockBoth(t) ==
  /\ Goto(t, "unlock", "notify")
  /\ flock' = NoThread
  /\ mu' = [mu EXCEPT ![HandleOf[t]] = NoThread]
  /\ UNCHANGED <<fileVars, handleVars, threadVars, acked, hooked, readerVars, ops, faults>>

\* Mutant: an error path that keeps the mutex.
ReturnErrorKeepingMu(t) ==
  /\ Goto(t, "fail", "idle")
  /\ flock' = NoThread
  /\ op' = [op EXCEPT ![t] = NoOp]
  /\ buf' = [buf EXCEPT ![t] = <<>>]
  /\ stored' = [stored EXCEPT ![t] = <<>>]
  /\ UNCHANGED <<fileVars, handleVars, mu, acked, hooked, readerVars, ops, faults>>

\* The file lock is released; a call that failed returns its error.
Unlock(t) ==
  /\ Goto(t, "unlock", "notify")
  /\ flock' = NoThread
  /\ UNCHANGED <<fileVars, handleVars, mu, threadVars, acked, hooked,
                 readerVars, ops, faults>>

ReturnError(t) ==
  /\ Goto(t, "fail", "idle")
  /\ flock' = NoThread
  /\ mu' = [mu EXCEPT ![HandleOf[t]] = NoThread]
  /\ op' = [op EXCEPT ![t] = NoOp]
  /\ buf' = [buf EXCEPT ![t] = <<>>]
  /\ stored' = [stored EXCEPT ![t] = <<>>]
  /\ UNCHANGED <<fileVars, handleVars, acked, hooked, readerVars, ops, faults>>

\* notify runs the append hook, still under mu, and the call returns.
Notify(t) ==
  LET h == HandleOf[t]
  IN /\ Goto(t, "notify", "idle")
     /\ hooked' = [hooked EXCEPT ![h] = @ \o stored[t]]
     /\ acked' = acked \union {stored[t][i] : i \in DOMAIN stored[t]}
     /\ mu' = [mu EXCEPT ![h] = NoThread]
     /\ op' = [op EXCEPT ![t] = NoOp]
     /\ stored' = [stored EXCEPT ![t] = <<>>]
     /\ UNCHANGED <<fileVars, handleVars, flock, buf, readerVars, ops, faults>>

\* A process dies: its handle, its mutex and the locks it holds go with it,
\* and whatever part of a write it was in stays in the file.
Crash(h) ==
  LET Dead == {t \in Thread : HandleOf[t] = h}
  IN /\ h \in open
     /\ faults < MaxFaults
     /\ open' = open \ {h}
     /\ size' = [size EXCEPT ![h] = 0]
     /\ nextSeq' = [nextSeq EXCEPT ![h] = 1]
     /\ mu' = [mu EXCEPT ![h] = NoThread]
     /\ flock' = IF flock \in Dead THEN NoThread ELSE flock
     /\ pc' = [t \in Thread |-> IF t \in Dead THEN "idle" ELSE pc[t]]
     /\ op' = [t \in Thread |-> IF t \in Dead THEN NoOp ELSE op[t]]
     /\ buf' = [t \in Thread |-> IF t \in Dead THEN <<>> ELSE buf[t]]
     /\ stored' = [t \in Thread |-> IF t \in Dead THEN <<>> ELSE stored[t]]
     /\ hooked' = [hooked EXCEPT ![h] = <<>>]
     /\ faults' = faults + 1
     /\ UNCHANGED <<fileVars, acked, readerVars, ops>>

\* Mutant: the reader starts on the last line it was given.
ReadFromOverlap ==
  /\ ~ScanFails(lines, tail, offset)
  /\ offset' = ValidLen(lines, tail)
  /\ seen' = seen \o SubSeq(lines, IF offset = 0 THEN 1 ELSE offset, ValidLen(lines, tail))
  /\ UNCHANGED <<fileVars, handleVars, mu, flock, pc, threadVars, acked, hooked, ops, faults>>

\* ReadFrom by a reader that takes no lock: the lines from its offset on, and
\* the offset just past them.  ErrLogShrank (the offset is past the end) makes
\* it start again from 0; any other error leaves it where it is.
ReadFrom ==
  /\ \/ /\ offset > Len(lines)
        /\ offset' = 0 /\ seen' = <<>>
     \/ /\ ~ScanFails(lines, tail, offset)
        /\ offset' = ValidLen(lines, tail)
        /\ seen' = seen \o SubSeq(lines, offset + 1, ValidLen(lines, tail))
  /\ UNCHANGED <<fileVars, handleVars, mu, flock, pc, threadVars, acked, hooked, ops, faults>>

Step(t) ==
  \/ LockMu(t) \/ LockFile(t) \/ SyncLog(t) \/ PrepareWrite(t) \/ WriteText(t)
  \/ WriteNewline(t) \/ Unlock(t) \/ ReturnError(t) \/ Notify(t)

Fault(t) == LockFileFails(t) \/ DecideFails(t) \/ WriteFails(t)

Next ==
  \/ \E t \in Thread : Step(t) \/ Fault(t) \/ \E o \in Op : Call(t, o)
  \/ \E h \in Handle : Open(h) \/ OpenUnlocked(h) \/ Crash(h)
  \/ ReadFrom

Spec == Init /\ [][Next]_vars

\* A goroutine that can run does run; nobody is obliged to make a call, to
\* fail, to restart or to read.
Fairness == \A t \in Thread : WF_vars(Step(t))

FairSpec == Spec /\ Fairness

-----------------------------------------------------------------------------
(* Properties *)

\* The types.  That every line is an event, and that a tail is a piece of one
\* line only, already needs the repair of torn tails: no write is ever glued to
\* what a dead writer left.
TypeOK ==
  /\ lines \in Seq(Event)
  /\ tail \in {"none", "part"}
  /\ open \subseteq Handle
  /\ size \in [Handle -> Nat]
  /\ nextSeq \in [Handle -> Nat]
  /\ mu \in [Handle -> Thread \union {NoThread}]
  /\ flock \in Thread \union {NoThread}
  /\ pc \in [Thread -> Label]
  /\ op \in [Thread -> Op \union {NoOp}]
  /\ buf \in [Thread -> Seq(Event)]
  /\ stored \in [Thread -> Seq(Event)]
  /\ acked \subseteq Event
  /\ hooked \in [Handle -> Seq(Event)]
  /\ offset \in Nat
  /\ seen \in Seq(Event)
  /\ ops \in 0..MaxOps
  /\ faults \in 0..MaxFaults

\* The sequence numbers of the log are 1, 2, 3, ... (ledger.go 30-32: "so
\* sequence numbers stay gapless and a writer's half-written line is never
\* mistaken for a crash"), with any number of writers and after any crash.
\* A corrupt line counts as a gap: its number is 0.
GaplessSeq == \A i \in DOMAIN lines : lines[i].seq = i

\* An event that Append or Update returned is on the log at the place its
\* number says, for ever: no later repair of a torn tail removes it.
AckedDurable == \A e \in acked : e.seq \in DOMAIN lines /\ lines[e.seq] = e

\* Update's check still holds when its events land (ledger.go 126-129): a key
\* that is only appended after a check that it is new is on the log once,
\* whoever else retries it, and whichever of those calls failed half way.
Checked(k) == \A o \in Op : o.kind = "Append" => k \notin o.keys

KeyAppendedOnce ==
  \A i, j \in DOMAIN lines :
    lines[i].key = lines[j].key /\ Checked(lines[i].key) => i = j

\* A lock-free reader is never given a line that is later taken back, nor the
\* same line twice, nor half a line (ledger.go 332-338).
ReaderSeesPrefix == offset <= Len(lines) /\ seen = SubSeq(lines, 1, offset)

\* The append hook sees the events of its handle in sequence order (ledger.go
\* 46-51), though it runs after the file lock is released.
HookInOrder ==
  \A h \in Handle : \A i, j \in DOMAIN hooked[h] : i < j => hooked[h][i].seq < hooked[h][j].seq

\* What a step may do to the log is what EventLog allows: add one event, with
\* the next number, at the end.
Abstract == INSTANCE EventLog WITH log <- lines

ImplementsEventLog == Abstract!Spec

\* Every call returns, with a result or an error: no order of taking mu and the
\* file lock leaves the writers waiting on each other.
CallsReturn == \A t \in Thread : (pc[t] # "idle") ~> (pc[t] = "idle")

-----------------------------------------------------------------------------
(* The inductive invariant of LedgerProofs *)

\* Only threads of open handles are in a call, and the locks are held by
\* exactly the threads whose code says so.
LocksHeld ==
  \A t \in Thread :
    /\ pc[t] # "idle" => HandleOf[t] \in open
    /\ pc[t] \in Locked <=> flock = t
    /\ pc[t] \in Locked \union {"lock", "notify"} <=> mu[HandleOf[t]] = t

\* What a handle remembers of the log is a prefix of it.
KnowsPrefix == \A h \in Handle : size[h] <= Len(lines) /\ nextSeq[h] = size[h] + 1

\* How many events of its buffer a writer has put on the log.
Written(t) == Len(stored[t]) - Len(buf[t])

\* A thread past sync knows the whole log, but for what it wrote itself, and
\* its events carry the numbers that come next.
AtEnd(t) ==
  /\ pc[t] \in {"decide", "unlock"} => tail = "none" /\ size[HandleOf[t]] = Len(lines)
  /\ pc[t] \in {"write", "close"} =>
       /\ tail = IF pc[t] = "write" THEN "none" ELSE "part"
       /\ buf[t] # <<>>
       /\ Len(buf[t]) <= Len(stored[t])
       /\ Len(lines) = size[HandleOf[t]] + Written(t)
       /\ \A i \in DOMAIN buf[t] : buf[t][i] = stored[t][Written(t) + i]
       /\ \A i \in DOMAIN stored[t] : stored[t][i].seq = size[HandleOf[t]] + i

\* What a writer has written is on the log.
StoredOnLog(t) ==
  /\ pc[t] \in {"write", "close"} =>
       \A i \in 1..Written(t) : lines[size[HandleOf[t]] + i] = stored[t][i]
  /\ pc[t] \in {"unlock", "notify"} =>
       \A i \in DOMAIN stored[t] :
         stored[t][i].seq \in DOMAIN lines /\ lines[stored[t][i].seq] = stored[t][i]

WriterInv == \A t \in Thread : AtEnd(t) /\ StoredOnLog(t)

IInv ==
  /\ TypeOK /\ GaplessSeq /\ AckedDurable
  /\ LocksHeld /\ KnowsPrefix /\ WriterInv
=============================================================================
