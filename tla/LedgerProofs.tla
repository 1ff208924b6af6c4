----------------------------- MODULE LedgerProofs -----------------------------
(***************************************************************************)
(* The event log is gapless and durable for any number of processes,       *)
(* threads, calls, crashes and failed writes, and it implements EventLog.  *)
(***************************************************************************)
EXTENDS Ledger, FiniteSetTheorems, SequenceTheorems, TLAPS

-----------------------------------------------------------------------------
(* What sync does to a log that is as the invariant says *)

\* A gapless log has no corrupt line, so a scan from inside it succeeds and
\* keeps every line.
LEMMA ScanWhole ==
  ASSUME IInv, NEW from \in Nat, from <= Len(lines)
  PROVE  /\ ~ScanFails(lines, tail, from)
         /\ ValidLen(lines, tail) = Len(lines)
<1>1. lines \in Seq(Event) /\ Len(lines) \in Nat /\ DOMAIN lines = 1..Len(lines)
  BY DEF IInv, TypeOK
<1>2. \A i \in DOMAIN lines : lines[i].seq = i /\ i # 0
  BY <1>1 DEF IInv, GaplessSeq
<1>3. \A i \in DOMAIN lines : lines[i] # Corrupt
  BY <1>2 DEF Corrupt
<1>4. BadLines(lines) = {}
  BY <1>3 DEF BadLines
<1>5. ~ScanFails(lines, tail, from)
  BY <1>1, <1>4 DEF ScanFails
<1>6. ValidLen(lines, tail) = Len(lines)
  <2>1. Len(lines) > 0 => Len(lines) \in DOMAIN lines
    BY <1>1
  <2>2. ~(Len(lines) > 0 /\ lines[Len(lines)] = Corrupt /\ tail = "none")
    BY <2>1, <1>3
  <2> QED
    BY <2>2, Zenon DEF ValidLen
<1> QED
  BY <1>5, <1>6

\* sync leaves the lines alone, drops a torn tail, and ends up knowing it all.
LEMMA SyncExact ==
  ASSUME IInv, NEW h \in Handle, Sync(h)
  PROVE  /\ lines' = lines
         /\ tail' = "none"
         /\ size' = [size EXCEPT ![h] = Len(lines)]
         /\ nextSeq' = [nextSeq EXCEPT ![h] = Len(lines) + 1]
<1>1. /\ lines \in Seq(Event) /\ Len(lines) \in Nat
      /\ size \in [Handle -> Nat] /\ nextSeq \in [Handle -> Nat]
      /\ size[h] <= Len(lines) /\ nextSeq[h] = size[h] + 1
  BY DEF IInv, TypeOK, KnowsPrefix
<1>2. CASE UpToDate(size[h])
  <2>1. UNCHANGED <<lines, tail, size, nextSeq>> /\ tail = "none" /\ size[h] = Len(lines)
    BY <1>2, <1>1 DEF Sync, fileVars, UpToDate
  <2> QED
    BY <2>1, <1>1
<1>3. CASE ~UpToDate(size[h])
  <2>1. ~ScanFails(lines, tail, size[h]) /\ ValidLen(lines, tail) = Len(lines)
    BY <1>1, ScanWhole
  <2>2. ScanStart(size[h]) = size[h]
    BY <2>1, <1>1 DEF ScanStart
  <2>3. /\ lines' = SubSeq(lines, 1, Len(lines))
        /\ tail' = "none"
        /\ size' = [size EXCEPT ![h] = Len(lines)]
        /\ nextSeq' = [nextSeq EXCEPT ![h] = SeqAfter(lines, Len(lines), size[h], nextSeq[h])]
    BY <1>3, <2>1, <2>2 DEF Sync
  <2>4. SubSeq(lines, 1, Len(lines)) = lines
    BY <1>1
  <2>5. SeqAfter(lines, Len(lines), size[h], nextSeq[h]) = Len(lines) + 1
    <3>1. CASE Len(lines) > size[h]
      <4>1. lines[Len(lines)].seq = Len(lines)
        BY <3>1, <1>1 DEF IInv, GaplessSeq
      <4> QED
        BY <3>1, <4>1 DEF SeqAfter
    <3>2. CASE ~(Len(lines) > size[h])
      BY <3>2, <1>1 DEF SeqAfter
    <3> QED
      BY <3>1, <3>2
  <2> QED
    BY <2>3, <2>4, <2>5
<1> QED
  BY <1>2, <1>3

\* The events of one write are numbered from nextSeq on.
LEMMA NumberedType ==
  ASSUME NEW S, IsFiniteSet(S), S \subseteq Key, NEW keys \in Orders(S), NEW n \in Nat \ {0}
  PROVE  /\ Numbered(keys, n) \in Seq(Event)
         /\ Len(Numbered(keys, n)) = Cardinality(S)
         /\ \A i \in DOMAIN Numbered(keys, n) : Numbered(keys, n)[i].seq = n + i - 1
         /\ S = {} <=> Numbered(keys, n) = <<>>
<1>1. Cardinality(S) \in Nat /\ (Cardinality(S) = 0 <=> S = {})
  BY FS_CardinalityType, FS_EmptySet
<1>2. keys \in [1..Cardinality(S) -> S]
  BY DEF Orders
<1>3. \A i \in 1..Cardinality(S) : [key |-> keys[i], seq |-> n + i - 1] \in Event
  BY <1>1, <1>2 DEF Event
<1>4. Numbered(keys, n) \in [1..Cardinality(S) -> Event]
  BY <1>2, <1>3 DEF Numbered
<1>5. Numbered(keys, n) \in Seq(Event) /\ Len(Numbered(keys, n)) = Cardinality(S)
  BY <1>4, <1>1
<1>6. \A i \in DOMAIN Numbered(keys, n) : Numbered(keys, n)[i].seq = n + i - 1
  BY <1>2 DEF Numbered
<1>7. S = {} <=> Numbered(keys, n) = <<>>
  BY <1>1, <1>5
<1> QED
  BY <1>5, <1>6, <1>7

-----------------------------------------------------------------------------
(* What a step leaves alone *)

\* Appending keeps every line where it is and puts the new one last.
LEMMA AppendKeeps ==
  ASSUME NEW s \in Seq(Event), NEW e \in Event
  PROVE  /\ Append(s, e) \in Seq(Event)
         /\ Len(Append(s, e)) = Len(s) + 1
         /\ DOMAIN Append(s, e) = 1..(Len(s) + 1)
         /\ \A i \in DOMAIN s : i \in DOMAIN Append(s, e) /\ Append(s, e)[i] = s[i]
         /\ Append(s, e)[Len(s) + 1] = e
OBVIOUS

\* A place in what is left of a buffer.
LEMMA Difference ==
  ASSUME NEW a \in Nat, NEW b \in Nat, 1 <= b, b <= a
  PROVE  a - b \in Nat /\ (a - b) + 1 \in 1..a
OBVIOUS

\* What is left of a buffer when its first line is written.
LEMMA TailFacts ==
  ASSUME NEW s \in Seq(Event), s # <<>>
  PROVE  /\ Len(s) \in Nat /\ Len(s) >= 1 /\ Head(s) = s[1] /\ Head(s) \in Event
         /\ Tail(s) \in Seq(Event) /\ Len(Tail(s)) = Len(s) - 1
         /\ Tail(s) = <<>> <=> Len(s) = 1
         /\ \A i \in DOMAIN Tail(s) : i \in Nat /\ i + 1 \in DOMAIN s /\ Tail(s)[i] = s[i + 1]
<1>1. Len(s) \in Nat /\ Len(s) >= 1 /\ Head(s) = s[1] /\ Head(s) \in Event
  OBVIOUS
<1>2. Tail(s) \in Seq(Event) /\ Len(Tail(s)) = Len(s) - 1
  BY <1>1
<1>3. Tail(s) = <<>> <=> Len(s) = 1
  BY <1>1, <1>2
<1>4. ASSUME NEW i \in DOMAIN Tail(s)
      PROVE  i \in Nat /\ i + 1 \in DOMAIN s /\ Tail(s)[i] = s[i + 1]
  BY <1>1, <1>2
<1> QED
  BY <1>1, <1>2, <1>3, <1>4

\* What both locks look like to each thread after t moves from one label to
\* another and a lock changes hands.
LEMMA LocksFrame ==
  ASSUME IInv, NEW t \in Thread, NEW l \in Label,
         pc' = [pc EXCEPT ![t] = l],
         open' = open, HandleOf[t] \in open,
         \/ flock' = flock /\ (l \in Locked <=> pc[t] \in Locked)
         \/ flock = NoThread /\ flock' = t /\ l \in Locked
         \/ pc[t] \in Locked /\ flock' = NoThread /\ l \notin Locked,
         \/ mu' = mu /\ (l \in Locked \union {"lock", "notify"}
                          <=> pc[t] \in Locked \union {"lock", "notify"})
         \/ /\ mu[HandleOf[t]] = NoThread /\ mu' = [mu EXCEPT ![HandleOf[t]] = t]
            /\ l \in Locked \union {"lock", "notify"}
         \/ /\ pc[t] \in Locked \union {"lock", "notify"}
            /\ mu' = [mu EXCEPT ![HandleOf[t]] = NoThread]
            /\ l \notin Locked \union {"lock", "notify"}
  PROVE  LocksHeld'
<1> SUFFICES ASSUME NEW u \in Thread
             PROVE  /\ pc'[u] # "idle" => HandleOf[u] \in open'
                    /\ pc'[u] \in Locked <=> flock' = u
                    /\ pc'[u] \in Locked \union {"lock", "notify"} <=> mu'[HandleOf[u]] = u
  BY DEF LocksHeld
<1>1. /\ pc \in [Thread -> Label] /\ mu \in [Handle -> Thread \union {NoThread}]
      /\ HandleOf[t] \in Handle /\ HandleOf[u] \in Handle /\ NoThread \notin Thread
  BY LedgerAssumption DEF IInv, TypeOK
<1>2. /\ pc'[t] = l
      /\ u # t => pc'[u] = pc[u]
  BY <1>1
<1>3. /\ pc[u] # "idle" => HandleOf[u] \in open
      /\ pc[u] \in Locked <=> flock = u
      /\ pc[u] \in Locked \union {"lock", "notify"} <=> mu[HandleOf[u]] = u
      /\ pc[t] \in Locked <=> flock = t
      /\ pc[t] \in Locked \union {"lock", "notify"} <=> mu[HandleOf[t]] = t
  BY DEF IInv, LocksHeld
<1>4. pc'[u] # "idle" => HandleOf[u] \in open'
  BY <1>2, <1>3
<1>5. pc'[u] \in Locked <=> flock' = u
  BY <1>1, <1>2, <1>3
<1>6. pc'[u] \in Locked \union {"lock", "notify"} <=> mu'[HandleOf[u]] = u
  <2>1. CASE HandleOf[u] = HandleOf[t]
    BY <2>1, <1>1, <1>2, <1>3
  <2>2. CASE HandleOf[u] # HandleOf[t]
    BY <2>2, <1>1, <1>2, <1>3
  <2> QED
    BY <2>1, <2>2
<1> QED
  BY <1>4, <1>5, <1>6

\* A thread whose view of the log and whose buffers a step does not touch.
LEMMA WriterFrame ==
  ASSUME NEW t \in Thread, AtEnd(t), StoredOnLog(t),
         lines' = lines, tail' = tail, pc'[t] = pc[t], buf'[t] = buf[t],
         stored'[t] = stored[t], size'[HandleOf[t]] = size[HandleOf[t]]
  PROVE  AtEnd(t)' /\ StoredOnLog(t)'
BY DEF AtEnd, StoredOnLog, Written

\* A thread that has nothing on its way to the log.
LEMMA WriterAway ==
  ASSUME NEW t \in Thread, pc'[t] \notin {"decide", "write", "close", "unlock", "notify"}
  PROVE  AtEnd(t)' /\ StoredOnLog(t)'
BY DEF AtEnd, StoredOnLog

\* A thread that does not hold the file lock, when the log at most grows.
LEMMA WriterOutside ==
  ASSUME IInv, NEW t \in Thread, pc[t] \notin Locked, pc'[t] = pc[t],
         stored'[t] = stored[t], NEW e \in Event,
         lines' = lines \/ lines' = Append(lines, e)
  PROVE  AtEnd(t)' /\ StoredOnLog(t)'
<1>1. pc[t] \notin {"decide", "write", "close", "unlock"}
  BY DEF Locked
<1>2. \A i \in DOMAIN lines : i \in DOMAIN lines' /\ lines'[i] = lines[i]
  <2>1. lines \in Seq(Event)
    BY DEF IInv, TypeOK
  <2>2. CASE lines' = Append(lines, e)
    BY <2>1, <2>2, AppendKeeps
  <2> QED
    BY <2>2
<1>3. StoredOnLog(t)
  BY DEF IInv, WriterInv
<1> QED
  BY <1>1, <1>2, <1>3 DEF AtEnd, StoredOnLog

-----------------------------------------------------------------------------
(* The invariant is inductive *)

\* The invariant holds of an empty log.
LEMMA InitInv == Init => IInv
<1> SUFFICES ASSUME Init PROVE IInv
  OBVIOUS
<1>1. TypeOK
  BY LedgerAssumption DEF Init, TypeOK, Label
<1>2. GaplessSeq /\ AckedDurable
  BY DEF Init, GaplessSeq, AckedDurable
<1>3. LocksHeld
  BY LedgerAssumption DEF Init, LocksHeld, Locked
<1>4. KnowsPrefix /\ WriterInv
  BY LedgerAssumption DEF Init, KnowsPrefix, WriterInv, AtEnd, StoredOnLog
<1> QED
  BY <1>1, <1>2, <1>3, <1>4 DEF IInv

\* Steps that leave the file, the handles and the writers' buffers alone.
LEMMA OpenInv ==
  ASSUME IInv, NEW h \in Handle, Open(h)
  PROVE  IInv'
<1>1. /\ lines' = lines /\ tail' = "none"
      /\ size' = [size EXCEPT ![h] = Len(lines)]
      /\ nextSeq' = [nextSeq EXCEPT ![h] = Len(lines) + 1]
  BY SyncExact DEF Open
<1>2. TypeOK'
  BY <1>1 DEF IInv, TypeOK, Open, threadVars, readerVars
<1>3. (GaplessSeq /\ AckedDurable)'
  BY <1>1 DEF IInv, GaplessSeq, AckedDurable, Open
<1>4. LocksHeld'
  BY DEF IInv, LocksHeld, Open
<1>5. KnowsPrefix'
  BY <1>1 DEF IInv, TypeOK, KnowsPrefix
<1>6. \A t \in Thread : pc[t] \notin Locked
  BY LedgerAssumption DEF IInv, LocksHeld, Open
<1>7. WriterInv'
  BY <1>1, <1>6 DEF IInv, WriterInv, AtEnd, StoredOnLog, Open, threadVars, Locked
<1> QED
  BY <1>2, <1>3, <1>4, <1>5, <1>7 DEF IInv

\* A handle is opened without the lock.
LEMMA OpenUnlockedInv ==
  ASSUME IInv, NEW h \in Handle, OpenUnlocked(h)
  PROVE  IInv'
<1>1. /\ lines' = lines /\ tail' = tail
      /\ size' = [size EXCEPT ![h] = Len(lines)]
      /\ nextSeq' = [nextSeq EXCEPT ![h] = Len(lines) + 1]
  <2>1. lines \in Seq(Event) /\ Len(lines) \in Nat
    BY DEF IInv, TypeOK
  <2>2. ValidLen(lines, tail) = Len(lines)
    BY <2>1, ScanWhole
  <2>3. SeqAfter(lines, Len(lines), 0, 1) = Len(lines) + 1
    BY <2>1 DEF IInv, GaplessSeq, SeqAfter
  <2> QED
    BY <2>2, <2>3 DEF OpenUnlocked, fileVars
<1>2. TypeOK'
  BY <1>1, LedgerAssumption DEF IInv, TypeOK, OpenUnlocked, threadVars, readerVars
<1>3. (GaplessSeq /\ AckedDurable)'
  BY <1>1 DEF IInv, GaplessSeq, AckedDurable, OpenUnlocked
<1>4. LocksHeld'
  BY DEF IInv, LocksHeld, OpenUnlocked
<1>5. KnowsPrefix'
  BY <1>1 DEF IInv, TypeOK, KnowsPrefix
<1>6. \A t \in Thread : pc[t] # "idle" => size'[HandleOf[t]] = size[HandleOf[t]]
  BY <1>1, LedgerAssumption DEF IInv, LocksHeld, OpenUnlocked, TypeOK
<1>7. WriterInv'
  <2> SUFFICES ASSUME NEW t \in Thread PROVE (AtEnd(t) /\ StoredOnLog(t))'
    BY DEF WriterInv
  <2>1. AtEnd(t) /\ StoredOnLog(t) /\ UNCHANGED <<pc, buf, stored>>
    BY DEF IInv, WriterInv, OpenUnlocked, threadVars
  <2> QED
    BY <1>1, <1>6, <2>1, WriterFrame, WriterAway
<1> QED
  BY <1>2, <1>3, <1>4, <1>5, <1>7 DEF IInv

\* A process dies, and its locks with it.
LEMMA CrashInv ==
  ASSUME IInv, NEW h \in Handle, Crash(h)
  PROVE  IInv'
<1>1. TypeOK'
  BY LedgerAssumption DEF IInv, TypeOK, Crash, fileVars, readerVars, Label
<1>2. (GaplessSeq /\ AckedDurable)'
  BY DEF IInv, GaplessSeq, AckedDurable, Crash, fileVars
<1>3. LocksHeld'
  BY LedgerAssumption DEF IInv, TypeOK, LocksHeld, Crash, Locked
<1>4. KnowsPrefix'
  BY DEF IInv, TypeOK, KnowsPrefix, Crash, fileVars
<1>5. \A t \in Thread :
        \/ pc'[t] = "idle"
        \/ /\ pc'[t] = pc[t] /\ buf'[t] = buf[t] /\ stored'[t] = stored[t]
           /\ size'[HandleOf[t]] = size[HandleOf[t]]
  BY LedgerAssumption DEF IInv, TypeOK, Crash
<1>6. WriterInv'
  <2> SUFFICES ASSUME NEW t \in Thread PROVE (AtEnd(t) /\ StoredOnLog(t))'
    BY DEF WriterInv
  <2>1. AtEnd(t) /\ StoredOnLog(t) /\ UNCHANGED <<lines, tail>>
    BY DEF IInv, WriterInv, Crash, fileVars
  <2> QED
    BY <1>5, <2>1, WriterFrame, WriterAway
<1> QED
  BY <1>1, <1>2, <1>3, <1>4, <1>6 DEF IInv

\* A thread calls.
LEMMA CallInv ==
  ASSUME IInv, NEW t \in Thread, NEW o \in Op, Call(t, o)
  PROVE  IInv'
<1>1. TypeOK'
  BY LedgerAssumption DEF IInv, TypeOK, Call, Goto, fileVars, handleVars, readerVars, Label
<1>2. (GaplessSeq /\ AckedDurable /\ KnowsPrefix)'
  BY DEF IInv, GaplessSeq, AckedDurable, KnowsPrefix, Call, fileVars, handleVars
<1>3. LocksHeld'
  BY DEF IInv, TypeOK, LocksHeld, Locked, Call, Goto, handleVars
<1>4. WriterInv'
  <2> SUFFICES ASSUME NEW u \in Thread PROVE (AtEnd(u) /\ StoredOnLog(u))'
    BY DEF WriterInv
  <2>1. AtEnd(u) /\ StoredOnLog(u) /\ UNCHANGED <<lines, tail, size, buf, stored>>
    BY DEF IInv, WriterInv, Call, fileVars, handleVars
  <2>2. pc'[u] = pc[u] \/ pc'[u] = "mu"
    BY DEF IInv, TypeOK, Call, Goto
  <2> QED
    BY <2>1, <2>2, WriterFrame, WriterAway
<1> QED
  BY <1>1, <1>2, <1>3, <1>4 DEF IInv

\* Taking a lock, or failing to, changes neither file nor handles nor buffers.
LEMMA LockStepsInv ==
  ASSUME IInv, NEW t \in Thread, LockMu(t) \/ LockFile(t) \/ LockFileFails(t)
  PROVE  IInv'
<1> USE DEF Goto, fileVars, handleVars, threadVars, readerVars
<1>1. TypeOK'
  <2>1. CASE LockMu(t)
    BY <2>1, LedgerAssumption DEF IInv, TypeOK, LockMu, Label
  <2>2. CASE LockFile(t)
    BY <2>2 DEF IInv, TypeOK, LockFile, Label
  <2>3. CASE LockFileFails(t)
    <3>1. faults' \in 0..MaxFaults
      BY <2>3, LedgerAssumption DEF IInv, TypeOK, LockFileFails
    <3>2. /\ mu' \in [Handle -> Thread \union {NoThread}]
          /\ pc' \in [Thread -> Label]
          /\ op' \in [Thread -> Op \union {NoOp}]
      BY <2>3, LedgerAssumption DEF IInv, TypeOK, LockFileFails, Label
    <3> QED
      BY <2>3, <3>1, <3>2 DEF IInv, TypeOK, LockFileFails
  <2> QED
    BY <2>1, <2>2, <2>3
<1>2. (GaplessSeq /\ AckedDurable /\ KnowsPrefix)'
  BY DEF IInv, GaplessSeq, AckedDurable, KnowsPrefix, LockMu, LockFile, LockFileFails
<1>3. LocksHeld'
  <2>1. HandleOf[t] \in open /\ open' = open
    BY DEF IInv, LocksHeld, LockMu, LockFile, LockFileFails
  <2>2. CASE LockMu(t)
    BY <2>1, <2>2, LocksFrame DEF LockMu, Label, Locked
  <2>3. CASE LockFile(t)
    BY <2>1, <2>3, LocksFrame DEF LockFile, Label, Locked
  <2>4. CASE LockFileFails(t)
    BY <2>1, <2>4, LocksFrame DEF LockFileFails, Label, Locked
  <2> QED
    BY <2>2, <2>3, <2>4
<1>4. WriterInv'
  <2> SUFFICES ASSUME NEW u \in Thread PROVE (AtEnd(u) /\ StoredOnLog(u))'
    BY DEF WriterInv
  <2>1. AtEnd(u) /\ StoredOnLog(u) /\ UNCHANGED <<lines, tail, size, buf, stored>>
    BY DEF IInv, WriterInv, LockMu, LockFile, LockFileFails
  <2>2. pc'[u] = pc[u] \/ pc'[u] \in {"lock", "sync", "idle"}
    BY DEF IInv, TypeOK, LockMu, LockFile, LockFileFails
  <2> QED
    BY <2>1, <2>2, WriterFrame, WriterAway
<1> QED
  BY <1>1, <1>2, <1>3, <1>4 DEF IInv

\* At most one thread holds the file lock.
LEMMA OneLocked ==
  ASSUME IInv, NEW t \in Thread, pc[t] \in Locked, NEW u \in Thread, u # t
  PROVE  pc[u] \notin Locked
BY DEF IInv, LocksHeld

\* A writer reads what others appended, and repairs the tail.
LEMMA SyncLogInv ==
  ASSUME IInv, NEW t \in Thread, SyncLog(t)
  PROVE  IInv'
<1> DEFINE h == HandleOf[t]
<1>1. h \in Handle /\ size[h] \in Nat /\ size[h] <= Len(lines)
  BY LedgerAssumption DEF IInv, TypeOK, KnowsPrefix
<1>2. ~SyncFails(size[h])
  <2>1. ~ScanFails(lines, tail, size[h])
    BY <1>1, ScanWhole
  <2>2. lines \in Seq(Event)
    BY DEF IInv, TypeOK
  <2>3. ScanStart(size[h]) = size[h]
    BY <1>1, <2>1, <2>2 DEF ScanStart
  <2> QED
    BY <2>1, <2>3 DEF SyncFails
<1>3. pc[t] = "sync" /\ pc' = [pc EXCEPT ![t] = "decide"] /\ Sync(h)
  BY <1>2 DEF SyncLog
<1>4. /\ lines' = lines /\ tail' = "none"
      /\ size' = [size EXCEPT ![h] = Len(lines)]
      /\ nextSeq' = [nextSeq EXCEPT ![h] = Len(lines) + 1]
  BY <1>1, <1>3, SyncExact
<1>5. TypeOK'
  <2>1. Len(lines) \in Nat /\ Len(lines) + 1 \in Nat /\ TypeOK
    BY DEF IInv, TypeOK
  <2>2. size' \in [Handle -> Nat] /\ nextSeq' \in [Handle -> Nat] /\ pc' \in [Thread -> Label]
    BY <1>3, <1>4, <2>1 DEF TypeOK, Label
  <2> QED
    BY <1>4, <2>1, <2>2 DEF TypeOK, SyncLog, threadVars, readerVars
<1>6. (GaplessSeq /\ AckedDurable)'
  BY <1>4 DEF IInv, GaplessSeq, AckedDurable, SyncLog
<1>7. KnowsPrefix'
  BY <1>4 DEF IInv, TypeOK, KnowsPrefix
<1>8. LocksHeld'
  <2>1. HandleOf[t] \in open
    BY <1>3 DEF IInv, LocksHeld
  <2> QED
    BY <1>3, <2>1, LocksFrame DEF SyncLog, Label, Locked
<1>9. WriterInv'
  <2> SUFFICES ASSUME NEW u \in Thread PROVE (AtEnd(u) /\ StoredOnLog(u))'
    BY DEF WriterInv
  <2>1. CASE u = t
    <3>1. pc'[t] = "decide" /\ size'[h] = Len(lines')
      BY <1>1, <1>3, <1>4 DEF IInv, TypeOK
    <3> QED
      BY <2>1, <3>1, <1>4 DEF AtEnd, StoredOnLog
  <2>2. CASE u # t
    <3>1. pc[u] \notin Locked
      BY <1>3, <2>2, OneLocked DEF Locked
    <3>2. /\ pc'[u] = pc[u] /\ stored'[u] = stored[u]
          /\ pc[u] \notin {"decide", "write", "close", "unlock"}
          /\ StoredOnLog(u)
      BY <1>3, <2>2, <3>1 DEF IInv, TypeOK, WriterInv, SyncLog, threadVars, Locked
    <3> QED
      BY <3>2, <1>4 DEF AtEnd, StoredOnLog
  <2> QED
    BY <2>1, <2>2
<1> QED
  BY <1>5, <1>6, <1>7, <1>8, <1>9 DEF IInv

\* It decides what to write.
LEMMA PrepareWriteInv ==
  ASSUME IInv, NEW t \in Thread, PrepareWrite(t)
  PROVE  IInv'
<1> DEFINE h == HandleOf[t]
           S == Decide(op[t])
<1>1. PICK keys \in Orders(S) :
        /\ buf' = [buf EXCEPT ![t] = Numbered(keys, nextSeq[h])]
        /\ stored' = [stored EXCEPT ![t] = Numbered(keys, nextSeq[h])]
  BY DEF PrepareWrite
<1>2. /\ pc[t] = "decide"
      /\ pc' = [pc EXCEPT ![t] = IF S = {} THEN "unlock" ELSE "write"]
      /\ UNCHANGED <<lines, tail, open, size, nextSeq, mu, flock, op, acked, hooked,
                     offset, seen, ops, faults>>
  BY DEF PrepareWrite, Goto, fileVars, handleVars, readerVars
<1>3. /\ h \in Handle /\ size[h] \in Nat /\ nextSeq[h] = size[h] + 1
      /\ tail = "none" /\ size[h] = Len(lines)
  BY <1>2, LedgerAssumption DEF IInv, TypeOK, KnowsPrefix, WriterInv, AtEnd
<1>4. S \subseteq Key /\ IsFiniteSet(S)
  <2>1. op[t] \in Op \union {NoOp}
    BY DEF IInv, TypeOK
  <2>2. IsFiniteSet(op[t].keys) /\ op[t].keys \subseteq Key
    BY <2>1, LedgerAssumption, FS_EmptySet DEF NoOp
  <2>3. S \subseteq op[t].keys
    BY DEF Decide
  <2> QED
    BY <2>2, <2>3, FS_Subset
<1> DEFINE evs == Numbered(keys, nextSeq[h])
<1>5. /\ evs \in Seq(Event)
      /\ \A i \in DOMAIN evs : evs[i].seq = nextSeq[h] + i - 1
      /\ S = {} <=> evs = <<>>
  BY <1>3, <1>4, NumberedType
<1> HIDE DEF evs, S
<1>6. buf' = [buf EXCEPT ![t] = evs] /\ stored' = [stored EXCEPT ![t] = evs]
  BY <1>1 DEF evs
<1>7. TypeOK'
  BY <1>2, <1>5, <1>6 DEF IInv, TypeOK, Label
<1>8. (GaplessSeq /\ AckedDurable /\ KnowsPrefix)'
  BY <1>2 DEF IInv, GaplessSeq, AckedDurable, KnowsPrefix
<1>9. LocksHeld'
  <2>1. HandleOf[t] \in open
    BY <1>2 DEF IInv, LocksHeld
  <2> QED
    BY <1>2, <2>1, LocksFrame DEF Label, Locked
<1>10. WriterInv'
  <2> SUFFICES ASSUME NEW u \in Thread PROVE (AtEnd(u) /\ StoredOnLog(u))'
    BY DEF WriterInv
  <2>1. CASE u = t
    <3>1. buf'[t] = evs /\ stored'[t] = evs /\ pc'[t] = IF S = {} THEN "unlock" ELSE "write"
      BY <1>2, <1>6 DEF IInv, TypeOK
    <3>2. CASE S = {}
      BY <2>1, <3>1, <3>2, <1>2, <1>3, <1>5 DEF AtEnd, StoredOnLog
    <3>3. CASE S # {}
      <4>1. Written(t)' = 0
        BY <3>1, <1>5 DEF Written
      <4>2. \A i \in DOMAIN evs : evs[i].seq = size[h] + i
        BY <1>3, <1>5
      <4> QED
        BY <2>1, <3>1, <3>3, <4>1, <4>2, <1>2, <1>3, <1>5 DEF AtEnd, StoredOnLog
    <3> QED
      BY <3>2, <3>3
  <2>2. CASE u # t
    <3>1. AtEnd(u) /\ StoredOnLog(u) /\ pc'[u] = pc[u] /\ buf'[u] = buf[u] /\ stored'[u] = stored[u]
      BY <1>2, <1>6, <2>2 DEF IInv, TypeOK, WriterInv
    <3> QED
      BY <1>2, <3>1, WriterFrame
  <2> QED
    BY <2>1, <2>2
<1> QED
  BY <1>7, <1>8, <1>9, <1>10 DEF IInv

\* Steps of the lock holder that only move it: an error, or the lock given up.
LEMMA MoveInv ==
  ASSUME IInv, NEW t \in Thread, DecideFails(t) \/ Unlock(t)
  PROVE  IInv'
<1> USE DEF Goto, fileVars, handleVars, threadVars, readerVars
<1>1. TypeOK'
  <2>1. CASE DecideFails(t)
    BY <2>1, LedgerAssumption DEF IInv, TypeOK, DecideFails, Label
  <2>2. CASE Unlock(t)
    BY <2>2 DEF IInv, TypeOK, Unlock, Label
  <2> QED
    BY <2>1, <2>2
<1>2. (GaplessSeq /\ AckedDurable /\ KnowsPrefix)'
  BY DEF IInv, GaplessSeq, AckedDurable, KnowsPrefix, DecideFails, Unlock
<1>3. LocksHeld'
  <2>1. HandleOf[t] \in open /\ open' = open
    BY DEF IInv, LocksHeld, DecideFails, Unlock
  <2>2. CASE DecideFails(t)
    BY <2>1, <2>2, LocksFrame DEF DecideFails, Label, Locked
  <2>3. CASE Unlock(t)
    BY <2>1, <2>3, LocksFrame DEF Unlock, Label, Locked
  <2> QED
    BY <2>2, <2>3
<1>4. WriterInv'
  <2> SUFFICES ASSUME NEW u \in Thread PROVE (AtEnd(u) /\ StoredOnLog(u))'
    BY DEF WriterInv
  <2>1. AtEnd(u) /\ StoredOnLog(u) /\ UNCHANGED <<lines, tail, size, buf, stored>>
    BY DEF IInv, WriterInv, DecideFails, Unlock
  <2>2. \/ pc'[u] = pc[u]
        \/ pc'[u] = "fail"
        \/ pc[u] = "unlock" /\ pc'[u] = "notify"
    BY DEF IInv, TypeOK, DecideFails, Unlock
  <2>3. CASE pc[u] = "unlock" /\ pc'[u] = "notify"
    BY <2>1, <2>3 DEF AtEnd, StoredOnLog
  <2> QED
    BY <2>1, <2>2, <2>3, WriterFrame, WriterAway
<1> QED
  BY <1>1, <1>2, <1>3, <1>4 DEF IInv

\* It writes a line without its end.
LEMMA WriteTextInv ==
  ASSUME IInv, NEW t \in Thread, WriteText(t)
  PROVE  IInv'
<1> USE DEF handleVars, threadVars, readerVars
<1>1. pc[t] = "write" /\ tail = "none" /\ tail' = "part" /\ pc' = [pc EXCEPT ![t] = "close"]
  BY DEF IInv, WriterInv, AtEnd, WriteText
<1>2. TypeOK'
  BY <1>1 DEF IInv, TypeOK, WriteText, Label
<1>3. (GaplessSeq /\ AckedDurable /\ KnowsPrefix)'
  BY DEF IInv, GaplessSeq, AckedDurable, KnowsPrefix, WriteText
<1>4. LocksHeld'
  <2>1. HandleOf[t] \in open
    BY <1>1 DEF IInv, LocksHeld
  <2> QED
    BY <1>1, <2>1, LocksFrame DEF WriteText, Label, Locked
<1>5. WriterInv'
  <2> SUFFICES ASSUME NEW u \in Thread PROVE (AtEnd(u) /\ StoredOnLog(u))'
    BY DEF WriterInv
  <2>1. AtEnd(u) /\ StoredOnLog(u) /\ UNCHANGED <<lines, size, buf, stored>>
    BY DEF IInv, WriterInv, WriteText
  <2>2. CASE u = t
    <3>1. pc'[t] = "close"
      BY <1>1 DEF IInv, TypeOK
    <3> QED
      BY <1>1, <2>1, <2>2, <3>1 DEF AtEnd, StoredOnLog, Written
  <2>3. CASE u # t
    <3>1. pc[u] \notin {"decide", "write", "close", "unlock"} /\ pc'[u] = pc[u]
      BY <1>1, <2>3, OneLocked DEF IInv, TypeOK, Locked
    <3> QED
      BY <2>1, <3>1 DEF AtEnd, StoredOnLog
  <2> QED
    BY <2>2, <2>3
<1> QED
  BY <1>2, <1>3, <1>4, <1>5 DEF IInv

\* Its write fails.
LEMMA WriteFailsInv ==
  ASSUME IInv, NEW t \in Thread, WriteFails(t)
  PROVE  IInv'
<1> USE DEF fileVars, threadVars, readerVars
<1> DEFINE h == HandleOf[t]
<1>1. pc[t] \in Locked /\ pc' = [pc EXCEPT ![t] = "fail"] /\ h \in Handle
  BY LedgerAssumption DEF WriteFails, Locked
<1>2. TypeOK'
  BY <1>1, LedgerAssumption DEF IInv, TypeOK, WriteFails, Label
<1>3. (GaplessSeq /\ AckedDurable)'
  BY DEF IInv, GaplessSeq, AckedDurable, WriteFails
<1>4. KnowsPrefix'
  BY <1>1 DEF IInv, TypeOK, KnowsPrefix, WriteFails
<1>5. LocksHeld'
  <2>1. HandleOf[t] \in open
    BY <1>1 DEF IInv, LocksHeld, Locked
  <2> QED
    BY <1>1, <2>1, LocksFrame DEF WriteFails, Label, Locked
<1>6. WriterInv'
  <2> SUFFICES ASSUME NEW u \in Thread PROVE (AtEnd(u) /\ StoredOnLog(u))'
    BY DEF WriterInv
  <2>1. CASE u = t
    <3>1. pc'[t] = "fail"
      BY <1>1 DEF IInv, TypeOK
    <3> QED
      BY <2>1, <3>1, WriterAway
  <2>2. CASE u # t
    <3>1. pc[u] \notin Locked /\ pc'[u] = pc[u] /\ StoredOnLog(u)
      BY <1>1, <2>2, OneLocked DEF IInv, TypeOK, WriterInv
    <3> QED
      BY <3>1 DEF AtEnd, StoredOnLog, WriteFails, Locked
  <2> QED
    BY <2>1, <2>2
<1> QED
  BY <1>2, <1>3, <1>4, <1>5, <1>6 DEF IInv

\* It returns the error.
LEMMA ReturnErrorInv ==
  ASSUME IInv, NEW t \in Thread, ReturnError(t)
  PROVE  IInv'
<1> USE DEF fileVars, handleVars, readerVars, Goto
<1>1. TypeOK'
  <2>1. TypeOK /\ HandleOf[t] \in Handle
    BY LedgerAssumption DEF IInv, TypeOK
  <2>2. /\ mu' \in [Handle -> Thread \union {NoThread}] /\ pc' \in [Thread -> Label]
        /\ op' \in [Thread -> Op \union {NoOp}]
    BY <2>1 DEF TypeOK, ReturnError, Label
  <2>3. buf' \in [Thread -> Seq(Event)] /\ stored' \in [Thread -> Seq(Event)]
    BY <2>1 DEF TypeOK, ReturnError
  <2> QED
    BY <2>1, <2>2, <2>3 DEF TypeOK, ReturnError
<1>2. (GaplessSeq /\ AckedDurable /\ KnowsPrefix)'
  BY DEF IInv, GaplessSeq, AckedDurable, KnowsPrefix, ReturnError
<1>3. LocksHeld'
  <2>1. HandleOf[t] \in open
    BY DEF IInv, LocksHeld, ReturnError
  <2> QED
    BY <2>1, LocksFrame DEF ReturnError, Label, Locked
<1>4. WriterInv'
  <2> SUFFICES ASSUME NEW u \in Thread PROVE (AtEnd(u) /\ StoredOnLog(u))'
    BY DEF WriterInv
  <2>1. AtEnd(u) /\ StoredOnLog(u) /\ UNCHANGED <<lines, tail, size>>
    BY DEF IInv, WriterInv, ReturnError
  <2>2. \/ pc'[u] = "idle"
        \/ pc'[u] = pc[u] /\ buf'[u] = buf[u] /\ stored'[u] = stored[u]
    BY DEF IInv, TypeOK, ReturnError
  <2> QED
    BY <2>1, <2>2, WriterFrame, WriterAway
<1> QED
  BY <1>1, <1>2, <1>3, <1>4 DEF IInv

\* It runs the hook.
LEMMA NotifyInv ==
  ASSUME IInv, NEW t \in Thread, Notify(t)
  PROVE  IInv'
<1> USE DEF fileVars, handleVars, readerVars, Goto
<1>1. TypeOK /\ HandleOf[t] \in Handle
  BY LedgerAssumption DEF IInv, TypeOK
<1>2. {stored[t][i] : i \in DOMAIN stored[t]} \subseteq Event
  BY <1>1 DEF TypeOK
<1>3. \A h \in Handle : hooked[h] \o stored[t] \in Seq(Event)
  BY <1>1 DEF TypeOK
<1>4. TypeOK'
  <2>1. hooked' \in [Handle -> Seq(Event)] /\ acked' \subseteq Event
    BY <1>1, <1>2, <1>3 DEF TypeOK, Notify
  <2>2. /\ mu' \in [Handle -> Thread \union {NoThread}] /\ pc' \in [Thread -> Label]
        /\ op' \in [Thread -> Op \union {NoOp}] /\ stored' \in [Thread -> Seq(Event)]
    BY <1>1 DEF TypeOK, Notify, Label
  <2> QED
    BY <1>1, <2>1, <2>2 DEF TypeOK, Notify
<1>5. (GaplessSeq /\ KnowsPrefix)'
  BY DEF IInv, GaplessSeq, KnowsPrefix, Notify
<1>6. AckedDurable'
  <2>1. \A i \in DOMAIN stored[t] :
          stored[t][i].seq \in DOMAIN lines /\ lines[stored[t][i].seq] = stored[t][i]
    BY DEF IInv, WriterInv, StoredOnLog, Notify
  <2> QED
    BY <2>1 DEF IInv, AckedDurable, Notify
<1>7. LocksHeld'
  <2>1. HandleOf[t] \in open
    BY DEF IInv, LocksHeld, Notify
  <2> QED
    BY <2>1, LocksFrame DEF Notify, Label, Locked
<1>8. WriterInv'
  <2> SUFFICES ASSUME NEW u \in Thread PROVE (AtEnd(u) /\ StoredOnLog(u))'
    BY DEF WriterInv
  <2>1. AtEnd(u) /\ StoredOnLog(u) /\ UNCHANGED <<lines, tail, size, buf>>
    BY DEF IInv, WriterInv, Notify
  <2>2. pc'[u] = "idle" \/ (pc'[u] = pc[u] /\ stored'[u] = stored[u])
    BY DEF IInv, TypeOK, Notify
  <2> QED
    BY <2>1, <2>2, WriterFrame, WriterAway
<1> QED
  BY <1>4, <1>5, <1>6, <1>7, <1>8 DEF IInv

\* The line a newline completes is the next event of the writer's buffer, and
\* it carries the next number.
LEMMA NewlineAppends ==
  ASSUME IInv, NEW t \in Thread, WriteNewline(t)
  PROVE  /\ buf[t] \in Seq(Event) /\ buf[t] # <<>> /\ Head(buf[t]) \in Event
         /\ lines' = Append(lines, Head(buf[t]))
         /\ Head(buf[t]) = stored[t][Written(t) + 1]
         /\ Head(buf[t]).seq = Len(lines) + 1
         /\ Written(t) \in Nat /\ Written(t) + 1 \in DOMAIN stored[t]
<1>1. /\ pc[t] = "close" /\ buf[t] \in Seq(Event) /\ stored[t] \in Seq(Event)
      /\ lines \in Seq(Event) /\ size[HandleOf[t]] \in Nat
  BY LedgerAssumption DEF WriteNewline, IInv, TypeOK
<1>2. /\ tail = "part" /\ buf[t] # <<>> /\ Len(buf[t]) <= Len(stored[t])
      /\ Len(lines) = size[HandleOf[t]] + Written(t)
      /\ \A i \in DOMAIN buf[t] : buf[t][i] = stored[t][Written(t) + i]
      /\ \A i \in DOMAIN stored[t] : stored[t][i].seq = size[HandleOf[t]] + i
  BY <1>1 DEF IInv, WriterInv, AtEnd
<1>3. 1 \in DOMAIN buf[t] /\ Head(buf[t]) = buf[t][1] /\ Head(buf[t]) \in Event
  BY <1>1, <1>2
<1>4. Written(t) \in Nat /\ Written(t) + 1 \in DOMAIN stored[t]
  <2>1. Len(buf[t]) \in Nat /\ 1 <= Len(buf[t]) /\ Len(stored[t]) \in Nat
    BY <1>1, <1>2, TailFacts
  <2>2. Len(buf[t]) <= Len(stored[t])
    BY <1>2
  <2>3. DOMAIN stored[t] = 1..Len(stored[t])
    BY <1>1
  <2> QED
    BY <2>1, <2>2, <2>3, Difference, Zenon DEF Written
<1>5. lines' = Append(lines, Head(buf[t]))
  BY <1>2 DEF WriteNewline
<1>6. stored[t][Written(t) + 1].seq = size[HandleOf[t]] + (Written(t) + 1)
  BY <1>2, <1>4
<1>7. Head(buf[t]) = stored[t][Written(t) + 1]
  BY <1>2, <1>3
<1>8. Head(buf[t]).seq = Len(lines) + 1
  <2>1. Len(lines) = size[HandleOf[t]] + Written(t) /\ size[HandleOf[t]] \in Nat /\ Written(t) \in Nat
    BY <1>1, <1>2, <1>4
  <2>2. size[HandleOf[t]] + (Written(t) + 1) = Len(lines) + 1
    BY <2>1
  <2> QED
    BY <2>2, <1>6, <1>7
<1> QED
  BY <1>1, <1>2, <1>3, <1>4, <1>5, <1>7, <1>8

\* Adding to one entry of a table of numbers.
LEMMA AddAt ==
  ASSUME NEW f \in [Handle -> Nat], NEW g \in Handle, NEW k \in Nat
  PROVE  [f EXCEPT ![g] = f[g] + k] \in [Handle -> Nat]
OBVIOUS

\* It ends the line, which is now on the log.
LEMMA WriteNewlineInv ==
  ASSUME IInv, NEW t \in Thread, WriteNewline(t)
  PROVE  IInv'
<1> DEFINE h == HandleOf[t]
           e == Head(buf[t])
           w == Written(t)
           n == Len(buf[t])
<1>1. /\ buf[t] \in Seq(Event) /\ buf[t] # <<>> /\ e \in Event
      /\ lines' = Append(lines, e)
      /\ e = stored[t][w + 1] /\ e.seq = Len(lines) + 1
      /\ w \in Nat /\ w + 1 \in DOMAIN stored[t]
  BY NewlineAppends
<1>2. /\ TypeOK /\ h \in Handle /\ size[h] \in Nat /\ nextSeq[h] = size[h] + 1
      /\ stored[t] \in Seq(Event) /\ lines \in Seq(Event)
  BY LedgerAssumption DEF IInv, TypeOK, KnowsPrefix
<1>5. /\ n \in Nat /\ n >= 1 /\ (Tail(buf[t]) = <<>> <=> n = 1)
      /\ Tail(buf[t]) \in Seq(Event) /\ Len(Tail(buf[t])) = n - 1
      /\ \A i \in DOMAIN Tail(buf[t]) :
           i \in Nat /\ i + 1 \in DOMAIN buf[t] /\ Tail(buf[t])[i] = buf[t][i + 1]
  BY <1>1, TailFacts
<1>3. /\ pc[t] = "close" /\ tail' = "none"
      /\ buf' = [buf EXCEPT ![t] = Tail(buf[t])]
      /\ pc' = [pc EXCEPT ![t] = IF n = 1 THEN "unlock" ELSE "write"]
      /\ size' = IF n = 1 THEN [size EXCEPT ![h] = size[h] + Len(stored[t])] ELSE size
      /\ nextSeq' = IF n = 1 THEN [nextSeq EXCEPT ![h] = nextSeq[h] + Len(stored[t])] ELSE nextSeq
      /\ UNCHANGED <<open, mu, flock, op, stored, acked, hooked, offset, seen, ops, faults>>
  BY <1>5 DEF WriteNewline, readerVars
<1>4. /\ Len(lines) = size[h] + w /\ n <= Len(stored[t])
      /\ \A i \in DOMAIN buf[t] : buf[t][i] = stored[t][w + i]
      /\ \A i \in DOMAIN stored[t] : stored[t][i].seq = size[h] + i
      /\ \A i \in 1..w : lines[size[h] + i] = stored[t][i]
  BY <1>3 DEF IInv, WriterInv, AtEnd, StoredOnLog
<1>6. /\ lines' \in Seq(Event) /\ Len(lines') = Len(lines) + 1 /\ DOMAIN lines' = 1..(Len(lines) + 1)
      /\ \A i \in DOMAIN lines : i \in DOMAIN lines' /\ lines'[i] = lines[i]
      /\ lines'[Len(lines) + 1] = e
  BY <1>1, <1>2, AppendKeeps
<1>7. w + n = Len(stored[t]) /\ Len(stored[t]) \in Nat
  BY <1>1, <1>2, <1>5 DEF Written
<1>15. n = 1 => size[h] + Len(stored[t]) = Len(lines')
  <2>1. /\ size[h] \in Nat /\ w \in Nat /\ w + n = Len(stored[t])
        /\ Len(lines) = size[h] + w /\ Len(lines') = Len(lines) + 1
    BY <1>1, <1>2, <1>4, <1>6, <1>7
  <2> HIDE DEF w, n, h
  <2> QED
    BY <2>1
<1> HIDE DEF e, w, n, h
<1>8. TypeOK'
  <2>1. buf' \in [Thread -> Seq(Event)] /\ pc' \in [Thread -> Label]
    BY <1>2, <1>3, <1>5 DEF TypeOK, Label
  <2>2. size' \in [Handle -> Nat] /\ nextSeq' \in [Handle -> Nat]
    <3>1. Len(stored[t]) \in Nat /\ h \in Handle
          /\ size \in [Handle -> Nat] /\ nextSeq \in [Handle -> Nat]
      BY <1>2, <1>7 DEF TypeOK
    <3>2. /\ [size EXCEPT ![h] = size[h] + Len(stored[t])] \in [Handle -> Nat]
          /\ [nextSeq EXCEPT ![h] = nextSeq[h] + Len(stored[t])] \in [Handle -> Nat]
      BY <3>1, AddAt
    <3>3. CASE n = 1
      BY <1>3, <3>2, <3>3
    <3>4. CASE n # 1
      BY <1>3, <3>1, <3>4
    <3> QED
      BY <3>3, <3>4
  <2> QED
    BY <1>2, <1>3, <1>6, <2>1, <2>2 DEF TypeOK
<1>9. GaplessSeq'
  <2>1. \A i \in DOMAIN lines : lines[i].seq = i
    BY DEF IInv, GaplessSeq
  <2> QED
    BY <2>1, <1>1, <1>2, <1>6 DEF GaplessSeq
<1>10. AckedDurable'
  BY <1>3, <1>6 DEF IInv, AckedDurable
<1>11. KnowsPrefix'
  <2>1. \A g \in Handle : size[g] \in Nat /\ size[g] <= Len(lines) /\ nextSeq[g] = size[g] + 1
    BY <1>2 DEF IInv, KnowsPrefix, TypeOK
  <2>2. n = 1 => size[h] + Len(stored[t]) = Len(lines')
    BY <1>15
  <2>3. CASE n = 1
    <3> SUFFICES ASSUME NEW g \in Handle
                 PROVE  size'[g] <= Len(lines') /\ nextSeq'[g] = size'[g] + 1
      BY DEF KnowsPrefix
    <3>1. CASE g = h
      <4>1. size'[h] = size[h] + Len(stored[t]) /\ nextSeq'[h] = nextSeq[h] + Len(stored[t])
        BY <2>3, <1>2, <1>3 DEF TypeOK
      <4>2. Len(lines') \in Nat
        BY <1>6
      <4> QED
        BY <2>2, <2>3, <3>1, <4>1, <4>2, <1>2, <1>7
    <3>2. CASE g # h
      <4>1. size'[g] = size[g] /\ nextSeq'[g] = nextSeq[g]
        BY <2>3, <3>2, <1>2, <1>3 DEF TypeOK
      <4> QED
        BY <4>1, <2>1, <1>2, <1>6
    <3> QED
      BY <3>1, <3>2
  <2>4. CASE n # 1
    BY <2>1, <2>4, <1>2, <1>3, <1>6 DEF KnowsPrefix
  <2> QED
    BY <2>3, <2>4
<1>12. LocksHeld'
  <2>1. HandleOf[t] \in open
    BY <1>3 DEF IInv, LocksHeld
  <2> QED
    BY <1>3, <2>1, LocksFrame DEF Label, Locked
<1>13. AtEnd(t)' /\ StoredOnLog(t)'
  <2>1. /\ pc'[t] = (IF n = 1 THEN "unlock" ELSE "write") /\ buf'[t] = Tail(buf[t])
        /\ stored'[t] = stored[t]
    BY <1>2, <1>3 DEF TypeOK
  <2>2. CASE n = 1
    <3>1. size'[h] = Len(lines')
      <4>1. size'[h] = size[h] + Len(stored[t])
        BY <2>2, <1>2, <1>3 DEF TypeOK
      <4> QED
        BY <4>1, <2>2, <1>15
    <3>2. ASSUME NEW i \in DOMAIN stored[t]
          PROVE  stored[t][i].seq \in DOMAIN lines' /\ lines'[stored[t][i].seq] = stored[t][i]
      <4>1. i \in 1..Len(stored[t]) /\ Len(stored[t]) = w + 1 /\ stored[t][i].seq = size[h] + i
        BY <2>2, <1>2, <1>4, <1>5, <1>7
      <4>2. CASE i \in 1..w
        <5>1. size[h] + i \in DOMAIN lines
          BY <4>2, <1>1, <1>2, <1>4
        <5> QED
          BY <4>1, <4>2, <5>1, <1>4, <1>6
      <4>3. CASE i = w + 1
        <5>1. size[h] + i = Len(lines) + 1 /\ Len(lines) + 1 \in DOMAIN lines'
          BY <4>3, <1>1, <1>2, <1>4, <1>6
        <5> QED
          BY <4>1, <4>3, <5>1, <1>1, <1>6
      <4> QED
        BY <4>1, <4>2, <4>3, <1>1
    <3> QED
      BY <2>1, <2>2, <3>1, <3>2, <1>3 DEF AtEnd, StoredOnLog, h
  <2>3. CASE n # 1
    <3>1. Written(t)' = w + 1
      <4>1. Written(t)' = Len(stored[t]) - (n - 1)
        BY <2>1, <1>5 DEF Written
      <4>2. w + n = Len(stored[t]) /\ w \in Nat /\ n \in Nat
        BY <1>1, <1>5, <1>7
      <4> QED
        BY <4>1, <4>2
    <3>2. Tail(buf[t]) # <<>> /\ Len(Tail(buf[t])) <= Len(stored[t])
      BY <2>3, <1>4, <1>5, <1>7
    <3>3. Len(lines') = size[h] + (w + 1)
      BY <1>1, <1>2, <1>4, <1>6
    <3>4. \A i \in DOMAIN Tail(buf[t]) : Tail(buf[t])[i] = stored[t][(w + 1) + i]
      <4>1. ASSUME NEW i \in DOMAIN Tail(buf[t])
            PROVE  Tail(buf[t])[i] = stored[t][(w + 1) + i]
        <5>1. i \in Nat /\ i + 1 \in DOMAIN buf[t] /\ Tail(buf[t])[i] = buf[t][i + 1]
          BY <1>5
        <5>2. buf[t][i + 1] = stored[t][w + (i + 1)]
          BY <5>1, <1>4
        <5>3. w + (i + 1) = (w + 1) + i
          BY <5>1, <1>1
        <5> QED
          BY <5>1, <5>2, <5>3
      <4> QED
        BY <4>1
    <3>5. ASSUME NEW i \in 1..(w + 1)
          PROVE  lines'[size[h] + i] = stored[t][i]
      <4>1. CASE i \in 1..w
        <5>1. size[h] + i \in DOMAIN lines
          BY <4>1, <1>1, <1>2, <1>4
        <5> QED
          BY <4>1, <5>1, <1>4, <1>6
      <4>2. CASE i = w + 1
        <5>1. size[h] + i = Len(lines) + 1
          BY <4>2, <1>1, <1>2, <1>4
        <5> QED
          BY <4>2, <5>1, <1>1, <1>6
      <4>3. w \in Nat
        BY <1>1
      <4> QED
        BY <4>1, <4>2, <4>3
    <3>6. size' = size
      BY <2>3, <1>3
    <3> QED
      BY <2>1, <2>3, <3>1, <3>2, <3>3, <3>4, <3>5, <3>6, <1>3, <1>4 DEF AtEnd, StoredOnLog, h
  <2> QED
    BY <2>2, <2>3
<1>14. WriterInv'
  <2> SUFFICES ASSUME NEW u \in Thread PROVE (AtEnd(u) /\ StoredOnLog(u))'
    BY DEF WriterInv
  <2>1. CASE u # t
    <3>1. pc[u] \notin Locked /\ pc'[u] = pc[u] /\ stored'[u] = stored[u]
      BY <2>1, <1>2, <1>3, OneLocked DEF TypeOK, Locked
    <3> QED
      BY <3>1, <1>1, WriterOutside
  <2> QED
    BY <2>1, <1>13
<1> QED
  BY <1>8, <1>9, <1>10, <1>11, <1>12, <1>14 DEF IInv

\* A reader reads on.
LEMMA ReadFromInv ==
  ASSUME IInv, ReadFrom
  PROVE  IInv'
<1> USE DEF fileVars, handleVars, threadVars
<1>1. TypeOK'
  <2>1. ValidLen(lines, tail) = Len(lines) /\ lines \in Seq(Event) /\ TypeOK
    <3>1. lines \in Seq(Event) /\ TypeOK
      BY DEF IInv, TypeOK
    <3>2. 0 \in Nat /\ 0 <= Len(lines)
      BY <3>1
    <3> QED
      BY <3>1, <3>2, ScanWhole
  <2>2. SubSeq(lines, offset + 1, Len(lines)) \in Seq(Event)
    BY <2>1 DEF TypeOK
  <2>3. offset' \in Nat /\ seen' \in Seq(Event)
    <3>1. seen \o SubSeq(lines, offset + 1, Len(lines)) \in Seq(Event) /\ <<>> \in Seq(Event)
      BY <2>1, <2>2 DEF TypeOK
    <3>2. Len(lines) \in Nat /\ 0 \in Nat
      BY <2>1
    <3>3. \/ offset' = 0 /\ seen' = <<>>
          \/ offset' = Len(lines) /\ seen' = seen \o SubSeq(lines, offset + 1, Len(lines))
      BY <2>1 DEF ReadFrom
    <3> QED
      BY <3>1, <3>2, <3>3
  <2> QED
    BY <2>1, <2>3 DEF TypeOK, ReadFrom
<1>2. (GaplessSeq /\ AckedDurable /\ KnowsPrefix /\ LocksHeld)'
  BY DEF IInv, GaplessSeq, AckedDurable, KnowsPrefix, LocksHeld, ReadFrom
<1>3. WriterInv'
  BY DEF IInv, WriterInv, AtEnd, StoredOnLog, Written, ReadFrom
<1> QED
  BY <1>1, <1>2, <1>3 DEF IInv

\* Every step keeps the invariant.
LEMMA NextInv ==
  ASSUME IInv, [Next]_vars
  PROVE  IInv'
<1>1. ASSUME NEW t \in Thread, Step(t) PROVE IInv'
  BY <1>1, LockStepsInv, SyncLogInv, PrepareWriteInv, WriteTextInv, WriteNewlineInv,
     MoveInv, ReturnErrorInv, NotifyInv DEF Step
<1>2. ASSUME NEW t \in Thread, Fault(t) PROVE IInv'
  BY <1>2, LockStepsInv, MoveInv, WriteFailsInv DEF Fault
<1>3. ASSUME UNCHANGED vars PROVE IInv'
  BY <1>3 DEF vars, fileVars, handleVars, threadVars, readerVars, IInv, TypeOK, GaplessSeq,
     AckedDurable, LocksHeld, KnowsPrefix, WriterInv, AtEnd, StoredOnLog, Written
<1> QED
  BY <1>1, <1>2, <1>3, CallInv, OpenInv, OpenUnlockedInv, CrashInv, ReadFromInv DEF Next

\* The inductive invariant holds of every behaviour.
THEOREM Invariance == Spec => []IInv
<1>1. Init => IInv
  BY InitInv
<1>2. IInv /\ [Next]_vars => IInv'
  BY NextInv
<1> QED
  BY <1>1, <1>2, PTL DEF Spec

\* The log and the variables of its writers keep their types (ledger.go:37-44);
\* in particular no line is ever glued to a dead writer's torn tail.
THEOREM TypeCorrect == Spec => []TypeOK
<1>1. IInv => TypeOK
  BY DEF IInv
<1> QED
  BY <1>1, Invariance, PTL

\* Sequence numbers are gapless (ledger.go:167-191, 247-276), whatever the
\* number of handles and threads and whichever writes fail or crash.
THEOREM Gapless == Spec => []GaplessSeq
<1>1. IInv => GaplessSeq
  BY DEF IInv
<1> QED
  BY <1>1, Invariance, PTL

\* An event that Append or Update returned stays on the log where its number
\* says (ledger.go:100-162).
THEOREM Durable == Spec => []AckedDurable
<1>1. IInv => AckedDurable
  BY DEF IInv
<1> QED
  BY <1>1, Invariance, PTL

\* Every step leaves the lines of the log alone or adds the next event to them.
LEMMA LinesStep ==
  ASSUME IInv, [Next]_vars
  PROVE  \/ lines' = lines
         \/ \E k \in Key : lines' = Append(lines, [key |-> k, seq |-> Len(lines) + 1])
<1>1. ASSUME NEW t \in Thread, WriteNewline(t)
      PROVE  \E k \in Key : lines' = Append(lines, [key |-> k, seq |-> Len(lines) + 1])
  <2> DEFINE e == Head(buf[t])
  <2>1. e \in Event /\ e.seq = Len(lines) + 1 /\ lines' = Append(lines, e)
    BY <1>1, NewlineAppends
  <2>2. e.key \in Key /\ e = [key |-> e.key, seq |-> Len(lines) + 1]
    BY <2>1 DEF Event
  <2> QED
    BY <2>1, <2>2
<1>2. ASSUME NEW t \in Thread, SyncLog(t) PROVE lines' = lines
  BY <1>2, SyncExact, LedgerAssumption DEF SyncLog, fileVars
<1>3. ASSUME NEW h \in Handle, Open(h) PROVE lines' = lines
  BY <1>3, SyncExact DEF Open
<1>4. ASSUME NEW t \in Thread,
             LockMu(t) \/ LockFile(t) \/ PrepareWrite(t) \/ WriteText(t) \/ Unlock(t)
             \/ ReturnError(t) \/ Notify(t)
      PROVE  lines' = lines
  BY <1>4 DEF LockMu, LockFile, PrepareWrite, WriteText, Unlock, ReturnError, Notify, fileVars
<1>5. ASSUME NEW t \in Thread, Fault(t) PROVE lines' = lines
  BY <1>5 DEF Fault, LockFileFails, DecideFails, WriteFails, fileVars
<1>6. ASSUME NEW t \in Thread, NEW o \in Op, Call(t, o) PROVE lines' = lines
  BY <1>6 DEF Call, fileVars
<1>7. ASSUME NEW h \in Handle, OpenUnlocked(h) \/ Crash(h) PROVE lines' = lines
  BY <1>7 DEF OpenUnlocked, Crash, fileVars
<1>8. ASSUME ReadFrom \/ UNCHANGED vars PROVE lines' = lines
  BY <1>8 DEF ReadFrom, vars, fileVars
<1> QED
  BY <1>1, <1>2, <1>3, <1>4, <1>5, <1>6, <1>7, <1>8 DEF Next, Step

\* The ledger implements the append-only log its users rely on: no behaviour of
\* the writers, of their crashes, or of the repair of torn tails ever changes
\* or removes a line (ledger.go:28-36).
THEOREM Refinement == Spec => ImplementsEventLog
<1>1. Init => Abstract!Init
  BY DEF Init, Abstract!Init
<1>2. IInv /\ [Next]_vars => [Abstract!Next]_lines
  BY LinesStep DEF Abstract!Next, Abstract!Extend
<1> QED
  BY <1>1, <1>2, Invariance, PTL DEF Spec, ImplementsEventLog, Abstract!Spec


-----------------------------------------------------------------------------
(***************************************************************************)
(* What the users of the event log rely on, for any number of processes,   *)
(* threads, calls, crashes and failed writes: a key that is checked before *)
(* it is appended is on the log once, a reader without a lock sees a       *)
(* prefix, and the append hook of a handle sees its events in order.       *)
(***************************************************************************)
(* What a step can do to the variables the users' properties are about *)

\* The labels of a thread whose events are stored and not yet handed over.
Carrying == {"write", "close", "unlock", "notify"}

\* Steps of the handles and the readers, and steps that fail, carry on what was
\* carried; the log only grows.
LEMMA LinesGrow ==
  ASSUME IInv, [Next]_vars
  PROVE  /\ lines \in Seq(Event) /\ Len(lines) \in Nat
         /\ lines' \in Seq(Event) /\ Len(lines') \in Nat
         /\ Len(lines) <= Len(lines')
         /\ \A i \in DOMAIN lines : i \in DOMAIN lines' /\ lines'[i] = lines[i]
<1>1. lines \in Seq(Event)
  BY DEF IInv, TypeOK
<1>2. ASSUME NEW e \in Event, lines' = Append(lines, e)
      PROVE  /\ lines' \in Seq(Event) /\ Len(lines') \in Nat
             /\ Len(lines) <= Len(lines')
             /\ \A i \in DOMAIN lines : i \in DOMAIN lines' /\ lines'[i] = lines[i]
  BY <1>1, <1>2, AppendKeeps
<1>3. CASE lines' = lines
  <2>1. Len(lines) \in Nat /\ Len(lines) <= Len(lines)
    BY <1>1
  <2> QED
    BY <1>1, <1>3, <2>1
<1>4. lines' = lines \/ \E e \in Event : lines' = Append(lines, e)
  <2>1. \A k \in Key : [key |-> k, seq |-> Len(lines) + 1] \in Event
    BY <1>1 DEF Event
  <2> QED
    BY <2>1, LinesStep
<1> QED
  BY <1>1, <1>2, <1>3, <1>4

\* decide returns finitely many keys.
LEMMA DecideFinite ==
  ASSUME IInv, NEW t \in Thread
  PROVE  IsFiniteSet(Decide(op[t])) /\ Decide(op[t]) \subseteq Key
<1>1. op[t] \in Op \/ op[t] = NoOp
  BY DEF IInv, TypeOK
<1>2. IsFiniteSet(op[t].keys) /\ op[t].keys \subseteq Key
  BY <1>1, LedgerAssumption, FS_EmptySet DEF NoOp
<1>3. Decide(op[t]) \subseteq op[t].keys
  BY DEF Decide
<1> QED
  BY <1>2, <1>3, FS_Subset

-----------------------------------------------------------------------------
(* Readers *)

\* A prefix and the rest are the whole.
LEMMA PrefixJoin ==
  ASSUME NEW s \in Seq(Event), NEW n \in Nat, n <= Len(s)
  PROVE  SubSeq(s, 1, n) \o SubSeq(s, n + 1, Len(s)) = SubSeq(s, 1, Len(s))
<1>1. Len(s) \in Nat /\ 1 \in 1..Len(s) + 1 /\ n \in 1 - 1..Len(s) /\ Len(s) \in n..Len(s)
  OBVIOUS
<1> QED
  BY <1>1, ConcatAdjacentSubSeq

\* A prefix of what grows stays as it is.
LEMMA PrefixKept ==
  ASSUME NEW s \in Seq(Event), NEW r \in Seq(Event), NEW n \in Nat, n <= Len(s),
         Len(s) <= Len(r), \A i \in DOMAIN s : r[i] = s[i]
  PROVE  SubSeq(r, 1, n) = SubSeq(s, 1, n)
OBVIOUS

\* A read hands over what was written since the last one.
LEMMA ReadMore ==
  ASSUME IInv, ReaderSeesPrefix, ReadFrom
  PROVE  ReaderSeesPrefix'
<1>1. lines \in Seq(Event) /\ Len(lines) \in Nat /\ offset \in Nat /\ offset <= Len(lines)
  BY DEF IInv, TypeOK, ReaderSeesPrefix
<1>2. ValidLen(lines, tail) = Len(lines)
  BY <1>1, ScanWhole
<1>3. /\ offset' = Len(lines) /\ lines' = lines
      /\ seen' = seen \o SubSeq(lines, offset + 1, Len(lines))
  <2>1. ~(offset > Len(lines))
    BY <1>1
  <2>2. /\ offset' = ValidLen(lines, tail)
        /\ seen' = seen \o SubSeq(lines, offset + 1, ValidLen(lines, tail))
    BY <2>1, Zenon DEF ReadFrom
  <2>3. lines' = lines
    BY Zenon DEF ReadFrom, fileVars
  <2> QED
    BY <1>2, <2>2, <2>3
<1>4. seen' = SubSeq(lines, 1, Len(lines))
  <2>1. seen = SubSeq(lines, 1, offset)
    BY DEF ReaderSeesPrefix
  <2>2. SubSeq(lines, 1, offset) \o SubSeq(lines, offset + 1, Len(lines)) = SubSeq(lines, 1, Len(lines))
    BY <1>1, PrefixJoin
  <2> QED
    BY <1>3, <2>1, <2>2
<1>5. offset' <= Len(lines')
  <2>1. Len(lines) <= Len(lines)
    BY <1>1
  <2> QED
    BY <1>3, <2>1, Zenon
<1>6. seen' = SubSeq(lines', 1, offset')
  BY <1>3, <1>4, Zenon
<1> QED
  BY <1>5, <1>6 DEF ReaderSeesPrefix

\* Nobody else moves the reader.
LEMMA ReaderAlone ==
  ASSUME [Next]_vars, ~ReadFrom
  PROVE  offset' = offset /\ seen' = seen
<1>1. ASSUME NEW t \in Thread, Step(t) PROVE offset' = offset /\ seen' = seen
  BY <1>1 DEF Step, LockMu, LockFile, SyncLog, PrepareWrite, WriteText, WriteNewline, Unlock,
     ReturnError, Notify, readerVars
<1>2. ASSUME NEW t \in Thread, Fault(t) PROVE offset' = offset /\ seen' = seen
  BY <1>2 DEF Fault, LockFileFails, DecideFails, WriteFails, readerVars
<1>3. ASSUME NEW t \in Thread, NEW o \in Op, Call(t, o) PROVE offset' = offset /\ seen' = seen
  BY <1>3 DEF Call, readerVars
<1>4. ASSUME NEW h \in Handle, Open(h) \/ OpenUnlocked(h) \/ Crash(h)
      PROVE  offset' = offset /\ seen' = seen
  BY <1>4 DEF Open, OpenUnlocked, Crash, readerVars
<1>5. CASE UNCHANGED vars
  BY <1>5 DEF vars, readerVars
<1> QED
  BY <1>1, <1>2, <1>3, <1>4, <1>5 DEF Next

\* A reader that takes no lock has been given the log up to its offset
\* (ledger.go:332-338), whatever is torn, repaired or appended meanwhile.
THEOREM ReadersSafe == Spec => []ReaderSeesPrefix
<1>1. Init => ReaderSeesPrefix
  BY DEF Init, ReaderSeesPrefix
<1>2. IInv /\ ReaderSeesPrefix /\ [Next]_vars => ReaderSeesPrefix'
  <2> SUFFICES ASSUME IInv, ReaderSeesPrefix, [Next]_vars, ~ReadFrom
               PROVE  ReaderSeesPrefix'
    BY ReadMore
  <2>1. offset' = offset /\ seen' = seen /\ offset \in Nat /\ offset <= Len(lines)
    BY ReaderAlone DEF IInv, TypeOK, ReaderSeesPrefix
  <2>2. SubSeq(lines', 1, offset) = SubSeq(lines, 1, offset)
    BY <2>1, LinesGrow, PrefixKept
  <2>3. offset <= Len(lines')
    BY <2>1, LinesGrow
  <2> QED
    BY <2>1, <2>2, <2>3 DEF ReaderSeesPrefix
<1> QED
  BY <1>1, <1>2, Invariance, PTL DEF Spec

-----------------------------------------------------------------------------
(* The append hook *)

\* What is to be handed over is ordered and comes after what was handed over.
Fresh(t) ==
  pc[t] \in Carrying =>
    /\ \A i \in DOMAIN hooked[HandleOf[t]], j \in DOMAIN stored[t] :
         hooked[HandleOf[t]][i].seq < stored[t][j].seq
    /\ \A i, j \in DOMAIN stored[t] : i < j => stored[t][i].seq < stored[t][j].seq

HookInv ==
  /\ HookInOrder
  /\ \A h \in Handle : \A i \in DOMAIN hooked[h] : hooked[h][i].seq <= Len(lines)
  /\ \A t \in Thread : Fresh(t)

\* A step that hands nothing over and gives nobody events keeps the order.
LEMMA HookFrame ==
  ASSUME IInv, HookInv, [Next]_vars,
         \A h \in Handle : hooked'[h] = hooked[h] \/ hooked'[h] = <<>>,
         \A t \in Thread : pc'[t] \in Carrying => pc[t] \in Carrying /\ stored'[t] = stored[t]
  PROVE  HookInv'
<1>1. HookInOrder'
  BY DEF HookInv, HookInOrder
<1>2. ASSUME NEW h \in Handle, NEW i \in DOMAIN hooked'[h] PROVE hooked'[h][i].seq <= Len(lines')
  <2>1. hooked'[h] = hooked[h]
    BY <1>2
  <2>2. hooked[h][i].seq <= Len(lines) /\ hooked[h][i].seq \in Nat
    <3>1. hooked[h] \in Seq(Event) /\ i \in DOMAIN hooked[h]
      BY <1>2, <2>1 DEF IInv, TypeOK
    <3>2. hooked[h][i] \in Event
      BY <3>1
    <3>3. hooked[h][i].seq <= Len(lines)
      BY <3>1 DEF HookInv
    <3> QED
      BY <3>2, <3>3 DEF Event
  <2>3. Len(lines) \in Nat /\ Len(lines') \in Nat /\ Len(lines) <= Len(lines')
    BY LinesGrow
  <2>4. hooked[h][i].seq <= Len(lines')
    BY <2>2, <2>3
  <2> QED
    BY <2>1, <2>4
<1>3. ASSUME NEW t \in Thread PROVE Fresh(t)'
  <2>1. HandleOf[t] \in Handle
    BY LedgerAssumption
  <2>2. hooked'[HandleOf[t]] = hooked[HandleOf[t]] \/ hooked'[HandleOf[t]] = <<>>
    BY <2>1
  <2>3. Fresh(t)
    BY DEF HookInv
  <2> QED
    BY <2>2, <2>3 DEF Fresh
<1> QED
  BY <1>1, <1>2, <1>3 DEF HookInv

\* The events of a write are numbered after all the log holds.
LEMMA HookPrepare ==
  ASSUME IInv, HookInv, NEW t \in Thread, PrepareWrite(t)
  PROVE  HookInv'
<1> DEFINE S == Decide(op[t])
           n == nextSeq[HandleOf[t]]
<1>1. PICK keys \in Orders(S) : stored' = [stored EXCEPT ![t] = Numbered(keys, n)]
  BY DEF PrepareWrite
<1>2. lines' = lines /\ hooked' = hooked /\ pc[t] = "decide"
  BY DEF PrepareWrite, fileVars, Goto
<1>3. \A u \in Thread \ {t} : pc'[u] = pc[u] /\ stored'[u] = stored[u]
  BY DEF PrepareWrite, Goto, IInv, TypeOK
<1>4. stored'[t] = Numbered(keys, n)
  BY <1>1 DEF IInv, TypeOK
<1>5. n = Len(lines) + 1 /\ n \in Nat \ {0} /\ Len(lines) \in Nat
  BY <1>2, LedgerAssumption DEF IInv, TypeOK, KnowsPrefix, WriterInv, AtEnd
<1>6. IsFiniteSet(S) /\ S \subseteq Key
  BY DecideFinite
<1>7. \A i \in DOMAIN stored'[t] : i \in Nat \ {0} /\ stored'[t][i].seq = n + i - 1
  <2>1. Numbered(keys, n) \in Seq(Event)
    BY <1>5, <1>6, NumberedType
  <2>2. \A i \in DOMAIN Numbered(keys, n) : Numbered(keys, n)[i].seq = n + i - 1
    BY <1>5, <1>6, NumberedType
  <2>3. \A i \in DOMAIN Numbered(keys, n) : i \in Nat \ {0}
    BY <2>1
  <2> QED
    BY <1>4, <2>2, <2>3, Zenon
<1>8. Fresh(t)'
  <2>1. ASSUME NEW i \in DOMAIN hooked[HandleOf[t]], NEW j \in DOMAIN stored'[t]
        PROVE  hooked[HandleOf[t]][i].seq < stored'[t][j].seq
    <3>1. hooked[HandleOf[t]][i].seq <= Len(lines) /\ hooked[HandleOf[t]][i].seq \in Nat
      <4>1. HandleOf[t] \in Handle
        BY LedgerAssumption
      <4>2. hooked[HandleOf[t]][i].seq <= Len(lines)
        BY <2>1, <4>1 DEF HookInv
      <4>3. hooked[HandleOf[t]] \in Seq(Event)
        BY <4>1 DEF IInv, TypeOK
      <4>4. hooked[HandleOf[t]][i] \in Event
        BY <2>1, <4>3
      <4> QED
        BY <4>2, <4>4 DEF Event
    <3>2. stored'[t][j].seq = n + j - 1 /\ j \in Nat \ {0}
      BY <2>1, <1>7
    <3> QED
      BY <3>1, <3>2, <1>5
  <2>2. ASSUME NEW i \in DOMAIN stored'[t], NEW j \in DOMAIN stored'[t], i < j
        PROVE  stored'[t][i].seq < stored'[t][j].seq
    <3>1. /\ stored'[t][i].seq = n + i - 1 /\ i \in Nat \ {0}
          /\ stored'[t][j].seq = n + j - 1 /\ j \in Nat \ {0}
      BY <2>2, <1>7
    <3> QED
      BY <3>1, <2>2, <1>5
  <2> QED
    BY <1>2, <2>1, <2>2, Zenon DEF Fresh
<1>9. ASSUME NEW u \in Thread PROVE Fresh(u)'
  BY <1>2, <1>3, <1>8 DEF HookInv, Fresh
<1> QED
  BY <1>2, <1>9 DEF HookInv, HookInOrder

\* An element of two sequences joined is an element of one of them.
LEMMA JoinCases ==
  ASSUME NEW a \in Seq(Event), NEW b \in Seq(Event), NEW i \in DOMAIN (a \o b)
  PROVE  \/ i \in DOMAIN a /\ (a \o b)[i] = a[i]
         \/ i > Len(a) /\ i - Len(a) \in DOMAIN b /\ (a \o b)[i] = b[i - Len(a)]
<1>1. Len(a) \in Nat /\ Len(b) \in Nat /\ DOMAIN a = 1..Len(a) /\ DOMAIN b = 1..Len(b)
  OBVIOUS
<1>2. DOMAIN (a \o b) = 1..Len(a) + Len(b)
  OBVIOUS
<1> QED
  BY <1>1, <1>2

\* Two increasing sequences of events, one behind the other, make one.
LEMMA JoinOrdered ==
  ASSUME NEW a \in Seq(Event), NEW b \in Seq(Event),
         \A i, j \in DOMAIN a : i < j => a[i].seq < a[j].seq,
         \A i, j \in DOMAIN b : i < j => b[i].seq < b[j].seq,
         \A i \in DOMAIN a, j \in DOMAIN b : a[i].seq < b[j].seq
  PROVE  \A i, j \in DOMAIN (a \o b) : i < j => (a \o b)[i].seq < (a \o b)[j].seq
<1>1. Len(a) \in Nat /\ Len(b) \in Nat /\ DOMAIN a = 1..Len(a) /\ DOMAIN b = 1..Len(b)
  OBVIOUS
<1>2. DOMAIN (a \o b) = 1..Len(a) + Len(b)
  OBVIOUS
<1>3. \A i \in DOMAIN (a \o b) :
        \/ i \in DOMAIN a /\ (a \o b)[i] = a[i]
        \/ i > Len(a) /\ i - Len(a) \in DOMAIN b /\ (a \o b)[i] = b[i - Len(a)]
  BY JoinCases
<1> SUFFICES ASSUME NEW i \in DOMAIN (a \o b), NEW j \in DOMAIN (a \o b), i < j
             PROVE  (a \o b)[i].seq < (a \o b)[j].seq
  OBVIOUS
<1>4. i \in Nat /\ j \in Nat
  BY <1>1, <1>2
<1>5. CASE i \in DOMAIN a /\ j \in DOMAIN a
  <2>1. (a \o b)[i] = a[i] /\ (a \o b)[j] = a[j]
    BY <1>1, <1>3, <1>5
  <2> QED
    BY <1>5, <2>1
<1>6. CASE i \in DOMAIN a /\ j \notin DOMAIN a
  BY <1>1, <1>3, <1>6
<1>7. CASE i \notin DOMAIN a
  <2>1. i > Len(a) /\ i - Len(a) \in DOMAIN b /\ (a \o b)[i] = b[i - Len(a)]
    BY <1>3, <1>7
  <2>2. j > Len(a) /\ j - Len(a) \in DOMAIN b /\ (a \o b)[j] = b[j - Len(a)]
    BY <1>1, <1>3, <1>4, <2>1
  <2>3. i - Len(a) < j - Len(a)
    BY <1>1, <1>4
  <2> QED
    BY <2>1, <2>2, <2>3
<1> QED
  BY <1>5, <1>6, <1>7

\* The hook is given the events of one call after those of the call before.
LEMMA HookNotify ==
  ASSUME IInv, HookInv, NEW t \in Thread, Notify(t)
  PROVE  HookInv'
<1> DEFINE h == HandleOf[t]
<1>1. h \in Handle /\ hooked[h] \in Seq(Event) /\ stored[t] \in Seq(Event) /\ Len(lines) \in Nat
  BY LedgerAssumption DEF IInv, TypeOK
<1>2. /\ pc[t] = "notify" /\ pc'[t] = "idle" /\ lines' = lines
      /\ hooked'[h] = hooked[h] \o stored[t]
      /\ \A g \in Handle \ {h} : hooked'[g] = hooked[g]
      /\ \A u \in Thread \ {t} : pc'[u] = pc[u] /\ stored'[u] = stored[u]
  BY <1>1 DEF Notify, Goto, fileVars, IInv, TypeOK
<1>3. HookInOrder'
  <2>1. \A i, j \in DOMAIN hooked'[h] : i < j => hooked'[h][i].seq < hooked'[h][j].seq
    <3>1. \A i, j \in DOMAIN hooked[h] : i < j => hooked[h][i].seq < hooked[h][j].seq
      BY <1>1 DEF HookInv, HookInOrder
    <3>2. Fresh(t)
      BY DEF HookInv
    <3>3. \A i, j \in DOMAIN stored[t] : i < j => stored[t][i].seq < stored[t][j].seq
      BY <1>2, <3>2 DEF Fresh, Carrying
    <3>4. \A i \in DOMAIN hooked[h], j \in DOMAIN stored[t] : hooked[h][i].seq < stored[t][j].seq
      BY <1>2, <3>2 DEF Fresh, Carrying
    <3> QED
      BY <1>1, <1>2, <3>1, <3>3, <3>4, JoinOrdered
  <2> QED
    BY <1>2, <2>1 DEF HookInv, HookInOrder
<1>4. \A g \in Handle : \A i \in DOMAIN hooked'[g] : hooked'[g][i].seq <= Len(lines')
  <2>1. ASSUME NEW i \in DOMAIN (hooked[h] \o stored[t])
        PROVE  (hooked[h] \o stored[t])[i].seq <= Len(lines)
    <3>1. \/ i \in DOMAIN hooked[h] /\ (hooked[h] \o stored[t])[i] = hooked[h][i]
          \/ \E j \in DOMAIN stored[t] : (hooked[h] \o stored[t])[i] = stored[t][j]
      BY <1>1, JoinCases
    <3>2. \A j \in DOMAIN stored[t] : stored[t][j].seq <= Len(lines)
      <4>1. \A j \in DOMAIN stored[t] : stored[t][j].seq \in DOMAIN lines
        BY <1>2 DEF IInv, WriterInv, StoredOnLog
      <4>2. DOMAIN lines = 1..Len(lines)
        BY DEF IInv, TypeOK
      <4> QED
        BY <1>1, <4>1, <4>2
    <3>3. \A j \in DOMAIN hooked[h] : hooked[h][j].seq <= Len(lines)
      BY <1>1 DEF HookInv
    <3> QED
      BY <3>1, <3>2, <3>3
  <2> QED
    BY <1>2, <2>1 DEF HookInv
<1>5. ASSUME NEW u \in Thread, pc'[u] \in Carrying PROVE Fresh(u)'
  <2>1. u # t /\ pc[u] \in Carrying
    BY <1>2, <1>5 DEF Carrying
  <2>2. mu[HandleOf[u]] = u /\ mu[h] = t
    BY <1>2, <2>1 DEF IInv, LocksHeld, Locked, Carrying
  <2>3. HandleOf[u] # h /\ HandleOf[u] \in Handle
    BY <2>1, <2>2, LedgerAssumption
  <2>4. hooked'[HandleOf[u]] = hooked[HandleOf[u]] /\ stored'[u] = stored[u] /\ pc'[u] = pc[u]
    BY <1>2, <2>1, <2>3
  <2> QED
    BY <2>4 DEF HookInv, Fresh
<1> QED
  BY <1>3, <1>4, <1>5 DEF HookInv, Fresh

\* What is left: the steps that hand nothing over and number nothing.
LEMMA HookOthers ==
  ASSUME IInv, [Next]_vars,
         \A t \in Thread : ~PrepareWrite(t) /\ ~Notify(t)
  PROVE  /\ \A h \in Handle : hooked'[h] = hooked[h] \/ hooked'[h] = <<>>
         /\ \A t \in Thread : pc'[t] \in Carrying => pc[t] \in Carrying /\ stored'[t] = stored[t]
<1> DEFINE Quiet ==
             /\ \A h \in Handle : hooked'[h] = hooked[h] \/ hooked'[h] = <<>>
             /\ \A t \in Thread : pc'[t] \in Carrying => pc[t] \in Carrying /\ stored'[t] = stored[t]
<1>0. pc \in [Thread -> Label] /\ hooked \in [Handle -> Seq(Event)] /\ stored \in [Thread -> Seq(Event)]
  BY DEF IInv, TypeOK
<1>1. ASSUME NEW t \in Thread, LockMu(t) \/ LockFile(t) \/ SyncLog(t) PROVE Quiet
  BY <1>0, <1>1 DEF LockMu, LockFile, SyncLog, Goto, threadVars, Carrying
<1>2. ASSUME NEW t \in Thread, WriteText(t) \/ WriteNewline(t) \/ Unlock(t) PROVE Quiet
  BY <1>0, <1>2 DEF WriteText, WriteNewline, Unlock, Goto, threadVars, Carrying
<1>3. ASSUME NEW t \in Thread, ReturnError(t) PROVE Quiet
  BY <1>0, <1>3 DEF ReturnError, Goto, Carrying
<1>4. ASSUME NEW t \in Thread, Fault(t) PROVE Quiet
  BY <1>0, <1>4 DEF Fault, LockFileFails, DecideFails, WriteFails, Goto, threadVars, Carrying
<1>5. ASSUME NEW t \in Thread, NEW o \in Op, Call(t, o) PROVE Quiet
  BY <1>0, <1>5 DEF Call, Goto, Carrying
<1>6. ASSUME NEW h \in Handle, Open(h) \/ OpenUnlocked(h) PROVE Quiet
  BY <1>6 DEF Open, OpenUnlocked, threadVars
<1>7. ASSUME NEW h \in Handle, Crash(h) PROVE Quiet
  BY <1>0, <1>7 DEF Crash, Carrying
<1>8. ASSUME ReadFrom \/ UNCHANGED vars PROVE Quiet
  BY <1>8 DEF ReadFrom, vars, threadVars
<1> HIDE DEF Quiet
<1>9. ASSUME NEW t \in Thread, Step(t) PROVE Quiet
  BY <1>1, <1>2, <1>3, <1>9 DEF Step
<1>10. Quiet
  BY <1>4, <1>5, <1>6, <1>7, <1>8, <1>9 DEF Next
<1> QED
  BY <1>10 DEF Quiet

\* The append hook of a handle sees its events in the order of their numbers
\* (ledger.go:46-51), though the file lock is free while it runs.
THEOREM HooksInOrder == Spec => []HookInOrder
<1>1. Init => HookInv
  BY LedgerAssumption DEF Init, HookInv, HookInOrder, Fresh, Carrying
<1>2. IInv /\ HookInv /\ [Next]_vars => HookInv'
  BY HookFrame, HookOthers, HookPrepare, HookNotify
<1>3. HookInv => HookInOrder
  BY DEF HookInv
<1> QED
  BY <1>1, <1>2, <1>3, Invariance, PTL DEF Spec

-----------------------------------------------------------------------------
(* Checked keys *)

\* What is still to be written is new, if it was checked, and listed once.
Pending(t) ==
  pc[t] \in {"write", "close"} =>
    /\ \A i, j \in DOMAIN buf[t] : buf[t][i].key = buf[t][j].key => i = j
    /\ \A i \in DOMAIN buf[t] : Checked(buf[t][i].key) => ~OnLog(buf[t][i].key)

KeyInv == KeyAppendedOnce /\ \A t \in Thread : Pending(t)

\* A step that neither writes a line nor gives anybody events changes nothing.
LEMMA KeyFrame ==
  ASSUME KeyInv, lines' = lines,
         \A t \in Thread : pc'[t] \in {"write", "close"} =>
           pc[t] \in {"write", "close"} /\ buf'[t] = buf[t]
  PROVE  KeyInv'
<1>1. KeyAppendedOnce'
  BY DEF KeyInv, KeyAppendedOnce
<1>2. ASSUME NEW t \in Thread PROVE Pending(t)'
  BY DEF KeyInv, Pending, OnLog
<1> QED
  BY <1>1, <1>2 DEF KeyInv

\* decide drops the keys the log holds, and no other writer is past its check.
LEMMA KeyPrepare ==
  ASSUME IInv, KeyInv, NEW t \in Thread, PrepareWrite(t)
  PROVE  KeyInv'
<1> DEFINE S == Decide(op[t])
           n == nextSeq[HandleOf[t]]
<1>1. PICK keys \in Orders(S) : buf' = [buf EXCEPT ![t] = Numbered(keys, n)]
  BY DEF PrepareWrite
<1>2. lines' = lines
  BY DEF PrepareWrite, fileVars
<1>3. \A u \in Thread \ {t} : pc'[u] = pc[u] /\ buf'[u] = buf[u]
  BY DEF PrepareWrite, Goto, IInv, TypeOK
<1>4. buf'[t] = Numbered(keys, n)
  BY <1>1 DEF IInv, TypeOK
<1>5. /\ DOMAIN buf'[t] = DOMAIN keys
      /\ \A i \in DOMAIN keys : buf'[t][i].key = keys[i] /\ keys[i] \in S
      /\ \A i, j \in DOMAIN keys : keys[i] = keys[j] => i = j
  BY <1>4 DEF Orders, Numbered
<1>6. \A k \in S : Checked(k) => ~OnLog(k)
  <2>1. op[t] \in Op \/ op[t] = NoOp
    BY DEF IInv, TypeOK
  <2>2. CASE op[t].kind = "Append"
    BY <2>1, <2>2 DEF Decide, Checked, NoOp
  <2>3. CASE op[t].kind # "Append"
    BY <2>3 DEF Decide
  <2> QED
    BY <2>2, <2>3
<1>7. Pending(t)'
  BY <1>2, <1>5, <1>6 DEF Pending, OnLog
<1>8. ASSUME NEW u \in Thread PROVE Pending(u)'
  BY <1>2, <1>3, <1>7 DEF KeyInv, Pending, OnLog
<1> QED
  BY <1>2, <1>8 DEF KeyInv, KeyAppendedOnce

\* A line that is written holds a key that was not on the log, if checked.
LEMMA KeyNewline ==
  ASSUME IInv, KeyInv, NEW t \in Thread, WriteNewline(t)
  PROVE  KeyInv'
<1> DEFINE e == Head(buf[t])
<1>1. /\ buf[t] \in Seq(Event) /\ buf[t] # <<>> /\ e \in Event
      /\ lines' = Append(lines, e)
  BY NewlineAppends
<1>2. lines \in Seq(Event) /\ Len(lines) \in Nat /\ DOMAIN lines = 1..Len(lines)
  BY DEF IInv, TypeOK
<1>3. /\ DOMAIN lines' = 1..(Len(lines) + 1)
      /\ \A i \in DOMAIN lines : lines'[i] = lines[i]
      /\ lines'[Len(lines) + 1] = e
  BY <1>1, <1>2, AppendKeeps
<1>4. /\ pc[t] = "close" /\ buf'[t] = Tail(buf[t])
      /\ \A u \in Thread \ {t} : pc'[u] = pc[u]
  BY DEF WriteNewline, IInv, TypeOK
<1>5. /\ \A i, j \in DOMAIN buf[t] : buf[t][i].key = buf[t][j].key => i = j
      /\ \A i \in DOMAIN buf[t] : Checked(buf[t][i].key) => ~OnLog(buf[t][i].key)
  BY <1>4 DEF KeyInv, Pending
<1>6. 1 \in DOMAIN buf[t] /\ e = buf[t][1]
  BY <1>1
<1>7. Checked(e.key) => ~OnLog(e.key)
  BY <1>5, <1>6
<1>8. KeyAppendedOnce'
  <2> SUFFICES ASSUME NEW i \in DOMAIN lines', NEW j \in DOMAIN lines',
                      lines'[i].key = lines'[j].key, Checked(lines'[i].key)
               PROVE  i = j
    BY DEF KeyAppendedOnce
  <2>1. CASE i \in DOMAIN lines /\ j \in DOMAIN lines
    BY <1>3, <2>1 DEF KeyInv, KeyAppendedOnce
  <2>2. CASE i \in DOMAIN lines /\ j = Len(lines) + 1
    BY <1>3, <1>7, <2>2 DEF OnLog
  <2>3. CASE i = Len(lines) + 1 /\ j \in DOMAIN lines
    BY <1>3, <1>7, <2>3 DEF OnLog
  <2>4. CASE i = Len(lines) + 1 /\ j = Len(lines) + 1
    BY <2>4
  <2>5. (i \in DOMAIN lines \/ i = Len(lines) + 1) /\ (j \in DOMAIN lines \/ j = Len(lines) + 1)
    BY <1>2, <1>3
  <2> QED
    BY <2>1, <2>2, <2>3, <2>4, <2>5
<1>9. Pending(t)'
  <2>1. \A i \in DOMAIN Tail(buf[t]) :
          i \in Nat /\ i + 1 \in DOMAIN buf[t] /\ Tail(buf[t])[i] = buf[t][i + 1]
    BY <1>1, TailFacts
  <2>2. ASSUME NEW i \in DOMAIN buf'[t], NEW j \in DOMAIN buf'[t], buf'[t][i].key = buf'[t][j].key
        PROVE  i = j
    <3>1. /\ i \in Nat /\ i + 1 \in DOMAIN buf[t] /\ buf'[t][i] = buf[t][i + 1]
          /\ j \in Nat /\ j + 1 \in DOMAIN buf[t] /\ buf'[t][j] = buf[t][j + 1]
      BY <1>4, <2>1, <2>2
    <3>2. i + 1 = j + 1
      BY <1>5, <2>2, <3>1
    <3> QED
      BY <3>1, <3>2
  <2>3. ASSUME NEW i \in DOMAIN buf'[t], Checked(buf'[t][i].key), NEW j \in DOMAIN lines'
        PROVE  lines'[j].key # buf'[t][i].key
    <3>1. i \in Nat /\ i + 1 \in DOMAIN buf[t] /\ buf'[t][i] = buf[t][i + 1]
      BY <1>4, <2>1, <2>3
    <3>2. ~OnLog(buf'[t][i].key)
      BY <1>5, <2>3, <3>1
    <3>3. e.key # buf'[t][i].key
      <4>1. i + 1 # 1
        BY <3>1, <2>3, <1>4, <1>1
      <4> QED
        BY <1>5, <1>6, <3>1, <4>1
    <3>4. j \in DOMAIN lines \/ j = Len(lines) + 1
      BY <1>2, <1>3, <2>3
    <3> QED
      BY <1>3, <3>2, <3>3, <3>4 DEF OnLog
  <2> QED
    BY <2>2, <2>3 DEF Pending, OnLog
<1>10. ASSUME NEW u \in Thread, u # t PROVE Pending(u)'
  <2>1. pc[u] \notin Locked
    BY <1>4, <1>10, OneLocked DEF Locked
  <2>2. pc'[u] \notin {"write", "close"}
    BY <1>4, <1>10, <2>1 DEF Locked
  <2> QED
    BY <2>2 DEF Pending
<1> QED
  BY <1>8, <1>9, <1>10 DEF KeyInv

\* What is left: the steps that write no line and give nobody events.
LEMMA KeyOthers ==
  ASSUME IInv, [Next]_vars,
         \A t \in Thread : ~PrepareWrite(t) /\ ~WriteNewline(t)
  PROVE  /\ lines' = lines
         /\ \A t \in Thread : pc'[t] \in {"write", "close"} =>
              pc[t] \in {"write", "close"} /\ buf'[t] = buf[t]
<1> DEFINE Quiet ==
             /\ lines' = lines
             /\ \A t \in Thread : pc'[t] \in {"write", "close"} =>
                  pc[t] \in {"write", "close"} /\ buf'[t] = buf[t]
<1>0. pc \in [Thread -> Label] /\ buf \in [Thread -> Seq(Event)]
  BY DEF IInv, TypeOK
<1>1. ASSUME NEW t \in Thread, LockMu(t) \/ LockFile(t) PROVE Quiet
  BY <1>0, <1>1 DEF LockMu, LockFile, Goto, fileVars, threadVars
<1>2. ASSUME NEW t \in Thread, SyncLog(t) PROVE Quiet
  <2>1. lines' = lines
    BY <1>2, LedgerAssumption, SyncExact DEF SyncLog, fileVars
  <2>2. \A u \in Thread : pc'[u] \in {"write", "close"} =>
          pc[u] \in {"write", "close"} /\ buf'[u] = buf[u]
    BY <1>0, <1>2 DEF SyncLog, threadVars
  <2> QED
    BY <2>1, <2>2
<1>3. ASSUME NEW t \in Thread, WriteText(t) \/ Unlock(t) PROVE Quiet
  BY <1>0, <1>3 DEF WriteText, Unlock, Goto, fileVars, threadVars
<1>4. ASSUME NEW t \in Thread, ReturnError(t) \/ Notify(t) PROVE Quiet
  BY <1>0, <1>4 DEF ReturnError, Notify, Goto, fileVars
<1>5. ASSUME NEW t \in Thread, Fault(t) PROVE Quiet
  BY <1>0, <1>5 DEF Fault, LockFileFails, DecideFails, WriteFails, Goto, fileVars, threadVars
<1>6. ASSUME NEW t \in Thread, NEW o \in Op, Call(t, o) PROVE Quiet
  BY <1>0, <1>6 DEF Call, Goto, fileVars
<1>7. ASSUME NEW h \in Handle, Open(h) PROVE Quiet
  <2>1. lines' = lines
    BY <1>7, SyncExact DEF Open
  <2> QED
    BY <1>7, <2>1 DEF Open, threadVars
<1>8. ASSUME NEW h \in Handle, OpenUnlocked(h) PROVE Quiet
  BY <1>8 DEF OpenUnlocked, fileVars, threadVars
<1>9. ASSUME NEW h \in Handle, Crash(h) PROVE Quiet
  BY <1>0, <1>9 DEF Crash, fileVars
<1>10. ASSUME ReadFrom \/ UNCHANGED vars PROVE Quiet
  BY <1>10 DEF ReadFrom, vars, fileVars, threadVars
<1> HIDE DEF Quiet
<1>11. ASSUME NEW t \in Thread, Step(t) PROVE Quiet
  BY <1>1, <1>2, <1>3, <1>4, <1>11 DEF Step
<1>12. Quiet
  BY <1>5, <1>6, <1>7, <1>8, <1>9, <1>10, <1>11 DEF Next
<1> QED
  BY <1>12 DEF Quiet

\* A key that is only appended after a check that it is new is on the log once
\* (ledger.go:126-129), whoever retries it and whichever write failed half way.
THEOREM KeysOnce == Spec => []KeyAppendedOnce
<1>1. Init => KeyInv
  BY DEF Init, KeyInv, KeyAppendedOnce, Pending
<1>2. IInv /\ KeyInv /\ [Next]_vars => KeyInv'
  BY KeyFrame, KeyOthers, KeyPrepare, KeyNewline
<1>3. KeyInv => KeyAppendedOnce
  BY DEF KeyInv
<1> QED
  BY <1>1, <1>2, <1>3, Invariance, PTL DEF Spec
=============================================================================
