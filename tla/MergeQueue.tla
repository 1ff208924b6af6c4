------------------------------ MODULE MergeQueue ------------------------------
(***************************************************************************)
(* src/internal/mergequeue/mergequeue.go (Process, DryRun, ProcessBatch)   *)
(* over the integration repository, and what the Scheduler makes of what   *)
(* they return.  Git and the Gate's commands are not code of the           *)
(* repository: a merge conflicts when the branch clashes with one already  *)
(* merged or the work tree is dirty; the Gate fails on a Red content, and  *)
(* when it cannot run.  A branch is a number, in the order the proposals   *)
(* are handed over; a new attempt at a ticket is a new branch.             *)
(***************************************************************************)
EXTENDS Naturals, Sequences, FiniteSets

CONSTANTS Branch,
          Files,          \* the files each branch changes
          Clash,          \* pairs of branches that do not merge
          Red,            \* the sets of branches whose union fails the Gate
          MaxFaults       \* bound: failures of git and the Gate, crashes

ASSUME QueueAssumption ==
  /\ Branch \subseteq Nat /\ IsFiniteSet(Branch)
  /\ Clash \subseteq SUBSET Branch
  /\ Red \subseteq SUBSET Branch /\ {} \notin Red
  /\ MaxFaults \in Nat

VARIABLES head,     \* the branches merged on the checked-out branch, in order
          dirty,    \* a merge is half done in its work tree
          pc,       \* where the call is; "idle" between calls
          kind,     \* which function was called
          props,    \* its proposals, and those whose outcome is not on the log
          left,     \* proposals not yet sorted, or not yet merged into the union
          batch,    \* the disjoint ones
          serial,   \* the others
          queue,    \* those to process one at a time now
          cur,      \* the one being processed
          pre,      \* HEAD before the merge in hand
          result,   \* what the rollback in hand ends with
          outcome,  \* what the call returns for each proposal
          verdict,  \* what the log says of each branch
          start,    \* history: head between calls, as long as there is no harm
          harm,     \* history: a rollback failed, or the process died in a call
          stray,    \* history: merged by a call that never said so
          base,     \* o.verifiedBase: what worktrees are cut from
          faults

callVars == <<kind, props, left, batch, serial, queue, cur, pre, result, outcome>>
repoVars == <<head, dirty>>
vars == <<repoVars, pc, callVars, verdict, start, stray, harm, base, faults>>

Main == INSTANCE MainBranch WITH main <- start

Content(s) == Main!Content(s)
None == 0

Least(b, S) == b \in S /\ \A a \in S : b <= a

Init ==
  /\ head = <<>> /\ dirty = FALSE /\ pc = "idle"
  /\ kind = "one" /\ props = {} /\ left = {} /\ batch = {} /\ serial = {} /\ queue = {}
  /\ cur = None /\ pre = <<>> /\ result = "none"
  /\ outcome = [b \in Branch |-> "none"] /\ verdict = [b \in Branch |-> "none"]
  /\ start = <<>> /\ stray = {} /\ harm = FALSE /\ base = <<>> /\ faults = 0

Fault == faults < MaxFaults /\ faults' = faults + 1

-----------------------------------------------------------------------------
(* git and the Gate *)

Conflicts(b) == dirty \/ \E a \in Content(head) : {a, b} \in Clash

\* Merging what is already there changes nothing.
Merged(b) == IF b \in Content(head) THEN head ELSE Append(head, b)

\* git merge fails without a conflict, or what it made cannot be named.
MergeFails(b) ==
  /\ head' = head \/ (~Conflicts(b) /\ head' = Merged(b))
  /\ UNCHANGED dirty

\* ChangedFiles: against the merge base, so nothing once it is merged.
ChangedFiles(b) == IF b \in Content(head) THEN {} ELSE Files[b]

ResetHard == head' = pre /\ dirty' = FALSE

GatePasses == Content(head) \notin Red

-----------------------------------------------------------------------------
(* The calls *)

Call(k, S) ==
  /\ pc = "idle"
  /\ kind' = k /\ props' = S
  /\ outcome' = [b \in Branch |-> "none"] /\ cur' = None /\ result' = "none"
  /\ batch' = {} /\ serial' = {} /\ pre' = head
  /\ IF k = "batch" THEN pc' = "select" /\ left' = S /\ queue' = {}
     ELSE pc' = "process" /\ left' = {} /\ queue' = S
  /\ UNCHANGED <<repoVars, verdict, start, stray, harm, base, faults>>

Open == {b \in Branch : verdict[b] \in {"none", "verified"}}

Process(b) == b \in Open /\ Call("one", {b})
DryRun(b)  == b \in Open /\ verdict[b] = "none" /\ Call("dry", {b})
ProcessBatch(S) ==
  /\ S \subseteq {b \in Branch : verdict[b] = "none"} /\ Cardinality(S) > 1
  /\ Call("batch", S)

-----------------------------------------------------------------------------
(* ProcessBatch: the disjoint proposals, merged together *)

Sort(b, disjoint) ==
  /\ left' = left \ {b}
  /\ IF disjoint THEN batch' = batch \cup {b} /\ UNCHANGED serial
     ELSE serial' = serial \cup {b} /\ UNCHANGED batch

Select(b) ==
  LET files == ChangedFiles(b)
  IN /\ pc = "select" /\ Least(b, left)
     /\ \/ /\ Sort(b, files # {} /\ \A a \in batch : files \cap Files[a] = {})
           /\ UNCHANGED faults
        \/ Fault /\ Sort(b, FALSE)
     /\ UNCHANGED <<repoVars, pc, kind, props, queue, cur, pre, result, outcome,
                    verdict, start, stray, harm, base>>

EndSelect ==
  /\ pc = "select" /\ left = {}
  /\ pre' = head
  /\ \/ /\ Cardinality(batch) < 2
        /\ pc' = "process" /\ queue' = props /\ serial' = {} /\ batch' = {}
        /\ UNCHANGED <<left, faults>>
     \/ /\ Cardinality(batch) >= 2
        /\ pc' = "union" /\ left' = batch /\ UNCHANGED <<queue, serial, batch, faults>>
     \/ /\ Cardinality(batch) >= 2 /\ Fault   \* HEAD cannot be read
        /\ pc' = "error" /\ UNCHANGED <<left, queue, serial, batch>>
  /\ UNCHANGED <<repoVars, kind, props, cur, result, outcome, verdict, start, stray, harm, base>>

MergeMember(b) ==
  /\ pc = "union" /\ Least(b, left)
  /\ \/ /\ ~Conflicts(b)
        /\ head' = Merged(b) /\ left' = left \ {b}
        /\ UNCHANGED <<dirty, pc, faults>>
     \/ /\ Conflicts(b)
        /\ dirty' = TRUE /\ pc' = "batchundo" /\ UNCHANGED <<head, left, faults>>
     \/ /\ Fault /\ MergeFails(b)
        /\ pc' = "batchundo" /\ UNCHANGED left
  /\ UNCHANGED <<kind, props, batch, serial, queue, cur, pre, result, outcome,
                 verdict, start, stray, harm, base>>

\* One Gate run for the union; it also fails when it cannot run or when the
\* tree cannot be read.
GateBatch ==
  /\ pc = "union" /\ left = {}
  /\ \/ /\ GatePasses
        /\ outcome' = [b \in Branch |-> IF b \in batch THEN "merged" ELSE outcome[b]]
        /\ queue' = serial /\ serial' = {} /\ pc' = "process" /\ UNCHANGED faults
     \/ /\ IF GatePasses THEN Fault ELSE UNCHANGED faults
        /\ pc' = "batchundo" /\ UNCHANGED <<outcome, queue, serial>>
  /\ UNCHANGED <<repoVars, kind, props, left, batch, cur, pre, result, verdict, start, stray, harm, base>>

\* Mutant: the members of a failed batch are not isolated.
UndoBatchRejectingAll ==
  /\ pc = "batchundo" /\ ResetHard
  /\ outcome' = [b \in Branch |-> IF b \in batch THEN "rejected" ELSE outcome[b]]
  /\ queue' = serial /\ serial' = {} /\ pc' = "process" /\ left' = {}
  /\ UNCHANGED <<kind, props, batch, cur, pre, result, verdict, start, stray, harm, base, faults>>

\* Mutant: main goes back to where worktrees are cut from.
UndoBatchToBase ==
  /\ pc = "batchundo"
  /\ head' = base /\ dirty' = FALSE
  /\ queue' = batch /\ pc' = "process" /\ left' = {}
  /\ UNCHANGED <<kind, props, batch, serial, cur, pre, result, outcome, verdict, start,
                 stray, harm, base, faults>>

\* Mutant: a rollback that only cleans the work tree.
UndoBatchWorkTree ==
  /\ pc = "batchundo"
  /\ dirty' = FALSE /\ queue' = batch /\ pc' = "process" /\ left' = {}
  /\ UNCHANGED <<head, kind, props, batch, serial, cur, pre, result, outcome, verdict, start,
                 stray, harm, base, faults>>

UndoBatch ==
  /\ pc = "batchundo"
  /\ \/ /\ ResetHard /\ UNCHANGED <<harm, faults>>
        /\ queue' = batch /\ pc' = "process" /\ left' = {}
     \/ /\ Fault /\ harm' = TRUE
        /\ pc' = "error" /\ UNCHANGED <<repoVars, queue, left>>
  /\ UNCHANGED <<kind, props, batch, serial, cur, pre, result, outcome, verdict, start, stray, base>>

-----------------------------------------------------------------------------
(* Process and DryRun, also for each proposal of a batch that is not in the union *)

Merge(b) ==
  /\ pc = "process" /\ Least(b, queue)
  /\ \/ /\ Conflicts(b)
        /\ dirty' = TRUE /\ result' = "rejected" /\ pc' = "undo" /\ UNCHANGED <<head, faults>>
     \/ /\ ~Conflicts(b)
        /\ head' = Merged(b) /\ pc' = "gate" /\ UNCHANGED <<dirty, result, faults>>
     \/ /\ Fault /\ MergeFails(b)
        /\ result' = "rejected" /\ pc' = "undo"
     \/ /\ Fault   \* HEAD cannot be read
        /\ result' = "error" /\ pc' = "error" /\ UNCHANGED repoVars
  /\ queue' = queue \ {b} /\ cur' = b /\ pre' = head
  /\ UNCHANGED <<kind, props, left, batch, serial, outcome, verdict, start, stray, harm, base>>

\* Mutant: a passing dry run keeps its merge.
GateKeepingDryRun ==
  /\ pc = "gate"
  /\ IF GatePasses
     THEN /\ outcome' = [outcome EXCEPT ![cur] = IF kind = "dry" THEN "verified" ELSE "merged"]
          /\ pc' = "process" /\ UNCHANGED result
     ELSE result' = "rejected" /\ pc' = "undo" /\ UNCHANGED outcome
  /\ UNCHANGED <<repoVars, kind, props, left, batch, serial, queue, cur, pre,
                 verdict, start, stray, harm, base, faults>>

Gate ==
  /\ pc = "gate"
  /\ \/ /\ GatePasses /\ kind # "dry"
        /\ outcome' = [outcome EXCEPT ![cur] = "merged"]
        /\ pc' = "process" /\ UNCHANGED <<result, faults>>
     \/ /\ GatePasses /\ kind = "dry"
        /\ result' = "verified" /\ pc' = "undo" /\ UNCHANGED <<outcome, faults>>
     \/ /\ IF GatePasses THEN Fault ELSE UNCHANGED faults
        /\ result' = "rejected" /\ pc' = "undo" /\ UNCHANGED outcome
     \/ /\ Fault   \* verifiedTree
        /\ result' = "error" /\ pc' = "undo" /\ UNCHANGED outcome
  /\ UNCHANGED <<repoVars, kind, props, left, batch, serial, queue, cur, pre,
                 verdict, start, stray, harm, base>>

Undo ==
  /\ pc = "undo"
  /\ \/ /\ ResetHard /\ UNCHANGED <<harm, faults>>
        /\ IF result = "error" THEN pc' = "error" /\ UNCHANGED outcome
           ELSE pc' = "process" /\ outcome' = [outcome EXCEPT ![cur] = result]
     \/ /\ Fault /\ harm' = TRUE
        /\ pc' = "error" /\ UNCHANGED <<repoVars, outcome>>
  /\ UNCHANGED <<kind, props, left, batch, serial, queue, cur, pre, result,
                 verdict, start, stray, base>>

EndQueue ==
  /\ pc = "process" /\ queue = {}
  /\ queue' = serial /\ serial' = {}
  /\ pc' = IF serial = {} THEN "done" ELSE "process"
  /\ UNCHANGED <<repoVars, kind, props, left, batch, cur, pre, result, outcome,
                 verdict, start, stray, harm, base, faults>>

-----------------------------------------------------------------------------
(* The Scheduler: applyMergeOutcome, processProposal, markVerifiedBase *)

ToIdle == pc' = "idle" /\ start' = IF harm' THEN start ELSE head'

Record(b) ==
  /\ pc = "done" /\ Least(b, props)
  /\ verdict' = [verdict EXCEPT ![b] = outcome[b]]
  /\ props' = props \ {b}
  /\ UNCHANGED <<repoVars, pc, kind, left, batch, serial, queue, cur, pre, result, outcome,
                 start, stray, harm, base, faults>>

EndCall ==
  /\ pc = "done" /\ props = {}
  /\ UNCHANGED <<head, harm>> /\ ToIdle
  /\ UNCHANGED <<dirty, callVars, verdict, stray, base, faults>>

\* An error of Process or DryRun counts as a failed attempt; one of
\* ProcessBatch ends the Run, and the proposals stay.
Error ==
  /\ pc = "error"
  /\ verdict' = IF kind = "batch" THEN verdict ELSE [verdict EXCEPT ![cur] = "rejected"]
  /\ stray' = IF kind = "batch" THEN stray \cup (props \cap Content(head)) ELSE stray
  /\ props' = {} /\ UNCHANGED <<head, harm>> /\ ToIdle
  /\ UNCHANGED <<dirty, kind, left, batch, serial, queue, cur, pre, result, outcome,
                 base, faults>>

\* Mutant: HEAD is read without regard to a merge in flight.
MarkVerifiedBaseAnytime ==
  /\ base' = head
  /\ UNCHANGED <<repoVars, pc, callVars, verdict, start, stray, harm, faults>>

MarkVerifiedBase ==
  /\ pc = "idle"
  /\ base' = head
  /\ UNCHANGED <<repoVars, pc, callVars, verdict, start, stray, harm, faults>>

\* The process dies; git finishes or undoes nothing for it.
Crash ==
  /\ pc # "idle" /\ Fault /\ harm' = TRUE
  /\ stray' = stray \cup (props \cap Content(head))
  /\ props' = {} /\ UNCHANGED head /\ ToIdle
  /\ UNCHANGED <<dirty, kind, left, batch, serial, queue, cur, pre, result, outcome,
                 verdict, base>>

-----------------------------------------------------------------------------
Next ==
  \/ EndSelect \/ GateBatch \/ UndoBatch \/ Gate \/ Undo \/ EndQueue \/ EndCall \/ Error
  \/ MarkVerifiedBase \/ Crash
  \/ \E b \in Branch :
       Process(b) \/ DryRun(b) \/ Select(b) \/ MergeMember(b) \/ Merge(b) \/ Record(b)
  \/ \E S \in SUBSET Branch : ProcessBatch(S)

Spec == Init /\ [][Next]_vars

-----------------------------------------------------------------------------
(* Properties *)

Label == {"idle", "select", "union", "batchundo", "process", "gate", "undo", "done", "error"}
Verdict == {"none", "verified", "merged", "rejected"}

\* Types; in particular every proposal of a finished call has an outcome.
TypeOK ==
  /\ head \in Seq(Branch) /\ dirty \in BOOLEAN /\ pc \in Label
  /\ kind \in {"one", "dry", "batch"}
  /\ props \subseteq Branch /\ left \subseteq Branch /\ batch \subseteq Branch
  /\ serial \subseteq Branch /\ queue \subseteq Branch
  /\ cur \in Branch \cup {None} /\ pre \in Seq(Branch)
  /\ result \in {"none", "verified", "rejected", "error"}
  /\ outcome \in [Branch -> Verdict] /\ verdict \in [Branch -> Verdict]
  /\ start \in Seq(Branch) /\ stray \subseteq Branch /\ harm \in BOOLEAN
  /\ base \in Seq(Branch) /\ faults \in Nat
  /\ pc = "done" => \A b \in props : outcome[b] # "none"

\* "main is never red": between calls nothing is half merged on it, and what
\* is on it passes the Gate, whatever was rejected, rolled back or batched.
NeverRed == pc = "idle" => ~dirty /\ Content(head) \notin Red

\* The same as far as the code goes: until a rollback fails or the process dies
\* inside a call, neither of which anything repairs.
AlwaysGreen == ~harm => NeverRed

\* What the log calls merged is on main for good: no later call, rollback,
\* failure or crash takes it away, not even for the time of a Gate run.
LandedStays == \A b \in Branch : verdict[b] = "merged" => b \in Content(head)

\* What the log calls rejected or parked is not on main, unless an earlier call
\* put it there and ended in an error before it could say so, or harm was done.
VerdictTruth ==
  pc = "idle" /\ ~harm =>
    \A b \in Branch :
      verdict[b] \in {"rejected", "verified"} /\ b \notin stray => b \notin Content(head)

\* A single bad proposal never sinks good neighbours: without failures of git
\* or of the Gate itself, a rejected branch conflicts with, or is red on top
\* of, some state of main it could have been merged into.
NoCollateral ==
  faults = 0 =>
    \A b \in Branch : verdict[b] = "rejected" =>
      \E n \in 0..Len(head) :
        LET on == Content(SubSeq(head, 1, n))
        IN on \cup {b} \in Red \/ \E a \in on : {a, b} \in Clash

\* Worktrees are only ever cut from a commit that passed the Gate, although
\* they are cut while a candidate is merged on the checked-out branch.
BaseGreen == ~harm => Content(base) \notin Red

\* Seen from outside the calls, main grows and stays green (until harm is done).
ImplementsMain == Main!Spec
=============================================================================
