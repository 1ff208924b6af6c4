------------------------------- MODULE Sessions -------------------------------
(***************************************************************************)
(* The sessions aoa did not start (ADR 022): src/cmd/aoa/sessions.go, the   *)
(* reading of a worktree in src/internal/worktree/observe.go, and the       *)
(* folding of their events in src/internal/state/sessions.go.              *)
(*                                                                         *)
(* Several `aoa sessions` and `aoa sessions check` may be at work on one    *)
(* repository, while its worktrees are edited, removed and made again.      *)
(* What a scan reads of a worktree is read at once; the scan, the record,  *)
(* the Gate, the second reading and the verdict are steps of their own.    *)
(***************************************************************************)
EXTENDS Naturals, Sequences, FiniteSets, SequencesExt, FiniteSetsExt

CONSTANTS Paths,       \* of linked worktrees
          Processes,   \* the commands at work
          Contents     \* of the commit and the tracked files of a worktree

ASSUME SessionAssumption == IsFiniteSet(Paths) /\ Contents # {} /\ "none" \notin Contents

VARIABLES trees,   \* by path: what is there
          slog,    \* the Event Log under the repository's git directory
          procs,   \* by process: where it is, and what it has read
          left     \* bounds: how many commands may start, with what --base, and how
                   \* many edits may come

svars == <<trees, slog, procs, left>>

\* A path is "gone" (or prunable), on a branch of aoa's "own", without an
\* identity ("strange": its .git cannot be read), without a commit ("empty") or
\* "fine".  agent and gate stamp the untracked files each has written, 0 if none.
Tree(born) == [born |-> born, is |-> "fine", tracked |-> CHOOSE c \in Contents : TRUE,
               agent |-> 0, gate |-> 0]

\* sessionID
IdOf(path) == <<path, trees[path].born>>

-----------------------------------------------------------------------------
(* observe.go *)

Fingerprint(t) == [tracked |-> t.tracked, agent |-> t.agent, gate |-> t.gate]

Tracked(fp) == fp.tracked

NoPrint == [tracked |-> "none", agent |-> 0, gate |-> 0]

-----------------------------------------------------------------------------
(* state/sessions.go *)

Observed(log, id) == {i \in DOMAIN log : log[i].type = "observed" /\ log[i].id = id}

Checks(log, id) ==
  {i \in DOMAIN log : log[i].type = "checked" /\ log[i].id = id /\ \E j \in Observed(log, id) : j < i}

Known(log) == {log[i].id : i \in {i \in DOMAIN log : log[i].type = "observed"}}

\* The fold of a session's events: a removed one keeps what it last showed.
Session(log, id) ==
  LET last == log[Max(Observed(log, id))]
      shown == log[Max({i \in Observed(log, id) : ~log[i].removed})]
  IN [removed |-> last.removed, fp |-> shown.fp, base |-> shown.base]

Same(x, o) == ~x.removed /\ x.fp = o.fp /\ x.base = o.base

Check(log, id) == log[Max(Checks(log, id))]

CheckStale(log, id) ==
  LET fp == Session(log, id).fp
      c == Check(log, id)
  IN fp # c.fp /\ fp # c.after

-----------------------------------------------------------------------------
(* Scanning and recording *)

Scan(base) ==
  LET at(kinds) == {p \in Paths : trees[p].is \in kinds}
  IN [base |-> base,
      obs |-> [id \in {IdOf(p) : p \in at({"fine"})} |->
                 [fp |-> Fingerprint(trees[id[1]]), base |-> base]],
      present |-> {IdOf(p) : p \in at({"fine", "empty"})},
      skipped |-> at({"strange"}),
      there |-> {IdOf(p) : p \in at({"fine", "empty", "strange"})}]   \* history

\* Mutant: what is removed already is removed again.
RemovedAgain(log, sc) ==
  {id \in Known(log) : id \notin sc.present /\ id[1] \notin sc.skipped}

Removed(log, sc) ==
  {id \in Known(log) :
     ~Session(log, id).removed /\ id \notin sc.present /\ id[1] \notin sc.skipped}

\* recordSessions, under the lock.
Recorded(log, sc) ==
  LET new == {id \in DOMAIN sc.obs : ~(id \in Known(log) /\ Same(Session(log, id), sc.obs[id]))}
      seen(id) == [type |-> "observed", id |-> id, removed |-> FALSE, fp |-> sc.obs[id].fp,
                   base |-> sc.obs[id].base, there |-> TRUE]
      gone(id) == [type |-> "observed", id |-> id, removed |-> TRUE, fp |-> NoPrint,
                   base |-> sc.base, there |-> id \in sc.there]
  IN log \o SetToSeq({seen(id) : id \in new}) \o SetToSeq({gone(id) : id \in Removed(log, sc)})

Idle == [at |-> "idle"]

\* `aoa sessions`, or with a target `aoa sessions check`, reads the worktrees.
StartScan(p, target, base) ==
  /\ procs[p].at = "idle" /\ left.commands > 0
  /\ left' = [left EXCEPT !.commands = @ - 1]
  /\ procs' = [procs EXCEPT ![p] =
       [at |-> "scanned", target |-> target, scan |-> Scan(base)]]
  /\ UNCHANGED <<trees, slog>>

\* findSession: a listing ends here, and so does a check of what was not observed.
Record(p) ==
  /\ procs[p].at = "scanned"
  /\ slog' = Recorded(slog, procs[p].scan)
  /\ procs' = [procs EXCEPT ![p] =
       IF \E id \in DOMAIN @.scan.obs : id[1] = @.target
       THEN LET id == CHOOSE id \in DOMAIN @.scan.obs : id[1] = @.target
            IN [at |-> "gate", id |-> id, fp |-> @.scan.obs[id].fp]
       ELSE Idle]
  /\ UNCHANGED <<trees, left>>

-----------------------------------------------------------------------------
(* The Gate *)

\* It runs on whatever is at the path now, and may leave untracked files.
RunGate(p) ==
  /\ procs[p].at = "gate"
  /\ LET path == procs[p].id[1]
     IN /\ \E out \in {0, 1} :
             trees' = [trees EXCEPT ![path].gate = IF trees[path].is = "gone" THEN @ ELSE @ + out]
        /\ \E passed \in BOOLEAN :
             /\ trees[path].is = "gone" => ~passed
             /\ procs' = [procs EXCEPT ![p] =
                  [at |-> "ran", id |-> @.id, fp |-> @.fp, passed |-> passed,
                   saw |-> Fingerprint(trees[path])]]
  /\ UNCHANGED <<slog, left>>

\* Mutant: whatever changed while the Gate ran is taken for its output.
AfterAnything(fp, now) == IF now = fp THEN NoPrint ELSE now

\* afterGate: its own output does not make the verdict stale.
After(fp, now) == IF now = fp \/ Tracked(now) # Tracked(fp) THEN NoPrint ELSE now

\* A tree that cannot be read again leaves no verdict.
ReadAgain(p) ==
  /\ procs[p].at = "ran"
  /\ LET t == trees[procs[p].id[1]]
     IN procs' = [procs EXCEPT ![p] =
          IF t.is \in {"gone", "empty"} THEN Idle
          ELSE [at |-> "judged",
                event |-> [type |-> "checked", id |-> @.id, fp |-> @.fp,
                           after |-> After(@.fp, Fingerprint(t)), passed |-> @.passed,
                           saw |-> @.saw]]]
  /\ UNCHANGED <<trees, slog, left>>

AppendCheck(p) ==
  /\ procs[p].at = "judged"
  /\ slog' = Append(slog, procs[p].event)
  /\ procs' = [procs EXCEPT ![p] = Idle]
  /\ UNCHANGED <<trees, left>>

\* A command may be killed, or fail: what it read goes with it.
GiveUp(p) ==
  /\ procs[p].at # "idle" /\ procs' = [procs EXCEPT ![p] = Idle]
  /\ UNCHANGED <<trees, slog, left>>

-----------------------------------------------------------------------------
(* The agents and people at work in the worktrees *)

Touch(path, new) ==
  /\ left.edits > 0 /\ left' = [left EXCEPT !.edits = @ - 1]
  /\ trees' = [trees EXCEPT ![path] = new]
  /\ UNCHANGED <<slog, procs>>

EditTracked(path) ==
  /\ trees[path].is # "gone"
  /\ \E c \in Contents \ {trees[path].tracked} : Touch(path, [trees[path] EXCEPT !.tracked = c])

WriteUntracked(path) ==
  trees[path].is # "gone" /\ Touch(path, [trees[path] EXCEPT !.agent = @ + 1])

\* git worktree remove, and add at the same path.
RemoveOrAdd(path) ==
  Touch(path, IF trees[path].is = "gone" THEN Tree(trees[path].born + 1)
              ELSE [trees[path] EXCEPT !.is = "gone"])

\* It can no longer be read, or is on a branch of aoa's, and then is fine again.
Unsettle(path) ==
  \E how \in {"strange", "empty", "own"} :
    /\ trees[path].is \in {"fine", how}
    /\ Touch(path, [trees[path] EXCEPT !.is = IF @ = "fine" THEN how ELSE "fine"])

SessionsInit(work) ==
  /\ trees = [p \in Paths |-> Tree(1)] /\ slog = <<>>
  /\ procs = [p \in Processes |-> Idle]
  /\ left = work

SessionsNext ==
  \/ \E p \in Processes :
       \/ \E target \in Paths \cup {"all"}, base \in left.bases : StartScan(p, target, base)
       \/ Record(p) \/ RunGate(p) \/ ReadAgain(p) \/ AppendCheck(p) \/ GiveUp(p)
  \/ \E path \in Paths :
       EditTracked(path) \/ WriteUntracked(path) \/ RemoveOrAdd(path) \/ Unsettle(path)

-----------------------------------------------------------------------------
(* Properties *)

Content(fp) == <<fp.tracked, fp.agent>>

\* A verdict that `aoa sessions` does not mark stale is the Gate's on the tree
\* that was observed last, up to the Gate's own output, however checks, scans
\* and edits overlap.  Two edits escape it: one before the Gate starts, which the
\* fingerprint taken at the scan does not show, and an untracked file written
\* while the check runs, which ADR 022 concedes ("indistinguishable").
VerdictHolds ==
  \A id \in Known(slog) :
    Checks(slog, id) # {} /\ ~CheckStale(slog, id) =>
      LET c == Check(slog, id)
          early == Content(c.fp) # Content(c.saw)
          absorbed == c.after # NoPrint /\ c.after.agent # c.saw.agent
      IN early \/ absorbed \/ Content(Session(slog, id).fp) = Content(c.saw)

\* Scans that race each other record what changed, once ("record one
\* observation, not two"); a session is removed only by a scan that did not find
\* its worktree ("Unreadable is not gone"); and a check is of an observed session.
RecordedOnce ==
  /\ \A j \in DOMAIN slog : slog[j].type = "observed" =>
       LET before == {i \in Observed(slog, slog[j].id) : i < j}
       IN /\ slog[j].removed => before # {} /\ ~slog[j].there
          /\ before # {} =>
               LET o == slog[Max(before)]
               IN /\ <<o.removed, o.fp, o.base>> # <<slog[j].removed, slog[j].fp, slog[j].base>>
                  /\ ~(o.removed /\ slog[j].removed)
  /\ \A j \in DOMAIN slog : slog[j].type = "checked" => j # 1 /\ slog[j].id \in Known(SubSeq(slog, 1, j - 1))
=============================================================================
