--------------------------- MODULE MergeQueueProofs ---------------------------
(***************************************************************************)
(* What keeps main green, for any branches, files, conflicts and red sets, *)
(* until a git reset --hard fails or the process dies inside a call        *)
(* (harm).  The argument: whatever a call has merged without a Gate pass,  *)
(* it still knows the green commit to go back to (pre), and that commit    *)
(* extends the one the call started from.  And, harm or no harm, that what *)
(* is recorded as merged stays: it is on pre as well.                      *)
(***************************************************************************)
EXTENDS MergeQueue, TLAPS

Prefix(s, t) == Len(s) <= Len(t) /\ s = SubSeq(t, 1, Len(s))

Green(s) == Content(s) \notin Red

\* A merge is in hand: HEAD may be anything that extends pre.
InHand == {"union", "batchundo", "gate", "undo"}

Types ==
  /\ head \in Seq(Branch) /\ pre \in Seq(Branch) /\ start \in Seq(Branch)
  /\ base \in Seq(Branch) /\ dirty \in BOOLEAN /\ pc \in Label

Settled == pc \notin InHand => Green(head)
Undoable == pc \in InHand => Green(pre) /\ Prefix(start, pre)
CleanTree == pc \notin {"undo", "batchundo"} => ~dirty
FromStart == Prefix(start, head)
AtRest == pc = "idle" => start = head
Seen == Green(start) /\ Green(base)

CalmInv ==
  Types /\ Settled /\ Undoable /\ CleanTree /\ FromStart /\ AtRest /\ Seen

QueueInv == ~harm => CalmInv

-----------------------------------------------------------------------------
(* Sequences *)

\* A history extends itself.
LEMMA PrefixRefl == ASSUME NEW s \in Seq(Branch) PROVE Prefix(s, s)
BY DEF Prefix

\* Merging one more branch keeps what was there.
LEMMA PrefixAppend ==
  ASSUME NEW s \in Seq(Branch), NEW t \in Seq(Branch), NEW b \in Branch, Prefix(s, t)
  PROVE  Append(t, b) \in Seq(Branch) /\ Prefix(s, Append(t, b))
BY DEF Prefix

\* The merge of a branch, new or already there, extends what HEAD extends.
LEMMA MergedExtends ==
  ASSUME Types, FromStart, NEW b \in Branch
  PROVE  Merged(b) \in Seq(Branch) /\ Prefix(start, Merged(b))
BY PrefixAppend DEF Merged, Types, FromStart

\* The empty history is green.
LEMMA EmptyGreen == Green(<<>>)
<1>1. Content(<<>>) = {} BY DEF Content, Main!Content
<1> QED BY <1>1, QueueAssumption DEF Green

-----------------------------------------------------------------------------
(* The invariant, one lemma per part of the call *)

\* Nothing is merged and nothing is in hand at the start.
LEMMA InitInv == Init => CalmInv
<1> SUFFICES ASSUME Init PROVE CalmInv OBVIOUS
<1>0. <<>> \in Seq(Branch) OBVIOUS
<1>1. Types
  <2>1. head = <<>> /\ pre = <<>> /\ start = <<>> /\ base = <<>> BY DEF Init
  <2>2. dirty \in BOOLEAN /\ pc \in Label BY DEF Init, Label
  <2> QED BY <1>0, <2>1, <2>2 DEF Types
<1>2. Green(<<>>) BY EmptyGreen
<1>3. Prefix(<<>>, <<>>) BY <1>0, PrefixRefl
<1> QED BY <1>1, <1>2, <1>3
        DEF Init, CalmInv, Settled, Undoable, CleanTree, FromStart, AtRest, Seen, InHand

\* A call starts from rest: what it starts from is what is on HEAD.
LEMMA CallInv ==
  ASSUME CalmInv, NEW k, NEW S, Call(k, S) PROVE CalmInv'
<1>1. Types' BY DEF CalmInv, Types, Call, Label, repoVars
<1>2. Prefix(head, head) BY PrefixRefl DEF CalmInv, Types
<1>3. pc' \in {"select", "process"} BY DEF Call
<1> QED BY <1>1, <1>2, <1>3
        DEF CalmInv, Call, Settled, Undoable, CleanTree, FromStart, AtRest, Seen, InHand,
            repoVars

\* Steps that touch neither the repository nor what is known of it.
LEMMA QuietInv ==
  ASSUME CalmInv, UNCHANGED <<head, dirty, pre, start, base>>,
         pc \notin InHand, pc \notin {"idle"},
         pc' \in Label \ {"idle"}, pc' \notin InHand
  PROVE  CalmInv'
BY DEF CalmInv, Types, Settled, Undoable, CleanTree, FromStart, AtRest, Seen, InHand, Label

\* Sorting the proposals, and ending or recording a call.
LEMMA SortInv ==
  ASSUME CalmInv,
         (\E b \in Branch : Select(b) \/ Record(b)) \/ EndQueue
  PROVE  CalmInv'
<1>1. CASE \E b \in Branch : Select(b)
  <2> PICK b \in Branch : Select(b) BY <1>1
  <2>1. pc = "select" /\ pc' = pc /\ UNCHANGED <<head, dirty, pre, start, base>>
    BY DEF Select, repoVars
  <2> QED BY <2>1, QuietInv DEF InHand, Label
<1>2. CASE \E b \in Branch : Record(b)
  <2> PICK b \in Branch : Record(b) BY <1>2
  <2>1. pc = "done" /\ pc' = pc /\ UNCHANGED <<head, dirty, pre, start, base>>
    BY DEF Record, repoVars
  <2> QED BY <2>1, QuietInv DEF InHand, Label
<1>3. CASE EndQueue
  <2>1. pc = "process" /\ pc' \in {"process", "done"}
    BY <1>3 DEF EndQueue
  <2>2. UNCHANGED <<head, dirty, pre, start, base>>
    BY <1>3 DEF EndQueue, repoVars
  <2> QED BY <2>1, <2>2, QuietInv DEF InHand, Label
<1> QED BY <1>1, <1>2, <1>3

\* The union of a batch: HEAD is green when it is begun, and pre remembers it.
LEMMA UnionInv ==
  ASSUME CalmInv, EndSelect \/ (\E b \in Branch : MergeMember(b)) \/ GateBatch
  PROVE  CalmInv'
<1>1. CASE EndSelect
  <2>1. /\ pc = "select" /\ pc' \in {"process", "union", "error"} /\ pre' = head
        /\ UNCHANGED <<head, dirty, start, base>>
    BY <1>1 DEF EndSelect, repoVars
  <2> QED BY <2>1 DEF CalmInv, Types, Settled, Undoable, CleanTree, FromStart, AtRest, Seen,
                      InHand, Label
<1>2. CASE \E b \in Branch : MergeMember(b)
  <2> PICK b \in Branch : MergeMember(b) BY <1>2
  <2>1. Merged(b) \in Seq(Branch) /\ Prefix(start, Merged(b))
    BY MergedExtends DEF CalmInv
  <2>2. /\ pc = "union" /\ pc' \in {"union", "batchundo"}
        /\ UNCHANGED <<pre, start, base>>
        /\ head' = head \/ head' = Merged(b)
    BY DEF MergeMember, MergeFails, repoVars
  <2>3. dirty' \in BOOLEAN /\ (pc' = "union" => dirty' = dirty)
    BY DEF MergeMember, MergeFails, repoVars, CalmInv, Types
  <2> QED BY <2>1, <2>2, <2>3
          DEF CalmInv, Types, Settled, Undoable, CleanTree, FromStart, AtRest, Seen, InHand,
              Label
<1>3. CASE GateBatch
  <2>1. /\ pc = "union" /\ UNCHANGED <<head, dirty, pre, start, base>>
        /\ pc' = "batchundo" \/ (pc' = "process" /\ GatePasses)
    BY <1>3 DEF GateBatch, repoVars
  <2> QED BY <2>1
          DEF CalmInv, Types, Settled, Undoable, CleanTree, FromStart, AtRest, Seen, InHand,
              Label, GatePasses, Green
<1> QED BY <1>1, <1>2, <1>3

\* One proposal: merged, put to the Gate.
LEMMA ProcessInv ==
  ASSUME CalmInv, (\E b \in Branch : Merge(b)) \/ Gate
  PROVE  CalmInv'
<1>1. CASE \E b \in Branch : Merge(b)
  <2> PICK b \in Branch : Merge(b) BY <1>1
  <2>1. Merged(b) \in Seq(Branch) /\ Prefix(start, Merged(b))
    BY MergedExtends DEF CalmInv
  <2>2. /\ pc = "process" /\ pre' = head /\ UNCHANGED <<start, base>>
        /\ \/ pc' = "undo" /\ head' \in {head, Merged(b)}
           \/ pc' = "gate" /\ head' = Merged(b) /\ dirty' = dirty
           \/ pc' = "error" /\ head' = head /\ dirty' = dirty
    BY DEF Merge, MergeFails, repoVars
  <2>a. dirty' \in BOOLEAN BY DEF Merge, MergeFails, repoVars, CalmInv, Types
  <2>3. Types' BY <2>1, <2>2, <2>a DEF CalmInv, Types, Label
  <2>4. Green(head) /\ Prefix(start, head) /\ ~dirty
    BY <2>2 DEF CalmInv, Settled, FromStart, CleanTree, InHand
  <2>5. Prefix(start', head') BY <2>1, <2>2, <2>4
  <2>6. Settled' /\ Undoable' /\ CleanTree' /\ AtRest'
    BY <2>2, <2>4 DEF Settled, Undoable, CleanTree, AtRest, InHand
  <2>7. Seen' BY <2>2 DEF CalmInv, Seen
  <2> QED BY <2>3, <2>5, <2>6, <2>7 DEF CalmInv, FromStart
<1>2. CASE Gate
  <2>1. /\ pc = "gate" /\ UNCHANGED <<head, dirty, pre, start, base>>
        /\ pc' = "undo" \/ (pc' = "process" /\ GatePasses)
    BY <1>2 DEF Gate, repoVars
  <2> QED BY <2>1
          DEF CalmInv, Types, Settled, Undoable, CleanTree, FromStart, AtRest, Seen, InHand,
              Label, GatePasses, Green
<1> QED BY <1>1, <1>2

\* Rolling back restores the green commit.
LEMMA UndoInv ==
  ASSUME CalmInv, ~harm', Undo \/ UndoBatch
  PROVE  CalmInv'
<1>1. /\ pc \in {"undo", "batchundo"} /\ head' = pre /\ dirty' = FALSE
      /\ pc' \in {"process", "error"} /\ UNCHANGED <<pre, start, base>>
  BY DEF Undo, UndoBatch, ResetHard
<1> QED BY <1>1 DEF CalmInv, Types, Settled, Undoable, CleanTree, FromStart, AtRest, Seen,
                    InHand, Label

\* A call ends, with outcomes or an error, on a green main; a base is recorded
\* only then.
LEMMA EndInv ==
  ASSUME CalmInv, ~harm', EndCall \/ Error \/ MarkVerifiedBase
  PROVE  CalmInv'
<1>1. CASE EndCall \/ Error
  <2>1. /\ pc \in {"done", "error"} /\ pc' = "idle" /\ start' = head
        /\ UNCHANGED <<head, dirty, pre, base>>
    BY <1>1 DEF EndCall, Error, ToIdle, callVars
  <2>2. Prefix(head, head) BY PrefixRefl DEF CalmInv, Types
  <2> QED BY <2>1, <2>2
          DEF CalmInv, Types, Settled, Undoable, CleanTree, FromStart, AtRest, Seen, InHand,
              Label
<1>2. CASE MarkVerifiedBase
  <2>1. pc = "idle" /\ base' = head /\ UNCHANGED <<head, dirty, pc, pre, start>>
    BY <1>2 DEF MarkVerifiedBase, repoVars, callVars
  <2> QED BY <2>1
          DEF CalmInv, Types, Settled, Undoable, CleanTree, FromStart, AtRest, Seen, InHand,
              Label
<1> QED BY <1>1, <1>2

\* Harm is never undone.
LEMMA HarmStays ==
  ASSUME [Next]_vars, ~harm' PROVE ~harm
<1>1. CASE UNCHANGED vars BY <1>1 DEF vars
<1>2. ASSUME NEW b \in Branch, Process(b) \/ DryRun(b) \/ Select(b) \/ Record(b) PROVE ~harm
  BY <1>2 DEF Process, DryRun, Call, Select, Record
<1>3. ASSUME NEW b \in Branch, MergeMember(b) \/ Merge(b) PROVE ~harm
  BY <1>3 DEF MergeMember, Merge
<1>4. ASSUME NEW S \in SUBSET Branch, ProcessBatch(S) PROVE ~harm
  BY <1>4 DEF ProcessBatch, Call
<1>5. CASE EndSelect \/ GateBatch \/ Gate \/ EndQueue
  BY <1>5 DEF EndSelect, GateBatch, Gate, EndQueue
<1>6. CASE EndCall \/ Error \/ MarkVerifiedBase \/ Undo \/ UndoBatch \/ Crash
  BY <1>6 DEF EndCall, Error, MarkVerifiedBase, Undo, UndoBatch, Crash
<1> QED BY <1>1, <1>2, <1>3, <1>4, <1>5, <1>6 DEF Next

\* Every step keeps the invariant.
LEMMA NextInv ==
  ASSUME QueueInv, [Next]_vars
  PROVE  QueueInv'
<1> SUFFICES ASSUME ~harm' PROVE CalmInv' BY DEF QueueInv
<1>0. CalmInv /\ ~Crash BY HarmStays DEF QueueInv, Crash
<1>1. CASE UNCHANGED vars
  BY <1>0, <1>1 DEF vars, repoVars, callVars, CalmInv, Types, Settled, Undoable, CleanTree,
                    FromStart, AtRest, Seen, InHand
<1>2. CASE \E b \in Branch : Process(b) \/ DryRun(b)
  BY <1>0, <1>2, CallInv DEF Process, DryRun
<1>3. CASE \E S \in SUBSET Branch : ProcessBatch(S)
  BY <1>0, <1>3, CallInv DEF ProcessBatch
<1> QED BY <1>0, <1>1, <1>2, <1>3, SortInv, UnionInv, ProcessInv, UndoInv, EndInv DEF Next

-----------------------------------------------------------------------------
(* Theorems *)

\* The inductive invariant holds throughout.
THEOREM QueueInvariance == Spec => []QueueInv
<1>1. Init => QueueInv BY InitInv DEF QueueInv
<1>2. QueueInv /\ [Next]_vars => QueueInv' BY NextInv
<1> QED BY <1>1, <1>2, PTL DEF Spec

\* "main is never red": until harm is done, between calls main passes the Gate
\* and is not half merged, whatever was proposed, rejected, batched or rolled
\* back.
THEOREM MainGreen == Spec => []AlwaysGreen
<1>1. QueueInv => AlwaysGreen
  BY DEF QueueInv, CalmInv, Settled, CleanTree, AlwaysGreen, NeverRed, Green, InHand
<1> QED BY <1>1, QueueInvariance, PTL

\* Until harm is done, worktrees are cut from a commit that passed the Gate.
THEOREM WorktreesFromGreen == Spec => []BaseGreen
<1>1. QueueInv => BaseGreen BY DEF QueueInv, CalmInv, Seen, BaseGreen, Green
<1> QED BY <1>1, QueueInvariance, PTL

\* The queue implements the abstract main branch: until harm is done it only
\* grows, from one green state to the next.
THEOREM QueueRefinement == Spec => ImplementsMain
<1>1. Init => Main!Init BY DEF Init, Main!Init
<1>2. QueueInv /\ [Next]_vars => [Main!Grow]_start
  <2> SUFFICES ASSUME QueueInv, [Next]_vars PROVE [Main!Grow]_start OBVIOUS
  <2>1. CASE start' = head /\ ~harm'
    <3>1. CalmInv /\ CalmInv' BY <2>1, NextInv, HarmStays DEF QueueInv
    <3>2. Prefix(start, start') BY <2>1, <3>1 DEF CalmInv, FromStart
    <3>3. Main!Green(start') BY <3>1 DEF CalmInv, Seen, Green, Content, Main!Green
    <3> QED BY <3>1, <3>2, <3>3 DEF Main!Grow, CalmInv, Types, Prefix
  <2>2. CASE ~(start' = head /\ ~harm')
    <3>1. start' = start
      BY <2>2 DEF Next, vars, Process, DryRun, ProcessBatch, Call, Select, EndSelect, MergeMember,
                  GateBatch, UndoBatch, Merge, Gate, Undo, EndQueue, Record, EndCall, Error,
                  MarkVerifiedBase, Crash, ToIdle
    <3> QED BY <3>1
  <2> QED BY <2>1, <2>2
<1> QED BY <1>1, <1>2, QueueInvariance, PTL DEF Spec, ImplementsMain, Main!Spec

-----------------------------------------------------------------------------
(* What is recorded as merged stays, harm or no harm *)

LandTypes ==
  /\ head \in Seq(Branch) /\ pre \in Seq(Branch)
  /\ left \subseteq Branch /\ batch \subseteq Branch
  /\ outcome \in [Branch -> Verdict] /\ verdict \in [Branch -> Verdict]
  /\ result \in {"none", "verified", "rejected", "error"}

\* Branch b is merged for good: a rollback keeps it.
Landed(b) == b \in Content(head) /\ (pc \in InHand => b \in Content(pre))

\* What the log or the call in hand says is merged is, and what a passing Gate
\* is about to call merged is on HEAD.
LandInv ==
  /\ LandTypes
  /\ \A b \in Branch : verdict[b] = "merged" \/ outcome[b] = "merged" => Landed(b)
  /\ pc = "union" => batch \ left \subseteq Content(head)
  /\ pc = "gate" => cur \in Content(head)

\* A merge adds its branch and takes none away.
LEMMA MergedContent ==
  ASSUME head \in Seq(Branch), NEW b \in Branch
  PROVE  /\ Merged(b) \in Seq(Branch)
         /\ Content(head) \subseteq Content(Merged(b)) /\ b \in Content(Merged(b))
<1>1. CASE b \in Content(head) BY <1>1 DEF Merged
<1>2. CASE b \notin Content(head)
  <2>1. /\ Append(head, b) \in Seq(Branch)
        /\ DOMAIN head = 1..Len(head) /\ Len(head) \in Nat
        /\ DOMAIN Append(head, b) = 1..(Len(head) + 1)
        /\ \A i \in 1..Len(head) : Append(head, b)[i] = head[i]
        /\ Append(head, b)[Len(head) + 1] = b
    OBVIOUS
  <2> QED BY <1>2, <2>1 DEF Merged, Content, Main!Content
<1> QED BY <1>1, <1>2

\* Steps that say nothing of any branch and do not move the repository.
LEMMA LandQuiet ==
  ASSUME LandInv, LandTypes', UNCHANGED <<head, verdict>>,
         outcome' = outcome \/ outcome' = [b \in Branch |-> "none"],
         pc' \notin InHand \/ (pc' \in {"batchundo", "undo"} /\ pc \in InHand /\ pre' = pre)
  PROVE  LandInv'
<1>1. \A b \in Branch : outcome'[b] = "merged" => outcome[b] = "merged"
  BY DEF LandInv, LandTypes
<1>2. Content(head)' = Content(head) /\ (pre' = pre => Content(pre)' = Content(pre))
  BY DEF Content, Main!Content
<1>3. \A b \in Branch : Landed(b) => Landed(b)'
  BY <1>2 DEF Landed
<1> QED BY <1>1, <1>3 DEF LandInv, InHand

\* Rolling back keeps what was merged before the merge in hand.
LEMMA LandUndo ==
  ASSUME LandInv, Undo \/ UndoBatch PROVE LandInv'
<1>1. LandTypes'
  <2>1. head' \in Seq(Branch) /\ pre' = pre /\ left' \subseteq Branch /\ batch' = batch
    BY DEF Undo, UndoBatch, ResetHard, repoVars, LandInv, LandTypes
  <2>2. verdict' = verdict /\ result' = result
    BY DEF Undo, UndoBatch
  <2>3. outcome' \in [Branch -> Verdict]
    BY DEF Undo, UndoBatch, LandInv, LandTypes, Verdict
  <2> QED BY <2>1, <2>2, <2>3 DEF LandInv, LandTypes
<1>2. /\ pc \in InHand /\ pc' \in {"process", "error"}
      /\ pre' = pre /\ head' \in {head, pre} /\ verdict' = verdict
  BY DEF Undo, UndoBatch, ResetHard, repoVars, InHand
<1>3. \A b \in Branch : outcome'[b] = "merged" => outcome[b] = "merged"
  BY DEF Undo, UndoBatch, LandInv, LandTypes
<1>4. \A b \in Branch : Landed(b) => Landed(b)'
  BY <1>2 DEF Landed, InHand, Content, Main!Content
<1> QED BY <1>1, <1>2, <1>3, <1>4 DEF LandInv

\* A call begins, sorts its proposals, goes on to the next ones or ends.
LEMMA LandCalls ==
  ASSUME LandInv,
         \/ \E k : \E S : S \subseteq Branch /\ Call(k, S)
         \/ \E b \in Branch : Select(b)
         \/ EndQueue \/ EndCall \/ Error \/ MarkVerifiedBase \/ Crash
  PROVE  LandInv'
<1> USE DEF repoVars, callVars
<1>1. ASSUME NEW k, NEW S, S \subseteq Branch, Call(k, S) PROVE LandInv'
  <2>1. /\ head' = head /\ verdict' = verdict /\ pre' = head /\ result' = "none" /\ batch' = {}
        /\ outcome' = [b \in Branch |-> "none"] /\ pc' \in {"select", "process"}
        /\ left' \in {{}, S}
    BY <1>1 DEF Call
  <2>2. LandTypes' BY <1>1, <2>1 DEF LandInv, LandTypes, Verdict
  <2> QED BY <2>1, <2>2, LandQuiet DEF InHand
<1>2. ASSUME NEW b \in Branch, Select(b) PROVE LandInv'
  <2>1. /\ UNCHANGED <<head, verdict, pc, pre, outcome, result>> /\ pc = "select"
        /\ left' = left \ {b} /\ batch' \in {batch, batch \cup {b}}
    BY <1>2 DEF Select, Sort
  <2>2. LandTypes' BY <1>2, <2>1 DEF LandInv, LandTypes
  <2> QED BY <2>1, <2>2, LandQuiet DEF InHand
<1>3. CASE EndQueue \/ EndCall
  <2>1. /\ UNCHANGED <<head, verdict, pre, outcome, result, left, batch>>
        /\ pc' \in {"process", "done", "idle"}
    BY <1>3 DEF EndQueue, EndCall, ToIdle
  <2>2. LandTypes' BY <2>1 DEF LandInv, LandTypes
  <2> QED BY <2>1, <2>2, LandQuiet DEF InHand
<1>4. CASE Error
  <2>1. /\ UNCHANGED <<head, pre, outcome, result, left, batch>> /\ pc' = "idle"
        /\ verdict' = verdict \/ verdict' = [verdict EXCEPT ![cur] = "rejected"]
    BY <1>4 DEF Error, ToIdle
  <2>2. LandTypes' BY <2>1 DEF LandInv, LandTypes, Verdict
  <2>3. \A b \in Branch : verdict'[b] = "merged" => verdict[b] = "merged"
    BY <2>1 DEF LandInv, LandTypes
  <2>4. \A b \in Branch : Landed(b) => Landed(b)'
    BY <2>1 DEF Landed, InHand, Content, Main!Content
  <2> QED BY <2>1, <2>2, <2>3, <2>4 DEF LandInv
<1>5. CASE MarkVerifiedBase
  <2>1. UNCHANGED <<head, verdict, pre, outcome, result, left, batch, pc>> /\ pc = "idle"
    BY <1>5 DEF MarkVerifiedBase
  <2>2. LandTypes' BY <2>1 DEF LandInv, LandTypes
  <2> QED BY <2>1, <2>2, LandQuiet DEF InHand
<1>6. CASE Crash
  <2>1. UNCHANGED <<head, verdict, pre, outcome, result, left, batch>> /\ pc' = "idle"
    BY <1>6 DEF Crash, ToIdle
  <2>2. LandTypes' BY <2>1 DEF LandInv, LandTypes
  <2> QED BY <2>1, <2>2, LandQuiet DEF InHand
<1> QED BY <1>1, <1>2, <1>3, <1>4, <1>5, <1>6

\* Merging into the union or alone: HEAD grows, and pre is what it was before.
LEMMA LandMerge ==
  ASSUME LandInv, NEW b \in Branch, MergeMember(b) \/ Merge(b) PROVE LandInv'
<1> USE DEF repoVars
<1>0. /\ Merged(b) \in Seq(Branch)
      /\ Content(head) \subseteq Content(Merged(b)) /\ b \in Content(Merged(b))
  BY MergedContent DEF LandInv, LandTypes
<1>1. CASE MergeMember(b)
  <2>1. /\ pc = "union" /\ pc' \in {"union", "batchundo"} /\ head' \in {head, Merged(b)}
        /\ UNCHANGED <<verdict, pre, outcome, result, batch>>
        /\ left' = left \/ (left' = left \ {b} /\ head' = Merged(b))
        /\ pc' = "union" => head' = Merged(b) /\ left' = left \ {b}
    BY <1>1 DEF MergeMember, MergeFails
  <2>2. LandTypes' BY <1>0, <2>1 DEF LandInv, LandTypes
  <2>3. Content(head) \subseteq Content(head)' /\ Content(pre)' = Content(pre)
        /\ (head' = Merged(b) => b \in Content(head)')
    BY <1>0, <2>1 DEF Content, Main!Content
  <2>4. \A a \in Branch : Landed(a) => Landed(a)'
    BY <2>1, <2>3 DEF Landed, InHand
  <2>5. pc' = "union" => batch' \ left' \subseteq Content(head)'
    BY <2>1, <2>3 DEF LandInv
  <2> QED BY <2>1, <2>2, <2>4, <2>5 DEF LandInv
<1>2. CASE Merge(b)
  <2>1. /\ pc = "process" /\ pc' \in {"undo", "gate", "error"} /\ head' \in {head, Merged(b)}
        /\ pre' = head /\ cur' = b
        /\ UNCHANGED <<verdict, outcome, batch, left>>
        /\ pc' = "gate" => head' = Merged(b)
    BY <1>2 DEF Merge, MergeFails
  <2>a. result' \in {"none", "verified", "rejected", "error"}
    BY <1>2 DEF Merge, LandInv, LandTypes
  <2>2. LandTypes' BY <1>0, <2>1, <2>a DEF LandInv, LandTypes
  <2>3. Content(head) \subseteq Content(head)' /\ Content(pre)' = Content(head)
        /\ (head' = Merged(b) => b \in Content(head)')
    BY <1>0, <2>1 DEF Content, Main!Content
  <2>4. \A a \in Branch : Landed(a) => Landed(a)'
    BY <2>1, <2>3 DEF Landed
  <2> QED BY <2>1, <2>2, <2>3, <2>4 DEF LandInv
<1> QED BY <1>1, <1>2

\* The Gate: what it lets through is on HEAD and no longer in hand.
LEMMA LandGate ==
  ASSUME LandInv, GateBatch \/ Gate PROVE LandInv'
<1> USE DEF repoVars
<1>1. CASE GateBatch
  <2>1. /\ pc = "union" /\ left = {} /\ UNCHANGED <<head, verdict, pre, result, left, batch>>
        /\ \/ pc' = "batchundo" /\ outcome' = outcome
           \/ /\ pc' = "process"
              /\ outcome' = [b \in Branch |-> IF b \in batch THEN "merged" ELSE outcome[b]]
    BY <1>1 DEF GateBatch
  <2>2. outcome' \in [Branch -> Verdict]
    BY <2>1 DEF LandInv, LandTypes, Verdict
  <2>3. LandTypes' BY <2>1, <2>2 DEF LandInv, LandTypes
  <2>4. Content(head)' = Content(head) /\ Content(pre)' = Content(pre)
    BY <2>1 DEF Content, Main!Content
  <2>5. CASE pc' = "batchundo" BY <2>1, <2>3, <2>5, LandQuiet DEF InHand
  <2>6. CASE pc' = "process"
    <3>1. \A b \in Branch : outcome'[b] = "merged" => outcome[b] = "merged" \/ b \in Content(head)
      BY <2>1, <2>6 DEF LandInv
    <3> QED BY <2>1, <2>3, <2>4, <2>6, <3>1 DEF LandInv, Landed, InHand
  <2> QED BY <2>1, <2>5, <2>6
<1>2. CASE Gate
  <2>1. /\ pc = "gate" /\ UNCHANGED <<head, verdict, pre, left, batch, cur>>
        /\ \/ pc' = "undo" /\ outcome' = outcome
           \/ pc' = "process" /\ outcome' = [outcome EXCEPT ![cur] = "merged"]
    BY <1>2 DEF Gate
  <2>2. result' \in {"none", "verified", "rejected", "error"}
    BY <1>2 DEF Gate, LandInv, LandTypes
  <2>3. outcome' \in [Branch -> Verdict]
    BY <2>1 DEF LandInv, LandTypes, Verdict
  <2>4. LandTypes' BY <2>1, <2>2, <2>3 DEF LandInv, LandTypes
  <2>5. CASE pc' = "undo" BY <2>1, <2>4, <2>5, LandQuiet DEF InHand
  <2>6. CASE pc' = "process"
    <3>1. \A b \in Branch : outcome'[b] = "merged" => outcome[b] = "merged" \/ b = cur
      BY <2>1, <2>6 DEF LandInv, LandTypes
    <3>2. Content(head)' = Content(head) BY <2>1 DEF Content, Main!Content
    <3> QED BY <2>1, <2>4, <2>6, <3>1, <3>2 DEF LandInv, Landed, InHand
  <2> QED BY <2>1, <2>5, <2>6
<1> QED BY <1>1, <1>2

\* The union is begun: nothing of it is merged yet, and pre is what is.
LEMMA LandUnion ==
  ASSUME LandInv, EndSelect PROVE LandInv'
<1>1. /\ pc = "select" /\ pre' = head /\ pc' \in {"process", "union", "error"}
      /\ UNCHANGED <<head, verdict, outcome, result>>
      /\ left' \in {left, batch} /\ batch' \in {batch, {}}
      /\ pc' = "union" => left' = batch /\ batch' = batch
  BY DEF EndSelect, repoVars
<1>2. LandTypes' BY <1>1 DEF LandInv, LandTypes
<1>3. Content(head)' = Content(head) /\ Content(pre)' = Content(head)
  BY <1>1 DEF Content, Main!Content
<1> QED BY <1>1, <1>2, <1>3 DEF LandInv, Landed, InHand

\* The log is told what the call returned.
LEMMA LandRecord ==
  ASSUME LandInv, NEW b \in Branch, Record(b) PROVE LandInv'
<1>1. /\ verdict' = [verdict EXCEPT ![b] = outcome[b]]
      /\ UNCHANGED <<head, pre, pc, left, batch, outcome, result, cur>>
  BY DEF Record, repoVars
<1>2. LandTypes' BY <1>1 DEF LandInv, LandTypes
<1>3. \A a \in Branch : verdict'[a] = "merged" => verdict[a] = "merged" \/ outcome[a] = "merged"
  BY <1>1 DEF LandInv, LandTypes
<1>4. Content(head)' = Content(head) /\ Content(pre)' = Content(pre)
  BY <1>1 DEF Content, Main!Content
<1> QED BY <1>1, <1>2, <1>3, <1>4 DEF LandInv, Landed

\* Every step keeps it.
LEMMA LandStep ==
  ASSUME LandInv, [Next]_vars PROVE LandInv'
<1>1. CASE UNCHANGED vars
  BY <1>1 DEF vars, repoVars, callVars, LandInv, LandTypes, Landed, Content, Main!Content
<1>2. ASSUME NEW b \in Branch, Process(b) \/ DryRun(b) PROVE LandInv'
  <2>1. \E k : \E S : S \subseteq Branch /\ Call(k, S)
    BY <1>2 DEF Process, DryRun
  <2> QED BY <2>1, LandCalls
<1>3. ASSUME NEW S \in SUBSET Branch, ProcessBatch(S) PROVE LandInv'
  <2>1. \E k : \E R : R \subseteq Branch /\ Call(k, R)
    BY <1>3 DEF ProcessBatch
  <2> QED BY <2>1, LandCalls
<1> QED
  BY <1>1, <1>2, <1>3, LandCalls, LandMerge, LandGate, LandUnion, LandUndo, LandRecord DEF Next

\* What is said to be merged is, throughout.
THEOREM LandInvariance == Spec => []LandInv
<1>1. Init => LandInv
  <2> SUFFICES ASSUME Init PROVE LandInv OBVIOUS
  <2>1. <<>> \in Seq(Branch) OBVIOUS
  <2>2. LandTypes BY <2>1 DEF Init, LandTypes, Verdict
  <2> QED BY <2>2 DEF Init, LandInv
<1>2. LandInv /\ [Next]_vars => LandInv' BY LandStep
<1> QED BY <1>1, <1>2, PTL DEF Spec

\* What the log calls merged stays on main: no later call, rollback, failure or
\* crash takes it away.
THEOREM Stays == Spec => []LandedStays
<1>1. LandInv => LandedStays BY DEF LandInv, Landed, LandedStays
<1> QED BY <1>1, LandInvariance, PTL

-----------------------------------------------------------------------------
(***************************************************************************)
(* What the merge queue says of its proposals is true, for any branches,   *)
(* files, conflicts and red sets: what it calls rejected or verified is    *)
(* not on main (until harm is done), and without faults what it rejects    *)
(* has a cause of its own.                                                 *)
(***************************************************************************)
(* What is on main is what the log says is *)

\* The call is between its first step and its end.
Busy == {"select", "union", "batchundo", "process", "gate", "undo"}

\* The log accounts for branch b, or the call in hand will.
Told(b) == verdict[b] = "merged" \/ b \in stray
Claimed(b) == b \in props /\ outcome[b] = "merged"

OnHead(b) ==
  \/ Told(b)
  \/ pc # "idle" /\ Claimed(b)
  \/ pc \in {"union", "batchundo"} /\ b \in batch
  \/ pc \in {"gate", "undo"} /\ b = cur

HeadTold == \A b \in Content(head) : OnHead(b)
PreTold == pc \in InHand => \A b \in Content(pre) : Told(b) \/ Claimed(b)

\* The proposals of a call have no verdict yet, and a call that is not a batch
\* has one.
PropsOpen == props \subseteq Branch /\ \A b \in props : verdict[b] \in {"none", "verified"}
OneProp ==
  kind # "batch" =>
    /\ pc \notin {"select", "union", "batchundo"}
    /\ pc # "idle" => \A a, b \in props : a = b
    /\ pc = "error" => cur \in props /\ outcome[cur] # "merged"

\* What is still to be dealt with is part of the call, once, and not yet called
\* merged.
Pending ==
  /\ pc \in Busy => left \cup batch \cup serial \cup queue \subseteq props
  /\ pc \in {"select", "union", "batchundo"} =>
       batch \cap serial = {} /\ \A b \in props : outcome[b] # "merged"
  /\ pc = "select" => left \cap (batch \cup serial) = {}
  /\ pc \in {"process", "gate", "undo"} =>
       queue \cap serial = {} /\ \A b \in queue \cup serial : outcome[b] # "merged"
  /\ pc \in {"gate", "undo"} =>
       cur \in props \ (queue \cup serial) /\ outcome[cur] # "merged"

UnionLeft == pc = "union" => left \subseteq batch

TruthInv == HeadTold /\ PreTold /\ PropsOpen /\ OneProp /\ Pending /\ UnionLeft

HonestInv == ~harm => TruthInv

-----------------------------------------------------------------------------
\* Merging a branch adds it, and nothing else.
LEMMA MergedAdds ==
  ASSUME head \in Seq(Branch), NEW b \in Branch
  PROVE  Content(Merged(b)) = Content(head) \cup {b}
<1>1. CASE b \in Content(head) BY <1>1 DEF Merged
<1>2. CASE b \notin Content(head)
  <2>1. /\ DOMAIN head = 1..Len(head) /\ Len(head) \in Nat
        /\ DOMAIN Append(head, b) = 1..(Len(head) + 1)
        /\ \A i \in 1..Len(head) : Append(head, b)[i] = head[i]
        /\ Append(head, b)[Len(head) + 1] = b
    OBVIOUS
  <2>2. Content(Append(head, b)) = Content(head) \cup {b}
    BY <2>1 DEF Content, Main!Content
  <2> QED BY <1>2, <2>2 DEF Merged
<1> QED BY <1>1, <1>2

\* A step that moves neither the repository nor the verdicts: what the call was
\* accountable for, it still is.
LEMMA TruthQuiet ==
  ASSUME TruthInv, UNCHANGED <<head, verdict, stray>>,
         \A b \in Content(head) : OnHead(b) => OnHead(b)',
         pc' \in InHand => pre' = pre /\ pc \in InHand /\ \A b : Claimed(b) => Claimed(b)'
  PROVE  HeadTold' /\ PreTold'
<1>1. Content(head)' = Content(head) /\ (pre' = pre => Content(pre)' = Content(pre))
  BY DEF Content, Main!Content
<1>2. \A b : Told(b)' <=> Told(b) BY DEF Told
<1> QED BY <1>1, <1>2 DEF TruthInv, HeadTold, PreTold

\* A call takes on proposals the log has no verdict on.
LEMMA TruthCall ==
  ASSUME LandTypes, TruthInv, NEW k, NEW S, Call(k, S), S \subseteq Open,
         k = "batch" \/ \A a, b \in S : a = b
  PROVE  TruthInv'
<1>1. /\ pc = "idle" /\ kind' = k /\ props' = S /\ batch' = {} /\ serial' = {}
      /\ outcome' = [b \in Branch |-> "none"]
      /\ \/ k = "batch" /\ pc' = "select" /\ left' = S /\ queue' = {}
         \/ k # "batch" /\ pc' = "process" /\ left' = {} /\ queue' = S
      /\ UNCHANGED <<head, verdict, stray>>
  BY DEF Call, repoVars
<1>2. HeadTold' /\ PreTold'
  <2>1. \A b : OnHead(b) => OnHead(b)' BY <1>1 DEF OnHead, Told
  <2> QED BY <1>1, <2>1, TruthQuiet DEF InHand
<1>3. PropsOpen' BY <1>1 DEF PropsOpen, Open
<1>4. OneProp' BY <1>1 DEF OneProp
<1>5. \A b \in S : outcome'[b] # "merged" BY <1>1 DEF Open
<1>6. Pending' BY <1>1, <1>5 DEF Pending, Busy
<1> QED BY <1>1, <1>2, <1>3, <1>4, <1>6 DEF TruthInv, UnionLeft

\* Sorting keeps the proposals apart.
LEMMA TruthSelect ==
  ASSUME LandTypes, TruthInv, NEW b \in Branch, Select(b)
  PROVE  TruthInv'
<1>1. /\ pc = "select" /\ pc' = pc /\ b \in left /\ left' = left \ {b}
      /\ \/ batch' = batch \cup {b} /\ serial' = serial
         \/ serial' = serial \cup {b} /\ batch' = batch
      /\ UNCHANGED <<head, verdict, stray, kind, props, queue, cur, outcome>>
  BY DEF Select, Sort, Least, repoVars
<1>2. HeadTold' /\ PreTold'
  <2>1. \A a : OnHead(a) => OnHead(a)' BY <1>1 DEF OnHead, Told, Claimed
  <2> QED BY <1>1, <2>1, TruthQuiet DEF InHand
<1>3. PropsOpen' BY <1>1 DEF TruthInv, PropsOpen
<1>4. OneProp' BY <1>1 DEF TruthInv, OneProp
<1>5. Pending' BY <1>1 DEF TruthInv, Pending, Busy
<1> QED BY <1>1, <1>2, <1>3, <1>4, <1>5 DEF TruthInv, UnionLeft

\* The union starts from what is on main, all of which is accounted for.
LEMMA TruthUnion ==
  ASSUME LandTypes, TruthInv, EndSelect
  PROVE  TruthInv'
<1>1. /\ pc = "select" /\ left = {} /\ pre' = head
      /\ UNCHANGED <<head, verdict, stray, kind, props, cur, outcome>>
      /\ \/ pc' = "process" /\ queue' = props /\ serial' = {} /\ batch' = {} /\ left' = left
         \/ pc' = "union" /\ left' = batch /\ UNCHANGED <<queue, serial, batch>>
         \/ pc' = "error" /\ UNCHANGED <<left, queue, serial, batch>>
  BY DEF EndSelect, repoVars
<1>2. Content(head)' = Content(head) /\ Content(pre)' = Content(head)
  BY <1>1 DEF Content, Main!Content
<1>3. \A a \in Content(head) : Told(a) \/ Claimed(a)
  BY <1>1 DEF TruthInv, HeadTold, OnHead
<1>4. \A a : (Told(a)' <=> Told(a)) /\ (Claimed(a)' <=> Claimed(a))
  BY <1>1 DEF Told, Claimed
<1>5. HeadTold' /\ PreTold'
  BY <1>1, <1>2, <1>3, <1>4 DEF HeadTold, PreTold, OnHead
<1>6. PropsOpen' BY <1>1 DEF TruthInv, PropsOpen
<1>7. OneProp' BY <1>1 DEF TruthInv, OneProp
<1>8. Pending' BY <1>1 DEF TruthInv, Pending, Busy
<1>9. UnionLeft' BY <1>1 DEF UnionLeft
<1> QED BY <1>5, <1>6, <1>7, <1>8, <1>9 DEF TruthInv

\* A member of the union is merged, or the union is given up.
LEMMA TruthMember ==
  ASSUME LandTypes, TruthInv, NEW b \in Branch, MergeMember(b)
  PROVE  TruthInv'
<1>1. /\ pc = "union" /\ b \in left /\ pc' \in {"union", "batchundo"}
      /\ head' \in {head, Merged(b)} /\ left' \subseteq left
      /\ UNCHANGED <<verdict, stray, kind, props, batch, serial, queue, cur, pre, outcome>>
  BY DEF MergeMember, MergeFails, Least, repoVars
<1>2. b \in batch
  BY <1>1 DEF TruthInv, UnionLeft
<1>a. Content(Merged(b)) = Content(head) \cup {b} BY MergedAdds DEF LandTypes
<1>b. \A s : /\ head' = s => Content(head)' = Content(s)
             /\ pre' = s => Content(pre)' = Content(s)
  BY DEF Content, Main!Content
<1>3. Content(head)' \subseteq Content(head) \cup {b} /\ Content(pre)' = Content(pre)
  BY <1>1, <1>a, <1>b
<1>4. \A a : (Told(a)' <=> Told(a)) /\ (Claimed(a)' <=> Claimed(a))
  BY <1>1 DEF Told, Claimed
<1>5. HeadTold' /\ PreTold'
  BY <1>1, <1>2, <1>3, <1>4 DEF TruthInv, HeadTold, PreTold, OnHead, InHand
<1>6. PropsOpen' BY <1>1 DEF TruthInv, PropsOpen
<1>7. OneProp' BY <1>1 DEF TruthInv, OneProp
<1>8. Pending' /\ UnionLeft' BY <1>1 DEF TruthInv, Pending, Busy, UnionLeft
<1> QED BY <1>5, <1>6, <1>7, <1>8 DEF TruthInv

\* A passing Gate claims the union; a failing one leaves it in hand.
LEMMA TruthGateBatch ==
  ASSUME LandTypes, TruthInv, GateBatch
  PROVE  TruthInv'
<1>1. /\ pc = "union" /\ left = {}
      /\ UNCHANGED <<head, verdict, stray, kind, props, left, batch, cur, pre>>
      /\ \/ /\ pc' = "process" /\ queue' = serial /\ serial' = {}
            /\ outcome' = [b \in Branch |-> IF b \in batch THEN "merged" ELSE outcome[b]]
         \/ pc' = "batchundo" /\ UNCHANGED <<outcome, queue, serial>>
  BY DEF GateBatch, repoVars
<1>2. props \subseteq Branch /\ batch \subseteq props /\ serial \subseteq props
      /\ batch \cap serial = {} /\ (\A b \in props : outcome[b] # "merged")
  BY <1>1 DEF TruthInv, PropsOpen, Pending, Busy
<1>3. CASE pc' = "batchundo"
  <2>1. \A a : (OnHead(a) => OnHead(a)') /\ (Claimed(a) => Claimed(a)')
    BY <1>1, <1>3 DEF OnHead, Told, Claimed
  <2>2. HeadTold' /\ PreTold' BY <1>1, <1>3, <2>1, TruthQuiet DEF InHand
  <2>3. PropsOpen' BY <1>1 DEF TruthInv, PropsOpen
  <2>4. OneProp' BY <1>1, <1>3 DEF TruthInv, OneProp
  <2>5. Pending' /\ UnionLeft' BY <1>1, <1>3 DEF TruthInv, Pending, Busy, UnionLeft
  <2> QED BY <2>2, <2>3, <2>4, <2>5 DEF TruthInv
<1>4. CASE pc' = "process"
  <2>0. /\ queue' = serial /\ serial' = {}
        /\ outcome' = [b \in Branch |-> IF b \in batch THEN "merged" ELSE outcome[b]]
    BY <1>1, <1>4
  <2>1. \A a : OnHead(a) => OnHead(a)'
    BY <1>1, <1>2, <1>4, <2>0 DEF OnHead, Told, Claimed
  <2>2. HeadTold' /\ PreTold' BY <1>1, <1>4, <2>1, TruthQuiet DEF InHand
  <2>3. PropsOpen' BY <1>1 DEF TruthInv, PropsOpen
  <2>4. OneProp' BY <1>1, <1>4 DEF TruthInv, OneProp
  <2>5. \A b \in serial : outcome'[b] # "merged" BY <1>2, <2>0
  <2>6. Pending' BY <1>1, <1>2, <1>4, <2>0, <2>5 DEF Pending, Busy
  <2> QED BY <1>4, <2>2, <2>3, <2>4, <2>6 DEF TruthInv, UnionLeft
<1> QED BY <1>1, <1>3, <1>4

\* A failed batch goes back to what was there, and is taken apart.
LEMMA TruthUndoBatch ==
  ASSUME LandTypes, TruthInv, UndoBatch, ~harm'
  PROVE  TruthInv'
<1>1. /\ pc = "batchundo" /\ pc' = "process" /\ head' = pre /\ queue' = batch /\ left' = {}
      /\ UNCHANGED <<verdict, stray, kind, props, batch, serial, cur, pre, outcome>>
  BY DEF UndoBatch, ResetHard
<1>2. Content(head)' = Content(pre) BY <1>1 DEF Content, Main!Content
<1>3. \A a : (Told(a)' <=> Told(a)) /\ (Claimed(a)' <=> Claimed(a))
  BY <1>1 DEF Told, Claimed
<1>4. HeadTold' /\ PreTold'
  BY <1>1, <1>2, <1>3 DEF TruthInv, HeadTold, PreTold, OnHead, InHand
<1>5. PropsOpen' BY <1>1 DEF TruthInv, PropsOpen
<1>6. OneProp' BY <1>1 DEF TruthInv, OneProp
<1>7. Pending' BY <1>1 DEF TruthInv, Pending, Busy
<1> QED BY <1>1, <1>4, <1>5, <1>6, <1>7 DEF TruthInv, UnionLeft

\* One proposal is merged, or cannot be.
LEMMA TruthMerge ==
  ASSUME LandTypes, TruthInv, NEW b \in Branch, Merge(b)
  PROVE  TruthInv'
<1>1. /\ pc = "process" /\ b \in queue /\ pc' \in {"undo", "gate", "error"}
      /\ head' \in {head, Merged(b)} /\ (pc' = "error" => head' = head)
      /\ pre' = head /\ cur' = b /\ queue' = queue \ {b}
      /\ UNCHANGED <<verdict, stray, kind, props, left, batch, serial, outcome>>
  BY DEF Merge, MergeFails, Least, repoVars
<1>a. Content(Merged(b)) = Content(head) \cup {b} BY MergedAdds DEF LandTypes
<1>b. \A s : /\ head' = s => Content(head)' = Content(s)
             /\ pre' = s => Content(pre)' = Content(s)
  BY DEF Content, Main!Content
<1>2. Content(head)' \subseteq Content(head) \cup {b} /\ Content(pre)' = Content(head)
      /\ (pc' = "error" => Content(head)' = Content(head))
  BY <1>1, <1>a, <1>b
<1>3. \A a : (Told(a)' <=> Told(a)) /\ (Claimed(a)' <=> Claimed(a))
  BY <1>1 DEF Told, Claimed
<1>4. \A a \in Content(head) : Told(a) \/ Claimed(a)
  BY <1>1 DEF TruthInv, HeadTold, OnHead
<1>5. HeadTold' /\ PreTold'
  BY <1>1, <1>2, <1>3, <1>4 DEF HeadTold, PreTold, OnHead
<1>6. PropsOpen' BY <1>1 DEF TruthInv, PropsOpen
<1>7. b \in props \ serial /\ outcome[b] # "merged"
  BY <1>1 DEF TruthInv, Pending, Busy
<1>8. OneProp' BY <1>1, <1>7 DEF TruthInv, OneProp
<1>9. Pending' BY <1>1, <1>7 DEF TruthInv, Pending, Busy
<1> QED BY <1>1, <1>5, <1>6, <1>8, <1>9 DEF TruthInv, UnionLeft

\* A passing Gate claims the proposal; otherwise it stays in hand.
LEMMA TruthGate ==
  ASSUME LandTypes, TruthInv, Gate
  PROVE  TruthInv'
<1>1. /\ pc = "gate"
      /\ UNCHANGED <<head, verdict, stray, kind, props, left, batch, serial, queue, cur, pre>>
      /\ \/ pc' = "process" /\ outcome' = [outcome EXCEPT ![cur] = "merged"]
         \/ pc' = "undo" /\ outcome' = outcome
  BY DEF Gate, repoVars
<1>2. cur \in props \ (queue \cup serial) /\ cur \in Branch
  BY <1>1 DEF TruthInv, PropsOpen, Pending
<1>3. outcome'[cur] = "merged" \/ pc' = "undo"
  BY <1>1, <1>2 DEF LandTypes
<1>4. \A a \in Branch : a # cur => outcome'[a] = outcome[a]
  BY <1>1 DEF LandTypes
<1>a. props \subseteq Branch /\ outcome[cur] # "merged"
  BY <1>1 DEF TruthInv, PropsOpen, Pending
<1>5. \A a : Claimed(a) => Claimed(a)' BY <1>1, <1>2, <1>4, <1>a DEF Claimed
<1>6. \A a : OnHead(a) => OnHead(a)'
  BY <1>1, <1>2, <1>3, <1>5 DEF OnHead, Told, Claimed
<1>7. HeadTold' /\ PreTold' BY <1>1, <1>5, <1>6, TruthQuiet DEF InHand
<1>8. PropsOpen' BY <1>1 DEF TruthInv, PropsOpen
<1>9. OneProp' BY <1>1 DEF TruthInv, OneProp
<1>10. Pending' BY <1>1, <1>2, <1>4, <1>a DEF TruthInv, Pending, Busy
<1> QED BY <1>1, <1>7, <1>8, <1>9, <1>10 DEF TruthInv, UnionLeft

\* A rollback takes the proposal in hand off main.
LEMMA TruthUndo ==
  ASSUME LandTypes, TruthInv, Undo, ~harm'
  PROVE  TruthInv'
<1>1. /\ pc = "undo" /\ head' = pre /\ pc' \in {"process", "error"}
      /\ outcome' = outcome \/ (outcome' = [outcome EXCEPT ![cur] = result] /\ result # "error")
      /\ pc' = "error" => outcome' = outcome
      /\ UNCHANGED <<verdict, stray, kind, props, left, batch, serial, queue, cur, pre>>
  BY DEF Undo, ResetHard
<1>2. cur \in props \ (queue \cup serial) /\ cur \in Branch /\ outcome[cur] # "merged"
  BY <1>1 DEF TruthInv, PropsOpen, Pending
<1>3. \A a \in Branch : a # cur => outcome'[a] = outcome[a]
  BY <1>1 DEF LandTypes
<1>a. props \subseteq Branch BY DEF TruthInv, PropsOpen
<1>4. \A a : Claimed(a) => Claimed(a)' BY <1>1, <1>2, <1>3, <1>a DEF Claimed
<1>5. Content(head)' = Content(pre) BY <1>1 DEF Content, Main!Content
<1>6. HeadTold' /\ PreTold'
  <2>1. \A a \in Content(pre) : Told(a) \/ Claimed(a)
    BY <1>1 DEF TruthInv, PreTold, InHand
  <2>2. \A a : Told(a) => Told(a)' BY <1>1 DEF Told
  <2> QED BY <1>1, <1>4, <1>5, <2>1, <2>2 DEF HeadTold, PreTold, OnHead, InHand
<1>7. PropsOpen' BY <1>1 DEF TruthInv, PropsOpen
<1>8. OneProp' BY <1>1, <1>2 DEF TruthInv, OneProp
<1>9. Pending' BY <1>1, <1>2, <1>3, <1>a DEF TruthInv, Pending, Busy
<1> QED BY <1>1, <1>6, <1>7, <1>8, <1>9 DEF TruthInv, UnionLeft

\* The rest of a batch is next, or the call is done.
LEMMA TruthEndQueue ==
  ASSUME LandTypes, TruthInv, EndQueue
  PROVE  TruthInv'
<1>1. /\ pc = "process" /\ pc' \in {"process", "done"} /\ queue' = serial /\ serial' = {}
      /\ UNCHANGED <<head, verdict, stray, kind, props, left, batch, cur, pre, outcome>>
  BY DEF EndQueue, repoVars
<1>2. \A a : OnHead(a) => OnHead(a)' BY <1>1 DEF OnHead, Told, Claimed
<1>3. HeadTold' /\ PreTold' BY <1>1, <1>2, TruthQuiet DEF InHand
<1>4. PropsOpen' BY <1>1 DEF TruthInv, PropsOpen
<1>5. OneProp' BY <1>1 DEF TruthInv, OneProp
<1>6. Pending' BY <1>1 DEF TruthInv, Pending, Busy
<1> QED BY <1>1, <1>3, <1>4, <1>5, <1>6 DEF TruthInv, UnionLeft

\* The log takes over what the call claimed.
LEMMA TruthRecord ==
  ASSUME LandTypes, TruthInv, NEW b \in Branch, Record(b)
  PROVE  TruthInv'
<1>1. /\ pc = "done" /\ pc' = pc /\ b \in props /\ props' = props \ {b}
      /\ verdict' = [verdict EXCEPT ![b] = outcome[b]]
      /\ UNCHANGED <<head, stray, kind, left, batch, serial, queue, cur, pre, outcome>>
  BY DEF Record, Least, repoVars
<1>2. verdict'[b] = outcome[b] /\ \A a : a # b => verdict'[a] = verdict[a]
  BY <1>1 DEF LandTypes
<1>3. verdict[b] # "merged" BY <1>1 DEF TruthInv, PropsOpen
<1>4. \A a : OnHead(a) => OnHead(a)'
  BY <1>1, <1>2, <1>3 DEF OnHead, Told, Claimed
<1>5. Content(head)' = Content(head) BY <1>1 DEF Content, Main!Content
<1>6. HeadTold' /\ PreTold'
  BY <1>1, <1>4, <1>5 DEF TruthInv, HeadTold, PreTold, InHand
<1>7. PropsOpen' BY <1>1, <1>2 DEF TruthInv, PropsOpen
<1>8. OneProp' BY <1>1 DEF TruthInv, OneProp
<1>9. Pending' BY <1>1 DEF Pending, Busy
<1> QED BY <1>1, <1>6, <1>7, <1>8, <1>9 DEF TruthInv, UnionLeft

\* A call that ends in an error leaves on main what was there, or a batch's
\* union, which is noted as stray.
LEMMA TruthEnd ==
  ASSUME LandTypes, TruthInv, EndCall \/ Error
  PROVE  TruthInv'
<1>0. Content(head)' = Content(head) /\ pc' = "idle" /\ props' = {}
  BY DEF EndCall, Error, ToIdle, callVars, Content, Main!Content
<1>1. \A a \in Content(head) : Told(a)'
  <2>1. CASE EndCall
    <3>1. pc = "done" /\ props = {} /\ UNCHANGED <<verdict, stray>> BY <2>1 DEF EndCall
    <3> QED BY <3>1 DEF TruthInv, HeadTold, OnHead, Claimed, Told
  <2>2. CASE Error /\ kind = "batch"
    <3>1. /\ pc = "error" /\ verdict' = verdict
          /\ stray' = stray \cup (props \cap Content(head))
      BY <2>2 DEF Error
    <3> QED BY <3>1 DEF TruthInv, HeadTold, OnHead, Claimed, Told
  <2>3. CASE Error /\ kind # "batch"
    <3>1. /\ pc = "error" /\ verdict' = [verdict EXCEPT ![cur] = "rejected"] /\ stray' = stray
      BY <2>3 DEF Error
    <3>2. cur \in props /\ outcome[cur] # "merged" /\ \A a, b \in props : a = b
      BY <2>3, <3>1 DEF TruthInv, OneProp
    <3>3. verdict[cur] # "merged" BY <3>2 DEF TruthInv, PropsOpen
    <3>4. \A a : verdict[a] = "merged" => verdict'[a] = "merged"
      BY <3>1, <3>3 DEF LandTypes
    <3>5. \A a \in Content(head) : Told(a)
      BY <3>1, <3>2 DEF TruthInv, HeadTold, OnHead, Claimed
    <3> QED BY <3>1, <3>4, <3>5 DEF Told
  <2> QED BY <2>1, <2>2, <2>3
<1>2. HeadTold' BY <1>0, <1>1 DEF HeadTold, OnHead
<1> QED BY <1>0, <1>2 DEF TruthInv, PreTold, PropsOpen, OneProp, Pending, Busy, InHand, UnionLeft

\* Every step keeps it, as long as it does no harm.
LEMMA TruthStep ==
  ASSUME LandInv, HonestInv, [Next]_vars
  PROVE  HonestInv'
<1> SUFFICES ASSUME ~harm' PROVE TruthInv' BY DEF HonestInv
<1>0. LandTypes /\ TruthInv /\ ~Crash BY HarmStays DEF HonestInv, LandInv, Crash
<1>1. CASE UNCHANGED vars
  <2>1. UNCHANGED <<head, verdict, stray, kind, props, left, batch, serial, queue, cur, pre, outcome, pc>>
    BY <1>1 DEF vars, repoVars, callVars
  <2>2. HeadTold' /\ PreTold'
    <3>1. \A a : (OnHead(a) => OnHead(a)') /\ (Claimed(a) => Claimed(a)')
      BY <2>1 DEF OnHead, Told, Claimed
    <3> QED BY <1>0, <2>1, <3>1, TruthQuiet
  <2>3. PropsOpen' BY <1>0, <2>1 DEF TruthInv, PropsOpen
  <2>4. OneProp' BY <1>0, <2>1 DEF TruthInv, OneProp
  <2>5. Pending' /\ UnionLeft' BY <1>0, <2>1 DEF TruthInv, Pending, Busy, UnionLeft
  <2> QED BY <2>2, <2>3, <2>4, <2>5 DEF TruthInv
<1>2. CASE MarkVerifiedBase
  <2>1. UNCHANGED <<head, verdict, stray, kind, props, left, batch, serial, queue, cur, pre, outcome, pc>>
    BY <1>2 DEF MarkVerifiedBase, repoVars, callVars
  <2>2. HeadTold' /\ PreTold'
    <3>1. \A a : (OnHead(a) => OnHead(a)') /\ (Claimed(a) => Claimed(a)')
      BY <2>1 DEF OnHead, Told, Claimed
    <3> QED BY <1>0, <2>1, <3>1, TruthQuiet
  <2>3. PropsOpen' BY <1>0, <2>1 DEF TruthInv, PropsOpen
  <2>4. OneProp' BY <1>0, <2>1 DEF TruthInv, OneProp
  <2>5. Pending' /\ UnionLeft' BY <1>0, <2>1 DEF TruthInv, Pending, Busy, UnionLeft
  <2> QED BY <2>2, <2>3, <2>4, <2>5 DEF TruthInv
<1>3. ASSUME NEW b \in Branch, Process(b) \/ DryRun(b) PROVE TruthInv'
  <2>1. PICK k \in {"one", "dry"} : Call(k, {b}) /\ b \in Open BY <1>3 DEF Process, DryRun
  <2>2. {b} \subseteq Open BY <2>1
  <2>3. \A a, c \in {b} : a = c OBVIOUS
  <2> QED BY <1>0, <2>1, <2>2, <2>3, TruthCall
<1>4. ASSUME NEW S \in SUBSET Branch, ProcessBatch(S) PROVE TruthInv'
  <2>1. Call("batch", S) /\ S \subseteq Open BY <1>4 DEF ProcessBatch, Open
  <2> QED BY <1>0, <2>1, TruthCall
<1> QED
  BY <1>0, <1>1, <1>2, <1>3, <1>4, TruthSelect, TruthUnion, TruthMember, TruthGateBatch,
     TruthUndoBatch, TruthMerge, TruthGate, TruthUndo, TruthEndQueue, TruthRecord, TruthEnd
     DEF Next

\* What the log calls rejected or parked is not on main, unless an earlier call
\* put it there and ended in an error before it could say so, or harm was done.
THEOREM VerdictsTrue == Spec => []VerdictTruth
<1>1. Init => HonestInv
  <2> SUFFICES ASSUME Init PROVE TruthInv BY DEF HonestInv
  <2>1. Content(head) = {} BY DEF Init, Content, Main!Content
  <2> QED BY <2>1 DEF Init, TruthInv, HeadTold, PreTold, PropsOpen, OneProp, Pending, Busy, InHand, UnionLeft
<1>2. LandInv /\ HonestInv /\ [Next]_vars => HonestInv' BY TruthStep
<1>3. HonestInv => VerdictTruth
  BY DEF HonestInv, TruthInv, HeadTold, OnHead, Told, VerdictTruth
<1> QED BY <1>1, <1>2, <1>3, LandInvariance, PTL DEF Spec
-----------------------------------------------------------------------------
(* A rejection has a cause *)

\* b cannot be merged into what is on main, or into some state it was in on the
\* way to s.
CauseAt(b, on) == on \cup {b} \in Red \/ \E a \in on : {a, b} \in Clash
Cause(b, s) == \E n \in 0..Len(s) : CauseAt(b, Content(SubSeq(s, 1, n)))

\* b was called rejected; and what is on main, or will be after a rollback,
\* explains it.
Sunk(b) == verdict[b] = "rejected" \/ outcome[b] = "rejected"
Caused(b) == Cause(b, head) /\ (pc \in InHand => Cause(b, pre))

CauseInv ==
  /\ ~harm /\ pc # "error"
  /\ \A b \in Branch : Sunk(b) => Caused(b)
  /\ pc \in {"gate", "undo"} => cur \in Branch
  /\ pc = "gate" => Content(head) = Content(pre) \cup {cur}
  /\ pc = "undo" => result = "verified" \/ (result = "rejected" /\ Cause(cur, pre))

FairInv == faults \in Nat /\ (faults = 0 => CauseInv)

\* What a step without a fault starts from.
Fair == CalmInv /\ LandTypes /\ CauseInv /\ faults = 0 /\ faults' = 0

\* A reason found in what is there is a reason on the way to it.
LEMMA CauseHere ==
  ASSUME NEW s \in Seq(Branch), NEW b, CauseAt(b, Content(s))
  PROVE  Cause(b, s)
<1>1. Len(s) \in 0..Len(s) /\ SubSeq(s, 1, Len(s)) = s OBVIOUS
<1> QED BY <1>1 DEF Cause

\* Whatever is merged later, the reason stays on the way.
LEMMA CauseMerged ==
  ASSUME head \in Seq(Branch), NEW a \in Branch, NEW b, Cause(b, head)
  PROVE  Cause(b, Merged(a))
<1>1. PICK n \in 0..Len(head) : CauseAt(b, Content(SubSeq(head, 1, n))) BY DEF Cause
<1>2. n \in 0..Len(Append(head, a)) BY <1>1
<1>3. SubSeq(Append(head, a), 1, n) = SubSeq(head, 1, n) BY <1>1
<1>4. Cause(b, Append(head, a)) BY <1>1, <1>2, <1>3 DEF Cause
<1> QED BY <1>4 DEF Merged

\* A fault is counted for good.
LEMMA FaultsCount ==
  ASSUME faults \in Nat, [Next]_vars
  PROVE  faults' \in Nat /\ (faults' = 0 => faults = 0)
<1> SUFFICES faults' = faults \/ faults' = faults + 1 OBVIOUS
<1> USE DEF Fault
<1>1. CASE UNCHANGED vars BY <1>1 DEF vars
<1>2. ASSUME NEW b \in Branch, Process(b) \/ DryRun(b) \/ Select(b) \/ Record(b)
      PROVE  faults' = faults \/ faults' = faults + 1
  BY <1>2 DEF Process, DryRun, Call, Select, Record
<1>3. ASSUME NEW b \in Branch, MergeMember(b) \/ Merge(b)
      PROVE  faults' = faults \/ faults' = faults + 1
  BY <1>3 DEF MergeMember, Merge
<1>4. ASSUME NEW S \in SUBSET Branch, ProcessBatch(S) PROVE faults' = faults
  BY <1>4 DEF ProcessBatch, Call
<1>5. CASE EndSelect \/ GateBatch \/ Gate \/ EndQueue
  BY <1>5 DEF EndSelect, GateBatch, Gate, EndQueue
<1>6. CASE EndCall \/ Error \/ MarkVerifiedBase \/ Undo \/ UndoBatch \/ Crash
  BY <1>6 DEF EndCall, Error, MarkVerifiedBase, Undo, UndoBatch, Crash
<1> QED BY <1>1, <1>2, <1>3, <1>4, <1>5, <1>6 DEF Next

\* A step that calls nothing rejected, on a main that does not change, and takes
\* nothing in hand but what is on it.
LEMMA CauseQuiet ==
  ASSUME Fair, head' = head, harm' = harm, pc' \notin {"gate", "undo", "error"},
         \A b \in Branch : Sunk(b)' => Sunk(b),
         pc' \in InHand => pre' = head \/ (pre' = pre /\ pc \in InHand)
  PROVE  CauseInv'
<1>1. \A b \in Branch : Caused(b) => Caused(b)'
  <2>1. \A b : Cause(b, head)' <=> Cause(b, head)
    BY DEF Cause, CauseAt, Content, Main!Content
  <2>2. pre' = head => \A b : Cause(b, pre)' <=> Cause(b, head)
    BY DEF Cause, CauseAt, Content, Main!Content
  <2>3. pre' = pre => \A b : Cause(b, pre)' <=> Cause(b, pre)
    BY DEF Cause, CauseAt, Content, Main!Content
  <2> QED BY <2>1, <2>2, <2>3 DEF Caused
<1> QED BY <1>1 DEF Fair, CauseInv

\* Calls that begin, sort, go on or end, and the reading of a new base.
LEMMA CauseCalls ==
  ASSUME Fair,
         \/ \E k : \E S : Call(k, S)
         \/ \E b \in Branch : Select(b) \/ Record(b)
         \/ EndSelect \/ GateBatch \/ EndQueue \/ EndCall \/ MarkVerifiedBase
  PROVE  CauseInv'
<1> USE DEF repoVars, callVars, Fault
<1>0. ~Fault BY DEF Fair
<1>1. ASSUME NEW k, NEW S, Call(k, S) PROVE CauseInv'
  <2>1. /\ head' = head /\ harm' = harm /\ verdict' = verdict /\ pc' \in {"select", "process"}
        /\ outcome' = [b \in Branch |-> "none"]
    BY <1>1 DEF Call
  <2>2. \A b \in Branch : Sunk(b)' => Sunk(b) BY <2>1 DEF Sunk
  <2> QED BY <2>1, <2>2, CauseQuiet DEF InHand
<1>2. ASSUME NEW b \in Branch, Select(b) PROVE CauseInv'
  <2>1. UNCHANGED <<head, harm, verdict, outcome, pc>> /\ pc = "select" BY <1>2 DEF Select
  <2>2. \A a \in Branch : Sunk(a)' => Sunk(a) BY <2>1 DEF Sunk
  <2> QED BY <2>1, <2>2, CauseQuiet DEF InHand
<1>3. ASSUME NEW b \in Branch, Record(b) PROVE CauseInv'
  <2>1. UNCHANGED <<head, harm, outcome, pc>> /\ pc = "done" BY <1>3 DEF Record
  <2>2. verdict' = [verdict EXCEPT ![b] = outcome[b]] BY <1>3 DEF Record
  <2>3. \A a \in Branch : Sunk(a)' => Sunk(a) BY <2>1, <2>2 DEF Sunk, Fair, LandTypes
  <2> QED BY <2>1, <2>3, CauseQuiet DEF InHand
<1>4. CASE EndSelect
  <2>1. /\ UNCHANGED <<head, harm, verdict, outcome>> /\ pre' = head
        /\ pc' \in {"process", "union"}
    BY <1>0, <1>4 DEF EndSelect
  <2>2. \A a \in Branch : Sunk(a)' => Sunk(a) BY <2>1 DEF Sunk
  <2> QED BY <2>1, <2>2, CauseQuiet
<1>5. CASE GateBatch
  <2>1. /\ UNCHANGED <<head, harm, verdict, pre>> /\ pc = "union"
        /\ pc' \in {"process", "batchundo"}
        /\ \/ outcome' = outcome
           \/ outcome' = [b \in Branch |-> IF b \in batch THEN "merged" ELSE outcome[b]]
    BY <1>5 DEF GateBatch
  <2>2. \A a \in Branch : Sunk(a)' => Sunk(a) BY <2>1 DEF Sunk
  <2> QED BY <2>1, <2>2, CauseQuiet DEF InHand
<1>6. CASE EndQueue \/ EndCall \/ MarkVerifiedBase
  <2>1. /\ UNCHANGED <<head, harm, verdict, outcome>>
        /\ pc' \in {"process", "done", "idle"}
    BY <1>6 DEF EndQueue, EndCall, ToIdle, MarkVerifiedBase
  <2>2. \A a \in Branch : Sunk(a)' => Sunk(a) BY <2>1 DEF Sunk
  <2> QED BY <2>1, <2>2, CauseQuiet DEF InHand
<1> QED BY <1>1, <1>2, <1>3, <1>4, <1>5, <1>6

\* A branch that joins the union takes no cause away.
LEMMA CauseMember ==
  ASSUME Fair, NEW b \in Branch, MergeMember(b)
  PROVE  CauseInv'
<1>0. ~Fault BY DEF Fair, Fault
<1>1. /\ pc = "union" /\ pc' \in {"union", "batchundo"} /\ head' \in {head, Merged(b)}
      /\ UNCHANGED <<harm, verdict, outcome, pre>>
  BY <1>0 DEF MergeMember, repoVars
<1>2. \A a \in Branch : Sunk(a)' => Caused(a) BY <1>1 DEF Sunk, Fair, CauseInv
<1>3. \A a \in Branch : Caused(a) => Cause(a, head)' /\ Cause(a, pre)'
  <2>1. \A a : Cause(a, head) => Cause(a, Merged(b))
    BY CauseMerged DEF Fair, LandTypes
  <2>2. \A s : head' = s => \A a : Cause(a, s) => Cause(a, head)'
    BY DEF Cause, CauseAt, Content, Main!Content
  <2>3. \A a : Cause(a, pre) => Cause(a, pre)'
    BY <1>1 DEF Cause, CauseAt, Content, Main!Content
  <2> QED BY <1>1, <2>1, <2>2, <2>3 DEF Caused, InHand
<1>4. \A a \in Branch : Sunk(a)' => Caused(a)' BY <1>2, <1>3 DEF Caused
<1> QED BY <1>1, <1>4 DEF Fair, CauseInv

\* A branch that is merged alone: it conflicts with what is on main, or the Gate
\* will see it on top of that.
LEMMA CauseMerge ==
  ASSUME Fair, NEW b \in Branch, Merge(b)
  PROVE  CauseInv'
<1>0. ~Fault BY DEF Fair, Fault
<1>1. /\ pc = "process" /\ cur' = b /\ pre' = head
      /\ UNCHANGED <<harm, verdict, outcome>>
      /\ \/ Conflicts(b) /\ head' = head /\ result' = "rejected" /\ pc' = "undo"
         \/ head' = Merged(b) /\ pc' = "gate"
  BY <1>0 DEF Merge
<1>2. \A a \in Branch : Sunk(a)' => Cause(a, head)
  BY <1>1 DEF Sunk, Fair, CauseInv, Caused
<1>3. \A a \in Branch : Cause(a, head) => Cause(a, head)' /\ Cause(a, pre)'
  <2>1. \A a : Cause(a, head) => Cause(a, Merged(b))
    BY CauseMerged DEF Fair, LandTypes
  <2>2. \A s : head' = s => \A a : Cause(a, s) => Cause(a, head)'
    BY DEF Cause, CauseAt, Content, Main!Content
  <2>3. \A s : pre' = s => \A a : Cause(a, s) => Cause(a, pre)'
    BY DEF Cause, CauseAt, Content, Main!Content
  <2> QED BY <1>1, <2>1, <2>2, <2>3
<1>4. \A a \in Branch : Sunk(a)' => Caused(a)' BY <1>2, <1>3 DEF Caused
<1>5. pc' = "gate" => Content(head)' = Content(pre)' \cup {b}
  <2>1. Content(Merged(b)) = Content(head) \cup {b} BY MergedAdds DEF Fair, LandTypes
  <2>2. \A s : /\ head' = s => Content(head)' = Content(s)
               /\ pre' = s => Content(pre)' = Content(s)
    BY DEF Content, Main!Content
  <2> QED BY <1>1, <2>1, <2>2
<1>6. pc' = "undo" => result' = "rejected" /\ Cause(b, pre)'
  <2>1. ~dirty BY <1>1 DEF Fair, CalmInv, CleanTree
  <2>2. Conflicts(b) => CauseAt(b, Content(head)) BY <2>1 DEF Conflicts, CauseAt
  <2>3. Conflicts(b) => Cause(b, head) BY <2>2, CauseHere DEF Fair, LandTypes
  <2>4. Cause(b, head) => Cause(b, pre)'
    BY <1>1 DEF Cause, CauseAt, Content, Main!Content
  <2> QED BY <1>1, <2>3, <2>4
<1>7. Cause(b, pre)' /\ cur' = b => Cause(cur, pre)'
  BY DEF Cause, CauseAt, Content, Main!Content
<1> QED BY <1>1, <1>4, <1>5, <1>6, <1>7 DEF Fair, CauseInv

\* The Gate that fails has seen the branch red on top of what was there.
LEMMA CauseGate ==
  ASSUME Fair, Gate
  PROVE  CauseInv'
<1>0. ~Fault BY DEF Fair, Fault
<1>1. /\ pc = "gate" /\ UNCHANGED <<head, harm, verdict, pre, cur>>
      /\ \/ pc' = "process" /\ outcome' = [outcome EXCEPT ![cur] = "merged"]
         \/ pc' = "undo" /\ outcome' = outcome /\ result' = "verified"
         \/ pc' = "undo" /\ outcome' = outcome /\ result' = "rejected" /\ ~GatePasses
  BY <1>0 DEF Gate, repoVars
<1>2. \A a \in Branch : Sunk(a)' => Sunk(a) BY <1>1 DEF Sunk, Fair, LandTypes
<1>3. \A a : (Cause(a, head)' <=> Cause(a, head)) /\ (Cause(a, pre)' <=> Cause(a, pre))
  BY <1>1 DEF Cause, CauseAt, Content, Main!Content
<1>4. \A a \in Branch : Sunk(a)' => Caused(a)'
  BY <1>1, <1>2, <1>3 DEF Fair, CauseInv, Caused, InHand
<1>5. ~GatePasses => Cause(cur, pre)
  <2>1. Content(head) = Content(pre) \cup {cur} BY <1>1 DEF Fair, CauseInv
  <2>2. ~GatePasses => CauseAt(cur, Content(pre)) BY <2>1 DEF GatePasses, CauseAt
  <2> QED BY <2>2, CauseHere DEF Fair, LandTypes
<1>6. Cause(cur, pre) => Cause(cur, pre)'
  BY <1>1 DEF Cause, CauseAt, Content, Main!Content
<1> QED BY <1>1, <1>4, <1>5, <1>6 DEF Fair, CauseInv

\* Rolling back goes to a main on which every rejection, the one in hand as
\* well, has its cause.
LEMMA CauseUndo ==
  ASSUME Fair, Undo \/ UndoBatch
  PROVE  CauseInv'
<1>0. ~Fault BY DEF Fair, Fault
<1>1. /\ pc \in {"undo", "batchundo"} /\ pc' = "process" /\ head' = pre
      /\ UNCHANGED <<harm, verdict>>
      /\ outcome' = outcome
         \/ (pc = "undo" /\ outcome' = [outcome EXCEPT ![cur] = result])
  BY <1>0 DEF Undo, UndoBatch, ResetHard, Fair, CauseInv
<1>2. \A a \in Branch : Sunk(a)' => Cause(a, pre)
  <2>1. \A a \in Branch : Sunk(a) => Cause(a, pre)
    BY <1>1 DEF Fair, CauseInv, Caused, InHand
  <2>2. CASE outcome' = outcome BY <1>1, <2>1, <2>2 DEF Sunk
  <2>3. CASE pc = "undo" /\ outcome' = [outcome EXCEPT ![cur] = result]
    <3>1. result = "verified" \/ (result = "rejected" /\ Cause(cur, pre))
      BY <2>3 DEF Fair, CauseInv
    <3>2. \A a \in Branch : a # cur => (Sunk(a)' => Sunk(a))
      BY <1>1, <2>3 DEF Sunk, Fair, LandTypes
    <3>3. \A a \in Branch : a = cur /\ Sunk(a)' => Sunk(a) \/ result = "rejected"
      BY <1>1, <2>3 DEF Sunk, Fair, LandTypes
    <3>4. \A a \in Branch : a = cur /\ Sunk(a)' => Cause(a, pre) BY <2>1, <3>1, <3>3
    <3>5. \A a \in Branch : a # cur /\ Sunk(a)' => Cause(a, pre) BY <2>1, <3>2
    <3> QED BY <3>4, <3>5
  <2> QED BY <1>1, <2>2, <2>3
<1>3. \A a : Cause(a, pre) => Cause(a, head)'
  BY <1>1 DEF Cause, CauseAt, Content, Main!Content
<1>4. \A a \in Branch : Sunk(a)' => Caused(a)' BY <1>1, <1>2, <1>3 DEF Caused, InHand
<1> QED BY <1>1, <1>4 DEF Fair, CauseInv

\* Every step without a fault keeps it.
LEMMA CauseStep ==
  ASSUME QueueInv, LandInv, FairInv, [Next]_vars
  PROVE  FairInv'
<1>1. faults' \in Nat /\ (faults' = 0 => faults = 0) BY FaultsCount DEF FairInv
<1> SUFFICES ASSUME faults' = 0 PROVE CauseInv' BY <1>1 DEF FairInv
<1>2. Fair BY <1>1 DEF Fair, FairInv, QueueInv, CauseInv, LandInv
<1>3. ~Error /\ ~Crash BY <1>2 DEF Fair, CauseInv, Error, Crash, Fault
<1>4. CASE UNCHANGED vars
  <2>1. UNCHANGED <<head, harm, verdict, outcome, pc, pre, cur, result>>
    BY <1>4 DEF vars, repoVars, callVars
  <2>2. /\ \A a : (Cause(a, head)' <=> Cause(a, head)) /\ (Cause(a, pre)' <=> Cause(a, pre))
        /\ Content(head)' = Content(head) /\ Content(pre)' = Content(pre)
    BY <2>1 DEF Cause, CauseAt, Content, Main!Content
  <2>3. Cause(cur, pre) => Cause(cur, pre)'
    BY <2>1 DEF Cause, CauseAt, Content, Main!Content
  <2>4. \A a \in Branch : Sunk(a)' => Caused(a)'
    BY <1>2, <2>1, <2>2 DEF Fair, CauseInv, Caused, Sunk
  <2> QED BY <1>2, <2>1, <2>2, <2>3, <2>4 DEF Fair, CauseInv
<1>5. ASSUME NEW b \in Branch, Process(b) \/ DryRun(b) PROVE CauseInv'
  BY <1>2, <1>5, CauseCalls DEF Process, DryRun
<1>6. ASSUME NEW S \in SUBSET Branch, ProcessBatch(S) PROVE CauseInv'
  BY <1>2, <1>6, CauseCalls DEF ProcessBatch
<1> QED BY <1>2, <1>3, <1>4, <1>5, <1>6, CauseCalls, CauseMember, CauseMerge, CauseGate, CauseUndo
        DEF Next

\* A single bad proposal never sinks good neighbours: as long as git and the
\* Gate do not fail themselves, what ProcessBatch, Process or DryRun rejects has
\* a cause of its own.
THEOREM NoneSunk == Spec => []NoCollateral
<1>1. Init => FairInv BY DEF Init, FairInv, CauseInv, Sunk
<1>2. QueueInv /\ LandInv /\ FairInv /\ [Next]_vars => FairInv' BY CauseStep
<1>3. FairInv => NoCollateral
  BY DEF FairInv, CauseInv, Sunk, Caused, Cause, CauseAt, NoCollateral
<1> QED BY <1>1, <1>2, <1>3, QueueInvariance, LandInvariance, PTL DEF Spec
=============================================================================
