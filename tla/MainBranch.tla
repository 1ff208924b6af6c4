------------------------------ MODULE MainBranch ------------------------------
(* What the merge queue promises of the integration branch: it only ever     *)
(* grows, and every state of it that anyone but the queue sees is green.     *)
EXTENDS Sequences, Naturals

CONSTANTS Branch,  \* what can be merged
          Red      \* the sets of branches whose union fails the Gate

VARIABLE main      \* the branches merged, in order

Content(s) == {s[i] : i \in DOMAIN s}

Green(s) == Content(s) \notin Red

Init == main = <<>>

Grow ==
  /\ main' \in Seq(Branch)
  /\ Len(main) <= Len(main') /\ main = SubSeq(main', 1, Len(main))
  /\ Green(main')

Spec == Init /\ [][Grow]_main
=============================================================================
