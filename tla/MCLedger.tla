------------------------------- MODULE MCLedger -------------------------------
(* Small instances of Ledger for TLC. *)
EXTENDS Ledger, TLC

CONSTANTS k1, k2, k3, h1, h2, t1, t2, t3

\* Two goroutines of one process and one of another.
MCHandleOf == (t1 :> h1) @@ (t2 :> h1) @@ (t3 :> h2)

\* k1 is appended without a check; k2 and k3 are only appended by Updates that
\* check for them, alone or in one transaction.
MCOp == {[kind |-> "Append", keys |-> {k1}],
         [kind |-> "Update", keys |-> {k2}],
         [kind |-> "Update", keys |-> {k2, k3}]}

-----------------------------------------------------------------------------
=============================================================================
