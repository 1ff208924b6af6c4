------------------------------ MODULE MCTaskGraph ------------------------------
EXTENDS TaskGraph

CONSTANTS la, lb, lc, key

MCLocal == {NoLocal, la, lb, lc}

MCKey == {NoKey, key, RootKey(2)}

Sub(local, k, deps) == [local |-> local, key |-> k, deps |-> deps]

\* What is said of goal 1 and of goal 2; the rest is done.
Says(one, two, n) ==
  [goals |-> {1, 2}, crashes |-> n,
   says |-> [g \in Goal |-> CASE g = 1 -> one [] g = 2 -> two [] OTHER -> {}]]

\* Chains and shared work: answers that adopt the ticket of goal
\* 2, one that is cyclic, one with a dependency nobody knows, one that waits for
\* the ticket it comes from, and malformed ones.
Chains ==
  Says({<<Sub(la, key, {}), Sub(lb, NoKey, {la})>>,
        <<Sub(la, RootKey(2), {}), Sub(lb, NoKey, {la, <<2>>})>>, <<Sub(la, RootKey(2), {})>>,
        <<Sub(la, NoKey, {lb}), Sub(lb, NoKey, {la})>>,
        <<Sub(la, NoKey, {<<1, lc>>})>>,
        <<Sub(la, NoKey, {<<1>>})>>,
        <<Sub(NoLocal, NoKey, {})>>, <<Sub(la, NoKey, {}), Sub(la, NoKey, {})>>},
       {<<Sub(la, key, {}), Sub(lb, key, {}), Sub(lc, NoKey, {lb})>>}, 0)

\* Growth: everything is split in two, or in three, which is too many.
Growth ==
  Says({<<Sub(la, NoKey, {}), Sub(lb, NoKey, {})>>,
        <<Sub(la, NoKey, {}), Sub(lb, NoKey, {}), Sub(lc, NoKey, {})>>}, {}, 0)

\* A split that breaks off, and is made again or made differently.
Again ==
  Says({<<Sub(la, key, {lb}), Sub(lb, NoKey, {})>>, <<Sub(lc, key, {}), Sub(lb, NoKey, {lc})>>},
       {}, 1)

\* Two goals whose tickets share what they make; the first split breaks off.
Woven ==
  Says({<<Sub(la, NoKey, {lb}), Sub(lb, NoKey, {<<2, la>>})>>},
       {<<Sub(la, NoKey, {lb}), Sub(lb, NoKey, {})>>, <<Sub(lb, NoKey, {<<1, la>>})>>}, 1)

WovenAnswers == {Woven}

AllAnswers == {Chains, Growth, Again}
=============================================================================
