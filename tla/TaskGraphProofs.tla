---------------------------- MODULE TaskGraphProofs ----------------------------
(***************************************************************************)
(* HasCycle finds the cycles of every finite graph; a goal's graph is no   *)
(* larger than its governors and the splits beside one another make it;    *)
(* until a crash it has no cycle, however many splits are at work; and if  *)
(* nothing is left to do in a graph without a cycle, everything is done.   *)
(*                                                                         *)
(* A graph is shown to have no cycle by a property that is easier to keep: *)
(* every set of its nodes has one from which no edge leads into the set    *)
(* (Grounded).  The invariant says so of the dependencies of the tickets   *)
(* together with those of every child that is listed and not yet created.  *)
(***************************************************************************)
EXTENDS TaskGraph, FiniteSetTheorems, SequenceTheorems, WellFoundedInduction, TLAPS

-----------------------------------------------------------------------------
(* Numbers and sets *)

\* A set of numbers that is not empty has a least.
LEMMA Smallest ==
  ASSUME NEW S, S \subseteq Nat, S # {} PROVE \E m \in S : \A k \in S : m <= k
<1> DEFINE R == OpToRel(<, Nat)
<1>1. IsWellFoundedOn(R, Nat) BY NatLessThanWellFounded
<1> HIDE DEF R
<1>2. PICK m \in S : \A k \in S : ~(<<k, m>> \in R) BY <1>1, WFMin
<1>3. \A k \in S : ~(k < m) BY <1>2 DEF OpToRel, R
<1>4. \A k \in S : m <= k BY <1>3
<1> QED BY <1>4

\* A set of numbers that has 0, and n + 1 with n, has every number.
LEMMA Counting ==
  ASSUME NEW S, 0 \in S, \A n \in Nat : n \in S => n + 1 \in S
  PROVE  \A n \in Nat : n \in S
<1> DEFINE Bad == {n \in Nat : n \notin S}
<1> SUFFICES ASSUME Bad # {} PROVE FALSE OBVIOUS
<1>1. PICK m \in Bad : \A k \in Bad : m <= k
  <2>1. Bad \subseteq Nat OBVIOUS
  <2> HIDE DEF Bad
  <2> QED BY <2>1, Smallest
<1>2. m # 0 BY <1>1
<1>3. m - 1 \in Nat /\ m - 1 \notin Bad BY <1>1, <1>2
<1>4. (m - 1) + 1 = m BY <1>1
<1>5. m \in S BY <1>3, <1>4
<1> QED BY <1>5

\* The least of a set of numbers is in it.
LEMMA MinIs ==
  ASSUME NEW S, S \subseteq Nat, S # {}
  PROVE  Min(S) \in S /\ \A k \in S : Min(S) <= k
<1>1. PICK m \in S : \A k \in S : m <= k BY Smallest
<1> QED BY <1>1 DEF Min

\* A finite set of numbers that is not empty has a greatest.
LEMMA MaxIs ==
  ASSUME NEW S, IsFiniteSet(S), S \subseteq Nat, S # {}
  PROVE  Max(S) \in S /\ \A k \in S : k <= Max(S)
<1> DEFINE Above(x) == {y \in S : y > x}
           H == {Cardinality(Above(x)) : x \in S}
<1>1. \A x \in S : Above(x) \subseteq S /\ IsFiniteSet(Above(x)) BY FS_Subset
<1>2. \A x \in S : Cardinality(Above(x)) \in Nat BY <1>1, FS_CardinalityType
<1>3. H \subseteq Nat /\ H # {} BY <1>2
<1>4. PICK m \in H : \A k \in H : m <= k BY <1>3, Smallest
<1>5. PICK x \in S : m = Cardinality(Above(x)) BY <1>4
<1>6. ASSUME NEW y \in S, y > x PROVE FALSE
  <2>1. Above(y) \subseteq Above(x) BY <1>5, <1>6
  <2>2. y \in Above(x) /\ y \notin Above(y) BY <1>5, <1>6
  <2>3. Cardinality(Above(y)) <= Cardinality(Above(x)) /\ Cardinality(Above(y)) # Cardinality(Above(x))
    BY <1>1, <2>1, <2>2, FS_Subset
  <2>4. Cardinality(Above(x)) <= Cardinality(Above(y)) BY <1>4, <1>5, <1>6
  <2> QED BY <1>2, <1>6, <2>3, <2>4
<1>7. \A y \in S : x >= y BY <1>5, <1>6
<1> QED BY <1>7 DEF Max

\* What a function makes of a finite set is finite, and no larger.
LEMMA ImageFinite ==
  ASSUME NEW S, NEW T, NEW f, IsFiniteSet(S), \A y \in T : \E x \in S : f[x] = y
  PROVE  IsFiniteSet(T) /\ Cardinality(T) <= Cardinality(S)
<1> DEFINE R == {x \in S : f[x] \in T}
           g == [x \in R |-> f[x]]
<1>1. IsFiniteSet(R) /\ Cardinality(R) <= Cardinality(S) BY FS_Subset
<1>2. g \in Surjection(R, T) BY DEF Surjection
<1> HIDE DEF R, g
<1>3. IsFiniteSet(T) /\ Cardinality(T) <= Cardinality(R) BY <1>1, <1>2, FS_Surjection
<1>4. Cardinality(T) \in Nat /\ Cardinality(R) \in Nat /\ Cardinality(S) \in Nat
  BY <1>1, <1>3, FS_CardinalityType
<1> QED BY <1>1, <1>3, <1>4

\* The sets of a finite family, each of at most k elements.
LEMMA UnionFinite ==
  ASSUME NEW W, NEW A, IsFiniteSet(W), \A u \in W : IsFiniteSet(A[u])
  PROVE  /\ IsFiniteSet(UNION {A[u] : u \in W})
         /\ \A k \in Nat : (\A u \in W : Cardinality(A[u]) <= k) =>
              Cardinality(UNION {A[u] : u \in W}) <= Cardinality(W) * k
<1> DEFINE All(V) == UNION {A[u] : u \in V}
           OK(V) == /\ IsFiniteSet(All(V))
                    /\ \A k \in Nat : (\A u \in W : Cardinality(A[u]) <= k) =>
                         Cardinality(All(V)) <= Cardinality(V) * k
           S == {n \in Nat : \A V \in SUBSET W : Cardinality(V) = n => OK(V)}
<1>1. 0 \in S
  <2> SUFFICES ASSUME NEW V \in SUBSET W, Cardinality(V) = 0 PROVE OK(V) OBVIOUS
  <2>1. V = {} BY FS_Subset, FS_EmptySet
  <2>2. All(V) = {} BY <2>1
  <2>3. IsFiniteSet(All(V)) /\ Cardinality(All(V)) = 0 BY <2>2, FS_EmptySet
  <2> HIDE DEF All
  <2>4. \A k \in Nat : Cardinality(All(V)) <= Cardinality(V) * k BY <2>3
  <2> QED BY <2>3, <2>4
<1>2. ASSUME NEW n \in Nat, n \in S PROVE n + 1 \in S
  <2> HIDE DEF OK
  <2> SUFFICES ASSUME NEW V \in SUBSET W, Cardinality(V) = n + 1 PROVE OK(V) OBVIOUS
  <2> USE DEF OK
  <2>1. IsFiniteSet(V) BY FS_Subset
  <2>2. V # {} BY <2>1, FS_EmptySet
  <2>3. PICK x : x \in V BY <2>2
  <2> DEFINE U == V \ {x}
  <2>4. Cardinality(U) = Cardinality(V) - 1 BY <2>1, <2>3, FS_RemoveElement
  <2>5. U \in SUBSET W /\ Cardinality(U) = n BY <2>4
  <2>6. OK(U) BY <1>2, <2>5
  <2>7. All(V) = All(U) \cup A[x] BY <2>3
  <2>8. IsFiniteSet(A[x]) BY <2>3
  <2> HIDE DEF All
  <2>9. IsFiniteSet(All(V)) BY <2>6, <2>7, <2>8, FS_Union
  <2>10. ASSUME NEW k \in Nat, \A u \in W : Cardinality(A[u]) <= k
         PROVE  Cardinality(All(V)) <= Cardinality(V) * k
    <3>1. Cardinality(All(U)) <= n * k BY <2>5, <2>6, <2>10
    <3>2. Cardinality(A[x]) <= k BY <2>3, <2>10
    <3>3. Cardinality(All(V)) =
            Cardinality(All(U)) + Cardinality(A[x]) - Cardinality(All(U) \cap A[x])
      BY <2>6, <2>7, <2>8, FS_Union
    <3>4. IsFiniteSet(All(U) \cap A[x]) BY <2>8, FS_Subset
    <3>5. /\ Cardinality(All(U)) \in Nat /\ Cardinality(A[x]) \in Nat
          /\ Cardinality(All(U) \cap A[x]) \in Nat
      BY <2>6, <2>8, <3>4, FS_CardinalityType
    <3>6. (n + 1) * k = n * k + k /\ n * k \in Nat OBVIOUS
    <3>7. Cardinality(All(V)) <= (n + 1) * k BY <3>1, <3>2, <3>3, <3>5, <3>6
    <3> QED BY <3>7
  <2> QED BY <2>9, <2>10
<1>3. \A n \in Nat : n \in S
  <2> HIDE DEF S
  <2> QED BY <1>1, <1>2, Counting
<1>4. Cardinality(W) \in Nat BY FS_CardinalityType
<1>5. OK(W) BY <1>3, <1>4
<1> QED BY <1>5

-----------------------------------------------------------------------------
(* Recursive functions *)

\* What a step makes of a start when it is taken again and again.
Iterates(base, step, f) == f = [i \in Nat |-> IF i = 0 THEN base ELSE step[f[i - 1]]]

\* There is such a function, for every start and step.
LEMMA IteratesExist == ASSUME NEW base, NEW step PROVE \E f : Iterates(base, step, f)
<1> DEFINE Walk(f, n) == f[0] = base /\ \A i \in 1..n : f[i] = step[f[i - 1]]
           S == {n \in Nat : \E f : Walk(f, n)}
<1>1. 0 \in S
  <2> DEFINE f == [i \in {0} |-> base]
  <2>1. Walk(f, 0) OBVIOUS
  <2> HIDE DEF f
  <2> QED BY <2>1
<1>2. ASSUME NEW n \in Nat, n \in S PROVE n + 1 \in S
  <2>1. PICK f : Walk(f, n) BY <1>2
  <2> DEFINE g == [i \in 0..n + 1 |-> IF i = n + 1 THEN step[f[n]] ELSE f[i]]
  <2>2. g[0] = base BY <2>1
  <2>3. ASSUME NEW i \in 1..n + 1 PROVE g[i] = step[g[i - 1]]
    <3>1. CASE i = n + 1
      <4>1. g[i] = step[f[n]] /\ i - 1 = n /\ g[n] = f[n] BY <3>1
      <4> QED BY <4>1
    <3>2. CASE i # n + 1
      <4>1. i \in 1..n /\ i \in 0..n + 1 /\ i - 1 \in 0..n + 1 /\ i - 1 # n + 1 BY <3>2
      <4>2. g[i] = f[i] /\ g[i - 1] = f[i - 1] BY <3>2, <4>1
      <4>3. f[i] = step[f[i - 1]] BY <2>1, <4>1
      <4> QED BY <4>2, <4>3
    <3> QED BY <3>1, <3>2
  <2> HIDE DEF g
  <2>4. Walk(g, n + 1) BY <2>2, <2>3
  <2> QED BY <2>4
<1>3. \A n \in Nat : n \in S
  <2> HIDE DEF S
  <2> QED BY <1>1, <1>2, Counting
<1> DEFINE w(n) == CHOOSE f : Walk(f, n)
           h == [i \in Nat |-> w(i)[i]]
<1>4. \A n \in Nat : Walk(w(n), n) BY <1>3
<1> HIDE DEF w
<1>5. ASSUME NEW n \in Nat PROVE w(n + 1)[n] = w(n)[n]
  <2> DEFINE T == {i \in Nat : i <= n => w(n + 1)[i] = w(n)[i]}
  <2>1. 0 \in T BY <1>4
  <2>2. ASSUME NEW i \in Nat, i \in T PROVE i + 1 \in T
    <3> SUFFICES ASSUME i + 1 <= n PROVE w(n + 1)[i + 1] = w(n)[i + 1] OBVIOUS
    <3>1. w(n + 1)[i] = w(n)[i] BY <2>2
    <3>2. i + 1 \in 1..n /\ i + 1 \in 1..n + 1 /\ (i + 1) - 1 = i OBVIOUS
    <3>3. w(n)[i + 1] = step[w(n)[i]] BY <1>4, <3>2
    <3>4. Walk(w(n + 1), n + 1) BY <1>4
    <3>5. w(n + 1)[i + 1] = step[w(n + 1)[i]] BY <3>2, <3>4
    <3> QED BY <3>1, <3>3, <3>5
  <2>3. \A i \in Nat : i \in T
    <3> HIDE DEF T
    <3> QED BY <2>1, <2>2, Counting
  <2> QED BY <2>3
<1>6. ASSUME NEW i \in Nat PROVE h[i] = IF i = 0 THEN base ELSE step[h[i - 1]]
  <2>1. CASE i = 0 BY <1>4, <2>1
  <2>2. CASE i # 0
    <3> DEFINE n == i - 1
    <3>1. n \in Nat /\ i = n + 1 /\ i \in 1..i BY <2>2
    <3>2. w(i)[i] = step[w(i)[n]] BY <1>4, <3>1
    <3>3. w(i)[n] = w(n)[n]
      <4> HIDE DEF n
      <4> QED BY <1>5, <3>1
    <3>4. h[i] = w(i)[i] /\ h[n] = w(n)[n] BY <3>1
    <3> QED BY <2>2, <3>2, <3>3, <3>4
  <2> QED BY <2>1, <2>2
<1>7. h = [i \in Nat |-> h[i]] OBVIOUS
<1> HIDE DEF h
<1>8. Iterates(base, step, h) BY <1>6, <1>7 DEF Iterates
<1> QED BY <1>8

\* Its values.
LEMMA IteratesAre ==
  ASSUME NEW base, NEW step, NEW f, Iterates(base, step, f)
  PROVE  f[0] = base /\ \A n \in Nat : f[n + 1] = step[f[n]]
<1>1. f[0] = base BY DEF Iterates
<1>2. ASSUME NEW n \in Nat PROVE f[n + 1] = step[f[n]]
  <2>1. n + 1 \in Nat /\ n + 1 # 0 /\ (n + 1) - 1 = n OBVIOUS
  <2> QED BY <2>1 DEF Iterates
<1> QED BY <1>1, <1>2

-----------------------------------------------------------------------------
(* Graphs *)

\* No edge of E leaves C.
Closed(E, C) == \A m \in C \cap DOMAIN E : E[m] \subseteq C

\* Every set of nodes has one from which no edge leads into the set.
Grounded(E) == \A S \in SUBSET DOMAIN E : S # {} => \E n \in S : E[n] \cap S = {}

\* The steps by which Reached grows.
LEMMA NearExists ==
  ASSUME NEW E, NEW S
  PROVE  \E near : /\ Reached(E, S) = near[Cardinality(DOMAIN E)]
                   /\ near[0] = S
                   /\ \A n \in Nat :
                        near[n + 1] = near[n] \cup UNION {E[m] : m \in near[n] \cap DOMAIN E}
<1> DEFINE Out(X) == X \cup UNION {E[m] : m \in X \cap DOMAIN E}
           U == S \cup UNION {E[m] : m \in DOMAIN E}
           step == [X \in SUBSET U |-> Out(X)]
           IsNear(f) == f = [n \in Nat |-> IF n = 0 THEN S ELSE Out(f[n - 1])]
           near == CHOOSE f : IsNear(f)
<1> HIDE DEF step
<1>1. PICK f : Iterates(S, step, f) BY IteratesExist
<1>2. f[0] = S /\ \A n \in Nat : f[n + 1] = step[f[n]] BY <1>1, IteratesAre
<1>3. \A X \in SUBSET U : Out(X) \in SUBSET U OBVIOUS
<1>4. \A X \in SUBSET U : step[X] = Out(X) BY DEF step
<1>5. S \in SUBSET U OBVIOUS
<1> HIDE DEF Out, U
<1>6. \A n \in Nat : f[n] \in SUBSET U
  <2> DEFINE T == {n \in Nat : f[n] \in SUBSET U}
  <2>1. 0 \in T BY <1>2, <1>5
  <2>2. ASSUME NEW n \in Nat, n \in T PROVE n + 1 \in T
    <3>1. f[n] \in SUBSET U /\ f[n + 1] = step[f[n]] BY <1>2, <2>2
    <3>2. step[f[n]] = Out(f[n]) BY <1>4, <3>1
    <3>3. Out(f[n]) \in SUBSET U BY <1>3, <3>1
    <3> QED BY <3>1, <3>2, <3>3
  <2>3. \A n \in Nat : n \in T
    <3> HIDE DEF T
    <3> QED BY <2>1, <2>2, Counting
  <2> QED BY <2>3
<1>7. \A n \in Nat : f[n + 1] = Out(f[n]) BY <1>2, <1>4, <1>6
<1>8. \A n \in Nat : f[n] = IF n = 0 THEN S ELSE Out(f[n - 1])
  <2> TAKE n \in Nat
  <2>1. CASE n = 0 BY <1>2, <2>1
  <2>2. CASE n # 0
    <3>1. n - 1 \in Nat /\ (n - 1) + 1 = n BY <2>2
    <3>2. f[(n - 1) + 1] = Out(f[n - 1]) BY <1>7, <3>1
    <3> QED BY <2>2, <3>1, <3>2
  <2> QED BY <2>1, <2>2
<1>9. IsNear(f)
  <2>1. f = [n \in Nat |-> f[n]] BY <1>1 DEF Iterates
  <2> QED BY <1>8, <2>1
<1>10. IsNear(near) BY <1>9
<1>11. Reached(E, S) = near[Cardinality(DOMAIN E)] BY DEF Reached, Out
<1> HIDE DEF near
<1>12. near[0] = S BY <1>10
<1>13. ASSUME NEW n \in Nat PROVE near[n + 1] = Out(near[n])
  <2>1. n + 1 \in Nat /\ n + 1 # 0 /\ (n + 1) - 1 = n OBVIOUS
  <2> QED BY <1>10, <2>1
<1> QED BY <1>11, <1>12, <1>13 DEF Out

\* What is reached from S is the least set that S is in and no edge leaves.
LEMMA ReachedIs ==
  ASSUME NEW E, NEW S, IsFiniteSet(DOMAIN E)
  PROVE  /\ S \subseteq Reached(E, S) /\ Closed(E, Reached(E, S))
         /\ \A C : S \subseteq C /\ Closed(E, C) => Reached(E, S) \subseteq C
<1> DEFINE D == DOMAIN E
           K == Cardinality(D)
<1>1. K \in Nat BY FS_CardinalityType
<1>2. PICK near : /\ Reached(E, S) = near[K] /\ near[0] = S
                  /\ \A n \in Nat : near[n + 1] = near[n] \cup UNION {E[m] : m \in near[n] \cap D}
  BY NearExists
<1> HIDE DEF D, K
<1>3. \A n \in Nat : S \subseteq near[n]
  <2> DEFINE T == {n \in Nat : S \subseteq near[n]}
  <2>1. 0 \in T BY <1>2
  <2>2. \A n \in Nat : n \in T => n + 1 \in T BY <1>2
  <2>3. \A n \in Nat : n \in T
    <3> HIDE DEF T
    <3> QED BY <2>1, <2>2, Counting
  <2> QED BY <2>3
<1>4. ASSUME NEW C, S \subseteq C, Closed(E, C) PROVE \A n \in Nat : near[n] \subseteq C
  <2> DEFINE T == {n \in Nat : near[n] \subseteq C}
  <2>1. 0 \in T BY <1>2, <1>4
  <2>2. \A n \in Nat : n \in T => n + 1 \in T BY <1>2, <1>4 DEF Closed, D
  <2>3. \A n \in Nat : n \in T
    <3> HIDE DEF T
    <3> QED BY <2>1, <2>2, Counting
  <2> QED BY <2>3
<1> DEFINE a(n) == Cardinality(near[n] \cap D)
<1>5. \A n \in Nat : IsFiniteSet(near[n] \cap D) /\ a(n) \in Nat /\ a(n) <= K
  <2>1. \A n \in Nat : near[n] \cap D \in SUBSET D OBVIOUS
  <2>2. \A n \in Nat : IsFiniteSet(near[n] \cap D) /\ a(n) <= K BY <2>1, FS_Subset DEF D, K
  <2> QED BY <2>2, FS_CardinalityType
<1>6. \A n \in Nat : Closed(E, near[n]) \/ a(n) >= n + 1
  <2> DEFINE T == {n \in Nat : Closed(E, near[n]) \/ a(n) >= n + 1}
  <2>1. 0 \in T
    <3>1. CASE near[0] \cap D = {} BY <3>1 DEF Closed, D
    <3>2. CASE near[0] \cap D # {}
      <4>1. a(0) # 0 BY <1>5, <3>2, FS_EmptySet
      <4> QED BY <1>5, <4>1
    <3> QED BY <3>1, <3>2
  <2>2. ASSUME NEW n \in Nat, n \in T PROVE n + 1 \in T
    <3>1. near[n + 1] = near[n] \cup UNION {E[m] : m \in near[n] \cap D} BY <1>2
    <3>2. CASE Closed(E, near[n])
      <4>1. near[n + 1] = near[n] BY <3>1, <3>2 DEF Closed, D
      <4> QED BY <3>2, <4>1
    <3>3. CASE near[n + 1] \cap D = near[n] \cap D
      <4>1. Closed(E, near[n + 1]) BY <3>1, <3>3 DEF Closed, D
      <4> QED BY <4>1
    <3>4. CASE a(n) >= n + 1 /\ near[n + 1] \cap D # near[n] \cap D
      <4>1. near[n] \cap D \in SUBSET (near[n + 1] \cap D) BY <3>1
      <4>2. IsFiniteSet(near[n + 1] \cap D) /\ a(n) \in Nat /\ a(n + 1) \in Nat BY <1>5
      <4>3. a(n) <= a(n + 1) /\ a(n) # a(n + 1) BY <3>4, <4>1, <4>2, FS_Subset
      <4> HIDE DEF a
      <4>4. a(n + 1) >= (n + 1) + 1 BY <3>4, <4>2, <4>3
      <4> QED BY <4>4
    <3> QED BY <2>2, <3>2, <3>3, <3>4
  <2>3. \A n \in Nat : n \in T
    <3> HIDE DEF T
    <3> QED BY <2>1, <2>2, Counting
  <2> QED BY <2>3
<1>7. a(K) <= K /\ a(K) \in Nat /\ (Closed(E, near[K]) \/ a(K) >= K + 1) BY <1>1, <1>5, <1>6
<1> HIDE DEF a
<1>8. Closed(E, near[K]) BY <1>1, <1>7
<1> QED BY <1>1, <1>2, <1>3, <1>4, <1>8

\* A grounded graph has no cycle.
LEMMA GroundedAcyclic ==
  ASSUME NEW E, IsFiniteSet(DOMAIN E), Grounded(E) PROVE Acyclic(E)
<1> SUFFICES ASSUME NEW n \in DOMAIN E, n \in Reached(E, E[n]) PROVE FALSE BY DEF Acyclic
<1> DEFINE T == {x \in DOMAIN E : n \in Reached(E, E[x])}
<1>1. PICK x \in T : E[x] \cap T = {} BY DEF Grounded
<1> DEFINE C == E[x] \cup UNION {Reached(E, E[y]) : y \in E[x] \cap DOMAIN E}
<1>2. Closed(E, C)
  <2> SUFFICES ASSUME NEW m \in C, m \in DOMAIN E PROVE E[m] \subseteq C BY DEF Closed
  <2>1. CASE m \in E[x]
    <3>1. E[m] \subseteq Reached(E, E[m]) BY ReachedIs
    <3> QED BY <2>1, <3>1
  <2>2. ASSUME NEW y \in E[x] \cap DOMAIN E, m \in Reached(E, E[y]) PROVE E[m] \subseteq C
    <3>1. Closed(E, Reached(E, E[y])) BY ReachedIs
    <3>2. E[m] \subseteq Reached(E, E[y]) BY <2>2, <3>1 DEF Closed
    <3> QED BY <3>2
  <2> QED BY <2>1, <2>2
<1>3. n \in C
  <2>1. E[x] \subseteq C OBVIOUS
  <2> HIDE DEF C
  <2>2. Reached(E, E[x]) \subseteq C BY <1>2, <2>1, ReachedIs
  <2> QED BY <2>2
<1>4. CASE n \in E[x] BY <1>1, <1>4
<1>5. ASSUME NEW y \in E[x] \cap DOMAIN E, n \in Reached(E, E[y]) PROVE FALSE BY <1>1, <1>5
<1> QED BY <1>3, <1>4, <1>5

\* A part of a grounded graph is grounded.
LEMMA GroundedPart ==
  ASSUME NEW E, NEW F, Grounded(E), DOMAIN F \subseteq DOMAIN E,
         \A n \in DOMAIN F : F[n] \subseteq E[n]
  PROVE  Grounded(F)
<1> SUFFICES ASSUME NEW S \in SUBSET DOMAIN F, S # {} PROVE \E n \in S : F[n] \cap S = {}
  BY DEF Grounded
<1>1. S \in SUBSET DOMAIN E OBVIOUS
<1>2. PICK n \in S : E[n] \cap S = {} BY <1>1 DEF Grounded
<1> QED BY <1>2

\* A grounded graph E may be extended by nodes to which no edge of E leads, if those
\* are grounded among themselves, as part of A.
LEMMA GroundedGrows ==
  ASSUME NEW E, NEW A, NEW F, NEW New, Grounded(E), Grounded(A),
         DOMAIN F \subseteq DOMAIN E \cup New, New \subseteq DOMAIN A,
         \A n \in DOMAIN F \cap DOMAIN E : F[n] \subseteq E[n] /\ E[n] \cap New = {},
         \A n \in New : F[n] \subseteq A[n]
  PROVE  Grounded(F)
<1> SUFFICES ASSUME NEW S \in SUBSET DOMAIN F, S # {} PROVE \E n \in S : F[n] \cap S = {}
  BY DEF Grounded
<1>1. CASE S \cap DOMAIN E # {}
  <2>1. S \cap DOMAIN E \in SUBSET DOMAIN E OBVIOUS
  <2>2. PICK n \in S \cap DOMAIN E : E[n] \cap (S \cap DOMAIN E) = {} BY <1>1, <2>1 DEF Grounded
  <2>3. F[n] \cap S = {} BY <2>2
  <2> QED BY <2>3
<1>2. CASE S \cap DOMAIN E = {}
  <2>1. S \in SUBSET DOMAIN A BY <1>2
  <2>2. PICK n \in S : A[n] \cap S = {} BY <2>1 DEF Grounded
  <2>3. n \in New BY <1>2
  <2>4. F[n] \cap S = {} BY <2>2, <2>3
  <2> QED BY <2>4
<1> QED BY <1>1, <1>2

-----------------------------------------------------------------------------
(* The search for a cycle *)

\* The states of the search.
SearchState(E) ==
  [stack : Seq(Nodes(E)), black : SUBSET Nodes(E), edges : SUBSET Edges(E), found : BOOLEAN]

Gray(s) == {s.stack[i] : i \in 1..Len(s.stack)}

\* The gray nodes are a path of the graph; what is black leads to black nodes only, and
\* is grounded; an edge that was looked along ends at a black node, or is the path's.
SearchInv(E, s) ==
  /\ s \in SearchState(E)
  /\ s.found => ~Acyclic(E)
  /\ ~s.found =>
       /\ \A i, j \in 1..Len(s.stack) : s.stack[i] = s.stack[j] => i = j
       /\ Gray(s) \cap s.black = {}
       /\ \A i, j \in 1..Len(s.stack) : i < j =>
            s.stack[i] \in DOMAIN E /\ s.stack[j] \in Reached(E, E[s.stack[i]])
       /\ \A n \in DOMAIN E : \A m \in E[n] :
            /\ <<n, m>> \in s.edges => n \notin s.black
            /\ <<n, m>> \notin s.edges =>
                 \/ n \in s.black /\ m \in s.black
                 \/ \E i \in 1..Len(s.stack) :
                      /\ s.stack[i] = n
                      /\ m \in s.black \/ (i < Len(s.stack) /\ s.stack[i + 1] = m)
       /\ \A S \in SUBSET (s.black \cap DOMAIN E) : S # {} => \E n \in S : E[n] \cap S = {}

\* Nothing is left to visit.
Visited(E, s) == s.found \/ (s.stack = <<>> /\ DOMAIN E \subseteq s.black)

\* What is left to do.
Effort(E, s) ==
  Cardinality(s.edges) + Cardinality(Nodes(E) \ s.black)
    + Cardinality(Nodes(E) \ (s.black \cup Gray(s)))

\* A finite graph has finitely many nodes and edges.
FiniteGraph(E) == IsFiniteSet(DOMAIN E) /\ \A n \in DOMAIN E : IsFiniteSet(E[n])

\* The nodes and the edges of a finite graph are finite.
LEMMA GraphFinite ==
  ASSUME NEW E, FiniteGraph(E) PROVE IsFiniteSet(Nodes(E)) /\ IsFiniteSet(Edges(E))
<1> DEFINE A == [n \in DOMAIN E |-> {<<n, m>> : m \in E[n]}]
<1>1. IsFiniteSet(DOMAIN E) /\ \A n \in DOMAIN E : IsFiniteSet(E[n]) BY DEF FiniteGraph
<1>2. ASSUME NEW n \in DOMAIN E PROVE IsFiniteSet(A[n])
  <2> DEFINE f == [m \in E[n] |-> <<n, m>>]
  <2>1. \A y \in A[n] : \E m \in E[n] : f[m] = y OBVIOUS
  <2>2. IsFiniteSet(E[n]) BY <1>1
  <2> HIDE DEF A, f
  <2> QED BY <2>1, <2>2, ImageFinite
<1>3. IsFiniteSet(UNION {E[n] : n \in DOMAIN E}) BY <1>1, UnionFinite
<1>4. IsFiniteSet(UNION {A[n] : n \in DOMAIN E})
  <2> HIDE DEF A
  <2> QED BY <1>1, <1>2, UnionFinite
<1>5. UNION {A[n] : n \in DOMAIN E} = Edges(E) BY DEF Edges
<1>6. IsFiniteSet(Nodes(E)) BY <1>1, <1>3, FS_Union DEF Nodes
<1> QED BY <1>4, <1>5, <1>6

\* The stack without its top, or a child's path without its end.
LEMMA FrontIs ==
  ASSUME NEW S, NEW s \in Seq(S), s # <<>>
  PROVE  /\ Front(s) \in Seq(S) /\ Len(s) \in Nat \ {0} /\ Len(Front(s)) = Len(s) - 1
         /\ \A i \in 1..Len(s) - 1 : Front(s)[i] = s[i]
<1>1. Len(s) \in Nat \ {0} BY EmptySeq
<1>2. Front(s) = SubSeq(s, 1, Len(s) - 1) BY DEF Front
<1>3. 1 \in Int /\ Len(s) - 1 \in Int /\ \A i \in 1..Len(s) - 1 : s[i] \in S BY <1>1
<1> DEFINE n == Len(s) - 1
           r == SubSeq(s, 1, n)
<1>4. n \in Nat /\ Front(s) = r BY <1>1, <1>2
<1>5. /\ r \in Seq(S) /\ Len(r) = IF 1 <= n THEN n - 1 + 1 ELSE 0
      /\ \A i \in 1..n - 1 + 1 : r[i] = s[1 + i - 1]
  BY <1>3, SubSeqProperties
<1> HIDE DEF n, r
<1>6. Len(r) = n BY <1>4, <1>5
<1>7. \A i \in 1..n : i \in 1..n - 1 + 1 /\ 1 + i - 1 = i BY <1>4
<1>8. \A i \in 1..n : r[i] = s[i] BY <1>5, <1>7
<1> QED BY <1>1, <1>4, <1>5, <1>6, <1>8 DEF n

\* A step begins at a node, paints the top of the stack black, or looks along an edge
\* from it to a gray, a black or a white node.
Begins(E, s, t) ==
  /\ ~s.found /\ s.stack = <<>>
  /\ \E m \in DOMAIN E \ s.black : t = [s EXCEPT !.stack = <<m>>]

Paints(E, s, t) ==
  /\ ~s.found /\ s.stack # <<>>
  /\ \A m \in E[Last(s.stack)] :
       Last(s.stack) \in DOMAIN E => <<Last(s.stack), m>> \notin s.edges
  /\ t = [s EXCEPT !.stack = Front(s.stack), !.black = s.black \cup {Last(s.stack)}]

LooksTo(E, s, t, m) ==
  /\ <<Last(s.stack), m>> \in s.edges
  /\ \/ /\ m \in Gray(s)
        /\ t = [s EXCEPT !.edges = s.edges \ {<<Last(s.stack), m>>}, !.found = TRUE]
     \/ /\ m \notin Gray(s) /\ m \in s.black
        /\ t = [s EXCEPT !.edges = s.edges \ {<<Last(s.stack), m>>}]
     \/ /\ m \notin Gray(s) /\ m \notin s.black
        /\ t = [s EXCEPT !.edges = s.edges \ {<<Last(s.stack), m>>},
                         !.stack = Append(s.stack, m)]

Looks(E, s, t) ==
  /\ ~s.found /\ s.stack # <<>> /\ Last(s.stack) \in DOMAIN E
  /\ \E m \in E[Last(s.stack)] : LooksTo(E, s, t, m)

\* What a step of the search does.
LEMMA VisitIs ==
  ASSUME NEW E, NEW s \in SearchState(E), NEW t, t = Visit(E, s)
  PROVE  \/ Visited(E, s) /\ t = s
         \/ Begins(E, s, t) \/ Paints(E, s, t) \/ Looks(E, s, t)
<1> DEFINE white == DOMAIN E \ (Gray(s) \cup s.black)
           n == Last(s.stack)
           left == {e \in s.edges : e[1] = n}
           e == CHOOSE x \in left : TRUE
<1>1. ToSet(s.stack) = Gray(s)
  <2>1. DOMAIN s.stack = 1..Len(s.stack) BY DEF SearchState
  <2> QED BY <2>1 DEF ToSet, Gray
<1>2. t = IF s.found \/ (s.stack = <<>> /\ white = {}) THEN s
          ELSE IF s.stack = <<>> THEN [s EXCEPT !.stack = <<CHOOSE m \in white : TRUE>>]
          ELSE IF left = {} THEN [s EXCEPT !.stack = Front(@), !.black = @ \cup {n}]
          ELSE [s EXCEPT !.edges = @ \ {e}, !.found = e[2] \in Gray(s),
                         !.stack = IF e[2] \in Gray(s) \cup s.black THEN @ ELSE Append(@, e[2])]
  BY <1>1 DEF Visit
<1>3. s.stack = <<>> => Gray(s) = {} BY DEF Gray
<1>4. CASE s.found \/ (s.stack = <<>> /\ white = {})
  <2>1. t = s BY <1>2, <1>4
  <2>2. Visited(E, s) BY <1>3, <1>4 DEF Visited
  <2> QED BY <2>1, <2>2
<1>5. CASE ~s.found /\ s.stack = <<>> /\ white # {}
  <2> DEFINE m == CHOOSE m \in white : TRUE
  <2>1. m \in white BY <1>5
  <2>2. t = [s EXCEPT !.stack = <<m>>] BY <1>2, <1>5
  <2> HIDE DEF m
  <2>3. m \in DOMAIN E \ s.black BY <2>1
  <2> QED BY <1>5, <2>2, <2>3 DEF Begins
<1>6. CASE ~s.found /\ s.stack # <<>> /\ left = {}
  <2>1. t = [s EXCEPT !.stack = Front(s.stack), !.black = s.black \cup {n}] BY <1>2, <1>6
  <2>2. \A m : <<n, m>> \notin s.edges BY <1>6
  <2> QED BY <1>6, <2>1, <2>2 DEF Paints
<1>7. CASE ~s.found /\ s.stack # <<>> /\ left # {}
  <2>1. e \in left BY <1>7
  <2>2. t = [s EXCEPT !.edges = @ \ {e}, !.found = e[2] \in Gray(s),
                      !.stack = IF e[2] \in Gray(s) \cup s.black THEN @ ELSE Append(@, e[2])]
    BY <1>2, <1>7
  <2> HIDE DEF e
  <2>3. e \in Edges(E) BY <2>1 DEF SearchState
  <2>4. PICK x \in DOMAIN E : \E m \in E[x] : e = <<x, m>> BY <2>3 DEF Edges
  <2>5. PICK m \in E[x] : e = <<x, m>> BY <2>4
  <2>6. e[1] = x /\ e[2] = m /\ x = n BY <2>1, <2>5
  <2> HIDE DEF n
  <2>7. e = <<n, m>> /\ e[2] = m /\ n \in DOMAIN E /\ m \in E[n] /\ <<n, m>> \in s.edges
    BY <2>1, <2>5, <2>6
  <2>8. s.found = FALSE BY <1>7 DEF SearchState
  <2>9. CASE m \in Gray(s)
    <3>1. (m \in Gray(s)) = TRUE BY <2>9
    <3>2. t = [s EXCEPT !.edges = s.edges \ {<<n, m>>}, !.found = TRUE, !.stack = s.stack]
      BY <2>2, <2>7, <2>9, <3>1
    <3>3. [s EXCEPT !.edges = s.edges \ {<<n, m>>}, !.found = TRUE, !.stack = s.stack]
            = [s EXCEPT !.edges = s.edges \ {<<n, m>>}, !.found = TRUE]
      BY DEF SearchState
    <3>4. t = [s EXCEPT !.edges = s.edges \ {<<n, m>>}, !.found = TRUE] BY <3>2, <3>3
    <3> QED BY <1>7, <2>7, <2>9, <3>4 DEF n, LooksTo, Looks
  <2>10. CASE m \notin Gray(s) /\ m \in s.black
    <3>1. (m \in Gray(s)) = FALSE BY <2>10
    <3>2. t = [s EXCEPT !.edges = s.edges \ {<<n, m>>}, !.found = FALSE, !.stack = s.stack]
      BY <2>2, <2>7, <2>10, <3>1
    <3>3. [s EXCEPT !.edges = s.edges \ {<<n, m>>}, !.found = FALSE, !.stack = s.stack]
            = [s EXCEPT !.edges = s.edges \ {<<n, m>>}]
      BY <2>8 DEF SearchState
    <3>4. t = [s EXCEPT !.edges = s.edges \ {<<n, m>>}] BY <3>2, <3>3
    <3> QED BY <1>7, <2>7, <2>10, <3>4 DEF n, LooksTo, Looks
  <2>11. CASE m \notin Gray(s) /\ m \notin s.black
    <3>1. (m \in Gray(s)) = FALSE BY <2>11
    <3>2. t = [s EXCEPT !.edges = s.edges \ {<<n, m>>}, !.found = FALSE, !.stack = Append(s.stack, m)]
      BY <2>2, <2>7, <2>11, <3>1
    <3>3. [s EXCEPT !.edges = s.edges \ {<<n, m>>}, !.found = FALSE, !.stack = Append(s.stack, m)]
            = [s EXCEPT !.edges = s.edges \ {<<n, m>>}, !.stack = Append(s.stack, m)]
      BY <2>8 DEF SearchState
    <3>4. t = [s EXCEPT !.edges = s.edges \ {<<n, m>>}, !.stack = Append(s.stack, m)]
      BY <3>2, <3>3
    <3> QED BY <1>7, <2>7, <2>11, <3>4 DEF n, LooksTo, Looks
  <2> QED BY <2>9, <2>10, <2>11
<1> QED BY <1>4, <1>5, <1>6, <1>7

\* The search begins with a white graph.
SearchStart(E) == [stack |-> <<>>, black |-> {}, edges |-> Edges(E), found |-> FALSE]

\* In a white graph the path is empty, and nothing is black.
LEMMA SearchBegins == ASSUME NEW E PROVE SearchInv(E, SearchStart(E))
<1> DEFINE s == SearchStart(E)
<1>1. /\ s.stack = <<>> /\ s.black = {} /\ s.edges = Edges(E) /\ s.found = FALSE
      /\ s \in SearchState(E)
  BY DEF SearchStart, SearchState
<1>2. Gray(s) = {} /\ Len(s.stack) = 0 BY <1>1 DEF Gray
<1>3. \A n \in DOMAIN E : \A m \in E[n] : <<n, m>> \in s.edges BY <1>1 DEF Edges
<1> HIDE DEF s
<1>4. \A i \in 1..Len(s.stack) : FALSE BY <1>2
<1>5. \A S \in SUBSET (s.black \cap DOMAIN E) : S = {} BY <1>1
<1>6. \A n \in DOMAIN E : \A m \in E[n] : <<n, m>> \in s.edges /\ n \notin s.black BY <1>1, <1>3
<1>7. SearchInv(E, s) BY <1>1, <1>2, <1>4, <1>5, <1>6 DEF SearchInv
<1> QED BY <1>7 DEF s

\* A top that leads to black nodes only is painted black.
LEMMA PaintBlack ==
  ASSUME NEW E, NEW s, SearchInv(E, s), ~s.found, s.stack # <<>>,
         \A m \in E[Last(s.stack)] :
           Last(s.stack) \in DOMAIN E => <<Last(s.stack), m>> \notin s.edges,
         NEW t, t = [s EXCEPT !.stack = Front(s.stack), !.black = s.black \cup {Last(s.stack)}]
  PROVE  /\ SearchInv(E, t)
         /\ Last(s.stack) \in Nodes(E) \ s.black /\ Gray(s) = Gray(t) \cup {Last(s.stack)}
<1> DEFINE n == Last(s.stack)
           k == Len(s.stack)
<1>1. s \in SearchState(E) BY DEF SearchInv
<1>2. s.stack \in Seq(Nodes(E)) /\ s.black \subseteq Nodes(E) /\ s.edges \subseteq Edges(E)
  BY <1>1 DEF SearchState
<1>3. /\ Front(s.stack) \in Seq(Nodes(E)) /\ k \in Nat \ {0} /\ Len(Front(s.stack)) = k - 1
      /\ \A i \in 1..k - 1 : Front(s.stack)[i] = s.stack[i]
  BY <1>2, FrontIs
<1>4. n = s.stack[k] /\ k \in 1..k /\ n \in Nodes(E) BY <1>2, <1>3 DEF Last
<1>5. /\ t.stack = Front(s.stack) /\ t.black = s.black \cup {n} /\ t.edges = s.edges
      /\ t.found = s.found /\ t \in SearchState(E)
  BY <1>1, <1>3, <1>4 DEF SearchState
<1>6. /\ \A i, j \in 1..k : s.stack[i] = s.stack[j] => i = j
      /\ Gray(s) \cap s.black = {}
      /\ \A i, j \in 1..k : i < j =>
           s.stack[i] \in DOMAIN E /\ s.stack[j] \in Reached(E, E[s.stack[i]])
      /\ \A x \in DOMAIN E : \A m \in E[x] :
           /\ <<x, m>> \in s.edges => x \notin s.black
           /\ <<x, m>> \notin s.edges =>
                \/ x \in s.black /\ m \in s.black
                \/ \E i \in 1..k : /\ s.stack[i] = x
                                   /\ m \in s.black \/ (i < k /\ s.stack[i + 1] = m)
      /\ \A S \in SUBSET (s.black \cap DOMAIN E) : S # {} => \E x \in S : E[x] \cap S = {}
  BY DEF SearchInv
<1>7. \A m \in E[n] : n \in DOMAIN E => <<n, m>> \notin s.edges OBVIOUS
<1>8. n \notin s.black /\ n \in Gray(s) BY <1>4, <1>6 DEF Gray
<1>9. Len(t.stack) = k - 1 /\ \A i \in 1..k - 1 : t.stack[i] = s.stack[i] /\ i \in 1..k /\ i # k
  BY <1>3, <1>5
<1>10. Gray(s) = Gray(t) \cup {n} /\ n \notin Gray(t)
  <2>1. \A i \in 1..k : i = k \/ i \in 1..k - 1 BY <1>3
  <2>2. \A x \in Gray(s) : x \in Gray(t) \/ x = n BY <1>4, <1>9, <2>1 DEF Gray
  <2>3. \A x \in Gray(t) : x \in Gray(s) /\ x # n BY <1>4, <1>6, <1>9 DEF Gray
  <2> QED BY <1>8, <2>2, <2>3
<1> HIDE DEF n, k
<1>11. ASSUME n \in DOMAIN E, NEW m \in E[n] PROVE m \in s.black
  <2>1. <<n, m>> \notin s.edges BY <1>7, <1>11
  <2>2. PICK i \in 1..k : s.stack[i] = n /\ (m \in s.black \/ (i < k /\ s.stack[i + 1] = m))
    BY <1>6, <1>8, <1>11, <2>1
  <2>3. i = k BY <1>4, <1>6, <2>2
  <2>4. ~(k < k) BY <1>3
  <2> QED BY <2>2, <2>3, <2>4
<1>12. /\ \A i, j \in 1..Len(t.stack) : t.stack[i] = t.stack[j] => i = j
       /\ \A i, j \in 1..Len(t.stack) : i < j =>
            t.stack[i] \in DOMAIN E /\ t.stack[j] \in Reached(E, E[t.stack[i]])
  BY <1>6, <1>9
<1>13. Gray(t) \cap t.black = {} BY <1>5, <1>6, <1>10
<1>14. ASSUME NEW x \in DOMAIN E, NEW m \in E[x]
       PROVE  /\ <<x, m>> \in t.edges => x \notin t.black
              /\ <<x, m>> \notin t.edges =>
                   \/ x \in t.black /\ m \in t.black
                   \/ \E i \in 1..Len(t.stack) :
                        /\ t.stack[i] = x
                        /\ m \in t.black \/ (i < Len(t.stack) /\ t.stack[i + 1] = m)
  <2>1. CASE x = n
    <3>1. <<x, m>> \notin s.edges /\ m \in s.black BY <1>7, <1>11, <1>14, <2>1
    <3> QED BY <1>5, <2>1, <3>1
  <2>2. CASE x # n
    <3>1. <<x, m>> \in t.edges => x \notin t.black BY <1>5, <1>6, <2>2
    <3>2. CASE x \in s.black /\ m \in s.black BY <1>5, <3>1, <3>2
    <3>3. ASSUME NEW i \in 1..k, s.stack[i] = x, m \in s.black \/ (i < k /\ s.stack[i + 1] = m)
          PROVE  \E j \in 1..Len(t.stack) :
                   /\ t.stack[j] = x
                   /\ m \in t.black \/ (j < Len(t.stack) /\ t.stack[j + 1] = m)
      <4>1. i # k BY <1>4, <2>2, <3>3
      <4>2. i \in 1..k - 1 /\ (i < k - 1 \/ i + 1 = k) BY <1>3, <4>1
      <4>3. t.stack[i] = x /\ i \in 1..Len(t.stack) BY <1>9, <3>3, <4>2
      <4>4. CASE m \in s.black BY <1>5, <4>3, <4>4
      <4>5. CASE s.stack[i + 1] = m /\ i + 1 = k BY <1>4, <1>5, <4>3, <4>5
      <4>6. CASE s.stack[i + 1] = m /\ i < k - 1
        <5>1. i + 1 \in 1..k - 1 BY <1>3, <4>2, <4>6
        <5>2. t.stack[i + 1] = m /\ i < Len(t.stack) BY <1>9, <4>6, <5>1
        <5> QED BY <4>3, <5>2
      <4> QED BY <3>3, <4>2, <4>4, <4>5, <4>6
    <3>4. <<x, m>> \notin t.edges =>
            \/ x \in s.black /\ m \in s.black
            \/ \E i \in 1..k : s.stack[i] = x /\ (m \in s.black \/ (i < k /\ s.stack[i + 1] = m))
      BY <1>5, <1>6
    <3> QED BY <3>1, <3>2, <3>3, <3>4
  <2> QED BY <2>1, <2>2
<1>15. ASSUME NEW S \in SUBSET (t.black \cap DOMAIN E), S # {} PROVE \E x \in S : E[x] \cap S = {}
  <2>1. CASE S \ {n} = {}
    <3>1. S = {n} /\ n \in DOMAIN E BY <1>15, <2>1
    <3>2. E[n] \cap S = {} BY <1>8, <1>11, <3>1
    <3> QED BY <3>1, <3>2
  <2>2. CASE S \ {n} # {}
    <3>1. S \ {n} \in SUBSET (s.black \cap DOMAIN E) BY <1>5
    <3>2. PICK x \in S \ {n} : E[x] \cap (S \ {n}) = {} BY <1>6, <2>2, <3>1
    <3>3. x \in s.black /\ x \in DOMAIN E BY <3>1, <3>2
    <3>4. n \notin E[x]
      <4> SUFFICES ASSUME n \in E[x] PROVE FALSE OBVIOUS
      <4>1. <<x, n>> \notin s.edges BY <1>6, <3>3
      <4>2. PICK i \in 1..k : s.stack[i] = x BY <1>6, <1>8, <3>3, <4>1
      <4>3. x \in Gray(s) BY <4>2 DEF Gray, k
      <4> QED BY <1>6, <3>3, <4>3
    <3> QED BY <3>2, <3>4
  <2> QED BY <2>1, <2>2
<1>16. SearchInv(E, t) BY <1>5, <1>12, <1>13, <1>14, <1>15, Zenon DEF SearchInv
<1> QED BY <1>4, <1>8, <1>10, <1>16 DEF n

\* A look along an edge to a gray node finds a cycle.
LEMMA LookGray ==
  ASSUME NEW E, FiniteGraph(E), NEW s, SearchInv(E, s), ~s.found, s.stack # <<>>,
         Last(s.stack) \in DOMAIN E, NEW m \in E[Last(s.stack)], m \in Gray(s)
  PROVE  ~Acyclic(E)
<1> DEFINE n == Last(s.stack)
           k == Len(s.stack)
<1>1. s.stack \in Seq(Nodes(E)) BY DEF SearchInv, SearchState
<1>2. k \in Nat \ {0} BY <1>1, EmptySeq
<1>3. n = s.stack[k] /\ k \in 1..k BY <1>2 DEF Last
<1>4. PICK i \in 1..k : s.stack[i] = m BY DEF Gray
<1>5. \A a, b \in 1..k : a < b =>
        s.stack[a] \in DOMAIN E /\ s.stack[b] \in Reached(E, E[s.stack[a]])
  BY DEF SearchInv
<1>6. IsFiniteSet(DOMAIN E) BY DEF FiniteGraph
<1>7. CASE i = k
  <2>1. m = n /\ m \in E[m] /\ m \in DOMAIN E BY <1>3, <1>4, <1>7
  <2>2. E[m] \subseteq Reached(E, E[m]) BY <1>6, ReachedIs
  <2> QED BY <2>1, <2>2 DEF Acyclic
<1>8. CASE i # k
  <2>1. i < k BY <1>2, <1>8
  <2>2. m \in DOMAIN E /\ n \in Reached(E, E[m]) BY <1>3, <1>4, <1>5, <2>1
  <2>3. Closed(E, Reached(E, E[m])) BY <1>6, ReachedIs
  <2>4. m \in Reached(E, E[m]) BY <2>2, <2>3 DEF Closed
  <2> QED BY <2>2, <2>4 DEF Acyclic
<1> QED BY <1>7, <1>8

\* A look along an edge to a black node or a white one, which is visited then.
LEMMA LookOn ==
  ASSUME NEW E, FiniteGraph(E), NEW s, SearchInv(E, s), ~s.found, s.stack # <<>>,
         Last(s.stack) \in DOMAIN E, NEW m \in E[Last(s.stack)], m \notin Gray(s),
         NEW t, t \in SearchState(E), t.found = s.found, t.black = s.black,
         t.edges = s.edges \ {<<Last(s.stack), m>>},
         \/ m \in s.black /\ t.stack = s.stack
         \/ m \notin s.black /\ t.stack = Append(s.stack, m)
  PROVE  /\ SearchInv(E, t)
         /\ m \in s.black => Gray(t) = Gray(s)
         /\ m \notin s.black => Gray(t) = Gray(s) \cup {m}
<1> DEFINE n == Last(s.stack)
           k == Len(s.stack)
           l == Len(t.stack)
<1>1. s.stack \in Seq(Nodes(E)) BY DEF SearchInv, SearchState
<1>2. k \in Nat \ {0} BY <1>1, EmptySeq
<1>3. n = s.stack[k] /\ k \in 1..k /\ n \in DOMAIN E BY <1>2 DEF Last
<1>4. m \in Nodes(E) BY <1>3 DEF Nodes
<1>5. /\ \A i, j \in 1..k : s.stack[i] = s.stack[j] => i = j
      /\ Gray(s) \cap s.black = {}
      /\ \A i, j \in 1..k : i < j =>
           s.stack[i] \in DOMAIN E /\ s.stack[j] \in Reached(E, E[s.stack[i]])
      /\ \A x \in DOMAIN E : \A y \in E[x] :
           /\ <<x, y>> \in s.edges => x \notin s.black
           /\ <<x, y>> \notin s.edges =>
                \/ x \in s.black /\ y \in s.black
                \/ \E i \in 1..k : /\ s.stack[i] = x
                                   /\ y \in s.black \/ (i < k /\ s.stack[i + 1] = y)
      /\ \A S \in SUBSET (s.black \cap DOMAIN E) : S # {} => \E x \in S : E[x] \cap S = {}
  BY DEF SearchInv
<1>6. \/ m \in s.black /\ l = k
      \/ m \notin s.black /\ l = k + 1 /\ t.stack[k + 1] = m
  BY <1>1, <1>2, <1>4, AppendProperties
<1>7. k <= l /\ \A i \in 1..k : t.stack[i] = s.stack[i] /\ i \in 1..l
  BY <1>1, <1>2, <1>4, AppendProperties
<1>8. \A i \in 1..l : i \in 1..k \/ (i = k + 1 /\ l = k + 1 /\ m \notin s.black /\ t.stack[i] = m)
  BY <1>2, <1>6
<1>9. n \in Gray(s) BY <1>3 DEF Gray
<1>10. \A i \in 1..k : s.stack[i] \in Gray(s) BY DEF Gray
<1>11. /\ m \in s.black => Gray(t) = Gray(s)
       /\ m \notin s.black => Gray(t) = Gray(s) \cup {m}
  <2>1. \A x \in Gray(s) : x \in Gray(t) BY <1>7 DEF Gray
  <2>2. \A x \in Gray(t) : x \in Gray(s) \/ (x = m /\ m \notin s.black) BY <1>7, <1>8 DEF Gray
  <2>3. m \notin s.black => m \in Gray(t)
    <3>1. m \notin s.black => k + 1 \in 1..l BY <1>2, <1>6
    <3> QED BY <1>6, <3>1 DEF Gray
  <2> QED BY <2>1, <2>2, <2>3
<1> HIDE DEF n, k, l
<1>12. \A i, j \in 1..l : t.stack[i] = t.stack[j] => i = j BY <1>5, <1>7, <1>8, <1>10
<1>13. Gray(t) \cap t.black = {} BY <1>5, <1>11
<1>14. ASSUME NEW i \in 1..l, NEW j \in 1..l, i < j
       PROVE  t.stack[i] \in DOMAIN E /\ t.stack[j] \in Reached(E, E[t.stack[i]])
  <2>1. i \in 1..k
    <3>1. j \in Nat /\ i \in Nat /\ j <= l /\ l <= k + 1 /\ k \in Nat BY <1>2, <1>6, <1>14 DEF l
    <3> QED BY <1>8, <1>14, <3>1
  <2>2. t.stack[i] = s.stack[i] BY <1>7, <2>1
  <2>3. CASE j \in 1..k BY <1>5, <1>7, <1>14, <2>1, <2>2, <2>3
  <2>4. CASE j = k + 1 /\ t.stack[j] = m
    <3> DEFINE x == s.stack[i]
    <3>1. x \in DOMAIN E /\ (n \in Reached(E, E[x]) \/ x = n)
      <4>1. i = k \/ i < k BY <1>2, <2>1
      <4> QED BY <1>3, <1>5, <2>1, <4>1
    <3>2. E[x] \subseteq Reached(E, E[x]) /\ Closed(E, Reached(E, E[x]))
      BY ReachedIs DEF FiniteGraph
    <3>3. m \in Reached(E, E[x])
      <4>1. CASE x = n BY <3>2, <4>1 DEF n
      <4>2. CASE n \in Reached(E, E[x]) BY <1>3, <3>2, <4>2 DEF Closed, n
      <4> QED BY <3>1, <4>1, <4>2
    <3> QED BY <2>2, <2>4, <3>1, <3>3
  <2> QED BY <1>8, <2>3, <2>4
<1>15. ASSUME NEW x \in DOMAIN E, NEW y \in E[x]
       PROVE  /\ <<x, y>> \in t.edges => x \notin t.black
              /\ <<x, y>> \notin t.edges =>
                   \/ x \in t.black /\ y \in t.black
                   \/ \E i \in 1..l : /\ t.stack[i] = x
                                      /\ y \in t.black \/ (i < l /\ t.stack[i + 1] = y)
  <2>1. <<x, y>> \in t.edges => x \notin t.black BY <1>5
  <2>2. CASE x = n /\ y = m
    <3>1. CASE m \in s.black BY <1>3, <1>7, <2>1, <2>2, <3>1
    <3>2. CASE m \notin s.black
      <4>1. l = k + 1 /\ t.stack[k + 1] = m /\ k < l BY <1>2, <1>6, <3>2
      <4>2. t.stack[k] = x /\ k \in 1..l BY <1>3, <1>7, <2>2
      <4> QED BY <2>1, <2>2, <4>1, <4>2
    <3> QED BY <3>1, <3>2
  <2>3. CASE ~(x = n /\ y = m)
    <3>1. <<x, y>> # <<n, m>> BY <2>3
    <3>2. <<x, y>> \notin t.edges => <<x, y>> \notin s.edges BY <3>1 DEF n
    <3>3. ASSUME NEW i \in 1..k, s.stack[i] = x, y \in s.black \/ (i < k /\ s.stack[i + 1] = y)
          PROVE  \E j \in 1..l : /\ t.stack[j] = x
                                 /\ y \in t.black \/ (j < l /\ t.stack[j + 1] = y)
      <4>1. t.stack[i] = x /\ i \in 1..l BY <1>7, <3>3
      <4>2. CASE i < k /\ s.stack[i + 1] = y
        <5>1. i + 1 \in 1..k BY <1>2, <4>2
        <5>2. t.stack[i + 1] = y /\ i + 1 \in 1..l BY <1>7, <4>2, <5>1
        <5>3. i < l BY <5>2 DEF l
        <5> QED BY <4>1, <5>2, <5>3
      <4> QED BY <3>3, <4>1, <4>2
    <3> QED BY <1>5, <2>1, <3>2, <3>3
  <2> QED BY <2>2, <2>3
<1>16. \A S \in SUBSET (t.black \cap DOMAIN E) : S # {} => \E x \in S : E[x] \cap S = {} BY <1>5
<1>17. SearchInv(E, t) BY <1>12, <1>13, <1>14, <1>15, <1>16, Zenon DEF SearchInv, l
<1> QED BY <1>11, <1>17

\* A search begins at a white node.
LEMMA LookFrom ==
  ASSUME NEW E, NEW s, SearchInv(E, s), ~s.found, s.stack = <<>>, NEW m \in DOMAIN E \ s.black,
         NEW t, t = [s EXCEPT !.stack = <<m>>]
  PROVE  SearchInv(E, t) /\ Gray(s) = {} /\ Gray(t) = {m} /\ m \in Nodes(E) \ s.black
<1>1. m \in Nodes(E) /\ <<m>> \in Seq(Nodes(E)) BY DEF Nodes
<1>2. s \in SearchState(E) BY DEF SearchInv
<1>3. /\ t.stack = <<m>> /\ t.black = s.black /\ t.edges = s.edges /\ t.found = s.found
      /\ t \in SearchState(E)
  BY <1>1, <1>2 DEF SearchState
<1>4. Len(s.stack) = 0 /\ Len(t.stack) = 1 /\ t.stack[1] = m BY <1>3
<1>5. Gray(s) = {} /\ Gray(t) = {m} BY <1>4 DEF Gray
<1>6. /\ \A x \in DOMAIN E : \A y \in E[x] :
           /\ <<x, y>> \in s.edges => x \notin s.black
           /\ <<x, y>> \notin s.edges =>
                \/ x \in s.black /\ y \in s.black
                \/ \E i \in 1..Len(s.stack) :
                     /\ s.stack[i] = x
                     /\ y \in s.black \/ (i < Len(s.stack) /\ s.stack[i + 1] = y)
      /\ \A S \in SUBSET (s.black \cap DOMAIN E) : S # {} => \E x \in S : E[x] \cap S = {}
  BY DEF SearchInv
<1>7. \A i \in 1..Len(s.stack) : FALSE BY <1>4
<1>8. \A i \in 1..Len(t.stack) : i = 1 BY <1>4
<1>9. /\ \A i, j \in 1..Len(t.stack) : t.stack[i] = t.stack[j] => i = j
      /\ \A i, j \in 1..Len(t.stack) : ~(i < j)
  BY <1>8
<1>10. ASSUME NEW x \in DOMAIN E, NEW y \in E[x]
       PROVE  /\ <<x, y>> \in t.edges => x \notin t.black
              /\ <<x, y>> \notin t.edges => x \in t.black /\ y \in t.black
  <2>1. /\ <<x, y>> \in s.edges => x \notin s.black
        /\ <<x, y>> \notin s.edges =>
             (x \in s.black /\ y \in s.black) \/ \E i \in 1..Len(s.stack) : TRUE
    BY <1>6
  <2> QED BY <1>3, <1>7, <2>1
<1>11. Gray(t) \cap t.black = {} BY <1>3, <1>5
<1>12. SearchInv(E, t) BY <1>3, <1>6, <1>9, <1>10, <1>11 DEF SearchInv
<1> QED BY <1>1, <1>5, <1>12

\* What is left to do is a number.
LEMMA EffortIs ==
  ASSUME NEW E, FiniteGraph(E), NEW s \in SearchState(E)
  PROVE  /\ IsFiniteSet(s.edges) /\ IsFiniteSet(Nodes(E) \ s.black)
         /\ IsFiniteSet(Nodes(E) \ (s.black \cup Gray(s)))
         /\ Cardinality(s.edges) \in Nat /\ Cardinality(Nodes(E) \ s.black) \in Nat
         /\ Cardinality(Nodes(E) \ (s.black \cup Gray(s))) \in Nat
<1>1. IsFiniteSet(Nodes(E)) /\ IsFiniteSet(Edges(E)) BY GraphFinite
<1>2. s.edges \in SUBSET Edges(E) BY DEF SearchState
<1>3. /\ Nodes(E) \ s.black \in SUBSET Nodes(E)
      /\ Nodes(E) \ (s.black \cup Gray(s)) \in SUBSET Nodes(E)
  OBVIOUS
<1>4. IsFiniteSet(s.edges) BY <1>1, <1>2, FS_Subset
<1>5. IsFiniteSet(Nodes(E) \ s.black) BY <1>1, FS_Subset
<1>6. IsFiniteSet(Nodes(E) \ (s.black \cup Gray(s))) BY <1>1, <1>3, FS_Subset
<1> QED BY <1>4, <1>5, <1>6, FS_CardinalityType

\* So what is left to do can be counted down.
LEMMA EffortNumber ==
  ASSUME NEW E, FiniteGraph(E) PROVE \A s \in SearchState(E) : Effort(E, s) \in Nat
<1> SUFFICES ASSUME NEW s \in SearchState(E) PROVE Effort(E, s) \in Nat OBVIOUS
<1>1. /\ Cardinality(s.edges) \in Nat /\ Cardinality(Nodes(E) \ s.black) \in Nat
      /\ Cardinality(Nodes(E) \ (s.black \cup Gray(s))) \in Nat
  BY EffortIs
<1> QED BY <1>1 DEF Effort

\* A set without one of its elements.
LEMMA OneLess ==
  ASSUME NEW S, NEW T, NEW x, IsFiniteSet(S), T \subseteq S, x \in S, x \notin T
  PROVE  Cardinality(T) + 1 <= Cardinality(S)
<1>1. IsFiniteSet(T) /\ Cardinality(T) <= Cardinality(S) /\ Cardinality(T) # Cardinality(S)
  BY FS_Subset
<1>2. Cardinality(T) \in Nat /\ Cardinality(S) \in Nat BY <1>1, FS_CardinalityType
<1> QED BY <1>1, <1>2

\* A part of a finite set.
LEMMA NoMore ==
  ASSUME NEW S, NEW T, IsFiniteSet(S), T \subseteq S
  PROVE  Cardinality(T) <= Cardinality(S)
BY FS_Subset

\* Every step keeps the invariant, and leaves less to do, until everything is visited.
LEMMA SearchStep ==
  ASSUME NEW E, FiniteGraph(E), NEW s, SearchInv(E, s), NEW t, t = Visit(E, s)
  PROVE  SearchInv(E, t) /\ (Visited(E, t) \/ Effort(E, t) + 1 <= Effort(E, s))
<1> DEFINE W(r) == Nodes(E) \ (r.black \cup Gray(r))
           B(r) == Nodes(E) \ r.black
<1>1. s \in SearchState(E) BY DEF SearchInv
<1>2. \A r \in SearchState(E) :
        /\ IsFiniteSet(r.edges) /\ IsFiniteSet(B(r)) /\ IsFiniteSet(W(r))
        /\ Cardinality(r.edges) \in Nat /\ Cardinality(B(r)) \in Nat /\ Cardinality(W(r)) \in Nat
        /\ Effort(E, r) = Cardinality(r.edges) + Cardinality(B(r)) + Cardinality(W(r))
  BY EffortIs DEF Effort
<1>3. CASE Visited(E, s) /\ t = s BY <1>3
<1>4. CASE Begins(E, s, t)
  <2>1. PICK m \in DOMAIN E \ s.black :
          ~s.found /\ s.stack = <<>> /\ t = [s EXCEPT !.stack = <<m>>]
    BY <1>4 DEF Begins
  <2>2. SearchInv(E, t) /\ Gray(s) = {} /\ Gray(t) = {m} /\ m \in Nodes(E) \ s.black
    BY <2>1, LookFrom
  <2>3. t \in SearchState(E) BY <2>2 DEF SearchInv
  <2>4. t.edges = s.edges /\ t.black = s.black BY <1>1, <2>1 DEF SearchState
  <2>5. W(t) \subseteq W(s) /\ m \in W(s) /\ m \notin W(t) BY <2>2, <2>4
  <2>6. B(t) = B(s) BY <2>4
  <2> HIDE DEF W, B
  <2>7. Cardinality(W(t)) + 1 <= Cardinality(W(s)) BY <1>1, <1>2, <2>5, OneLess
  <2>8. Effort(E, t) + 1 <= Effort(E, s) BY <1>1, <1>2, <2>3, <2>4, <2>6, <2>7
  <2> QED BY <2>2, <2>8
<1>5. CASE Paints(E, s, t)
  <2> DEFINE n == Last(s.stack)
  <2>1. SearchInv(E, t) /\ n \in Nodes(E) \ s.black /\ Gray(s) = Gray(t) \cup {n}
    BY <1>5, PaintBlack DEF Paints
  <2>2. t \in SearchState(E) BY <2>1 DEF SearchInv
  <2>3. t.edges = s.edges /\ t.black = s.black \cup {n} BY <1>1, <1>5 DEF SearchState, Paints
  <2> HIDE DEF n
  <2>4. W(t) = W(s) BY <2>1, <2>3
  <2>5. B(t) \subseteq B(s) /\ n \in B(s) /\ n \notin B(t) BY <2>1, <2>3
  <2> HIDE DEF W, B
  <2>6. Cardinality(B(t)) + 1 <= Cardinality(B(s)) BY <1>1, <1>2, <2>5, OneLess
  <2>7. Effort(E, t) + 1 <= Effort(E, s) BY <1>1, <1>2, <2>2, <2>3, <2>4, <2>6
  <2> QED BY <2>1, <2>7
<1>6. CASE Looks(E, s, t)
  <2> DEFINE n == Last(s.stack)
  <2>1. ~s.found /\ s.stack # <<>> /\ n \in DOMAIN E /\ \E m \in E[n] : LooksTo(E, s, t, m)
    BY <1>6 DEF Looks
  <2>2. PICK m \in E[n] : LooksTo(E, s, t, m) BY <2>1
  <2>3. <<n, m>> \in s.edges BY <2>2 DEF LooksTo
  <2>4. CASE m \in Gray(s) /\ t = [s EXCEPT !.edges = s.edges \ {<<n, m>>}, !.found = TRUE]
    <3>1. ~Acyclic(E) BY <2>1, <2>4, LookGray
    <3>2. t \in SearchState(E) /\ t.found = TRUE BY <1>1, <2>4 DEF SearchState
    <3> QED BY <3>1, <3>2 DEF SearchInv, Visited
  <2>5. CASE /\ m \notin Gray(s)
             /\ \/ m \in s.black /\ t = [s EXCEPT !.edges = s.edges \ {<<n, m>>}]
                \/ /\ m \notin s.black
                   /\ t = [s EXCEPT !.edges = s.edges \ {<<n, m>>}, !.stack = Append(s.stack, m)]
    <3>1. m \in Nodes(E) BY <2>1 DEF Nodes
    <3>2. s.stack \in Seq(Nodes(E)) BY <1>1 DEF SearchState
    <3>3. Append(s.stack, m) \in Seq(Nodes(E)) BY <3>1, <3>2, AppendProperties
    <3>4. /\ t.found = s.found /\ t.black = s.black /\ t.edges = s.edges \ {<<n, m>>}
          /\ t \in SearchState(E)
          /\ \/ m \in s.black /\ t.stack = s.stack
             \/ m \notin s.black /\ t.stack = Append(s.stack, m)
      BY <1>1, <2>5, <3>3 DEF SearchState
    <3>5. /\ SearchInv(E, t)
          /\ m \in s.black => Gray(t) = Gray(s)
          /\ m \notin s.black => Gray(t) = Gray(s) \cup {m}
      BY <2>1, <2>5, <3>4, LookOn
    <3>6. B(t) = B(s) /\ W(t) \subseteq W(s) BY <3>4, <3>5
    <3>7. t.edges \subseteq s.edges /\ <<n, m>> \in s.edges /\ <<n, m>> \notin t.edges
      BY <2>3, <3>4
    <3> HIDE DEF W, B
    <3>8. Cardinality(t.edges) + 1 <= Cardinality(s.edges) BY <1>1, <1>2, <3>7, OneLess
    <3>9. Cardinality(W(t)) <= Cardinality(W(s)) BY <1>1, <1>2, <3>6, NoMore
    <3>10. /\ Effort(E, s) = Cardinality(s.edges) + Cardinality(B(s)) + Cardinality(W(s))
           /\ Effort(E, t) = Cardinality(t.edges) + Cardinality(B(s)) + Cardinality(W(t))
           /\ Cardinality(s.edges) \in Nat /\ Cardinality(B(s)) \in Nat
           /\ Cardinality(W(s)) \in Nat /\ Cardinality(t.edges) \in Nat
           /\ Cardinality(W(t)) \in Nat
      BY <1>1, <1>2, <3>4, <3>6
    <3>11. Effort(E, t) + 1 <= Effort(E, s) BY <3>8, <3>9, <3>10
    <3> QED BY <3>5, <3>11
  <2> QED BY <2>2, <2>4, <2>5 DEF LooksTo
<1> HIDE DEF W, B
<1> QED BY <1>1, <1>3, <1>4, <1>5, <1>6, VisitIs

\* HasCycle tells whether a finite graph has a cycle (state.go's three-color search), and
\* a graph without one is grounded.
THEOREM CycleFound ==
  ASSUME NEW E, FiniteGraph(E)
  PROVE  /\ HasCycle(E) <=> ~Acyclic(E)
         /\ Acyclic(E) => Grounded(E)
<1> DEFINE K == Cardinality(Edges(E)) + 2 * Cardinality(Nodes(E))
           start == SearchStart(E)
           step == [s \in SearchState(E) |-> Visit(E, s)]
           IsSearch(f) == f = [i \in Nat |-> IF i = 0 THEN start ELSE Visit(E, f[i - 1])]
           search == CHOOSE f : IsSearch(f)
<1>1. SearchInv(E, start) BY SearchBegins
<1>2. IsFiniteSet(Nodes(E)) /\ IsFiniteSet(Edges(E)) BY GraphFinite
<1>3. Cardinality(Nodes(E)) \in Nat /\ Cardinality(Edges(E)) \in Nat BY <1>2, FS_CardinalityType
<1>4. K \in Nat BY <1>3
<1>5. \A s : SearchInv(E, s) => s \in SearchState(E) BY DEF SearchInv
<1>6. Effort(E, start) = K
  <2>1. start.stack = <<>> /\ start.black = {} /\ start.edges = Edges(E) BY DEF SearchStart
  <2>2. Gray(start) = {} BY <2>1 DEF Gray
  <2>3. Nodes(E) \ start.black = Nodes(E) /\ Nodes(E) \ (start.black \cup Gray(start)) = Nodes(E)
    BY <2>1, <2>2
  <2>4. Effort(E, start) =
          Cardinality(Edges(E)) + Cardinality(Nodes(E)) + Cardinality(Nodes(E))
    BY <2>1, <2>3 DEF Effort
  <2> HIDE DEF start
  <2> QED BY <1>3, <2>4
<1>7. \A s \in SearchState(E) : step[s] = Visit(E, s) OBVIOUS
<1>8. HasCycle(E) = search[K].found BY DEF HasCycle, SearchStart
<1> HIDE DEF K, start, step
<1>9. PICK f : Iterates(start, step, f) BY IteratesExist
<1>10. f[0] = start /\ \A n \in Nat : f[n + 1] = step[f[n]] BY <1>9, IteratesAre
<1>11. \A n \in Nat : SearchInv(E, f[n]) /\ (Visited(E, f[n]) \/ Effort(E, f[n]) + n <= K)
  <2> DEFINE T == {n \in Nat : /\ SearchInv(E, f[n])
                               /\ Visited(E, f[n]) \/ Effort(E, f[n]) + n <= K}
  <2>1. 0 \in T BY <1>1, <1>4, <1>6, <1>10
  <2>2. ASSUME NEW n \in Nat, n \in T PROVE n + 1 \in T
    <3>1. SearchInv(E, f[n]) /\ f[n] \in SearchState(E) BY <1>5, <2>2
    <3>2. f[n + 1] = Visit(E, f[n]) BY <1>7, <1>10, <3>1
    <3>3. /\ SearchInv(E, f[n + 1])
          /\ Visited(E, f[n + 1]) \/ Effort(E, f[n + 1]) + 1 <= Effort(E, f[n])
      BY <3>1, <3>2, SearchStep
    <3>4. f[n + 1] \in SearchState(E) BY <1>5, <3>3
    <3>5. Effort(E, f[n]) \in Nat /\ Effort(E, f[n + 1]) \in Nat
      BY <3>1, <3>4, EffortNumber
    <3>6. Visited(E, f[n]) => Visited(E, f[n + 1])
      <4> SUFFICES ASSUME Visited(E, f[n]) PROVE f[n + 1] = f[n] OBVIOUS
      <4>1. f[n].found \/ (f[n].stack = <<>> /\ DOMAIN E \subseteq f[n].black) BY DEF Visited
      <4> QED BY <3>2, <4>1 DEF Visit
    <3>7. Visited(E, f[n + 1]) \/ Effort(E, f[n + 1]) + (n + 1) <= K
      BY <1>4, <2>2, <3>3, <3>5, <3>6
    <3> QED BY <3>3, <3>7
  <2>3. \A n \in Nat : n \in T
    <3> HIDE DEF T
    <3> QED BY <2>1, <2>2, Counting
  <2> QED BY <2>3
<1>12. IsSearch(f)
  <2>1. \A n \in Nat : f[n + 1] = Visit(E, f[n]) BY <1>5, <1>7, <1>10, <1>11
  <2>2. ASSUME NEW n \in Nat PROVE f[n] = IF n = 0 THEN start ELSE Visit(E, f[n - 1])
    <3>1. CASE n = 0 BY <1>10, <3>1
    <3>2. CASE n # 0
      <4>1. n - 1 \in Nat /\ (n - 1) + 1 = n BY <3>2
      <4>2. f[(n - 1) + 1] = Visit(E, f[n - 1]) BY <2>1, <4>1
      <4> QED BY <3>2, <4>1, <4>2
    <3> QED BY <3>1, <3>2
  <2>3. f = [n \in Nat |-> f[n]] BY <1>9 DEF Iterates
  <2> QED BY <2>2, <2>3
<1>13. \A g : IsSearch(g) => \A n \in Nat : g[n] = f[n]
  <2> SUFFICES ASSUME NEW g, IsSearch(g) PROVE \A n \in Nat : g[n] = f[n] OBVIOUS
  <2> DEFINE T == {n \in Nat : g[n] = f[n]}
  <2>1. 0 \in T BY <1>10
  <2>2. ASSUME NEW n \in Nat, n \in T PROVE n + 1 \in T
    <3>1. n + 1 \in Nat /\ n + 1 # 0 /\ (n + 1) - 1 = n OBVIOUS
    <3>2. g[n + 1] = Visit(E, g[n]) /\ f[n + 1] = Visit(E, f[n]) BY <1>12, <3>1
    <3> QED BY <2>2, <3>2
  <2>3. \A n \in Nat : n \in T
    <3> HIDE DEF T, IsSearch
    <3> QED BY <2>1, <2>2, Counting
  <2> QED BY <2>3
<1>14. IsSearch(search) BY <1>12
<1> HIDE DEF search, IsSearch
<1>15. search[K] = f[K] BY <1>4, <1>13, <1>14
<1> DEFINE s == f[K]
<1>16. SearchInv(E, s) /\ s \in SearchState(E) /\ (Visited(E, s) \/ Effort(E, s) + K <= K)
  BY <1>4, <1>5, <1>11
<1> HIDE DEF s
<1>17. Visited(E, s)
  <2> SUFFICES ASSUME ~s.found, Effort(E, s) + K <= K PROVE Visited(E, s) BY <1>16 DEF Visited
  <2>1. /\ IsFiniteSet(Nodes(E) \ s.black) /\ Cardinality(s.edges) \in Nat
        /\ Cardinality(Nodes(E) \ s.black) \in Nat
        /\ Cardinality(Nodes(E) \ (s.black \cup Gray(s))) \in Nat
    BY <1>16, EffortIs
  <2>2. Cardinality(Nodes(E) \ s.black) = 0 BY <1>4, <2>1 DEF Effort
  <2>3. Nodes(E) \ s.black = {} BY <2>1, <2>2, FS_EmptySet
  <2>4. DOMAIN E \subseteq s.black BY <2>3 DEF Nodes
  <2>5. s.stack \in Seq(Nodes(E)) BY <1>16 DEF SearchState
  <2>6. Gray(s) \cap s.black = {} BY <1>16 DEF SearchInv
  <2>7. s.stack = <<>>
    <3> SUFFICES ASSUME s.stack # <<>> PROVE FALSE OBVIOUS
    <3>1. 1 \in 1..Len(s.stack) BY <2>5, EmptySeq
    <3>2. s.stack[1] \in Nodes(E) /\ s.stack[1] \in Gray(s) BY <2>5, <3>1 DEF Gray
    <3> QED BY <2>3, <2>6, <3>2
  <2> QED BY <2>4, <2>7 DEF Visited
<1>18. HasCycle(E) = s.found BY <1>8, <1>15 DEF s
<1>19. s.found => ~Acyclic(E) BY <1>16 DEF SearchInv
<1>20. ~s.found => Grounded(E)
  <2> SUFFICES ASSUME ~s.found PROVE Grounded(E) OBVIOUS
  <2>1. DOMAIN E \subseteq s.black BY <1>17 DEF Visited
  <2>2. \A S \in SUBSET (s.black \cap DOMAIN E) : S # {} => \E n \in S : E[n] \cap S = {}
    BY <1>16 DEF SearchInv
  <2> QED BY <2>1, <2>2 DEF Grounded
<1>21. Grounded(E) => Acyclic(E) BY GroundedAcyclic DEF FiniteGraph
<1> QED BY <1>18, <1>19, <1>20, <1>21

\* The chains of dependencies of n tickets after the first.
ChainStep(tks, X) == {t \in Ids(tks) : tks[t].deps \cap X # {}}

\* criticalPathDepth, if the dependencies have no cycle: no chain is longer than there
\* are tickets.
LEMMA CriticalPathBound ==
  ASSUME NEW tks, IsFiniteSet(Ids(tks)), Grounded(Dependencies(tks))
  PROVE  CriticalPath(tks) <= Cardinality(Ids(tks))
<1> DEFINE I == Ids(tks)
           K == Cardinality(I)
           step == [X \in SUBSET I |-> ChainStep(tks, X)]
           IsChain(f) == f = [n \in Nat |-> IF n = 0 THEN I ELSE ChainStep(tks, f[n - 1])]
           chain == CHOOSE f : IsChain(f)
<1>1. CriticalPath(tks) = Cardinality({n \in 0..K : chain[n] # {}}) BY DEF CriticalPath, ChainStep
<1> HIDE DEF step
<1>2. PICK f : Iterates(I, step, f) BY IteratesExist
<1>3. f[0] = I /\ \A n \in Nat : f[n + 1] = step[f[n]] BY <1>2, IteratesAre
<1>4. \A X \in SUBSET I : ChainStep(tks, X) \in SUBSET I /\ step[X] = ChainStep(tks, X)
  BY DEF step, ChainStep
<1> HIDE DEF I
<1>5. \A n \in Nat : f[n] \in SUBSET I
  <2> DEFINE T == {n \in Nat : f[n] \in SUBSET I}
  <2>1. 0 \in T BY <1>3
  <2>2. \A n \in Nat : n \in T => n + 1 \in T BY <1>3, <1>4
  <2>3. \A n \in Nat : n \in T
    <3> HIDE DEF T
    <3> QED BY <2>1, <2>2, Counting
  <2> QED BY <2>3
<1>6. \A n \in Nat : f[n + 1] = ChainStep(tks, f[n]) BY <1>3, <1>4, <1>5
<1>7. \A n \in Nat : f[n] = IF n = 0 THEN I ELSE ChainStep(tks, f[n - 1])
  <2> TAKE n \in Nat
  <2>1. CASE n = 0 BY <1>3, <2>1
  <2>2. CASE n # 0
    <3>1. n - 1 \in Nat /\ (n - 1) + 1 = n BY <2>2
    <3>2. f[(n - 1) + 1] = ChainStep(tks, f[n - 1]) BY <1>6, <3>1
    <3> QED BY <2>2, <3>1, <3>2
  <2> QED BY <2>1, <2>2
<1>8. IsChain(f)
  <2>1. f = [n \in Nat |-> f[n]] BY <1>2 DEF Iterates
  <2> QED BY <1>7, <2>1
<1>9. IsChain(chain) BY <1>8
<1> HIDE DEF chain
<1>10. chain[0] = I BY <1>9
<1>11. ASSUME NEW n \in Nat PROVE chain[n + 1] = ChainStep(tks, chain[n])
  <2>1. n + 1 \in Nat /\ n + 1 # 0 /\ (n + 1) - 1 = n OBVIOUS
  <2> QED BY <1>9, <2>1
<1>12. IsFiniteSet(I) /\ K \in Nat BY FS_CardinalityType DEF I
<1> DEFINE c(n) == Cardinality(chain[n])
           T == {n \in Nat : /\ chain[n] \in SUBSET I /\ ChainStep(tks, chain[n]) \subseteq chain[n]
                             /\ chain[n] = {} \/ c(n) + n <= K}
<1>13. 0 \in T
  <2>1. c(0) = K BY <1>10
  <2>2. ChainStep(tks, I) \subseteq I BY <1>4
  <2> HIDE DEF c
  <2>3. c(0) + 0 <= K BY <1>12, <2>1
  <2> QED BY <1>10, <2>2, <2>3
<1>14. ASSUME NEW n \in Nat, n \in T PROVE n + 1 \in T
  <2>1. chain[n + 1] = ChainStep(tks, chain[n]) /\ chain[n + 1] \subseteq chain[n] BY <1>11, <1>14
  <2>2. ChainStep(tks, chain[n + 1]) \subseteq chain[n + 1] BY <2>1 DEF ChainStep
  <2>3. CASE chain[n] = {} BY <2>1, <2>2, <2>3
  <2>4. CASE chain[n] # {}
    <3>1. chain[n] \in SUBSET DOMAIN Dependencies(tks) BY <1>14 DEF Dependencies, I
    <3>2. PICK m \in chain[n] : Dependencies(tks)[m] \cap chain[n] = {} BY <2>4, <3>1 DEF Grounded
    <3>3. m \in I /\ tks[m].deps \cap chain[n] = {} BY <1>14, <3>2 DEF Dependencies, I
    <3>4. m \notin chain[n + 1] BY <2>1, <3>3 DEF ChainStep
    <3>5. IsFiniteSet(chain[n]) BY <1>12, <1>14, FS_Subset
    <3>6. chain[n + 1] \in SUBSET chain[n] /\ chain[n + 1] # chain[n] BY <2>1, <3>2, <3>4
    <3>7. /\ Cardinality(chain[n + 1]) <= Cardinality(chain[n])
          /\ Cardinality(chain[n + 1]) # Cardinality(chain[n]) /\ IsFiniteSet(chain[n + 1])
      BY <3>5, <3>6, FS_Subset
    <3>8. c(n) \in Nat /\ c(n + 1) \in Nat BY <3>5, <3>7, FS_CardinalityType
    <3>9. c(n) + n <= K BY <1>14, <2>4
    <3> HIDE DEF c
    <3>10. c(n + 1) <= c(n) /\ c(n + 1) # c(n) BY <3>7 DEF c
    <3>11. c(n + 1) + (n + 1) <= K BY <1>12, <3>8, <3>9, <3>10
    <3> QED BY <1>14, <2>1, <2>2, <3>11
  <2> QED BY <2>3, <2>4
<1>15. \A n \in Nat : n \in T
  <2> HIDE DEF T
  <2> QED BY <1>13, <1>14, Counting
<1>16. chain[K] = {}
  <2>1. chain[K] \in SUBSET I /\ (chain[K] = {} \/ c(K) + K <= K) BY <1>12, <1>15
  <2>2. IsFiniteSet(chain[K]) BY <1>12, <2>1, FS_Subset
  <2>3. c(K) \in Nat BY <2>2, FS_CardinalityType
  <2> HIDE DEF c
  <2>4. chain[K] = {} \/ c(K) = 0 BY <1>12, <2>1, <2>3
  <2> QED BY <2>2, <2>4, FS_EmptySet DEF c
<1> DEFINE L == {n \in 0..K : chain[n] # {}}
<1>17. L \subseteq 0..K - 1
  <2> SUFFICES ASSUME NEW n \in L PROVE n \in 0..K - 1 OBVIOUS
  <2>1. n # K /\ n \in 0..K BY <1>16
  <2> QED BY <1>12, <2>1
<1>18. IsFiniteSet(0..K - 1) /\ Cardinality(0..K - 1) = K
  <2>1. IsFiniteSet(0..K - 1) /\ Cardinality(0..K - 1) = IF 0 > K - 1 THEN 0 ELSE (K - 1) - 0 + 1
    BY <1>12, FS_Interval
  <2> HIDE DEF K
  <2> QED BY <1>12, <2>1
<1>19. Cardinality(L) <= K BY <1>17, <1>18, FS_Subset
<1> QED BY <1>1, <1>19 DEF I

-----------------------------------------------------------------------------
(* The inductive invariant *)

Status == {"pending", "ready", "running"} \cup Terminal

AnyKey == Key \cup {RootKey(g) : g \in Goal}

TicketRecord ==
  [goal : Goal, deps : SUBSET Path, key : AnyKey, depth : Nat, status : Status,
   children : SUBSET Path]

Item == [place : Nat, id : Path, key : Key, adopt : BOOLEAN, deps : SUBSET Path]

Plan == [todo : SUBSET Item, children : SUBSET Path, at : {"no", "fail", "emit"}]

\* The types of the variables, and the tickets of the Scheduler.
Types ==
  /\ tickets \in [Ids(tickets) -> TicketRecord] /\ Ids(tickets) \in SUBSET Path
  /\ IsFiniteSet(Ids(tickets))
  /\ plan \in [Ids(tickets) -> Plan]
  /\ byKey \in [DOMAIN byKey -> Ids(tickets)]
  /\ opt \in Answers /\ lost \in SUBSET Path /\ crashes \in Nat
  /\ \A g \in Goal : <<g>> \in Ids(tickets) /\ tickets[<<g>>].goal = g

\* What a ticket is like.
Sane ==
  \A t \in Ids(tickets) :
    /\ IsFiniteSet(tickets[t].deps) /\ IsFiniteSet(tickets[t].children)
    /\ tickets[t].depth <= MaxGraphDepth
    /\ tickets[t].status = "decomposed" \/ tickets[t].children = {}
    /\ tickets[t].key = NoKey \/ (tickets[t].key \in DOMAIN byKey /\ byKey[tickets[t].key] = t)

\* The child of t that an item of its list will create.
ChildItem(t, c) == IsFiniteSet(c.deps) /\ \E l \in Local : c.id = Append(t, l)

\* What a split is like while it is at work.
Planned ==
  \A t \in Ids(tickets) :
    /\ plan[t].at # "no" => tickets[t].status = "running"
    /\ plan[t].at # "emit" => plan[t].todo = {} /\ plan[t].children = {}
    /\ plan[t].at = "emit" => tickets[t].depth < MaxGraphDepth
    /\ IsFiniteSet(plan[t].todo) /\ IsFiniteSet(plan[t].children)
    /\ \A c \in plan[t].todo : ChildItem(t, c) /\ \A b \in plan[t].todo : b.id = c.id => b = c

Running == {t \in Ids(tickets) : tickets[t].status = "running"}

\* The tickets that the split of t is going to add.
Adding(t) == {c.id : c \in plan[t].todo} \ Ids(tickets)

\* The splits at work, of tickets of goal g.
Works(g) == {t \in Tasks(tickets, g) : plan[t].at = "emit"}

\* A goal's tickets, with those its splits are going to add.
Load(g) == Tasks(tickets, g) \cup UNION {Adding(t) : t \in Works(g)}

\* They are few.
Few ==
  /\ Cardinality(Running) <= Concurrency
  /\ \A t \in Ids(tickets) : Cardinality(Adding(t)) <= MaxFanOut
  /\ \A g \in Goal : Cardinality(Load(g)) <= MaxTicketsPerGoal + (Concurrency - 1) * MaxFanOut

\* The ids that anything names.
Names == Ids(tickets) \cup lost \cup Coming

\* The id t is split, or being split.
Parent(t) == t \in Ids(tickets) /\ (tickets[t].status = "decomposed" \/ plan[t].at = "emit")

\* Until a crash: an id is that of a ticket of the Scheduler, or of the child of a split.
Rooted == \A p \in Names : Len(p) > 1 => Parent(Front(p))

\* Until a crash: no list has the id of a ticket, and what is named is in Names.
Named ==
  \A t \in Ids(tickets) :
    /\ tickets[t].deps \subseteq Names /\ tickets[t].children \subseteq Names
    /\ plan[t].children \subseteq Names
    /\ \A c \in plan[t].todo : c.id \notin Ids(tickets) /\ c.deps \subseteq Names

Own(t, children) == {p \in children : Front(p) = t}

\* Until a crash: a ticket is split once.
Once ==
  \A t \in Ids(tickets) :
    /\ Cardinality(Own(t, tickets[t].children)) <= MaxFanOut
    /\ Cardinality(Own(t, plan[t].children)) <= MaxFanOut

\* The lists' items with the id p.
Items(p) == UNION {{c \in plan[t].todo : c.id = p} : t \in DOMAIN plan}

\* The dependencies, with those to come.
All == [p \in Ids(tickets) \cup Coming |->
          (IF p \in Ids(tickets) THEN tickets[p].deps ELSE {}) \cup UNION {c.deps : c \in Items(p)}]

Uncrashed == crashes = 0 => Rooted /\ Named /\ Once /\ Grounded(All)

Inv == Types /\ Sane /\ Planned /\ Few /\ Uncrashed

-----------------------------------------------------------------------------
(* When nothing is left to do *)

\* The families of what a ticket was split into make up its own.
LEMMA FamilyIs ==
  ASSUME NEW tks, IsFiniteSet(Ids(tks)), NEW t \in Ids(tks)
  PROVE  /\ t \in Family(tks, t)
         /\ Family(tks, t)
              \subseteq {t} \cup UNION {Family(tks, u) : u \in Children(tks)[t]}
         /\ \A u \in Children(tks)[t] : Family(tks, u) \subseteq Family(tks, t)
<1> DEFINE E == Children(tks)
           F(u) == Reached(E, {u})
           C == {t} \cup UNION {F(u) : u \in E[t]}
<1>1. DOMAIN E = Ids(tks) BY DEF Children
<1>2. IsFiniteSet(DOMAIN E) BY <1>1
<1> HIDE DEF E
<1>3. \A u : u \in F(u) /\ Closed(E, F(u)) BY <1>2, ReachedIs
<1>4. \A u : \A X : u \in X /\ Closed(E, X) => F(u) \subseteq X
  <2> TAKE u
  <2> TAKE X
  <2>1. {u} \subseteq X /\ Closed(E, X) => F(u) \subseteq X BY <1>2, ReachedIs
  <2> QED BY <2>1
<1> HIDE DEF F
<1>5. Closed(E, C)
  <2> SUFFICES ASSUME NEW m \in C, m \in DOMAIN E PROVE E[m] \subseteq C BY DEF Closed
  <2>1. CASE m = t BY <1>3, <2>1
  <2>2. ASSUME NEW u \in E[t], m \in F(u) PROVE E[m] \subseteq C
    <3>1. Closed(E, F(u)) BY <1>3
    <3>2. E[m] \subseteq F(u) BY <2>2, <3>1 DEF Closed
    <3> QED BY <3>2
  <2> QED BY <2>1, <2>2
<1>6. F(t) \subseteq C BY <1>4, <1>5
<1>7. ASSUME NEW u \in E[t] PROVE F(u) \subseteq F(t)
  <2>1. t \in F(t) /\ Closed(E, F(t)) BY <1>3
  <2>2. t \in DOMAIN E BY <1>1
  <2>3. u \in F(t) BY <2>1, <2>2 DEF Closed
  <2> QED BY <1>4, <2>1, <2>3
<1>8. \A u : Family(tks, u) = F(u) BY DEF Family, E, F
<1> QED BY <1>3, <1>6, <1>7, <1>8 DEF E

\* A ticket that is neither complete nor dead, and waits for none that is not.
LEMMA NoneWaits ==
  ASSUME Types, Sane, Quiet, Missing(tickets) = {}, NEW n \in Ids(tickets),
         \A d \in tickets[n].deps \cup Children(tickets)[n] :
           Complete(tickets, d) \/ Dead(tickets, d)
  PROVE  Complete(tickets, n) \/ Dead(tickets, n)
<1> DEFINE E == Children(tickets)
<1>1. IsFiniteSet(Ids(tickets)) BY DEF Types
<1>2. /\ n \in Family(tickets, n)
      /\ Family(tickets, n) \subseteq {n} \cup UNION {Family(tickets, u) : u \in E[n]}
      /\ \A u \in E[n] : Family(tickets, u) \subseteq Family(tickets, n)
  BY <1>1, FamilyIs
<1>3. tickets[n].status \in Terminal \cup {"pending"} BY DEF Quiet
<1>4. CASE tickets[n].status = "pending"
  <2>1. ~DepsSatisfied(tickets, n) /\ n \notin Blocked(tickets) BY <1>4 DEF Quiet
  <2>2. PICK d \in tickets[n].deps : ~Complete(tickets, d) BY <2>1 DEF DepsSatisfied
  <2>3. Dead(tickets, d) BY <2>2
  <2>4. n \in Blocked(tickets) BY <1>4, <2>3 DEF Blocked, Terminal
  <2> QED BY <2>1, <2>4
<1>5. CASE tickets[n].status = "failed"
  <2>1. n \in Family(tickets, n) \cap Ids(tickets) BY <1>2
  <2> QED BY <1>5, <2>1 DEF Dead
<1>6. CASE tickets[n].status = "merged"
  <2>1. E[n] = {} BY <1>6 DEF Children
  <2>2. Family(tickets, n) \subseteq {n} BY <1>2, <2>1
  <2> QED BY <1>6, <2>2 DEF Complete
<1>7. CASE tickets[n].status = "decomposed"
  <2>1. CASE \E u \in E[n] : Dead(tickets, u)
    <3>1. PICK u \in E[n] : Dead(tickets, u) BY <2>1
    <3>2. Family(tickets, u) \subseteq Family(tickets, n) BY <1>2
    <3> QED BY <3>1, <3>2 DEF Dead
  <2>2. CASE \A u \in E[n] : Complete(tickets, u)
    <3>1. \A u \in E[n] : \A p \in Family(tickets, u) :
            p \in Ids(tickets) /\ tickets[p].status \in {"merged", "decomposed"}
      BY <2>2 DEF Complete
    <3> QED BY <1>2, <1>7, <3>1 DEF Complete
  <2> QED BY <2>1, <2>2
<1> QED BY <1>3, <1>4, <1>5, <1>6, <1>7 DEF Terminal

\* A ticket that waits is neither complete nor dead.
LEMMA PendingOpen ==
  ASSUME Types, NEW t \in Ids(tickets), tickets[t].status = "pending"
  PROVE  ~Complete(tickets, t) /\ ~Dead(tickets, t)
<1>1. IsFiniteSet(Ids(tickets)) BY DEF Types
<1>2. t \in Family(tickets, t)
      /\ Family(tickets, t) \subseteq {t} \cup UNION {Family(tickets, u) : u \in Children(tickets)[t]}
  BY <1>1, FamilyIs
<1>3. Children(tickets)[t] = {} BY DEF Children
<1>4. Family(tickets, t) = {t} BY <1>2, <1>3
<1> QED BY <1>4 DEF Complete, Dead

\* No ticket waits that nothing can move: by the acyclic graph, one of those would wait for
\* tickets that are complete or dead only.
LEMMA WaitingEnds == Types /\ Sane => WaitsEnd
<1> SUFFICES ASSUME Types, Sane, Quiet, SelfWait(tickets) = {}, Missing(tickets) = {}
             PROVE  Settled(tickets) /\ \A g \in Goal : Outcome(tickets, g) # "running"
  BY DEF WaitsEnd
<1> DEFINE E == [t \in Ids(tickets) |-> tickets[t].deps \cup Children(tickets)[t]]
           Open == {t \in Ids(tickets) : ~Complete(tickets, t) /\ ~Dead(tickets, t)}
<1>1. Acyclic(E) BY DEF SelfWait, Acyclic
<1>2. FiniteGraph(E)
  <2>1. \A t \in Ids(tickets) : IsFiniteSet(tickets[t].deps) /\ IsFiniteSet(tickets[t].children)
    BY DEF Sane
  <2>2. \A t \in Ids(tickets) : IsFiniteSet(Children(tickets)[t])
    BY <2>1, FS_EmptySet DEF Children
  <2>3. \A t \in Ids(tickets) : IsFiniteSet(tickets[t].deps \cup Children(tickets)[t])
    BY <2>1, <2>2, FS_Union
  <2> QED BY <2>3 DEF FiniteGraph, Types
<1>3. Grounded(E) BY <1>1, <1>2, CycleFound
<1>4. \A t \in Ids(tickets) : E[t] \subseteq Ids(tickets)
  <2> TAKE t \in Ids(tickets)
  <2> DEFINE Named2 == UNION {tickets[u].deps \cup Children(tickets)[u] : u \in Ids(tickets)}
  <2>1. Named2 \ Ids(tickets) = {} BY DEF Missing
  <2>2. tickets[t].deps \cup Children(tickets)[t] \subseteq Named2 OBVIOUS
  <2> QED BY <2>1, <2>2
<1>5. Open = {}
  <2> SUFFICES ASSUME Open # {} PROVE FALSE OBVIOUS
  <2>1. Open \in SUBSET DOMAIN E OBVIOUS
  <2>2. PICK n \in Open : E[n] \cap Open = {}
    <3> HIDE DEF E, Open
    <3> QED BY <1>3, <2>1 DEF Grounded
  <2>3. \A d \in E[n] : Complete(tickets, d) \/ Dead(tickets, d) BY <1>4, <2>2
  <2>4. n \in Ids(tickets) /\ ~Complete(tickets, n) /\ ~Dead(tickets, n) OBVIOUS
  <2> QED BY <2>3, <2>4, NoneWaits
<1>6. Settled(tickets)
  <2> SUFFICES ASSUME NEW t \in Ids(tickets) PROVE tickets[t].status \in Terminal BY DEF Settled
  <2>1. tickets[t].status # "pending" BY <1>5, PendingOpen
  <2> QED BY <2>1 DEF Quiet
<1>7. ASSUME NEW g \in Goal PROVE Outcome(tickets, g) # "running"
  <2>1. \A t \in Tasks(tickets, g) : tickets[t].status \in Terminal BY <1>6 DEF Settled, Tasks
  <2>2. \A t \in Tasks(tickets, g) : Complete(tickets, t) \/ Dead(tickets, t) BY <1>5 DEF Tasks
  <2> QED BY <2>1, <2>2 DEF Outcome
<1> QED BY <1>6, <1>7

-----------------------------------------------------------------------------
(* What a split is judged by *)

\* A subtask's id is that of the ticket its key names, or a new one.
LEMMA IdIs ==
  ASSUME Types, NEW t \in Ids(tickets), NEW subs \in Seq(Subtask), NEW i \in DOMAIN subs
  PROVE  \/ Known(subs[i].key) /\ IdOf(t, subs, i) \in Ids(tickets)
         \/ ~Known(subs[i].key) /\ \E l \in Local : IdOf(t, subs, i) = Append(t, l)
<1> DEFINE same == {j \in 1..i - 1 : subs[j].key = subs[i].key}
<1>1. DOMAIN subs = 1..Len(subs) /\ Len(subs) \in Nat BY ElementOfSeq, LenProperties
<1>2. \A j \in DOMAIN subs : subs[j] \in Subtask BY ElementOfSeq, <1>1
<1>3. \A j \in DOMAIN subs : subs[j].local \in Local BY <1>2 DEF Subtask
<1>4. CASE Known(subs[i].key)
  <2>1. IdOf(t, subs, i) = byKey[subs[i].key] BY <1>4 DEF IdOf
  <2>2. subs[i].key \in DOMAIN byKey BY <1>4 DEF Known
  <2> QED BY <1>4, <2>1, <2>2 DEF Types
<1>5. CASE ~Known(subs[i].key) /\ subs[i].key # NoKey /\ same # {}
  <2>1. IdOf(t, subs, i) = Append(t, subs[Min(same)].local) BY <1>5 DEF IdOf
  <2>2. same \subseteq Nat /\ same \subseteq DOMAIN subs BY <1>1
  <2> HIDE DEF same
  <2>3. Min(same) \in DOMAIN subs BY <1>5, <2>2, MinIs
  <2> QED BY <1>3, <1>5, <2>1, <2>3
<1>6. CASE ~Known(subs[i].key) /\ ~(subs[i].key # NoKey /\ same # {})
  <2>1. IdOf(t, subs, i) = Append(t, subs[i].local) BY <1>6 DEF IdOf
  <2> QED BY <1>3, <1>6, <2>1
<1> QED BY <1>4, <1>5, <1>6

\* A child's id is a path, longer than its parent's.
LEMMA ChildPath ==
  ASSUME NEW t \in Path, NEW l \in Local
  PROVE  /\ Append(t, l) \in Path /\ Len(Append(t, l)) > 1 /\ Front(Append(t, l)) = t
<1> DEFINE S == Goal \cup Local
           p == Append(t, l)
<1>1. t \in Seq(S) /\ t # <<>> /\ l \in S BY DEF Path
<1> HIDE DEF S
<1>2. /\ p \in Seq(S) /\ Len(p) = Len(t) + 1 /\ \A i \in 1..Len(t) : p[i] = t[i]
  BY <1>1, AppendProperties
<1>3. Len(t) \in Nat \ {0} BY <1>1, EmptySeq
<1>4. p # <<>> BY <1>2, <1>3
<1> HIDE DEF p
<1>5. /\ Front(p) \in Seq(S) /\ Len(Front(p)) = Len(p) - 1
      /\ \A i \in 1..Len(p) - 1 : Front(p)[i] = p[i]
  BY <1>2, <1>4, FrontIs
<1>6. Len(Front(p)) = Len(t) /\ \A i \in 1..Len(t) : Front(p)[i] = t[i] BY <1>2, <1>3, <1>5
<1>7. Front(p) = t BY <1>1, <1>5, <1>6, SeqEqual
<1> QED BY <1>2, <1>3, <1>4, <1>7 DEF Path, p, S

\* What decompose makes of an answer: finitely many children, each with an id of its own,
\* either tickets there are or new ones.
ChildrenSound(t, cs) ==
  /\ IsFiniteSet(cs)
  /\ \A c \in cs :
       /\ c = [place |-> c.place, id |-> c.id, key |-> c.key, adopt |-> c.adopt, deps |-> c.deps]
       /\ c.place \in Nat /\ c.id \in Path /\ c.key \in Key /\ c.adopt \in BOOLEAN
       /\ IsFiniteSet(c.deps)
       /\ c.adopt => c.id \in Ids(tickets)
       /\ ~c.adopt => \E l \in Local : c.id = Append(t, l)
  /\ \A b, c \in cs : b.id = c.id => b = c

\* ChildrenOf makes such children of every answer that lists finitely many dependencies.
LEMMA ChildrenAre ==
  ASSUME Types, NEW t \in Ids(tickets), NEW subs \in Seq(Subtask),
         \A i \in DOMAIN subs : IsFiniteSet(subs[i].deps)
  PROVE  ChildrenSound(t, ChildrenOf(t, subs))
<1> DEFINE id(i) == IdOf(t, subs, i)
           first == {i \in DOMAIN subs : \A j \in 1..i - 1 : id(j) # id(i)}
           adopted == {id(i) : i \in {j \in DOMAIN subs : Known(subs[j].key)}}
           resolve(d) == IF \E j \in DOMAIN subs : subs[j].local = d
                         THEN id(CHOOSE j \in DOMAIN subs : subs[j].local = d)
                         ELSE d
           deps(i) == {resolve(d) : d \in subs[i].deps}
           child(i) == [place |-> i, id |-> id(i), key |-> subs[i].key, adopt |-> id(i) \in adopted,
                        deps |-> deps(i)]
           cs == {child(i) : i \in first}
<1>1. DOMAIN subs = 1..Len(subs) /\ Len(subs) \in Nat BY ElementOfSeq, LenProperties
<1>2. \A j \in DOMAIN subs : subs[j].key \in Key
  <2>1. \A j \in DOMAIN subs : subs[j] \in Subtask BY ElementOfSeq, <1>1
  <2> QED BY <2>1 DEF Subtask
<1>3. ChildrenOf(t, subs) = cs BY DEF ChildrenOf
<1>4. \A j \in DOMAIN subs : \/ Known(subs[j].key) /\ id(j) \in Ids(tickets)
                             \/ ~Known(subs[j].key) /\ \E l \in Local : id(j) = Append(t, l)
  BY IdIs
<1>5. t \in Path /\ Ids(tickets) \subseteq Path BY DEF Types
<1> HIDE DEF id
<1>6. \A j \in DOMAIN subs : id(j) \in Path BY <1>4, <1>5, ChildPath
<1>7. adopted \subseteq Ids(tickets)
  <2> SUFFICES ASSUME NEW j \in DOMAIN subs, Known(subs[j].key) PROVE id(j) \in Ids(tickets)
    OBVIOUS
  <2> QED BY <1>4
<1>8. \A j \in DOMAIN subs : id(j) \notin adopted => \E l \in Local : id(j) = Append(t, l)
  BY <1>4
<1>9. \A j \in DOMAIN subs : IsFiniteSet(deps(j))
  <2> TAKE j \in DOMAIN subs
  <2> DEFINE f == [d \in subs[j].deps |-> resolve(d)]
             T == deps(j)
  <2>1. \A y \in T : \E x \in subs[j].deps : f[x] = y OBVIOUS
  <2> HIDE DEF f, T
  <2>2. IsFiniteSet(subs[j].deps) OBVIOUS
  <2>3. IsFiniteSet(T) BY <2>1, <2>2, ImageFinite
  <2> QED BY <2>3 DEF T
<1> HIDE DEF adopted, deps
<1>10. IsFiniteSet(cs)
  <2> DEFINE f == [i \in first |-> child(i)]
  <2>1. first \subseteq 1..Len(subs) BY <1>1
  <2>2. 1 \in Int /\ Len(subs) \in Int BY <1>1
  <2>3. IsFiniteSet(1..Len(subs)) BY <2>2, FS_Interval
  <2> HIDE DEF first, child
  <2>4. IsFiniteSet(first) BY <2>1, <2>3, FS_Subset
  <2>5. \A y \in cs : \E x \in first : f[x] = y OBVIOUS
  <2> HIDE DEF f, cs
  <2> QED BY <2>4, <2>5, ImageFinite
<1>11. ASSUME NEW c \in cs
       PROVE  /\ c = [place |-> c.place, id |-> c.id, key |-> c.key, adopt |-> c.adopt,
                      deps |-> c.deps]
              /\ c.place \in Nat /\ c.id \in Path /\ c.key \in Key /\ c.adopt \in BOOLEAN
              /\ IsFiniteSet(c.deps)
              /\ c.adopt => c.id \in Ids(tickets)
              /\ ~c.adopt => \E l \in Local : c.id = Append(t, l)
  <2>1. PICK i \in first : c = child(i) OBVIOUS
  <2>2. i \in DOMAIN subs /\ i \in Nat BY <1>1
  <2>3. /\ c.place = i /\ c.id = id(i) /\ c.key = subs[i].key /\ c.adopt = (id(i) \in adopted)
        /\ c.deps = deps(i)
    BY <2>1
  <2>4. c.place \in Nat /\ c.id \in Path /\ c.key \in Key /\ IsFiniteSet(c.deps)
    BY <1>2, <1>6, <1>9, <2>2, <2>3
  <2>5. CASE id(i) \in adopted
    <3>1. (id(i) \in adopted) = TRUE BY <2>5
    <3>2. c.adopt = TRUE BY <2>3, <3>1
    <3>3. c.id \in Ids(tickets) BY <1>7, <2>3, <2>5
    <3> QED BY <2>1, <2>4, <3>2, <3>3
  <2>6. CASE id(i) \notin adopted
    <3>1. (id(i) \in adopted) = FALSE BY <2>6
    <3>2. c.adopt = FALSE BY <2>3, <3>1
    <3>3. \E l \in Local : c.id = Append(t, l) BY <1>8, <2>2, <2>3, <2>6
    <3> QED BY <2>1, <2>4, <3>2, <3>3
  <2> QED BY <2>5, <2>6
<1>12. ASSUME NEW b \in cs, NEW c \in cs, b.id = c.id PROVE b = c
  <2>1. PICK i \in first : b = child(i) OBVIOUS
  <2>2. PICK j \in first : c = child(j) OBVIOUS
  <2>3. id(i) = id(j) BY <1>12, <2>1, <2>2
  <2>4. ~(i \in 1..j - 1) /\ ~(j \in 1..i - 1) BY <2>3
  <2>5. i \in 1..Len(subs) /\ j \in 1..Len(subs) BY <1>1
  <2> HIDE DEF first, child
  <2>6. i = j BY <1>1, <2>4, <2>5
  <2> QED BY <2>1, <2>2, <2>6
<1> QED BY <1>3, <1>10, <1>11, <1>12 DEF ChildrenSound

\* The ids of the children, and those of them that are to be created.
Kids(cs) == {c.id : c \in cs}

ToDo(cs) == {c \in cs : ~c.adopt}

\* What a split is that decompose goes on with.
Accepted(t, cs) ==
  /\ ChildrenSound(t, cs)
  /\ ~TooMuch(t, cs) /\ ~UnknownDependency(cs) /\ ~WouldCycle(tickets, NewEdges(cs))

\* A split whose answer is not rejected is one of those.
LEMMA AnswerAccepted ==
  ASSUME Types, NEW t \in Ids(tickets), NEW subs \in opt.says[tickets[t].goal], ~Rejected(t, subs)
  PROVE  Accepted(t, ChildrenOf(t, subs))
<1>1. opt \in Answers /\ tickets[t].goal \in Goal BY DEF Types, TicketRecord
<1>2. subs \in Seq(Subtask) /\ \A i \in DOMAIN subs : IsFiniteSet(subs[i].deps)
  BY <1>1, AnswersAssumption
<1>3. ChildrenSound(t, ChildrenOf(t, subs)) BY <1>2, ChildrenAre
<1> QED BY <1>3 DEF Rejected, Accepted

\* The children there are to be created are items of a list.
LEMMA AcceptedItems ==
  ASSUME Types, NEW t \in Ids(tickets), NEW cs, Accepted(t, cs)
  PROVE  /\ IsFiniteSet(ToDo(cs)) /\ IsFiniteSet(Kids(cs)) /\ Kids(cs) \subseteq Path
         /\ \A c \in cs : c.deps \subseteq Ids(tickets) \cup Kids(cs)
         /\ ToDo(cs) \in SUBSET Item
         /\ \A c \in ToDo(cs) : ChildItem(t, c) /\ \A b \in ToDo(cs) : b.id = c.id => b = c
<1> USE DEF Accepted, ChildrenSound
<1>1. IsFiniteSet(ToDo(cs))
  <2>1. ToDo(cs) \subseteq cs BY DEF ToDo
  <2> QED BY <2>1, FS_Subset
<1>2. IsFiniteSet(Kids(cs))
  <2> DEFINE f == [c \in cs |-> c.id]
             T == Kids(cs)
  <2>1. \A y \in T : \E c \in cs : f[c] = y BY DEF Kids
  <2>2. IsFiniteSet(cs) OBVIOUS
  <2> HIDE DEF f, T
  <2>3. IsFiniteSet(T) BY <2>1, <2>2, ImageFinite
  <2> QED BY <2>3 DEF T
<1>3. Kids(cs) \subseteq Path BY DEF Kids
<1>4. ASSUME NEW c \in cs PROVE c.deps \subseteq Ids(tickets) \cup Kids(cs)
  <2> SUFFICES ASSUME NEW d \in c.deps, d \notin Ids(tickets) PROVE d \in Kids(cs) OBVIOUS
  <2>1. \E b \in cs : b.id = d BY DEF UnknownDependency
  <2> QED BY <2>1 DEF Kids
<1>5. Ids(tickets) \subseteq Path BY DEF Types
<1>6. ASSUME NEW c \in ToDo(cs) PROVE c \in Item
  <2>1. c \in cs BY DEF ToDo
  <2>2. c.deps \in SUBSET Path BY <1>3, <1>4, <1>5, <2>1
  <2>3. c = [place |-> c.place, id |-> c.id, key |-> c.key, adopt |-> c.adopt, deps |-> c.deps]
    BY <2>1
  <2>4. c.place \in Nat /\ c.id \in Path /\ c.key \in Key /\ c.adopt \in BOOLEAN BY <2>1
  <2> HIDE DEF Accepted, ChildrenSound
  <2> QED BY <2>2, <2>3, <2>4 DEF Item
<1>7. \A c \in ToDo(cs) : ChildItem(t, c) /\ \A b \in ToDo(cs) : b.id = c.id => b = c
  BY DEF ToDo, ChildItem
<1> QED BY <1>1, <1>2, <1>3, <1>4, <1>6, <1>7

\* The governors have counted them.
LEMMA AcceptedFew ==
  ASSUME Types, Sane, NEW t \in Ids(tickets), NEW cs, Accepted(t, cs)
  PROVE  /\ tickets[t].depth < MaxGraphDepth
         /\ Cardinality(Kids(cs) \ Ids(tickets)) <= MaxFanOut
         /\ Cardinality(Tasks(tickets, tickets[t].goal)) + Cardinality(Kids(cs) \ Ids(tickets))
              <= MaxTicketsPerGoal
<1>1. IsFiniteSet(Kids(cs)) BY AcceptedItems
<1>2. IsFiniteSet(Kids(cs) \ Ids(tickets)) BY <1>1, FS_Difference
<1>3. Cardinality(Kids(cs) \ Ids(tickets)) \in Nat BY <1>2, FS_CardinalityType
<1>4. IsFiniteSet(Tasks(tickets, tickets[t].goal))
  <2>1. Tasks(tickets, tickets[t].goal) \subseteq Ids(tickets) BY DEF Tasks
  <2> QED BY <2>1, FS_Subset DEF Types
<1>5. Cardinality(Tasks(tickets, tickets[t].goal)) \in Nat BY <1>4, FS_CardinalityType
<1>6. tickets[t].depth \in Nat BY DEF Types, TicketRecord
<1>7. ~TooMuch(t, cs) BY DEF Accepted
<1>8. /\ ~(tickets[t].depth >= MaxGraphDepth)
      /\ ~(Cardinality(Kids(cs) \ Ids(tickets)) > MaxFanOut)
      /\ ~(Cardinality(Tasks(tickets, tickets[t].goal)) + Cardinality(Kids(cs) \ Ids(tickets))
             > MaxTicketsPerGoal)
  BY <1>7 DEF TooMuch, Kids
<1> QED BY <1>3, <1>5, <1>6, <1>8, GraphAssumption, GoalsAssumption

\* The dependencies there are, with theirs, are grounded.
Judged(cs) ==
  [n \in Ids(tickets) \cup DOMAIN NewEdges(cs) |->
     (IF n \in Ids(tickets) THEN tickets[n].deps ELSE {})
       \cup (IF n \in DOMAIN NewEdges(cs) THEN NewEdges(cs)[n] ELSE {})]

\* WouldCycle answered no, so that graph is grounded, and it has the children's edges.
LEMMA AcceptedGrounded ==
  ASSUME Types, Sane, NEW t \in Ids(tickets), NEW cs, Accepted(t, cs)
  PROVE  /\ Grounded(Judged(cs)) /\ DOMAIN Judged(cs) = Ids(tickets) \cup Kids(ToDo(cs))
         /\ \A c \in ToDo(cs) : c.deps \subseteq Judged(cs)[c.id]
<1>1. DOMAIN NewEdges(cs) = Kids(ToDo(cs)) BY DEF NewEdges, Kids, ToDo
<1>2. DOMAIN Judged(cs) = Ids(tickets) \cup Kids(ToDo(cs)) BY <1>1 DEF Judged
<1>3. ASSUME NEW c \in ToDo(cs) PROVE NewEdges(cs)[c.id] = c.deps
  <2> DEFINE b == CHOOSE x \in ToDo(cs) : x.id = c.id
  <2>1. b \in ToDo(cs) /\ b.id = c.id OBVIOUS
  <2>2. NewEdges(cs)[c.id] = b.deps BY DEF NewEdges, ToDo
  <2> HIDE DEF b
  <2>3. b = c BY <2>1, AcceptedItems
  <2> QED BY <2>2, <2>3
<1>4. ASSUME NEW n \in Kids(ToDo(cs)) PROVE IsFiniteSet(NewEdges(cs)[n])
  <2>1. PICK c \in ToDo(cs) : n = c.id BY DEF Kids
  <2>2. IsFiniteSet(c.deps) BY AcceptedItems DEF ChildItem
  <2> QED BY <1>3, <2>1, <2>2
<1>5. FiniteGraph(Judged(cs))
  <2>1. IsFiniteSet(Kids(ToDo(cs)))
    <3>1. Kids(ToDo(cs)) \subseteq Kids(cs) BY DEF Kids, ToDo
    <3> QED BY <3>1, AcceptedItems, FS_Subset
  <2>2. IsFiniteSet(DOMAIN Judged(cs))
    <3>1. IsFiniteSet(Ids(tickets)) BY DEF Types
    <3>2. IsFiniteSet(Ids(tickets) \cup Kids(ToDo(cs))) BY <2>1, <3>1, FS_Union
    <3> QED BY <1>2, <3>2
  <2>3. ASSUME NEW n \in DOMAIN Judged(cs) PROVE IsFiniteSet(Judged(cs)[n])
    <3> DEFINE A == IF n \in Ids(tickets) THEN tickets[n].deps ELSE {}
               B == IF n \in DOMAIN NewEdges(cs) THEN NewEdges(cs)[n] ELSE {}
    <3>1. IsFiniteSet(A) BY FS_EmptySet DEF Sane
    <3>2. IsFiniteSet(B) BY <1>1, <1>4, FS_EmptySet
    <3>3. Judged(cs)[n] = A \cup B BY <2>3 DEF Judged
    <3> HIDE DEF A, B
    <3>4. IsFiniteSet(A \cup B) BY <3>1, <3>2, FS_Union
    <3> QED BY <3>3, <3>4
  <2> QED BY <2>2, <2>3 DEF FiniteGraph
<1>6. ~HasCycle(Judged(cs)) BY DEF Accepted, WouldCycle, Judged
<1>7. Grounded(Judged(cs)) BY <1>5, <1>6, CycleFound
<1>8. ASSUME NEW c \in ToDo(cs) PROVE c.deps \subseteq Judged(cs)[c.id]
  <2>1. c.id \in Kids(ToDo(cs)) BY DEF Kids
  <2>2. Judged(cs)[c.id] = (IF c.id \in Ids(tickets) THEN tickets[c.id].deps ELSE {})
                            \cup NewEdges(cs)[c.id]
    BY <1>1, <2>1 DEF Judged
  <2> QED BY <1>3, <2>2
<1> QED BY <1>2, <1>7, <1>8

-----------------------------------------------------------------------------
(* Steps that move a ticket on *)

\* The ticket t stops splitting, and nothing but its status and its children changes.
Moved(t) ==
  /\ Ids(tickets') = Ids(tickets) /\ DOMAIN plan' = Ids(tickets)
  /\ \A u \in Ids(tickets) : u # t => tickets'[u] = tickets[u] /\ plan'[u] = plan[u]
  /\ tickets'[t].goal = tickets[t].goal /\ tickets'[t].deps = tickets[t].deps
  /\ tickets'[t].key = tickets[t].key /\ tickets'[t].depth = tickets[t].depth
  /\ plan'[t] = NoPlan
  /\ byKey' = byKey /\ lost' = lost /\ crashes' = crashes

\* It was split.
SplitUp(t) ==
  /\ tickets[t].status = "running" /\ plan[t].at = "emit" /\ plan[t].todo = {}
  /\ tickets'[t].status = "decomposed" /\ tickets'[t].children = plan[t].children

\* It was not.
MovedOn(t) ==
  /\ tickets[t].status # "decomposed" /\ plan[t].at # "emit"
  /\ tickets'[t].status # "decomposed" /\ tickets'[t].children = {}
  /\ tickets'[t].status = "running" => Cardinality(Running) < Concurrency

\* The records after such a step.
LEMMA RecordMoves ==
  ASSUME Types, NEW t \in Ids(tickets), NEW x \in TicketRecord,
         x.goal = tickets[t].goal, x.deps = tickets[t].deps, x.key = tickets[t].key,
         x.depth = tickets[t].depth,
         tickets' = [tickets EXCEPT ![t] = x], plan' = [plan EXCEPT ![t] = NoPlan],
         UNCHANGED <<byKey, opt, lost, crashes>>
  PROVE  Types' /\ Moved(t) /\ tickets'[t] = x
<1>1. NoPlan \in Plan BY DEF NoPlan, Plan
<1>2. tickets \in [Ids(tickets) -> TicketRecord] /\ plan \in [Ids(tickets) -> Plan] BY DEF Types
<1>3. /\ Ids(tickets') = Ids(tickets) /\ tickets' \in [Ids(tickets) -> TicketRecord]
      /\ tickets'[t] = x /\ \A u \in Ids(tickets) : u # t => tickets'[u] = tickets[u]
  BY <1>2 DEF Ids
<1>4. /\ DOMAIN plan' = Ids(tickets) /\ plan' \in [Ids(tickets) -> Plan]
      /\ plan'[t] = NoPlan /\ \A u \in Ids(tickets) : u # t => plan'[u] = plan[u]
  BY <1>1, <1>2
<1>5. Moved(t) BY <1>3, <1>4 DEF Moved
<1>6. \A u \in Ids(tickets) : tickets'[u].goal = tickets[u].goal BY <1>3
<1>7. Types'
  <2>1. \A g \in Goal : <<g>> \in Ids(tickets) /\ tickets[<<g>>].goal = g BY DEF Types
  <2>2. \A g \in Goal : <<g>> \in Ids(tickets') /\ tickets'[<<g>>].goal = g BY <1>3, <1>6, <2>1
  <2> QED BY <1>3, <1>4, <2>2 DEF Types
<1> QED BY <1>3, <1>5, <1>7

\* A ticket whose list was put away.
LEMMA NoPlanIs ==
  ASSUME Types, Planned, NEW t \in Ids(tickets), plan[t].at = "no"
  PROVE  plan = [plan EXCEPT ![t] = NoPlan]
<1>1. plan[t] \in Plan /\ plan \in [Ids(tickets) -> Plan] BY DEF Types
<1>2. plan[t].todo = {} /\ plan[t].children = {} BY DEF Planned
<1>3. plan[t] = NoPlan BY <1>1, <1>2 DEF Plan, NoPlan
<1> QED BY <1>1, <1>3

\* A ticket moves on to the status s.
LEMMA StatusMoves ==
  ASSUME Types, Sane, NEW t \in Ids(tickets), NEW s \in Status \ {"decomposed"},
         tickets' = [tickets EXCEPT ![t].status = s], plan' = [plan EXCEPT ![t] = NoPlan],
         UNCHANGED <<byKey, opt, lost, crashes>>, tickets[t].status # "decomposed",
         plan[t].at # "emit", s = "running" => Cardinality(Running) < Concurrency
  PROVE  Types' /\ Moved(t) /\ MovedOn(t) /\ tickets'[t].status = s
<1> DEFINE x == [tickets[t] EXCEPT !.status = s]
<1>1. tickets[t] \in TicketRecord BY DEF Types
<1>2. /\ x \in TicketRecord /\ x.goal = tickets[t].goal /\ x.deps = tickets[t].deps
      /\ x.key = tickets[t].key /\ x.depth = tickets[t].depth
      /\ x.status = s /\ x.children = tickets[t].children
  BY <1>1 DEF TicketRecord
<1>3. tickets' = [tickets EXCEPT ![t] = x] OBVIOUS
<1> HIDE DEF x
<1>4. Types' /\ Moved(t) /\ tickets'[t] = x BY <1>2, <1>3, RecordMoves
<1>5. tickets[t].children = {} BY DEF Sane
<1> QED BY <1>2, <1>4, <1>5 DEF MovedOn

\* Every step that moves a ticket on.
LEMMA Moves ==
  ASSUME Types, Sane, Planned, NEW t \in Ids(tickets),
         Promote(t) \/ Start(t) \/ Finish(t) \/ FailBlocked(t) \/ FailDecompose(t) \/ Decomposed(t)
  PROVE  Types' /\ Moved(t) /\ (SplitUp(t) \/ MovedOn(t))
<1>1. tickets[t].status # "running" => plan[t].at = "no"
  <2>1. plan[t].at # "no" => tickets[t].status = "running" BY DEF Planned
  <2> QED BY <2>1
<1> DEFINE Away == {"ready", "merged", "failed"}
<1>2. \A s \in Away : s \in Status \ {"decomposed"} /\ s # "running" BY DEF Status, Terminal
<1>3. ASSUME NEW s \in Away, tickets' = [tickets EXCEPT ![t].status = s],
             plan' = [plan EXCEPT ![t] = NoPlan], UNCHANGED <<byKey, opt, lost, crashes>>,
             tickets[t].status # "decomposed", plan[t].at # "emit"
      PROVE  Types' /\ Moved(t) /\ MovedOn(t)
  <2>1. s \in Status \ {"decomposed"} /\ s # "running" BY <1>2
  <2> QED BY <1>3, <2>1, StatusMoves
<1>4. CASE Promote(t)
  <2>1. /\ tickets' = [tickets EXCEPT ![t].status = "ready"] /\ plan' = plan
        /\ tickets[t].status = "pending" /\ UNCHANGED <<byKey, opt, lost, crashes>>
    BY <1>4 DEF Promote, Become, Replay
  <2>2. plan' = [plan EXCEPT ![t] = NoPlan] BY <1>1, <2>1, NoPlanIs
  <2>3. plan[t].at # "emit" BY <1>1, <2>1
  <2> QED BY <1>3, <2>1, <2>2, <2>3
<1>5. CASE Start(t)
  <2>1. /\ tickets' = [tickets EXCEPT ![t].status = "running"] /\ plan' = plan
        /\ tickets[t].status = "ready" /\ UNCHANGED <<byKey, opt, lost, crashes>>
        /\ Cardinality(Running) < Concurrency
    BY <1>5 DEF Start, Become, Replay, Running
  <2>2. plan' = [plan EXCEPT ![t] = NoPlan] BY <1>1, <2>1, NoPlanIs
  <2>3. plan[t].at # "emit" BY <1>1, <2>1
  <2> QED BY <2>1, <2>2, <2>3, StatusMoves DEF Status
<1>6. CASE Finish(t)
  <2>1. /\ plan' = plan /\ plan[t].at = "no" /\ UNCHANGED <<byKey, opt, lost, crashes>>
        /\ tickets[t].status = "running"
        /\ \/ tickets' = [tickets EXCEPT ![t].status = "merged"]
           \/ tickets' = [tickets EXCEPT ![t].status = "failed"]
    BY <1>6 DEF Finish, Become, Replay, Splitting
  <2>2. plan' = [plan EXCEPT ![t] = NoPlan] BY <2>1, NoPlanIs
  <2> QED BY <1>3, <2>1, <2>2
<1>7. CASE FailBlocked(t)
  <2>1. /\ tickets' = [tickets EXCEPT ![t].status = "failed"] /\ plan' = plan
        /\ tickets[t].status # "running" /\ tickets[t].status # "decomposed"
        /\ UNCHANGED <<byKey, opt, lost, crashes>>
    BY <1>7 DEF FailBlocked, Become, Replay, Blocked, Terminal
  <2>2. plan' = [plan EXCEPT ![t] = NoPlan] BY <1>1, <2>1, NoPlanIs
  <2>3. plan[t].at # "emit" BY <1>1, <2>1
  <2> QED BY <1>3, <2>1, <2>2, <2>3
<1>8. CASE FailDecompose(t)
  <2>1. /\ tickets' = [tickets EXCEPT ![t].status = "failed"] /\ plan' = [plan EXCEPT ![t] = NoPlan]
        /\ plan[t].at = "fail" /\ UNCHANGED <<byKey, opt, lost, crashes>>
    BY <1>8 DEF FailDecompose, Become, Replay
  <2>2. tickets[t].status = "running" BY <2>1 DEF Planned
  <2> QED BY <1>3, <2>1, <2>2
<1>9. CASE Decomposed(t)
  <2> DEFINE x == [tickets[t] EXCEPT !.status = "decomposed", !.children = plan[t].children]
  <2>1. /\ tickets' = [tickets EXCEPT ![t].status = "decomposed", ![t].children = plan[t].children]
        /\ plan' = [plan EXCEPT ![t] = NoPlan] /\ plan[t].at = "emit" /\ plan[t].todo = {}
        /\ UNCHANGED <<byKey, opt, lost, crashes>>
    BY <1>9 DEF Decomposed, Replay
  <2>2. tickets[t] \in TicketRecord /\ tickets \in [Ids(tickets) -> TicketRecord] /\ plan[t] \in Plan
    BY DEF Types
  <2>3. plan[t].children \in SUBSET Path BY <2>2 DEF Plan
  <2>4. "decomposed" \in Status BY DEF Status, Terminal
  <2>5. /\ x \in TicketRecord /\ x.goal = tickets[t].goal /\ x.deps = tickets[t].deps
        /\ x.key = tickets[t].key /\ x.depth = tickets[t].depth
        /\ x.status = "decomposed" /\ x.children = plan[t].children
    BY <2>2, <2>3, <2>4 DEF TicketRecord
  <2>6. tickets' = [tickets EXCEPT ![t] = x] BY <2>1, <2>2
  <2> HIDE DEF x
  <2>7. Types' /\ Moved(t) /\ tickets'[t] = x BY <2>1, <2>5, <2>6, RecordMoves
  <2>8. tickets[t].status = "running" BY <2>1 DEF Planned
  <2>9. SplitUp(t) BY <2>1, <2>5, <2>7, <2>8 DEF SplitUp
  <2> QED BY <2>7, <2>9
<1> QED BY <1>4, <1>5, <1>6, <1>7, <1>8, <1>9

\* What a list is going to add is finite, and so is a goal's load.
LEMMA AddingFinite ==
  ASSUME Types, Planned
  PROVE  /\ \A t \in Ids(tickets) : IsFiniteSet(Adding(t))
         /\ \A g \in Goal : IsFiniteSet(Tasks(tickets, g)) /\ IsFiniteSet(Load(g))
         /\ IsFiniteSet(Running)
<1>1. ASSUME NEW t \in Ids(tickets) PROVE IsFiniteSet(Adding(t))
  <2> DEFINE T == {c.id : c \in plan[t].todo}
             S == plan[t].todo
             f == [c \in S |-> c.id]
  <2>1. \A y \in T : \E c \in S : f[c] = y OBVIOUS
  <2>2. IsFiniteSet(S) BY DEF Planned
  <2>3. Adding(t) \subseteq T BY DEF Adding
  <2> HIDE DEF f, T, S
  <2>4. IsFiniteSet(T) BY <2>1, <2>2, ImageFinite
  <2> QED BY <2>3, <2>4, FS_Subset
<1>2. IsFiniteSet(Ids(tickets)) BY DEF Types
<1>3. ASSUME NEW g \in Goal PROVE IsFiniteSet(Tasks(tickets, g)) /\ IsFiniteSet(Load(g))
  <2> DEFINE W == Works(g)
             A == [t \in W |-> Adding(t)]
             P == UNION {A[t] : t \in W}
  <2>1. Tasks(tickets, g) \subseteq Ids(tickets) /\ W \subseteq Ids(tickets) BY DEF Tasks, Works
  <2>2. IsFiniteSet(Tasks(tickets, g)) /\ IsFiniteSet(W) BY <1>2, <2>1, FS_Subset
  <2>3. \A t \in W : IsFiniteSet(A[t]) BY <1>1, <2>1
  <2>4. Load(g) = Tasks(tickets, g) \cup P BY DEF Load
  <2> HIDE DEF W, A
  <2>5. IsFiniteSet(P) BY <2>2, <2>3, UnionFinite
  <2> HIDE DEF P
  <2>6. IsFiniteSet(Tasks(tickets, g) \cup P) BY <2>2, <2>5, FS_Union
  <2> QED BY <2>2, <2>4, <2>6
<1>4. IsFiniteSet(Running)
  <2>1. Running \subseteq Ids(tickets) BY DEF Running
  <2> QED BY <1>2, <2>1, FS_Subset
<1> QED BY <1>1, <1>3, <1>4

\* A step that adds to no load and to no list.
LEMMA FewKept ==
  ASSUME Types, Planned, Few, Cardinality(Running') <= Concurrency,
         \A t \in Ids(tickets') : Cardinality(Adding(t)') <= MaxFanOut,
         \A g \in Goal : Load(g)' \subseteq Load(g)
  PROVE  Few'
<1>1. ASSUME NEW g \in Goal
      PROVE  Cardinality(Load(g)') <= MaxTicketsPerGoal + (Concurrency - 1) * MaxFanOut
  <2>1. IsFiniteSet(Load(g)) /\ Load(g)' \subseteq Load(g) BY AddingFinite
  <2>2. IsFiniteSet(Load(g)') /\ Cardinality(Load(g)') <= Cardinality(Load(g)) BY <2>1, FS_Subset
  <2>3. Cardinality(Load(g)) \in Nat /\ Cardinality(Load(g)') \in Nat
    BY <2>1, <2>2, FS_CardinalityType
  <2>4. Cardinality(Load(g)) <= MaxTicketsPerGoal + (Concurrency - 1) * MaxFanOut BY DEF Few
  <2> DEFINE limit == MaxTicketsPerGoal + (Concurrency - 1) * MaxFanOut
  <2>5. limit \in Int BY GraphAssumption, GoalsAssumption
  <2> HIDE DEF limit
  <2>6. Cardinality(Load(g)) <= limit BY <2>4 DEF limit
  <2>7. Cardinality(Load(g)') <= limit BY <2>2, <2>3, <2>5, <2>6
  <2> QED BY <2>7 DEF limit
<1>2. Cardinality(Running)' = Cardinality(Running') OBVIOUS
<1>3. \A t \in Ids(tickets') : Cardinality(Adding(t))' = Cardinality(Adding(t)') OBVIOUS
<1>4. \A g \in Goal : Cardinality(Load(g))' = Cardinality(Load(g)') OBVIOUS
<1> QED BY <1>1, <1>2, <1>3, <1>4 DEF Few

\* Until a crash, a graph with no more edges than before has no cycle.
LEMMA GroundedKept ==
  ASSUME Grounded(All), DOMAIN All' \subseteq DOMAIN All,
         \A p \in DOMAIN All' : All'[p] \subseteq All[p]
  PROVE  Grounded(All')
BY GroundedPart

\* The records stay sane, and the lists of the others as they are.
LEMMA MovedSane ==
  ASSUME Types, Sane, Planned, NEW t \in Ids(tickets), Moved(t), SplitUp(t) \/ MovedOn(t)
  PROVE  Sane' /\ Planned'
<1>1. Ids(tickets)' = Ids(tickets) BY DEF Moved, Ids
<1>2. ASSUME NEW u \in Ids(tickets)
      PROVE  /\ IsFiniteSet(tickets'[u].deps) /\ IsFiniteSet(tickets'[u].children)
             /\ tickets'[u].depth <= MaxGraphDepth
             /\ tickets'[u].status = "decomposed" \/ tickets'[u].children = {}
             /\ tickets'[u].key = NoKey
                  \/ (tickets'[u].key \in DOMAIN byKey' /\ byKey'[tickets'[u].key] = u)
  <2>1. byKey' = byKey BY DEF Moved
  <2>2. CASE u # t
    <3>1. tickets'[u] = tickets[u] BY <2>2 DEF Moved
    <3> QED BY <2>1, <3>1 DEF Sane
  <2>3. CASE u = t
    <3>1. /\ tickets'[t].deps = tickets[t].deps /\ tickets'[t].key = tickets[t].key
          /\ tickets'[t].depth = tickets[t].depth
      BY DEF Moved
    <3>2. IsFiniteSet(tickets'[t].children)
          /\ (tickets'[t].status = "decomposed" \/ tickets'[t].children = {})
      <4>1. CASE SplitUp(t) BY <4>1 DEF SplitUp, Planned
      <4>2. CASE MovedOn(t) BY <4>2, FS_EmptySet DEF MovedOn
      <4> QED BY <4>1, <4>2
    <3> QED BY <2>1, <2>3, <3>1, <3>2 DEF Sane
  <2> QED BY <2>2, <2>3
<1>3. Sane' BY <1>1, <1>2 DEF Sane
<1>4. ASSUME NEW u \in Ids(tickets)
      PROVE  /\ plan'[u].at # "no" => tickets'[u].status = "running"
             /\ plan'[u].at # "emit" => plan'[u].todo = {} /\ plan'[u].children = {}
             /\ plan'[u].at = "emit" => tickets'[u].depth < MaxGraphDepth
             /\ IsFiniteSet(plan'[u].todo) /\ IsFiniteSet(plan'[u].children)
             /\ \A c \in plan'[u].todo :
                  ChildItem(u, c) /\ \A b \in plan'[u].todo : b.id = c.id => b = c
  <2>1. CASE u # t
    <3>1. tickets'[u] = tickets[u] /\ plan'[u] = plan[u] BY <2>1 DEF Moved
    <3> QED BY <3>1 DEF Planned
  <2>2. CASE u = t
    <3>1. plan'[t] = NoPlan BY DEF Moved
    <3> QED BY <2>2, <3>1, FS_EmptySet DEF NoPlan
  <2> QED BY <2>1, <2>2
<1>5. Planned' BY <1>1, <1>4 DEF Planned, ChildItem
<1> QED BY <1>3, <1>5

\* What the lists of the others are going to add stays the same.
LEMMA MovedFew ==
  ASSUME Types, Sane, Planned, Few, NEW t \in Ids(tickets), Moved(t), SplitUp(t) \/ MovedOn(t)
  PROVE  Few'
<1>1. Ids(tickets') = Ids(tickets) BY DEF Moved
<1>2. \A u \in Ids(tickets) : u # t => Adding(u)' = Adding(u) BY <1>1 DEF Moved, Adding
<1>3. Adding(t)' = {} BY DEF Moved, Adding, NoPlan
<1>4. \A u \in Ids(tickets') : Cardinality(Adding(u)') <= MaxFanOut
  <2> TAKE u \in Ids(tickets')
  <2>1. CASE u = t BY <1>3, <2>1, FS_EmptySet, GraphAssumption, GoalsAssumption
  <2>2. CASE u # t BY <1>1, <1>2, <2>2 DEF Few
  <2> QED BY <2>1, <2>2
<1>5. ASSUME NEW g \in Goal PROVE Load(g)' \subseteq Load(g)
  <2>1. \A u \in Ids(tickets) : tickets'[u].goal = tickets[u].goal BY DEF Moved
  <2>2. Tasks(tickets, g)' = Tasks(tickets, g) BY <1>1, <2>1 DEF Tasks, Ids
  <2>3. plan'[t].at # "emit" BY DEF Moved, NoPlan
  <2>4. \A u \in Ids(tickets) : u # t => plan'[u].at = plan[u].at BY DEF Moved
  <2>5. \A u \in Works(g)' : u \in Works(g) /\ u # t BY <2>2, <2>3, <2>4 DEF Works, Tasks
  <2>6. \A u \in Works(g) : u \in Ids(tickets) BY DEF Works, Tasks
  <2>7. \A u \in Works(g)' : u \in Works(g) /\ Adding(u)' \subseteq Adding(u) BY <1>2, <2>5, <2>6
  <2>8. ASSUME NEW p \in Load(g)' PROVE p \in Load(g)
    <3>1. CASE p \in Tasks(tickets, g)' BY <2>2, <3>1 DEF Load
    <3>2. CASE \E u \in Works(g)' : p \in Adding(u)'
      <4>1. PICK u \in Works(g)' : p \in Adding(u)' BY <3>2
      <4>2. u \in Works(g) /\ p \in Adding(u) BY <2>7, <4>1
      <4> QED BY <4>2 DEF Load
    <3> QED BY <2>8, <3>1, <3>2 DEF Load
  <2> QED BY <2>8
<1>6. Cardinality(Running') <= Concurrency
  <2>1. \A u \in Ids(tickets) : u # t => tickets'[u].status = tickets[u].status BY DEF Moved
  <2>2. Running' \subseteq Running \cup {t} BY <1>1, <2>1 DEF Running, Ids
  <2>3. IsFiniteSet(Running) BY AddingFinite
  <2>4. Cardinality(Running) \in Nat /\ Cardinality(Running) <= Concurrency
    BY <2>3, FS_CardinalityType DEF Few
  <2>5. CASE tickets'[t].status = "running"
    <3>1. tickets'[t].status # "decomposed" BY <2>5
    <3>2. Cardinality(Running) < Concurrency BY <2>5, <3>1 DEF SplitUp, MovedOn
    <3>3. IsFiniteSet(Running \cup {t}) /\ Cardinality(Running \cup {t}) \in Nat
          /\ Cardinality(Running \cup {t}) <= Cardinality(Running) + 1
      <4>1. IsFiniteSet(Running \cup {t}) BY <2>3, FS_AddElement
      <4>2. Cardinality(Running \cup {t}) = Cardinality(Running)
            \/ Cardinality(Running \cup {t}) = Cardinality(Running) + 1
        BY <2>3, FS_AddElement
      <4> QED BY <2>4, <4>1, <4>2
    <3>4. IsFiniteSet(Running') /\ Cardinality(Running') <= Cardinality(Running \cup {t})
      BY <2>2, <3>3, FS_Subset
    <3>5. Cardinality(Running') \in Nat BY <3>4, FS_CardinalityType
    <3> QED BY <2>4, <3>2, <3>3, <3>4, <3>5, GraphAssumption, GoalsAssumption
  <2>6. CASE tickets'[t].status # "running"
    <3>1. Running' \subseteq Running BY <2>2, <2>6 DEF Running, Ids
    <3>2. IsFiniteSet(Running') /\ Cardinality(Running') <= Cardinality(Running)
      BY <2>3, <3>1, FS_Subset
    <3>3. Cardinality(Running') \in Nat BY <3>2, FS_CardinalityType
    <3> QED BY <2>4, <3>2, <3>3, GraphAssumption, GoalsAssumption
  <2> QED BY <2>5, <2>6
<1> QED BY <1>4, <1>5, <1>6, FewKept

\* What is to come are the ids on the lists, and All is the dependencies with theirs.
ListsAre ==
  /\ \A p : p \in Coming <=> \E t \in Ids(tickets) : \E c \in plan[t].todo : c.id = p
  /\ \A p : \A c : c \in Items(p) <=> c.id = p /\ \E t \in Ids(tickets) : c \in plan[t].todo
  /\ DOMAIN All = Ids(tickets) \cup Coming
  /\ \A p \in DOMAIN All : \A d : d \in All[p] <=>
       (p \in Ids(tickets) /\ d \in tickets[p].deps) \/ \E c \in Items(p) : d \in c.deps

\* The definitions, read element by element.
LEMMA ComingIs == Types => ListsAre
<1> SUFFICES ASSUME Types PROVE ListsAre OBVIOUS
<1>1. DOMAIN plan = Ids(tickets) BY DEF Types
<1>2. \A p : p \in Coming <=> \E t \in Ids(tickets) : \E c \in plan[t].todo : c.id = p
  BY <1>1 DEF Coming
<1>3. \A p : \A c : c \in Items(p) <=> c.id = p /\ \E t \in Ids(tickets) : c \in plan[t].todo
  BY <1>1 DEF Items
<1>4. DOMAIN All = Ids(tickets) \cup Coming BY DEF All
<1>5. ASSUME NEW p \in DOMAIN All, NEW d
      PROVE  d \in All[p] <=>
               (p \in Ids(tickets) /\ d \in tickets[p].deps) \/ \E c \in Items(p) : d \in c.deps
  <2> DEFINE A == IF p \in Ids(tickets) THEN tickets[p].deps ELSE {}
             B == UNION {c.deps : c \in Items(p)}
  <2>1. All[p] = A \cup B BY <1>4, <1>5 DEF All
  <2>2. d \in A <=> p \in Ids(tickets) /\ d \in tickets[p].deps OBVIOUS
  <2>3. d \in B <=> \E c \in Items(p) : d \in c.deps OBVIOUS
  <2> HIDE DEF A, B
  <2> QED BY <2>1, <2>2, <2>3
<1> QED BY <1>2, <1>3, <1>4, <1>5 DEF ListsAre

\* A step after which the lists have no more items, and the tickets' dependencies are
\* the same, or those of an item that was on a list.
LEMMA ListsShrink ==
  ASSUME Types, Types', Grounded(All),
         \A t \in Ids(tickets') : \A c \in plan'[t].todo :
           t \in Ids(tickets) /\ c \in plan[t].todo,
         \A t \in Ids(tickets') :
           \/ t \in Ids(tickets) /\ tickets'[t].deps = tickets[t].deps
           \/ \E c \in Items(t) : tickets'[t].deps = c.deps
  PROVE  Coming' \subseteq Coming /\ Grounded(All')
<1> DEFINE Ids2 == Ids(tickets')
<1>1. /\ \A p : p \in Coming' <=> \E t \in Ids2 : \E c \in plan'[t].todo : c.id = p
      /\ \A p : \A c : c \in Items(p)' <=> c.id = p /\ \E t \in Ids2 : c \in plan'[t].todo
      /\ DOMAIN All' = Ids2 \cup Coming'
      /\ \A p \in DOMAIN All' : \A d : d \in All'[p] <=>
           (p \in Ids2 /\ d \in tickets'[p].deps) \/ \E c \in Items(p)' : d \in c.deps
  <2>1. (Types => ListsAre)' BY ComingIs, PTL
  <2> QED BY <2>1 DEF ListsAre, Ids2
<1>2. \A p : p \in Coming <=> \E t \in Ids(tickets) : \E c \in plan[t].todo : c.id = p
  BY ComingIs DEF ListsAre
<1>3. \A p : \A c : c \in Items(p) <=> c.id = p /\ \E t \in Ids(tickets) : c \in plan[t].todo
  BY ComingIs DEF ListsAre
<1>4. /\ DOMAIN All = Ids(tickets) \cup Coming
      /\ \A p \in DOMAIN All : \A d : d \in All[p] <=>
           (p \in Ids(tickets) /\ d \in tickets[p].deps) \/ \E c \in Items(p) : d \in c.deps
  BY ComingIs DEF ListsAre
<1> HIDE DEF Ids2
<1>5. Coming' \subseteq Coming BY <1>1, <1>2 DEF Ids2
<1>6. \A p : \A c \in Items(p)' : c \in Items(p) BY <1>1, <1>3 DEF Ids2
<1>7. \A p : \A c \in Items(p) : p \in Coming BY <1>2, <1>3
<1>8. \A t \in Ids2 : \/ t \in Ids(tickets) /\ tickets'[t].deps = tickets[t].deps
                      \/ \E c \in Items(t) : tickets'[t].deps = c.deps
  BY DEF Ids2
<1>9. DOMAIN All' \subseteq DOMAIN All BY <1>1, <1>4, <1>5, <1>7, <1>8
<1>10. ASSUME NEW p \in DOMAIN All' PROVE All'[p] \subseteq All[p]
  <2> SUFFICES ASSUME NEW d \in All'[p] PROVE d \in All[p] OBVIOUS
  <2>1. p \in DOMAIN All BY <1>9
  <2>2. CASE p \in Ids2 /\ d \in tickets'[p].deps BY <1>4, <1>8, <2>1, <2>2
  <2>3. ASSUME NEW c \in Items(p)', d \in c.deps PROVE d \in All[p] BY <1>4, <1>6, <2>1, <2>3
  <2> QED BY <1>1, <2>2, <2>3
<1> QED BY <1>5, <1>9, <1>10, GroundedKept

\* The primes of the graph that is to be.
LEMMA GroundedPrime == Grounded(All)' <=> Grounded(All')
BY DEF Grounded

\* A ticket without children is within the limit.
LEMMA OwnNone == ASSUME NEW t PROVE Cardinality(Own(t, {})) <= MaxFanOut
<1>1. Own(t, {}) = {} BY DEF Own
<1>2. Cardinality(Own(t, {})) = 0 BY <1>1, FS_EmptySet
<1> QED BY <1>2, GraphAssumption, GoalsAssumption

\* Until a crash: the ticket that moves on names what it or its list named.
LEMMA MovedUncrashed ==
  ASSUME Types, Types', Sane, Planned, Uncrashed, NEW t \in Ids(tickets), Moved(t),
         SplitUp(t) \/ MovedOn(t)
  PROVE  Uncrashed'
<1> SUFFICES ASSUME crashes' = 0 PROVE Rooted' /\ Named' /\ Once' /\ Grounded(All')
  BY GroundedPrime DEF Uncrashed
<1>1. crashes = 0 BY DEF Moved
<1>2. Rooted /\ Named /\ Once /\ Grounded(All) BY <1>1 DEF Uncrashed
<1>3. Ids(tickets') = Ids(tickets) /\ lost' = lost BY DEF Moved
<1>4. \A u \in Ids(tickets) : u # t => tickets'[u] = tickets[u] /\ plan'[u] = plan[u] BY DEF Moved
<1>5. plan'[t].todo = {} /\ plan'[t].children = {} BY DEF Moved, NoPlan
<1>6. plan[t].todo = {} BY DEF SplitUp, MovedOn, Planned
<1>7. \A u \in Ids(tickets) : plan'[u].todo = plan[u].todo BY <1>4, <1>5, <1>6
<1>8. \A u \in Ids(tickets) : tickets'[u].deps = tickets[u].deps BY <1>4 DEF Moved
<1>9. Coming' \subseteq Coming /\ Grounded(All') BY <1>2, <1>3, <1>7, <1>8, ListsShrink
<1>10. Coming' = Coming
  <2>1. DOMAIN plan = Ids(tickets) /\ DOMAIN plan' = Ids(tickets) BY DEF Types, Moved
  <2> QED BY <1>7, <2>1 DEF Coming
<1>11. Names' = Names BY <1>3, <1>10 DEF Names, Ids
<1>12. ASSUME NEW p, Parent(p) PROVE Parent(p)'
  <2>1. p \in Ids(tickets) /\ (tickets[p].status = "decomposed" \/ plan[p].at = "emit")
    BY <1>12 DEF Parent
  <2>2. CASE p # t BY <1>3, <1>4, <2>1, <2>2 DEF Parent, Ids
  <2>3. CASE p = t
    <3>1. SplitUp(t) BY <2>1, <2>3 DEF MovedOn
    <3> QED BY <1>3, <2>1, <2>3, <3>1 DEF SplitUp, Parent, Ids
  <2> QED BY <2>2, <2>3
<1>13. Rooted' BY <1>2, <1>11, <1>12 DEF Rooted
<1>14. tickets'[t].children = {} \/ tickets'[t].children = plan[t].children
  BY DEF SplitUp, MovedOn
<1>15. ASSUME NEW u \in Ids(tickets)
       PROVE  /\ tickets'[u].deps \subseteq Names /\ tickets'[u].children \subseteq Names
              /\ plan'[u].children \subseteq Names
              /\ \A c \in plan'[u].todo : c.id \notin Ids(tickets) /\ c.deps \subseteq Names
  <2>1. CASE u # t
    <3>1. tickets'[u] = tickets[u] /\ plan'[u] = plan[u] BY <1>4, <2>1
    <3> QED BY <1>2, <3>1 DEF Named
  <2>2. CASE u = t BY <1>2, <1>5, <1>8, <1>14, <2>2 DEF Named
  <2> QED BY <2>1, <2>2
<1>16. Named' BY <1>3, <1>11, <1>15 DEF Named, Ids
<1>17. ASSUME NEW u \in Ids(tickets)
       PROVE  /\ Cardinality(Own(u, tickets'[u].children)) <= MaxFanOut
              /\ Cardinality(Own(u, plan'[u].children)) <= MaxFanOut
  <2>1. CASE u # t
    <3>1. tickets'[u] = tickets[u] /\ plan'[u] = plan[u] BY <1>4, <2>1
    <3> QED BY <1>2, <3>1 DEF Once
  <2>2. CASE u = t
    <3>1. Cardinality(Own(t, plan[t].children)) <= MaxFanOut BY <1>2 DEF Once
    <3>2. Cardinality(Own(t, {})) <= MaxFanOut BY OwnNone
    <3> QED BY <1>5, <1>14, <2>2, <3>1, <3>2
  <2> QED BY <2>1, <2>2
<1>18. Once' BY <1>3, <1>17 DEF Once, Ids, Own
<1> QED BY <1>9, <1>13, <1>16, <1>18

-----------------------------------------------------------------------------
(* The split that is judged *)

\* The list that decompose makes of an accepted answer.
ListOf(cs) == [todo |-> ToDo(cs), children |-> Kids(cs), at |-> "emit"]

\* t gets the list r, and nothing else changes.
Listed(t, r) ==
  /\ tickets' = tickets /\ tickets[t].status = "running" /\ plan[t].at = "no"
  /\ plan' = [plan EXCEPT ![t] = r]
  /\ UNCHANGED <<byKey, opt, lost, crashes>>

\* Split gives the ticket the list of a failure, or that of the children that were accepted.
LEMMA SplitIs ==
  ASSUME Types, NEW t \in Ids(tickets), NEW subs \in opt.says[tickets[t].goal], Split(t, subs)
  PROVE  \/ Listed(t, [NoPlan EXCEPT !.at = "fail"])
         \/ \E cs : Accepted(t, cs) /\ Listed(t, ListOf(cs))
<1>1. CASE Rejected(t, subs)
  <2>1. Listed(t, [NoPlan EXCEPT !.at = "fail"]) BY <1>1 DEF Split, Splitting, Listed
  <2> QED BY <2>1
<1>2. CASE ~Rejected(t, subs)
  <2> DEFINE cs == ChildrenOf(t, subs)
  <2>1. Accepted(t, cs) BY <1>2, AnswerAccepted
  <2>2. Listed(t, ListOf(cs)) BY <1>2 DEF Split, Splitting, Listed, ListOf, ToDo, Kids
  <2> HIDE DEF cs
  <2> QED BY <2>1, <2>2
<1> QED BY <1>1, <1>2

\* What holds of every list.
LEMMA ListedSane ==
  ASSUME Types, Sane, Planned, NEW t \in Ids(tickets), NEW r \in Plan, Listed(t, r),
         IsFiniteSet(r.todo), IsFiniteSet(r.children),
         r.at = "emit" => tickets[t].depth < MaxGraphDepth,
         r.at # "emit" => r.todo = {} /\ r.children = {},
         \A c \in r.todo : ChildItem(t, c) /\ \A b \in r.todo : b.id = c.id => b = c
  PROVE  Types' /\ Sane' /\ Planned'
<1>1. tickets' = tickets /\ plan' = [plan EXCEPT ![t] = r] /\ UNCHANGED <<byKey, opt, lost, crashes>>
  BY DEF Listed
<1>2. plan \in [Ids(tickets) -> Plan] BY DEF Types
<1>3. plan'[t] = r /\ \A u \in Ids(tickets) : u # t => plan'[u] = plan[u] BY <1>1, <1>2
<1>4. Types' BY <1>1, <1>2 DEF Types, Ids
<1>5. Sane' BY <1>1 DEF Sane, Ids
<1>6. ASSUME NEW u \in Ids(tickets)
      PROVE  /\ plan'[u].at # "no" => tickets[u].status = "running"
             /\ plan'[u].at # "emit" => plan'[u].todo = {} /\ plan'[u].children = {}
             /\ plan'[u].at = "emit" => tickets[u].depth < MaxGraphDepth
             /\ IsFiniteSet(plan'[u].todo) /\ IsFiniteSet(plan'[u].children)
             /\ \A c \in plan'[u].todo :
                  ChildItem(u, c) /\ \A b \in plan'[u].todo : b.id = c.id => b = c
  <2>1. CASE u # t BY <1>3, <2>1 DEF Planned
  <2>2. CASE u = t BY <1>3, <2>2 DEF Listed
  <2> QED BY <2>1, <2>2
<1>7. Planned' BY <1>1, <1>6 DEF Planned, ChildItem, Ids
<1> QED BY <1>4, <1>5, <1>7

\* The list of a failure is empty.
LEMMA RejectedSane ==
  ASSUME Types, Sane, Planned, NEW t \in Ids(tickets), Listed(t, [NoPlan EXCEPT !.at = "fail"])
  PROVE  Types' /\ Sane' /\ Planned'
<1> DEFINE r == [NoPlan EXCEPT !.at = "fail"]
<1>1. r \in Plan /\ r.todo = {} /\ r.children = {} /\ r.at = "fail" BY DEF NoPlan, Plan
<1>2. Listed(t, r) OBVIOUS
<1> HIDE DEF r
<1>3. IsFiniteSet(r.todo) /\ IsFiniteSet(r.children) BY <1>1, FS_EmptySet
<1> QED BY <1>1, <1>2, <1>3, ListedSane

\* The list of an accepted answer has what its items need.
LEMMA AcceptedSane ==
  ASSUME Types, Sane, Planned, NEW t \in Ids(tickets), NEW cs, Accepted(t, cs),
         Listed(t, ListOf(cs))
  PROVE  Types' /\ Sane' /\ Planned'
<1> DEFINE r == ListOf(cs)
<1>1. /\ IsFiniteSet(ToDo(cs)) /\ IsFiniteSet(Kids(cs)) /\ Kids(cs) \subseteq Path
      /\ ToDo(cs) \in SUBSET Item
      /\ \A c \in ToDo(cs) : ChildItem(t, c) /\ \A b \in ToDo(cs) : b.id = c.id => b = c
  BY AcceptedItems
<1>2. r.todo = ToDo(cs) /\ r.children = Kids(cs) /\ r.at = "emit" BY DEF ListOf
<1>3. r \in Plan BY <1>1 DEF ListOf, Plan
<1>4. tickets[t].depth < MaxGraphDepth BY AcceptedFew
<1> HIDE DEF r
<1>5. Listed(t, r) BY DEF r
<1> QED BY <1>1, <1>2, <1>3, <1>4, <1>5, ListedSane

\* A rejected answer adds nothing.
LEMMA RejectedFew ==
  ASSUME Types, Sane, Planned, Few, NEW t \in Ids(tickets),
         Listed(t, [NoPlan EXCEPT !.at = "fail"])
  PROVE  Few'
<1>1. tickets' = tickets /\ plan' = [plan EXCEPT ![t] = [NoPlan EXCEPT !.at = "fail"]] BY DEF Listed
<1>2. plan \in [Ids(tickets) -> Plan] BY DEF Types
<1>3. /\ plan'[t].todo = {} /\ plan'[t].at = "fail"
      /\ \A u \in Ids(tickets) : u # t => plan'[u] = plan[u]
  BY <1>1, <1>2 DEF NoPlan
<1>4. Adding(t)' = {} /\ \A u \in Ids(tickets) : u # t => Adding(u)' = Adding(u)
  BY <1>1, <1>3 DEF Adding, Ids
<1>5. \A u \in Ids(tickets') : Cardinality(Adding(u)') <= MaxFanOut
  <2> TAKE u \in Ids(tickets')
  <2>1. CASE u = t BY <1>4, <2>1, FS_EmptySet, GraphAssumption, GoalsAssumption
  <2>2. CASE u # t BY <1>1, <1>4, <2>2 DEF Few, Ids
  <2> QED BY <2>1, <2>2
<1>6. ASSUME NEW g \in Goal PROVE Load(g)' \subseteq Load(g)
  <2>1. Tasks(tickets, g)' = Tasks(tickets, g) BY <1>1
  <2>2. \A u \in Works(g)' : u \in Works(g) /\ u # t /\ u \in Ids(tickets)
    BY <1>3, <2>1 DEF Works, Tasks
  <2>3. \A u \in Works(g)' : u \in Works(g) /\ Adding(u)' = Adding(u) BY <1>4, <2>2
  <2> SUFFICES ASSUME NEW p \in Load(g)' PROVE p \in Load(g) OBVIOUS
  <2>4. CASE p \in Tasks(tickets, g)' BY <2>1, <2>4 DEF Load
  <2>5. CASE \E u \in Works(g)' : p \in Adding(u)' BY <2>3, <2>5 DEF Load
  <2> QED BY <2>4, <2>5 DEF Load
<1>7. Running' = Running BY <1>1 DEF Running
<1>8. Cardinality(Running') <= Concurrency BY <1>7 DEF Few
<1> QED BY <1>5, <1>6, <1>8, FewKept

\* What the splits beside that of t are going to add.
LEMMA OtherWorks ==
  ASSUME Types, Planned, Few, NEW t \in Ids(tickets), tickets[t].status = "running",
         plan[t].at = "no", NEW g \in Goal
  PROVE  LET P == UNION {Adding(u) : u \in Works(g)}
         IN IsFiniteSet(P) /\ Cardinality(P) <= (Concurrency - 1) * MaxFanOut
<1> DEFINE W == Works(g)
           A == [u \in W |-> Adding(u)]
           P == UNION {A[u] : u \in W}
           R == Running \ {t}
<1>1. W \subseteq R BY DEF Works, Running, Planned, Tasks
<1>2. IsFiniteSet(R) /\ Cardinality(R) = Cardinality(Running) - 1
  <2>1. IsFiniteSet(Running) /\ t \in Running BY AddingFinite DEF Running
  <2> QED BY <2>1, FS_RemoveElement
<1>3. Cardinality(Running) <= Concurrency BY DEF Few
<1>4. IsFiniteSet(W) /\ Cardinality(W) <= Cardinality(R) BY <1>1, <1>2, FS_Subset
<1>5. Cardinality(W) \in Nat /\ Cardinality(R) \in Nat BY <1>2, <1>4, FS_CardinalityType
<1>6. \A u \in W : IsFiniteSet(A[u]) /\ Cardinality(A[u]) <= MaxFanOut
  <2>1. W \subseteq Ids(tickets) BY DEF Works, Tasks
  <2> QED BY <2>1, AddingFinite DEF Few
<1>7. P = UNION {Adding(u) : u \in Works(g)} OBVIOUS
<1> HIDE DEF W, A, P, R
<1>8. MaxFanOut \in Nat /\ Concurrency \in Nat BY GraphAssumption, GoalsAssumption
<1>9. IsFiniteSet(P) /\ Cardinality(P) <= Cardinality(W) * MaxFanOut
  BY <1>4, <1>6, <1>8, UnionFinite DEF P
<1>10. Cardinality(P) \in Nat BY <1>9, FS_CardinalityType
<1> DEFINE w == Cardinality(W)
           p == Cardinality(P)
<1>11. w \in Nat /\ p \in Nat /\ p <= w * MaxFanOut BY <1>5, <1>9, <1>10
<1> HIDE DEF w, p
<1>12. Cardinality(Running) \in Int
  <2>1. IsFiniteSet(Running) BY AddingFinite
  <2> QED BY <2>1, FS_CardinalityType
<1>13. w <= Concurrency - 1 BY <1>2, <1>3, <1>4, <1>5, <1>8, <1>12 DEF w
<1>14. w * MaxFanOut <= (Concurrency - 1) * MaxFanOut BY <1>8, <1>11, <1>13
<1>15. p <= (Concurrency - 1) * MaxFanOut BY <1>8, <1>11, <1>14
<1> QED BY <1>7, <1>9, <1>15 DEF p

\* The governors allow for what the split itself adds; the others may go beyond.
LEMMA AcceptedLoad ==
  ASSUME Types, Sane, Planned, Few, NEW t \in Ids(tickets), NEW cs, Accepted(t, cs),
         Listed(t, ListOf(cs))
  PROVE  Few'
<1>1. tickets' = tickets /\ plan' = [plan EXCEPT ![t] = ListOf(cs)] BY DEF Listed
<1>2. plan \in [Ids(tickets) -> Plan] BY DEF Types
<1>3. /\ plan'[t].todo = ToDo(cs) /\ plan'[t].at = "emit"
      /\ \A u \in Ids(tickets) : u # t => plan'[u] = plan[u]
  BY <1>1, <1>2 DEF ListOf
<1> DEFINE new == Kids(cs) \ Ids(tickets)
<1>4. IsFiniteSet(Kids(cs)) BY AcceptedItems
<1>5. IsFiniteSet(new) /\ Cardinality(new) <= MaxFanOut BY <1>4, AcceptedFew, FS_Difference
<1>6. Adding(t)' \subseteq new BY <1>1, <1>3 DEF Adding, Kids, ToDo, Ids
<1>7. \A u \in Ids(tickets) : u # t => Adding(u)' = Adding(u) BY <1>1, <1>3 DEF Adding, Ids
<1> HIDE DEF new
<1>8. \A u \in Ids(tickets) : Cardinality(Adding(u)') <= MaxFanOut
  <2> TAKE u \in Ids(tickets)
  <2>1. CASE u = t
    <3>1. IsFiniteSet(Adding(t)') /\ Cardinality(Adding(t)') <= Cardinality(new)
      BY <1>5, <1>6, FS_Subset
    <3>2. Cardinality(Adding(t)') \in Nat /\ Cardinality(new) \in Nat
      BY <1>5, <3>1, FS_CardinalityType
    <3>3. MaxFanOut \in Nat BY GraphAssumption, GoalsAssumption
    <3>4. Cardinality(Adding(t)') <= MaxFanOut BY <1>5, <3>1, <3>2, <3>3
    <3> QED BY <2>1, <3>4
  <2>2. CASE u # t BY <1>7, <2>2 DEF Few
  <2> QED BY <2>1, <2>2
<1> DEFINE limit == MaxTicketsPerGoal + (Concurrency - 1) * MaxFanOut
<1>9. limit \in Int BY GraphAssumption, GoalsAssumption
<1>10. ASSUME NEW g \in Goal PROVE Cardinality(Load(g)') <= limit
  <2>1. Tasks(tickets, g)' = Tasks(tickets, g) BY <1>1
  <2>2. \A u \in Works(g)' : u # t => u \in Works(g) /\ u \in Ids(tickets)
    BY <1>3, <2>1 DEF Works, Tasks
  <2>3. IsFiniteSet(Tasks(tickets, g)) /\ IsFiniteSet(Load(g)) BY AddingFinite
  <2>4. CASE g # tickets[t].goal
    <3>1. \A u \in Works(g)' : u # t BY <1>1, <2>4 DEF Works, Tasks
    <3>2. Load(g)' \subseteq Load(g)
      <4> SUFFICES ASSUME NEW p \in Load(g)' PROVE p \in Load(g) OBVIOUS
      <4>1. CASE p \in Tasks(tickets, g)' BY <2>1, <4>1 DEF Load
      <4>2. CASE \E u \in Works(g)' : p \in Adding(u)' BY <1>7, <2>2, <3>1, <4>2 DEF Load
      <4> QED BY <4>1, <4>2 DEF Load
    <3>3. IsFiniteSet(Load(g)') /\ Cardinality(Load(g)') <= Cardinality(Load(g))
      BY <2>3, <3>2, FS_Subset
    <3>4. Cardinality(Load(g)') \in Nat /\ Cardinality(Load(g)) \in Nat
      BY <2>3, <3>3, FS_CardinalityType
    <3>5. Cardinality(Load(g)) <= limit BY DEF Few
    <3> HIDE DEF limit
    <3> QED BY <1>9, <3>3, <3>4, <3>5
  <2>5. CASE g = tickets[t].goal
    <3> DEFINE P == UNION {Adding(u) : u \in Works(g)}
               T == Tasks(tickets, g)
    <3>1. IsFiniteSet(P) /\ Cardinality(P) <= (Concurrency - 1) * MaxFanOut
      BY OtherWorks DEF Listed
    <3>2. Load(g)' \subseteq (T \cup new) \cup P
      <4> SUFFICES ASSUME NEW p \in Load(g)' PROVE p \in (T \cup new) \cup P OBVIOUS
      <4>1. CASE p \in Tasks(tickets, g)' BY <2>1, <4>1
      <4>2. ASSUME NEW u \in Works(g)', p \in Adding(u)' PROVE p \in new \cup P
        <5>1. CASE u = t BY <1>6, <4>2, <5>1
        <5>2. CASE u # t BY <1>7, <2>2, <4>2, <5>2
        <5> QED BY <5>1, <5>2
      <4>3. p \in Tasks(tickets, g)' \/ \E u \in Works(g)' : p \in Adding(u)' BY DEF Load
      <4> HIDE DEF P, T
      <4> QED BY <4>1, <4>2, <4>3
    <3>3. Cardinality(T) + Cardinality(new) <= MaxTicketsPerGoal BY <2>5, AcceptedFew DEF new
    <3> HIDE DEF P
    <3>4. IsFiniteSet(T) BY <2>3
    <3> HIDE DEF T
    <3>5. /\ IsFiniteSet(T \cup new)
          /\ Cardinality(T \cup new) = Cardinality(T) + Cardinality(new) - Cardinality(T \cap new)
      BY <1>5, <3>4, FS_Union
    <3>6. /\ IsFiniteSet((T \cup new) \cup P)
          /\ Cardinality((T \cup new) \cup P) = Cardinality(T \cup new) + Cardinality(P)
                                                  - Cardinality((T \cup new) \cap P)
      BY <3>1, <3>5, FS_Union
    <3>7. IsFiniteSet(T \cap new) /\ IsFiniteSet((T \cup new) \cap P)
      BY <3>1, <3>4, FS_Intersection
    <3>8. IsFiniteSet(Load(g)') /\ Cardinality(Load(g)') <= Cardinality((T \cup new) \cup P)
      BY <3>2, <3>6, FS_Subset
    <3> DEFINE m == (Concurrency - 1) * MaxFanOut
    <3>9. m \in Int /\ MaxTicketsPerGoal \in Nat /\ Cardinality(P) <= m
      BY <3>1, GraphAssumption, GoalsAssumption
    <3>10. /\ Cardinality(T) \in Nat /\ Cardinality(new) \in Nat /\ Cardinality(P) \in Nat
           /\ Cardinality(T \cap new) \in Nat /\ Cardinality((T \cup new) \cap P) \in Nat
           /\ Cardinality(T \cup new) \in Nat /\ Cardinality((T \cup new) \cup P) \in Nat
           /\ Cardinality(Load(g)') \in Nat
      BY <1>5, <3>1, <3>4, <3>5, <3>6, <3>7, <3>8, FS_CardinalityType
    <3> HIDE DEF m
    <3>11. Cardinality(Load(g)') <= MaxTicketsPerGoal + m
      BY <3>3, <3>5, <3>6, <3>8, <3>9, <3>10
    <3> QED BY <3>11 DEF m
  <2> QED BY <2>4, <2>5
<1>11. Cardinality(Running)' <= Concurrency
  <2>1. Running' = Running BY <1>1 DEF Running
  <2> QED BY <2>1 DEF Few
<1>12. \A u \in Ids(tickets)' : Cardinality(Adding(u))' <= MaxFanOut
  <2>1. Ids(tickets)' = Ids(tickets) BY <1>1
  <2> QED BY <1>8, <2>1
<1>13. \A g \in Goal : Cardinality(Load(g))' <= limit BY <1>10
<1> QED BY <1>11, <1>12, <1>13 DEF Few

\* A rejected answer names nothing.
LEMMA RejectedUncrashed ==
  ASSUME Types, Types', Planned, Uncrashed, NEW t \in Ids(tickets),
         Listed(t, [NoPlan EXCEPT !.at = "fail"])
  PROVE  Uncrashed'
<1> SUFFICES ASSUME crashes' = 0 PROVE Rooted' /\ Named' /\ Once' /\ Grounded(All')
  BY GroundedPrime DEF Uncrashed
<1>1. tickets' = tickets /\ plan' = [plan EXCEPT ![t] = [NoPlan EXCEPT !.at = "fail"]]
      /\ lost' = lost /\ crashes = 0 /\ plan[t].at = "no"
  BY DEF Listed
<1>2. Rooted /\ Named /\ Once /\ Grounded(All) BY <1>1 DEF Uncrashed
<1>3. plan \in [Ids(tickets) -> Plan] BY DEF Types
<1>4. /\ plan'[t].todo = {} /\ plan'[t].at = "fail" /\ plan'[t].children = {}
      /\ \A u \in Ids(tickets) : u # t => plan'[u] = plan[u]
  BY <1>1, <1>3 DEF NoPlan
<1>5. plan[t].todo = {} BY <1>1 DEF Planned
<1>6. \A u \in Ids(tickets) : plan'[u].todo = plan[u].todo BY <1>4, <1>5
<1>7. Grounded(All') BY <1>1, <1>2, <1>6, ListsShrink
<1>8. Coming' = Coming
  <2>1. DOMAIN plan = Ids(tickets) /\ DOMAIN plan' = Ids(tickets) BY <1>1, <1>3
  <2> QED BY <1>6, <2>1 DEF Coming
<1>9. Names' = Names BY <1>1, <1>8 DEF Names
<1>10. \A p : Parent(p) => Parent(p)' BY <1>1, <1>4 DEF Parent
<1>11. Rooted' BY <1>2, <1>9, <1>10 DEF Rooted
<1>12. Named' BY <1>1, <1>2, <1>4, <1>5, <1>9 DEF Named
<1>13. \A u \in Ids(tickets) : Cardinality(Own(u, plan'[u].children)) <= MaxFanOut
  <2> TAKE u \in Ids(tickets)
  <2>1. CASE u = t BY <1>4, <2>1, OwnNone
  <2>2. CASE u # t BY <1>2, <1>4, <2>2 DEF Once
  <2> QED BY <2>1, <2>2
<1>14. Once' BY <1>1, <1>2, <1>13 DEF Once, Own
<1> QED BY <1>7, <1>11, <1>12, <1>14

\* A path whose front is a path is longer than one.
LEMMA FrontLonger ==
  ASSUME NEW p \in Path, Front(p) \in Path PROVE Len(p) > 1
<1> DEFINE S == Goal \cup Local
<1>1. p \in Seq(S) /\ p # <<>> /\ Front(p) \in Seq(S) /\ Front(p) # <<>> BY DEF Path
<1> HIDE DEF S
<1>2. Len(Front(p)) = Len(p) - 1 /\ Len(p) \in Nat \ {0} BY <1>1, FrontIs
<1>3. Len(Front(p)) \in Nat \ {0} BY <1>1, EmptySeq
<1> QED BY <1>2, <1>3

\* Until a crash, nothing names a child of a ticket that is neither split nor being split.
LEMMA Unnamed ==
  ASSUME Types, Rooted, NEW t \in Ids(tickets), ~Parent(t)
  PROVE  \A p \in Names \cap Path : Front(p) # t
<1> SUFFICES ASSUME NEW p \in Names \cap Path, Front(p) = t PROVE FALSE OBVIOUS
<1>1. Len(p) > 1 BY FrontLonger DEF Types
<1>2. Parent(Front(p)) BY <1>1 DEF Rooted
<1> QED BY <1>2

\* Until a crash, the children that an accepted answer creates are new, and those of its
\* children that are the ticket's own are few.
LEMMA AcceptedNew ==
  ASSUME Types, Sane, Rooted, NEW t \in Ids(tickets), ~Parent(t), NEW cs, Accepted(t, cs)
  PROVE  /\ \A p \in Kids(ToDo(cs)) : p \notin Names /\ Len(p) > 1 /\ Front(p) = t
         /\ Kids(cs) \subseteq Ids(tickets) \cup Kids(ToDo(cs))
         /\ Cardinality(Own(t, Kids(cs))) <= MaxFanOut
<1>1. t \in Path /\ Ids(tickets) \subseteq Path BY DEF Types
<1>2. ASSUME NEW p \in Kids(ToDo(cs)) PROVE p \notin Names /\ Len(p) > 1 /\ Front(p) = t
  <2>1. PICK c \in ToDo(cs) : p = c.id BY DEF Kids
  <2>2. ChildItem(t, c) BY <2>1, AcceptedItems
  <2>3. PICK l \in Local : p = Append(t, l) BY <2>1, <2>2 DEF ChildItem
  <2>4. p \in Path /\ Len(p) > 1 /\ Front(p) = t BY <1>1, <2>3, ChildPath
  <2> QED BY <2>4, Unnamed
<1>3. Kids(cs) \subseteq Ids(tickets) \cup Kids(ToDo(cs))
  <2> SUFFICES ASSUME NEW c \in cs, c.id \notin Ids(tickets) PROVE c \in ToDo(cs) BY DEF Kids
  <2>1. c.adopt => c.id \in Ids(tickets) BY DEF Accepted, ChildrenSound
  <2> QED BY <2>1 DEF ToDo
<1>4. Own(t, Kids(cs)) \subseteq Kids(cs) \ Ids(tickets)
  <2> SUFFICES ASSUME NEW p \in Kids(cs), Front(p) = t, p \in Ids(tickets) PROVE FALSE BY DEF Own
  <2>1. p \in Names \cap Path BY <1>1 DEF Names
  <2> QED BY <2>1, Unnamed
<1>5. IsFiniteSet(Kids(cs)) BY AcceptedItems
<1>6. IsFiniteSet(Kids(cs) \ Ids(tickets)) BY <1>5, FS_Difference
<1>7. IsFiniteSet(Own(t, Kids(cs)))
      /\ Cardinality(Own(t, Kids(cs))) <= Cardinality(Kids(cs) \ Ids(tickets))
  BY <1>4, <1>6, FS_Subset
<1>8. Cardinality(Own(t, Kids(cs))) \in Nat /\ Cardinality(Kids(cs) \ Ids(tickets)) \in Nat
  BY <1>6, <1>7, FS_CardinalityType
<1>9. Cardinality(Kids(cs) \ Ids(tickets)) <= MaxFanOut BY AcceptedFew
<1>10. Cardinality(Own(t, Kids(cs))) <= MaxFanOut BY <1>7, <1>8, <1>9, GraphAssumption, GoalsAssumption
<1> QED BY <1>2, <1>3, <1>10

\* WouldCycle looked at the children with the tickets there are; with what others are
\* going to create there is no cycle either, since that waits for none of them.
LEMMA AcceptedWeaves ==
  ASSUME Types, Types', Sane, Rooted, Named, Grounded(All), NEW t \in Ids(tickets), ~Parent(t),
         NEW cs, Accepted(t, cs), tickets' = tickets, plan'[t].todo = ToDo(cs), plan[t].todo = {},
         \A u \in Ids(tickets) : u # t => plan'[u] = plan[u]
  PROVE  /\ \A p : p \in Coming' <=> p \in Coming \/ p \in Kids(ToDo(cs))
         /\ Grounded(All')
<1> DEFINE New == Kids(ToDo(cs))
<1>1. /\ \A p : p \in Coming' <=> \E u \in Ids(tickets) : \E c \in plan'[u].todo : c.id = p
      /\ \A p : \A c : c \in Items(p)' <=> c.id = p /\ \E u \in Ids(tickets) : c \in plan'[u].todo
      /\ DOMAIN All' = Ids(tickets) \cup Coming'
      /\ \A p \in DOMAIN All' : \A d : d \in All'[p] <=>
           (p \in Ids(tickets) /\ d \in tickets[p].deps) \/ \E c \in Items(p)' : d \in c.deps
  <2>1. (Types => ListsAre)' BY ComingIs, PTL
  <2> QED BY <2>1 DEF ListsAre
<1>2. \A p : p \in Coming <=> \E u \in Ids(tickets) : \E c \in plan[u].todo : c.id = p
  BY ComingIs DEF ListsAre
<1>3. \A p : \A c : c \in Items(p) <=> c.id = p /\ \E u \in Ids(tickets) : c \in plan[u].todo
  BY ComingIs DEF ListsAre
<1>4. /\ DOMAIN All = Ids(tickets) \cup Coming
      /\ \A p \in DOMAIN All : \A d : d \in All[p] <=>
           (p \in Ids(tickets) /\ d \in tickets[p].deps) \/ \E c \in Items(p) : d \in c.deps
  BY ComingIs DEF ListsAre
<1>5. \A p : p \in New <=> \E c \in ToDo(cs) : c.id = p BY DEF Kids
<1>6. \A u \in Ids(tickets) : \A c :
        c \in plan'[u].todo <=> c \in plan[u].todo \/ (u = t /\ c \in ToDo(cs))
  <2> TAKE u \in Ids(tickets)
  <2>1. CASE u = t BY <2>1
  <2>2. CASE u # t BY <2>2
  <2> QED BY <2>1, <2>2
<1>7. \A p \in New : p \notin Names BY AcceptedNew
<1> HIDE DEF New
<1>8. \A p : p \in Coming' <=> p \in Coming \/ p \in New BY <1>1, <1>2, <1>5, <1>6
<1>9. \A p : \A c : c \in Items(p)' <=> c \in Items(p) \/ (c.id = p /\ c \in ToDo(cs))
  BY <1>1, <1>3, <1>6
<1>10. DOMAIN All \subseteq Names /\ \A p \in DOMAIN All : All[p] \subseteq Names
  <2>1. DOMAIN All \subseteq Names BY <1>4 DEF Names
  <2>2. ASSUME NEW p \in DOMAIN All, NEW d \in All[p] PROVE d \in Names
    <3>1. CASE p \in Ids(tickets) /\ d \in tickets[p].deps BY <3>1 DEF Named
    <3>2. ASSUME NEW c \in Items(p), d \in c.deps PROVE d \in Names
      <4>1. PICK u \in Ids(tickets) : c \in plan[u].todo BY <1>3, <3>2
      <4> QED BY <3>2, <4>1 DEF Named
    <3> QED BY <1>4, <2>2, <3>1, <3>2
  <2> QED BY <2>1, <2>2
<1>11. DOMAIN All' \subseteq DOMAIN All \cup New BY <1>1, <1>4, <1>8
<1>12. Grounded(Judged(cs)) /\ New \subseteq DOMAIN Judged(cs)
       /\ \A c \in ToDo(cs) : c.deps \subseteq Judged(cs)[c.id]
  BY AcceptedGrounded DEF New
<1>13. ASSUME NEW p \in DOMAIN All' \cap DOMAIN All
       PROVE  All'[p] \subseteq All[p] /\ All[p] \cap New = {}
  <2>1. p \notin New /\ All[p] \cap New = {} BY <1>7, <1>10
  <2>2. \A c \in Items(p)' : c \in Items(p) BY <1>5, <1>9, <2>1
  <2>3. All'[p] \subseteq All[p] BY <1>1, <1>4, <2>2
  <2> QED BY <2>1, <2>3
<1>14. ASSUME NEW p \in New PROVE All'[p] \subseteq Judged(cs)[p]
  <2>1. p \notin Ids(tickets) /\ p \notin Coming BY <1>7 DEF Names
  <2>2. \A c : c \notin Items(p) BY <1>2, <1>3, <2>1
  <2>3. p \in DOMAIN All' BY <1>1, <1>8
  <2> SUFFICES ASSUME NEW d \in All'[p] PROVE d \in Judged(cs)[p] OBVIOUS
  <2>4. PICK c \in Items(p)' : d \in c.deps BY <1>1, <2>1, <2>3
  <2>5. c.id = p /\ c \in ToDo(cs) BY <1>9, <2>2
  <2> QED BY <1>12, <2>4, <2>5
<1>15. Grounded(All') BY <1>11, <1>12, <1>13, <1>14, GroundedGrows
<1> QED BY <1>8, <1>15 DEF New

\* Until a crash: an accepted answer extends the graph by nodes nothing named before.
LEMMA AcceptedUncrashed ==
  ASSUME Types, Types', Sane, Planned, Uncrashed, NEW t \in Ids(tickets), NEW cs,
         Accepted(t, cs), Listed(t, ListOf(cs))
  PROVE  Uncrashed'
<1> SUFFICES ASSUME crashes' = 0 PROVE Rooted' /\ Named' /\ Once' /\ Grounded(All')
  BY GroundedPrime DEF Uncrashed
<1>1. /\ tickets' = tickets /\ plan' = [plan EXCEPT ![t] = ListOf(cs)] /\ lost' = lost
      /\ crashes = 0 /\ plan[t].at = "no" /\ tickets[t].status = "running"
  BY DEF Listed
<1>2. Rooted /\ Named /\ Once /\ Grounded(All) BY <1>1 DEF Uncrashed
<1>3. plan \in [Ids(tickets) -> Plan] BY DEF Types
<1>4. /\ plan'[t].todo = ToDo(cs) /\ plan'[t].at = "emit" /\ plan'[t].children = Kids(cs)
      /\ \A u \in Ids(tickets) : u # t => plan'[u] = plan[u]
  BY <1>1, <1>3 DEF ListOf
<1>5. plan[t].todo = {} BY <1>1 DEF Planned
<1>6. ~Parent(t) BY <1>1 DEF Parent
<1>7. /\ \A p : p \in Coming' <=> p \in Coming \/ p \in Kids(ToDo(cs))
      /\ Grounded(All')
  BY <1>1, <1>2, <1>4, <1>5, <1>6, AcceptedWeaves
<1>8. /\ \A p \in Kids(ToDo(cs)) : p \notin Names /\ Len(p) > 1 /\ Front(p) = t
      /\ Kids(cs) \subseteq Ids(tickets) \cup Kids(ToDo(cs))
      /\ Cardinality(Own(t, Kids(cs))) <= MaxFanOut
  BY <1>2, <1>6, AcceptedNew
<1>9. Names' = Names \cup Kids(ToDo(cs)) BY <1>1, <1>7 DEF Names
<1>10. \A p : Parent(p) => Parent(p)' BY <1>1, <1>4 DEF Parent
<1>11. Parent(t)' BY <1>1, <1>4 DEF Parent
<1>12. Rooted'
  <2>1. \A p \in Names' : Len(p) > 1 => Parent(Front(p))'
    <3> TAKE p \in Names'
    <3>1. CASE p \in Names BY <1>2, <1>10, <3>1 DEF Rooted
    <3>2. CASE p \in Kids(ToDo(cs)) BY <1>8, <1>11, <3>2
    <3> QED BY <1>9, <3>1, <3>2
  <2> QED BY <2>1 DEF Rooted
<1>13. \A c \in ToDo(cs) : c.id \notin Ids(tickets) /\ c.deps \subseteq Ids(tickets) \cup Kids(cs)
  <2> TAKE c \in ToDo(cs)
  <2>1. c \in cs /\ c.id \in Kids(ToDo(cs)) BY DEF ToDo, Kids
  <2>2. c.deps \subseteq Ids(tickets) \cup Kids(cs) BY <2>1, AcceptedItems
  <2>3. c.id \notin Names BY <1>8, <2>1
  <2> QED BY <2>2, <2>3 DEF Names
<1>14. ASSUME NEW u \in Ids(tickets)
       PROVE  /\ tickets[u].deps \subseteq Names' /\ tickets[u].children \subseteq Names'
              /\ plan'[u].children \subseteq Names'
              /\ \A c \in plan'[u].todo : c.id \notin Ids(tickets) /\ c.deps \subseteq Names'
  <2>1. Names \subseteq Names' /\ Ids(tickets) \cup Kids(cs) \subseteq Names'
    BY <1>8, <1>9 DEF Names
  <2>2. tickets[u].deps \subseteq Names' /\ tickets[u].children \subseteq Names'
    BY <1>2, <2>1 DEF Named
  <2>3. CASE u = t BY <1>4, <1>13, <2>1, <2>2, <2>3
  <2>4. CASE u # t
    <3>1. plan[u].children \subseteq Names
          /\ \A c \in plan[u].todo : c.id \notin Ids(tickets) /\ c.deps \subseteq Names
      BY <1>2 DEF Named
    <3> QED BY <1>4, <2>1, <2>2, <2>4, <3>1
  <2> QED BY <2>3, <2>4
<1>15. Named' BY <1>1, <1>14 DEF Named
<1>16. \A u \in Ids(tickets) : Cardinality(Own(u, plan'[u].children)) <= MaxFanOut
  <2> TAKE u \in Ids(tickets)
  <2>1. CASE u = t BY <1>4, <1>8, <2>1
  <2>2. CASE u # t BY <1>2, <1>4, <2>2 DEF Once
  <2> QED BY <2>1, <2>2
<1>17. Once' BY <1>1, <1>2, <1>16 DEF Once, Own
<1> QED BY <1>7, <1>12, <1>15, <1>17

-----------------------------------------------------------------------------
(* A child is created *)

\* The child c of t is created, or its key is taken, or its id is.
Creates(t, c) ==
  /\ plan[t].at = "emit" /\ c \in plan[t].todo
  /\ plan'[t] = [plan[t] EXCEPT !.todo = @ \ {c}]
  /\ \A u \in Ids(tickets) : u # t => plan'[u] = plan[u]
  /\ \A u \in Ids(tickets) : tickets'[u] = tickets[u]
  /\ crashes' = crashes /\ opt' = opt

Created(t, c) ==
  /\ c.id \notin Ids(tickets) /\ Ids(tickets') = Ids(tickets) \cup {c.id}
  /\ tickets'[c.id] = NewTicket(tickets[t].goal, c.deps, c.key, tickets[t].depth + 1)
  /\ plan'[c.id] = NoPlan /\ lost' = lost
  /\ \/ c.key = NoKey /\ byKey' = byKey
     \/ /\ c.key \notin DOMAIN byKey /\ DOMAIN byKey' = DOMAIN byKey \cup {c.key}
        /\ byKey'[c.key] = c.id /\ \A k \in DOMAIN byKey : byKey'[k] = byKey[k]

Dropped(t, c) ==
  /\ Ids(tickets') = Ids(tickets) /\ lost \subseteq lost' /\ lost' \subseteq lost \cup {c.id}
  /\ c.id \in Ids(tickets) \cup lost'
  /\ \/ byKey' = byKey
     \/ /\ c.key \notin DOMAIN byKey /\ DOMAIN byKey' = DOMAIN byKey \cup {c.key}
        /\ byKey'[c.key] = c.id /\ \A k \in DOMAIN byKey : byKey'[k] = byKey[k]

\* CreateChild does one or the other.
LEMMA CreateIs ==
  ASSUME Types, Planned, NEW t \in Ids(tickets), NEW c \in plan[t].todo, CreateChild(t, c)
  PROVE  Types' /\ Creates(t, c) /\ (Created(t, c) \/ Dropped(t, c))
<1> DEFINE x == NewTicket(tickets[t].goal, c.deps, c.key, tickets[t].depth + 1)
           fresh == c.key = NoKey \/ c.key \notin DOMAIN byKey
<1>1. /\ tickets \in [Ids(tickets) -> TicketRecord] /\ plan \in [Ids(tickets) -> Plan]
      /\ byKey \in [DOMAIN byKey -> Ids(tickets)] /\ Ids(tickets) \in SUBSET Path
      /\ IsFiniteSet(Ids(tickets)) /\ lost \in SUBSET Path
  BY DEF Types
<1>2. tickets[t] \in TicketRecord /\ plan[t] \in Plan BY <1>1
<1>3. c \in Item BY <1>2 DEF Plan
<1>4. c.id \in Path /\ c.key \in Key /\ c.deps \in SUBSET Path BY <1>3 DEF Item
<1>5. x \in TicketRecord /\ x.key = c.key /\ x.goal = tickets[t].goal
  <2>1. "pending" \in Status /\ c.key \in AnyKey BY <1>4 DEF Status, AnyKey
  <2>2. tickets[t].goal \in Goal /\ tickets[t].depth + 1 \in Nat BY <1>2 DEF TicketRecord
  <2> QED BY <1>4, <2>1, <2>2 DEF NewTicket, TicketRecord
<1>6. TicketCreated(c.id, x) BY DEF CreateChild
<1> HIDE DEF x
<1>7. /\ lost' = IF ~fresh /\ c.id \notin Ids(tickets) THEN lost \cup {c.id} ELSE lost
      /\ byKey' = IF fresh /\ c.key # NoKey
                  THEN [k \in DOMAIN byKey \cup {c.key} |-> IF k = c.key THEN c.id ELSE byKey[k]]
                  ELSE byKey
      /\ tickets' = IF fresh /\ c.id \notin Ids(tickets)
                    THEN [u \in Ids(tickets) \cup {c.id} |-> IF u = c.id THEN x ELSE tickets[u]]
                    ELSE tickets
  BY <1>5, <1>6 DEF TicketCreated, Replay
<1>8. /\ plan[t].at = "emit" /\ opt' = opt /\ crashes' = crashes
      /\ plan' = [s \in Ids(tickets') |->
                    IF s = t THEN [plan[t] EXCEPT !.todo = @ \ {c}]
                    ELSE IF s \in DOMAIN plan THEN plan[s] ELSE NoPlan]
  BY DEF CreateChild
<1>9. DOMAIN plan = Ids(tickets) BY <1>1
<1>10. [plan[t] EXCEPT !.todo = @ \ {c}] \in Plan BY <1>2 DEF Plan
<1>11. NoPlan \in Plan BY DEF NoPlan, Plan
<1>12. /\ Ids(tickets) \subseteq Ids(tickets')
       /\ \A u \in Ids(tickets) : tickets'[u] = tickets[u]
  <2>1. CASE fresh /\ c.id \notin Ids(tickets) BY <1>7, <2>1 DEF Ids
  <2>2. CASE ~(fresh /\ c.id \notin Ids(tickets)) BY <1>7, <2>2
  <2> QED BY <2>1, <2>2
<1>13. plan' \in [Ids(tickets') -> Plan]
  <2>1. \A s \in Ids(tickets') :
          (IF s = t THEN [plan[t] EXCEPT !.todo = @ \ {c}]
           ELSE IF s \in DOMAIN plan THEN plan[s] ELSE NoPlan) \in Plan
    BY <1>1, <1>9, <1>10, <1>11
  <2> QED BY <1>8, <2>1
<1>14. Creates(t, c) BY <1>8, <1>9, <1>12 DEF Creates
<1>15. \/ byKey' = byKey /\ (c.key = NoKey \/ ~fresh)
       \/ /\ c.key \notin DOMAIN byKey /\ DOMAIN byKey' = DOMAIN byKey \cup {c.key}
          /\ byKey'[c.key] = c.id /\ \A k \in DOMAIN byKey : byKey'[k] = byKey[k]
  <2>1. CASE fresh /\ c.key # NoKey BY <1>7, <2>1
  <2>2. CASE ~(fresh /\ c.key # NoKey) BY <1>7, <2>2
  <2> QED BY <2>1, <2>2
<1>16. lost' \in SUBSET Path BY <1>1, <1>4, <1>7
<1>17. \A g \in Goal : <<g>> \in Ids(tickets') /\ tickets'[<<g>>].goal = g BY <1>12 DEF Types
<1>18. opt' \in Answers /\ crashes' \in Nat BY <1>8 DEF Types
<1>19. CASE fresh /\ c.id \notin Ids(tickets)
  <2>1. /\ Ids(tickets') = Ids(tickets) \cup {c.id} /\ tickets'[c.id] = x
        /\ tickets' = [u \in Ids(tickets) \cup {c.id} |-> IF u = c.id THEN x ELSE tickets[u]]
    BY <1>7, <1>19 DEF Ids
  <2>2. tickets' \in [Ids(tickets') -> TicketRecord] BY <1>1, <1>5, <2>1
  <2>3. IsFiniteSet(Ids(tickets')) BY <1>1, <2>1, FS_AddElement
  <2>4. Ids(tickets') \in SUBSET Path BY <1>1, <1>4, <2>1
  <2>5. plan'[c.id] = NoPlan BY <1>8, <1>9, <1>19, <2>1
  <2>6. lost' = lost BY <1>7, <1>19
  <2>7. byKey' \in [DOMAIN byKey' -> Ids(tickets')]
    <3>1. CASE byKey' = byKey BY <1>1, <1>12, <3>1
    <3>2. CASE fresh /\ c.key # NoKey BY <1>1, <1>7, <1>12, <2>1, <3>2
    <3> QED BY <1>7, <3>1, <3>2
  <2>8. Types' BY <1>13, <1>16, <1>17, <1>18, <2>2, <2>3, <2>4, <2>7 DEF Types, Ids
  <2>9. Created(t, c) BY <1>15, <1>19, <2>1, <2>5, <2>6 DEF Created, x
  <2> QED BY <1>14, <2>8, <2>9
<1>20. CASE ~(fresh /\ c.id \notin Ids(tickets))
  <2>1. tickets' = tickets BY <1>7, <1>20
  <2>2. lost \subseteq lost' /\ lost' \subseteq lost \cup {c.id} /\ c.id \in Ids(tickets) \cup lost'
    BY <1>7, <1>20
  <2>3. byKey' \in [DOMAIN byKey' -> Ids(tickets)]
    <3>1. CASE byKey' = byKey BY <1>1, <3>1
    <3>2. CASE fresh /\ c.key # NoKey BY <1>1, <1>7, <1>20, <3>2
    <3> QED BY <1>7, <3>1, <3>2
  <2>4. Types' BY <1>1, <1>13, <1>16, <1>17, <1>18, <2>1, <2>3 DEF Types, Ids
  <2>5. Dropped(t, c) BY <1>15, <2>1, <2>2 DEF Dropped
  <2> QED BY <1>14, <2>4, <2>5
<1> QED BY <1>19, <1>20

\* The child is as deep as its governor allows, and its key names it.
LEMMA CreateSane ==
  ASSUME Types, Types', Sane, Planned, NEW t \in Ids(tickets), NEW c \in plan[t].todo,
         Creates(t, c), Created(t, c) \/ Dropped(t, c)
  PROVE  Sane' /\ Planned'
<1>1. /\ plan[t].at = "emit" /\ plan'[t] = [plan[t] EXCEPT !.todo = @ \ {c}]
      /\ \A u \in Ids(tickets) : u # t => plan'[u] = plan[u]
      /\ \A u \in Ids(tickets) : tickets'[u] = tickets[u]
  BY DEF Creates
<1>2. plan[t] \in Plan /\ tickets[t] \in TicketRecord BY DEF Types
<1>3. /\ plan'[t].todo = plan[t].todo \ {c} /\ plan'[t].children = plan[t].children
      /\ plan'[t].at = "emit"
  BY <1>1, <1>2 DEF Plan
<1>4. \A u \in Ids(tickets') : u \in Ids(tickets) \/ (Created(t, c) /\ u = c.id)
  BY DEF Created, Dropped
<1>5. ASSUME NEW u \in Ids(tickets')
      PROVE  /\ IsFiniteSet(tickets'[u].deps) /\ IsFiniteSet(tickets'[u].children)
             /\ tickets'[u].depth <= MaxGraphDepth
             /\ tickets'[u].status = "decomposed" \/ tickets'[u].children = {}
             /\ tickets'[u].key = NoKey
                  \/ (tickets'[u].key \in DOMAIN byKey' /\ byKey'[tickets'[u].key] = u)
  <2>1. CASE u \in Ids(tickets)
    <3>1. tickets'[u] = tickets[u] BY <1>1, <2>1
    <3>2. \A k \in DOMAIN byKey : k \in DOMAIN byKey' /\ byKey'[k] = byKey[k]
      BY DEF Created, Dropped
    <3> QED BY <2>1, <3>1, <3>2 DEF Sane
  <2>2. CASE Created(t, c) /\ u = c.id
    <3>1. tickets'[u] = NewTicket(tickets[t].goal, c.deps, c.key, tickets[t].depth + 1)
      BY <2>2 DEF Created
    <3>2. /\ tickets'[u].deps = c.deps /\ tickets'[u].children = {} /\ tickets'[u].key = c.key
          /\ tickets'[u].depth = tickets[t].depth + 1
      BY <3>1 DEF NewTicket
    <3>3. IsFiniteSet(c.deps) BY DEF Planned, ChildItem
    <3>4. tickets[t].depth + 1 <= MaxGraphDepth
      <4>1. tickets[t].depth < MaxGraphDepth BY <1>1 DEF Planned
      <4>2. tickets[t].depth \in Nat BY <1>2 DEF TicketRecord
      <4> QED BY <4>1, <4>2, GraphAssumption, GoalsAssumption
    <3>5. c.key = NoKey \/ (c.key \in DOMAIN byKey' /\ byKey'[c.key] = u) BY <2>2 DEF Created
    <3> QED BY <3>2, <3>3, <3>4, <3>5, FS_EmptySet
  <2> QED BY <1>4, <2>1, <2>2
<1>6. Sane' BY <1>5 DEF Sane
<1>7. ASSUME NEW u \in Ids(tickets')
      PROVE  /\ plan'[u].at # "no" => tickets'[u].status = "running"
             /\ plan'[u].at # "emit" => plan'[u].todo = {} /\ plan'[u].children = {}
             /\ plan'[u].at = "emit" => tickets'[u].depth < MaxGraphDepth
             /\ IsFiniteSet(plan'[u].todo) /\ IsFiniteSet(plan'[u].children)
             /\ \A d \in plan'[u].todo :
                  ChildItem(u, d) /\ \A b \in plan'[u].todo : b.id = d.id => b = d
  <2>1. CASE u \in Ids(tickets) /\ u # t BY <1>1, <2>1 DEF Planned
  <2>2. CASE u = t
    <3>1. IsFiniteSet(plan'[t].todo)
      <4>1. IsFiniteSet(plan[t].todo) /\ plan'[t].todo \subseteq plan[t].todo BY <1>3 DEF Planned
      <4> QED BY <4>1, FS_Subset
    <3>2. tickets'[t] = tickets[t] BY <1>1
    <3> QED BY <1>1, <1>3, <2>2, <3>1, <3>2 DEF Planned
  <2>3. CASE Created(t, c) /\ u = c.id
    <3>1. plan'[u] = NoPlan BY <2>3 DEF Created
    <3> QED BY <3>1, FS_EmptySet DEF NoPlan
  <2> QED BY <1>4, <2>1, <2>2, <2>3
<1>8. Planned' BY <1>7 DEF Planned, ChildItem
<1> QED BY <1>6, <1>8

\* A child that is created was counted when it was listed.
LEMMA CreateFew ==
  ASSUME Types, Types', Sane, Planned, Few, NEW t \in Ids(tickets), NEW c \in plan[t].todo,
         Creates(t, c), Created(t, c) \/ Dropped(t, c)
  PROVE  Few'
<1>1. /\ plan[t].at = "emit" /\ plan'[t] = [plan[t] EXCEPT !.todo = @ \ {c}]
      /\ \A u \in Ids(tickets) : u # t => plan'[u] = plan[u]
      /\ \A u \in Ids(tickets) : tickets'[u] = tickets[u]
  BY DEF Creates
<1>2. plan[t] \in Plan BY DEF Types
<1>3. plan'[t].todo \subseteq plan[t].todo /\ plan'[t].at = "emit" BY <1>1, <1>2 DEF Plan
<1>4. /\ \A u \in Ids(tickets') : u \in Ids(tickets) \/ (Created(t, c) /\ u = c.id)
      /\ Ids(tickets) \subseteq Ids(tickets')
  BY DEF Created, Dropped
<1>5. \A u \in Ids(tickets) : plan'[u].todo \subseteq plan[u].todo /\ plan'[u].at = plan[u].at
  BY <1>1, <1>3
<1>6. \A u \in Ids(tickets) : Adding(u)' \subseteq Adding(u)
  <2> TAKE u \in Ids(tickets)
  <2>1. Adding(u)' = {d.id : d \in plan'[u].todo} \ Ids(tickets') BY DEF Adding
  <2>2. plan'[u].todo \subseteq plan[u].todo BY <1>5
  <2> QED BY <1>4, <2>1, <2>2 DEF Adding
<1>7. ASSUME Created(t, c)
      PROVE  plan'[c.id].at = "no" /\ plan'[c.id].todo = {} /\ tickets'[c.id].status = "pending"
             /\ tickets'[c.id].goal = tickets[t].goal /\ c.id \notin Ids(tickets)
  BY <1>7 DEF Created, NoPlan, NewTicket
<1>8. \A u \in Ids(tickets') : Cardinality(Adding(u)') <= MaxFanOut
  <2> TAKE u \in Ids(tickets')
  <2>1. CASE u \in Ids(tickets)
    <3>1. IsFiniteSet(Adding(u)) /\ Adding(u)' \subseteq Adding(u) BY <1>6, <2>1, AddingFinite
    <3>2. IsFiniteSet(Adding(u)') /\ Cardinality(Adding(u)') <= Cardinality(Adding(u))
      BY <3>1, FS_Subset
    <3>3. Cardinality(Adding(u)') \in Nat /\ Cardinality(Adding(u)) \in Nat
      BY <3>1, <3>2, FS_CardinalityType
    <3>4. Cardinality(Adding(u)) <= MaxFanOut BY <2>1 DEF Few
    <3> QED BY <3>2, <3>3, <3>4, GraphAssumption, GoalsAssumption
  <2>2. CASE Created(t, c) /\ u = c.id
    <3>1. Adding(u)' = {} BY <1>7, <2>2 DEF Adding
    <3> QED BY <3>1, FS_EmptySet, GraphAssumption, GoalsAssumption
  <2> QED BY <1>4, <2>1, <2>2
<1>9. Running' = Running
  <2>1. \A u \in Ids(tickets') : u \in Running' => u \in Ids(tickets) BY <1>4, <1>7 DEF Running
  <2> QED BY <1>1, <1>4, <2>1 DEF Running, Ids
<1>10. Cardinality(Running') <= Concurrency BY <1>9 DEF Few
<1>11. ASSUME NEW g \in Goal PROVE Load(g)' \subseteq Load(g)
  <2> SUFFICES ASSUME NEW p \in Load(g)' PROVE p \in Load(g) OBVIOUS
  <2>1. CASE p \in Tasks(tickets, g)'
    <3>1. p \in Ids(tickets') /\ tickets'[p].goal = g BY <2>1 DEF Tasks, Ids
    <3>2. CASE p \in Ids(tickets)
      <4>1. p \in Tasks(tickets, g) BY <1>1, <3>1, <3>2 DEF Tasks
      <4> QED BY <4>1 DEF Load
    <3>3. CASE Created(t, c) /\ p = c.id
      <4>1. tickets[t].goal = g /\ c.id \notin Ids(tickets) BY <1>7, <3>1, <3>3
      <4>2. t \in Works(g) /\ p \in Adding(t) BY <1>1, <3>3, <4>1 DEF Works, Tasks, Adding
      <4> QED BY <4>2 DEF Load
    <3> QED BY <1>4, <3>1, <3>2, <3>3
  <2>2. ASSUME NEW u \in Works(g)', p \in Adding(u)' PROVE p \in Load(g)
    <3>1. u \in Ids(tickets') /\ tickets'[u].goal = g /\ plan'[u].at = "emit"
      BY DEF Works, Tasks, Ids
    <3>2. u \in Ids(tickets) BY <1>4, <1>7, <3>1
    <3>3. u \in Works(g) BY <1>1, <1>5, <3>1, <3>2 DEF Works, Tasks
    <3>4. p \in Adding(u) BY <1>6, <2>2, <3>2
    <3> QED BY <3>3, <3>4 DEF Load
  <2> QED BY <2>1, <2>2 DEF Load
<1> QED BY <1>8, <1>10, <1>11, FewKept

\* Until a crash: what was to come is there, or it is lost, its key being taken.
LEMMA CreateUncrashed ==
  ASSUME Types, Types', Sane, Planned, Uncrashed, NEW t \in Ids(tickets),
         NEW c \in plan[t].todo, Creates(t, c), Created(t, c) \/ Dropped(t, c)
  PROVE  Uncrashed'
<1> SUFFICES ASSUME crashes' = 0 PROVE Rooted' /\ Named' /\ Once' /\ Grounded(All')
  BY GroundedPrime DEF Uncrashed
<1>1. /\ plan[t].at = "emit" /\ plan'[t] = [plan[t] EXCEPT !.todo = @ \ {c}]
      /\ \A u \in Ids(tickets) : u # t => plan'[u] = plan[u]
      /\ \A u \in Ids(tickets) : tickets'[u] = tickets[u]
      /\ crashes = 0
  BY DEF Creates
<1>2. Rooted /\ Named /\ Once /\ Grounded(All) BY <1>1 DEF Uncrashed
<1>3. plan[t] \in Plan BY DEF Types
<1>4. /\ plan'[t].todo = plan[t].todo \ {c} /\ plan'[t].children = plan[t].children
      /\ plan'[t].at = "emit"
  BY <1>1, <1>3 DEF Plan
<1>5. /\ \A u \in Ids(tickets') : u \in Ids(tickets) \/ (Created(t, c) /\ u = c.id)
      /\ Ids(tickets) \subseteq Ids(tickets')
  BY DEF Created, Dropped
<1>6. ASSUME Created(t, c)
      PROVE  /\ plan'[c.id].todo = {} /\ plan'[c.id].children = {}
             /\ tickets'[c.id].deps = c.deps /\ tickets'[c.id].children = {}
  BY <1>6 DEF Created, NoPlan, NewTicket
<1>7. \A u \in Ids(tickets') : \A d \in plan'[u].todo :
        u \in Ids(tickets) /\ d \in plan[u].todo /\ ~(u = t /\ d = c)
  <2> TAKE u \in Ids(tickets')
  <2>1. CASE u \in Ids(tickets) /\ u # t BY <1>1, <2>1
  <2>2. CASE u = t BY <1>4, <2>2
  <2>3. CASE Created(t, c) /\ u = c.id BY <1>6, <2>3
  <2> QED BY <1>5, <2>1, <2>2, <2>3
<1>8. ListsAre BY ComingIs
<1>9. ListsAre'
  <2>1. (Types => ListsAre)' BY ComingIs, PTL
  <2> QED BY <2>1
<1>10. c \in Items(c.id) /\ c.id \in Coming BY <1>8 DEF ListsAre
<1>11. \A u \in Ids(tickets') : \/ u \in Ids(tickets) /\ tickets'[u].deps = tickets[u].deps
                                \/ \E d \in Items(u) : tickets'[u].deps = d.deps
  BY <1>1, <1>5, <1>6, <1>10
<1>12. Coming' \subseteq Coming /\ Grounded(All') BY <1>2, <1>7, <1>11, ListsShrink
<1>13. c.id \notin Ids(tickets) /\ c.deps \subseteq Names BY <1>2 DEF Named
<1>14. Names' = Names
  <2>1. lost \subseteq lost' /\ lost' \subseteq lost \cup {c.id} BY DEF Created, Dropped
  <2>2. Ids(tickets)' \subseteq Ids(tickets) \cup {c.id} BY <1>5
  <2>3. Names' \subseteq Names BY <1>10, <1>12, <2>1, <2>2 DEF Names
  <2>4. c.id \in Ids(tickets') \cup lost' BY <1>13 DEF Created, Dropped
  <2>5. ASSUME NEW p \in Coming PROVE p \in Coming' \cup {c.id}
    <3>1. PICK u \in Ids(tickets) : \E d \in plan[u].todo : d.id = p BY <1>8 DEF ListsAre
    <3>2. PICK d \in plan[u].todo : d.id = p BY <3>1
    <3>3. CASE u = t /\ d = c BY <3>2, <3>3
    <3>4. CASE ~(u = t /\ d = c)
      <4>1. d \in plan'[u].todo BY <1>1, <1>4, <3>2, <3>4
      <4>2. u \in Ids(tickets') BY <1>5
      <4> QED BY <1>9, <3>2, <4>1, <4>2 DEF ListsAre
    <3> QED BY <3>3, <3>4
  <2>6. Names \subseteq Names' BY <1>5, <2>1, <2>4, <2>5 DEF Names
  <2> QED BY <2>3, <2>6
<1>15. \A p : Parent(p) => Parent(p)'
  <2> SUFFICES ASSUME NEW p, Parent(p) PROVE Parent(p)' OBVIOUS
  <2>1. p \in Ids(tickets) /\ (tickets[p].status = "decomposed" \/ plan[p].at = "emit")
    BY DEF Parent
  <2>2. tickets'[p] = tickets[p] /\ plan'[p].at = plan[p].at BY <1>1, <1>4, <2>1
  <2>3. p \in Ids(tickets') BY <1>5, <2>1
  <2> QED BY <2>1, <2>2, <2>3 DEF Parent
<1>16. Rooted' BY <1>2, <1>14, <1>15 DEF Rooted
<1>17. ASSUME NEW u \in Ids(tickets'), NEW d \in plan'[u].todo PROVE d.id # c.id
  <2>1. u \in Ids(tickets) /\ d \in plan[u].todo /\ ~(u = t /\ d = c) BY <1>7
  <2>2. CASE u = t BY <2>1, <2>2 DEF Planned
  <2>3. CASE u # t
    <3>1. PICK l \in Local : d.id = Append(u, l) BY <2>1 DEF Planned, ChildItem
    <3>2. PICK m \in Local : c.id = Append(t, m) BY DEF Planned, ChildItem
    <3>3. Front(d.id) = u /\ Front(c.id) = t BY <2>1, <3>1, <3>2, ChildPath DEF Types
    <3> QED BY <2>3, <3>3
  <2> QED BY <2>2, <2>3
<1>18. ASSUME NEW u \in Ids(tickets')
       PROVE  /\ tickets'[u].deps \subseteq Names /\ tickets'[u].children \subseteq Names
              /\ plan'[u].children \subseteq Names
              /\ \A d \in plan'[u].todo : d.id \notin Ids(tickets') /\ d.deps \subseteq Names
  <2>1. ASSUME NEW d \in plan'[u].todo PROVE d.id \notin Ids(tickets') /\ d.deps \subseteq Names
    <3>1. u \in Ids(tickets) /\ d \in plan[u].todo /\ d.id # c.id BY <1>7, <1>17
    <3>2. d.id \notin Ids(tickets) /\ d.deps \subseteq Names BY <1>2, <3>1 DEF Named
    <3> QED BY <1>5, <3>1, <3>2
  <2>2. CASE u \in Ids(tickets)
    <3>1. tickets'[u] = tickets[u] /\ plan'[u].children = plan[u].children BY <1>1, <1>4, <2>2
    <3> QED BY <1>2, <2>1, <2>2, <3>1 DEF Named
  <2>3. CASE Created(t, c) /\ u = c.id BY <1>6, <1>13, <2>1, <2>3
  <2> QED BY <1>5, <2>2, <2>3
<1>19. Named' BY <1>14, <1>18 DEF Named
<1>20. ASSUME NEW u \in Ids(tickets')
       PROVE  /\ Cardinality(Own(u, tickets'[u].children)) <= MaxFanOut
              /\ Cardinality(Own(u, plan'[u].children)) <= MaxFanOut
  <2>1. CASE u \in Ids(tickets)
    <3>1. tickets'[u] = tickets[u] /\ plan'[u].children = plan[u].children BY <1>1, <1>4, <2>1
    <3> QED BY <1>2, <2>1, <3>1 DEF Once
  <2>2. CASE Created(t, c) /\ u = c.id BY <1>6, <2>2, OwnNone
  <2> QED BY <1>5, <2>1, <2>2
<1>21. Once' BY <1>20 DEF Once, Own
<1> QED BY <1>12, <1>16, <1>19, <1>21

-----------------------------------------------------------------------------
(* The other steps *)

\* After a crash no split is at work.
LEMMA BreakOffInv == ASSUME Inv, BreakOff PROVE Inv'
<1> DEFINE x(t) == IF tickets[t].status = "running" THEN [tickets[t] EXCEPT !.status = "ready"]
                   ELSE tickets[t]
<1>1. Types /\ Sane /\ Planned /\ Few BY DEF Inv
<1>2. /\ tickets' = [t \in Ids(tickets) |-> x(t)] /\ plan' = [t \in DOMAIN plan |-> NoPlan]
      /\ crashes' = crashes + 1 /\ UNCHANGED <<byKey, opt, lost>>
  BY DEF BreakOff
<1>3. \A t \in Ids(tickets) :
        /\ x(t) \in TicketRecord /\ x(t).goal = tickets[t].goal /\ x(t).deps = tickets[t].deps
        /\ x(t).children = tickets[t].children /\ x(t).key = tickets[t].key
        /\ x(t).depth = tickets[t].depth /\ x(t).status # "running"
        /\ x(t).status = "decomposed" <=> tickets[t].status = "decomposed"
  <2> TAKE t \in Ids(tickets)
  <2>1. tickets[t] \in TicketRecord BY <1>1 DEF Types
  <2>2. "ready" \in Status BY DEF Status
  <2>3. CASE tickets[t].status = "running" BY <2>1, <2>2, <2>3 DEF TicketRecord
  <2>4. CASE tickets[t].status # "running" BY <2>1, <2>4
  <2> QED BY <2>3, <2>4
<1> HIDE DEF x
<1>4. /\ Ids(tickets') = Ids(tickets) /\ \A t \in Ids(tickets) : tickets'[t] = x(t)
      /\ tickets' \in [Ids(tickets) -> TicketRecord]
  BY <1>2, <1>3 DEF Ids
<1>5. DOMAIN plan = Ids(tickets) /\ crashes \in Nat BY <1>1 DEF Types
<1>6. NoPlan \in Plan BY DEF NoPlan, Plan
<1>7. /\ plan' \in [Ids(tickets) -> Plan] /\ crashes' \in Nat /\ crashes' # 0
      /\ \A t \in Ids(tickets) : plan'[t] = NoPlan
  BY <1>2, <1>5, <1>6
<1>8. Types'
  <2>1. \A g \in Goal : <<g>> \in Ids(tickets) /\ tickets[<<g>>].goal = g BY <1>1 DEF Types
  <2>2. \A g \in Goal : <<g>> \in Ids(tickets') /\ tickets'[<<g>>].goal = g BY <1>3, <1>4, <2>1
  <2> QED BY <1>1, <1>2, <1>4, <1>7, <2>2 DEF Types
<1>9. Sane' BY <1>1, <1>2, <1>3, <1>4 DEF Sane
<1>10. Planned'
  <2>1. NoPlan.todo = {} /\ NoPlan.children = {} /\ NoPlan.at = "no" BY DEF NoPlan
  <2>2. \A t \in Ids(tickets') : plan'[t] = NoPlan BY <1>4, <1>7
  <2> QED BY <2>1, <2>2, FS_EmptySet DEF Planned
<1>11. \A t \in Ids(tickets') : Adding(t)' = {} BY <1>4, <1>7 DEF Adding, NoPlan
<1>12. Few'
  <2>1. \A t \in Ids(tickets') : Cardinality(Adding(t)') <= MaxFanOut
    BY <1>11, FS_EmptySet, GraphAssumption, GoalsAssumption
  <2>2. Running' = {} BY <1>3, <1>4 DEF Running
  <2>3. Cardinality(Running') <= Concurrency BY <2>2, FS_EmptySet, GraphAssumption, GoalsAssumption
  <2>4. ASSUME NEW g \in Goal PROVE Load(g)' \subseteq Load(g)
    <3>1. \A t \in Works(g)' : t \in Ids(tickets') BY DEF Works, Tasks
    <3>2. \A t \in Works(g)' : Adding(t)' = {} BY <1>11, <3>1
    <3>3. Tasks(tickets, g)' = Tasks(tickets, g) BY <1>3, <1>4 DEF Tasks
    <3> QED BY <3>2, <3>3 DEF Load
  <2> QED BY <1>1, <2>1, <2>3, <2>4, FewKept
<1>13. Uncrashed' BY <1>7 DEF Uncrashed
<1> QED BY <1>8, <1>9, <1>10, <1>12, <1>13 DEF Inv

\* Nothing happens.
LEMMA StutterInv == ASSUME Inv, UNCHANGED gvars PROVE Inv'
<1>1. /\ tickets' = tickets /\ plan' = plan /\ byKey' = byKey /\ opt' = opt /\ lost' = lost
      /\ crashes' = crashes
  BY DEF gvars
<1>2. Types' /\ Sane' /\ Planned' BY <1>1 DEF Inv, Types, Sane, Planned
<1>3. Few' BY <1>1 DEF Inv, Few, Load, Adding, Works, Running
<1>4. Uncrashed'
  <2>1. Names' = Names /\ All' = All BY <1>1 DEF Names, Coming, All, Items
  <2>2. Rooted' <=> Rooted BY <1>1, <2>1 DEF Rooted, Parent
  <2>3. Named' <=> Named BY <1>1, <2>1 DEF Named
  <2>4. Once' <=> Once BY <1>1 DEF Once, Own
  <2>5. Grounded(All)' <=> Grounded(All) BY <2>1 DEF Grounded
  <2> QED BY <1>1, <2>2, <2>3, <2>4, <2>5 DEF Inv, Uncrashed
<1> QED BY <1>2, <1>3, <1>4 DEF Inv

\* The tickets of the Scheduler wait for nothing and were not split.
LEMMA InitInv == GraphInit => Inv
<1> SUFFICES ASSUME GraphInit PROVE Inv OBVIOUS
<1> DEFINE R == {<<g>> : g \in Goal}
           new(t) == NewTicket(t[1], {}, RootKey(t[1]), 0)
           x(t) == [new(t) EXCEPT !.status = IF t[1] \in opt.goals THEN "pending" ELSE "merged"]
<1>1. /\ tickets = [t \in R |-> x(t)] /\ plan = [t \in R |-> NoPlan]
      /\ byKey = [k \in {RootKey(g) : g \in Goal} |-> <<k[2]>>]
      /\ opt \in Answers /\ lost = {} /\ crashes = 0
  BY DEF GraphInit
<1>2. Ids(tickets) = R BY <1>1 DEF Ids
<1>3. R \in SUBSET Path
  <2> SUFFICES ASSUME NEW g \in Goal PROVE <<g>> \in Path OBVIOUS
  <2>1. g \in Goal \cup Local OBVIOUS
  <2> HIDE DEF R
  <2>2. <<g>> \in Seq(Goal \cup Local) BY <2>1
  <2> QED BY <2>2 DEF Path
<1>4. IsFiniteSet(R)
  <2> DEFINE f == [g \in Goal |-> <<g>>]
  <2>1. IsFiniteSet(Goal) BY FS_Interval, GraphAssumption, GoalsAssumption DEF Goal
  <2>2. \A y \in R : \E g \in Goal : f[g] = y OBVIOUS
  <2> HIDE DEF R, f
  <2> QED BY <2>1, <2>2, ImageFinite
<1>5. \A t \in R : t[1] \in Goal /\ t = <<t[1]>> /\ Len(t) = 1 OBVIOUS
<1>6. \A t \in R :
        /\ x(t) \in TicketRecord /\ x(t).goal = t[1] /\ x(t).deps = {} /\ x(t).children = {}
        /\ x(t).key = RootKey(t[1]) /\ x(t).depth = 0 /\ x(t).status \in {"pending", "merged"}
  <2> TAKE t \in R
  <2>1. RootKey(t[1]) \in AnyKey /\ {"pending", "merged"} \subseteq Status
    BY <1>5 DEF AnyKey, Status, Terminal
  <2> HIDE DEF R
  <2> QED BY <1>5, <2>1 DEF NewTicket, TicketRecord
<1> HIDE DEF x
<1>7. \A t \in R : tickets[t] = x(t) /\ plan[t] = NoPlan BY <1>1
<1>8. \A g \in Goal : RootKey(g) \in DOMAIN byKey /\ byKey[RootKey(g)] = <<g>>
  BY <1>1 DEF RootKey
<1>9. byKey \in [DOMAIN byKey -> R] BY <1>1 DEF RootKey
<1>10. NoPlan \in Plan /\ NoPlan.todo = {} /\ NoPlan.children = {} /\ NoPlan.at = "no"
  BY DEF NoPlan, Plan
<1>11. Types
  <2>1. tickets \in [R -> TicketRecord] /\ plan \in [R -> Plan] BY <1>1, <1>6, <1>10
  <2>2. \A g \in Goal : <<g>> \in R /\ tickets[<<g>>].goal = g BY <1>6, <1>7
  <2> QED BY <1>1, <1>2, <1>3, <1>4, <1>9, <2>1, <2>2 DEF Types
<1>12. Sane
  <2>1. \A t \in R : RootKey(t[1]) \in DOMAIN byKey /\ byKey[RootKey(t[1])] = t BY <1>5, <1>8
  <2>2. 0 <= MaxGraphDepth BY GraphAssumption, GoalsAssumption
  <2> HIDE DEF R
  <2>3. ASSUME NEW t \in R
        PROVE  /\ IsFiniteSet(tickets[t].deps) /\ IsFiniteSet(tickets[t].children)
               /\ tickets[t].depth <= MaxGraphDepth /\ tickets[t].children = {}
               /\ tickets[t].key \in DOMAIN byKey /\ byKey[tickets[t].key] = t
    <3>1. /\ tickets[t].deps = {} /\ tickets[t].children = {} /\ tickets[t].depth = 0
          /\ tickets[t].key = RootKey(t[1])
      BY <1>6, <1>7
    <3> QED BY <2>1, <2>2, <3>1, FS_EmptySet
  <2> QED BY <1>2, <2>3 DEF Sane
<1> HIDE DEF R
<1>13. Planned BY <1>2, <1>7, <1>10, FS_EmptySet DEF Planned
<1>14. \A t \in R : Adding(t) = {} BY <1>2, <1>7, <1>10 DEF Adding
<1>15. Few
  <2>1. Running = {} BY <1>2, <1>6, <1>7 DEF Running
  <2>2. ASSUME NEW g \in Goal
        PROVE  Cardinality(Load(g)) <= MaxTicketsPerGoal + (Concurrency - 1) * MaxFanOut
    <3>1. Works(g) = {} BY <1>2, <1>7, <1>10 DEF Works, Tasks
    <3>2. Load(g) \subseteq {<<g>>} BY <1>2, <1>5, <1>6, <1>7, <3>1 DEF Load, Tasks
    <3>3. IsFiniteSet({<<g>>}) /\ Cardinality({<<g>>}) = 1 BY FS_Singleton
    <3>4. IsFiniteSet(Load(g)) /\ Cardinality(Load(g)) <= 1 BY <3>2, <3>3, FS_Subset
    <3>5. Cardinality(Load(g)) \in Nat BY <3>4, FS_CardinalityType
    <3>6. /\ Concurrency - 1 \in Nat /\ MaxFanOut \in Nat /\ MaxTicketsPerGoal \in Nat
          /\ MaxTicketsPerGoal >= 1
      BY GraphAssumption, GoalsAssumption
    <3>7. (Concurrency - 1) * MaxFanOut \in Nat BY <3>6
    <3> QED BY <3>4, <3>5, <3>6, <3>7
  <2> QED BY <1>2, <1>14, <2>1, <2>2, FS_EmptySet, GraphAssumption, GoalsAssumption DEF Few
<1>16. Uncrashed
  <2>1. Coming = {}
    <3>1. ListsAre BY <1>11, ComingIs
    <3> QED BY <1>2, <1>7, <1>10, <3>1 DEF ListsAre
  <2>2. Names = R BY <1>1, <1>2, <2>1 DEF Names
  <2>3. Rooted
    <3>1. \A p \in Names : ~(Len(p) > 1) BY <1>5, <2>2
    <3> QED BY <3>1 DEF Rooted
  <2>4. Named BY <1>2, <1>6, <1>7, <1>10 DEF Named
  <2>5. Once BY <1>2, <1>6, <1>7, <1>10, OwnNone DEF Once
  <2>6. Grounded(All)
    <3>1. ListsAre BY <1>11, ComingIs
    <3>2. \A p \in DOMAIN All : \A d : d \notin All[p]
      BY <1>2, <1>6, <1>7, <1>10, <3>1 DEF ListsAre
    <3> QED BY <3>2 DEF Grounded
  <2> QED BY <2>3, <2>4, <2>5, <2>6 DEF Uncrashed
<1> QED BY <1>11, <1>12, <1>13, <1>15, <1>16 DEF Inv

\* Every step keeps the invariant.
LEMMA StepInv == ASSUME Inv, NEW t \in Ids(tickets), Step(t) PROVE Inv'
<1>1. Types /\ Sane /\ Planned /\ Few /\ Uncrashed BY DEF Inv
<1>2. CASE Promote(t) \/ Start(t) \/ Finish(t) \/ FailBlocked(t) \/ FailDecompose(t)
             \/ Decomposed(t)
  <2>1. Types' /\ Moved(t) /\ (SplitUp(t) \/ MovedOn(t)) BY <1>1, <1>2, Moves
  <2>2. Sane' /\ Planned' BY <1>1, <2>1, MovedSane
  <2>3. Few' BY <1>1, <2>1, MovedFew
  <2>4. Uncrashed' BY <1>1, <2>1, MovedUncrashed
  <2> QED BY <2>1, <2>2, <2>3, <2>4 DEF Inv
<1>3. ASSUME NEW c \in plan[t].todo, CreateChild(t, c) PROVE Inv'
  <2>1. Types' /\ Creates(t, c) /\ (Created(t, c) \/ Dropped(t, c)) BY <1>1, <1>3, CreateIs
  <2>2. Sane' /\ Planned' BY <1>1, <2>1, CreateSane
  <2>3. Few' BY <1>1, <2>1, CreateFew
  <2>4. Uncrashed' BY <1>1, <2>1, CreateUncrashed
  <2> QED BY <2>1, <2>2, <2>3, <2>4 DEF Inv
<1>4. ASSUME NEW subs \in opt.says[tickets[t].goal], Split(t, subs) PROVE Inv'
  <2>1. CASE Listed(t, [NoPlan EXCEPT !.at = "fail"])
    <3>1. Types' /\ Sane' /\ Planned' BY <1>1, <2>1, RejectedSane
    <3>2. Few' BY <1>1, <2>1, RejectedFew
    <3>3. Uncrashed' BY <1>1, <2>1, <3>1, RejectedUncrashed
    <3> QED BY <3>1, <3>2, <3>3 DEF Inv
  <2>2. ASSUME NEW cs, Accepted(t, cs), Listed(t, ListOf(cs)) PROVE Inv'
    <3>1. Types' /\ Sane' /\ Planned' BY <1>1, <2>2, AcceptedSane
    <3>2. Few' BY <1>1, <2>2, AcceptedLoad
    <3>3. Uncrashed' BY <1>1, <2>2, <3>1, AcceptedUncrashed
    <3> QED BY <3>1, <3>2, <3>3 DEF Inv
  <2> QED BY <1>1, <1>4, <2>1, <2>2, SplitIs
<1> QED BY <1>2, <1>3, <1>4 DEF Step

\* The inductive invariant.
THEOREM InvHolds == GraphSpec => []Inv
<1>1. Inv /\ [GraphNext]_gvars => Inv'
  <2> SUFFICES ASSUME Inv, [GraphNext]_gvars PROVE Inv' OBVIOUS
  <2>1. CASE BreakOff BY <2>1, BreakOffInv
  <2>2. ASSUME NEW t \in Ids(tickets), Step(t) PROVE Inv' BY <2>2, StepInv
  <2>3. CASE UNCHANGED gvars BY <2>3, StutterInv
  <2> QED BY <2>1, <2>2, <2>3 DEF GraphNext
<1> QED BY <1>1, InitInv, PTL DEF GraphSpec

-----------------------------------------------------------------------------
(* The properties *)

\* The dependencies there are make a finite graph, whose cycles HasCycle finds.
LEMMA DependenciesFound ==
  ASSUME Types, Sane
  PROVE  HasCycle(Dependencies(tickets)) <=> ~Acyclic(Dependencies(tickets))
<1>1. FiniteGraph(Dependencies(tickets)) BY DEF FiniteGraph, Dependencies, Types, Sane
<1> QED BY <1>1, CycleFound

\* The largest of what is counted on a goal's tickets.
LEMMA MaxOfTasks ==
  ASSUME Types, Planned, NEW g \in Goal, NEW f, NEW k,
         \A t \in Tasks(tickets, g) : f[t] \in Nat /\ f[t] <= k
  PROVE  Max({f[t] : t \in Tasks(tickets, g)}) <= k
<1> DEFINE T == Tasks(tickets, g)
           M == {f[t] : t \in T}
<1>1. IsFiniteSet(T) /\ <<g>> \in T BY AddingFinite DEF Tasks, Types
<1> HIDE DEF T
<1>2. M \subseteq Nat /\ M # {} /\ \A m \in M : m <= k BY <1>1 DEF T
<1>3. \A m \in M : \E t \in T : f[t] = m OBVIOUS
<1>4. Max(M) \in M
  <2> HIDE DEF M
  <2>1. IsFiniteSet(M) BY <1>1, <1>3, ImageFinite
  <2> QED BY <1>2, <2>1, MaxIs
<1> QED BY <1>2, <1>4 DEF T

\* The shape of a goal's graph.
LEMMA ShapeBound ==
  ASSUME Inv, NEW g \in Goal
  PROVE  LET shape == Shape(tickets, g)
         IN /\ shape.depth <= MaxGraphDepth
            /\ crashes = 0 => shape.own <= MaxFanOut
            /\ shape.tickets <= MaxTicketsPerGoal + (Concurrency - 1) * MaxFanOut
<1> DEFINE T == Tasks(tickets, g)
           depth == [t \in T |-> tickets[t].depth]
           own == [t \in T |-> Cardinality({u \in tickets[t].children : Front(u) = t})]
<1>1. Types /\ Sane /\ Planned /\ Few /\ Uncrashed BY DEF Inv
<1>2. T \subseteq Ids(tickets) BY DEF Tasks
<1>3. Shape(tickets, g).depth = Max({depth[t] : t \in T})
  <2>1. {depth[t] : t \in T} = {tickets[t].depth : t \in T} OBVIOUS
  <2> HIDE DEF depth
  <2> QED BY <2>1 DEF Shape
<1>4. Shape(tickets, g).own = Max({own[t] : t \in T})
  <2>1. {own[t] : t \in T}
          = {Cardinality({u \in tickets[t].children : Front(u) = t}) : t \in T}
    OBVIOUS
  <2> HIDE DEF own
  <2> QED BY <2>1 DEF Shape
<1>5. Shape(tickets, g).tickets = Cardinality(T) BY DEF Shape
<1>6. \A t \in T : depth[t] \in Nat /\ depth[t] <= MaxGraphDepth
  <2> TAKE t \in T
  <2>1. tickets[t] \in TicketRecord BY <1>1, <1>2 DEF Types
  <2>2. tickets[t].depth \in Nat BY <2>1 DEF TicketRecord
  <2> QED BY <1>1, <1>2, <2>2 DEF Sane
<1>7. ASSUME crashes = 0 PROVE \A t \in T : own[t] \in Nat /\ own[t] <= MaxFanOut
  <2> TAKE t \in T
  <2>1. own[t] = Cardinality(Own(t, tickets[t].children)) BY DEF Own
  <2>2. Cardinality(Own(t, tickets[t].children)) <= MaxFanOut
    BY <1>1, <1>2, <1>7 DEF Uncrashed, Once
  <2>3. IsFiniteSet(Own(t, tickets[t].children))
    <3>1. IsFiniteSet(tickets[t].children) BY <1>1, <1>2 DEF Sane
    <3>2. Own(t, tickets[t].children) \subseteq tickets[t].children BY DEF Own
    <3> QED BY <3>1, <3>2, FS_Subset
  <2>4. Cardinality(Own(t, tickets[t].children)) \in Nat BY <2>3, FS_CardinalityType
  <2> QED BY <2>1, <2>2, <2>4
<1> HIDE DEF depth, own
<1>8. Shape(tickets, g).depth <= MaxGraphDepth BY <1>1, <1>3, <1>6, MaxOfTasks
<1>9. crashes = 0 => Shape(tickets, g).own <= MaxFanOut BY <1>1, <1>4, <1>7, MaxOfTasks
<1>10. Shape(tickets, g).tickets <= MaxTicketsPerGoal + (Concurrency - 1) * MaxFanOut
  <2>1. IsFiniteSet(Load(g)) /\ T \subseteq Load(g) BY <1>1, AddingFinite DEF Load
  <2>2. IsFiniteSet(T) /\ Cardinality(T) <= Cardinality(Load(g)) BY <2>1, FS_Subset
  <2>3. Cardinality(T) \in Nat /\ Cardinality(Load(g)) \in Nat
    BY <2>1, <2>2, FS_CardinalityType
  <2> DEFINE limit == MaxTicketsPerGoal + (Concurrency - 1) * MaxFanOut
  <2>4. limit \in Int BY GraphAssumption, GoalsAssumption
  <2>5. Cardinality(Load(g)) <= limit BY <1>1 DEF Few
  <2> HIDE DEF limit, T
  <2>6. Cardinality(T) <= limit BY <2>2, <2>3, <2>4, <2>5
  <2> QED BY <1>5, <2>6 DEF limit
<1> QED BY <1>8, <1>9, <1>10

\* Until a crash.
LEMMA GraphUncrashed ==
  ASSUME Inv, crashes = 0
  PROVE  /\ Acyclic(Dependencies(tickets))
         /\ Missing(tickets) \subseteq lost \cup Coming
         /\ CriticalPath(tickets) <= Cardinality(Ids(tickets))
<1>1. Types /\ Sane /\ Planned /\ Named /\ Grounded(All) BY DEF Inv, Uncrashed
<1>2. ListsAre /\ IsFiniteSet(Ids(tickets)) BY <1>1, ComingIs DEF Types
<1> DEFINE D == Dependencies(tickets)
<1>3. DOMAIN D = Ids(tickets) /\ \A t \in Ids(tickets) : D[t] = tickets[t].deps BY DEF Dependencies
<1>4. DOMAIN D \subseteq DOMAIN All BY <1>2, <1>3 DEF ListsAre
<1>5. \A t \in DOMAIN D : D[t] \subseteq All[t] BY <1>2, <1>3, <1>4 DEF ListsAre
<1> HIDE DEF D
<1>6. Grounded(D) BY <1>1, <1>4, <1>5, GroundedPart
<1>7. Acyclic(D) BY <1>2, <1>3, <1>6, GroundedAcyclic
<1>8. Missing(tickets) \subseteq lost \cup Coming
  <2> SUFFICES ASSUME NEW p \in Missing(tickets) PROVE p \in lost \cup Coming OBVIOUS
  <2>1. p \notin Ids(tickets) /\ \E t \in Ids(tickets) : p \in tickets[t].deps \cup Children(tickets)[t]
    BY DEF Missing
  <2>2. PICK t \in Ids(tickets) : p \in tickets[t].deps \cup Children(tickets)[t] BY <2>1
  <2>3. Children(tickets)[t] \subseteq tickets[t].children BY DEF Children
  <2>4. p \in Names BY <1>1, <2>2, <2>3 DEF Named
  <2> QED BY <2>1, <2>4 DEF Names
<1>9. CriticalPath(tickets) <= Cardinality(Ids(tickets)) BY <1>2, <1>6, CriticalPathBound DEF D
<1> QED BY <1>7, <1>8, <1>9 DEF D

\* A key names one ticket, and the graph is what GraphSound says.
LEMMA InvSound == Inv => GraphSound
<1> SUFFICES ASSUME Inv PROVE GraphSound OBVIOUS
<1>1. Types /\ Sane BY DEF Inv
<1>2. HasCycle(Dependencies(tickets)) <=> ~Acyclic(Dependencies(tickets))
  BY <1>1, DependenciesFound
<1>3. \A t, u \in Ids(tickets) : t # u /\ tickets[t].key = tickets[u].key => tickets[t].key = NoKey
  BY <1>1 DEF Sane
<1>4. \A k \in DOMAIN byKey : byKey[k] \in Ids(tickets) BY <1>1 DEF Types
<1>5. \A g \in Goal :
        LET shape == Shape(tickets, g)
        IN /\ shape.depth <= MaxGraphDepth
           /\ crashes = 0 => shape.own <= MaxFanOut
           /\ shape.tickets <= MaxTicketsPerGoal + (Concurrency - 1) * MaxFanOut
  BY ShapeBound
<1>6. crashes = 0 =>
        /\ Acyclic(Dependencies(tickets))
        /\ Missing(tickets) \subseteq lost \cup Coming
        /\ CriticalPath(tickets) <= Cardinality(Ids(tickets))
  BY GraphUncrashed
<1> QED BY <1>2, <1>3, <1>4, <1>5, <1>6 DEF GraphSound

\* Whatever agents answer, and however their splits interleave and crash: a key names one
\* ticket, the graph is no larger than its governors and the splits beside one another
\* make it, and until a crash it has no cycle and names tickets there are or will be.
THEOREM GraphsSound == GraphSpec => []GraphSound
<1> QED BY InvHolds, InvSound, PTL

\* When nothing is left to do, in a graph without a cycle in which no ticket is missing,
\* every ticket is merged, failed or decomposed, and every goal has its outcome.
THEOREM WaitsHaveAnEnd == GraphSpec => []WaitsEnd
<1>1. Inv => WaitsEnd BY WaitingEnds DEF Inv
<1> QED BY <1>1, InvHolds, PTL
================================================================================
