----------------------------- MODULE Recursion -----------------------------
(***************************************************************************)
(* Lemmas on functions that are defined by recursion: along a function     *)
(* that says what comes next, which does not go on forever. A definition   *)
(* f[n \in S] == e is the choice of a function that is equal to [n \in S   *)
(* |-> e], so it takes one such function to know that f is.                *)
(***************************************************************************)
EXTENDS Integers, WellFoundedInduction, TLAPS

LEMMA SmallestOf ==
  ASSUME NEW S \in SUBSET Nat, S # {}
  PROVE  \E k \in S : \A j \in S : k <= j
<1>1. PICK k \in S : \A j \in S : ~(<<j, k>> \in OpToRel(<, Nat))
  BY NatLessThanWellFounded, WFMin
<1>2. \A j \in S : ~(j < k)
  BY <1>1 DEF OpToRel
<1> QED BY <1>2

\* No set of S goes on forever: one of its members has its next outside.
Ends(S, next) == \A T \in SUBSET S : T # {} => \E n \in T : next[n] \notin T

\* What is defined by recursion along next, from G where there is a next one and from B else.
Along(S, next, G, B, f) ==
  \A n \in S : f[n] = IF next[n] \in S THEN G[n][f[next[n]]] ELSE B[n]

LEMMA RecursionAlong ==
  ASSUME NEW S, NEW next, Ends(S, next), NEW V, NEW G \in [S -> [V -> V]], NEW B \in [S -> V]
  PROVE  \E f \in [S -> V] : Along(S, next, G, B, f)
<1> DEFINE Sol(g, T) == /\ T \in SUBSET S /\ g \in [T -> V]
                        /\ \A n \in T : /\ next[n] \in S => next[n] \in T
                                        /\ g[n] = IF next[n] \in S THEN G[n][g[next[n]]] ELSE B[n]
           P == {n \in S : \E T, g : n \in T /\ Sol(g, T)}
           Some(n, x) == \E T, g : n \in T /\ Sol(g, T) /\ x = g[n]
           f == [n \in S |-> CHOOSE x \in V : Some(n, x)]
<1>1. ASSUME NEW T, NEW U, NEW g, NEW h, Sol(g, T), Sol(h, U), NEW n \in T \intersect U
      PROVE  g[n] = h[n]
  <2> DEFINE D == {m \in T \intersect U : g[m] # h[m]}
  <2> SUFFICES ASSUME g[n] # h[n] PROVE FALSE
    OBVIOUS
  <2>1. D \in SUBSET S /\ D # {}
    BY <1>1
  <2>2. PICK m \in D : next[m] \notin D
    BY <2>1 DEF Ends
  <2>3. CASE next[m] \in S
    BY <1>1, <2>2, <2>3
  <2>4. CASE next[m] \notin S
    BY <1>1, <2>2, <2>4
  <2> QED BY <2>3, <2>4
<1>2. P = S
  <2> DEFINE D == S \ P
  <2> SUFFICES ASSUME D # {} PROVE FALSE
    OBVIOUS
  <2>1. D \in SUBSET S
    OBVIOUS
  <2>2. PICK n \in D : next[n] \notin D
    BY <2>1 DEF Ends
  <2>3. CASE next[n] \notin S
    <3> DEFINE T == {n}
               g == [x \in T |-> B[x]]
    <3>1. Sol(g, T)
      BY <2>2, <2>3
    <3>2. T \in SUBSET S /\ n \in T /\ g \in [T -> V]
      OBVIOUS
    <3> QED BY <2>2, <3>1, <3>2
  <2>4. CASE next[n] \in S
    <3>1. next[n] \in P
      BY <2>2, <2>4
    <3>2. PICK T, g : next[n] \in T /\ Sol(g, T)
      BY <3>1
    <3>3. n \notin T
      BY <2>2, <3>2
    <3> DEFINE U == T \union {n}
               h == [x \in U |-> IF x \in T THEN g[x] ELSE G[n][g[next[n]]]]
    <3>4. G[n] \in [V -> V] /\ g[next[n]] \in V
      BY <2>2, <3>2
    <3>5. U \in SUBSET S /\ h \in [U -> V]
      BY <2>2, <3>2, <3>4
    <3>6. ASSUME NEW x \in U
          PROVE  /\ next[x] \in S => next[x] \in U
                 /\ h[x] = IF next[x] \in S THEN G[x][h[next[x]]] ELSE B[x]
      <4>1. CASE x \in T
        BY <3>2, <3>6, <4>1
      <4>2. CASE x = n
        BY <2>2, <2>4, <3>2, <3>3, <4>2
      <4> QED BY <3>6, <4>1, <4>2
    <3>7. Sol(h, U)
      BY <3>5, <3>6
    <3>8. n \in U /\ n \in S /\ n \notin P
      BY <2>2
    <3> HIDE DEF Sol, U, h
    <3> QED BY <3>7, <3>8
  <2> QED BY <2>3, <2>4
<1>3. ASSUME NEW T, NEW g, Sol(g, T), NEW n \in T PROVE n \in S /\ f[n] = g[n]
  <2>1. n \in S /\ g[n] \in V
    BY <1>3
  <2>2. Some(n, g[n])
    BY <1>3
  <2>3. \A x : Some(n, x) => x = g[n]
    BY <1>1, <1>3
  <2> HIDE DEF Some
  <2> QED BY <2>1, <2>2, <2>3
<1>4. ASSUME NEW n \in S
      PROVE  f[n] \in V /\ f[n] = IF next[n] \in S THEN G[n][f[next[n]]] ELSE B[n]
  <2>1. PICK T, g : n \in T /\ Sol(g, T)
    BY <1>2
  <2>2. f[n] = g[n] /\ g[n] \in V
    BY <1>3, <2>1
  <2>3. next[n] \in S => next[n] \in T /\ f[next[n]] = g[next[n]]
    <3>1. next[n] \in S => next[n] \in T
      BY <2>1
    <3> HIDE DEF Sol, f
    <3> QED BY <1>3, <2>1, <3>1
  <2> HIDE DEF f
  <2> QED BY <2>1, <2>2, <2>3
<1>5. f \in [S -> V]
  BY <1>4
<1> HIDE DEF f
<1> QED BY <1>4, <1>5 DEF Along

LEMMA CountingEnds ==
  ASSUME NEW n \in Nat
  PROVE  Ends(1..n, [i \in 1..n |-> i + 1])
<1> SUFFICES ASSUME NEW T \in SUBSET (1..n), T # {} PROVE \E i \in T : i + 1 \notin T
  BY DEF Ends
<1> DEFINE S == {n - i : i \in T}
<1>1. S \in SUBSET Nat /\ S # {}
  <2>1. \A i \in T : n - i \in Nat
    OBVIOUS
  <2>2. S # {}
    OBVIOUS
  <2> QED BY <2>1, <2>2
<1>2. PICK k \in S : \A j \in S : k <= j
  <2> HIDE DEF S
  <2> QED BY <1>1, SmallestOf
<1>3. PICK i \in T : k = n - i
  BY <1>2
<1>4. i + 1 \in T => n - (i + 1) \in S
  OBVIOUS
<1>5. i \in 1..n
  OBVIOUS
<1>6. i + 1 \in T => n - i <= n - (i + 1)
  BY <1>2, <1>3, <1>4
<1>7. i + 1 \notin T
  BY ONLY <1>5, <1>6, n \in Nat
<1> QED BY <1>7

\* What holds at m, and at a number if it does at the one before, holds from m to n.
LEMMA CountingUp ==
  ASSUME NEW m \in Int, NEW n \in Int, NEW P \in SUBSET (m..n), m <= n => m \in P,
         \A k \in (m + 1)..n : k - 1 \in P => k \in P
  PROVE  P = m..n
<1> DEFINE D == {k - m : k \in (m..n) \ P}
<1> SUFFICES ASSUME (m..n) \ P # {} PROVE FALSE
  OBVIOUS
<1>1. D \in SUBSET Nat /\ D # {}
  <2>1. \A k \in (m..n) \ P : k - m \in Nat
    OBVIOUS
  <2> QED BY <2>1
<1>2. PICK d \in D : \A e \in D : d <= e
  <2> HIDE DEF D
  <2> QED BY <1>1, SmallestOf
<1>3. PICK k \in (m..n) \ P : d = k - m
  BY <1>2
<1>4. k \in m..n /\ k \notin P /\ k # m
  BY <1>3
<1>5. k \in (m + 1)..n /\ k - 1 \in m..n
  BY ONLY <1>4, m \in Int, n \in Int
<1>6. k - 1 \notin P
  BY <1>4, <1>5
<1>7. (k - 1) - m \in D
  BY <1>5, <1>6
<1>8. k - m <= (k - 1) - m
  BY <1>2, <1>3, <1>7
<1> QED BY ONLY <1>4, <1>8, m \in Int, n \in Int

\* What is defined by recursion up from m, where it is b.
Up(m, n, G, b, f) == \A k \in m..n : f[k] = IF k = m THEN b ELSE G[k][f[k - 1]]

LEMMA RecursionUp ==
  ASSUME NEW m \in Int, NEW n \in Int, NEW V, NEW b \in V, NEW G \in [m..n -> [V -> V]]
  PROVE  \E f \in [m..n -> V] : Up(m, n, G, b, f)
<1> DEFINE S == m..n
           next == [k \in S |-> k - 1]
           B == [k \in S |-> b]
<1>1. Ends(S, next)
  <2> SUFFICES ASSUME NEW T \in SUBSET S, T # {} PROVE \E k \in T : next[k] \notin T
    BY DEF Ends
  <2> DEFINE D == {k - m : k \in T}
  <2>1. D \in SUBSET Nat /\ D # {}
    <3>1. \A k \in T : k - m \in Nat
      OBVIOUS
    <3> QED BY <3>1
  <2>2. PICK d \in D : \A e \in D : d <= e
    <3> HIDE DEF D
    <3> QED BY <2>1, SmallestOf
  <2>3. PICK k \in T : d = k - m
    BY <2>2
  <2>4. k \in S /\ k \in Int
    OBVIOUS
  <2>5. k - 1 \in T => k - m <= (k - 1) - m
    BY <2>2, <2>3
  <2>6. k - 1 \notin T
    BY ONLY <2>4, <2>5, m \in Int
  <2> QED BY <2>4, <2>6
<1>2. B \in [S -> V]
  OBVIOUS
<1>3. PICK f \in [S -> V] : Along(S, next, G, B, f)
  <2> HIDE DEF S, next, B
  <2>1. G \in [S -> [V -> V]]
    BY DEF S
  <2> QED BY <1>1, <1>2, <2>1, RecursionAlong
<1>4. ASSUME NEW k \in S PROVE f[k] = IF k = m THEN b ELSE G[k][f[k - 1]]
  <2>1. next[k] = k - 1 /\ (k = m => k - 1 \notin S) /\ (k # m => k - 1 \in S) /\ B[k] = b
    BY ONLY m \in Int, n \in Int, k \in S
  <2> HIDE DEF S, next, B
  <2> QED BY <1>3, <2>1 DEF Along
<1> QED BY <1>4 DEF Up
=============================================================================
