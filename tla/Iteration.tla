----------------------------- MODULE Iteration -----------------------------
(***************************************************************************)
(* A loop of the code that does Step for the indices 1 to N, with what the  *)
(* theorems of its users need: a loop of N + 1 rounds is a loop of N rounds *)
(* and one more.  Step has a parameter c for what is the same in all        *)
(* rounds.  A user INSTANCEs the module with its own Step, so that the      *)
(* theorems, too, are about that Step.                                      *)
(***************************************************************************)
EXTENDS Integers, WellFoundedInduction, TLAPS

CONSTANT Step(_, _, _)    \* what is the same in all rounds, what there is, the index

Iterate(c, base, N) ==
  LET after[n \in 0 .. N] == IF n = 0 THEN base ELSE Step(c, after[n - 1], n)
  IN after[N]
-----------------------------------------------------------------------------
\* A set of numbers that is not empty has a least one.
LEMMA LeastNumber ==
  ASSUME NEW T \in SUBSET Nat, T # {}
  PROVE  \E m \in T : \A k \in T : m <= k
  <1>1. PICK m \in T : \A k \in T : ~ (<<k, m>> \in OpToRel(<, Nat))
    BY NatLessThanWellFounded, WFMin
  <1>2. \A k \in T : ~ (k < m)
    BY <1>1 DEF OpToRel
  <1> QED BY <1>2

\* Induction from 0 to N, about the set of the numbers that have a property.
LEMMA Induction ==
  ASSUME NEW N \in Nat, NEW S, 0 \in S, \A n \in 0 .. N - 1 : n \in S => n + 1 \in S
  PROVE  \A n \in 0 .. N : n \in S
  <1> DEFINE Bad == {n \in 0 .. N : n \notin S}
  <1>1. SUFFICES ASSUME Bad # {} PROVE FALSE
    OBVIOUS
  <1>2. Bad \in SUBSET Nat
    OBVIOUS
  <1>3. PICK m \in Bad : \A k \in Bad : m <= k
    BY <1>1, <1>2, LeastNumber
  <1>4. m # 0 /\ m - 1 \in 0 .. N - 1
    BY <1>3
  <1>5. m - 1 \in S
    <2>1. m - 1 \notin Bad
      BY <1>3, <1>4
    <2> QED BY <2>1, <1>4
  <1>6. (m - 1) + 1 \in S
    BY <1>4, <1>5
  <1> QED BY <1>3, <1>6

\* f has what there is after each round.
IsLoop(c, base, N, f) ==
  f = [n \in 0 .. N |-> IF n = 0 THEN base ELSE Step(c, f[n - 1], n)]

\* There is such an f: the one for N has another round added to it.
LEMMA LoopExists ==
  ASSUME NEW c, NEW base, NEW N \in Nat
  PROVE  \E f : IsLoop(c, base, N, f)
  <1> DEFINE S == {n \in 0 .. N : \E f : IsLoop(c, base, n, f)}
  <1>1. 0 \in S
    <2> DEFINE f == [n \in 0 .. 0 |-> base]
    <2>1. IsLoop(c, base, 0, f)
      BY DEF IsLoop
    <2> QED BY <2>1
  <1>2. ASSUME NEW m \in 0 .. N - 1, m \in S PROVE m + 1 \in S
    <2>1. PICK g : IsLoop(c, base, m, g)
      BY <1>2
    <2> DEFINE f == [n \in 0 .. m + 1 |-> IF n = m + 1 THEN Step(c, g[m], m + 1) ELSE g[n]]
               h == [n \in 0 .. m + 1 |-> IF n = 0 THEN base ELSE Step(c, f[n - 1], n)]
    <2>2. ASSUME NEW n \in 0 .. m + 1 PROVE f[n] = h[n]
      <3>1. CASE n = m + 1
        BY <3>1
      <3>2. CASE n # m + 1
        <4>1. n \in 0 .. m /\ f[n] = g[n]
          BY <3>2
        <4>2. g[n] = IF n = 0 THEN base ELSE Step(c, g[n - 1], n)
          BY <4>1, <2>1 DEF IsLoop
        <4>3. n # 0 => n - 1 \in 0 .. m + 1 /\ n - 1 # m + 1 /\ f[n - 1] = g[n - 1]
          BY <4>1
        <4> QED BY <4>1, <4>2, <4>3
      <3> QED BY <3>1, <3>2
    <2>3. f = h
      BY <2>2
    <2>4. IsLoop(c, base, m + 1, f)
      BY <2>3 DEF IsLoop
    <2> QED BY <2>4
  <1> HIDE DEF S
  <1>3. N \in S
    BY <1>1, <1>2, Induction
  <1> QED BY <1>3 DEF S

\* Iterate is the last value of such an f.
LEMMA IterateIsLoop ==
  ASSUME NEW c, NEW base, NEW N \in Nat
  PROVE  \E f : IsLoop(c, base, N, f) /\ Iterate(c, base, N) = f[N]
  <1> DEFINE it == CHOOSE f : f = [n \in 0 .. N |-> IF n = 0 THEN base ELSE Step(c, f[n - 1], n)]
  <1>1. PICK f : IsLoop(c, base, N, f)
    BY LoopExists
  <1>2. f = [n \in 0 .. N |-> IF n = 0 THEN base ELSE Step(c, f[n - 1], n)]
    BY <1>1 DEF IsLoop
  <1>3. it = [n \in 0 .. N |-> IF n = 0 THEN base ELSE Step(c, it[n - 1], n)]
    BY <1>2
  <1>4. Iterate(c, base, N) = it[N]
    BY DEF Iterate
  <1> HIDE DEF it
  <1> QED BY <1>3, <1>4 DEF IsLoop

\* A longer loop begins as a shorter one.
LEMMA LoopUnique ==
  ASSUME NEW c, NEW base, NEW N \in Nat, NEW f, NEW g,
         IsLoop(c, base, N + 1, f), IsLoop(c, base, N, g)
  PROVE  f[N] = g[N]
  <1> DEFINE S == {n \in 0 .. N : f[n] = g[n]}
  <1>1. 0 \in S
    BY DEF IsLoop
  <1>2. ASSUME NEW n \in 0 .. N - 1, n \in S PROVE n + 1 \in S
    <2>1. /\ f[n + 1] = Step(c, f[(n + 1) - 1], n + 1) /\ g[n + 1] = Step(c, g[(n + 1) - 1], n + 1)
      BY DEF IsLoop
    <2>2. (n + 1) - 1 = n
      OBVIOUS
    <2> QED BY <1>2, <2>1, <2>2
  <1> HIDE DEF S
  <1>3. N \in S
    BY <1>1, <1>2, Induction
  <1> QED BY <1>3 DEF S

\* A loop of no rounds does nothing, a loop of one more round does one more step.
THEOREM Unfold ==
  ASSUME NEW c, NEW base
  PROVE  /\ Iterate(c, base, 0) = base
         /\ \A N \in Nat : Iterate(c, base, N + 1) = Step(c, Iterate(c, base, N), N + 1)
  <1>1. Iterate(c, base, 0) = base
    BY IterateIsLoop DEF IsLoop
  <1>2. ASSUME NEW N \in Nat
        PROVE  Iterate(c, base, N + 1) = Step(c, Iterate(c, base, N), N + 1)
    <2>1. PICK f : IsLoop(c, base, N + 1, f) /\ Iterate(c, base, N + 1) = f[N + 1]
      BY IterateIsLoop
    <2>2. PICK g : IsLoop(c, base, N, g) /\ Iterate(c, base, N) = g[N]
      BY IterateIsLoop
    <2>3. f[N] = g[N]
      BY <2>1, <2>2, LoopUnique
    <2>4. f[N + 1] = Step(c, f[N], N + 1)
      <3>1. f[N + 1] = Step(c, f[(N + 1) - 1], N + 1)
        BY <2>1 DEF IsLoop
      <3>2. (N + 1) - 1 = N
        OBVIOUS
      <3> QED BY <3>1, <3>2
    <2> QED BY <2>1, <2>2, <2>3, <2>4
  <1> QED BY <1>1, <1>2
=============================================================================
