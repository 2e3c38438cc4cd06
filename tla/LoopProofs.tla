----------------------------- MODULE LoopProofs -----------------------------
(***************************************************************************)
(* Loops as recursive functions of the number of turns taken: that the     *)
(* function exists, and that what every turn keeps holds at the end.  These *)
(* stand in for induction over the turns.                                  *)
(***************************************************************************)
EXTENDS Integers, WellFoundedInduction, TLAPS

\* A set of numbers has a least one.
LEMMA LeastExists ==
  ASSUME NEW T \in SUBSET Nat, T # {}
  PROVE  \E t \in T : \A u \in T : t <= u
  <1> DEFINE R == {ss \in Nat \X Nat : ss[1] < ss[2]}
  <1>1. IsWellFoundedOn(R, Nat)
    BY NatLessThanWellFounded DEF OpToRel
  <1> HIDE DEF R
  <1>2. PICK t \in T : \A u \in T : ~(<<u, t>> \in R)
    BY <1>1, WFMin
  <1>3. ASSUME NEW u \in Nat, NEW v \in Nat, u < v PROVE <<u, v>> \in R
    <2>1. <<u, v>> \in Nat \X Nat /\ <<u, v>>[1] = u /\ <<u, v>>[2] = v
      OBVIOUS
    <2> QED
      BY <1>3, <2>1, Zenon DEF R
  <1>4. \A u \in T : ~(u < t)
    BY <1>2, <1>3
  <1> QED
    BY <1>4

\* What holds before the first turn of a loop, and after a turn if it held before
\* it, holds after every turn.
LEMMA EveryTurn ==
  ASSUME NEW N \in Nat, NEW T, 0 \in T, \A n \in 1 .. N : n - 1 \in T => n \in T
  PROVE  0 .. N \subseteq T
  <1> DEFINE F == {n \in 0 .. N : n \notin T}
  <1>1. CASE F = {}
    BY <1>1
  <1>2. CASE F # {}
    <2>1. F \in SUBSET Nat
      OBVIOUS
    <2>2. PICK t \in F : \A u \in F : t <= u
      <3> HIDE DEF F
      <3> QED
        BY <1>2, <2>1, LeastExists
    <2>3. t \in 1 .. N /\ t - 1 \in 0 .. N /\ ~(t <= t - 1)
      BY <2>2
    <2>4. t - 1 \notin F
      BY <2>2, <2>3
    <2> QED
      BY <2>2, <2>3, <2>4
  <1> QED
    BY <1>1, <1>2

\* f is what a loop of m turns goes through, turn n being the function F[n].
IsLoop(f, m, base, F) ==
    /\ f = [n \in 0 .. m |-> f[n]]
    /\ f[0] = base
    /\ \A n \in 1 .. m : f[n] = F[n][f[n - 1]]

\* A loop of N turns goes through some states, among those S[n] which turn n may
\* leave behind.
LEMMA LoopStates ==
  ASSUME NEW N \in Nat, NEW S, NEW base, base \in S[0], NEW F,
         \A n \in 1 .. N : \A s \in S[n - 1] : F[n][s] \in S[n]
  PROVE  \E f : IsLoop(f, N, base, F) /\ \A n \in 0 .. N : f[n] \in S[n]
  <1>1. \E f : IsLoop(f, N, base, F)
    <2> DEFINE T == {m \in 0 .. N : \E f : IsLoop(f, m, base, F)}
    <2>1. 0 \in T
      <3>1. IsLoop([n \in 0 .. 0 |-> base], 0, base, F)
        BY DEF IsLoop
      <3> QED
        BY <3>1
    <2>2. ASSUME NEW m \in 1 .. N, m - 1 \in T PROVE m \in T
      <3>1. PICK f : IsLoop(f, m - 1, base, F)
        BY <2>2
      <3> DEFINE g == [n \in 0 .. m |-> IF n = m THEN F[m][f[m - 1]] ELSE f[n]]
      <3>2. ASSUME NEW n \in 1 .. m PROVE g[n] = F[n][g[n - 1]]
        <4>1. CASE n = m
          BY <4>1
        <4>2. CASE n \in 1 .. m - 1
          <5>1. f[n] = F[n][f[n - 1]]
            BY <3>1, <4>2 DEF IsLoop
          <5>2. g[n] = f[n] /\ g[n - 1] = f[n - 1]
            BY <4>2
          <5> QED
            BY <5>1, <5>2
        <4> QED
          BY <4>1, <4>2
      <3>3. g = [n \in 0 .. m |-> g[n]] /\ g[0] = base
        BY <3>1 DEF IsLoop
      <3> HIDE DEF g
      <3>4. IsLoop(g, m, base, F)
        BY <3>2, <3>3 DEF IsLoop
      <3> QED
        BY <3>4
    <2>3. N \in T
      <3> HIDE DEF T
      <3> QED
        BY <2>1, <2>2, EveryTurn
    <2> QED
      BY <2>3
  <1>2. PICK f : IsLoop(f, N, base, F)
    BY <1>1
  <1> DEFINE T == {n \in 0 .. N : f[n] \in S[n]}
  <1>3. 0 \in T
    BY <1>2 DEF IsLoop
  <1>4. ASSUME NEW n \in 1 .. N, n - 1 \in T PROVE n \in T
    <2>1. f[n] = F[n][f[n - 1]]
      BY <1>2, Zenon DEF IsLoop
    <2>2. f[n - 1] \in S[n - 1] /\ n \in 0 .. N
      BY <1>4
    <2>3. F[n][f[n - 1]] \in S[n]
      BY <2>2
    <2> QED
      BY <2>1, <2>2, <2>3
  <1>5. 0 .. N \subseteq T
    <2> HIDE DEF T
    <2> QED
      BY <1>3, <1>4, EveryTurn
  <1> QED
    BY <1>2, <1>5

=============================================================================
