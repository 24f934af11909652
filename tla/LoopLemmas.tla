------------------------------ MODULE LoopLemmas ------------------------------
(***************************************************************************)
(* Facts about loops over 0 .. n - 1 written as recursive functions. They  *)
(* are stated with sets and functions where the library's induction        *)
(* theorems take an operator, which the provers do not instantiate.        *)
(***************************************************************************)
EXTENDS Integers, WellFoundedInduction, TLAPS

LEMMA Least ==
  ASSUME NEW T \in SUBSET Nat, T # {}
  PROVE  \E m \in T : \A k \in T : m <= k
<1>1. IsWellFoundedOn(OpToRel(<, Nat), Nat)
  BY NatLessThanWellFounded
<1>2. \E m \in T : \A k \in T : <<k, m>> \notin OpToRel(<, Nat)
  BY <1>1, WFMin
<1>3. \E m \in T : \A k \in T : ~(k < m)
  BY <1>2 DEF OpToRel
<1> QED
  BY <1>3

\* Induction up to n: a set that holds 0 and the successors of its members.
LEMMA UpTo ==
  ASSUME NEW n \in Nat, NEW S, 0 \in S,
         \A k \in 0 .. n - 1 : k \in S => k + 1 \in S
  PROVE  \A k \in 0 .. n : k \in S
<1> DEFINE T == {k \in 0 .. n : k \notin S}
<1> SUFFICES ASSUME T # {}
             PROVE  FALSE
  OBVIOUS
<1>1. T \in SUBSET Nat
  OBVIOUS
<1> HIDE DEF T
<1>2. PICK m \in T : \A k \in T : m <= k
  BY <1>1, Least
<1>3. m \in 0 .. n /\ m \notin S /\ m # 0
  BY <1>2 DEF T
<1>4. m - 1 \in 0 .. n - 1 /\ m - 1 \notin T
  BY <1>1, <1>2, <1>3
<1>5. m - 1 \in S
  BY <1>4 DEF T
<1> QED
  BY <1>3, <1>4, <1>5

\* f goes through the states of a loop: f[k] is the one after k iterations.
IsRun(f, d0, n, F) == f[0] = d0 /\ \A k \in 0 .. n - 1 : f[k + 1] = F[k][f[k]]

\* A loop that starts in D and whose iterations stay in D has a run, and all of
\* its states are in D.
LEMMA LoopExists ==
  ASSUME NEW D, NEW d0 \in D, NEW n \in Nat, NEW F \in [0 .. n - 1 -> [D -> D]]
  PROVE  \E f \in [0 .. n -> D] : IsRun(f, d0, n, F)
<1> DEFINE Runs(m) == \E f \in [0 .. m -> D] :
             f[0] = d0 /\ \A k \in 0 .. m - 1 : f[k + 1] = F[k][f[k]]
           S == {m \in 0 .. n : Runs(m)}
<1>1. Runs(0)
  <2> DEFINE f == [k \in 0 .. 0 |-> d0]
  <2>1. f \in [0 .. 0 -> D]
    OBVIOUS
  <2>2. f[0] = d0 /\ \A k \in 0 .. 0 - 1 : f[k + 1] = F[k][f[k]]
    OBVIOUS
  <2> QED
    BY <2>1, <2>2
<1>2. ASSUME NEW m \in 0 .. n - 1, Runs(m)
      PROVE  Runs(m + 1)
  <2>1. PICK f \in [0 .. m -> D] :
          f[0] = d0 /\ \A k \in 0 .. m - 1 : f[k + 1] = F[k][f[k]]
    BY <1>2
  <2> DEFINE g == [k \in 0 .. m + 1 |-> IF k = m + 1 THEN F[m][f[m]] ELSE f[k]]
  <2>2. F[m][f[m]] \in D
    <3>1. m \in 0 .. m
      OBVIOUS
    <3>2. f[m] \in D /\ F[m] \in [D -> D]
      BY <2>1, <3>1
    <3> QED
      BY <3>2
  <2>3. \A k \in 0 .. m + 1 : k # m + 1 => k \in 0 .. m
    OBVIOUS
  <2>4. g \in [0 .. m + 1 -> D]
    BY <2>1, <2>2, <2>3
  <2>5. ASSUME NEW k \in 0 .. (m + 1) - 1
        PROVE  g[k + 1] = F[k][g[k]]
    <3>1. /\ k \in 0 .. m + 1 /\ k # m + 1 /\ k + 1 \in 0 .. m + 1
          /\ k = m \/ (k \in 0 .. m - 1 /\ k + 1 # m + 1)
      OBVIOUS
    <3>2. g[k] = f[k] /\ g[k + 1] = IF k = m THEN F[m][f[m]] ELSE f[k + 1]
      BY <3>1
    <3> HIDE DEF g
    <3> QED
      BY <2>1, <3>1, <3>2
  <2>6. g[0] = d0
    BY <2>1
  <2> HIDE DEF g
  <2> QED
    BY <2>4, <2>5, <2>6
<1>3. \A k \in 0 .. n - 1 : k \in S => k + 1 \in S
  <2> HIDE DEF Runs
  <2> QED
    BY <1>2
<1>4. 0 \in S
  <2> HIDE DEF Runs
  <2> QED
    BY <1>1
<1>5. n \in S
  <2> HIDE DEF S
  <2>1. \A k \in 0 .. n : k \in S
    BY <1>3, <1>4, UpTo
  <2> QED
    BY <2>1
<1> QED
  BY <1>5 DEF IsRun
=============================================================================
