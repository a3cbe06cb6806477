------------------------------- MODULE Recursion -------------------------------
(***************************************************************************)
(* Induction over the naturals and recursion along them, in the form the   *)
(* provers can use: with sets and functions as parameters.                 *)
(***************************************************************************)
EXTENDS Integers, TLAPS, WellFoundedInduction

(* Induction over Nat is induction over this relation.                     *)
LEMMA NatLessIsWellFounded ==
  IsWellFoundedOn({ss \in Nat \X Nat : ss[1] < ss[2]}, Nat)
  BY NatLessThanWellFounded DEF OpToRel

(* A set that contains zero and all successors contains every natural.     *)
LEMMA NatSetInduction ==
  ASSUME NEW S, 0 \in S, \A n \in Nat : n \in S => n + 1 \in S
  PROVE  Nat \subseteq S
<1> DEFINE R == {ss \in Nat \X Nat : ss[1] < ss[2]}
           T == Nat \ S
<1>1. SUFFICES ASSUME T # {} PROVE FALSE
  OBVIOUS
<1> HIDE DEF R, T
<1>2. PICK x \in T : \A y \in T : ~(<<y, x>> \in R)
  <2>1. T \subseteq Nat
    BY DEF T
  <2>2. IsWellFoundedOn(R, Nat)
    BY NatLessIsWellFounded DEF R
  <2> QED
    BY <1>1, <2>1, <2>2, WFMin
<1>3. \A y \in T : ~(y < x)
  BY <1>2 DEF R, T
<1>4. x \in Nat /\ x \notin S /\ x # 0
  BY DEF T
<1>5. x - 1 \in Nat /\ x - 1 < x /\ (x - 1) + 1 = x
  BY <1>4
<1>6. x - 1 \in S
  BY <1>3, <1>5 DEF T
<1> QED
  BY <1>4, <1>5, <1>6

(* A start and one step after the other make a sequence of states.         *)
IsRun(f, S, n, start, step) ==
  /\ f \in [0 .. n -> S] /\ f[0] = start
  /\ \A k \in 1 .. n : f[k] = step[k][f[k - 1]]

LEMMA StepsExist ==
  ASSUME NEW S, NEW n \in Nat, NEW start \in S, NEW step \in [1 .. n -> [S -> S]]
  PROVE  \E f : IsRun(f, S, n, start, step)
<1> DEFINE Run(f, m) ==
      /\ f \in [0 .. m -> S] /\ f[0] = start
      /\ \A k \in 1 .. m : f[k] = step[k][f[k - 1]]
<1> DEFINE Done == {m \in Nat : m <= n => \E f : Run(f, m)}
<1>1. 0 \in Done
  <2>1. Run([k \in 0 .. 0 |-> start], 0)
    OBVIOUS
  <2> QED
    BY <2>1
<1>2. ASSUME NEW m \in Nat, m \in Done PROVE m + 1 \in Done
  <2>1. SUFFICES ASSUME m + 1 <= n PROVE \E f : Run(f, m + 1)
    OBVIOUS
  <2>2. PICK f : Run(f, m)
    BY <1>2, <2>1
  <2> DEFINE g == [k \in 0 .. m + 1 |-> IF k = m + 1 THEN step[m + 1][f[m]] ELSE f[k]]
  <2>3. f[m] \in S /\ step[m + 1] \in [S -> S]
    BY <2>1, <2>2
  <2>4. g \in [0 .. m + 1 -> S]
    BY <2>2, <2>3
  <2>5. g[0] = start
    BY <2>2
  <2>6. ASSUME NEW k \in 1 .. m + 1 PROVE g[k] = step[k][g[k - 1]]
    <3>1. CASE k = m + 1
      BY <3>1, <2>2
    <3>2. CASE k # m + 1
      BY <3>2, <2>2
    <3> QED
      BY <3>1, <3>2
  <2>7. Run(g, m + 1)
    BY <2>4, <2>5, <2>6
  <2> QED
    BY <2>7
<1>3. Nat \subseteq Done
  <2> HIDE DEF Done
  <2> QED
    BY <1>1, <1>2, NatSetInduction
<1>4. \E f : Run(f, n)
  BY <1>3
<1> QED
  BY <1>4 DEF IsRun
=============================================================================
