------------------------------ MODULE Recursion ------------------------------
(***************************************************************************)
(* Induction and recursion over the naturals, with sets for predicates.    *)
(***************************************************************************)
EXTENDS Integers, TLAPS, WellFoundedInduction

\* A set with 0 that is closed under successor has all naturals.
LEMMA SetInduction ==
  ASSUME NEW T, 0 \in T, \A n \in Nat : n \in T => n + 1 \in T
  PROVE  Nat \subseteq T
<1> SUFFICES ASSUME Nat \ T # {} PROVE FALSE
  OBVIOUS
<1> DEFINE R == OpToRel(<, Nat)
<1>1. IsWellFoundedOn(R, Nat)
  BY NatLessThanWellFounded
<1>2. PICK x \in Nat \ T : \A y \in Nat \ T : ~(<<y, x>> \in R)
  <2>1. Nat \ T \subseteq Nat
    OBVIOUS
  <2> HIDE DEF R
  <2> QED BY <1>1, <2>1, WFMin
<1>3. \A y \in Nat \ T : ~(y < x)
  BY <1>2 DEF OpToRel
<1>4. x - 1 \in Nat \/ x = 0
  OBVIOUS
<1> QED BY <1>3, <1>4

\* A step function for each of 1..N, and the function that starts at a and takes
\* these steps.
Steps(step, N, S) == step \in [1..N -> [S -> S]]

Follows(f, step, N, S, a) ==
  f \in [0..N -> S] /\ f[0] = a /\ \A i \in 1..N : f[i] = step[i][f[i - 1]]

\* A function may be defined by what it is at 0 and how it goes on from there.
LEMMA RecursionExists ==
  ASSUME NEW S, NEW a \in S, NEW N \in Nat, NEW step, Steps(step, N, S)
  PROVE  \E f : Follows(f, step, N, S, a)
<1> USE DEF Steps, Follows
<1> DEFINE Upto(j, f) == /\ f \in [0..j -> S] /\ f[0] = a
                         /\ \A i \in 1..j : f[i] = step[i][f[i - 1]]
           T == {j \in Nat : j <= N => \E f : Upto(j, f)}
<1>1. 0 \in T
  <2>1. Upto(0, [i \in 0..0 |-> a])
    OBVIOUS
  <2> QED BY <2>1
<1>2. ASSUME NEW j \in Nat, j \in T PROVE j + 1 \in T
  <2> SUFFICES ASSUME j + 1 <= N PROVE \E f : Upto(j + 1, f)
    OBVIOUS
  <2>1. PICK f : Upto(j, f)
    BY <1>2
  <2> DEFINE g == [i \in 0..j + 1 |-> IF i <= j THEN f[i] ELSE step[j + 1][f[j]]]
  <2>2. f[j] \in S /\ j + 1 \in 1..N
    BY <2>1
  <2>3. step[j + 1][f[j]] \in S
    BY <2>2
  <2>4. g \in [0..j + 1 -> S] /\ g[0] = a
    BY <2>1, <2>3
  <2>5. ASSUME NEW i \in 1..j + 1 PROVE g[i] = step[i][g[i - 1]]
    <3>1. g[i - 1] = f[i - 1] /\ i - 1 \in 0..j
      OBVIOUS
    <3>2. CASE i <= j
      BY <2>1, <3>1, <3>2
    <3>3. CASE i = j + 1
      BY <3>1, <3>3
    <3> QED BY <3>2, <3>3
  <2>6. Upto(j + 1, g)
    BY <2>4, <2>5
  <2> QED BY <2>6
<1> HIDE DEF T
<1>3. Nat \subseteq T
  BY <1>1, <1>2, SetInduction
<1>4. PICK f : Upto(N, f)
  BY <1>3 DEF T
<1> QED BY <1>4
=============================================================================
