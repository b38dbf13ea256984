------------------------------- MODULE Loops -------------------------------
(***************************************************************************)
(* What the proofs about loops rest on: least numbers, and induction up to *)
(* a number, which follows from them.  A loop of the code is a recursive   *)
(* function from the number of turns to the state after them; that there   *)
(* is such a function is proved here once.                                 *)
(***************************************************************************)
EXTENDS Naturals, FiniteSetsExt, FiniteSetTheorems, NaturalsInduction, WellFoundedInduction, TLAPS

\* What Min is: every set of natural numbers has a least one.
LEMMA MinOfNaturals ==
  ASSUME NEW S, S \subseteq Nat, S # {}
  PROVE  Min(S) \in S /\ \A y \in S : Min(S) <= y
<1>1. PICK x \in S : \A y \in S : ~(<<y, x>> \in OpToRel(<, Nat))
  BY NatLessThanWellFounded, WFMin, Zenon
<1>2. \A y \in S : ~(y < x)
  BY <1>1, Zenon DEF OpToRel
<1>3. \A y \in S : x <= y
  BY <1>2
<1>4. QED
  BY <1>3 DEF Min

\* A set of numbers from 0 to n that has 0, and with each number the next, has them all.
LEMMA UpTo ==
    ASSUME NEW n \in Nat, NEW S, 0 \in S, \A i \in 1..n : i - 1 \in S => i \in S
    PROVE  0..n \subseteq S
<1> DEFINE C == (0..n) \ S
<1>1. SUFFICES ASSUME C # {} PROVE FALSE
    OBVIOUS
<1>2. C \subseteq Nat
    OBVIOUS
<1>3. PICK i \in C : \A y \in C : i <= y
    BY <1>1, <1>2, MinOfNaturals
<1>4. i # 0 /\ i \in 1..n /\ i - 1 \in 0..n
    BY <1>3
<1>5. i - 1 \in S
    BY <1>3, <1>4
<1> QED BY <1>3, <1>4, <1>5

\* A loop that goes from state to state of S has its states.
Steps(f, s, n, step) == f[0] = s /\ \A i \in 1..n : f[i] = step[i][f[i - 1]]

LEMMA Iterated ==
    ASSUME NEW S, NEW s \in S, NEW n \in Nat, NEW step \in [1..n -> [S -> S]]
    PROVE  \E f \in [0..n -> S] : Steps(f, s, n, step)
<1> DEFINE Rec(f, m) == f \in [0..m -> S] /\ f[0] = s /\ \A i \in 1..m : f[i] = step[i][f[i - 1]]
           M == {m \in Nat : \E f \in [0..m -> S] : Rec(f, m)}
<1>1. 0 \in M
    <2>1. [i \in 0..0 |-> s] \in [0..0 -> S] /\ Rec([i \in 0..0 |-> s], 0)
        OBVIOUS
    <2> QED BY <2>1
<1>2. ASSUME NEW m \in 1..n, m - 1 \in M PROVE m \in M
    <2>1. m \in Nat /\ m - 1 \in Nat
        OBVIOUS
    <2>2. PICK f \in [0..m - 1 -> S] : Rec(f, m - 1)
        BY <1>2
    <2>3. f[m - 1] \in S /\ step[m] \in [S -> S]
        BY <2>1
    <2> DEFINE t == step[m][f[m - 1]]
               g == [i \in 0..m |-> IF i = m THEN t ELSE f[i]]
    <2>4. t \in S
        BY <2>3
    <2> HIDE DEF t
    <2>5. g \in [0..m -> S]
        BY <2>1, <2>4
    <2>6. g[0] = s
        BY <2>1, <2>2
    <2>7. ASSUME NEW i \in 1..m PROVE g[i] = step[i][g[i - 1]]
        <3>1. i - 1 \in 0..m - 1 /\ g[i - 1] = f[i - 1]
            BY <2>1
        <3>2. CASE i = m
            BY <3>1, <3>2 DEF t
        <3>3. CASE i # m
            <4>1. i \in 1..m - 1 /\ g[i] = f[i]
                BY <2>1, <3>3
            <4> QED BY <4>1, <3>1, <2>2
        <3> QED BY <3>2, <3>3
    <2> HIDE DEF g
    <2>8. Rec(g, m)
        BY <2>5, <2>6, <2>7
    <2> QED BY <2>1, <2>5, <2>8
<1>3. n \in M
    <2> HIDE DEF M
    <2>1. 0..n \subseteq M
        BY <1>1, <1>2, UpTo
    <2> QED BY <2>1
<1>4. PICK f \in [0..n -> S] : Rec(f, n)
    BY <1>3
<1> QED BY <1>4 DEF Steps
=============================================================================
