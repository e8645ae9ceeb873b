------------------------------ MODULE Stepwise ------------------------------
(***************************************************************************)
(* Induction on the steps of a fold. What holds of a step is given as a    *)
(* set and what a step does as a function, since no prover instantiates an *)
(* operator.                                                               *)
(***************************************************************************)
EXTENDS Integers, Sequences, TLAPS, WellFoundedInduction

(* What holds before the first of n steps, and after each when before it,  *)
(* holds all along.                                                        *)
LEMMA StepByStep ==
    ASSUME NEW n \in Nat, NEW P, 0 \in P, \A i \in 0 .. n - 1 : i \in P => i + 1 \in P
    PROVE  0 .. n \subseteq P
<1> DEFINE Bad == (0 .. n) \ P
<1> SUFFICES ASSUME Bad # {} PROVE FALSE
    OBVIOUS
<1>1. PICK m \in Bad : \A y \in Bad : <<y, m>> \notin OpToRel(<, Nat)
    <2>1. Bad \subseteq Nat
        OBVIOUS
    <2> QED
        BY <2>1, NatLessThanWellFounded, WFMin
<1>2. m \in 1 .. n
    OBVIOUS
<1>3. m - 1 \in 0 .. n - 1 /\ m - 1 + 1 = m /\ m - 1 < m /\ m - 1 \in 0 .. n
    BY <1>2
<1>4. m - 1 \in Bad
    BY <1>3
<1>5. <<m - 1, m>> \in Nat \X Nat
    BY <1>3
<1>6. <<m - 1, m>> \in OpToRel(<, Nat)
    BY <1>3, <1>5 DEF OpToRel
<1> QED
    BY <1>1, <1>4, <1>6

(* There is a function that starts at x and takes n steps of G.            *)
LEMMA StepsExist ==
    ASSUME NEW S, NEW x \in S, NEW n \in Nat, NEW G \in [1 .. n -> [S -> S]]
    PROVE  \E f \in [0 .. n -> S] : f[0] = x /\ \A i \in 1 .. n : f[i] = G[i][f[i - 1]]
<1> DEFINE Run(m, f) == f[0] = x /\ \A i \in 1 .. m : f[i] = G[i][f[i - 1]]
           P == {m \in 0 .. n : \E f \in [0 .. m -> S] : Run(m, f)}
<1>1. 0 \in P
    <2> DEFINE f == [i \in 0 .. 0 |-> x]
    <2>1. f \in [0 .. 0 -> S] /\ f[0] = x /\ \A i \in 1 .. 0 : f[i] = G[i][f[i - 1]]
        OBVIOUS
    <2> HIDE DEF f
    <2> QED
        BY <2>1
<1>2. ASSUME NEW m \in 0 .. n - 1, m \in P
      PROVE  m + 1 \in P
    <2>1. PICK g \in [0 .. m -> S] : Run(m, g)
        BY <1>2
    <2> DEFINE last == G[m + 1][g[m]]
               f == [i \in 0 .. m + 1 |-> IF i = m + 1 THEN last ELSE g[i]]
    <2>2. m \in 0 .. m /\ m + 1 \in 1 .. n /\ m + 1 \in 0 .. n /\ m + 1 - 1 = m
        OBVIOUS
    <2>3. g[m] \in S /\ G[m + 1] \in [S -> S]
        BY <2>1, <2>2
    <2>4. last \in S
        BY <2>3
    <2>5. f \in [0 .. m + 1 -> S]
        <3>1. \A i \in 0 .. m + 1 : i = m + 1 \/ i \in 0 .. m
            BY <2>2
        <3> HIDE DEF last
        <3> QED
            BY <2>1, <2>4, <3>1
    <2>6. f[m + 1] = last /\ \A i \in 0 .. m : f[i] = g[i]
        <3> HIDE DEF last
        <3> QED
            BY <2>2
    <2> HIDE DEF f
    <2>7. f[0] = x
        BY <2>1, <2>6
    <2>8. ASSUME NEW i \in 1 .. m + 1
          PROVE  f[i] = G[i][f[i - 1]]
        <3>1. CASE i = m + 1
            BY <2>2, <2>6, <3>1
        <3>2. CASE i # m + 1
            <4>1. i \in 1 .. m /\ i \in 0 .. m /\ i - 1 \in 0 .. m
                BY <3>2
            <4> QED
                BY <2>1, <2>6, <4>1
        <3> QED
            BY <3>1, <3>2
    <2> QED
        BY <2>2, <2>5, <2>7, <2>8
<1>3. n \in P
    <2> HIDE DEF P
    <2>1. 0 .. n \subseteq P
        BY <1>1, <1>2, StepByStep
    <2> QED
        BY <2>1
<1> QED
    BY <1>3

(* The same, with what such a function does named.                         *)
Walks(f, S, x, n, G) ==
    f \in [0 .. n -> S] /\ f[0] = x /\ \A i \in 1 .. n : f[i] = G[i][f[i - 1]]

LEMMA WalkExists ==
    ASSUME NEW S, NEW x \in S, NEW n \in Nat, NEW G \in [1 .. n -> [S -> S]]
    PROVE  \E f : Walks(f, S, x, n, G)
BY StepsExist DEF Walks

(* What every step leads from one of some sets to the next, such a function *)
(* goes through them.                                                       *)
Passes(f, I, n) == \A i \in 0 .. n : f[i] \in I[i]

LEMMA WalkPasses ==
    ASSUME NEW S, NEW n \in Nat, NEW I \in [0 .. n -> SUBSET S], NEW x \in I[0],
           NEW G \in [1 .. n -> [S -> S]],
           \A i \in 1 .. n : \A y \in I[i - 1] : G[i][y] \in I[i]
    PROVE  \E f : Walks(f, S, x, n, G) /\ Passes(f, I, n)
<1>1. 0 \in 0 .. n
    OBVIOUS
<1>2. x \in S
    BY <1>1
<1>3. PICK f : Walks(f, S, x, n, G)
    BY <1>2, WalkExists
<1> DEFINE P == {i \in 0 .. n : f[i] \in I[i]}
<1>4. 0 \in P
    BY <1>1, <1>3 DEF Walks
<1>5. ASSUME NEW i \in 0 .. n - 1, i \in P
      PROVE  i + 1 \in P
    <2>1. i + 1 \in 1 .. n /\ i + 1 \in 0 .. n /\ i + 1 - 1 = i
        OBVIOUS
    <2>2. f[i + 1] = G[i + 1][f[i]] /\ f[i] \in I[i]
        BY <1>3, <1>5, <2>1 DEF Walks
    <2>3. G[i + 1][f[i]] \in I[i + 1]
        BY <2>1, <2>2
    <2> QED
        BY <2>1, <2>2, <2>3
<1>6. 0 .. n \subseteq P
    <2> HIDE DEF P
    <2> QED
        BY <1>4, <1>5, StepByStep
<1> QED
    BY <1>3, <1>6 DEF Passes
=============================================================================
