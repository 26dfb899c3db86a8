------------------------------ MODULE NatFacts ------------------------------
(* Induction over the natural numbers, stated for sets, and what the proofs  *)
(* about loops take from it: minima, maxima and functions defined step by    *)
(* step.                                                                     *)
EXTENDS Integers, WellFoundedInduction, TLAPS

Less == OpToRel(<, Nat)

LEMMA LessIsWellFounded == IsWellFoundedOn(Less, Nat)
  BY NatLessThanWellFounded, Zenon DEF Less

LEMMA LessIs ==
  ASSUME NEW a \in Nat, NEW b \in Nat, a < b
  PROVE  <<a, b>> \in Less
  BY Zenon DEF Less, OpToRel

LEMMA Minimum ==
  ASSUME NEW T \in SUBSET Nat, T # {}
  PROVE  \E x \in T : \A y \in T : x <= y
<1>1. PICK x \in T : \A y \in T : ~(<<y, x>> \in Less)
  BY LessIsWellFounded, WFMin, Zenon
<1>2. \A y \in T : y \in Nat /\ x \in Nat /\ ~(y < x)
  BY <1>1, LessIs
<1> QED
  BY <1>2

LEMMA Induction ==
  ASSUME NEW S \in SUBSET Nat, 0 \in S, \A n \in S : n + 1 \in S
  PROVE  S = Nat
<1> DEFINE Rest == Nat \ S
<1> SUFFICES ASSUME Rest # {} PROVE FALSE
  OBVIOUS
<1>1. PICK x \in Rest : \A y \in Rest : x <= y
  <2> Rest \in SUBSET Nat
    OBVIOUS
  <2> HIDE DEF Rest
  <2> QED
    BY Minimum
<1>2. x \in Nat /\ x # 0 /\ x - 1 \in Nat /\ (x - 1) + 1 = x
  OBVIOUS
<1>3. x - 1 \notin S
  BY <1>2
<1> QED
  BY <1>1, <1>2, <1>3

\* A set of numbers below a bound has a greatest one.
LEMMA Maximum ==
  ASSUME NEW T \in SUBSET Nat, T # {}, NEW bound \in Nat, \A x \in T : x <= bound
  PROVE  \E x \in T : \A y \in T : y <= x
<1> DEFINE Above == {b \in Nat : \A x \in T : x <= b}
<1>1. PICK b \in Above : \A a \in Above : b <= a
  <2> Above \in SUBSET Nat /\ Above # {}
    OBVIOUS
  <2> HIDE DEF Above
  <2> QED
    BY Minimum
<1> SUFFICES ASSUME b \notin T PROVE FALSE
  BY <1>1
<1>2. \A x \in T : x \in Nat /\ x <= b /\ x # b
  BY <1>1
<1>3. b \in Nat /\ b # 0
  <2>1. PICK x \in T : TRUE
    OBVIOUS
  <2> QED
    BY <1>1, <1>2, <2>1
<1>4. b - 1 \in Nat /\ \A x \in T : x <= b - 1
  BY <1>2, <1>3
<1> QED
  BY <1>1, <1>3, <1>4

\* A list of numbers has an upper bound.
LEMMA ListBound ==
  ASSUME NEW n \in Nat, NEW f \in [1 .. n -> Nat]
  PROVE  \E bound \in Nat : \A i \in 1 .. n : f[i] <= bound
<1> DEFINE Below(m) == \E bound \in Nat : \A i \in 1 .. n : i <= m => f[i] <= bound
           S == {m \in Nat : Below(m)}
<1>1. 0 \in S
  <2>1. \A i \in 1 .. n : i <= 0 => f[i] <= 0
    OBVIOUS
  <2>2. Below(0)
    BY <2>1
  <2> QED
    BY <2>2
<1>2. ASSUME NEW m \in S PROVE m + 1 \in S
  <2>1. PICK bound \in Nat : \A i \in 1 .. n : i <= m => f[i] <= bound
    OBVIOUS
  <2>2. CASE m + 1 \notin 1 .. n
    <3>1. \A i \in 1 .. n : i <= m + 1 => i <= m
      BY <2>2
    <3>2. Below(m + 1)
      BY <2>1, <3>1
    <3> QED
      BY <3>2
  <2>3. CASE m + 1 \in 1 .. n
    <3>1. PICK wider \in Nat : bound <= wider /\ f[m + 1] <= wider
      <4>1. f[m + 1] \in Nat
        BY <2>3
      <4>2. CASE bound <= f[m + 1]
        BY <4>1, <4>2
      <4>3. CASE ~(bound <= f[m + 1])
        BY <4>1, <4>3
      <4> QED
        BY <4>2, <4>3
    <3>2. \A i \in 1 .. n : i <= m + 1 => f[i] <= wider
      <4> TAKE i \in 1 .. n
      <4> HAVE i <= m + 1
      <4>1. i \in Nat /\ f[i] \in Nat
        OBVIOUS
      <4>2. CASE i <= m
        BY <2>1, <3>1, <4>1, <4>2
      <4>3. CASE ~(i <= m)
        <5>1. i = m + 1
          BY <4>1, <4>3
        <5> QED
          BY <3>1, <5>1
      <4> QED
        BY <4>2, <4>3
    <3>3. Below(m + 1)
      BY <3>2
    <3> QED
      BY <3>3
  <2> QED
    BY <2>2, <2>3
<1>3. S = Nat
  <2> S \in SUBSET Nat
    OBVIOUS
  <2> HIDE DEF S
  <2> QED
    BY <1>1, <1>2, Induction
<1>4. Below(n)
  BY <1>3
<1> QED
  BY <1>4

\* What holds before a loop over 1 .. n and is kept by every turn holds after
\* any number of turns; H is the set of the numbers of turns after which it does.
LEMMA Turns ==
  ASSUME NEW n \in Nat, NEW H, 0 \in H,
         \A c \in 1 .. n : c - 1 \in H => c \in H
  PROVE  \A c \in 0 .. n : c \in H
<1> DEFINE S == {c \in Nat : c <= n => c \in H}
<1>1. ASSUME NEW c \in S PROVE c + 1 \in S
  <2> SUFFICES ASSUME c + 1 <= n PROVE c + 1 \in H
    OBVIOUS
  <2>1. c \in H /\ c + 1 \in 1 .. n /\ (c + 1) - 1 = c
    OBVIOUS
  <2> QED
    BY <2>1
<1>2. S = Nat
  <2> S \in SUBSET Nat /\ 0 \in S
    OBVIOUS
  <2> HIDE DEF S
  <2> QED
    BY <1>1, Induction
<1> QED
  BY <1>2

\* f[c] is what a loop over 1 .. n that starts from `start` and whose turns are
\* `turn` has come to after c turns.
Runs(f, n, start, turn) ==
  f[0] = start /\ \A c \in 1 .. n : f[c] = turn[c][f[c - 1]]

LEMMA LoopExists ==
  ASSUME NEW n \in Nat, NEW T, NEW start \in T, NEW turn \in [1 .. n -> [T -> T]]
  PROVE  \E f \in [0 .. n -> T] : Runs(f, n, start, turn)
<1> DEFINE Upto(m, f) ==
             \A c \in 0 .. m : f[c] = IF c = 0 THEN start ELSE turn[c][f[c - 1]]
           H == {m \in 0 .. n : \E f \in [0 .. m -> T] : Upto(m, f)}
<1>1. 0 \in H
  <2> DEFINE f == [c \in 0 .. 0 |-> start]
  <2>1. f \in [0 .. 0 -> T]
    OBVIOUS
  <2>2. \A c \in 0 .. 0 : f[c] = IF c = 0 THEN start ELSE turn[c][f[c - 1]]
    OBVIOUS
  <2>3. Upto(0, f)
    BY <2>1, <2>2
  <2> HIDE DEF f, Upto
  <2>4. 0 \in 0 .. n
    OBVIOUS
  <2> QED
    BY <2>1, <2>3, <2>4
<1>2. ASSUME NEW m \in 1 .. n, m - 1 \in H PROVE m \in H
  <2>1. PICK f \in [0 .. m - 1 -> T] : Upto(m - 1, f)
    BY <1>2
  <2> DEFINE g == [c \in 0 .. m |-> IF c = m THEN turn[m][f[m - 1]] ELSE f[c]]
  <2>2. f[m - 1] \in T /\ turn[m][f[m - 1]] \in T
    <3>1. m - 1 \in 0 .. m - 1
      OBVIOUS
    <3>2. f[m - 1] \in T
      BY <3>1
    <3>3. turn[m] \in [T -> T]
      OBVIOUS
    <3> QED
      BY <3>2, <3>3
  <2>3. g \in [0 .. m -> T]
    BY <2>2
  <2>4. ASSUME NEW c \in 0 .. m
        PROVE  g[c] = IF c = 0 THEN start ELSE turn[c][g[c - 1]]
    <3>1. CASE c = m
      <4>1. m - 1 \in 0 .. m /\ m - 1 # m /\ m # 0
        OBVIOUS
      <4>2. g[m - 1] = f[m - 1]
        BY <4>1
      <4> QED
        BY <3>1, <4>1, <4>2
    <3>2. CASE c # m
      <4>1. c \in 0 .. m - 1
        BY <3>2
      <4>2. f[c] = IF c = 0 THEN start ELSE turn[c][f[c - 1]]
        BY <2>1, <4>1
      <4>3. c # 0 => c - 1 \in 0 .. m /\ c - 1 # m
        OBVIOUS
      <4>4. c # 0 => g[c - 1] = f[c - 1]
        BY <4>3
      <4> QED
        BY <3>2, <4>2, <4>4
    <3> QED
      BY <3>1, <3>2
  <2>5. Upto(m, g)
    BY <2>4
  <2> HIDE DEF g, Upto
  <2>6. m \in 0 .. n
    OBVIOUS
  <2> QED
    BY <2>3, <2>5, <2>6
<1>3. \A m \in 0 .. n : m \in H
  <2> HIDE DEF H
  <2> QED
    BY <1>1, <1>2, Turns
<1>4. n \in H
  BY <1>3
<1>5. PICK f \in [0 .. n -> T] : Upto(n, f)
  BY <1>4
<1>6. f[0] = start /\ \A c \in 1 .. n : f[c] = turn[c][f[c - 1]]
  <2>1. 0 \in 0 .. n /\ \A c \in 1 .. n : c \in 0 .. n /\ c # 0
    OBVIOUS
  <2> QED
    BY <1>5, <2>1
<1> QED
  BY <1>6 DEF Runs
=============================================================================
