---------------------------- MODULE LoopTheorems ----------------------------
(***************************************************************************)
(* Induction for the loops of the models.  The theorems on induction in    *)
(* the library take a predicate as a parameter; here it is a set.  A loop  *)
(* is a recursive function of the number of rounds, and LoopExists gives   *)
(* its equations for all rounds.                                           *)
(***************************************************************************)
EXTENDS Integers, FiniteSets, FiniteSetTheorems, TLAPS

(* The natural numbers are well-ordered: the intervals up to the members   *)
(* of a set are finite, and strict inclusion of finite sets is well-founded *)
LEMMA LeastNat ==
  ASSUME NEW T, T \subseteq Nat, T # {}
  PROVE  \E n \in T : \A m \in T : n <= m
  <1> DEFINE Upto == {0..n : n \in T}
  <1>1. Upto \subseteq FiniteSubsetsOf(Nat)
    <2>1. ASSUME NEW n \in T PROVE 0..n \in FiniteSubsetsOf(Nat)
      <3>1. IsFiniteSet(0..n)
        BY FS_Interval
      <3>2. 0..n \in SUBSET Nat
        OBVIOUS
      <3> QED BY <3>1, <3>2, Zenon DEF FiniteSubsetsOf
    <2> QED BY <2>1
  <1>2. Upto # {}
    OBVIOUS
  <1>3. \E x \in Upto : \A y \in Upto : <<y, x>> \notin StrictSubsetOrdering(Nat)
    <2> HIDE DEF Upto
    <2> QED BY <1>1, <1>2, FS_StrictSubsetOrderingWellFounded, WFMin
  <1>4. PICK n \in T : \A m \in T : <<0..m, 0..n>> \notin StrictSubsetOrdering(Nat)
    BY <1>3
  <1>5. ASSUME NEW m \in T, m < n PROVE FALSE
    <2>1. 0..m \subseteq 0..n /\ 0..m # 0..n
      BY <1>5
    <2>2. 0..m \in SUBSET Nat /\ 0..n \in SUBSET Nat
      OBVIOUS
    <2>3. \A A, B \in SUBSET Nat :
            A \subseteq B /\ A # B => <<A, B>> \in StrictSubsetOrdering(Nat)
      BY DEF StrictSubsetOrdering
    <2> QED BY <1>4, <2>1, <2>2, <2>3, Zenon
  <1> QED BY <1>5

(* Induction up to the number of rounds of a loop. *)
LEMMA Induction ==
  ASSUME NEW N \in Nat, NEW T, 0 \in T,
         \A n \in 1..N : n - 1 \in T => n \in T
  PROVE  0..N \subseteq T
  <1> SUFFICES ASSUME ~(0..N \subseteq T) PROVE FALSE
    OBVIOUS
  <1> DEFINE U == {n \in 0..N : n \notin T}
  <1>1. U \subseteq Nat /\ U # {}
    OBVIOUS
  <1>2. PICK n \in U : \A m \in U : n <= m
    <2> HIDE DEF U
    <2> QED BY <1>1, LeastNat
  <1>3. n \in 1..N
    OBVIOUS
  <1>4. n - 1 \in T
    BY <1>2, <1>3
  <1> QED BY <1>3, <1>4

(* f is the loop that starts with base and makes N rounds of step. *)
IsLoop(f, N, S, base, step) ==
  /\ f \in [0..N -> S]
  /\ f[0] = base
  /\ \A n \in 1..N : f[n] = step[<<n, f[n - 1]>>]

LEMMA LoopExists ==
  ASSUME NEW N \in Nat, NEW S, NEW base \in S, NEW step \in [(1..N) \X S -> S]
  PROVE  \E f : IsLoop(f, N, S, base, step)
  <1> DEFINE Loop(n) == \E f : IsLoop(f, n, S, base, step)
             T == {n \in 0..N : Loop(n)}
  <1>1. 0 \in T
    <2>1. IsLoop([i \in 0..0 |-> base], 0, S, base, step)
      BY DEF IsLoop
    <2>2. Loop(0)
      BY <2>1, Zenon
    <2> HIDE DEF Loop
    <2> QED BY <2>2
  <1>2. ASSUME NEW n \in 1..N, n - 1 \in T PROVE n \in T
    <2>1. PICK f : IsLoop(f, n - 1, S, base, step)
      BY <1>2
    <2> DEFINE g == [i \in 0..n |-> IF i = n THEN step[<<n, f[n - 1]>>] ELSE f[i]]
    <2>2. f \in [0..(n - 1) -> S] /\ f[n - 1] \in S
      BY <2>1 DEF IsLoop
    <2>3. step[<<n, f[n - 1]>>] \in S
      BY <2>2
    <2>4. g \in [0..n -> S]
      BY <2>2, <2>3
    <2>5. g[0] = base
      BY <2>1 DEF IsLoop
    <2>6. ASSUME NEW i \in 1..n PROVE g[i] = step[<<i, g[i - 1]>>]
      <3>1. CASE i = n
        <4>1. g[i - 1] = f[n - 1] /\ g[i] = step[<<n, f[n - 1]>>]
          BY <3>1
        <4> QED BY <3>1, <4>1
      <3>2. CASE i # n
        BY <3>2, <2>1 DEF IsLoop
      <3> QED BY <3>1, <3>2
    <2>7. Loop(n)
      <3> HIDE DEF g
      <3> QED BY <2>4, <2>5, <2>6, Zenon DEF IsLoop
    <2> HIDE DEF Loop
    <2> QED BY <2>7
  <1>3. 0..N \subseteq T
    <2> HIDE DEF T
    <2> QED BY <1>1, <1>2, Induction
  <1> QED BY <1>3

(* A bounded set of natural numbers has a greatest member. *)
LEMMA GreatestNat ==
  ASSUME NEW n \in Nat, NEW T, T \subseteq 0..n, T # {}
  PROVE  \E x \in T : \A y \in T : x >= y
  <1> DEFINE U == {n - x : x \in T}
  <1>1. \A x \in T : n - x \in U /\ n - x \in Nat
    OBVIOUS
  <1>2. U \subseteq Nat
    BY <1>1
  <1>3. U # {}
    <2> HIDE DEF U
    <2> QED BY <1>1
  <1>4. PICK u \in U : \A w \in U : u <= w
    <2> HIDE DEF U
    <2> QED BY <1>2, <1>3, LeastNat
  <1>5. PICK x \in T : u = n - x
    BY <1>4
  <1>6. ASSUME NEW y \in T PROVE x >= y
    <2>1. u <= n - y
      BY <1>1, <1>4
    <2> QED BY <2>1, <1>5
  <1> QED BY <1>6

(* A loop has one result. *)
LEMMA LoopUnique ==
  ASSUME NEW N \in Nat, NEW S, NEW base, NEW step, NEW f, NEW g,
         IsLoop(f, N, S, base, step), IsLoop(g, N, S, base, step)
  PROVE  \A n \in 0..N : f[n] = g[n]
  <1> DEFINE T == {n \in 0..N : f[n] = g[n]}
  <1>1. 0 \in T
    BY DEF IsLoop
  <1>2. ASSUME NEW n \in 1..N, n - 1 \in T PROVE n \in T
    <2>1. f[n - 1] = g[n - 1]
      BY <1>2
    <2>2. f[n] = step[<<n, f[n - 1]>>] /\ g[n] = step[<<n, g[n - 1]>>]
      BY DEF IsLoop
    <2> QED BY <2>1, <2>2
  <1>3. 0..N \subseteq T
    <2> HIDE DEF T
    <2> QED BY <1>1, <1>2, Induction
  <1> QED BY <1>3
=============================================================================
