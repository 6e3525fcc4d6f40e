------------------------------- MODULE Loops -------------------------------
(***************************************************************************)
(* What the C code does in a loop over a list, the model does in a fold.   *)
(* The two theorems say what a fold computes and what it preserves.  A     *)
(* module that proves something about a loop instances this one with the   *)
(* body of the loop for Step and what the loop keeps for Inv; a, b and c   *)
(* are what else the body uses, i is the number of rounds made.            *)
(***************************************************************************)
EXTENDS Integers, Sequences, SequencesExt, WellFoundedInduction, NaturalsInduction, TLAPS

CONSTANTS Step(_,_,_,_,_),   \* a, b, c, the state before the round, the element
          Inv(_,_,_,_,_)     \* a, b, c, rounds made, the state

Loop(a, b, c, base, seq) == FoldLeft(LAMBDA s, x : Step(a, b, c, s, x), base, seq)

\* A set of numbers has a least one (the smallest counterexample of a proof).
LEMMA Least ==
  ASSUME NEW T \in SUBSET Nat, T # {}
  PROVE  \E n \in T : \A k \in T : n <= k
<1>1. PICK n \in T : \A k \in T : ~(<<k, n>> \in OpToRel(<, Nat))
  BY WFMin, NatLessThanWellFounded
<1>2. \A k \in T : ~(k < n)
  BY <1>1 DEF OpToRel
<1>3. n \in Nat /\ \A k \in T : k \in Nat
  OBVIOUS
<1> QED BY <1>2, <1>3

\* The greatest of some numbers up to n, n among them, is n.
LEMMA MaxIs ==
  ASSUME NEW n \in Nat, NEW s \in SUBSET (1..n), n \in s
  PROVE  Max(s) = n
<1>1. \A x \in s : x \in Int /\ n >= x
  OBVIOUS
<1>2. \A x \in s : (\A y \in s : x >= y) => x = n
  BY <1>1
<1>3. (CHOOSE x \in s : \A y \in s : x >= y) = n
  BY <1>1, <1>2
<1> QED BY <1>3 DEF Max

Unfold(a, b, c, base, seq, k, it) ==
  it = [s \in SUBSET (1..k) |->
          IF s = {} THEN base ELSE Step(a, b, c, it[s \ {Max(s)}], seq[Max(s)])]

\* A fold over positions unfolds, from the last position on: there is a function
\* that gives the result of every part of the loop.
LEMMA Unfolds ==
  ASSUME NEW a, NEW b, NEW c, NEW base, NEW seq, NEW n \in Nat
  PROVE  \E it : Unfold(a, b, c, base, seq, n, it)
<1> DEFINE T == {k \in Nat : ~\E it : Unfold(a, b, c, base, seq, k, it)}
<1>1. ASSUME T # {} PROVE FALSE
  <2>1. PICK k \in T : \A j \in T : k <= j
    BY <1>1, Least
  <2>2. k # 0
    <3>1. Unfold(a, b, c, base, seq, 0, [s \in SUBSET (1..0) |-> base])
      <4>1. 1..0 = {}
        OBVIOUS
      <4> QED BY <4>1 DEF Unfold
    <3> QED BY <3>1, <2>1
  <2>3. k-1 \in Nat /\ k-1 \notin T /\ k \in Nat
    BY <2>1, <2>2
  <2>4. PICK it : Unfold(a, b, c, base, seq, k-1, it)
    BY <2>3
  <2> DEFINE jt == [s \in SUBSET (1..k) |-> IF k \in s THEN Step(a, b, c, it[s \ {k}], seq[k]) ELSE it[s]]
  <2>5. ASSUME NEW s \in SUBSET (1..k)
        PROVE  jt[s] = IF s = {} THEN base ELSE Step(a, b, c, jt[s \ {Max(s)}], seq[Max(s)])
    <3>1. CASE k \in s
      <4>1. Max(s) = k
        BY <3>1, <2>3, MaxIs
      <4>2. s \ {k} \in SUBSET (1..k) /\ k \notin s \ {k}
        OBVIOUS
      <4>3. jt[s \ {k}] = it[s \ {k}]
        BY <4>2
      <4>4. jt[s] = Step(a, b, c, it[s \ {k}], seq[k])
        BY <3>1
      <4> QED BY <4>1, <4>3, <4>4, <3>1
    <3>2. CASE k \notin s
      <4>1. s \in SUBSET (1..k-1)
        BY <3>2, <2>3
      <4>2. it[s] = IF s = {} THEN base ELSE Step(a, b, c, it[s \ {Max(s)}], seq[Max(s)])
        BY <4>1, <2>4 DEF Unfold
      <4>3. jt[s] = it[s] /\ jt[s \ {Max(s)}] = it[s \ {Max(s)}]
        BY <3>2
      <4> QED BY <4>2, <4>3
    <3> QED BY <3>1, <3>2
  <2>6. Unfold(a, b, c, base, seq, k, jt)
    <3> HIDE DEF jt
    <3>1. jt = [s \in SUBSET (1..k) |-> jt[s]]
      BY DEF jt
    <3> QED BY <3>1, <2>5 DEF Unfold
  <2> QED BY <2>6, <2>1
<1> QED BY <1>1

Runs(a, b, c, base, seq, n, trace) ==
  /\ trace[0] = base
  /\ \A i \in 1..n : trace[i] = Step(a, b, c, trace[i-1], seq[i])
  /\ Loop(a, b, c, base, seq) = trace[n]

\* What a loop computes: each round starts where the one before ended.
THEOREM LoopTrace ==
  ASSUME NEW a, NEW b, NEW c, NEW base, NEW seq, NEW n \in Nat, DOMAIN seq = 1..n
  PROVE  \E trace : Runs(a, b, c, base, seq, n, trace)
<1> DEFINE it == CHOOSE f : Unfold(a, b, c, base, seq, n, f)
           trace == [i \in 0..n |-> it[1..i]]
<1>1. Unfold(a, b, c, base, seq, n, it)
  BY Unfolds
<1>2. Loop(a, b, c, base, seq) = it[1..n]
  BY DEF Loop, FoldLeft, MapThenFoldSet, Unfold
<1> HIDE DEF it
<1>3. trace[0] = base
  <2>1. 1..0 = {} /\ {} \in SUBSET (1..n)
    OBVIOUS
  <2> QED BY <2>1, <1>1 DEF Unfold
<1>4. ASSUME NEW i \in 1..n PROVE trace[i] = Step(a, b, c, trace[i-1], seq[i])
  <2>0. i \in Nat /\ i \in 1..i
    OBVIOUS
  <2>1. i \in Nat /\ i \in 1..i /\ 1..i # {}
    BY <2>0
  <2>5. 1..i \in SUBSET (1..n)
    OBVIOUS
  <2>4. (1..i) \ {i} = 1..i-1
    OBVIOUS
  <2>2. Max(1..i) = i
    BY <2>1, MaxIs
  <2>3. it[1..i] = Step(a, b, c, it[1..i-1], seq[i])
    BY <2>1, <2>2, <2>4, <2>5, <1>1 DEF Unfold
  <2> QED BY <2>3
<1>5. trace[n] = it[1..n]
  OBVIOUS
<1> HIDE DEF trace
<1>6. Runs(a, b, c, base, seq, n, trace)
  BY <1>2, <1>3, <1>4, <1>5 DEF Runs
<1> QED BY <1>6

\* What holds at the start and is kept by every round holds at the end.
THEOREM LoopInvariant ==
  ASSUME NEW a, NEW b, NEW c, NEW base, NEW seq, NEW n \in Nat, DOMAIN seq = 1..n,
         Inv(a, b, c, 0, base),
         \A i \in 1..n : \A s : Inv(a, b, c, i-1, s) => Inv(a, b, c, i, Step(a, b, c, s, seq[i]))
  PROVE  Inv(a, b, c, n, Loop(a, b, c, base, seq))
<1>1. PICK trace : Runs(a, b, c, base, seq, n, trace)
  BY LoopTrace
<1> DEFINE T == {k \in 0..n : ~Inv(a, b, c, k, trace[k])}
<1>2. ASSUME T # {} PROVE FALSE
  <2>1. PICK k \in T : \A j \in T : k <= j
    <3>1. T \in SUBSET Nat
      OBVIOUS
    <3> HIDE DEF T
    <3> QED BY <3>1, <1>2, Least
  <2>2. k # 0
    BY <1>1 DEF Runs
  <2>3. k \in 1..n /\ k-1 \notin T /\ k-1 \in 0..n
    BY <2>1, <2>2
  <2> QED BY <2>3, <2>1, <1>1 DEF Runs
<1>3. n \in 0..n
  OBVIOUS
<1> QED BY <1>1, <1>2, <1>3 DEF Runs
=============================================================================
