---------------------------- MODULE LookupProofs ----------------------------
(***************************************************************************)
(* Theorems about Lookup: whatever peers answer, in whatever order, the    *)
(* contacts that have answered are in the order of the distances the code  *)
(* computes, no three of them at one distance, and a step moves no contact *)
(* it is not about.  The lemmas about lists, and about what a round leaves *)
(* a search, are those of MachineProofs.                                   *)
(***************************************************************************)
EXTENDS Lookup, MachineProofs

-----------------------------------------------------------------------------
(* A distance is a number. *)

\* What a bit adds to the number sscanf leaves in an int, and the bit added next.
Weight(b) == IF b = INT_BITS-1 THEN -(2^b) ELSE 2^b
Some(s) == CHOOSE b \in s : TRUE

\* sum adds up the weights of every set of at most k bits of S.
Parts(S, k) == {s \in SUBSET S : Cardinality(s) <= k}
Sums(S, k, sum) ==
  sum = [s \in Parts(S, k) |-> IF s = {} THEN 0 ELSE Weight(Some(s)) + sum[s \ {Some(s)}]]

\* A set without one of its bits is smaller.
LEMMA OneLess ==
  ASSUME NEW S, IsFiniteSet(S), NEW k \in Nat, NEW s \in Parts(S, k), s # {}
  PROVE  /\ Some(s) \in s /\ k # 0
         /\ s \ {Some(s)} \in Parts(S, k-1) /\ s \ {Some(s)} \in Parts(S, k)
         /\ Cardinality(s \ {Some(s)}) < Cardinality(s)
<1>1. Some(s) \in s /\ s \in SUBSET S /\ Cardinality(s) <= k
  BY DEF Some, Parts
<1>2. IsFiniteSet(s) /\ Cardinality(s) \in Nat
  BY <1>1, FS_Subset, FS_CardinalityType
<1>3. /\ Cardinality(s \ {Some(s)}) = Cardinality(s) - 1 /\ Cardinality(s \ {Some(s)}) \in Nat
      /\ s \ {Some(s)} \in SUBSET S
  <2>1. IsFiniteSet(s \ {Some(s)}) /\ Cardinality(s \ {Some(s)}) = Cardinality(s) - 1
    BY <1>1, <1>2, FS_RemoveElement
  <2> QED BY <1>1, <2>1, FS_CardinalityType
<1> QED BY <1>1, <1>2, <1>3 DEF Parts

\* There is such a sum.
LEMMA SumExists ==
  ASSUME NEW S, IsFiniteSet(S), NEW n \in Nat
  PROVE  \E sum : Sums(S, n, sum)
<1> DEFINE T == {k \in Nat : ~\E sum : Sums(S, k, sum)}
<1>1. ASSUME T # {} PROVE FALSE
  <2>1. Min(T) \in T /\ \A j \in T : Min(T) <= j
    <3>1. T \in SUBSET Nat
      OBVIOUS
    <3> HIDE DEF T
    <3> QED BY <1>1, <3>1, Minimum
  <2>2. PICK k \in T : \A j \in T : k <= j
    BY <2>1
  <2>3. k \in Nat /\ ~\E sum : Sums(S, k, sum)
    BY <2>2
  <2>4. PICK sum : k # 0 => Sums(S, k-1, sum)
    <3>1. CASE k # 0
      <4>1. k-1 \in Nat /\ k-1 \notin T
        BY <2>2, <2>3, <3>1
      <4> QED BY <4>1
    <3> QED BY <3>1
  <2> DEFINE next == [s \in Parts(S, k) |->
                        IF s = {} THEN 0 ELSE Weight(Some(s)) + sum[s \ {Some(s)}]]
  <2>5. ASSUME NEW s \in Parts(S, k), s # {}
        PROVE  next[s \ {Some(s)}] = sum[s \ {Some(s)}]
    <3>1. /\ k # 0 /\ s \ {Some(s)} \in Parts(S, k-1) /\ s \ {Some(s)} \in Parts(S, k)
      BY <2>3, <2>5, OneLess
    <3>2. Sums(S, k-1, sum)
      BY <2>4, <3>1
    <3> DEFINE r == s \ {Some(s)}
    <3>3. r \in Parts(S, k-1) /\ r \in Parts(S, k)
      BY <3>1
    <3> HIDE DEF r
    <3>4. sum[r] = IF r = {} THEN 0 ELSE Weight(Some(r)) + sum[r \ {Some(r)}]
      BY <3>2, <3>3 DEF Sums
    <3>5. next[r] = sum[r]
      BY <3>3, <3>4
    <3> QED BY <3>5 DEF r
  <2>6. ASSUME NEW s \in Parts(S, k)
        PROVE  next[s] = IF s = {} THEN 0 ELSE Weight(Some(s)) + next[s \ {Some(s)}]
    <3>1. next[s] = IF s = {} THEN 0 ELSE Weight(Some(s)) + sum[s \ {Some(s)}]
      OBVIOUS
    <3> HIDE DEF next
    <3> QED BY <2>5, <3>1
  <2>7. next = [s \in Parts(S, k) |-> next[s]]
    OBVIOUS
  <2> HIDE DEF next
  <2>8. Sums(S, k, next)
    BY <2>6, <2>7 DEF Sums
  <2> QED BY <2>3, <2>8
<1> QED BY <1>1

\* A sum is a number.
LEMMA SumIsInt ==
  ASSUME NEW S \in SUBSET Nat, IsFiniteSet(S), NEW n \in Nat, NEW sum, Sums(S, n, sum),
         NEW r \in Parts(S, n)
  PROVE  sum[r] \in Int
<1> DEFINE Wrong == {s \in Parts(S, n) : sum[s] \notin Int}
           T == {Cardinality(s) : s \in Wrong}
<1>1. ASSUME Wrong # {} PROVE FALSE
  <2>1. \A s \in Wrong : Cardinality(s) \in Nat
    BY FS_Subset, FS_CardinalityType DEF Parts
  <2>2. T \in SUBSET Nat /\ T # {}
    BY <1>1, <2>1
  <2>3. Min(T) \in T /\ \A k \in T : Min(T) <= k
    <3> HIDE DEF T
    <3> QED BY <2>2, Minimum
  <2>4. PICK s \in Wrong : Min(T) = Cardinality(s)
    BY <2>3
  <2>5. s \in Parts(S, n) /\ sum[s] \notin Int
    BY <2>4
  <2>6. sum[s] = IF s = {} THEN 0 ELSE Weight(Some(s)) + sum[s \ {Some(s)}]
    BY <2>5 DEF Sums
  <2>7. s # {}
    BY <2>5, <2>6
  <2>8. /\ Some(s) \in s /\ s \ {Some(s)} \in Parts(S, n)
        /\ Cardinality(s \ {Some(s)}) < Cardinality(s)
    BY <2>5, <2>7, OneLess
  <2>9. Weight(Some(s)) \in Int
    <3>1. Some(s) \in Nat
      BY <2>5, <2>8 DEF Parts
    <3>2. 2^Some(s) \in Int
      BY <3>1
    <3> QED BY <3>2 DEF Weight
  <2>10. s \ {Some(s)} \in Wrong
    BY <2>5, <2>6, <2>7, <2>8, <2>9
  <2>11. Cardinality(s) <= Cardinality(s \ {Some(s)})
    BY <2>3, <2>4, <2>10
  <2> QED BY <2>1, <2>4, <2>8, <2>10, <2>11
<1> QED BY <1>1

\* A distance as the code reads it is a number, whatever is lost of it.
LEMMA DistanceIsInt ==
  ASSUME NEW lookedFor, NEW id
  PROVE  DistanceAsInt(lookedFor, id) \in Int
<1> DEFINE distance == XORmetrics(lookedFor, id)
           low == IF \E b \in distance : b >= LONG_BITS
                  THEN 0..INT_BITS-1
                  ELSE distance \cap (0..INT_BITS-1)
           size == Cardinality(low)
           sum == CHOOSE f : f = [s \in SUBSET low |->
                                    IF s = {} THEN 0 ELSE Weight(Some(s)) + f[s \ {Some(s)}]]
<1>1. low \in SUBSET Nat /\ IsFiniteSet(low) /\ size \in Nat /\ Parts(low, size) = SUBSET low
  <2>1. INT_BITS \in Nat
    BY NodeDetailsAssumption
  <2>2. low \in SUBSET (0..INT_BITS-1) /\ IsFiniteSet(0..INT_BITS-1)
    BY <2>1, FS_Interval
  <2> HIDE DEF low
  <2>3. IsFiniteSet(low) /\ Cardinality(low) \in Nat
    BY <2>2, FS_Subset, FS_CardinalityType
  <2>4. \A s \in SUBSET low : Cardinality(s) <= Cardinality(low)
    BY <2>3, FS_Subset
  <2> QED BY <2>2, <2>3, <2>4 DEF Parts
<1>2. DistanceAsInt(lookedFor, id) = sum[low]
  BY DEF DistanceAsInt, MapThenSumSet, MapThenFoldSet, Weight, Some
<1> HIDE DEF low
<1>3. Sums(low, size, sum)
  <2> HIDE DEF size
  <2> DEFINE IsSum(f) == f = [s \in SUBSET low |->
                                IF s = {} THEN 0 ELSE Weight(Some(s)) + f[s \ {Some(s)}]]
  <2>1. \A f : Sums(low, size, f) <=> IsSum(f)
    BY <1>1 DEF Sums
  <2>2. \E f : IsSum(f)
    <3> HIDE DEF IsSum
    <3> QED BY <1>1, <2>1, SumExists
  <2>3. sum = CHOOSE f : IsSum(f)
    OBVIOUS
  <2> HIDE DEF IsSum, sum
  <2>4. IsSum(sum)
    BY <2>2, <2>3
  <2> QED BY <2>1, <2>4
<1> HIDE DEF sum, size
<1>4. low \in Parts(low, size)
  BY <1>1
<1> QED BY <1>1, <1>2, <1>3, <1>4, SumIsInt

-----------------------------------------------------------------------------
(* Contacts that stay where they are. *)

\* The first n numbers of g rise, are also among the first m of h, and are those of h.
Rising(g, n) == \A p, q \in 1..n : p < q => g[p] < g[q]
Among(g, n, h, m) == \A p \in 1..n : g[p] \in Nat /\ \E q \in 1..m : h[q] = g[p]
Alike(g, h, n) == \A p \in 1..n : g[p] = h[p]

\* Of two rising lists of the same numbers the first is not longer, and agrees with the other.
LEMMA RisingAlike ==
  ASSUME NEW m \in Nat, NEW n \in Nat, NEW g, NEW h, Rising(g, m), Rising(h, n),
         Among(g, m, h, n), Among(h, n, g, m)
  PROVE  m <= n /\ Alike(g, h, m)
<1> DEFINE T == {p \in 1..m : ~(p <= n /\ g[p] = h[p])}
<1>1. ASSUME T # {} PROVE FALSE
  <2>1. Min(T) \in T /\ \A k \in T : Min(T) <= k
    <3>1. T \in SUBSET Nat
      OBVIOUS
    <3> HIDE DEF T
    <3> QED BY <1>1, <3>1, Minimum
  <2>2. PICK p \in 1..m : p \in T /\ \A k \in T : p <= k
    BY <2>1
  <2>3. \A k \in 1..m : k < p => k \in 1..n /\ g[k] = h[k]
    BY <2>2
  <2>4. ~(p <= n /\ g[p] = h[p])
    BY <2>2
  <2> HIDE DEF T
  <2>5. PICK r \in 1..n : h[r] = g[p]
    BY DEF Among
  <2>6. r >= p
    <3>1. CASE r < p
      <4>1. r \in 1..m /\ g[r] = h[r] /\ g[r] < g[p] /\ g[p] \in Nat
        BY <2>3, <3>1 DEF Rising, Among
      <4> QED BY <2>5, <4>1
    <3> QED BY <3>1
  <2>7. p \in 1..n /\ p < r
    <3>1. p \in Nat /\ r \in Nat /\ 1 <= p /\ r <= n /\ p <= n
      BY <2>6
    <3>2. p # r
      BY <2>4, <2>5, <3>1
    <3> QED BY <2>6, <3>1, <3>2
  <2>8. h[p] < g[p] /\ g[p] \in Nat
    BY <2>5, <2>7 DEF Rising, Among
  <2>9. PICK s \in 1..m : g[s] = h[p]
    BY <2>7 DEF Among
  <2>10. CASE s < p
    <3>1. h[s] = h[p] /\ s \in 1..n /\ h[s] < h[p] /\ h[p] \in Nat
      BY <2>3, <2>7, <2>9, <2>10 DEF Rising, Among
    <3> QED BY <3>1
  <2>11. CASE ~(s < p)
    <3>1. s = p \/ g[p] < g[s]
      BY <2>11 DEF Rising, Among
    <3>2. g[s] \in Nat
      BY DEF Among
    <3> QED BY <2>8, <2>9, <3>1, <3>2
  <2> QED BY <2>10, <2>11
<1>2. \A p \in 1..m : p <= n /\ g[p] = h[p]
  BY <1>1
<1>3. m <= n
  BY <1>2
<1> QED BY <1>2, <1>3 DEF Alike

\* AllBut goes through the identifiers: a round, and what is kept after it.
ButRound(ids, S, C, kept, id) == IF id \in S THEN kept ELSE Append(kept, id)
Within(ids, S) == {j \in 1..Len(ids) : ids[j] \in S}
AreAllBut(ids, S, C, i, kept) == IsWhatIsLeft(ids, Within(ids, S), C, i, kept)

Choosing == INSTANCE Loops WITH Step <- ButRound, Inv <- AreAllBut

\* The others are what is left without the identifiers of S.
LEMMA AllButAre ==
  ASSUME NEW C, NEW ids \in Seq(C), NEW S
  PROVE  AllBut(ids, S) \in Seq(C) /\ \E g : KeptFrom(ids, Within(ids, S), Len(ids), AllBut(ids, S), g)
<1> DEFINE n == Len(ids)
<1>1. n \in Nat /\ DOMAIN ids = 1..n
  OBVIOUS
<1>2. AllBut(ids, S) = Choosing!Loop(ids, S, C, <<>>, ids)
  BY DEF AllBut, FoldLeft, MapThenFoldSet, Max,
         Choosing!FoldLeft, Choosing!MapThenFoldSet, Choosing!Max, Choosing!Loop, ButRound
<1>3. AreAllBut(ids, S, C, 0, <<>>)
  <2>1. Len(<<>>) = 0 /\ 1..0 = {} /\ <<>> \in Seq(C)
    OBVIOUS
  <2>2. KeptFrom(ids, Within(ids, S), 0, <<>>, [p \in {} |-> 0])
    BY <2>1 DEF KeptFrom
  <2> QED BY <2>1, <2>2 DEF AreAllBut, IsWhatIsLeft
<1>4. ASSUME NEW i \in 1..n, NEW kept, AreAllBut(ids, S, C, i-1, kept)
      PROVE  AreAllBut(ids, S, C, i, ButRound(ids, S, C, kept, ids[i]))
  <2>1. i \in Nat /\ i >= 1 /\ ids[i] \in C
    BY <1>1
  <2>2. IsWhatIsLeft(ids, Within(ids, S), C, i, Keep(ids, Within(ids, S), kept, i))
    BY <1>4, <2>1, SiftOne DEF AreAllBut
  <2>3. i \in Within(ids, S) <=> ids[i] \in S
    BY DEF Within
  <2> QED BY <2>2, <2>3 DEF AreAllBut, ButRound, Keep
<1>5. AreAllBut(ids, S, C, n, AllBut(ids, S))
  BY <1>1, <1>2, <1>3, <1>4, Choosing!LoopInvariant
<1> QED BY <1>5 DEF AreAllBut, IsWhatIsLeft

\* m has the contacts of l that are not in S, each where f says and in the same order,
\* and no others that are not in S.
Moved(l, m, S, f) ==
  /\ \A q \in 1..Len(m) :
       m[q].nodeID \notin S => f[q] \in 1..Len(l) /\ m[q].nodeID = l[f[q]].nodeID
  /\ \A p, q \in 1..Len(m) :
       m[p].nodeID \notin S /\ m[q].nodeID \notin S /\ p < q => f[p] < f[q]
  /\ \A j \in 1..Len(l) : l[j].nodeID \notin S => \E q \in 1..Len(m) : m[q].nodeID \notin S /\ f[q] = j

Stay(l, m, S) == \E f : Moved(l, m, S, f)

\* Then the others of the two are equal.
LEMMA SameAllBut ==
  ASSUME NEW C, NEW l \in Seq(C), NEW m \in Seq(C), NEW S, Stay(l, m, S)
  PROVE  AllBut(NodeStrings(m), S) = AllBut(NodeStrings(l), S)
<1> DEFINE u == NodeStrings(l)
           v == NodeStrings(m)
           a == AllBut(u, S)
           b == AllBut(v, S)
           N == {c.nodeID : c \in C}
<1>0. /\ u \in Seq(N) /\ Len(u) = Len(l) /\ \A i \in 1..Len(l) : u[i] = l[i].nodeID
      /\ v \in Seq(N) /\ Len(v) = Len(m) /\ \A i \in 1..Len(m) : v[i] = m[i].nodeID
  BY DEF NodeStrings
<1> HIDE DEF u, v, N
<1>1. a \in Seq(N) /\ b \in Seq(N)
  BY <1>0, AllButAre
<1>2. PICK g : KeptFrom(u, Within(u, S), Len(u), a, g)
  BY <1>0, AllButAre
<1>3. PICK h : KeptFrom(v, Within(v, S), Len(v), b, h)
  BY <1>0, AllButAre
<1> HIDE DEF a, b
<1>15. PICK f : Moved(l, m, S, f)
  BY DEF Stay
<1> DEFINE k == [p \in 1..Len(b) |-> f[h[p]]]
<1>4. Len(a) \in Nat /\ Len(b) \in Nat /\ Len(l) \in Nat /\ Len(m) \in Nat
  BY <1>1
<1>5. /\ \A p \in 1..Len(a) : g[p] \in 1..Len(l) /\ u[g[p]] \notin S /\ a[p] = u[g[p]]
      /\ \A j \in 1..Len(l) : u[j] \notin S => \E p \in 1..Len(a) : g[p] = j
      /\ Rising(g, Len(a))
  BY <1>0, <1>2 DEF KeptFrom, Within, Rising
<1>6. /\ \A p \in 1..Len(b) : h[p] \in 1..Len(m) /\ v[h[p]] \notin S /\ b[p] = v[h[p]]
      /\ \A j \in 1..Len(m) : v[j] \notin S => \E p \in 1..Len(b) : h[p] = j
      /\ Rising(h, Len(b))
  BY <1>0, <1>3 DEF KeptFrom, Within, Rising
<1>16. /\ \A q \in 1..Len(m) : v[q] \notin S => f[q] \in 1..Len(l) /\ v[q] = u[f[q]]
       /\ \A p, q \in 1..Len(m) : v[p] \notin S /\ v[q] \notin S /\ p < q => f[p] < f[q]
       /\ \A j \in 1..Len(l) : u[j] \notin S => \E q \in 1..Len(m) : v[q] \notin S /\ f[q] = j
  BY <1>0, <1>15 DEF Moved
<1>7. \A p \in 1..Len(b) : k[p] \in 1..Len(l) /\ b[p] = u[k[p]] /\ u[k[p]] \notin S
  BY <1>6, <1>16
<1>8. Rising(k, Len(b))
  BY <1>6, <1>16 DEF Rising
<1>9. ASSUME NEW p \in 1..Len(a) PROVE \E q \in 1..Len(b) : k[q] = g[p]
  <2>1. PICK j \in 1..Len(m) : v[j] \notin S /\ f[j] = g[p]
    BY <1>5, <1>16
  <2>2. PICK q \in 1..Len(b) : h[q] = j
    BY <1>6, <2>1
  <2> QED BY <2>1, <2>2
<1> HIDE DEF k
<1>10. /\ \A p \in 1..Len(a) : g[p] \in Nat
       /\ \A q \in 1..Len(b) : k[q] \in Nat /\ \E p \in 1..Len(a) : g[p] = k[q]
  <2>1. \A j \in 1..Len(l) : j \in Nat
    BY <1>4
  <2>2. \A p \in 1..Len(a) : g[p] \in Nat
    BY <1>5, <2>1
  <2>3. \A q \in 1..Len(b) : k[q] \in Nat
    BY <1>7, <2>1
  <2>4. ASSUME NEW q \in 1..Len(b) PROVE \E p \in 1..Len(a) : g[p] = k[q]
    BY <1>5, <1>7
  <2> QED BY <2>2, <2>3, <2>4
<1>11. Len(a) <= Len(b) /\ Len(b) <= Len(a) /\ \A p \in 1..Len(a) : g[p] = k[p]
  <2>1. Among(g, Len(a), k, Len(b)) /\ Among(k, Len(b), g, Len(a))
    BY <1>9, <1>10 DEF Among
  <2> QED BY <1>4, <1>5, <1>8, <2>1, RisingAlike DEF Alike
<1>12. Len(a) = Len(b) /\ \A p \in 1..Len(a) : a[p] = b[p]
  <2>1. Len(a) = Len(b)
    BY <1>4, <1>11
  <2>2. ASSUME NEW p \in 1..Len(a) PROVE a[p] = b[p]
    <3>1. p \in 1..Len(b) /\ g[p] = k[p]
      BY <1>11, <2>1
    <3> QED BY <1>5, <1>7, <3>1
  <2> QED BY <2>1, <2>2
<1>13. a = b
  BY <1>1, <1>12, SeqEqual
<1> QED BY <1>13 DEF a, b, u, v

\* A list none of whose contacts moves, ...
LEMMA StayIsReflexive ==
  ASSUME NEW C, NEW l \in Seq(C), NEW S
  PROVE  Stay(l, l, S)
<1>1. Moved(l, l, S, [p \in 1..Len(l) |-> p])
  BY DEF Moved
<1> QED BY <1>1 DEF Stay

\* ... two steps that move none of the others, ...
LEMMA StayIsTransitive ==
  ASSUME NEW l1, NEW l2, NEW l3, NEW S, Stay(l1, l2, S), Stay(l2, l3, S)
  PROVE  Stay(l1, l3, S)
<1>1. PICK f : Moved(l1, l2, S, f)
  BY DEF Stay
<1>2. PICK g : Moved(l2, l3, S, g)
  BY DEF Stay
<1> DEFINE h == [q \in 1..Len(l3) |-> f[g[q]]]
<1>3. ASSUME NEW q \in 1..Len(l3), l3[q].nodeID \notin S
      PROVE  /\ g[q] \in 1..Len(l2) /\ l2[g[q]].nodeID \notin S
             /\ h[q] = f[g[q]] /\ h[q] \in 1..Len(l1) /\ l3[q].nodeID = l1[h[q]].nodeID
  BY <1>1, <1>2, <1>3 DEF Moved
<1>4. ASSUME NEW p \in 1..Len(l3), NEW q \in 1..Len(l3),
             l3[p].nodeID \notin S, l3[q].nodeID \notin S, p < q
      PROVE  h[p] < h[q]
  <2>1. g[p] < g[q]
    BY <1>2, <1>4 DEF Moved
  <2> QED BY <1>1, <1>3, <1>4, <2>1 DEF Moved
<1>5. ASSUME NEW j \in 1..Len(l1), l1[j].nodeID \notin S
      PROVE  \E q \in 1..Len(l3) : l3[q].nodeID \notin S /\ h[q] = j
  <2>1. PICK p \in 1..Len(l2) : l2[p].nodeID \notin S /\ f[p] = j
    BY <1>1, <1>5 DEF Moved
  <2>2. PICK q \in 1..Len(l3) : l3[q].nodeID \notin S /\ g[q] = p
    BY <1>2, <2>1 DEF Moved
  <2> QED BY <2>1, <2>2
<1> HIDE DEF h
<1>6. Moved(l1, l3, S, h)
  BY <1>3, <1>4, <1>5 DEF Moved
<1> QED BY <1>6 DEF Stay

\* ... and two lists that are stuck together.
LEMMA StayTogether ==
  ASSUME NEW C, NEW a \in Seq(C), NEW b \in Seq(C), NEW c \in Seq(C), NEW d \in Seq(C), NEW S,
         Stay(a, c, S), Stay(b, d, S)
  PROVE  Stay(a \o b, c \o d, S)
<1>1. PICK f : Moved(a, c, S, f)
  BY DEF Stay
<1>2. PICK g : Moved(b, d, S, g)
  BY DEF Stay
<1> DEFINE h == [q \in 1..Len(c)+Len(d) |-> IF q <= Len(c) THEN f[q] ELSE Len(a) + g[q-Len(c)]]
           l == a \o b
           m == c \o d
<1>3. /\ Len(a) \in Nat /\ Len(b) \in Nat /\ Len(c) \in Nat /\ Len(d) \in Nat
      /\ Len(l) = Len(a) + Len(b) /\ Len(m) = Len(c) + Len(d)
      /\ \A i \in 1..Len(l) : l[i] = IF i <= Len(a) THEN a[i] ELSE b[i-Len(a)]
      /\ \A i \in 1..Len(m) : m[i] = IF i <= Len(c) THEN c[i] ELSE d[i-Len(c)]
  OBVIOUS
<1> HIDE DEF l, m
<1>4. ASSUME NEW q \in 1..Len(m), m[q].nodeID \notin S
      PROVE  /\ q <= Len(c) => /\ q \in 1..Len(c) /\ m[q] = c[q] /\ h[q] = f[q] /\ h[q] \in 1..Len(a)
                               /\ a[h[q]].nodeID = c[q].nodeID
             /\ q > Len(c) => /\ q-Len(c) \in 1..Len(d) /\ m[q] = d[q-Len(c)]
                              /\ h[q] = Len(a) + g[q-Len(c)] /\ g[q-Len(c)] \in 1..Len(b)
                              /\ b[g[q-Len(c)]].nodeID = d[q-Len(c)].nodeID
             /\ h[q] \in 1..Len(l) /\ m[q].nodeID = l[h[q]].nodeID
  <2>1. CASE q <= Len(c)
    <3>1. q \in 1..Len(c) /\ m[q] = c[q] /\ h[q] = f[q]
      BY <1>3, <2>1
    <3>2. h[q] \in 1..Len(a) /\ a[h[q]].nodeID = c[q].nodeID
      BY <1>1, <1>4, <3>1 DEF Moved
    <3> HIDE DEF h
    <3>3. h[q] \in 1..Len(l) /\ l[h[q]] = a[h[q]]
      BY <1>3, <3>2
    <3> QED BY <1>3, <2>1, <3>1, <3>2, <3>3
  <2>2. CASE ~(q <= Len(c))
    <3>1. q-Len(c) \in 1..Len(d) /\ m[q] = d[q-Len(c)] /\ h[q] = Len(a) + g[q-Len(c)]
      BY <1>3, <2>2
    <3>2. g[q-Len(c)] \in 1..Len(b) /\ b[g[q-Len(c)]].nodeID = d[q-Len(c)].nodeID
      BY <1>2, <1>4, <3>1 DEF Moved
    <3> HIDE DEF h
    <3>3. h[q] \in 1..Len(l) /\ l[h[q]] = b[g[q-Len(c)]]
      <4> DEFINE r == g[q-Len(c)]
      <4>1. r \in 1..Len(b) /\ h[q] = Len(a) + r
        BY <3>1, <3>2
      <4> HIDE DEF r
      <4>2. h[q] \in 1..Len(l) /\ ~(h[q] <= Len(a)) /\ h[q] - Len(a) = r
        BY <1>3, <4>1
      <4> QED BY <1>3, <4>2 DEF r
    <3> QED BY <1>3, <2>2, <3>1, <3>2, <3>3
  <2> QED BY <2>1, <2>2
<1>5. ASSUME NEW p \in 1..Len(m), NEW q \in 1..Len(m),
             m[p].nodeID \notin S, m[q].nodeID \notin S, p < q
      PROVE  h[p] < h[q]
  <2> HIDE DEF h
  <2>1. CASE q <= Len(c)
    <3>1. p <= Len(c)
      BY <1>3, <1>5, <2>1
    <3> QED BY <1>1, <1>4, <1>5, <2>1, <3>1 DEF Moved
  <2>2. CASE p > Len(c)
    <3>1. q > Len(c) /\ p-Len(c) < q-Len(c)
      BY <1>3, <1>5, <2>2
    <3>2. g[p-Len(c)] < g[q-Len(c)]
      BY <1>2, <1>4, <1>5, <2>2, <3>1 DEF Moved
    <3> QED BY <1>3, <1>4, <1>5, <2>2, <3>1, <3>2
  <2>3. CASE p <= Len(c) /\ q > Len(c)
    <3>1. h[p] \in 1..Len(a)
      BY <1>4, <1>5, <2>3
    <3>2. h[q] = Len(a) + g[q-Len(c)] /\ g[q-Len(c)] \in 1..Len(b)
      BY <1>4, <1>5, <2>3
    <3> QED BY <1>3, <3>1, <3>2
  <2> QED BY <1>3, <2>1, <2>2, <2>3
<1>6. ASSUME NEW j \in 1..Len(l), l[j].nodeID \notin S
      PROVE  \E q \in 1..Len(m) : m[q].nodeID \notin S /\ h[q] = j
  <2>1. CASE j <= Len(a)
    <3>1. j \in 1..Len(a) /\ l[j] = a[j]
      BY <1>3, <2>1
    <3>2. PICK q \in 1..Len(c) : c[q].nodeID \notin S /\ f[q] = j
      BY <1>1, <1>6, <3>1 DEF Moved
    <3>3. q \in 1..Len(m) /\ m[q] = c[q] /\ h[q] = f[q]
      BY <1>3
    <3> QED BY <3>2, <3>3
  <2>2. CASE ~(j <= Len(a))
    <3>1. j-Len(a) \in 1..Len(b) /\ l[j] = b[j-Len(a)]
      BY <1>3, <2>2
    <3>2. PICK q \in 1..Len(d) : d[q].nodeID \notin S /\ g[q] = j-Len(a)
      BY <1>2, <1>6, <3>1 DEF Moved
    <3> DEFINE r == q + Len(c)
    <3>3. r \in 1..Len(m) /\ ~(r <= Len(c)) /\ r-Len(c) = q /\ r \in 1..Len(c)+Len(d)
      BY <1>3
    <3>4. m[r] = d[q] /\ h[r] = Len(a) + g[q]
      BY <1>3, <3>3
    <3>5. Len(a) + (j - Len(a)) = j
      BY <1>3
    <3> QED BY <3>2, <3>3, <3>4, <3>5
  <2> QED BY <2>1, <2>2
<1> HIDE DEF h
<1>7. Moved(l, m, S, h)
  BY <1>4, <1>5, <1>6 DEF Moved
<1> QED BY <1>7 DEF Stay, l, m

-----------------------------------------------------------------------------
(* Contacts in the order of their distances. *)

Dist(k, n) == DistanceAsInt(k, n.nodeID)

\* A list in the order of the distances to k, no three contacts of it at one.
ByDistance(k, l) ==
  \A i, j \in 1..Len(l) : i < j => Dist(k, l[i]) <= Dist(k, l[j])
NoThird(k, l) ==
  \A i, j, p \in 1..Len(l) :
    i < j /\ j < p => Dist(k, l[i]) # Dist(k, l[j]) \/ Dist(k, l[j]) # Dist(k, l[p])
InOrder(k, l) == ByDistance(k, l) /\ NoThird(k, l)

\* A list those contacts of which that have answered are so.
AnsweredInOrder(k, l) ==
  /\ \A i, j \in 1..Len(l) :
       i < j /\ l[i].count = 2 /\ l[j].count = 2 => Dist(k, l[i]) <= Dist(k, l[j])
  /\ \A i, j, p \in 1..Len(l) :
       i < j /\ j < p /\ l[i].count = 2 /\ l[j].count = 2 /\ l[p].count = 2 =>
         Dist(k, l[i]) # Dist(k, l[j]) \/ Dist(k, l[j]) # Dist(k, l[p])

\* insert_acc_distance finds the place: what is in front is not farther than the
\* new contact, what is behind is not nearer, and only the head may be as far.
LEMMA InsertPlace ==
  ASSUME NEW C, NEW l \in Seq(C), NEW node \in C, NEW k, ByDistance(k, l)
  PROVE  \/ insert_acc_distance(l, node, k) = l
         \/ /\ Len(l) < length_bucket
            /\ \E at \in 1..Len(l)+1 :
                 /\ insert_acc_distance(l, node, k) = InsertAt(l, at, node)
                 /\ \A i \in 1..at-1 : Dist(k, l[i]) <= Dist(k, node)
                 /\ \A i \in at..Len(l) : Dist(k, node) <= Dist(k, l[i])
                 /\ \A i \in 1..Len(l) : Dist(k, l[i]) = Dist(k, node) => i = 1
<1> DEFINE behind == {j \in 2..Len(l) : Dist(k, node) <= Dist(k, l[j])}
           near == l = <<>> \/ Dist(k, node) < Dist(k, l[1])
           at == IF near THEN 1 ELSE Min(behind \cup {Len(l) + 1})
<1>1. Len(l) \in Nat /\ length_bucket \in Nat
  BY NodeDetailsAssumption
<1>2. \A n : Dist(k, n) \in Int
  BY DistanceIsInt DEF Dist
<1>3. \/ insert_acc_distance(l, node, k) = l
      \/ /\ Len(l) < length_bucket /\ insert_acc_distance(l, node, k) = InsertAt(l, at, node)
         /\ ~(at \in behind /\ Dist(k, node) = Dist(k, l[at]))
  <2>1. insert_acc_distance(l, node, k)
          = IF \/ Len(l) >= length_bucket
               \/ at \in behind /\ Dist(k, node) = Dist(k, l[at])
            THEN l ELSE InsertAt(l, at, node)
    BY DEF insert_acc_distance, Dist
  <2> HIDE DEF at, behind
  <2> QED BY <1>1, <2>1
<1>4. CASE near
  <2>1. at = 1 /\ 1 \in 1..Len(l)+1
    BY <1>1, <1>4
  <2>2. \A i \in 1..0 : FALSE
    OBVIOUS
  <2>3. ASSUME NEW i \in 1..Len(l) PROVE Dist(k, node) < Dist(k, l[i])
    <3>1. l # <<>> /\ 1 \in 1..Len(l)
      BY <1>1
    <3>2. Dist(k, node) < Dist(k, l[1])
      BY <1>4, <3>1
    <3>3. Dist(k, l[1]) <= Dist(k, l[i])
      <4>1. CASE i = 1
        BY <1>2, <4>1
      <4>2. CASE i # 1
        BY <1>1, <3>1, <4>2 DEF ByDistance
      <4> QED BY <4>1, <4>2
    <3> QED BY <1>2, <3>2, <3>3
  <2>4. \A i \in 1..Len(l) : Dist(k, node) <= Dist(k, l[i]) /\ Dist(k, l[i]) # Dist(k, node)
    BY <1>2, <2>3
  <2> HIDE DEF at, near
  <2> QED BY <1>3, <2>1, <2>2, <2>4
<1>5. CASE ~near
  <2>1. behind \cup {Len(l) + 1} \in SUBSET Nat /\ behind \cup {Len(l)+1} \subseteq 2..Len(l)+1
    <3>1. l # <<>> => Len(l) # 0
      OBVIOUS
    <3> QED BY <1>1, <1>5, <3>1
  <2>2. /\ at \in behind \cup {Len(l) + 1}
        /\ \A j \in behind \cup {Len(l) + 1} : at <= j
    <3>1. at = Min(behind \cup {Len(l) + 1})
      BY <1>5
    <3> HIDE DEF at, behind, near
    <3> QED BY <2>1, <3>1, Minimum
  <2>3. at \in 1..Len(l)+1
    <3> HIDE DEF at, behind, near
    <3> QED BY <1>1, <2>1, <2>2
  <2>4. ASSUME NEW i \in 1..at-1
        PROVE  Dist(k, l[i]) <= Dist(k, node) /\ (i # 1 => Dist(k, l[i]) # Dist(k, node))
    <3>1. i \in 1..Len(l) /\ i < at
      <4> HIDE DEF at
      <4> QED BY <1>1, <2>3
    <3>2. CASE i = 1
      <4>1. ~(Dist(k, node) < Dist(k, l[1]))
        BY <1>5
      <4> QED BY <1>2, <3>2, <4>1
    <3>3. CASE i # 1
      <4>1. i \in 2..Len(l) /\ i \notin behind
        <5> HIDE DEF at, behind
        <5> QED BY <1>1, <2>2, <2>3, <3>1, <3>3
      <4>2. ~(Dist(k, node) <= Dist(k, l[i]))
        BY <4>1
      <4> QED BY <1>2, <4>2
    <3> QED BY <3>2, <3>3
  <2>5. ASSUME NEW i \in at..Len(l)
        PROVE  /\ Dist(k, node) <= Dist(k, l[i])
               /\ Dist(k, node) # Dist(k, l[at]) => Dist(k, l[i]) # Dist(k, node)
               /\ at \in behind
    <3>1. at \in behind /\ i \in 1..Len(l) /\ (at = i \/ at < i) /\ at \in 1..Len(l)
      <4>1. at <= Len(l) /\ i \in 1..Len(l)
        <5> HIDE DEF at
        <5> QED BY <1>1, <2>3
      <4> HIDE DEF at, behind
      <4> QED BY <1>1, <2>2, <2>3, <4>1
    <3>2. Dist(k, node) <= Dist(k, l[at])
      <4> HIDE DEF at
      <4> QED BY <3>1
    <3> HIDE DEF at, behind, near
    <3>3. Dist(k, l[at]) <= Dist(k, l[i])
      BY <1>2, <3>1 DEF ByDistance
    <3> QED BY <1>2, <3>1, <3>2, <3>3
  <2> HIDE DEF at, behind, near
  <2>6. ASSUME ~(at \in behind /\ Dist(k, node) = Dist(k, l[at])), NEW i \in 1..Len(l),
               Dist(k, l[i]) = Dist(k, node)
        PROVE  i = 1
    <3>1. i \in 1..at-1 \/ i \in at..Len(l)
      BY <1>1, <2>3
    <3> QED BY <2>4, <2>5, <2>6, <3>1
  <2> QED BY <1>3, <2>3, <2>4, <2>5, <2>6
<1> QED BY <1>4, <1>5

\* A list in order is in order when a contact was put into it.
LEMMA InsertKeepsOrder ==
  ASSUME NEW C, NEW l \in Seq(C), NEW node \in C, NEW k, InOrder(k, l)
  PROVE  InOrder(k, insert_acc_distance(l, node, k))
<1> DEFINE m == insert_acc_distance(l, node, k)
<1>1. CASE m = l
  BY <1>1
<1>2. CASE m # l
  <2>1. PICK at \in 1..Len(l)+1 :
          /\ m = InsertAt(l, at, node)
          /\ \A i \in 1..at-1 : Dist(k, l[i]) <= Dist(k, node)
          /\ \A i \in at..Len(l) : Dist(k, node) <= Dist(k, l[i])
          /\ \A i \in 1..Len(l) : Dist(k, l[i]) = Dist(k, node) => i = 1
    BY <1>2, InsertPlace DEF InOrder
  <2> HIDE DEF m
  <2> DEFINE f(p) == IF p < at THEN p ELSE p-1
  <2>2. Len(m) = Len(l) + 1 /\ Len(l) \in Nat
    BY <2>1, InsertAtProperties
  <2>3. ASSUME NEW p \in 1..Len(l)+1
        PROVE  InsertAt(l, at, node)[p]
                 = IF p < at THEN l[p] ELSE IF p = at THEN node ELSE l[p-1]
    BY InsertAtProperties
  <2>4. ASSUME NEW p \in 1..Len(m)
        PROVE  /\ p = at => m[p] = node
               /\ p # at => /\ f(p) \in 1..Len(l) /\ m[p] = l[f(p)]
                            /\ p < at => f(p) \in 1..at-1
                            /\ p > at => f(p) \in at..Len(l)
    <3>1. p \in 1..Len(l)+1
      BY <2>2
    <3>2. m[p] = IF p < at THEN l[p] ELSE IF p = at THEN node ELSE l[p-1]
      BY <2>1, <2>3, <3>1
    <3> QED BY <2>2, <3>1, <3>2
  <2>5. ASSUME NEW p \in 1..Len(m), NEW q \in 1..Len(m), p < q, p # at, q # at
        PROVE  f(p) < f(q)
    BY <2>2, <2>5
  <2> HIDE DEF f
  <2>6. \A n : Dist(k, n) \in Int
    BY DistanceIsInt DEF Dist
  <2>7. ASSUME NEW i \in 1..Len(m), NEW j \in 1..Len(m), i < j
        PROVE  Dist(k, m[i]) <= Dist(k, m[j])
    <3>1. CASE j = at
      BY <2>1, <2>4, <2>7, <3>1
    <3>2. CASE i = at
      BY <2>1, <2>4, <2>7, <3>2
    <3>3. CASE i # at /\ j # at
      <4>1. f(i) \in 1..Len(l) /\ f(j) \in 1..Len(l) /\ m[i] = l[f(i)] /\ m[j] = l[f(j)]
        BY <2>4, <3>3
      <4>2. f(i) < f(j)
        BY <2>5, <2>7, <3>3
      <4> QED BY <4>1, <4>2 DEF InOrder, ByDistance
    <3> QED BY <3>1, <3>2, <3>3
  <2>8. ASSUME NEW i \in 1..Len(m), NEW j \in 1..Len(m), NEW p \in 1..Len(m), i < j, j < p,
               Dist(k, m[i]) = Dist(k, m[j]), Dist(k, m[j]) = Dist(k, m[p])
        PROVE  FALSE
    <3>1. i < p /\ i # j /\ j # p /\ i # p
      BY <2>2, <2>8
    <3>2. CASE i # at /\ j # at /\ p # at
      <4>1. /\ f(i) \in 1..Len(l) /\ f(j) \in 1..Len(l) /\ f(p) \in 1..Len(l)
            /\ m[i] = l[f(i)] /\ m[j] = l[f(j)] /\ m[p] = l[f(p)]
        BY <2>4, <3>2
      <4>2. f(i) < f(j) /\ f(j) < f(p)
        BY <2>5, <2>8, <3>2
      <4>3. Dist(k, l[f(i)]) = Dist(k, l[f(j)]) /\ Dist(k, l[f(j)]) = Dist(k, l[f(p)])
        BY <2>8, <4>1
      <4> QED BY <4>1, <4>2, <4>3 DEF InOrder, NoThird
    <3>3. ASSUME NEW r \in 1..Len(m), NEW s \in 1..Len(m), r < s, r # at, s # at,
                 Dist(k, m[r]) = Dist(k, node), Dist(k, m[s]) = Dist(k, node)
          PROVE  FALSE
      <4>1. f(r) = 1 /\ f(s) = 1
        BY <2>1, <2>4, <3>3
      <4> QED BY <2>5, <3>3, <4>1
    <3>4. CASE i = at
      BY <2>4, <2>8, <3>1, <3>3, <3>4
    <3>5. CASE j = at
      BY <2>4, <2>8, <3>1, <3>3, <3>5
    <3>6. CASE p = at
      BY <2>4, <2>8, <3>1, <3>3, <3>6
    <3> QED BY <3>2, <3>4, <3>5, <3>6
  <2> QED BY <2>7, <2>8 DEF InOrder, ByDistance, NoThird, m
<1> QED BY <1>1, <1>2

-----------------------------------------------------------------------------
(* Lists that lose contacts. *)

\* m is l without some contacts of S; g says where each of m comes from.
Left(l, m, S, g) ==
  /\ \A p \in 1..Len(m) : g[p] \in 1..Len(l) /\ m[p] = l[g[p]]
  /\ \A p, q \in 1..Len(m) : p < q => g[p] < g[q]
  /\ \A j \in 1..Len(l) : l[j].nodeID \notin S => \E p \in 1..Len(m) : g[p] = j
Loses(l, m, S) == \E g : Left(l, m, S, g)

\* The others stay, ...
LEMMA LosersStay ==
  ASSUME NEW l, NEW m, NEW S, Loses(l, m, S)
  PROVE  Stay(l, m, S)
<1>1. PICK g : Left(l, m, S, g)
  BY DEF Loses
<1>2. Moved(l, m, S, g)
  BY <1>1 DEF Left, Moved
<1> QED BY <1>2 DEF Stay

\* ... a list that loses contacts twice loses contacts, ...
LEMMA LosesIsTransitive ==
  ASSUME NEW l1, NEW l2, NEW l3, NEW S, Loses(l1, l2, S), Loses(l2, l3, S)
  PROVE  Loses(l1, l3, S)
<1>1. PICK f : Left(l1, l2, S, f)
  BY DEF Loses
<1>2. PICK g : Left(l2, l3, S, g)
  BY DEF Loses
<1> DEFINE h == [q \in 1..Len(l3) |-> f[g[q]]]
<1>3. ASSUME NEW q \in 1..Len(l3)
      PROVE  g[q] \in 1..Len(l2) /\ h[q] = f[g[q]] /\ h[q] \in 1..Len(l1) /\ l3[q] = l1[h[q]]
  BY <1>1, <1>2 DEF Left
<1>4. ASSUME NEW p \in 1..Len(l3), NEW q \in 1..Len(l3), p < q
      PROVE  h[p] < h[q]
  <2>1. g[p] < g[q]
    BY <1>2, <1>4 DEF Left
  <2> QED BY <1>1, <1>3, <2>1 DEF Left
<1>5. ASSUME NEW j \in 1..Len(l1), l1[j].nodeID \notin S
      PROVE  \E q \in 1..Len(l3) : h[q] = j
  <2>1. PICK p \in 1..Len(l2) : f[p] = j /\ l2[p] = l1[j]
    BY <1>1, <1>5 DEF Left
  <2>2. PICK q \in 1..Len(l3) : g[q] = p
    BY <1>2, <1>5, <2>1 DEF Left
  <2> QED BY <2>1, <2>2
<1> HIDE DEF h
<1>6. Left(l1, l3, S, h)
  BY <1>3, <1>4, <1>5 DEF Left
<1> QED BY <1>6 DEF Loses

\* ... and what has answered is in order as before.
LEMMA LosersInOrder ==
  ASSUME NEW l, NEW m, NEW S, Loses(l, m, S), NEW k, AnsweredInOrder(k, l)
  PROVE  AnsweredInOrder(k, m)
<1>1. PICK g : Left(l, m, S, g)
  BY DEF Loses
<1>2. \A p \in 1..Len(m) : g[p] \in 1..Len(l) /\ m[p] = l[g[p]]
  BY <1>1 DEF Left
<1>3. \A p, q \in 1..Len(m) : p < q => g[p] < g[q]
  BY <1>1 DEF Left
<1>4. ASSUME NEW i \in 1..Len(m), NEW j \in 1..Len(m), i < j, m[i].count = 2, m[j].count = 2
      PROVE  Dist(k, m[i]) <= Dist(k, m[j])
  <2>1. g[i] < g[j] /\ g[i] \in 1..Len(l) /\ g[j] \in 1..Len(l) /\ m[i] = l[g[i]] /\ m[j] = l[g[j]]
    BY <1>2, <1>3, <1>4
  <2> QED BY <1>4, <2>1 DEF AnsweredInOrder
<1>5. ASSUME NEW i \in 1..Len(m), NEW j \in 1..Len(m), NEW p \in 1..Len(m), i < j, j < p,
             m[i].count = 2, m[j].count = 2, m[p].count = 2
      PROVE  Dist(k, m[i]) # Dist(k, m[j]) \/ Dist(k, m[j]) # Dist(k, m[p])
  <2>1. /\ g[i] < g[j] /\ g[j] < g[p]
        /\ g[i] \in 1..Len(l) /\ g[j] \in 1..Len(l) /\ g[p] \in 1..Len(l)
        /\ m[i] = l[g[i]] /\ m[j] = l[g[j]] /\ m[p] = l[g[p]]
    BY <1>2, <1>3, <1>5
  <2> QED BY <1>5, <2>1 DEF AnsweredInOrder
<1> QED BY <1>4, <1>5 DEF AnsweredInOrder

\* A list without the positions gone, all of them of contacts of S.
LEMMA RemovalLoses ==
  ASSUME NEW C, NEW l \in Seq(C), NEW S, NEW gone, \A i \in gone : l[i].nodeID \in S
  PROVE  RemovePositions(l, gone) \in Seq(C) /\ Loses(l, RemovePositions(l, gone), S)
<1> DEFINE m == RemovePositions(l, gone)
<1>1. m \in Seq(C)
  BY RemoveLeaves
<1>2. PICK g : KeptFrom(l, gone, Len(l), m, g)
  BY RemoveLeaves
<1> HIDE DEF m
<1>3. Left(l, m, S, g)
  BY <1>2 DEF KeptFrom, Left
<1> QED BY <1>1, <1>3 DEF Loses, m

\* delete_node unlinks contacts with the identifier it is given and no others.
LEMMA UnlinkedHaveIt ==
  ASSUME NEW l, NEW id, NEW j \in Unlinked(l, id)
  PROVE  l[j].nodeID = id
<1>1. CASE Len(l) = 1
  BY <1>1 DEF Unlinked
<1>2. CASE Len(l) # 1
  <2>1. j \in 2..Len(l) /\ \E i \in 1..j-1 : \A p \in i+1..j : l[p].nodeID = id
    BY <1>2 DEF Unlinked
  <2> QED BY <2>1
<1> QED BY <1>1, <1>2

\* The contacts of a list that were asked and have not answered in time.
Late(l) ==
  {l[i].nodeID : i \in {j \in 1..Len(l) : /\ l[j].count = 1
                                          /\ now - l[j].timestamp > 2 * KADEM_TIMEOUT_PING}}

\* PruneList goes through a list: the list and the cursor.
DropRound(l, S, C, s, i) == PruneStep(s, i)
HasLost(l, S, C, i, s) ==
  /\ s = [list |-> s.list, at |-> s.at]
  /\ s.at \in Nat \ {0}
  /\ s.list \in Seq(C) /\ Loses(l, s.list, S)

Dropping == INSTANCE Loops WITH Step <- DropRound, Inv <- HasLost

\* A round: a contact is left, or it is late and dropped.
LEMMA DropRoundLoses ==
  ASSUME NEW C, NEW l \in Seq(C), NEW S, Late(l) \subseteq S, NEW i, NEW s, HasLost(l, S, C, i-1, s)
  PROVE  HasLost(l, S, C, i, PruneStep(s, i))
<1> DEFINE drop == DropAndAdvance(s.list, s.at)
           next == [s EXCEPT !.at = s.at + 1]
           gone == UnlinkedBySelf(s.list, s.at)
           id == s.list[s.at].nodeID
<1>1. \/ PruneStep(s, i) \in {s, next}
      \/ /\ PruneStep(s, i) = drop /\ ~(s.at > Len(s.list))
         /\ s.list[s.at].count = 1 /\ now - s.list[s.at].timestamp > 2 * KADEM_TIMEOUT_PING
  BY DEF PruneStep, HasLost
<1>2. HasLost(l, S, C, i, s) /\ HasLost(l, S, C, i, next)
  BY DEF HasLost
<1>3. ASSUME ~(s.at > Len(s.list)), s.list[s.at].count = 1,
             now - s.list[s.at].timestamp > 2 * KADEM_TIMEOUT_PING
      PROVE  HasLost(l, S, C, i, drop)
  <2>1. s.at \in 1..Len(s.list) /\ s.list \in Seq(C) /\ drop.at \in Nat \ {0}
    BY <1>3, CursorAdvances DEF HasLost
  <2>2. PICK g : Left(l, s.list, S, g)
    BY DEF HasLost, Loses
  <2>3. g[s.at] \in 1..Len(l) /\ s.list[s.at] = l[g[s.at]]
    BY <2>1, <2>2 DEF Left
  <2>4. id \in S
    BY <1>3, <2>3 DEF Late
  <2>5. \A j \in gone : s.list[j].nodeID = id
    <3>1. gone \subseteq Unlinked(s.list, id)
      BY DEF UnlinkedBySelf
    <3> HIDE DEF gone, id
    <3> QED BY <3>1, UnlinkedHaveIt
  <2>6. drop.list = RemovePositions(s.list, gone) /\ drop = [list |-> drop.list, at |-> drop.at]
    BY DEF DropAndAdvance
  <2> HIDE DEF gone, id, drop
  <2>7. drop.list \in Seq(C) /\ Loses(s.list, drop.list, S)
    BY <2>1, <2>4, <2>5, <2>6, RemovalLoses
  <2>8. Loses(l, drop.list, S)
    BY <2>7, LosesIsTransitive DEF HasLost
  <2> QED BY <2>1, <2>6, <2>7, <2>8 DEF HasLost
<1> HIDE DEF drop, next
<1> QED BY <1>1, <1>2, <1>3

\* A list that is pruned loses late contacts only.
LEMMA PruneListLoses ==
  ASSUME NEW C, NEW l \in Seq(C), NEW S, Late(l) \subseteq S
  PROVE  PruneList(l) \in Seq(C) /\ Loses(l, PruneList(l), S)
<1> DEFINE order == [i \in DOMAIN l |-> i]
           base == [list |-> l, at |-> 1]
           n == Len(l)
<1>1. n \in Nat /\ DOMAIN l = 1..n /\ DOMAIN order = 1..n
  OBVIOUS
<1>2. PruneList(l) = Dropping!Loop(l, S, C, base, order).list
  BY DEF PruneList, FoldLeftDomain, FoldLeft, MapThenFoldSet, Max,
         Dropping!FoldLeft, Dropping!MapThenFoldSet, Dropping!Max, Dropping!Loop, DropRound
<1> HIDE DEF order
<1>3. HasLost(l, S, C, 0, base)
  <2>1. Left(l, l, S, [p \in 1..Len(l) |-> p])
    BY DEF Left
  <2> QED BY <2>1 DEF HasLost, Loses
<1>4. \A i \in 1..n : \A s : HasLost(l, S, C, i-1, s)
                       => HasLost(l, S, C, i, DropRound(l, S, C, s, order[i]))
  <2>1. ASSUME NEW i \in 1..n, NEW s, HasLost(l, S, C, i-1, s)
        PROVE  HasLost(l, S, C, i, PruneStep(s, order[i]))
    <3>1. HasLost(l, S, C, order[i]-1, s)
      BY <2>1 DEF HasLost
    <3>2. HasLost(l, S, C, order[i], PruneStep(s, order[i]))
      BY <3>1, DropRoundLoses
    <3> QED BY <3>2 DEF HasLost
  <2> QED BY <2>1 DEF DropRound
<1> HIDE DEF base
<1>5. HasLost(l, S, C, n, Dropping!Loop(l, S, C, base, order))
  BY <1>1, <1>3, <1>4, Dropping!LoopInvariant
<1> QED BY <1>2, <1>5 DEF HasLost


-----------------------------------------------------------------------------
(* A round of a search. *)

\* A contact that is put into a list moves no other.
LEMMA InsertStays ==
  ASSUME NEW C, NEW l \in Seq(C), NEW node \in C, NEW k, NEW S, node.nodeID \in S
  PROVE  Stay(l, insert_acc_distance(l, node, k), S)
<1>1. CASE insert_acc_distance(l, node, k) = l
  BY <1>1, StayIsReflexive
<1>2. ASSUME NEW at \in 1..Len(l)+1
      PROVE  Stay(l, InsertAt(l, at, node), S)
  <2> DEFINE m == InsertAt(l, at, node)
             f == [q \in 1..Len(l)+1 |-> IF q < at THEN q ELSE q-1]
  <2>1. Len(m) = Len(l) + 1 /\ Len(l) \in Nat
    BY InsertAtProperties
  <2>2. ASSUME NEW p \in 1..Len(l)+1
        PROVE  m[p] = IF p < at THEN l[p] ELSE IF p = at THEN node ELSE l[p-1]
    BY InsertAtProperties
  <2> HIDE DEF m
  <2>3. ASSUME NEW q \in 1..Len(m), m[q].nodeID \notin S
        PROVE  q # at /\ f[q] \in 1..Len(l) /\ m[q] = l[f[q]]
    <3>1. q \in 1..Len(l)+1
      BY <2>1
    <3>2. q # at
      BY <2>2, <2>3, <3>1
    <3> QED BY <2>1, <2>2, <3>1, <3>2
  <2>4. ASSUME NEW p \in 1..Len(m), NEW q \in 1..Len(m), p # at, q # at, p < q
        PROVE  f[p] < f[q]
    BY <2>1, <2>4
  <2>5. ASSUME NEW j \in 1..Len(l), l[j].nodeID \notin S
        PROVE  \E q \in 1..Len(m) : m[q].nodeID \notin S /\ f[q] = j
    <3> DEFINE q == IF j < at THEN j ELSE j+1
    <3>1. q \in 1..Len(l)+1 /\ q # at /\ f[q] = j /\ (q < at => l[q] = l[j]) /\ (q > at => l[q-1] = l[j])
      BY <2>1
    <3>2. m[q] = l[j]
      <4>1. q < at \/ q > at
        BY <3>1
      <4> HIDE DEF q
      <4> QED BY <2>2, <3>1, <4>1
    <3> HIDE DEF q, f
    <3> QED BY <2>1, <2>5, <3>1, <3>2
  <2> HIDE DEF f
  <2>6. Moved(l, m, S, f)
    BY <2>3, <2>4, <2>5 DEF Moved
  <2> QED BY <2>6 DEF Stay, m
<1> QED BY <1>1, <1>2, InsertSomewhere

\* The contacts an answer names: what was there stays.
KeptWith(at, key, results, i, list) ==
  AreCandidates(at, key, results, i, list) /\ Stay(at.base, list, at.S)

Naming == INSTANCE Loops WITH Step <- CandidateRound, Inv <- KeptWith

\* The contacts to ask, when the one that has answered is deleted and those that
\* it names are put in.
LEMMA CandidatesStay ==
  ASSUME NEW w, IsWorld(w), NEW m, NEW find_query,
         IsSearch(w, m.id, find_query.key, find_query.value),
         NEW results, NEW nodes \in Seq(w.nodes), NEW from,
         NEW S, from \in S, \A i \in 1..Len(nodes) : nodes[i] \in S
  PROVE  Stay(CurrentNodes(find_query.value), Candidates(m, find_query, results, nodes, from), S)
<1> DEFINE current == CurrentNodes(find_query.value)
           base == delete_node(current, from)
           at == [w |-> w, m |-> m, base |-> current, S |-> S]
           key == find_query.key
           n == Len(nodes)
           C == Unanswered(w, m.id)
<1>1. n \in Nat /\ DOMAIN nodes = 1..n /\ at.w = w /\ at.m = m /\ at.base = current /\ at.S = S
  OBVIOUS
<1> HIDE DEF at
<1>2. Candidates(m, find_query, results, nodes, from) = Naming!Loop(at, key, results, base, nodes)
  BY <1>1 DEF Candidates, FoldLeft, MapThenFoldSet, Max, Naming!FoldLeft, Naming!MapThenFoldSet,
         Naming!Max, Naming!Loop, CandidateRound
<1>3. current \in Seq(C) /\ Len(current) <= length_bucket
  BY PartsOfSearch
<1> HIDE DEF C, current
<1>4. KeptWith(at, key, results, 0, base)
  <2>1. base \in Seq(C) /\ Len(base) <= Len(current)
    BY <1>3, DeleteNodeType
  <2>2. Len(base) <= length_bucket
    BY <1>3, <2>1, NodeDetailsAssumption
  <2>3. Loses(current, base, S)
    BY <1>3, RemovalLoses, UnlinkedHaveIt DEF delete_node
  <2> HIDE DEF base
  <2> QED BY <1>1, <2>1, <2>2, <2>3, LosersStay DEF KeptWith, AreCandidates, C
<1>5. ASSUME NEW i \in 1..n, NEW list, KeptWith(at, key, results, i-1, list)
      PROVE  KeptWith(at, key, results, i, CandidateRound(at, key, results, list, nodes[i]))
  <2>1. CASE nodes[i] \in Ids(list) \cup Ids(results) \cup {m.id}
    BY <1>1, <1>5, <2>1 DEF KeptWith, AreCandidates, CandidateRound, AddCandidate
  <2>2. CASE nodes[i] \notin Ids(list) \cup Ids(results) \cup {m.id}
    <3> DEFINE node == create_node_details(nodes[i], now)
               new == CandidateRound(at, key, results, list, nodes[i])
    <3>1. node \in C /\ node.nodeID = nodes[i] /\ node.nodeID \in S
      <4>1. nodes[i] \in Others(w, m.id)
        BY <2>2 DEF Others
      <4> QED BY <4>1, NewCandidate DEF C, create_node_details
    <3>2. new = insert_acc_distance(list, node, key)
      BY <1>1, <2>2 DEF CandidateRound, AddCandidate
    <3>3. list \in Seq(C) /\ Len(list) <= length_bucket /\ Stay(current, list, S)
      BY <1>1, <1>5 DEF KeptWith, AreCandidates, C
    <3> HIDE DEF node, new
    <3>4. Stay(list, new, S)
      BY <3>1, <3>2, <3>3, InsertStays
    <3>5. new \in Seq(C) /\ Len(new) <= length_bucket
      BY <3>1, <3>2, <3>3, InsertByDistance
    <3>6. Stay(current, new, S)
      BY <3>3, <3>4, StayIsTransitive
    <3> QED BY <1>1, <3>5, <3>6 DEF KeptWith, AreCandidates, C, new
  <2> QED BY <2>1, <2>2
<1> HIDE DEF base
<1>6. KeptWith(at, key, results, n, Naming!Loop(at, key, results, base, nodes))
  BY <1>1, <1>4, <1>5, Naming!LoopInvariant
<1> QED BY <1>1, <1>2, <1>6 DEF KeptWith, current

\* The marks change no identifier.
LEMMA MarkedStay ==
  ASSUME NEW C, NEW l \in Seq(C), NEW S, \A c \in C : DOMAIN c = {"nodeID", "count", "timestamp"}
  PROVE  Stay(l, Marked(l), S)
<1> DEFINE m == Marked(l)
<1>1. Len(l) \in Nat /\ m = [i \in 1..Len(l) |-> IF i \in ToAsk(l) THEN [l[i] EXCEPT !.count = 1] ELSE l[i]]
  BY DEF Marked
<1>2. Len(m) = Len(l)
  BY <1>1
<1>3. ASSUME NEW i \in 1..Len(l) PROVE m[i].nodeID = l[i].nodeID
  <2>1. DOMAIN l[i] = {"nodeID", "count", "timestamp"}
    OBVIOUS
  <2> QED BY <1>1, <2>1
<1> HIDE DEF m
<1>4. Moved(l, m, S, [i \in 1..Len(l) |-> i])
  BY <1>2, <1>3 DEF Moved
<1> QED BY <1>4 DEF Stay, m

\* The list of a search is its two parts, and those that have answered are in order.
LEMMA SearchIsItsParts ==
  ASSUME NEW w, NEW id, NEW key, NEW list, IsSearch(w, id, key, list), AnsweredInOrder(key, list)
  PROVE  /\ list = CurrentNodes(list) \o ResultNodes(list)
         /\ InOrder(key, ResultNodes(list))
<1> DEFINE A == Unanswered(w, id)
           B == Answered(w, id, key)
           cur == CurrentNodes(list)
           res == ResultNodes(list)
<1>1. PICK k \in 0..length_bucket : SplitAt(list, A, B, k, length_bucket)
  BY DEF IsSearch, Split
<1>2. /\ \A c \in A : c.count \in 0..1
      /\ \A c \in B : c.count = 2
      /\ length_bucket \in Nat
  BY NodeDetailsAssumption DEF Unanswered, Answered
<1> HIDE DEF A, B
<1>3. /\ CurrentNodes(list) \in Seq(A) /\ Len(CurrentNodes(list)) = k
      /\ ResultNodes(list) \in Seq(B) /\ Len(ResultNodes(list)) <= length_bucket
      /\ list = CurrentNodes(list) \o ResultNodes(list)
  BY <1>1, <1>2, SplitInParts
<1> HIDE DEF cur, res
<1>4. ASSUME NEW i \in 1..Len(res)
      PROVE  /\ k + i \in 1..Len(list) /\ list[k+i] = res[i] /\ res[i].count = 2
             /\ k + i \in Nat /\ i \in Nat
  <2>1. cur \in Seq(A \cup B) /\ res \in Seq(A \cup B)
    BY <1>3, SeqMonotonic DEF cur, res
  <2>2. /\ list = cur \o res /\ Len(cur) = k /\ res[i] \in B
        /\ Len(cur) \in Nat /\ Len(res) \in Nat
    BY <1>3 DEF cur, res
  <2>3. /\ Len(cur \o res) = Len(cur) + Len(res)
        /\ \A p \in 1..Len(cur)+Len(res) :
             (cur \o res)[p] = IF p <= Len(cur) THEN cur[p] ELSE res[p-Len(cur)]
    BY <2>1, ConcatProperties
  <2>4. k + i \in 1..Len(cur)+Len(res) /\ ~(k + i <= Len(cur)) /\ (k + i) - Len(cur) = i
    BY <2>2
  <2> QED BY <1>2, <2>2, <2>3, <2>4
<1>5. k \in Nat
  BY <1>2
<1>6. ASSUME NEW i \in 1..Len(res), NEW j \in 1..Len(res), i < j
      PROVE  Dist(key, res[i]) <= Dist(key, res[j])
  <2> DEFINE a == k + i
             b == k + j
  <2>1. /\ a \in 1..Len(list) /\ list[a] = res[i] /\ list[a].count = 2
        /\ b \in 1..Len(list) /\ list[b] = res[j] /\ list[b].count = 2
    BY <1>4
  <2>2. a < b
    BY <1>4, <1>5, <1>6
  <2> HIDE DEF a, b
  <2>3. Dist(key, list[a]) <= Dist(key, list[b])
    BY <2>1, <2>2 DEF AnsweredInOrder
  <2> QED BY <2>1, <2>3
<1>7. ASSUME NEW i \in 1..Len(res), NEW j \in 1..Len(res), NEW p \in 1..Len(res), i < j, j < p
      PROVE  Dist(key, res[i]) # Dist(key, res[j]) \/ Dist(key, res[j]) # Dist(key, res[p])
  <2> DEFINE a == k + i
             b == k + j
             c == k + p
  <2>1. /\ a \in 1..Len(list) /\ list[a] = res[i] /\ list[a].count = 2
        /\ b \in 1..Len(list) /\ list[b] = res[j] /\ list[b].count = 2
        /\ c \in 1..Len(list) /\ list[c] = res[p] /\ list[c].count = 2
    BY <1>4
  <2>2. a < b /\ b < c
    BY <1>4, <1>5, <1>7
  <2> HIDE DEF a, b, c
  <2>3. Dist(key, list[a]) # Dist(key, list[b]) \/ Dist(key, list[b]) # Dist(key, list[c])
    BY <2>1, <2>2 DEF AnsweredInOrder
  <2> QED BY <2>1, <2>3
<1>8. InOrder(key, res)
  BY <1>6, <1>7 DEF InOrder, ByDistance, NoThird
<1> QED BY <1>3, <1>8 DEF res

\* Contacts to ask before contacts in order that have answered.
LEMMA JoinedInOrder ==
  ASSUME NEW A, \A c \in A : c.count \in 0..1, NEW B, NEW a \in Seq(A), NEW b \in Seq(B),
         NEW key, InOrder(key, b)
  PROVE  AnsweredInOrder(key, a \o b)
<1> DEFINE list == a \o b
<1>1. /\ Len(a) \in Nat /\ Len(b) \in Nat /\ Len(list) = Len(a) + Len(b)
      /\ \A i \in 1..Len(list) : list[i] = IF i <= Len(a) THEN a[i] ELSE b[i-Len(a)]
  OBVIOUS
<1> HIDE DEF list
<1>2. ASSUME NEW i \in 1..Len(list), list[i].count = 2
      PROVE  i-Len(a) \in 1..Len(b) /\ list[i] = b[i-Len(a)]
  <2>1. ~(i <= Len(a))
    <3>1. ASSUME i <= Len(a) PROVE FALSE
      <4>1. i \in 1..Len(a) /\ list[i] = a[i]
        BY <1>1, <3>1
      <4>2. a[i].count \in 0..1
        BY <4>1
      <4> QED BY <1>2, <4>1, <4>2
    <3> QED BY <3>1
  <2> QED BY <1>1, <2>1
<1>3. ASSUME NEW i \in 1..Len(list), NEW j \in 1..Len(list), i < j,
             list[i].count = 2, list[j].count = 2
      PROVE  Dist(key, list[i]) <= Dist(key, list[j])
  <2>1. i-Len(a) < j-Len(a)
    BY <1>1, <1>3
  <2> QED BY <1>2, <1>3, <2>1 DEF InOrder, ByDistance
<1>4. ASSUME NEW i \in 1..Len(list), NEW j \in 1..Len(list), NEW p \in 1..Len(list), i < j, j < p,
             list[i].count = 2, list[j].count = 2, list[p].count = 2
      PROVE  Dist(key, list[i]) # Dist(key, list[j]) \/ Dist(key, list[j]) # Dist(key, list[p])
  <2> DEFINE x == i-Len(a)
             y == j-Len(a)
             z == p-Len(a)
  <2>1. x < y /\ y < z
    BY <1>1, <1>4
  <2>2. /\ x \in 1..Len(b) /\ list[i] = b[x] /\ y \in 1..Len(b) /\ list[j] = b[y]
        /\ z \in 1..Len(b) /\ list[p] = b[z]
    BY <1>2, <1>4
  <2> HIDE DEF x, y, z
  <2>3. Dist(key, b[x]) # Dist(key, b[y]) \/ Dist(key, b[y]) # Dist(key, b[z])
    BY <2>1, <2>2 DEF InOrder, NoThird
  <2> QED BY <2>2, <2>3
<1> QED BY <1>3, <1>4 DEF AnsweredInOrder, list

\* The list a round stores: those that have answered are in order, and the contacts
\* the answer is not about are where they were.
LEMMA RoundStored ==
  ASSUME NEW w, IsWorld(w), NEW m, NEW find_query,
         IsSearch(w, m.id, find_query.key, find_query.value),
         AnsweredInOrder(find_query.key, find_query.value),
         NEW from \in Others(w, m.id), RepliedIn(w, m.id, from, find_query.key),
         NEW nodes \in Seq(w.nodes), NEW S, from \in S, \A i \in 1..Len(nodes) : nodes[i] \in S
  PROVE  LET results == WithAnswer(find_query, from)
             list == Joined(Marked(Candidates(m, find_query, results, nodes, from)), results)
         IN  /\ IsSearch(w, m.id, find_query.key, list)
             /\ AnsweredInOrder(find_query.key, list)
             /\ Stay(find_query.value, list, S)
<1> DEFINE key == find_query.key
           old == find_query.value
           cur == CurrentNodes(old)
           res == ResultNodes(old)
           results == WithAnswer(find_query, from)
           current == Candidates(m, find_query, results, nodes, from)
           marked == Marked(current)
           node == [create_node_details(from, now) EXCEPT !.count = 2]
           A == Unanswered(w, m.id)
           B == Answered(w, m.id, key)
<1>1. results \in Seq(B) /\ Len(results) <= length_bucket
  BY WithAnswerSound
<1>2. current \in Seq(A) /\ Len(current) <= length_bucket
  BY CandidatesSound
<1>3. marked \in Seq(A) /\ Len(marked) = Len(current)
  BY <1>2, MarkedSound
<1>4. IsSearch(w, m.id, key, Joined(marked, results))
  BY <1>1, <1>2, <1>3, JoinedIsSearch
<1>5. cur \in Seq(A) /\ res \in Seq(B)
  BY PartsOfSearch
<1>6. old = cur \o res /\ InOrder(key, res)
  <2>1. old = CurrentNodes(old) \o ResultNodes(old) /\ InOrder(key, ResultNodes(old))
    BY SearchIsItsParts
  <2> QED BY <2>1
<1>7. /\ node \in B /\ node.nodeID = from
      /\ \A c \in A : c.count \in 0..1 /\ DOMAIN c = {"nodeID", "count", "timestamp"}
  BY NewCandidate DEF create_node_details, Unanswered
<1>8. Stay(cur, current, S)
  BY CandidatesStay
<1>9. results = insert_acc_distance(res, node, key)
  BY DEF WithAnswer
<1> HIDE DEF A, B, current, results, node, cur, res
<1>10. InOrder(key, results)
  BY <1>5, <1>6, <1>7, <1>9, InsertKeepsOrder
<1>11. Stay(res, results, S)
  BY <1>5, <1>7, <1>9, InsertStays
<1>12. Stay(current, marked, S)
  BY <1>2, <1>7, MarkedStay
<1>13. Stay(cur, marked, S)
  BY <1>8, <1>12, StayIsTransitive
<1> HIDE DEF marked, old
<1>14. AnsweredInOrder(key, marked \o results)
  BY <1>1, <1>3, <1>7, <1>10, JoinedInOrder
<1>15. Stay(cur \o res, marked \o results, S)
  <2> DEFINE C == A \cup B
  <2>1. cur \in Seq(C) /\ res \in Seq(C) /\ marked \in Seq(C) /\ results \in Seq(C)
    BY <1>1, <1>3, <1>5, SeqMonotonic
  <2> HIDE DEF C
  <2> QED BY <1>11, <1>13, <2>1, StayTogether
<1> QED BY <1>4, <1>6, <1>14, <1>15 DEF Joined, marked, current, results, old

-----------------------------------------------------------------------------
(* What a step does to the searches of a machine.                            *)

\* One search at most, those that have answered in it in order.
SearchInv(w, s) ==
  /\ SearchesOK(w, Self, s)
  /\ Len(s) <= 1
  /\ \A e \in Held(s) : AnsweredInOrder(e.key, e.value)

\* The search s is now t, or has ended; its contacts but those of S stay.
Moves(w, s, t, S) ==
  /\ SearchInv(w, t)
  /\ t # <<>> => s # <<>> /\ Stay(s[1].value, t[1].value, S)

\* The list of a search is a list of contacts.
LEMMA SearchIsList ==
  ASSUME NEW w, NEW s, SearchInv(w, s), s # <<>>
  PROVE  /\ s[1] \in Held(s) /\ Held(s) = {s[1]} /\ Len(s) = 1
         /\ s[1].value \in Seq(Unanswered(w, Self) \cup Answered(w, Self, s[1].key))
<1>1. s \in Seq(Held(s)) /\ Len(s) \in Nat /\ Len(s) <= 1 /\ Len(s) # 0
  BY DEF SearchInv, SearchesOK, KeyedList
<1>2. Len(s) = 1 /\ Held(s) = {s[1]}
  <2>1. Len(s) = 1
    <3>1. \A n \in Nat : n <= 1 /\ n # 0 => n = 1
      OBVIOUS
    <3> QED BY <1>1, <3>1
  <2>2. 1..1 = {1}
    OBVIOUS
  <2> QED BY <2>1, <2>2 DEF Held
<1>3. IsSearch(w, Self, s[1].key, s[1].value)
  BY <1>2 DEF SearchInv, SearchesOK
<1> QED BY <1>2, <1>3 DEF IsSearch, Split, SplitAt

\* Nothing happens.
LEMMA MovesIsReflexive ==
  ASSUME NEW w, NEW s, SearchInv(w, s), NEW S
  PROVE  Moves(w, s, s, S)
<1>1. s # <<>> => Stay(s[1].value, s[1].value, S)
  BY SearchIsList, StayIsReflexive
<1> QED BY <1>1 DEF Moves

\* Two steps.
LEMMA MovesIsTransitive ==
  ASSUME NEW w, NEW s1, NEW s2, NEW s3, NEW S, Moves(w, s1, s2, S), Moves(w, s2, s3, S)
  PROVE  Moves(w, s1, s3, S)
<1>1. s3 # <<>> => s1 # <<>> /\ Stay(s1[1].value, s3[1].value, S)
  BY StayIsTransitive DEF Moves
<1> QED BY <1>1 DEF Moves

\* A keyed list that holds nothing else than e is empty, or e alone.
LEMMA OneHeld ==
  ASSUME NEW s, KeyedList(s), NEW e, Held(s) \subseteq {e}
  PROVE  Len(s) <= 1 /\ (s # <<>> => s[1] = e)
<1>1. s \in Seq(Held(s)) /\ Len(s) \in Nat
  BY DEF KeyedList
<1>2. \A i \in 1..Len(s) : s[i] = e
  BY DEF Held
<1>3. ASSUME Len(s) > 1 PROVE FALSE
  <2>1. 1 \in 1..Len(s) /\ 2 \in 1..Len(s)
    BY <1>1, <1>3
  <2>2. s[1].key = s[2].key
    BY <1>2, <2>1
  <2> QED BY <2>1, <2>2 DEF KeyedList
<1>4. s # <<>> => 1 \in 1..Len(s)
  BY <1>1
<1> QED BY <1>1, <1>2, <1>3, <1>4

\* A search is given up, or another one of no search.
LEMMA SearchGone ==
  ASSUME NEW w, NEW s, SearchInv(w, s), NEW key, NEW S
  PROVE  Moves(w, s, delete_key(s, key), S)
<1> DEFINE t == delete_key(s, key)
<1>1. KeyedList(t) /\ Held(t) \subseteq Held(s)
  BY DeleteHeld DEF SearchInv, SearchesOK
<1> HIDE DEF t
<1>2. SearchesOK(w, Self, t) /\ \A e \in Held(t) : AnsweredInOrder(e.key, e.value)
  BY <1>1 DEF SearchInv, SearchesOK
<1>3. CASE s = <<>>
  <2>1. Held(t) \subseteq {0} /\ Held(s) = {}
    BY <1>1, <1>3, NothingHeld
  <2>2. Len(t) <= 1 /\ t = <<>>
    <3>1. t \in Seq({}) /\ Len(t) \in Nat
      BY <1>1, <2>1 DEF KeyedList
    <3> QED BY <3>1
  <2> QED BY <1>2, <2>2 DEF Moves, SearchInv, t
<1>4. CASE s # <<>>
  <2>1. Held(s) = {s[1]}
    BY <1>4, SearchIsList
  <2>2. Len(t) <= 1 /\ (t # <<>> => t[1] = s[1])
    BY <1>1, <2>1, OneHeld
  <2>3. Stay(s[1].value, s[1].value, S)
    BY <1>4, SearchIsList, StayIsReflexive
  <2> QED BY <1>2, <1>4, <2>2, <2>3 DEF Moves, SearchInv, t
<1> QED BY <1>3, <1>4

\* The search is stored with another list.
LEMMA SearchReplaced ==
  ASSUME NEW w, NEW s, SearchInv(w, s), s # <<>>, NEW key, s[1].key = key,
         NEW list, IsSearch(w, Self, key, list), AnsweredInOrder(key, list),
         NEW S, Stay(s[1].value, list, S), NEW count
  PROVE  LET stored == [create_store_file(key, list, now) EXCEPT !.count = count]
         IN  Moves(w, s, insert_to_tail_file(s, stored, now), S)
<1> DEFINE stored == [create_store_file(key, list, now) EXCEPT !.count = count]
           t == insert_to_tail_file(s, stored, now)
           e == Entry(key, list, count)
<1>1. stored = e
  BY CountedEntry
<1> HIDE DEF stored, e
<1>2. KeyedList(t) /\ Held(t) = {x \in Held(s) : x.key # key} \cup {e}
  BY <1>1, InsertHeld DEF SearchInv, SearchesOK, e
<1> HIDE DEF t
<1>3. Held(s) = {s[1]}
  BY SearchIsList
<1>4. Held(t) = {e}
  BY <1>2, <1>3
<1>5. Len(t) <= 1 /\ (t # <<>> => t[1] = e)
  BY <1>2, <1>4, OneHeld
<1>6. e.key = key /\ e.value = list /\ DOMAIN e = {"key", "value", "timestamp", "count"}
  BY DEF e, Entry
<1>7. s[1].key \in NodeId
  BY <1>3 DEF SearchInv, SearchesOK
<1>8. SearchesOK(w, Self, t)
  BY <1>2, <1>4, <1>6, <1>7 DEF SearchesOK
<1> QED BY <1>4, <1>5, <1>6, <1>8 DEF Moves, SearchInv, t, stored

\* Maintenance prunes the search: contacts that are late are lost.
LEMMA SearchPruned ==
  ASSUME NEW w, NEW s, SearchInv(w, s), NEW S, s # <<>> => Late(s[1].value) \subseteq S
  PROVE  Moves(w, s, PrunedSearches(s), S) /\ (s # <<>> => PrunedSearches(s) # <<>>)
<1> DEFINE t == PrunedSearches(s)
<1>1. SearchesOK(w, Self, t)
  BY SearchesPruned DEF SearchInv
<1>2. CASE s = <<>>
  <2>1. t = <<>>
    BY <1>2 DEF PrunedSearches
  <2> QED BY <1>2, <2>1 DEF Moves
<1>3. CASE s # <<>>
  <2> DEFINE C == Unanswered(w, Self) \cup Answered(w, Self, s[1].key)
  <2>1. /\ Len(s) = 1 /\ s[1] \in Held(s) /\ s[1].value \in Seq(C)
        /\ DOMAIN s[1] = {"key", "value", "timestamp", "count"}
    BY <1>3, SearchIsList DEF SearchInv, SearchesOK
  <2>2. Loses(s[1].value, PruneList(s[1].value), S)
    BY <1>3, <2>1, PruneListLoses
  <2>3. DOMAIN s = 1..1
    <3>1. s \in Seq(Held(s))
      BY DEF SearchInv, SearchesOK, KeyedList
    <3> QED BY <2>1, <3>1
  <2>4. t = [i \in 1..1 |-> [s[i] EXCEPT !.value = PruneList(@)]]
    BY <2>3 DEF PrunedSearches
  <2>5. Len(t) = 1 /\ t[1].key = s[1].key /\ t[1].value = PruneList(s[1].value)
    BY <2>1, <2>4
  <2> HIDE DEF t
  <2>6. AnsweredInOrder(t[1].key, t[1].value)
    BY <2>1, <2>2, <2>5, LosersInOrder DEF SearchInv
  <2>7. Held(t) = {t[1]}
    BY <2>5 DEF Held
  <2>8. Stay(s[1].value, t[1].value, S)
    BY <2>2, <2>5, LosersStay
  <2> QED BY <1>1, <1>3, <2>5, <2>6, <2>7, <2>8 DEF Moves, SearchInv, t
<1> QED BY <1>2, <1>3

-----------------------------------------------------------------------------
(* What does not touch the searches.                                         *)

\* n has the searches and tokens of m.
Beside(m, n) ==
  /\ DOMAIN n = Fields
  /\ n.id = m.id /\ n.store_find_queries = m.store_find_queries /\ n.token_sent = m.token_sent

\* A query that is sent, ...
LEMMA SendBeside ==
  ASSUME NEW m, DOMAIN m = Fields, NEW dst, NEW sent_query
  PROVE  Beside(m, SendQuery(m, dst, sent_query))
  BY DEF Beside, SendQuery, kademSendMessage, Fields

\* ... the requests of a round, ...
RoundBeside(at, key, current, i, s) == Beside(at.m, s)
RequestingBeside == INSTANCE Loops WITH Step <- RequestRound, Inv <- RoundBeside

LEMMA RequestsBeside ==
  ASSUME NEW m, DOMAIN m = Fields, NEW key, NEW token, NEW C, NEW current \in Seq(C)
  PROVE  Beside(m, SendRequests(m, key, token, current))
<1> DEFINE at == [m |-> m, token |-> token]
           order == [i \in DOMAIN current |-> i]
           n == Len(current)
<1>1. n \in Nat /\ DOMAIN current = 1..n /\ DOMAIN order = 1..n /\ at.m = m /\ at.token = token
  OBVIOUS
<1> HIDE DEF at
<1>2. SendRequests(m, key, token, current) = RequestingBeside!Loop(at, key, current, m, order)
  BY <1>1 DEF SendRequests, FoldLeftDomain, FoldLeft, MapThenFoldSet, Max,
         RequestingBeside!FoldLeft, RequestingBeside!MapThenFoldSet, RequestingBeside!Max,
         RequestingBeside!Loop, RequestRound
<1> HIDE DEF order
<1>3. RoundBeside(at, key, current, 0, m)
  BY <1>1 DEF RoundBeside, Beside
<1>4. ASSUME NEW i \in 1..n, NEW s, RoundBeside(at, key, current, i-1, s)
      PROVE  RoundBeside(at, key, current, i, RequestRound(at, key, current, s, order[i]))
  <2>1. \/ RequestRound(at, key, current, s, order[i]) = s
        \/ \E dst, sent_query : RequestRound(at, key, current, s, order[i]) = SendQuery(s, dst, sent_query)
    BY DEF RequestRound, RequestStep, kademFindNode, kademFindValue
  <2>2. \A dst, sent_query : Beside(s, SendQuery(s, dst, sent_query))
    BY <1>4, SendBeside DEF RoundBeside, Beside
  <2> QED BY <1>4, <2>1, <2>2 DEF RoundBeside, Beside
<1>5. RoundBeside(at, key, current, n, RequestingBeside!Loop(at, key, current, m, order))
  BY <1>1, <1>3, <1>4, RequestingBeside!LoopInvariant
<1> QED BY <1>1, <1>2, <1>5 DEF RoundBeside

\* ... and the first requests of a search.
FirstBeside(at, key, c, i, s) == Beside(at.m, s)
ValueBeside == INSTANCE Loops WITH Step <- ValueRound, Inv <- FirstBeside
NodeBeside == INSTANCE Loops WITH Step <- NodeRound, Inv <- FirstBeside

LEMMA AskForValueBeside ==
  ASSUME NEW m, DOMAIN m = Fields, NEW key, NEW token, NEW C, NEW nodes \in Seq(C)
  PROVE  Beside(m, AskForValue(m, key, token, nodes))
<1> DEFINE at == [m |-> m, token |-> token]
           n == Len(nodes)
<1>1. n \in Nat /\ DOMAIN nodes = 1..n /\ at.m = m /\ at.token = token
  OBVIOUS
<1> HIDE DEF at
<1>2. AskForValue(m, key, token, nodes) = ValueBeside!Loop(at, key, {}, m, nodes)
  BY <1>1 DEF AskForValue, FoldLeft, MapThenFoldSet, Max, ValueBeside!FoldLeft,
         ValueBeside!MapThenFoldSet, ValueBeside!Max, ValueBeside!Loop, ValueRound
<1>3. FirstBeside(at, key, {}, 0, m)
  BY <1>1 DEF FirstBeside, Beside
<1>4. ASSUME NEW i \in 1..n, NEW s, FirstBeside(at, key, {}, i-1, s)
      PROVE  FirstBeside(at, key, {}, i, ValueRound(at, key, {}, s, nodes[i]))
  <2>1. Beside(s, ValueRound(at, key, {}, s, nodes[i]))
    BY <1>4, SendBeside DEF FirstBeside, Beside, ValueRound, kademFindValue
  <2> QED BY <1>4, <2>1 DEF FirstBeside, Beside
<1>5. FirstBeside(at, key, {}, n, ValueBeside!Loop(at, key, {}, m, nodes))
  BY <1>1, <1>3, <1>4, ValueBeside!LoopInvariant
<1> QED BY <1>1, <1>2, <1>5 DEF FirstBeside

LEMMA AskForNodeBeside ==
  ASSUME NEW m, DOMAIN m = Fields, NEW target, NEW C, NEW nodes \in Seq(C)
  PROVE  Beside(m, AskForNode(m, target, nodes))
<1> DEFINE at == [m |-> m]
           n == Len(nodes)
<1>1. n \in Nat /\ DOMAIN nodes = 1..n /\ at.m = m
  OBVIOUS
<1> HIDE DEF at
<1>2. AskForNode(m, target, nodes) = NodeBeside!Loop(at, target, {}, m, nodes)
  BY <1>1 DEF AskForNode, FoldLeft, MapThenFoldSet, Max, NodeBeside!FoldLeft,
         NodeBeside!MapThenFoldSet, NodeBeside!Max, NodeBeside!Loop, NodeRound
<1>3. FirstBeside(at, target, {}, 0, m)
  BY <1>1 DEF FirstBeside, Beside
<1>4. ASSUME NEW i \in 1..n, NEW s, FirstBeside(at, target, {}, i-1, s)
      PROVE  FirstBeside(at, target, {}, i, NodeRound(at, target, {}, s, nodes[i]))
  <2>1. Beside(s, NodeRound(at, target, {}, s, nodes[i]))
    BY <1>4, SendBeside DEF FirstBeside, Beside, NodeRound, kademFindNode
  <2> QED BY <1>4, <2>1 DEF FirstBeside, Beside
<1>5. FirstBeside(at, target, {}, n, NodeBeside!Loop(at, target, {}, m, nodes))
  BY <1>1, <1>3, <1>4, NodeBeside!LoopInvariant
<1> QED BY <1>1, <1>2, <1>5 DEF FirstBeside

-----------------------------------------------------------------------------
(* What an answer does to the search.                                        *)

\* The machine has one search at most, and no put is under way.
Searcher(w, m) ==
  /\ DOMAIN m = Fields
  /\ m.id = Self /\ m.token_sent = <<>>
  /\ SearchInv(w, m.store_find_queries)

\* It has gone on to n.
Takes(w, m, n, S) == Searcher(w, n) /\ Moves(w, m.store_find_queries, n.store_find_queries, S)

LEMMA TakesIsTransitive ==
  ASSUME NEW w, NEW m1, NEW m2, NEW m3, NEW S, Takes(w, m1, m2, S), Takes(w, m2, m3, S)
  PROVE  Takes(w, m1, m3, S)
  BY MovesIsTransitive DEF Takes

\* What does not touch the search, ...
LEMMA BesideTakes ==
  ASSUME NEW w, NEW m, Searcher(w, m), NEW n, Beside(m, n), NEW S
  PROVE  Takes(w, m, n, S)
  BY MovesIsReflexive DEF Takes, Searcher, Beside

\* ... the end of the process ...
LEMMA DeathTakes ==
  ASSUME NEW w, NEW m, Searcher(w, m), NEW S
  PROVE  Takes(w, m, Die(m), S)
<1> DEFINE n == Die(m)
<1>1. DOMAIN n = Fields /\ n.id = Self /\ n.token_sent = <<>> /\ n.store_find_queries = <<>>
  BY DEF Searcher, Die, NewMachine, Fields
<1> HIDE DEF n
<1>2. SearchInv(w, <<>>)
  BY NothingHeld DEF SearchInv, SearchesOK
<1> QED BY <1>1, <1>2 DEF Takes, Searcher, Moves, n

\* ... and the end of the search.
LEMMA DeletionTakes ==
  ASSUME NEW w, NEW m, Searcher(w, m), NEW key, NEW S
  PROVE  Takes(w, m, DeleteFindQuery(m, key), S)
<1> DEFINE t == delete_key(m.store_find_queries, key)
           n == DeleteFindQuery(m, key)
<1>1. Moves(w, m.store_find_queries, t, S)
  BY SearchGone DEF Searcher
<1>2. DOMAIN n = Fields /\ n.id = Self /\ n.token_sent = <<>> /\ n.store_find_queries = t
  BY DEF Searcher, DeleteFindQuery, Fields
<1> HIDE DEF t, n
<1> QED BY <1>1, <1>2 DEF Takes, Searcher, Moves, n

\* A machine whose latest query or whose objects have changed.
LEMMA LatestBeside ==
  ASSUME NEW m, DOMAIN m = Fields, NEW name
  PROVE  Beside(m, OverwriteLatest(m, name))
  BY DEF Beside, OverwriteLatest, Fields

LEMMA StoredBeside ==
  ASSUME NEW m, DOMAIN m = Fields, NEW key, NEW data
  PROVE  Beside(m, StoreLocally(m, key, data))
  BY DEF Beside, StoreLocally, Fields

LEMMA PongBeside ==
  ASSUME NEW m, DOMAIN m = Fields, NEW msg
  PROVE  Beside(m, kademHandlePong(m, msg))
  BY DEF Beside, kademHandlePong, AnswerClient, Fields

\* An answer in which from names nodes to a search for key; S has all of them.
IsAnswer(w, from, nodes, S) ==
  /\ from \in Others(w, Self) /\ \A key \in NodeId : RepliedIn(w, Self, from, key)
  /\ nodes \in Seq(w.nodes)
  /\ from \in S /\ \A i \in 1..Len(nodes) : nodes[i] \in S

\* A round on the search.
LEMMA RoundTakes ==
  ASSUME NEW w, IsWorld(w), NEW m, Searcher(w, m), NEW key \in Keys(m.store_find_queries),
         NEW token, NEW from, NEW nodes, NEW S, IsAnswer(w, from, nodes, S), NEW garbage
  PROVE  Takes(w, m, lookUpRound(m, token, find_key(m.store_find_queries, key),
                                 nodes, from, garbage).m, S)
<1> DEFINE s == m.store_find_queries
           find_query == find_key(s, key)
           results == WithAnswer(find_query, from)
           current == Candidates(m, find_query, results, nodes, from)
           list == Joined(Marked(current), results)
           stored == [create_store_file(key, list, now) EXCEPT !.count = garbage.count]
           requested == SendRequests(m, find_query.key, token, current)
           round == lookUpRound(m, token, find_query, nodes, from, garbage)
<1>1. find_query \in Held(s) /\ find_query.key = key
  BY FindHeld DEF Searcher, SearchInv, SearchesOK
<1>2. s # <<>>
  BY DEF Keys
<1>3. Held(s) = {s[1]} /\ SearchInv(w, s) /\ m.id = Self
  BY <1>2, SearchIsList DEF Searcher
<1> HIDE DEF find_query
<1>4. find_query = s[1]
  BY <1>1, <1>3
<1>5. key \in NodeId /\ IsSearch(w, m.id, key, find_query.value) /\ AnsweredInOrder(key, find_query.value)
  BY <1>1, <1>3 DEF SearchInv, SearchesOK
<1>6. /\ from \in Others(w, m.id) /\ RepliedIn(w, m.id, from, key) /\ nodes \in Seq(w.nodes)
      /\ from \in S /\ \A i \in 1..Len(nodes) : nodes[i] \in S
  BY <1>3, <1>5 DEF IsAnswer
<1>7. /\ IsSearch(w, m.id, key, list) /\ AnsweredInOrder(key, list)
      /\ Stay(find_query.value, list, S)
  BY <1>1, <1>5, <1>6, RoundStored
<1>8. Beside(m, requested)
  <2>1. current \in Seq(Unanswered(w, m.id))
    BY <1>1, <1>5, <1>6, CandidatesSound
  <2> HIDE DEF current
  <2> QED BY <2>1, RequestsBeside DEF Searcher
<1>9. round.m = [requested EXCEPT !.store_find_queries = insert_to_tail_file(@, stored, now)]
  BY <1>1 DEF lookUpRound, SendRound
<1> HIDE DEF list, requested, round, stored
<1>10. /\ DOMAIN round.m = Fields /\ round.m.id = Self /\ round.m.token_sent = <<>>
       /\ round.m.store_find_queries = insert_to_tail_file(s, stored, now)
  BY <1>8, <1>9 DEF Beside, Fields, Searcher
<1>11. Moves(w, s, insert_to_tail_file(s, stored, now), S)
  BY <1>1, <1>2, <1>3, <1>4, <1>7, SearchReplaced DEF stored
<1> QED BY <1>10, <1>11 DEF Takes, Searcher, Moves, round, find_query

\* An answer to a find_node.
LEMMA SearchStepTakes ==
  ASSUME NEW w, IsWorld(w), NEW m, Searcher(w, m), NEW msg, NEW target, NEW S,
         IsAnswer(w, msg.id, msg.nodes, S), NEW garbage
  PROVE  Takes(w, m, SearchStep(m, msg, target, garbage), S)
<1> DEFINE round == lookUpRound(m, NoToken, find_key(m.store_find_queries, target),
                                msg.nodes, msg.id, garbage)
           n == SearchStep(m, msg, target, garbage)
           ended == DeleteFindQuery(OverwriteLatest(m, "find_node"), target)
           over == DeleteFindQuery(OverwriteLatest(round.m, "find_node"), target)
<1>1. n = IF target \notin Keys(m.store_find_queries) THEN m
          ELSE IF msg.nodes = <<>> THEN Die(m)
          ELSE IF msg.nodes[1] = target THEN ended
          ELSE IF round.finished THEN round.m ELSE over
  BY DEF SearchStep, EndFindNode
<1>2. Takes(w, m, m, S) /\ Takes(w, m, Die(m), S)
  BY BesideTakes, DeathTakes DEF Beside, Searcher
<1>3. ASSUME NEW k, Takes(w, m, k, S)
      PROVE  Takes(w, m, DeleteFindQuery(OverwriteLatest(k, "find_node"), target), S)
  <2>1. Takes(w, k, OverwriteLatest(k, "find_node"), S)
    BY <1>3, LatestBeside, BesideTakes DEF Takes, Searcher
  <2>2. Takes(w, OverwriteLatest(k, "find_node"),
              DeleteFindQuery(OverwriteLatest(k, "find_node"), target), S)
    BY <2>1, DeletionTakes DEF Takes
  <2> QED BY <1>3, <2>1, <2>2, TakesIsTransitive
<1>4. ASSUME target \in Keys(m.store_find_queries) PROVE Takes(w, m, round.m, S)
  BY <1>4, RoundTakes
<1> HIDE DEF round, n
<1>5. Takes(w, m, ended, S) /\ (target \in Keys(m.store_find_queries) => Takes(w, m, over, S))
  BY <1>2, <1>3, <1>4
<1> HIDE DEF ended, over
<1> QED BY <1>1, <1>2, <1>4, <1>5 DEF n

\* An answer to a get that names contacts: no put waits for it.
LEMMA ValueStepTakes ==
  ASSUME NEW w, IsWorld(w), NEW m, Searcher(w, m), NEW msg, "value" \notin DOMAIN msg,
         NEW sent_query, sent_query.value \in Keys(m.store_find_queries), NEW S,
         IsAnswer(w, msg.id, msg.nodes, S), NEW garbage
  PROVE  Takes(w, m, ValueStep(m, msg, sent_query, garbage), S)
<1> DEFINE round == lookUpRound(m, sent_query.token, find_key(m.store_find_queries, sent_query.value),
                                msg.nodes, msg.id, garbage)
           n == ValueStep(m, msg, sent_query, garbage)
           told == OverwriteLatest(round.m, "get")
           over == EndFindValue(told, sent_query)
<1>1. n \in {round.m, over}
  BY DEF ValueStep, AfterRound
<1>2. Takes(w, m, round.m, S)
  BY RoundTakes
<1> HIDE DEF round, n
<1>3. Takes(w, round.m, told, S)
  BY <1>2, LatestBeside, BesideTakes DEF Takes, Searcher
<1> HIDE DEF told
<1>4. over = DeleteFindQuery(told, sent_query.value)
  <2>1. Keys(told.token_sent) = {}
    BY <1>3, NothingHeld DEF Takes, Searcher
  <2> QED BY <2>1 DEF EndFindValue
<1>5. Takes(w, told, over, S)
  BY <1>3, <1>4, DeletionTakes DEF Takes
<1>6. Takes(w, m, over, S)
  BY <1>2, <1>3, <1>5, TakesIsTransitive
<1> QED BY <1>1, <1>2, <1>6 DEF n

\* An answer to any query of the machine.
LEMMA AnswerTakes ==
  ASSUME NEW w, IsWorld(w), NEW m, Searcher(w, m), NEW msg, "value" \notin DOMAIN msg, NEW S,
         IsAnswer(w, msg.id, msg.nodes, S), NEW garbage,
         NEW asking, asking.q \in {"ping", "find_node", "get", "put"}
  PROVE  Takes(w, m, HandleAnswerTo(asking, m, msg, garbage), S)
<1>1. Takes(w, m, m, S)
  BY BesideTakes DEF Beside, Searcher
<1>2. ASSUME NEW n, Takes(w, m, n, S) PROVE Takes(w, m, MayDie(n, garbage), S)
  <2>1. Takes(w, n, Die(n), S)
    BY <1>2, DeathTakes DEF Takes
  <2>2. Takes(w, m, Die(n), S)
    BY <1>2, <2>1, TakesIsTransitive
  <2> QED BY <1>2, <2>2 DEF MayDie
<1>3. CASE asking.q = "ping"
  <2>1. Takes(w, m, kademHandlePong(m, msg), S)
    BY PongBeside, BesideTakes DEF Searcher
  <2> QED BY <1>3, <2>1 DEF HandleAnswerTo
<1>4. CASE asking.q = "put"
  BY <1>1, <1>4 DEF HandleAnswerTo
<1>5. CASE asking.q = "find_node"
  <2>1. Takes(w, m, kademHandleAnswerFindNode(m, msg, asking, garbage), S)
    BY <1>2, SearchStepTakes DEF kademHandleAnswerFindNode
  <2> QED BY <1>5, <2>1 DEF HandleAnswerTo
<1>6. CASE asking.q = "get"
  <2>1. Takes(w, m, kademHandleAnswerFindValue(m, msg, asking, garbage), S)
    BY <1>1, <1>2, ValueStepTakes DEF kademHandleAnswerFindValue
  <2> QED BY <1>6, <2>1 DEF HandleAnswerTo
<1> QED BY <1>3, <1>4, <1>5, <1>6

-----------------------------------------------------------------------------
(* The request that begins the search.                                       *)

\* The world of the machine and its peers; replied says who may have answered.
World(replied) ==
  [nodes   |-> Id \cup {Self},
   objects |-> {[key |-> r.value, data |-> r.data] : r \in {req \in Request : req.q = "put"}},
   time    |-> MaxTime + PingPeriod,
   replied |-> replied]

Anyone == {[asker |-> Self, node |-> x, key |-> k] : x \in Id, k \in NodeId}

LEMMA WorldIsWorld ==
  ASSUME now \in 0..MaxTime, NEW replied
  PROVE  /\ IsWorld(World(replied))
         /\ Self \in World(replied).nodes /\ Others(World(replied), Self) = Id
<1>1. /\ Self \in NodeId /\ Self \notin Id /\ Id \subseteq NodeId
      /\ MaxTime \in Nat /\ PingPeriod \in Nat
  BY LookupAssumption, MachineAssumption
<1>2. now \in Nat /\ MaxTime + PingPeriod \in Nat /\ now + PingPeriod <= MaxTime + PingPeriod
  BY <1>1
<1> QED BY <1>1, <1>2 DEF IsWorld, World, Others

\* The machine meets its peers one after the other: a round, and the table after it.
GreetRound(id, N, t, table, peer) == insert_into_contact_table(table, id, peer, now)
HasGreeted(id, N, t, i, table) == IsTable(N, t, table)

Greeting == INSTANCE Loops WITH Step <- GreetRound, Inv <- HasGreeted

\* The machine when it has met its peers.
LEMMA AcquaintedIsSound ==
  ASSUME now \in 0..MaxTime, NEW met \in Met, NEW replied
  PROVE  LET m == Acquainted(met) IN
         /\ Sound(World(replied), m) /\ DOMAIN m = Fields /\ m.id = Self /\ m.alive
         /\ m.store_find_queries = <<>>
<1> DEFINE w == World(replied)
           new == NewMachine(Self, 1)
           table == FoldLeft(LAMBDA t, id : insert_into_contact_table(t, Self, id, now), new.table, met)
           m == Acquainted(met)
<1>1. IsWorld(w) /\ Self \in w.nodes /\ Others(w, Self) = Id
  BY WorldIsWorld
<1> HIDE DEF w
<1>2. /\ DOMAIN new = Fields /\ new.id = Self /\ new.alive = TRUE
      /\ new.store_find_queries = <<>>
  BY DEF NewMachine, Fields
<1>3. Sound(w, new)
  BY <1>1, EmptyMachine
<1>4. m = [new EXCEPT !.table = table]
  BY DEF Acquainted
<1> HIDE DEF new
<1>5. IsTable(Id, w.time, table)
  <2> DEFINE last == Greeting!Loop(Self, Id, w.time, new.table, met)
             n == Len(met)
  <2>1. table = last
    BY DEF FoldLeft, MapThenFoldSet, Max,
           Greeting!FoldLeft, Greeting!MapThenFoldSet, Greeting!Max, Greeting!Loop, GreetRound
  <2>2. /\ met \in Seq(Id) /\ Id \subseteq NodeId /\ Self \in NodeId /\ \A id \in Id : id # Self
        /\ w.time \in Nat /\ now \in 0..w.time
    BY <1>1, LookupAssumption, MachineAssumption DEF IsWorld
  <2>3. HasGreeted(Self, Id, w.time, 0, new.table)
    BY <1>1, <1>2, <1>3 DEF Sound, TableOK, HasGreeted
  <2>4. ASSUME NEW i \in 1..n, NEW s, HasGreeted(Self, Id, w.time, i-1, s)
        PROVE  HasGreeted(Self, Id, w.time, i, GreetRound(Self, Id, w.time, s, met[i]))
    <3>1. met[i] \in Id
      BY <2>2
    <3> QED BY <2>2, <2>4, <3>1, InsertIntoTable DEF HasGreeted, GreetRound
  <2>5. n \in Nat /\ DOMAIN met = 1..n
    BY <2>2
  <2>6. HasGreeted(Self, Id, w.time, n, last)
    BY <2>3, <2>4, <2>5, Greeting!LoopInvariant
  <2> QED BY <2>1, <2>6 DEF HasGreeted
<1> HIDE DEF table
<1>6. Sound(w, m)
  <2>1. TableOK(w, new.id, table)
    BY <1>1, <1>2, <1>5 DEF TableOK
  <2>2. Sound(w, [new EXCEPT !.table = table])
    BY <1>3, <2>1, TableChanges
  <2> QED BY <1>4, <2>2
<1>7. DOMAIN m = Fields /\ m.id = Self /\ m.alive /\ m.store_find_queries = <<>>
  BY <1>2, <1>4 DEF Fields
<1> HIDE DEF m
<1> QED BY <1>6, <1>7 DEF w, m

\* A search that is stored where there is none is the only one.
LEMMA OnlySearch ==
  ASSUME NEW m, DOMAIN m = Fields, m.store_find_queries = <<>>, NEW key, NEW list, NEW sent
  PROVE  LET n == StoreFindQuery(m, key, list, sent)
         IN  DOMAIN n = Fields /\ Len(n.store_find_queries) <= 1
<1> DEFINE stored == [create_store_file(key, list, now) EXCEPT !.count = sent]
           t == insert_to_tail_file(<<>>, stored, now)
           n == StoreFindQuery(m, key, list, sent)
<1>1. DOMAIN n = Fields /\ n.store_find_queries = t
  BY DEF StoreFindQuery, Fields
<1>2. KeyedList(t) /\ Held(t) = {Entry(key, list, sent)}
  <2>1. stored = Entry(key, list, sent)
    BY CountedEntry
  <2>2. KeyedList(<<>>) /\ Held(<<>>) = {}
    BY NothingHeld
  <2> HIDE DEF stored
  <2>3. KeyedList(t) /\ Held(t) = {e \in Held(<<>>) : e.key # key} \cup {Entry(key, list, sent)}
    BY <2>1, <2>2, InsertHeld
  <2> QED BY <2>2, <2>3
<1> HIDE DEF t, n
<1>3. Len(t) <= 1
  BY <1>2, OneHeld
<1> QED BY <1>1, <1>3 DEF n

\* A request begins one search at most.
LEMMA RequestBeginsOne ==
  ASSUME NEW w, IsWorld(w), NEW m, Sound(w, m), DOMAIN m = Fields, m.store_find_queries = <<>>,
         NEW client, NEW req, IsRequest(w, req), req.q \in {"put", "get", "ping", "find_node"}
  PROVE  Len(HandleRequest(m, req, client).store_find_queries) <= 1
<1> DEFINE near == Nearest(m, req.value)
           C == Unanswered(w, m.id)
           Few(n) == Len(n.store_find_queries) <= 1
           Bare(n) == DOMAIN n = Fields /\ n.store_find_queries = <<>>
<1>1. ASSUME NEW n, Bare(n)
      PROVE  /\ Few(n) /\ Few(Die(n)) /\ \A id : Few(kademPing(n, id)) /\ Few(AnswerClient(n, client, id))
             /\ \A sent_query, value : Bare(Latest(n, sent_query, value, client))
  <2>1. Len(<<>>) = 0
    OBVIOUS
  <2>2. Few(n) /\ Few(Die(n))
    BY <1>1, <2>1 DEF Die, NewMachine
  <2>3. \A id : Few(AnswerClient(n, client, id))
    BY <1>1, <2>1 DEF AnswerClient, Fields
  <2>4. \A id : Few(kademPing(n, id))
    BY <1>1, <2>1, SendBeside DEF kademPing, Beside
  <2>5. \A sent_query, value : Bare(Latest(n, sent_query, value, client))
    BY <1>1 DEF Latest, Fields
  <2> QED BY <2>2, <2>3, <2>4, <2>5
<1>2. ASSUME NEW n, Bare(n), NEW key, NEW list, NEW sent, NEW token, NEW nodes \in Seq(C)
      PROVE  /\ Few(AskForValue(StoreFindQuery(n, key, list, sent), key, token, nodes))
             /\ Few(AskForNode(StoreFindQuery(n, key, list, sent), key, nodes))
  <2> DEFINE k == StoreFindQuery(n, key, list, sent)
  <2>1. DOMAIN k = Fields /\ Few(k)
    BY <1>2, OnlySearch
  <2> HIDE DEF k
  <2>2. Beside(k, AskForValue(k, key, token, nodes)) /\ Beside(k, AskForNode(k, key, nodes))
    BY <2>1, AskForValueBeside, AskForNodeBeside
  <2> QED BY <2>1, <2>2 DEF Beside, k
<1>3. Bare(m)
  OBVIOUS
<1>4. ASSUME req.value \in NodeId \ {m.id}, ~Knows(m, req.value)
      PROVE  near \in Seq(C) /\ AtMost(near, KADEM_ALPHA) \in Seq(C)
  <2>1. near \in Seq(C)
    BY <1>4, FirstContacts
  <2> QED BY <2>1, AtMostType, MachineAssumption
<1> HIDE DEF near, C
<1>5. CASE req.q = "put"
  <2>1. near \in Seq(C) /\ AtMost(near, KADEM_ALPHA) \in Seq(C)
    BY <1>4, <1>5, ObjectsAreUnknown DEF IsRequest
  <2> DEFINE local == [AnswerClient(StoreLocally(m, req.value, req.data), client, OK) EXCEPT
                         !.generated = @ + 1,
                         !.token_sent = insert_to_tail_file(@,
                            create_store_file(generateTransactionId(m), req.data, now), now)]
             to_ask == AtMost(near, KADEM_ALPHA)
             n == RPCHandleStoreValue(m, req.value, req.data, client)
  <2>2. Bare(local)
    BY <1>3 DEF AnswerClient, StoreLocally, Fields
  <2>3. n \in {Die(local), AskForValue(StoreFindQuery(local, req.value, near, Len(to_ask)),
                                       req.value, generateTransactionId(m), to_ask)}
    BY DEF RPCHandleStoreValue, near
  <2> HIDE DEF local, to_ask, n, Bare, Few
  <2>4. Few(n)
    BY <1>1, <1>2, <2>1, <2>2, <2>3 DEF to_ask
  <2> QED BY <1>5, <2>4 DEF HandleRequest, n, Few
<1>6. CASE req.q = "get"
  <2>1. near \in Seq(C)
    BY <1>4, <1>6, ObjectsAreUnknown DEF IsRequest
  <2> DEFINE drawn == [m EXCEPT !.generated = @ + 1]
             begun == Latest(drawn, "get", req.value, client)
             n == RPCHandleFindValue(m, req.value, client)
  <2>2. Bare(drawn)
    BY <1>3 DEF Fields
  <2>3. \/ \E answer : n = AnswerClient(drawn, client, answer)
        \/ n = begun
        \/ n = AskForValue(StoreFindQuery(begun, req.value, near, Len(near)),
                           req.value, generateTransactionId(m), near)
    BY DEF RPCHandleFindValue, near
  <2> HIDE DEF drawn, n, Bare, Few
  <2>4. Bare(begun)
    BY <1>1, <2>2
  <2> HIDE DEF begun
  <2>5. Few(n)
    BY <1>1, <1>2, <2>1, <2>2, <2>3, <2>4
  <2> QED BY <1>6, <2>5 DEF HandleRequest, n, Few
<1>7. CASE req.q = "ping" /\ "value" \in DOMAIN req
  <2> DEFINE begun == Latest(m, "ping", req.value, client)
             n == RPCHandlePing(m, req.value, client)
  <2>1. \/ n \in {Die(m), kademPing(m, req.value), begun}
        \/ /\ req.value # m.id /\ ~Knows(m, req.value)
           /\ n = AskForNode(StoreFindQuery(begun, req.value, near, Len(near)), req.value, near)
    BY DEF RPCHandlePing, near
  <2> HIDE DEF n, Bare, Few
  <2>2. Bare(begun)
    BY <1>1, <1>3
  <2> HIDE DEF begun
  <2>3. req.value \in NodeId
    BY <1>7 DEF IsRequest
  <2>4. Few(n)
    BY <1>1, <1>2, <1>3, <1>4, <2>1, <2>2, <2>3
  <2> QED BY <1>7, <2>4 DEF HandleRequest, n, Few
<1>8. CASE req.q = "find_node"
  <2> DEFINE begun == Latest(m, "find_node", req.value, client)
             to_ask == AtMost(near, KADEM_ALPHA)
             n == RPCHandleFindNode(m, req.value, client)
  <2>1. \/ n \in {Die(m), AnswerClient(m, client, OK), begun}
        \/ /\ req.value # m.id /\ ~Knows(m, req.value)
           /\ \E list : n = AskForNode(StoreFindQuery(begun, req.value, list, Len(to_ask)), req.value, to_ask)
    BY DEF RPCHandleFindNode, near
  <2> HIDE DEF n, Bare, Few
  <2>2. Bare(begun)
    BY <1>1, <1>3
  <2> HIDE DEF begun
  <2>3. req.value \in NodeId
    BY <1>8 DEF IsRequest
  <2>4. Few(n)
    BY <1>1, <1>2, <1>3, <1>4, <2>1, <2>2, <2>3
  <2> QED BY <1>8, <2>4 DEF HandleRequest, n, Few
<1>9. CASE req.q = "ping" /\ "value" \notin DOMAIN req
  <2>1. HandleRequest(m, req, client) = Die(m)
    BY <1>9 DEF HandleRequest
  <2> QED BY <1>1, <1>3, <2>1
<1> QED BY <1>5, <1>6, <1>7, <1>8, <1>9

-----------------------------------------------------------------------------
(* The theorems.                                                             *)

\* The invariant: the parts of the search's list are split, those that have answered
\* are in order behind the others, and whoever answers is a peer.
IInv ==
  /\ now \in 0..MaxTime /\ answers \in 0..MaxAnswers
  /\ query.q \in {"ping", "find_node", "get", "put"}
  /\ SearchInv(World(Anyone), searches)

\* The first search has contacts none of which has answered.
LEMMA InitIInv ==
  Init => IInv
<1> SUFFICES ASSUME Init PROVE IInv
  OBVIOUS
<1>1. now \in 0..MaxTime /\ answers \in 0..MaxAnswers
  BY LookupAssumption DEF Init
<1>2. PICK met \in Met, req \in Request :
        LET m == HandleRequest(Acquainted(met), req, NoClient) IN
        searches = m.store_find_queries /\ \E i \in 1..Len(m.sent_queries) : query = m.sent_queries[i].value
  BY DEF Init
<1> DEFINE m == HandleRequest(Acquainted(met), req, NoClient)
           w == World({})
           x == World(Anyone)
<1>3. /\ IsWorld(w) /\ IsWorld(x)
  BY <1>1, WorldIsWorld
<1>4. /\ Sound(w, Acquainted(met)) /\ DOMAIN Acquainted(met) = Fields /\ Acquainted(met).id = Self
      /\ Acquainted(met).alive /\ Acquainted(met).store_find_queries = <<>>
  BY <1>1, AcquaintedIsSound
<1>5. IsRequest(w, req) /\ req.q \in {"put", "get", "ping", "find_node"}
  BY LookupAssumption DEF IsRequest, World, ObjectIn
<1>6. Served(w, Acquainted(met), m, req, NoClient)
  BY <1>3, <1>4, <1>5, RequestServed
<1>7. Len(m.store_find_queries) <= 1
  BY <1>3, <1>4, <1>5, RequestBeginsOne
<1>8. searches = m.store_find_queries /\ \E i \in 1..Len(m.sent_queries) : query = m.sent_queries[i].value
  BY <1>2
<1>9. \A id, key : Answered(w, id, key) = {}
  BY DEF Answered, RepliedIn, World
<1>10. Widens(w, x)
  <2>1. MaxTime + PingPeriod \in Nat
    BY LookupAssumption, MachineAssumption
  <2> QED BY <2>1 DEF Widens, World
<1> HIDE DEF m, w, x
<1>11. Sound(w, m) /\ m.id = Self
  BY <1>4, <1>6 DEF Served, Busy, Grows
<1>12. Sound(x, m)
  BY <1>10, <1>11, StaysSound
<1>13. query.q \in {"ping", "find_node", "get", "put"}
  <2>1. PICK i \in 1..Len(m.sent_queries) : query = m.sent_queries[i].value
    BY <1>8
  <2>2. m.sent_queries[i] \in Held(m.sent_queries)
    BY DEF Held
  <2> QED BY <1>11, <2>1, <2>2 DEF Sound, SentOK, IsQuery
<1>14. ASSUME NEW e \in Held(searches) PROVE AnsweredInOrder(e.key, e.value)
  <2>1. IsSearch(w, Self, e.key, e.value)
    BY <1>8, <1>11 DEF Sound, SearchesOK
  <2>2. e.value \in Seq(Unanswered(w, Self))
    BY <1>9, <2>1 DEF IsSearch, Split, SplitAt
  <2>3. \A i \in 1..Len(e.value) : e.value[i] \in Unanswered(w, Self)
    BY <2>2
  <2>4. \A i \in 1..Len(e.value) : e.value[i].count # 2
    BY <2>3 DEF Unanswered
  <2> QED BY <2>4 DEF AnsweredInOrder
<1>15. SearchInv(x, searches)
  BY <1>7, <1>8, <1>11, <1>12, <1>14 DEF SearchInv, Sound
<1> QED BY <1>1, <1>13, <1>15 DEF IInv, x

\* A step moves no contact but those it is about.
LEMMA StepMoves ==
  ASSUME IInv, Next
  PROVE  /\ Moves(World(Anyone), searches, searches', about')
         /\ now' \in 0..MaxTime /\ answers' \in 0..MaxAnswers /\ query' = query
<1> DEFINE w == World(Anyone)
<1>1. IsWorld(w) /\ Others(w, Self) = Id /\ SearchInv(w, searches)
  BY WorldIsWorld DEF IInv
<1>2. \A id \in Id, key \in NodeId : RepliedIn(w, Self, id, key)
  BY DEF RepliedIn, World, Anyone
<1>3. w.nodes = Id \cup {Self}
  BY DEF World
<1> HIDE DEF w
<1>4. ASSUME NEW S, GivenUp \subseteq S
      PROVE  /\ Moves(w, searches, PrunedSearches(searches), S)
             /\ Searcher(w, Maintained) /\ Maintained.store_find_queries = PrunedSearches(searches)
  <2>1. searches # <<>> => Late(searches[1].value) \subseteq S
    <3>1. ASSUME searches # <<>> PROVE Late(searches[1].value) \subseteq GivenUp
      <4>1. 1 \in 1..Len(searches)
        BY <1>1, <3>1, SearchIsList
      <4>2. searches[1] \in {searches[i] : i \in 1..Len(searches)}
        BY <4>1
      <4>3. \A id \in Late(searches[1].value) : id \in GivenUp
        BY <4>2 DEF Late, GivenUp
      <4> QED BY <4>3
    <3> QED BY <1>4, <3>1
  <2>2. Moves(w, searches, PrunedSearches(searches), S)
    BY <1>1, <2>1, SearchPruned
  <2>3. /\ DOMAIN Maintained = Fields /\ Maintained.id = Self /\ Maintained.token_sent = <<>>
        /\ Maintained.store_find_queries = PrunedSearches(searches)
    BY DEF Maintained, NewMachine, Fields
  <2> QED BY <2>2, <2>3 DEF Searcher, Moves
<1>5. ASSUME NEW from \in Id, NEW at \in 0..MaxTime, NEW named \in Named, NEW garbage,
             PeerAnswers(from, at, named, garbage)
      PROVE  /\ Moves(w, searches, searches', about')
             /\ now' = now /\ query' = query /\ answers' \in 0..MaxAnswers
  <2> DEFINE msg == [y |-> "r", id |-> from, nodes |-> named]
             after == HandleAnswerTo(query, Maintained, msg, garbage)
  <2>1. /\ searches' = after.store_find_queries /\ answers < MaxAnswers /\ answers' = answers + 1
        /\ about' = {from} \cup {named[i] : i \in DOMAIN named} \cup GivenUp
        /\ now' = now /\ query' = query
    BY <1>5 DEF PeerAnswers
  <2>2. IsAnswer(w, msg.id, msg.nodes, about')
    <3>1. named \in Seq(w.nodes) /\ DOMAIN named = 1..Len(named)
      BY <1>3, LookupAssumption
    <3> QED BY <1>1, <1>2, <2>1, <3>1 DEF IsAnswer
  <2>3. "value" \notin DOMAIN msg /\ query.q \in {"ping", "find_node", "get", "put"}
    BY DEF IInv
  <2>4. GivenUp \subseteq about'
    BY <2>1
  <2>5. /\ Moves(w, searches, PrunedSearches(searches), about')
        /\ Searcher(w, Maintained) /\ Maintained.store_find_queries = PrunedSearches(searches)
    BY <1>4, <2>4
  <2> HIDE DEF msg
  <2>6. Takes(w, Maintained, after, about')
    BY <1>1, <2>2, <2>3, <2>5, AnswerTakes
  <2> HIDE DEF after
  <2>7. Moves(w, searches, searches', about')
    BY <2>1, <2>5, <2>6, MovesIsTransitive DEF Takes
  <2>8. answers' \in 0..MaxAnswers
    BY <2>1, LookupAssumption DEF IInv
  <2> QED BY <2>1, <2>7, <2>8
<1>6. CASE OtherMessage
  <2>1. searches' = PrunedSearches(searches) /\ about' = GivenUp /\ UNCHANGED <<now, query, answers>>
    BY <1>4, <1>6 DEF OtherMessage
  <2>2. Moves(w, searches, searches', about')
    BY <1>4, <2>1
  <2> QED BY <2>1, <2>2 DEF IInv, w
<1>7. CASE Tick
  <2>1. searches' = searches /\ UNCHANGED <<query, answers>> /\ now < MaxTime /\ now' = now + 1
    BY <1>7 DEF Tick
  <2>2. Moves(w, searches, searches', about')
    BY <1>1, <2>1, MovesIsReflexive
  <2>3. now' \in 0..MaxTime
    BY <2>1, LookupAssumption DEF IInv
  <2> QED BY <2>1, <2>2, <2>3 DEF IInv, w
<1> QED BY <1>5, <1>6, <1>7 DEF Next, IInv, w

\* ... so that the invariant stays.
LEMMA NextIInv ==
  ASSUME IInv, [Next]_vars
  PROVE  IInv'
<1>1. CASE Next
  <2>1. /\ SearchInv(World(Anyone), searches')
        /\ now' \in 0..MaxTime /\ answers' \in 0..MaxAnswers /\ query' = query
    BY <1>1, StepMoves DEF Moves
  <2> QED BY <2>1 DEF IInv
<1>2. CASE UNCHANGED vars
  BY <1>2 DEF IInv, vars
<1> QED BY <1>1, <1>2

\* The inductive invariant holds in every state.
THEOREM SpecIInv == Spec => []IInv
<1>1. Init => IInv
  BY InitIInv
<1>2. IInv /\ [Next]_vars => IInv'
  BY NextIInv
<1> QED BY <1>1, <1>2, PTL DEF Spec

\* What the invariant says of the contacts of the search.
LEMMA ContactsOfSearch ==
  ASSUME IInv
  PROVE  /\ searches \in Seq(Held(searches)) /\ Len(searches) \in 0..1
         /\ \/ Contacts = <<>>
            \/ /\ searches # <<>> /\ Contacts = searches[1].value
               /\ IsSearch(World(Anyone), Self, searches[1].key, Contacts)
               /\ AnsweredInOrder(searches[1].key, Contacts)
<1> DEFINE w == World(Anyone)
<1>1. SearchInv(w, searches)
  BY DEF IInv
<1> HIDE DEF w
<1>2. searches \in Seq(Held(searches)) /\ Len(searches) \in Nat /\ Len(searches) <= 1
  BY <1>1 DEF SearchInv, SearchesOK, KeyedList
<1>3. ASSUME searches # <<>>
      PROVE  /\ Contacts = searches[1].value
             /\ IsSearch(w, Self, searches[1].key, Contacts)
             /\ AnsweredInOrder(searches[1].key, Contacts)
  <2>1. searches[1] \in Held(searches) /\ Contacts = searches[1].value
    BY <1>1, <1>3, SearchIsList DEF Contacts
  <2> QED BY <1>1, <2>1 DEF SearchInv, SearchesOK
<1>4. Len(searches) \in 0..1
  <2>1. \A n \in Nat : n <= 1 => n \in 0..1
    OBVIOUS
  <2> QED BY <1>2, <2>1
<1> QED BY <1>2, <1>3, <1>4 DEF Contacts, w

\* There is one search at most, its contacts are peers, and those that have answered
\* are behind the others.
THEOREM SpecTypeOK == Spec => []TypeOK
<1>1. ASSUME IInv PROVE TypeOK
  <2> DEFINE A == Unanswered(World(Anyone), Self)
             key == searches[1].key
             B == Answered(World(Anyone), Self, key)
             n == Len(Contacts)
  <2>1. now \in 0..MaxTime /\ answers \in 0..MaxAnswers /\ Len(searches) <= 1
    BY <1>1 DEF IInv, SearchInv
  <2>2. length_bucket \in Nat
    BY NodeDetailsAssumption
  <2>3. CASE Contacts = <<>>
    <3>1. n = 0 /\ 1..n = {}
      BY <2>3
    <3> QED BY <2>1, <2>2, <3>1 DEF TypeOK
  <2>4. CASE Contacts # <<>>
    <3>1. PICK k \in 0..length_bucket : SplitAt(Contacts, A, B, k, length_bucket)
      BY <1>1, <2>4, ContactsOfSearch DEF IsSearch, Split
    <3>2. Others(World(Anyone), Self) = Id
      BY <1>1, WorldIsWorld DEF IInv
    <3>3. /\ \A c \in A : c.nodeID \in Id /\ c.count \in 0..1
          /\ \A c \in B : c.nodeID \in Id /\ c.count = 2
      BY <3>2 DEF Unanswered, Answered
    <3> HIDE DEF A, B
    <3>4. /\ n \in Nat /\ k \in 0..n /\ n - k <= length_bucket
          /\ \A i \in 1..k : Contacts[i] \in A
          /\ \A i \in k+1..n : Contacts[i] \in B
      BY <3>1 DEF SplitAt
    <3>5. n <= 2*length_bucket
      BY <2>2, <3>4
    <3>6. ASSUME NEW i \in 1..n
          PROVE  /\ i <= k => Contacts[i].nodeID \in Id /\ Contacts[i].count \in 0..1
                 /\ i > k => Contacts[i].nodeID \in Id /\ Contacts[i].count = 2
      <4>1. CASE i <= k
        <5>1. i \in 1..k
          BY <3>4, <4>1
        <5> QED BY <3>3, <3>4, <4>1, <5>1
      <4>2. CASE i > k
        <5>1. i \in k+1..n
          BY <3>4, <4>2
        <5> QED BY <3>3, <3>4, <4>2, <5>1
      <4> QED BY <3>4, <4>1, <4>2
    <3>7. ASSUME NEW i \in 1..n PROVE Contacts[i].nodeID \in Id /\ Contacts[i].count \in 0..2
      BY <3>4, <3>6
    <3>8. ASSUME NEW i \in 1..n, NEW j \in 1..n, i < j, Contacts[i].count = 2
          PROVE  Contacts[j].count = 2
      BY <3>4, <3>6, <3>8
    <3> QED BY <2>1, <3>5, <3>7, <3>8 DEF TypeOK
  <2> QED BY <2>3, <2>4
<1> QED BY <1>1, SpecIInv, PTL

\* The contacts that have answered are in the order of the distances the code computes.
THEOREM SpecAnswersOrdered == Spec => []AnswersOrdered
<1>1. ASSUME IInv PROVE AnswersOrdered
  <2>1. CASE Contacts = <<>>
    <3>1. 1..Len(Contacts) = {}
      BY <2>1
    <3> QED BY <3>1 DEF AnswersOrdered
  <2>2. CASE AnsweredInOrder(searches[1].key, Contacts)
    BY <2>2 DEF AnswersOrdered, AnsweredInOrder, Distance, Dist
  <2> QED BY <1>1, <2>1, <2>2, ContactsOfSearch
<1> QED BY <1>1, SpecIInv, PTL

\* No three of them are at one distance: a node is among them twice at most.
THEOREM SpecAtMostTwice == Spec => []AtMostTwice
<1>1. ASSUME IInv PROVE AtMostTwice
  <2>1. CASE Contacts = <<>>
    <3>1. 1..Len(Contacts) = {}
      BY <2>1
    <3> QED BY <3>1 DEF AtMostTwice
  <2>2. CASE AnsweredInOrder(searches[1].key, Contacts)
    <3>1. \A a, b, c : {a, b, c} = {2} => a = 2 /\ b = 2 /\ c = 2
      OBVIOUS
    <3> QED BY <2>2, <3>1 DEF AtMostTwice, AnsweredInOrder, Distance, Dist
  <2> QED BY <1>1, <2>1, <2>2, ContactsOfSearch
<1> QED BY <1>1, SpecIInv, PTL

\* A step loses, repeats or moves no contact but those it is about.
THEOREM SpecOthersStay == Spec => OthersStay
<1>1. ASSUME IInv, IInv', [Next]_vars
      PROVE  [searches # <<>> /\ searches' # <<>> =>
                AllBut(NodeStrings(Contacts'), about') = AllBut(NodeStrings(Contacts), about')]_vars
  <2> SUFFICES ASSUME Next, searches # <<>>, searches' # <<>>
               PROVE  AllBut(NodeStrings(Contacts'), about') = AllBut(NodeStrings(Contacts), about')
    BY <1>1
  <2> DEFINE w == World(Anyone)
             C == Unanswered(w, Self) \cup Answered(w, Self, searches[1].key)
             D == Unanswered(w, Self) \cup Answered(w, Self, searches'[1].key)
  <2>1. Moves(w, searches, searches', about') /\ SearchInv(w, searches)
    BY <1>1, StepMoves DEF IInv
  <2>2. Contacts = searches[1].value /\ Contacts' = searches'[1].value
    BY DEF Contacts
  <2> HIDE DEF w
  <2>3. searches[1].value \in Seq(C) /\ searches'[1].value \in Seq(D)
    BY <2>1, SearchIsList DEF Moves
  <2>4. Stay(searches[1].value, searches'[1].value, about')
    BY <2>1 DEF Moves
  <2> HIDE DEF C, D
  <2>5. searches[1].value \in Seq(C \cup D) /\ searches'[1].value \in Seq(C \cup D)
    BY <2>3, SeqMonotonic
  <2> QED BY <2>2, <2>4, <2>5, SameAllBut
<1> QED BY <1>1, SpecIInv, PTL DEF Spec, OthersStay
=============================================================================
