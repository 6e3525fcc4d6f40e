--------------------------- MODULE StoreFileProofs ---------------------------
(***************************************************************************)
(* Proofs about the lists of store_file.c: what delete_key, find_key,      *)
(* insert_to_tail_file and clean do to a list whose keys are unique and    *)
(* whose stamps ascend, that every list stays one, and that the list       *)
(* implements the map of module KeyedStore.                                *)
(***************************************************************************)
EXTENDS StoreFileSystem, SequenceTheorems, WellFoundedInduction, TLAPS

\* The parts of the inductive invariant, of any list s at time t.
Unique(s) == \A i, j \in 1..Len(s) : s[i].key = s[j].key => i = j
Sorted(s, t) ==
  /\ \A i, j \in 1..Len(s) : i < j => s[i].timestamp <= s[j].timestamp
  /\ \A i \in 1..Len(s) : s[i].timestamp <= t

\* d is what is left of s when the entries outside the image of g are unlinked.
Remains(d, s, g) ==
  /\ g \in [1..Len(d) -> 1..Len(s)]
  /\ \A i \in 1..Len(d) : d[i] = s[g[i]]
  /\ \A i, j \in 1..Len(d) : i < j => g[i] < g[j]

-----------------------------------------------------------------------------
(* The operators. *)

\* The entries of a list are entries.
LEMMA EntryTypes ==
  ASSUME NEW s \in Seq(FileType)
  PROVE  /\ Len(s) \in Nat
         /\ \A i \in 1..Len(s) : s[i] \in FileType /\ s[i].timestamp \in Nat
<1>1. \A i \in 1..Len(s) : s[i] \in FileType
  OBVIOUS
<1>2. \A e \in FileType : e.timestamp \in Nat
  BY DEF FileType
<1> QED BY <1>1, <1>2

\* With unique keys find_key returns the entry of its key.
LEMMA FindKey ==
  ASSUME NEW s \in Seq(FileType), Unique(s), NEW i \in 1..Len(s)
  PROVE  find_key(s, s[i].key) = s[i]
<1> DEFINE First(n) == /\ s[n].key = s[i].key
                       /\ \A j \in 1..n-1 : s[j].key # s[i].key
<1>1. First(i)
  BY DEF Unique
<1>2. \A n \in 1..Len(s) : First(n) => n = i
  BY DEF Unique
<1>3. (CHOOSE n \in 1..Len(s) : First(n)) = i
  <2> HIDE DEF First
  <2> QED BY <1>1, <1>2
<1> QED BY <1>3 DEF find_key

\* Unlinking entries keeps keys unique and stamps in order, and find_key finds
\* what it found before under the keys that are left.
LEMMA RemainsKeeps ==
  ASSUME NEW s \in Seq(FileType), NEW d \in Seq(FileType), NEW g, Remains(d, s, g),
         Unique(s), NEW t, Sorted(s, t)
  PROVE  /\ Unique(d)
         /\ Sorted(d, t)
         /\ \A k \in Keys(d) : k \in Keys(s) /\ find_key(d, k) = find_key(s, k)
<1>1. ASSUME NEW i \in 1..Len(d) PROVE g[i] \in 1..Len(s) /\ d[i] = s[g[i]]
  BY DEF Remains
<1>2. Unique(d)
  <2> SUFFICES ASSUME NEW i \in 1..Len(d), NEW j \in 1..Len(d), d[i].key = d[j].key
               PROVE  i = j
    BY DEF Unique
  <2>1. /\ g[i] \in 1..Len(s) /\ g[j] \in 1..Len(s)
        /\ s[g[i]].key = s[g[j]].key
    BY <1>1
  <2>2. g[i] = g[j]
    BY <2>1 DEF Unique
  <2>3. i < j \/ j < i \/ i = j
    OBVIOUS
  <2> QED BY <2>1, <2>2, <2>3 DEF Remains
<1>3. Sorted(d, t)
  BY <1>1 DEF Sorted, Remains
<1>4. ASSUME NEW k \in Keys(d)
      PROVE  k \in Keys(s) /\ find_key(d, k) = find_key(s, k)
  <2>1. PICK i \in 1..Len(d) : k = d[i].key
    BY DEF Keys
  <2>2. find_key(d, k) = d[i]
    BY <2>1, <1>2, FindKey
  <2>3. find_key(s, k) = s[g[i]]
    BY <2>1, <1>1, FindKey
  <2> QED BY <1>1, <2>1, <2>2, <2>3 DEF Keys
<1> QED BY <1>2, <1>3, <1>4

\* delete_key unlinks the entry of the key and nothing else.
LEMMA DeleteKey ==
  ASSUME NEW s \in Seq(FileType), Unique(s), NEW key
  PROVE  /\ delete_key(s, key) \in Seq(FileType)
         /\ Keys(delete_key(s, key)) = Keys(s) \ {key}
         /\ \E g : Remains(delete_key(s, key), s, g)
<1>1. CASE key \notin Keys(s)
  <2>1. delete_key(s, key) = s
    BY <1>1 DEF delete_key
  <2>2. Remains(s, s, [i \in 1..Len(s) |-> i])
    BY DEF Remains
  <2> QED BY <1>1, <2>1, <2>2
<1>2. CASE key \in Keys(s)
  <2> DEFINE First(n) == /\ s[n].key = key
                         /\ \A j \in 1..n-1 : s[j].key # key
             i == CHOOSE n \in 1..Len(s) : First(n)
             front == SubSeq(s, 1, i-1)
             back  == SubSeq(s, i+1, Len(s))
             d == front \o back
             g == [j \in 1..Len(d) |-> IF j < i THEN j ELSE j+1]
  <2>1. i \in 1..Len(s) /\ s[i].key = key
    <3>1. PICK n \in 1..Len(s) : s[n].key = key
      BY <1>2 DEF Keys
    <3>2. First(n)
      BY <3>1 DEF Unique
    <3> QED BY <3>1, <3>2
  <2>2. delete_key(s, key) = d
    BY <1>2 DEF delete_key
  <2> HIDE DEF i
  <2>3. /\ Len(s) \in Nat
        /\ \A j \in 1..Len(s) : s[j] \in FileType
    OBVIOUS
  <2>4. /\ front \in Seq(FileType) /\ Len(front) = i-1
        /\ \A j \in 1..i-1 : front[j] = s[j]
    <3> \A j \in 1..i-1 : s[j] \in FileType
      BY <2>1, <2>3
    <3> QED BY <2>1, <2>3, SubSeqProperties
  <2>5. /\ back \in Seq(FileType) /\ Len(back) = Len(s)-i
        /\ \A j \in 1..Len(s)-i : back[j] = s[i+j]
    <3>1. \A j \in i+1..Len(s) : s[j] \in FileType
      BY <2>1, <2>3
    <3>2. /\ back \in Seq(FileType)
          /\ Len(back) = IF i+1 <= Len(s) THEN Len(s)-(i+1)+1 ELSE 0
          /\ \A j \in 1..Len(s)-(i+1)+1 : back[j] = s[(i+1)+j-1]
      BY <3>1, <2>1, <2>3, SubSeqProperties
    <3> HIDE DEF back
    <3> QED BY <3>2, <2>1, <2>3
  <2> HIDE DEF front, back
  <2>6. /\ d \in Seq(FileType) /\ Len(d) = Len(s)-1
        /\ \A j \in 1..Len(s)-1 : d[j] = IF j < i THEN s[j] ELSE s[j+1]
    <3>1. /\ d \in Seq(FileType)
          /\ Len(d) = (i-1) + (Len(s)-i)
          /\ \A j \in 1..(i-1) + (Len(s)-i) : d[j] = IF j <= i-1 THEN front[j] ELSE back[j-(i-1)]
      <4>1. /\ d \in Seq(FileType)
            /\ Len(d) = Len(front) + Len(back)
            /\ \A j \in 1..Len(front) + Len(back) :
                 d[j] = IF j <= Len(front) THEN front[j] ELSE back[j - Len(front)]
        <5> front \in Seq(FileType) /\ back \in Seq(FileType)
          BY <2>4, <2>5
        <5> QED BY ConcatProperties, Zenon
      <4> QED BY <4>1, <2>4, <2>5
    <3> HIDE DEF d
    <3>2. ASSUME NEW j \in 1..Len(s)-1
          PROVE  d[j] = IF j < i THEN s[j] ELSE s[j+1]
      <4>1. CASE j < i
        <5>1. j \in 1..i-1
          BY <4>1, <2>1, <2>3
        <5>2. d[j] = front[j]
          BY <5>1, <3>1, <2>1, <2>3
        <5> QED BY <4>1, <5>1, <5>2, <2>4
      <4>2. CASE ~(j < i)
        <5>1. j-(i-1) \in 1..Len(s)-i /\ i + (j-(i-1)) = j+1
          BY <4>2, <2>1, <2>3
        <5>2. back[j-(i-1)] = s[j+1]
          BY <5>1, <2>5
        <5> QED BY <4>2, <5>2, <3>1, <2>1, <2>3
      <4> QED BY <4>1, <4>2
    <3> QED BY <3>1, <3>2, <2>1, <2>3
  <2> HIDE DEF d
  <2>7. Remains(d, s, g)
    BY <2>1, <2>3, <2>6 DEF Remains
  <2>8. Keys(d) = Keys(s) \ {key}
    <3>1. ASSUME NEW j \in 1..Len(d) PROVE d[j].key \in Keys(s) \ {key}
      BY <2>1, <2>3, <2>6 DEF Keys, Unique
    <3>2. ASSUME NEW n \in 1..Len(s), s[n].key # key PROVE s[n].key \in Keys(d)
      <4>1. CASE n < i
        BY <4>1, <2>1, <2>3, <2>6 DEF Keys
      <4>2. CASE n > i
        <5>1. n-1 \in 1..Len(d) /\ d[n-1] = s[n]
          BY <4>2, <2>1, <2>3, <2>6
        <5> QED BY <5>1 DEF Keys
      <4> QED BY <3>2, <4>1, <4>2, <2>1
    <3> QED BY <3>1, <3>2 DEF Keys
  <2> QED BY <2>2, <2>6, <2>7, <2>8
<1> QED BY <1>1, <1>2

\* insert_to_tail_file leaves the entries of the other keys and puts the new
\* one, stamped with t, behind them.
LEMMA InsertToTail ==
  ASSUME NEW s \in Seq(FileType), Unique(s), NEW t \in Nat, Sorted(s, t),
         NEW file \in FileType
  PROVE  LET new == insert_to_tail_file(s, file, t)
         IN  /\ new \in Seq(FileType) /\ Unique(new) /\ Sorted(new, t)
             /\ Keys(new) = Keys(s) \cup {file.key}
             /\ find_key(new, file.key).value = file.value
             /\ find_key(new, file.key).timestamp = t
             /\ \A k \in Keys(s) \ {file.key} : find_key(new, k) = find_key(s, k)
<1> DEFINE d == delete_key(s, file.key)
           e == [file EXCEPT !.timestamp = t]
           new == Append(d, e)
<1>1. insert_to_tail_file(s, file, t) = new
  BY DEF insert_to_tail_file
<1>2. /\ d \in Seq(FileType)
      /\ Keys(d) = Keys(s) \ {file.key}
      /\ \E g : Remains(d, s, g)
  BY DeleteKey
<1>3. /\ Unique(d) /\ Sorted(d, t)
      /\ \A k \in Keys(d) : find_key(d, k) = find_key(s, k)
  BY <1>2, RemainsKeeps
<1>4. e \in FileType /\ e.key = file.key /\ e.timestamp = t
  BY DEF FileType
<1> HIDE DEF d, e
<1>5. /\ new \in Seq(FileType) /\ Len(new) = Len(d)+1
      /\ \A i \in 1..Len(d) : new[i] = d[i]
      /\ new[Len(d)+1] = e
  BY <1>2, <1>4, AppendProperties
<1>6. Len(d) \in Nat
  BY <1>2
<1> HIDE DEF new
<1>7. \A i \in 1..Len(d) : d[i].key # file.key
  BY <1>2 DEF Keys
<1>8. Unique(new)
  <2> SUFFICES ASSUME NEW i \in 1..Len(new), NEW j \in 1..Len(new), new[i].key = new[j].key
               PROVE  i = j
    BY DEF Unique
  <2>1. CASE i \in 1..Len(d) /\ j \in 1..Len(d)
    BY <2>1, <1>3, <1>5 DEF Unique
  <2>2. CASE i = Len(d)+1 \/ j = Len(d)+1
    BY <2>2, <1>4, <1>5, <1>6, <1>7
  <2> QED BY <2>1, <2>2, <1>5, <1>6
<1>9. Sorted(new, t)
  <2>1. ASSUME NEW i \in 1..Len(new) PROVE new[i].timestamp <= t
    <3>1. CASE i \in 1..Len(d)
      BY <3>1, <1>3, <1>5 DEF Sorted
    <3>2. CASE i = Len(d)+1
      BY <3>2, <1>4, <1>5
    <3> QED BY <3>1, <3>2, <1>5, <1>6
  <2>2. ASSUME NEW i \in 1..Len(new), NEW j \in 1..Len(new), i < j
        PROVE  new[i].timestamp <= new[j].timestamp
    <3>1. CASE j \in 1..Len(d)
      BY <2>2, <3>1, <1>3, <1>5, <1>6 DEF Sorted
    <3>2. CASE j = Len(d)+1
      BY <3>2, <2>1, <1>4, <1>5
    <3> QED BY <3>1, <3>2, <1>5, <1>6
  <2> QED BY <2>1, <2>2 DEF Sorted
<1>10. Keys(new) = Keys(d) \cup {file.key}
  BY <1>4, <1>5, <1>6 DEF Keys
<1>11. find_key(new, file.key) = e
  <2>1. Len(d)+1 \in 1..Len(new)
    BY <1>5, <1>6
  <2>2. find_key(new, new[Len(d)+1].key) = new[Len(d)+1]
    BY <2>1, <1>5, <1>8, FindKey
  <2> QED BY <2>2, <1>4, <1>5
<1>12. ASSUME NEW k \in Keys(d) PROVE find_key(new, k) = find_key(d, k)
  <2>1. PICK i \in 1..Len(d) : d[i].key = k
    BY DEF Keys
  <2>2. find_key(d, d[i].key) = d[i]
    BY <1>2, <1>3, FindKey
  <2>3. i \in 1..Len(new) /\ new[i] = d[i]
    BY <1>5, <1>6
  <2>4. find_key(new, new[i].key) = new[i]
    BY <2>3, <1>5, <1>8, FindKey
  <2> QED BY <2>1, <2>2, <2>3, <2>4
<1>13. e.value = file.value
  BY DEF e, FileType
<1> QED BY <1>1, <1>2, <1>3, <1>4, <1>5, <1>8, <1>9, <1>10, <1>11, <1>12, <1>13

\* The loop of clean comes to an end: there is a longest prefix of old entries.
LEMMA OldPrefix ==
  ASSUME NEW len \in Nat, NEW old
  PROVE  \E n \in 0..len : /\ \A i \in 1..n : i \in old
                           /\ n < len => n+1 \notin old
<1> DEFINE Stops == {n \in Nat : n = len \/ n+1 \notin old}
<1>1. PICK n \in Stops : \A i \in Stops : ~(<<i, n>> \in OpToRel(<, Nat))
  <2>1. len \in Stops /\ Stops \subseteq Nat
    OBVIOUS
  <2> HIDE DEF Stops
  <2>2. Stops # {}
    BY <2>1
  <2> QED BY <2>1, <2>2, WFMin, NatLessThanWellFounded
<1>2. n \in Nat /\ (n = len \/ n+1 \notin old)
  OBVIOUS
<1>3. \A i \in Nat : i < n => i # len /\ i+1 \in old
  BY <1>1, <1>2 DEF OpToRel
<1>4. n <= len
  BY <1>2, <1>3
<1>5. ASSUME NEW i \in 1..n PROVE i \in old
  <2>1. i-1 \in Nat /\ i-1 < n /\ (i-1)+1 = i
    BY <1>2
  <2> QED BY <2>1, <1>3
<1> QED BY <1>2, <1>4, <1>5

\* clean drops every entry older than age and no other: the stamps ascend, so
\* the old entries are the ones in front of the first young one.
LEMMA CleanList ==
  ASSUME NEW s \in Seq(FileType), Unique(s), NEW t \in Nat, Sorted(s, t), NEW age \in Nat
  PROVE  /\ clean(s, age, t) \in Seq(FileType)
         /\ \E g : Remains(clean(s, age, t), s, g)
         /\ Keys(clean(s, age, t)) = {k \in Keys(s) : find_key(s, k).timestamp >= t - age}
<1> DEFINE Cut(n) == /\ \A i \in 1..n : s[i].timestamp < t - age
                     /\ n < Len(s) => ~(s[n+1].timestamp < t - age)
           n == CHOOSE n \in 0..Len(s) : Cut(n)
           d == SubSeq(s, n+1, Len(s))
           g == [i \in 1..Len(d) |-> n+i]
<1>1. /\ Len(s) \in Nat
      /\ \A i \in 1..Len(s) : s[i] \in FileType /\ s[i].timestamp \in Nat
  BY EntryTypes
<1>2. n \in 0..Len(s) /\ Cut(n)
  <2>1. \E c \in 0..Len(s) : Cut(c)
    <3> DEFINE old == {i \in 1..Len(s) : s[i].timestamp < t - age}
    <3>1. PICK c \in 0..Len(s) : /\ \A i \in 1..c : i \in old
                                 /\ c < Len(s) => c+1 \notin old
      <4> HIDE DEF old
      <4> QED BY <1>1, OldPrefix
    <3>2. c < Len(s) => c+1 \in 1..Len(s)
      BY <1>1
    <3> QED BY <3>1, <3>2
  <2> HIDE DEF Cut
  <2> QED BY <2>1
<1>3. clean(s, age, t) = d
  BY DEF clean
<1> HIDE DEF n
<1>4. /\ d \in Seq(FileType) /\ Len(d) = Len(s)-n
      /\ \A i \in 1..Len(s)-n : d[i] = s[n+i]
  <2>1. \A i \in n+1..Len(s) : s[i] \in FileType
    BY <1>1, <1>2
  <2>2. /\ d \in Seq(FileType)
        /\ Len(d) = IF n+1 <= Len(s) THEN Len(s)-(n+1)+1 ELSE 0
        /\ \A i \in 1..Len(s)-(n+1)+1 : d[i] = s[(n+1)+i-1]
    BY <2>1, <1>1, <1>2, SubSeqProperties
  <2> HIDE DEF d
  <2> QED BY <2>2, <1>1, <1>2
<1> HIDE DEF d
<1>5. Remains(d, s, g)
  <2>1. \A i \in 1..Len(d) : n+i \in 1..Len(s)
    BY <1>1, <1>2, <1>4
  <2> QED BY <2>1, <1>1, <1>2, <1>4 DEF Remains
<1>6. \A i \in n+1..Len(s) : s[i].timestamp >= t - age
  <2> SUFFICES ASSUME NEW i \in n+1..Len(s) PROVE s[i].timestamp >= t - age
    OBVIOUS
  <2>1. n+1 \in 1..Len(s) /\ i \in 1..Len(s) /\ n+1 <= i
    BY <1>1, <1>2
  <2>2. s[n+1].timestamp >= t - age
    BY <2>1, <1>1, <1>2
  <2>3. s[n+1].timestamp <= s[i].timestamp
    BY <2>1, <1>1 DEF Sorted
  <2> QED BY <2>1, <2>2, <2>3, <1>1
<1>7. Keys(d) = {k \in Keys(s) : find_key(s, k).timestamp >= t - age}
  <2>1. ASSUME NEW i \in 1..Len(s)
        PROVE  s[i].key \in Keys(d) <=> i \in n+1..Len(s)
    <3>1. ASSUME i \in n+1..Len(s) PROVE s[i].key \in Keys(d)
      <4>1. i-n \in 1..Len(d) /\ d[i-n] = s[i]
        BY <3>1, <1>1, <1>2, <1>4
      <4> QED BY <4>1 DEF Keys
    <3>2. ASSUME s[i].key \in Keys(d) PROVE i \in n+1..Len(s)
      <4>1. PICK j \in 1..Len(d) : d[j].key = s[i].key
        BY <3>2 DEF Keys
      <4>2. n+j \in 1..Len(s) /\ s[n+j].key = s[i].key /\ n+j >= n+1
        BY <4>1, <1>1, <1>2, <1>4
      <4>3. n+j = i
        BY <4>2 DEF Unique
      <4> QED BY <4>2, <4>3
    <3> QED BY <3>1, <3>2
  <2>2. ASSUME NEW i \in 1..Len(s)
        PROVE  find_key(s, s[i].key).timestamp >= t - age <=> i \in n+1..Len(s)
    <3>1. find_key(s, s[i].key) = s[i]
      BY FindKey
    <3>2. CASE i \in n+1..Len(s)
      BY <3>1, <3>2, <1>6
    <3>3. CASE i \in 1..n
      <4>1. s[i].timestamp < t - age /\ s[i].timestamp \in Nat
        BY <3>3, <1>1, <1>2
      <4> QED BY <3>1, <3>3, <4>1, <1>2
    <3> QED BY <3>2, <3>3, <1>1, <1>2
  <2>3. ASSUME NEW k \in Keys(d) PROVE k \in Keys(s)
    BY <1>1, <1>2, <1>4 DEF Keys
  <2>4. ASSUME NEW k \in Keys(s)
        PROVE  k \in Keys(d) <=> find_key(s, k).timestamp >= t - age
    <3>1. PICK i \in 1..Len(s) : s[i].key = k
      BY DEF Keys
    <3> QED BY <3>1, <2>1, <2>2
  <2> QED BY <2>3, <2>4
<1> QED BY <1>3, <1>4, <1>5, <1>7

-----------------------------------------------------------------------------
(* The list. *)

\* The inductive invariant.
IInv == TypeOK /\ Unique(values) /\ Sorted(values, now)

LEMMA InitIInv == Init => IInv
BY DEF Init, IInv, TypeOK, Unique, Sorted

LEMMA NextIInv == IInv /\ [Next]_vars => IInv'
<1> SUFFICES ASSUME IInv, [Next]_vars PROVE IInv'
  OBVIOUS
<1> USE DEF IInv
<1>0. values \in Seq(FileType) /\ now \in Nat
  BY DEF TypeOK
<1>1. ASSUME NEW key \in Key, NEW value \in Value, Insert(key, value) PROVE IInv'
  <2> DEFINE file == create_store_file(key, value, now)
  <2>1. file \in FileType
    BY <1>0 DEF create_store_file, FileType
  <2> HIDE DEF file
  <2>2. values' = insert_to_tail_file(values, file, now) /\ now' = now
    BY <1>1 DEF Insert, file
  <2>3. values' \in Seq(FileType) /\ Unique(values') /\ Sorted(values', now)
    BY <1>0, <2>1, <2>2, InsertToTail
  <2> QED BY <1>0, <2>2, <2>3 DEF TypeOK
<1>2. ASSUME NEW d, values' = d, now' = now, d \in Seq(FileType), \E g : Remains(d, values, g)
      PROVE  IInv'
  <2>1. Unique(d) /\ Sorted(d, now)
    BY <1>0, <1>2, RemainsKeeps
  <2> QED BY <1>0, <1>2, <2>1 DEF TypeOK
<1>3. ASSUME NEW key \in Key, Delete(key) PROVE IInv'
  BY <1>0, <1>2, <1>3, DeleteKey DEF Delete
<1>4. ASSUME NEW age \in Age, Clean(age) PROVE IInv'
  <2>1. age \in Nat
    BY StoreFileAssumption
  <2> QED BY <1>0, <1>2, <1>4, <2>1, CleanList DEF Clean
<1>5. CASE Tick
  <2>1. now' = now+1 /\ values' = values
    BY <1>5 DEF Tick
  <2>2. Sorted(values, now+1)
    <3>1. \A i \in 1..Len(values) : values[i].timestamp \in Nat
      BY <1>0, EntryTypes
    <3> QED BY <3>1, <1>0 DEF Sorted
  <2> QED BY <1>0, <2>1, <2>2 DEF TypeOK, Unique
<1>6. CASE UNCHANGED vars
  BY <1>0, <1>6 DEF vars, TypeOK, Unique, Sorted
<1> QED BY <1>1, <1>3, <1>4, <1>5, <1>6 DEF Next

\* Every reachable list is well typed, never holds a key twice and is in the
\* order of its stamps, whatever the calls and however long the list.
THEOREM SpecIInv == Spec => []IInv
<1>1. Init => IInv
  BY InitIInv
<1>2. IInv /\ [Next]_vars => IInv'
  BY NextIInv
<1> QED BY <1>1, <1>2, PTL DEF Spec

\* TypeOK holds of every reachable state.
THEOREM SpecTypeOK == Spec => []TypeOK
<1>1. IInv => TypeOK
  BY DEF IInv
<1> QED BY <1>1, SpecIInv, PTL

\* No key is ever stored twice: what find_key and delete_key rely on.
THEOREM SpecUniqueKeys == Spec => []UniqueKeys
<1>1. IInv => UniqueKeys
  BY DEF IInv, UniqueKeys, Unique
<1> QED BY <1>1, SpecIInv, PTL

\* The stamps ascend and none is ahead of the clock: what clean relies on.
THEOREM SpecAscending == Spec => []Ascending
<1>1. IInv => Ascending
  BY DEF IInv, Ascending, Sorted
<1> QED BY <1>1, SpecIInv, PTL

-----------------------------------------------------------------------------
(* The list implements the map. *)

\* What a list holds under a key, as the map sees it.
Stored(s, k) == [value |-> find_key(s, k).value, timestamp |-> find_key(s, k).timestamp]

LEMMA MappingOf == /\ Mapping = [k \in Keys(values) |-> Stored(values, k)]
                   /\ Mapping' = [k \in Keys(values') |-> Stored(values', k)]
BY DEF Mapping, Stored

\* Storing an entry is the Put of the map.
LEMMA InsertPuts ==
  ASSUME IInv, NEW key \in Key, NEW value \in Value, Insert(key, value)
  PROVE  Abstract!Put(key, value)
<1> DEFINE file == create_store_file(key, value, now)
<1>1. values \in Seq(FileType) /\ now \in Nat /\ Unique(values) /\ Sorted(values, now)
  BY DEF IInv, TypeOK
<1>2. file \in FileType /\ file.key = key /\ file.value = value
  BY <1>1 DEF create_store_file, FileType
<1> HIDE DEF file
<1>3. values' = insert_to_tail_file(values, file, now) /\ now' = now
  BY DEF Insert, file
<1>4. /\ Keys(values') = Keys(values) \cup {key}
      /\ find_key(values', key).value = value
      /\ find_key(values', key).timestamp = now
      /\ \A k \in Keys(values) \ {key} : find_key(values', k) = find_key(values, k)
  <2> DEFINE new == insert_to_tail_file(values, file, now)
  <2>1. /\ Keys(new) = Keys(values) \cup {file.key}
        /\ find_key(new, file.key).value = file.value
        /\ find_key(new, file.key).timestamp = now
        /\ \A k \in Keys(values) \ {file.key} : find_key(new, k) = find_key(values, k)
    BY <1>1, <1>2, InsertToTail
  <2>2. values' = new
    BY <1>3
  <2> HIDE DEF new
  <2> QED BY <2>1, <2>2, <1>2
<1>5. Stored(values', key) = [value |-> value, timestamp |-> now]
  BY <1>4 DEF Stored
<1>6. \A k \in Keys(values) \ {key} : Stored(values', k) = Stored(values, k)
  BY <1>4 DEF Stored
<1>7. Mapping' = [k \in DOMAIN Mapping \cup {key} |->
                    IF k = key THEN [value |-> value, timestamp |-> now] ELSE Mapping[k]]
  BY <1>4, <1>5, <1>6, MappingOf
<1> QED BY <1>3, <1>7 DEF Abstract!Put

\* A list that lost the entries of some keys is the map without those keys.
LEMMA RemainsMaps ==
  ASSUME IInv, values' \in Seq(FileType), \E g : Remains(values', values, g)
  PROVE  Mapping' = [k \in Keys(values') |-> Mapping[k]]
<1>1. values \in Seq(FileType) /\ Unique(values) /\ Sorted(values, now)
  BY DEF IInv, TypeOK
<1>2. \A k \in Keys(values') : k \in Keys(values) /\ find_key(values', k) = find_key(values, k)
  BY <1>1, RemainsKeeps
<1>3. \A k \in Keys(values') : Stored(values', k) = Stored(values, k)
  BY <1>2 DEF Stored
<1> QED BY <1>2, <1>3, MappingOf

LEMMA DeleteRemoves ==
  ASSUME IInv, NEW key \in Key, Delete(key)
  PROVE  Abstract!Remove(key)
<1>1. values \in Seq(FileType) /\ Unique(values)
  BY DEF IInv, TypeOK
<1>2. values' = delete_key(values, key) /\ now' = now
  BY DEF Delete
<1>3. /\ values' \in Seq(FileType)
      /\ Keys(values') = Keys(values) \ {key}
      /\ \E g : Remains(values', values, g)
  BY <1>1, <1>2, DeleteKey
<1>4. Mapping' = [k \in Keys(values') |-> Mapping[k]]
  BY <1>3, RemainsMaps
<1>5. DOMAIN Mapping = Keys(values)
  BY MappingOf
<1> QED BY <1>2, <1>3, <1>4, <1>5 DEF Abstract!Remove

LEMMA CleanExpires ==
  ASSUME IInv, NEW age \in Age, Clean(age)
  PROVE  Abstract!Expire(age)
<1>1. /\ values \in Seq(FileType) /\ Unique(values) /\ now \in Nat /\ Sorted(values, now)
      /\ age \in Nat
  BY StoreFileAssumption DEF IInv, TypeOK
<1>2. values' = clean(values, age, now) /\ now' = now
  BY DEF Clean
<1>3. /\ values' \in Seq(FileType)
      /\ Keys(values') = {k \in Keys(values) : find_key(values, k).timestamp >= now - age}
      /\ \E g : Remains(values', values, g)
  BY <1>1, <1>2, CleanList
<1>4. Mapping' = [k \in Keys(values') |-> Mapping[k]]
  BY <1>3, RemainsMaps
<1>5. /\ DOMAIN Mapping = Keys(values)
      /\ \A k \in Keys(values) : Mapping[k].timestamp = find_key(values, k).timestamp
  BY MappingOf DEF Stored
<1> QED BY <1>2, <1>3, <1>4, <1>5 DEF Abstract!Expire

\* Every step on a list is a step of the map it stands for.
LEMMA NextImplements ==
  IInv /\ [Next]_vars => [Abstract!Next]_<<Mapping, now>>
<1> SUFFICES ASSUME IInv, [Next]_vars PROVE [Abstract!Next]_<<Mapping, now>>
  OBVIOUS
<1>1. ASSUME NEW key \in Key, NEW value \in Value, Insert(key, value) PROVE Abstract!Next
  BY <1>1, InsertPuts DEF Abstract!Next
<1>2. ASSUME NEW key \in Key, Delete(key) PROVE Abstract!Next
  BY <1>2, DeleteRemoves DEF Abstract!Next
<1>3. ASSUME NEW age \in Age, Clean(age) PROVE Abstract!Next
  BY <1>3, CleanExpires DEF Abstract!Next
<1>4. CASE Tick
  BY <1>4, MappingOf DEF Tick, Abstract!Next, Abstract!Pass
<1>5. CASE UNCHANGED vars
  BY <1>5, MappingOf DEF vars
<1> QED BY <1>1, <1>2, <1>3, <1>4, <1>5 DEF Next

\* A list of store_file.c is the keyed map its callers take it for: entries are
\* replaced, removed and expired by key, and the last value stored is found.
THEOREM SpecImplementsKeyedStore == Spec => ImplementsKeyedStore
<1>1. Init => Abstract!Init
  <2> SUFFICES ASSUME Init PROVE Abstract!Init
    OBVIOUS
  <2>1. Keys(values) = {}
    BY DEF Init, Keys
  <2> QED BY <2>1, MappingOf DEF Init, Abstract!Init
<1>2. IInv /\ [Next]_vars => [Abstract!Next]_<<Mapping, now>>
  BY NextImplements
<1> QED BY <1>1, <1>2, SpecIInv, PTL DEF Spec, ImplementsKeyedStore, Abstract!Spec
=============================================================================
