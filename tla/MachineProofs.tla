--------------------------- MODULE MachineProofs ---------------------------
(***************************************************************************)
(* What the operations on contact lists leave in them, how long they can   *)
(* become, and in which bucket a contact is; and what the handlers of a    *)
(* machine keep, whatever the message and whatever they find in memory:    *)
(* the keyed lists, the queries under way, the split lists of the lookups, *)
(* and the objects it holds.                                               *)
(***************************************************************************)
EXTENDS Machine, SequenceTheorems, FiniteSetTheorems, NaturalsInduction, TLAPS

-----------------------------------------------------------------------------
(* Lists of contacts. *)

\* Contacts with identifiers of N, pinged at most twice, stamped until t.
ContactOf(N, t) == [nodeID : N, count : 0..2, timestamp : 0..t]

\* A bucket of such contacts, and a table of buckets.
IsBucket(N, t, list) == list \in Seq(ContactOf(N, t)) /\ Len(list) <= length_bucket
IsTable(N, t, table) ==
  /\ DOMAIN table = 0..BITS-1
  /\ \A b \in 0..BITS-1 : IsBucket(N, t, table[b])

\* The first k contacts of a list are in A and the others, at most q, in B.
SplitAt(list, A, B, k, q) ==
  /\ list \in Seq(A \cup B)
  /\ k \in 0..Len(list)
  /\ Len(list) - k <= q
  /\ \A i \in 1..k : list[i] \in A
  /\ \A i \in k+1..Len(list) : list[i] \in B

\* A list that begins with at most p contacts of A, before at most q of B.
Split(list, A, B, p, q) == \E k \in 0..p : SplitAt(list, A, B, k, q)

-----------------------------------------------------------------------------
(* Least and greatest elements. *)

\* A set of numbers has a least one, which Min is.
LEMMA Minimum ==
  ASSUME NEW T \in SUBSET Nat, T # {}
  PROVE  Min(T) \in T /\ \A k \in T : Min(T) <= k
<1>1. PICK n \in T : \A k \in T : ~(<<k, n>> \in OpToRel(<, Nat))
  BY WFMin, NatLessThanWellFounded
<1>2. \A k \in T : ~(k < n)
  BY <1>1 DEF OpToRel
<1>3. n \in Nat /\ \A k \in T : k \in Nat
  OBVIOUS
<1>4. \A k \in T : n =< k
  BY <1>2, <1>3
<1> QED BY <1>4 DEF Min

\* A bounded set of numbers has a greatest one, which Max is.
LEMMA Maximum ==
  ASSUME NEW n \in Nat, NEW T \in SUBSET (0..n), T # {}
  PROVE  Max(T) \in T /\ \A k \in T : Max(T) >= k
<1> DEFINE U == {n - k : k \in T}
<1>1. \A k \in T : k \in Nat /\ k <= n /\ n - k \in Nat
  OBVIOUS
<1>2. U \in SUBSET Nat /\ U # {}
  BY <1>1
<1>3. Min(U) \in U /\ \A u \in U : Min(U) <= u
  <2> HIDE DEF U
  <2> QED BY <1>2, Minimum
<1>4. PICK j \in T : Min(U) = n - j
  BY <1>3
<1>5. ASSUME NEW k \in T PROVE j >= k
  <2>1. n - k \in U
    OBVIOUS
  <2>2. n - j <= n - k
    BY <1>3, <1>4, <2>1
  <2> QED BY <1>1, <2>2
<1> QED BY <1>5 DEF Max

-----------------------------------------------------------------------------
(* Sequences. *)

\* A part of a sequence.
LEMMA Part ==
  ASSUME NEW C, NEW s \in Seq(C), NEW i \in Nat, NEW j \in Nat, i >= 1, j <= Len(s), i <= j + 1
  PROVE  /\ SubSeq(s, i, j) \in Seq(C)
         /\ Len(SubSeq(s, i, j)) = j - i + 1
         /\ \A k \in 1..j-i+1 : SubSeq(s, i, j)[k] = s[i+k-1]
<1>1. \A k \in i..j : s[k] \in C
  OBVIOUS
<1>2. /\ SubSeq(s, i, j) \in Seq(C)
      /\ Len(SubSeq(s, i, j)) = IF i <= j THEN j-i+1 ELSE 0
      /\ \A k \in 1 .. j-i+1 : SubSeq(s, i, j)[k] = s[i+k-1]
  BY <1>1, SubSeqProperties
<1>3. \A k \in 1..j-i+1 : i+k-1 = i+k-1
  OBVIOUS
<1> QED BY <1>2

\* What removing and inserting one element do.
LEMMA RemoveAtProperties ==
  ASSUME NEW C, NEW s \in Seq(C), NEW i \in 1..Len(s)
  PROVE  /\ RemoveAt(s, i) \in Seq(C)
         /\ Len(RemoveAt(s, i)) = Len(s) - 1
         /\ \A p \in 1..Len(s)-1 : RemoveAt(s, i)[p] = s[IF p < i THEN p ELSE p+1]
<1> DEFINE x == SubSeq(s, 1, i-1)
           y == SubSeq(s, i+1, Len(s))
<1>1. Len(s) \in Nat /\ i \in Nat /\ i >= 1 /\ i <= Len(s)
  OBVIOUS
<1>2. x \in Seq(C) /\ Len(x) = i-1 /\ \A p \in 1..i-1 : x[p] = s[p]
  BY <1>1, Part
<1>3. y \in Seq(C) /\ Len(y) = Len(s)-i /\ \A p \in 1..Len(s)-i : y[p] = s[i+p]
  BY <1>1, Part
<1>4. RemoveAt(s, i) = x \o y
  BY DEF RemoveAt
<1> HIDE DEF x, y
<1>5. /\ x \o y \in Seq(C) /\ Len(x \o y) = Len(x) + Len(y)
      /\ \A p \in 1..Len(x)+Len(y) : (x \o y)[p] = IF p <= Len(x) THEN x[p] ELSE y[p - Len(x)]
  BY <1>2, <1>3, ConcatProperties
<1>6. ASSUME NEW p \in 1..Len(s)-1 PROVE (x \o y)[p] = s[IF p < i THEN p ELSE p+1]
  BY <1>1, <1>2, <1>3, <1>5
<1> QED BY <1>1, <1>2, <1>3, <1>4, <1>5, <1>6

\* An insertion keeps what a list is of, and makes it longer by one.
LEMMA InsertAtProperties ==
  ASSUME NEW C, NEW s \in Seq(C), NEW i \in 1..Len(s)+1, NEW e \in C
  PROVE  /\ InsertAt(s, i, e) \in Seq(C)
         /\ Len(InsertAt(s, i, e)) = Len(s) + 1
         /\ \A p \in 1..Len(s)+1 :
              InsertAt(s, i, e)[p] = IF p < i THEN s[p] ELSE IF p = i THEN e ELSE s[p-1]
<1> DEFINE x == SubSeq(s, 1, i-1)
           y == SubSeq(s, i, Len(s))
           z == x \o <<e>>
<1>1. Len(s) \in Nat /\ i \in Nat /\ i >= 1 /\ i <= Len(s)+1
  OBVIOUS
<1>2. x \in Seq(C) /\ Len(x) = i-1 /\ \A p \in 1..i-1 : x[p] = s[p]
  BY <1>1, Part
<1>3. y \in Seq(C) /\ Len(y) = Len(s)-i+1 /\ \A p \in 1..Len(s)-i+1 : y[p] = s[i+p-1]
  BY <1>1, Part
<1>4. InsertAt(s, i, e) = z \o y
  BY DEF InsertAt
<1> HIDE DEF x, y
<1> DEFINE w == <<e>>
<1>5. w \in Seq(C) /\ Len(w) = 1 /\ w[1] = e
  OBVIOUS
<1> HIDE DEF w
<1>6. /\ x \o w \in Seq(C) /\ Len(x \o w) = Len(x) + Len(w)
      /\ \A p \in 1..Len(x)+Len(w) : (x \o w)[p] = IF p <= Len(x) THEN x[p] ELSE w[p - Len(x)]
  BY <1>2, <1>5, ConcatProperties
<1>7. z \in Seq(C) /\ Len(z) = i /\ \A p \in 1..i : z[p] = IF p < i THEN s[p] ELSE e
  <2>1. z = x \o w
    BY DEF w
  <2> HIDE DEF z
  <2> QED BY <1>1, <1>2, <1>5, <1>6, <2>1
<1> HIDE DEF z
<1>8. /\ z \o y \in Seq(C) /\ Len(z \o y) = Len(z) + Len(y)
      /\ \A p \in 1..Len(z)+Len(y) : (z \o y)[p] = IF p <= Len(z) THEN z[p] ELSE y[p - Len(z)]
  BY <1>3, <1>7, ConcatProperties
<1>9. ASSUME NEW p \in 1..Len(s)+1
      PROVE  (z \o y)[p] = IF p < i THEN s[p] ELSE IF p = i THEN e ELSE s[p-1]
  <2>1. CASE p <= i
    <3>1. p \in 1..i /\ p \in 1..Len(z)+Len(y) /\ p <= Len(z)
      BY <1>1, <1>3, <1>7, <2>1
    <3> QED BY <1>1, <1>7, <1>8, <2>1, <3>1
  <2>2. CASE p > i
    <3>1. p-i \in 1..Len(s)-i+1 /\ p \in 1..Len(z)+Len(y) /\ ~(p <= Len(z)) /\ p - Len(z) = p - i
      BY <1>1, <1>3, <1>7, <2>2
    <3>2. i + (p-i) - 1 = p-1
      BY <1>1
    <3> QED BY <1>1, <1>3, <1>8, <2>2, <3>1, <3>2
  <2>3. p <= i \/ p > i
    BY <1>1
  <2> QED BY <2>1, <2>2, <2>3, Zenon
<1> QED BY <1>1, <1>3, <1>4, <1>7, <1>8, <1>9

-----------------------------------------------------------------------------
(* Buckets. *)

\* The stamp and the count are all that insert_to_tail changes of a contact.
LEMMA InsertToTail ==
  ASSUME NEW N, NEW t \in Nat, NEW list, IsBucket(N, t, list),
         NEW node \in ContactOf(N, t), NEW time \in 0..t
  PROVE  IsBucket(N, t, insert_to_tail(list, node, time))
<1> DEFINE stamped == [node EXCEPT !.count = 0, !.timestamp = time]
<1>1. stamped \in ContactOf(N, t)
  <2> DEFINE reset == [node EXCEPT !.count = 0]
  <2>1. reset \in ContactOf(N, t)
    BY DEF ContactOf
  <2> HIDE DEF reset
  <2>2. [reset EXCEPT !.timestamp = time] \in ContactOf(N, t)
    BY <2>1 DEF ContactOf
  <2> QED BY <2>2 DEF reset
<1>2. Append(list, stamped) \in Seq(ContactOf(N, t)) /\ Len(Append(list, stamped)) = Len(list) + 1
  BY <1>1, AppendProperties DEF IsBucket
<1>3. Len(list) \in Nat /\ length_bucket \in Nat
  BY NodeDetailsAssumption DEF IsBucket
<1> QED BY <1>2, <1>3 DEF IsBucket, insert_to_tail

\* A bucket without its head (delete_head) is a bucket.
LEMMA DeleteHead ==
  ASSUME NEW N, NEW t, NEW list, IsBucket(N, t, list)
  PROVE  IsBucket(N, t, delete_head(list))
<1>1. CASE list = <<>>
  BY <1>1 DEF delete_head
<1>2. CASE list # <<>>
  <2>1. Tail(list) \in Seq(ContactOf(N, t)) /\ Len(Tail(list)) = Len(list) - 1
    BY <1>2, HeadTailProperties DEF IsBucket
  <2>2. Len(list) \in Nat /\ length_bucket \in Nat
    BY NodeDetailsAssumption DEF IsBucket
  <2> QED BY <1>2, <2>1, <2>2 DEF IsBucket, delete_head
<1> QED BY <1>1, <1>2

\* A contact that is created (create_node_details) is one: not asked, stamped now.
LEMMA NewContact ==
  ASSUME NEW N, NEW t \in Nat, NEW id \in N, NEW time \in 0..t
  PROVE  create_node_details(id, time) \in ContactOf(N, t)
  BY DEF create_node_details, ContactOf

\* The index look_for_IP returns is that of a contact with the identifier.
LEMMA LookForIP ==
  ASSUME NEW C, NEW list \in Seq(C), NEW id
  PROVE  /\ look_for_IP(list, id) \in 0..Len(list)
         /\ look_for_IP(list, id) = 0 <=> id \notin Ids(list)
         /\ look_for_IP(list, id) # 0 => list[look_for_IP(list, id)].nodeID = id
<1> DEFINE I == {i \in 1..Len(list) : list[i].nodeID = id}
<1>1. look_for_IP(list, id) = IF I # {} THEN Min(I) ELSE 0
  BY DEF look_for_IP, SelectInSeq
<1>2. I # {} => Min(I) \in I
  <2>1. I \in SUBSET Nat
    OBVIOUS
  <2> HIDE DEF I
  <2> QED BY <2>1, Minimum
<1>3. Len(list) \in Nat
  OBVIOUS
<1>4. I = {} <=> id \notin Ids(list)
  BY DEF Ids
<1>5. CASE I = {}
  BY <1>1, <1>3, <1>4, <1>5
<1>6. CASE I # {}
  BY <1>1, <1>2, <1>3, <1>4, <1>6
<1> QED BY <1>5, <1>6

\* move_node_details never makes a bucket longer than length_bucket.
LEMMA MoveNodeDetails ==
  ASSUME NEW N, NEW t \in Nat, NEW list, IsBucket(N, t, list), NEW id \in N, NEW time \in 0..t
  PROVE  IsBucket(N, t, move_node_details(list, id, time))
<1>1. CASE id \notin Ids(list)
  BY <1>1, InsertToTail, NewContact DEF move_node_details
<1>2. CASE id \in Ids(list)
  <2> DEFINE i == look_for_IP(list, id)
  <2>1. list \in Seq(ContactOf(N, t)) /\ Len(list) \in Nat
    BY DEF IsBucket
  <2>2. i \in 1..Len(list)
    BY <1>2, <2>1, LookForIP
  <2> HIDE DEF i
  <2>3. RemoveAt(list, i) \in Seq(ContactOf(N, t)) /\ Len(RemoveAt(list, i)) = Len(list) - 1
    BY <2>1, <2>2, RemoveAtProperties
  <2>4. IsBucket(N, t, RemoveAt(list, i))
    BY <2>1, <2>3, NodeDetailsAssumption DEF IsBucket
  <2>5. list[i] \in ContactOf(N, t)
    BY <2>1, <2>2
  <2> QED BY <1>2, <2>4, <2>5, InsertToTail DEF move_node_details, move_to_tail, i
<1> QED BY <1>1, <1>2

-----------------------------------------------------------------------------
(* The bucket of a contact. *)

\* Two identifiers that differ have a bucket for their distance.
LEMMA BucketNumber ==
  ASSUME NEW id1 \in NodeId, NEW id2 \in NodeId, id1 # id2
  PROVE  find_node_details(id1, id2) \in 0..BITS-1
<1> DEFINE distance == XORmetrics(id1, id2)
           digits == {b \div 4 : b \in distance}
           len == Max(digits)
           alpha == {b \in 0..3 : 4*len + b \in distance}
<1>1. distance # {} /\ distance \subseteq 0..BITS-1
  BY DEF XORmetrics, SymDiff, NodeId
<1>2. BITS \in Nat /\ BITS > 0 /\ BITS % 4 = 0
  BY NodeDetailsAssumption
<1>3. \A b \in 0..BITS-1 : b \div 4 \in Nat /\ b \div 4 <= BITS
  BY <1>2
<1>4. digits \in SUBSET (0..BITS) /\ digits # {}
  BY <1>1, <1>2, <1>3
<1> HIDE DEF distance
<1>5. len \in digits
  <2> HIDE DEF digits
  <2> QED BY <1>2, <1>4, Maximum
<1>6. PICK d \in distance : len = d \div 4
  BY <1>5
<1> HIDE DEF len
<1>7. d \in 0..BITS-1 /\ len \in Nat /\ 4*len <= d /\ d < 4*len + 4
  BY <1>1, <1>2, <1>6
<1>8. 4*len + 3 <= BITS - 1
  BY <1>2, <1>7
<1>9. find_node_details(id1, id2) \in {4*len, 4*len+1, 4*len+2, 4*len+3}
  BY <1>1, <1>7 DEF find_node_details, distance, len
<1> QED BY <1>2, <1>7, <1>8, <1>9

\* insert_into_contact_table keeps the table one of bounded buckets.
LEMMA InsertIntoTable ==
  ASSUME NEW N, NEW t \in Nat, NEW table, IsTable(N, t, table), NEW this_node \in NodeId,
         N \subseteq NodeId, NEW id \in N, id # this_node, NEW time \in 0..t
  PROVE  IsTable(N, t, insert_into_contact_table(table, this_node, id, time))
<1> DEFINE b == find_node_details(this_node, id)
<1>1. b \in 0..BITS-1
  BY BucketNumber
<1> HIDE DEF b
<1>2. IsBucket(N, t, move_node_details(table[b], id, time))
  BY <1>1, MoveNodeDetails DEF IsTable
<1>3. insert_into_contact_table(table, this_node, id, time) \in
        {table, [table EXCEPT ![b] = move_node_details(table[b], id, time)]}
  BY DEF insert_into_contact_table, b
<1> QED BY <1>1, <1>2, <1>3 DEF IsTable

\* What InsertWaiting does to a bucket.
LEMMA ReplaceHead ==
  ASSUME NEW N, NEW t \in Nat, NEW list, IsBucket(N, t, list), NEW id \in N, NEW time \in 0..t
  PROVE  IsBucket(N, t, delete_head_insert_tail(list, create_node_details(id, time), time))
  BY DeleteHead, InsertToTail, NewContact DEF delete_head_insert_tail

-----------------------------------------------------------------------------
(* Contacts for a key. *)

\* The order of buckets: each of them, once.
LEMMA BucketOrderRange ==
  ASSUME NEW b \in 0..BITS-1
  PROVE  /\ DOMAIN BucketOrder(b) = 1..BITS
         /\ \A i \in 1..BITS : BucketOrder(b)[i] \in 0..BITS-1
  BY NodeDetailsAssumption DEF BucketOrder

\* k_nearest_nodes reads one bucket after the other: a round, and what has been
\* read after it.
ReadBucket(table, N, t, read, b) == read \o table[b]
IsRead(table, N, t, i, read) == read \in Seq(ContactOf(N, t))

Reading == INSTANCE Loops WITH Step <- ReadBucket, Inv <- IsRead

\* The buckets read in order give contacts of the table and nothing else.
LEMMA ReadBuckets ==
  ASSUME NEW N, NEW t, NEW table, IsTable(N, t, table), NEW b \in 0..BITS-1
  PROVE  InBucketOrder(table, b) \in Seq(ContactOf(N, t))
<1> DEFINE order == BucketOrder(b)
<1>1. BITS \in Nat /\ DOMAIN order = 1..BITS /\ \A i \in 1..BITS : order[i] \in 0..BITS-1
  BY BucketOrderRange, NodeDetailsAssumption
<1>2. InBucketOrder(table, b) = Reading!Loop(table, N, t, <<>>, order)
  BY DEF InBucketOrder, FoldLeft, MapThenFoldSet, Max,
         Reading!FoldLeft, Reading!MapThenFoldSet, Reading!Max, Reading!Loop, ReadBucket
<1> HIDE DEF order
<1>3. IsRead(table, N, t, 0, <<>>)
  BY EmptySeq DEF IsRead
<1>4. ASSUME NEW i \in 1..BITS, NEW read, IsRead(table, N, t, i-1, read)
      PROVE  IsRead(table, N, t, i, ReadBucket(table, N, t, read, order[i]))
  <2>1. table[order[i]] \in Seq(ContactOf(N, t))
    BY <1>1 DEF IsTable, IsBucket
  <2> QED BY <1>4, <2>1, ConcatProperties DEF IsRead, ReadBucket
<1>5. IsRead(table, N, t, BITS, Reading!Loop(table, N, t, <<>>, order))
  BY <1>1, <1>3, <1>4, Reading!LoopInvariant
<1> QED BY <1>2, <1>5 DEF IsRead, order

\* Contacts that have never been asked anything.
NewContactOf(N, t) == [nodeID : N, count : {0}, timestamp : 0..t]

\* For a key that no contact has, the nearest are at most length_bucket copies
\* of contacts, none of them asked yet.
LEMMA NearestAreNew ==
  ASSUME NEW N, NEW t \in Nat, NEW table, IsTable(N, t, table), NEW time \in 0..t,
         NEW this_node \in NodeId, NEW key \in NodeId \ {this_node},
         key \notin Ids(table[find_node_details(this_node, key)])
  PROVE  /\ k_nearest_nodes(table, this_node, key, time) \in Seq(NewContactOf(N, t))
         /\ Len(k_nearest_nodes(table, this_node, key, time)) <= length_bucket
<1> DEFINE b == find_node_details(this_node, key)
           all == InBucketOrder(table, b)
           n == IF Len(all) < length_bucket THEN Len(all) ELSE length_bucket
           found == SubSeq(all, 1, n)
           new == [i \in 1..Len(found) |-> create_node_details(found[i].nodeID, time)]
<1>1. b \in 0..BITS-1
  BY BucketNumber
<1>2. table[b] \in Seq(ContactOf(N, t))
  BY <1>1 DEF IsTable, IsBucket
<1>3. look_for_IP(table[b], key) = 0
  BY <1>2, LookForIP
<1>4. k_nearest_nodes(table, this_node, key, time) = new
  BY <1>3 DEF k_nearest_nodes
<1> HIDE DEF b
<1>5. all \in Seq(ContactOf(N, t))
  BY <1>1, ReadBuckets
<1> HIDE DEF all
<1>6. Len(all) \in Nat /\ length_bucket \in Nat /\ n \in Nat /\ n <= Len(all) /\ n <= length_bucket
  BY <1>5, NodeDetailsAssumption
<1> HIDE DEF n
<1>7. found \in Seq(ContactOf(N, t)) /\ Len(found) = n
  BY <1>5, <1>6, Part
<1> HIDE DEF found
<1>8. \A i \in 1..Len(found) : create_node_details(found[i].nodeID, time) \in NewContactOf(N, t)
  <2>1. \A i \in 1..Len(found) : found[i] \in ContactOf(N, t)
    BY <1>7
  <2>2. \A node \in ContactOf(N, t) : create_node_details(node.nodeID, time) \in NewContactOf(N, t)
    BY DEF create_node_details, NewContactOf, ContactOf
  <2> QED BY <2>1, <2>2
<1>9. new \in Seq(NewContactOf(N, t)) /\ Len(new) = n
  BY <1>6, <1>7, <1>8
<1> QED BY <1>4, <1>6, <1>9

\* What an answer to a query of a peer names: contacts.
LEMMA NearestAreContacts ==
  ASSUME NEW N, NEW t \in Nat, NEW table, IsTable(N, t, table), NEW time \in 0..t,
         NEW this_node \in NodeId, NEW key \in NodeId \ {this_node}
  PROVE  k_nearest_nodes(table, this_node, key, time) \in Seq(ContactOf(N, t))
<1> DEFINE b == find_node_details(this_node, key)
           at == look_for_IP(table[b], key)
<1>1. b \in 0..BITS-1
  BY BucketNumber
<1>2. table[b] \in Seq(ContactOf(N, t))
  BY <1>1 DEF IsTable, IsBucket
<1>3. CASE key \in Ids(table[b])
  <2>1. at \in 1..Len(table[b])
    BY <1>2, <1>3, LookForIP
  <2>2. at # 0
    BY <2>1
  <2>3. k_nearest_nodes(table, this_node, key, time) = SubSeq(table[b], at, Len(table[b]))
    BY <2>2 DEF k_nearest_nodes
  <2> HIDE DEF at, b
  <2>4. Len(table[b]) \in Nat /\ at \in Nat /\ at >= 1 /\ at <= Len(table[b])
    BY <1>2, <2>1
  <2> QED BY <1>2, <2>3, <2>4, Part
<1>4. CASE key \notin Ids(table[b])
  <2>1. k_nearest_nodes(table, this_node, key, time) \in Seq(NewContactOf(N, t))
    BY <1>4, NearestAreNew
  <2>2. NewContactOf(N, t) \subseteq ContactOf(N, t)
    BY DEF NewContactOf, ContactOf
  <2> QED BY <2>1, <2>2, SeqMonotonic
<1> QED BY <1>3, <1>4

-----------------------------------------------------------------------------
(* Deleting contacts. *)

\* How many of the first i contacts of a list are behind the first k.
Behind(k, i) == IF i <= k THEN 0 ELSE i - k

\* What has been kept of the first i contacts of a list whose first k are in A
\* and whose others are in B.
IsKept(A, B, k, i, kept) ==
  /\ Len(kept) <= i
  /\ \E j \in 0..k : SplitAt(kept, A, B, j, Behind(k, i))

\* One contact more is kept, or not.
LEMMA KeepOne ==
  ASSUME NEW A, NEW B, NEW k \in Nat, NEW i \in Nat, i >= 1, NEW kept, IsKept(A, B, k, i-1, kept),
         NEW node, i <= k => node \in A, i > k => node \in B
  PROVE  IsKept(A, B, k, i, kept) /\ IsKept(A, B, k, i, Append(kept, node))
<1>1. PICK j \in 0..k : SplitAt(kept, A, B, j, Behind(k, i-1))
  BY DEF IsKept
<1>2. /\ kept \in Seq(A \cup B) /\ Len(kept) \in Nat /\ Len(kept) <= i-1
      /\ j \in 0..Len(kept) /\ Len(kept) - j <= Behind(k, i-1)
  BY <1>1 DEF SplitAt, IsKept
<1>3. Behind(k, i-1) <= Behind(k, i) /\ Behind(k, i) \in Nat /\ Behind(k, i-1) \in Nat
  BY DEF Behind
<1>4. IsKept(A, B, k, i, kept)
  <2>1. Len(kept) - j <= Behind(k, i)
    BY <1>2, <1>3
  <2>2. SplitAt(kept, A, B, j, Behind(k, i))
    BY <1>1, <2>1 DEF SplitAt
  <2> QED BY <1>2, <2>2 DEF IsKept
<1> DEFINE more == Append(kept, node)
<1>5. /\ more \in Seq(A \cup B) /\ Len(more) = Len(kept) + 1 /\ more[Len(kept)+1] = node
      /\ \A n \in 1..Len(kept) : more[n] = kept[n]
  BY <1>2, AppendProperties
<1> HIDE DEF more
<1>6. CASE i <= k
  <2>1. j = Len(kept) /\ j + 1 \in 0..k /\ Behind(k, i) = 0
    BY <1>2, <1>6 DEF Behind
  <2>2. \A n \in 1..j+1 : more[n] \in A
    BY <1>1, <1>2, <1>5, <1>6, <2>1 DEF SplitAt
  <2>3. SplitAt(more, A, B, j+1, Behind(k, i))
    BY <1>2, <1>5, <2>1, <2>2 DEF SplitAt
  <2> QED BY <1>2, <1>4, <1>5, <2>1, <2>3 DEF IsKept, more
<1>7. CASE i > k
  <2>1. Behind(k, i) = Behind(k, i-1) + 1
    BY <1>7 DEF Behind
  <2>2. /\ \A n \in 1..j : more[n] \in A
        /\ \A n \in j+1..Len(more) : more[n] \in B
    <3>1. \A n \in 1..j : n \in 1..Len(kept) /\ kept[n] \in A
      BY <1>1, <1>2 DEF SplitAt
    <3>2. \A n \in j+1..Len(kept) : n \in 1..Len(kept) /\ kept[n] \in B
      BY <1>1, <1>2 DEF SplitAt
    <3>3. \A n \in j+1..Len(more) : n \in j+1..Len(kept) \/ n = Len(kept)+1
      BY <1>2, <1>5
    <3> QED BY <1>5, <1>7, <3>1, <3>2, <3>3
  <2>3. SplitAt(more, A, B, j, Behind(k, i))
    BY <1>2, <1>3, <1>5, <2>1, <2>2 DEF SplitAt
  <2> QED BY <1>2, <1>4, <1>5, <2>3 DEF IsKept, more
<1> QED BY <1>6, <1>7

\* RemovePositions goes through the list: a round, and what is kept after it.
KeepRound(list, gone, parts, kept, i) == Keep(list, gone, kept, i)
KeptOf(list, gone, parts, i, kept) == IsKept(parts.A, parts.B, parts.k, i, kept)

Keeping == INSTANCE Loops WITH Step <- KeepRound, Inv <- KeptOf

\* A list stays split when contacts are removed, and its parts do not grow.
LEMMA RemoveKeepsSplit ==
  ASSUME NEW A, NEW B, NEW k, NEW q \in Nat, NEW list, SplitAt(list, A, B, k, q), NEW gone
  PROVE  Split(RemovePositions(list, gone), A, B, k, q)
<1> DEFINE parts == [A |-> A, B |-> B, k |-> k]
           order == [i \in DOMAIN list |-> i]
           n == Len(list)
<1>1. list \in Seq(A \cup B) /\ n \in Nat /\ k \in 0..n /\ n - k <= q /\ DOMAIN list = 1..n
  BY DEF SplitAt
<1>2. DOMAIN order = 1..n /\ \A i \in 1..n : order[i] = i
  BY <1>1
<1>3. RemovePositions(list, gone) = Keeping!Loop(list, gone, parts, <<>>, order)
  BY DEF RemovePositions, FoldLeftDomain, FoldLeft, MapThenFoldSet, Max,
         Keeping!FoldLeft, Keeping!MapThenFoldSet, Keeping!Max, Keeping!Loop, KeepRound
<1> HIDE DEF order
<1>4. KeptOf(list, gone, parts, 0, <<>>)
  <2>1. SplitAt(<<>>, A, B, 0, Behind(k, 0))
    BY <1>1 DEF SplitAt, Behind
  <2> QED BY <1>1, <2>1 DEF KeptOf, IsKept
<1>5. ASSUME NEW i \in 1..n, NEW kept, KeptOf(list, gone, parts, i-1, kept)
      PROVE  KeptOf(list, gone, parts, i, KeepRound(list, gone, parts, kept, order[i]))
  <2>1. i \in Nat /\ i >= 1 /\ k \in Nat
    BY <1>1
  <2>2. (i <= k => list[i] \in A) /\ (i > k => list[i] \in B)
    BY <1>1 DEF SplitAt
  <2>3. IsKept(A, B, k, i-1, kept)
    BY <1>5 DEF KeptOf
  <2>4. IsKept(A, B, k, i, kept) /\ IsKept(A, B, k, i, Append(kept, list[i]))
    BY <2>1, <2>2, <2>3, KeepOne
  <2> QED BY <1>2, <2>4 DEF KeptOf, KeepRound, Keep
<1>6. KeptOf(list, gone, parts, n, RemovePositions(list, gone))
  BY <1>1, <1>2, <1>3, <1>4, <1>5, Keeping!LoopInvariant
<1>7. PICK j \in 0..k : SplitAt(RemovePositions(list, gone), A, B, j, Behind(k, n))
  BY <1>6 DEF KeptOf, IsKept
<1>8. Behind(k, n) <= q
  BY <1>1 DEF Behind
<1>9. SplitAt(RemovePositions(list, gone), A, B, j, q)
  BY <1>7, <1>8, <1>1 DEF SplitAt, Behind
<1> QED BY <1>9 DEF Split

\* kept is what is left of the first i contacts of list, in their order, without
\* those at the positions gone; g says where each comes from.
KeptFrom(list, gone, i, kept, g) ==
  /\ g \in [1..Len(kept) -> 1..i]
  /\ \A p \in 1..Len(kept) : kept[p] = list[g[p]] /\ g[p] \notin gone
  /\ \A p, q \in 1..Len(kept) : p < q => g[p] < g[q]
  /\ \A j \in 1..i : j \notin gone => \E p \in 1..Len(kept) : g[p] = j

IsWhatIsLeft(list, gone, C, i, kept) ==
  kept \in Seq(C) /\ \E g : KeptFrom(list, gone, i, kept, g)

Sifting == INSTANCE Loops WITH
  Step <- LAMBDA list, gone, C, kept, i : Keep(list, gone, kept, i), Inv <- IsWhatIsLeft

\* A round of RemovePositions.
LEMMA SiftOne ==
  ASSUME NEW C, NEW list, NEW gone, NEW i \in Nat, i >= 1, list[i] \in C,
         NEW kept, IsWhatIsLeft(list, gone, C, i-1, kept)
  PROVE  IsWhatIsLeft(list, gone, C, i, Keep(list, gone, kept, i))
<1>1. kept \in Seq(C) /\ Len(kept) \in Nat
  BY DEF IsWhatIsLeft
<1>2. PICK g : KeptFrom(list, gone, i-1, kept, g)
  BY DEF IsWhatIsLeft
<1>3. \A p \in 1..Len(kept) : g[p] \in 1..i-1
  BY <1>2 DEF KeptFrom
<1>4. CASE i \in gone
  <2>1. g \in [1..Len(kept) -> 1..i]
    BY <1>2, <1>3 DEF KeptFrom
  <2>2. \A j \in 1..i : j \notin gone => j \in 1..i-1
    BY <1>4
  <2>3. KeptFrom(list, gone, i, kept, g)
    BY <1>2, <2>1, <2>2 DEF KeptFrom
  <2> QED BY <1>1, <1>4, <2>3 DEF IsWhatIsLeft, Keep
<1>5. CASE i \notin gone
  <2> DEFINE more == Append(kept, list[i])
             h == [p \in 1..Len(kept)+1 |-> IF p = Len(kept)+1 THEN i ELSE g[p]]
  <2>1. /\ more \in Seq(C) /\ Len(more) = Len(kept) + 1 /\ more[Len(kept)+1] = list[i]
        /\ \A p \in 1..Len(kept) : more[p] = kept[p]
    BY <1>1, AppendProperties
  <2> HIDE DEF more
  <2>2. \A p \in 1..Len(kept)+1 : p \in 1..Len(kept) \/ p = Len(kept)+1
    BY <1>1
  <2>3. h[Len(kept)+1] = i /\ \A p \in 1..Len(kept) : h[p] = g[p]
    BY <1>1
  <2>4. h \in [1..Len(more) -> 1..i]
    BY <1>1, <1>3, <2>1
  <2> HIDE DEF h
  <2>5. \A p \in 1..Len(more) : more[p] = list[h[p]] /\ h[p] \notin gone
    BY <1>2, <1>5, <2>1, <2>2, <2>3 DEF KeptFrom
  <2>6. ASSUME NEW p \in 1..Len(more), NEW q \in 1..Len(more), p < q PROVE h[p] < h[q]
    <3>1. p \in 1..Len(kept) /\ h[p] = g[p]
      BY <1>1, <2>1, <2>2, <2>3, <2>6
    <3>2. CASE q \in 1..Len(kept)
      BY <1>2, <2>3, <2>6, <3>1, <3>2 DEF KeptFrom
    <3>3. CASE q = Len(kept)+1
      BY <1>3, <2>3, <3>1, <3>3
    <3> QED BY <2>1, <2>2, <3>2, <3>3
  <2>7. ASSUME NEW j \in 1..i, j \notin gone PROVE \E p \in 1..Len(more) : h[p] = j
    <3>1. CASE j = i
      BY <1>1, <2>1, <2>3, <3>1
    <3>2. CASE j # i
      <4>1. j \in 1..i-1
        BY <3>2
      <4>2. PICK p \in 1..Len(kept) : g[p] = j
        BY <1>2, <2>7, <4>1 DEF KeptFrom
      <4> QED BY <1>1, <2>1, <2>3, <4>2
    <3> QED BY <3>1, <3>2
  <2>8. KeptFrom(list, gone, i, more, h)
    BY <2>4, <2>5, <2>6, <2>7 DEF KeptFrom
  <2> QED BY <1>5, <2>1, <2>8 DEF IsWhatIsLeft, Keep, more
<1> QED BY <1>4, <1>5

\* RemovePositions leaves the contacts at the other positions, as they were and in
\* their order.
LEMMA RemoveLeaves ==
  ASSUME NEW C, NEW list \in Seq(C), NEW gone
  PROVE  /\ RemovePositions(list, gone) \in Seq(C)
         /\ \E g : KeptFrom(list, gone, Len(list), RemovePositions(list, gone), g)
<1> DEFINE order == [i \in DOMAIN list |-> i]
           n == Len(list)
<1>1. n \in Nat /\ DOMAIN list = 1..n
  OBVIOUS
<1>2. DOMAIN order = 1..n /\ \A i \in 1..n : order[i] = i
  BY <1>1
<1>3. RemovePositions(list, gone) = Sifting!Loop(list, gone, C, <<>>, order)
  BY DEF RemovePositions, FoldLeftDomain, FoldLeft, MapThenFoldSet, Max,
         Sifting!FoldLeft, Sifting!MapThenFoldSet, Sifting!Max, Sifting!Loop
<1> HIDE DEF order
<1>4. IsWhatIsLeft(list, gone, C, 0, <<>>)
  <2>1. Len(<<>>) = 0 /\ 1..0 = {} /\ <<>> \in Seq(C)
    OBVIOUS
  <2>2. KeptFrom(list, gone, 0, <<>>, [p \in {} |-> 0])
    BY <2>1 DEF KeptFrom
  <2> QED BY <2>1, <2>2 DEF IsWhatIsLeft
<1>5. ASSUME NEW i \in 1..n, NEW kept, IsWhatIsLeft(list, gone, C, i-1, kept)
      PROVE  IsWhatIsLeft(list, gone, C, i, Keep(list, gone, kept, order[i]))
  <2>1. i \in Nat /\ i >= 1 /\ list[i] \in C
    BY <1>1
  <2> QED BY <1>2, <1>5, <2>1, SiftOne
<1>6. IsWhatIsLeft(list, gone, C, n, RemovePositions(list, gone))
  BY <1>1, <1>2, <1>3, <1>4, <1>5, Sifting!LoopInvariant
<1> QED BY <1>6 DEF IsWhatIsLeft

\* A list all of whose contacts are alike is a split list with nothing behind.
LEMMA WholeIsSplit ==
  ASSUME NEW C, NEW list \in Seq(C)
  PROVE  SplitAt(list, C, {}, Len(list), 0)
<1>1. C \cup {} = C /\ Len(list) \in Nat
  OBVIOUS
<1>2. \A i \in Len(list)+1..Len(list) : FALSE
  BY <1>1
<1> QED BY <1>1, <1>2 DEF SplitAt

\* A list with no second part is a list of the first.
LEMMA SplitIsWhole ==
  ASSUME NEW C, NEW n \in Nat, NEW list, Split(list, C, {}, n, 0)
  PROVE  list \in Seq(C) /\ Len(list) <= n
<1>1. PICK k \in 0..n : SplitAt(list, C, {}, k, 0)
  BY DEF Split
<1>2. list \in Seq(C) /\ Len(list) \in Nat /\ Len(list) - k <= 0 /\ k <= n /\ k \in Nat
  BY <1>1 DEF SplitAt
<1> QED BY <1>2

\* Removing contacts from a list that is not split.
LEMMA RemoveKeepsType ==
  ASSUME NEW C, NEW list \in Seq(C), NEW gone
  PROVE  RemovePositions(list, gone) \in Seq(C) /\ Len(RemovePositions(list, gone)) <= Len(list)
  BY WholeIsSplit, RemoveKeepsSplit, SplitIsWhole

\* A cursor never goes in front of the list.
LEMMA CursorAdvances ==
  ASSUME NEW list, NEW i \in Nat
  PROVE  DropAndAdvance(list, i).at \in Nat \ {0}
<1> DEFINE before == UnlinkedBySelf(list, i) \cap (1..i)
<1>1. IsFiniteSet(1..i) /\ Cardinality(1..i) = i
  BY FS_Interval
<1>2. before \in SUBSET (1..i)
  OBVIOUS
<1> HIDE DEF before
<1>3. IsFiniteSet(before) /\ Cardinality(before) <= i
  BY <1>1, <1>2, FS_Subset
<1>4. Cardinality(before) \in Nat
  BY <1>3, FS_CardinalityType
<1>5. DropAndAdvance(list, i).at = i + 1 - Cardinality(before)
  BY DEF DropAndAdvance, before
<1> QED BY <1>3, <1>4, <1>5

\* A contact dropped under the cursor leaves a list split, ...
LEMMA DropKeepsSplit ==
  ASSUME NEW A, NEW B, NEW k, NEW q \in Nat, NEW list, SplitAt(list, A, B, k, q), NEW i
  PROVE  Split(DropAndAdvance(list, i).list, A, B, k, q)
  BY RemoveKeepsSplit DEF DropAndAdvance

\* ... and a bucket a bucket.
LEMMA DropKeepsBucket ==
  ASSUME NEW N, NEW t, NEW list, IsBucket(N, t, list), NEW i
  PROVE  IsBucket(N, t, DropAndAdvance(list, i).list)
<1> DEFINE shorter == DropAndAdvance(list, i).list
<1>1. list \in Seq(ContactOf(N, t)) /\ Len(list) \in Nat /\ Len(list) <= length_bucket /\ length_bucket \in Nat
  BY NodeDetailsAssumption DEF IsBucket
<1>2. shorter \in Seq(ContactOf(N, t)) /\ Len(shorter) <= Len(list)
  BY <1>1, RemoveKeepsType DEF DropAndAdvance
<1> HIDE DEF shorter
<1>3. Len(shorter) \in Nat
  BY <1>2
<1> QED BY <1>1, <1>2, <1>3 DEF IsBucket, shorter

\* delete_node adds nothing.
LEMMA DeleteNodeType ==
  ASSUME NEW C, NEW list \in Seq(C), NEW id
  PROVE  delete_node(list, id) \in Seq(C) /\ Len(delete_node(list, id)) <= Len(list)
  BY RemoveKeepsType DEF delete_node

-----------------------------------------------------------------------------
(* Lists ordered by distance. *)

\* A contact is put somewhere into a list that is not full, if it is, ...
LEMMA InsertSomewhere ==
  ASSUME NEW C, NEW list \in Seq(C), NEW node, NEW key
  PROVE  \/ insert_acc_distance(list, node, key) = list
         \/ /\ Len(list) < length_bucket
            /\ \E at \in 1..Len(list)+1 : insert_acc_distance(list, node, key) = InsertAt(list, at, node)
<1> DEFINE d(n) == DistanceAsInt(key, n.nodeID)
           behind == {j \in 2..Len(list) : d(node) <= d(list[j])}
           near == list = <<>> \/ d(node) < d(list[1])
           at == IF near THEN 1 ELSE Min(behind \cup {Len(list) + 1})
<1>1. Len(list) \in Nat /\ length_bucket \in Nat
  BY NodeDetailsAssumption
<1>2. at \in 1..Len(list)+1
  <2>1. behind \cup {Len(list) + 1} \in SUBSET Nat /\ behind \cup {Len(list)+1} \subseteq 1..Len(list)+1
    BY <1>1
  <2> HIDE DEF behind, near
  <2>2. Min(behind \cup {Len(list) + 1}) \in behind \cup {Len(list) + 1}
    BY <2>1, Minimum
  <2> QED BY <1>1, <2>1, <2>2
<1>3. insert_acc_distance(list, node, key)
        = IF \/ Len(list) >= length_bucket
             \/ at \in behind /\ d(node) = d(list[at])
          THEN list ELSE InsertAt(list, at, node)
  BY DEF insert_acc_distance
<1> HIDE DEF at, behind, d
<1> QED BY <1>1, <1>2, <1>3

\* ... so that it holds no more contacts than a full one.
LEMMA InsertByDistance ==
  ASSUME NEW C, NEW list \in Seq(C), Len(list) <= length_bucket, NEW node \in C, NEW key
  PROVE  /\ insert_acc_distance(list, node, key) \in Seq(C)
         /\ Len(insert_acc_distance(list, node, key)) <= length_bucket
<1>1. CASE insert_acc_distance(list, node, key) = list
  BY <1>1
<1>2. ASSUME Len(list) < length_bucket, NEW at \in 1..Len(list)+1,
             insert_acc_distance(list, node, key) = InsertAt(list, at, node)
      PROVE  /\ insert_acc_distance(list, node, key) \in Seq(C)
             /\ Len(insert_acc_distance(list, node, key)) <= length_bucket
  <2>1. InsertAt(list, at, node) \in Seq(C) /\ Len(InsertAt(list, at, node)) = Len(list) + 1
    BY InsertAtProperties
  <2> QED BY <1>2, <2>1, NodeDetailsAssumption
<1> QED BY <1>1, <1>2, InsertSomewhere

\* Contacts of A before contacts of B: the two lists stuck together are split.
LEMMA JoinIsSplit ==
  ASSUME NEW A, NEW B, NEW q \in Nat, NEW list1 \in Seq(A), NEW list2 \in Seq(B), Len(list2) <= q
  PROVE  SplitAt(list1 \o list2, A, B, Len(list1), q)
<1>1. list1 \in Seq(A \cup B) /\ list2 \in Seq(A \cup B)
  BY SeqMonotonic
<1>2. Len(list1) \in Nat /\ Len(list2) \in Nat
  OBVIOUS
<1> DEFINE both == list1 \o list2
<1>3. /\ both \in Seq(A \cup B) /\ Len(both) = Len(list1) + Len(list2)
      /\ \A i \in 1..Len(list1)+Len(list2) :
           both[i] = IF i <= Len(list1) THEN list1[i] ELSE list2[i - Len(list1)]
  BY <1>1, ConcatProperties
<1> HIDE DEF both
<1>4. \A i \in 1..Len(list1) : both[i] \in A
  BY <1>2, <1>3
<1>5. ASSUME NEW i \in Len(list1)+1..Len(both) PROVE both[i] \in B
  <2>1. i - Len(list1) \in 1..Len(list2) /\ i \in 1..Len(list1)+Len(list2) /\ ~(i <= Len(list1))
    BY <1>2, <1>3
  <2>2. list2[i - Len(list1)] \in B
    BY <2>1
  <2> QED BY <1>3, <2>1, <2>2
<1> QED BY <1>2, <1>3, <1>4, <1>5 DEF SplitAt, both

-----------------------------------------------------------------------------
(* Keyed lists. *)

Held(list) == {list[i] : i \in 1..Len(list)}

\* A list no two entries of which have the same key.
KeyedList(list) ==
  /\ list \in Seq(Held(list))
  /\ \A i, j \in 1..Len(list) : list[i].key = list[j].key => i = j

\* What a list holds is in the set it is a list of ...
LEMMA HeldInSet ==
  ASSUME NEW E, NEW list \in Seq(E)
  PROVE  Held(list) \subseteq E
  BY DEF Held

\* ... and it is a list of what it holds.
LEMMA ListOfHeld ==
  ASSUME NEW E, NEW list \in Seq(E)
  PROVE  list \in Seq(Held(list))
<1>1. Len(list) \in Nat /\ list = [i \in 1..Len(list) |-> list[i]]
  OBVIOUS
<1>2. \A i \in 1..Len(list) : list[i] \in Held(list)
  BY DEF Held
<1> QED BY <1>1, <1>2

\* An empty list is keyed and holds nothing.
LEMMA NothingHeld ==
  KeyedList(<<>>) /\ Held(<<>>) = {} /\ Keys(<<>>) = {}
<1>1. Held(<<>>) = {} /\ Keys(<<>>) = {}
  BY DEF Held, Keys
<1>2. <<>> \in Seq(Held(<<>>))
  BY EmptySeq
<1> QED BY <1>1, <1>2 DEF KeyedList

\* The keys of a list are those of the entries it holds.
LEMMA KeysHeld ==
  ASSUME NEW list
  PROVE  Keys(list) = {e.key : e \in Held(list)}
  BY DEF Keys, Held

\* Position i is the one that find_key and delete_key choose.
LEMMA FirstOfKey ==
  ASSUME NEW list, KeyedList(list), NEW key \in Keys(list)
  PROVE  \E i \in 1..Len(list) :
           /\ list[i].key = key
           /\ \A j \in 1..Len(list) : list[j].key = key => j = i
           /\ (CHOOSE n \in 1..Len(list) : /\ list[n].key = key
                                           /\ \A j \in 1..n-1 : list[j].key # key) = i
<1> DEFINE First(n) == /\ list[n].key = key
                       /\ \A j \in 1..n-1 : list[j].key # key
<1>1. PICK i \in 1..Len(list) : list[i].key = key
  BY DEF Keys
<1>2. \A j \in 1..Len(list) : list[j].key = key => j = i
  BY <1>1 DEF KeyedList
<1>3. Len(list) \in Nat
  BY DEF KeyedList
<1>4. First(i)
  <2>1. \A j \in 1..i-1 : j \in 1..Len(list) /\ j # i
    BY <1>3
  <2> QED BY <1>1, <1>2, <2>1
<1>5. \A n \in 1..Len(list) : First(n) => n = i
  BY <1>2
<1>6. (CHOOSE n \in 1..Len(list) : First(n)) = i
  <2> HIDE DEF First
  <2> QED BY <1>4, <1>5
<1> QED BY <1>1, <1>2, <1>6

\* find_key returns the entry of the key.
LEMMA FindHeld ==
  ASSUME NEW list, KeyedList(list), NEW key \in Keys(list)
  PROVE  find_key(list, key) \in Held(list) /\ find_key(list, key).key = key
<1>1. PICK i \in 1..Len(list) :
           /\ list[i].key = key
           /\ (CHOOSE n \in 1..Len(list) : /\ list[n].key = key
                                           /\ \A j \in 1..n-1 : list[j].key # key) = i
  BY FirstOfKey
<1>2. find_key(list, key) = list[i]
  BY <1>1 DEF find_key
<1> QED BY <1>1, <1>2 DEF Held

\* part is left of a list when entries are taken out of it; g says where from.
LeftOf(part, list, g) ==
  /\ part \in Seq(Held(list))
  /\ g \in [1..Len(part) -> 1..Len(list)]
  /\ \A i \in 1..Len(part) : part[i] = list[g[i]]
  /\ \A i, j \in 1..Len(part) : i < j => g[i] < g[j]

\* What is left of a keyed list is keyed.
LEMMA PartIsKeyed ==
  ASSUME NEW list, KeyedList(list), NEW part, NEW g, LeftOf(part, list, g)
  PROVE  KeyedList(part)
<1>1. part \in Seq(Held(part))
  BY ListOfHeld DEF LeftOf
<1>2. \A i \in 1..Len(part) : g[i] \in 1..Len(list) /\ part[i] = list[g[i]]
  BY DEF LeftOf
<1>3. \A i, j \in 1..Len(part) : part[i].key = part[j].key => g[i] = g[j]
  BY <1>2 DEF KeyedList
<1>4. \A i, j \in 1..Len(part) : g[i] = g[j] => i = j
  <2>1. Len(part) \in Nat /\ Len(list) \in Nat
    BY DEF LeftOf, KeyedList
  <2> QED BY <1>2, <2>1 DEF LeftOf
<1> QED BY <1>1, <1>3, <1>4 DEF KeyedList

\* The entries of a list are in the order of their stamps, the last of which is
\* not later than t.
ByAge(t, list) ==
  /\ t \in Nat
  /\ \A i \in 1..Len(list) : list[i].timestamp \in 0..t
  /\ \A i, j \in 1..Len(list) : i < j => list[i].timestamp <= list[j].timestamp

\* An empty list is one, ...
LEMMA NothingByAge ==
  ASSUME NEW t \in Nat
  PROVE  ByAge(t, <<>>)
  BY DEF ByAge

\* ... and so is what is left of one.
LEMMA PartIsByAge ==
  ASSUME NEW t, NEW list, ByAge(t, list), NEW part, NEW g, LeftOf(part, list, g)
  PROVE  ByAge(t, part)
  BY DEF ByAge, LeftOf

\* delete_key takes out the entry of the key and no other.
LEMMA DeleteHeld ==
  ASSUME NEW list, KeyedList(list), NEW key
  PROVE  /\ KeyedList(delete_key(list, key))
         /\ Held(delete_key(list, key)) = {e \in Held(list) : e.key # key}
         /\ \E g : LeftOf(delete_key(list, key), list, g)
<1>1. CASE key \notin Keys(list)
  <2>1. \A e \in Held(list) : e.key # key
    BY <1>1, KeysHeld
  <2>2. LeftOf(list, list, [i \in 1..Len(list) |-> i])
    BY DEF LeftOf, KeyedList
  <2> QED BY <1>1, <2>1, <2>2 DEF delete_key
<1>2. CASE key \in Keys(list)
  <2> DEFINE n == Len(list)
  <2>1. PICK i \in 1..n :
           /\ list[i].key = key
           /\ \A j \in 1..n : list[j].key = key => j = i
           /\ (CHOOSE m \in 1..Len(list) : /\ list[m].key = key
                                           /\ \A j \in 1..m-1 : list[j].key # key) = i
    BY <1>2, FirstOfKey
  <2>2. list \in Seq(Held(list)) /\ n \in Nat /\ i \in Nat /\ i >= 1 /\ i <= n
    BY DEF KeyedList
  <2> DEFINE x == SubSeq(list, 1, i-1)
             y == SubSeq(list, i+1, n)
             d == x \o y
  <2>3. delete_key(list, key) = d
    BY <1>2, <2>1 DEF delete_key
  <2>4. x \in Seq(Held(list)) /\ Len(x) = i-1 /\ \A j \in 1..i-1 : x[j] = list[1+j-1]
    BY <2>2, Part
  <2>5. y \in Seq(Held(list)) /\ Len(y) = n-i /\ \A j \in 1..n-i : y[j] = list[i+1+j-1]
    BY <2>2, Part
  <2> HIDE DEF x, y
  <2>6. /\ d \in Seq(Held(list)) /\ Len(d) = Len(x) + Len(y)
        /\ \A j \in 1..Len(x)+Len(y) : d[j] = IF j <= Len(x) THEN x[j] ELSE y[j - Len(x)]
    BY <2>4, <2>5, ConcatProperties
  <2> HIDE DEF d
  <2> DEFINE g == [j \in 1..n-1 |-> IF j < i THEN j ELSE j+1]
  <2>7. Len(d) = n-1
    BY <2>2, <2>4, <2>5, <2>6
  <2>8. ASSUME NEW j \in 1..n-1 PROVE d[j] = list[g[j]] /\ g[j] \in 1..n
    <3>1. j \in 1..Len(x)+Len(y) /\ g[j] \in 1..n
      BY <2>2, <2>4, <2>5
    <3>2. CASE j < i
      <4>1. j \in 1..i-1 /\ j <= Len(x) /\ 1+j-1 = j
        BY <3>2, <2>2, <2>4
      <4> QED BY <3>1, <3>2, <4>1, <2>4, <2>6
    <3>3. CASE j >= i
      <4>1. j-(i-1) \in 1..n-i /\ ~(j <= Len(x)) /\ i+1+(j-(i-1))-1 = j+1 /\ ~(j < i) /\ j - Len(x) = j-(i-1)
        BY <3>3, <2>2, <2>4
      <4>2. d[j] = y[j-(i-1)]
        BY <3>1, <4>1, <2>6
      <4>3. y[j-(i-1)] = list[j+1]
        BY <4>1, <2>5
      <4> QED BY <3>1, <4>1, <4>2, <4>3
    <3> QED BY <3>2, <3>3, <2>2
  <2>9. \A j, k \in 1..n-1 : j < k => g[j] < g[k]
    BY <2>2
  <2>10. g \in [1..n-1 -> 1..n]
    BY <2>2
  <2>11. \A k \in 1..n : k # i => \E j \in 1..n-1 : g[j] = k
    <3>1. ASSUME NEW k \in 1..n, k # i PROVE \E j \in 1..n-1 : g[j] = k
      <4>1. CASE k < i
        <5>1. k \in 1..n-1 /\ g[k] = k
          BY <4>1, <2>2
        <5> QED BY <5>1
      <4>2. CASE k > i
        <5>1. k-1 \in 1..n-1 /\ g[k-1] = k
          BY <4>2, <2>2
        <5> QED BY <5>1
      <4> QED BY <3>1, <4>1, <4>2, <2>2
    <3> QED BY <3>1
  <2>12. \A j \in 1..n-1 : g[j] # i
    BY <2>2
  <2> HIDE DEF g
  <2>13. KeyedList(d) /\ LeftOf(d, list, g)
    <3>1. g \in [1..Len(d) -> 1..Len(list)]
      BY <2>2, <2>7, <2>10
    <3>2. \A j \in 1..Len(d) : d[j] = list[g[j]]
      BY <2>7, <2>8
    <3>3. \A j, k \in 1..Len(d) : j < k => g[j] < g[k]
      BY <2>7, <2>9
    <3>4. LeftOf(d, list, g)
      BY <2>6, <3>1, <3>2, <3>3 DEF LeftOf
    <3> QED BY <3>4, PartIsKeyed
  <2>14. ASSUME NEW e \in Held(d) PROVE e \in Held(list) /\ e.key # key
    <3>1. PICK j \in 1..n-1 : e = d[j]
      BY <2>7 DEF Held
    <3> QED BY <3>1, <2>1, <2>8, <2>12 DEF Held
  <2>15. ASSUME NEW e \in Held(list), e.key # key PROVE e \in Held(d)
    <3>1. PICK k \in 1..n : e = list[k]
      BY DEF Held
    <3>2. k # i
      BY <3>1, <2>15, <2>1
    <3>3. PICK j \in 1..n-1 : g[j] = k
      BY <3>2, <2>11
    <3> QED BY <3>1, <3>3, <2>7, <2>8 DEF Held
  <2> QED BY <2>3, <2>13, <2>14, <2>15
<1> QED BY <1>1, <1>2

\* What insert_to_tail_file stores: a new entry, the count of which may have
\* been set.
Entry(key, value, count) == [key |-> key, value |-> value, timestamp |-> now, count |-> count]

\* What create_store_file creates is an entry with count 0 ...
LEMMA NewEntry ==
  ASSUME NEW key, NEW value
  PROVE  create_store_file(key, value, now) = Entry(key, value, 0)
  BY DEF create_store_file, Entry

\* ... and one with another count when the count is set.
LEMMA CountedEntry ==
  ASSUME NEW key, NEW value, NEW count
  PROVE  [create_store_file(key, value, now) EXCEPT !.count = count] = Entry(key, value, count)
  BY DEF create_store_file, Entry

\* insert_to_tail_file leaves one entry of the key, the new one.
LEMMA InsertHeld ==
  ASSUME NEW list, KeyedList(list), NEW key, NEW value, NEW count,
         NEW file, file = Entry(key, value, count)
  PROVE  /\ KeyedList(insert_to_tail_file(list, file, now))
         /\ Held(insert_to_tail_file(list, file, now))
              = {e \in Held(list) : e.key # key} \cup {Entry(key, value, count)}
<1> DEFINE e == Entry(key, value, count)
           d == delete_key(list, key)
           all == insert_to_tail_file(list, file, now)
<1>1. file = e
  OBVIOUS
<1>2. e.key = key /\ [e EXCEPT !.timestamp = now] = e
  BY DEF Entry
<1>3. all = Append(d, e)
  BY <1>1, <1>2 DEF insert_to_tail_file
<1>4. KeyedList(d) /\ Held(d) = {x \in Held(list) : x.key # key}
  BY DeleteHeld
<1> HIDE DEF d, e
<1>5. d \in Seq(Held(d) \cup {e})
  BY <1>4, SeqMonotonic DEF KeyedList
<1> HIDE DEF all
<1>6. /\ all \in Seq(Held(d) \cup {e}) /\ Len(all) = Len(d) + 1 /\ all[Len(d)+1] = e
      /\ \A i \in 1..Len(d) : all[i] = d[i]
  BY <1>3, <1>5, AppendProperties
<1>7. Len(d) \in Nat
  BY <1>5
<1>8. Held(all) = Held(d) \cup {e}
  <2>1. \A i \in 1..Len(all) : i \in 1..Len(d) \/ i = Len(d)+1
    BY <1>6, <1>7
  <2>2. (\A i \in 1..Len(d) : i \in 1..Len(all)) /\ Len(d)+1 \in 1..Len(all)
    BY <1>6, <1>7
  <2> QED BY <1>6, <2>1, <2>2 DEF Held
<1>9. KeyedList(all)
  <2>1. all \in Seq(Held(all))
    BY <1>6, <1>8
  <2>2. ASSUME NEW i \in 1..Len(all), NEW j \in 1..Len(all), all[i].key = all[j].key
        PROVE  i = j
    <3>1. \A k \in 1..Len(d) : d[k].key # key
      BY <1>4 DEF Held
    <3>2. /\ i \in 1..Len(d) \/ i = Len(d)+1
          /\ j \in 1..Len(d) \/ j = Len(d)+1
      BY <1>6, <1>7
    <3>3. CASE i \in 1..Len(d) /\ j \in 1..Len(d)
      BY <1>4, <1>6, <2>2, <3>3 DEF KeyedList
    <3> QED BY <1>2, <1>6, <2>2, <3>1, <3>2, <3>3
  <2> QED BY <2>1, <2>2 DEF KeyedList
<1> QED BY <1>4, <1>8, <1>9 DEF all, e

\* The new entry is the youngest.
LEMMA InsertByAge ==
  ASSUME NEW list, KeyedList(list), ByAge(now, list), NEW key, NEW value, NEW count,
         NEW file, file = Entry(key, value, count)
  PROVE  ByAge(now, insert_to_tail_file(list, file, now))
<1> DEFINE e == Entry(key, value, count)
           d == delete_key(list, key)
           all == insert_to_tail_file(list, file, now)
<1>1. e.key = key /\ e.timestamp = now /\ [e EXCEPT !.timestamp = now] = e
  BY DEF Entry
<1>2. all = Append(d, e)
  BY <1>1 DEF insert_to_tail_file
<1>3. KeyedList(d) /\ ByAge(now, d)
  BY DeleteHeld, PartIsByAge
<1> HIDE DEF d, e
<1>4. d \in Seq(Held(d) \cup {e}) /\ Len(d) \in Nat
  BY <1>3, SeqMonotonic DEF KeyedList
<1> HIDE DEF all
<1>5. /\ Len(all) = Len(d) + 1 /\ all[Len(d)+1] = e
      /\ \A i \in 1..Len(d) : all[i] = d[i]
  BY <1>2, <1>4, AppendProperties
<1>6. \A i \in 1..Len(all) : i \in 1..Len(d) \/ i = Len(d)+1
  BY <1>4, <1>5
<1>7. \A i \in 1..Len(all) : all[i].timestamp \in 0..now
  BY <1>1, <1>3, <1>5, <1>6 DEF ByAge
<1>8. ASSUME NEW i \in 1..Len(all), NEW j \in 1..Len(all), i < j
      PROVE  all[i].timestamp <= all[j].timestamp
  <2>1. i \in 1..Len(d)
    BY <1>4, <1>5, <1>8
  <2>2. CASE j \in 1..Len(d)
    BY <1>3, <1>5, <1>8, <2>1, <2>2 DEF ByAge
  <2>3. CASE j = Len(d)+1
    BY <1>1, <1>3, <1>5, <2>1, <2>3 DEF ByAge
  <2> QED BY <1>6, <2>2, <2>3
<1> QED BY <1>3, <1>7, <1>8 DEF ByAge, all

\* clean drops entries that are older than age and changes none.
LEMMA CleanHeld ==
  ASSUME NEW list, KeyedList(list), NEW age
  PROVE  /\ KeyedList(clean(list, age, now))
         /\ Held(clean(list, age, now)) \subseteq Held(list)
         /\ \A e \in Held(list) \ Held(clean(list, age, now)) : e.timestamp < now - age
         /\ \E g : LeftOf(clean(list, age, now), list, g)
         /\ clean(list, age, now) # <<>> => ~(clean(list, age, now)[1].timestamp < now - age)
<1> DEFINE old(i) == list[i].timestamp < now - age
           Cut(n) == /\ \A i \in 1..n : old(i)
                     /\ n < Len(list) => ~old(n+1)
           n == CHOOSE n \in 0..Len(list) : Cut(n)
           young == {i \in 1..Len(list) : ~old(i)}
<1>1. Len(list) \in Nat /\ list \in Seq(Held(list))
  BY DEF KeyedList
<1>2. \E k \in 0..Len(list) : Cut(k)
  <2>1. CASE young = {}
    <3>1. Cut(Len(list))
      BY <1>1, <2>1
    <3> QED BY <1>1, <3>1
  <2>2. CASE young # {}
    <3>1. young \in SUBSET Nat
      OBVIOUS
    <3>2. Min(young) \in young /\ \A k \in young : Min(young) <= k
      <4> HIDE DEF young
      <4> QED BY <2>2, <3>1, Minimum
    <3> DEFINE k == Min(young) - 1
    <3>3. k \in 0..Len(list) /\ k + 1 = Min(young)
      BY <1>1, <3>2
    <3>4. \A i \in 1..k : old(i)
      BY <1>1, <3>2
    <3>5. Cut(k)
      BY <3>2, <3>3, <3>4
    <3> QED BY <3>3, <3>5
  <2> QED BY <2>1, <2>2
<1>3. n \in 0..Len(list) /\ Cut(n)
  <2> HIDE DEF Cut
  <2> QED BY <1>2
<1> DEFINE rest == SubSeq(list, n+1, Len(list))
<1>4. clean(list, age, now) = rest
  BY DEF clean
<1> HIDE DEF n
<1>5. /\ rest \in Seq(Held(list)) /\ Len(rest) = Len(list) - n
      /\ \A k \in 1..Len(list)-n : rest[k] = list[n+1+k-1]
  <2>1. n+1 \in Nat /\ n+1 >= 1 /\ Len(list) <= Len(list) /\ n+1 <= Len(list)+1 /\ Len(list)-(n+1)+1 = Len(list)-n
    BY <1>1, <1>3
  <2> QED BY <1>1, <2>1, Part
<1> HIDE DEF rest
<1> DEFINE g == [k \in 1..Len(rest) |-> n+k]
<1>6. Len(rest) \in Nat /\ g \in [1..Len(rest) -> 1..Len(list)]
  BY <1>1, <1>3, <1>5
<1>7. \A k \in 1..Len(rest) : rest[k] = list[g[k]]
  BY <1>1, <1>3, <1>5
<1>8. \A j, k \in 1..Len(rest) : j < k => g[j] < g[k]
  BY <1>1, <1>3, <1>5
<1> HIDE DEF g
<1>9. KeyedList(rest) /\ \E f : LeftOf(rest, list, f)
  <2>1. LeftOf(rest, list, g)
    BY <1>5, <1>6, <1>7, <1>8 DEF LeftOf
  <2> QED BY <2>1, PartIsKeyed
<1>10. Held(rest) \subseteq Held(list)
  BY <1>5, HeldInSet
<1>11. ASSUME NEW e \in Held(list), e \notin Held(rest) PROVE e.timestamp < now - age
  <2>1. PICK i \in 1..Len(list) : e = list[i]
    BY DEF Held
  <2>2. CASE i <= n
    BY <1>1, <1>3, <2>1, <2>2
  <2>3. CASE i > n
    <3>1. i - n \in 1..Len(rest) /\ n + 1 + (i - n) - 1 = i
      BY <1>1, <1>3, <1>5, <2>3
    <3>2. rest[i - n] = list[i]
      BY <1>5, <3>1
    <3> QED BY <1>11, <2>1, <3>1, <3>2 DEF Held
  <2> QED BY <1>1, <1>3, <2>2, <2>3
<1>12. ASSUME rest # <<>> PROVE ~(rest[1].timestamp < now - age)
  <2>1. Len(rest) \in Nat \ {0}
    BY <1>5, <1>12
  <2>2. n < Len(list) /\ 1 \in 1..Len(list)-n /\ n+1+1-1 = n+1
    BY <1>1, <1>3, <1>5, <2>1
  <2>3. rest[1] = list[n+1]
    BY <1>5, <2>2
  <2> QED BY <1>3, <2>2, <2>3
<1> QED BY <1>4, <1>9, <1>10, <1>11, <1>12

\* In a list that is in the order of its stamps clean leaves nothing that is too old:
\* it stops at the first young entry, and those behind it are younger.
LEMMA CleanIsYoung ==
  ASSUME NEW list, KeyedList(list), ByAge(now, list), NEW age \in Nat
  PROVE  \A e \in Held(clean(list, age, now)) : now - e.timestamp <= age
<1> DEFINE rest == clean(list, age, now)
<1>1. KeyedList(rest) /\ ByAge(now, rest) /\ (rest # <<>> => ~(rest[1].timestamp < now - age))
  BY CleanHeld, PartIsByAge
<1> HIDE DEF rest
<1>2. ASSUME NEW i \in 1..Len(rest) PROVE now - rest[i].timestamp <= age
  <2>1. Len(rest) \in Nat /\ 1 \in 1..Len(rest) /\ rest # <<>>
    BY <1>1 DEF KeyedList
  <2>2. /\ now \in Nat /\ rest[1].timestamp \in 0..now /\ rest[i].timestamp \in 0..now
        /\ 1 < i => rest[1].timestamp <= rest[i].timestamp
    BY <1>1, <2>1 DEF ByAge
  <2>3. ~(rest[1].timestamp < now - age)
    BY <1>1, <2>1
  <2>4. CASE 1 < i
    BY <2>2, <2>3, <2>4
  <2>5. CASE i = 1
    BY <2>2, <2>3, <2>5
  <2> QED BY <2>1, <2>4, <2>5
<1> QED BY <1>2 DEF Held, rest

-----------------------------------------------------------------------------
(* The invariant of a machine.                                               *)
(*                                                                           *)
(* w is the world the machine works in: w.nodes are the identifiers of the   *)
(* machines, w.objects the objects [key, data] that clients have put,        *)
(* w.replied the [asker, node, key] of the find queries that were answered,  *)
(* and no stamp is later than w.time.                                        *)

IsWorld(w) ==
  /\ w.nodes \subseteq NodeId
  /\ w.time \in Nat
  /\ now \in Nat
  /\ now + PingPeriod <= w.time

\* Whom machine id can have for a contact.
Others(w, id) == w.nodes \ {id}

\* The transaction ids machine id has used when it has generated g.
Transaction(id, g) == {[id |-> id, nb |-> k] : k \in 1..g-1}

\* A query of machine id: what it keeps of it, or the message that carries it.
\* An object has the identifier of no machine.
IsQuery(w, id, g, v) ==
  /\ v.q \in {"ping", "find_node", "get", "put"}
  /\ v.q = "find_node" => v.target \in NodeId
  /\ v.q = "get" => v.token \in Transaction(id, g) /\ v.value \in NodeId \ w.nodes

\* msg carries the query that was kept as v.
Carries(v, msg) ==
  /\ msg.q = v.q
  /\ v.q = "find_node" => msg.target = v.target
  /\ v.q = "get" => msg.value = v.value

ObjectIn(w, key, data) == [key |-> key, data |-> data] \in w.objects
RepliedIn(w, id, node, key) == [asker |-> id, node |-> node, key |-> key] \in w.replied

\* The queries kept under the transaction ids they were sent with.
SentOK(w, id, g, sent) ==
  /\ KeyedList(sent)
  /\ \A e \in Held(sent) : e.key \in Transaction(id, g) /\ IsQuery(w, id, g, e.value)

\* The tokens of puts under way, with their data.
TokensOK(id, g, tokens) ==
  /\ KeyedList(tokens)
  /\ \A k \in Held(tokens) : k.key \in Transaction(id, g)

\* The token of a get that is part of a put belongs to the object of its key:
\* an answer to the get lets the data of the token go to the nodes that answered.
PairsOK(w, sent, tokens) ==
  \A e \in Held(sent), k \in Held(tokens) :
    e.value.q = "get" /\ e.value.token = k.key => ObjectIn(w, e.value.value, k.value)

StoredOK(w, stored) ==
  /\ KeyedList(stored)
  /\ \A e \in Held(stored) : ObjectIn(w, e.key, e.value)

WaitingOK(w, id, waiting) ==
  /\ KeyedList(waiting)
  /\ \A e \in Held(waiting) : e.key \in Others(w, id) /\ e.value \in Others(w, id)

\* Contacts to ask or asked in a lookup, and contacts that have answered for key.
Unanswered(w, id) == [nodeID : Others(w, id), count : 0..1, timestamp : 0..w.time]
Answered(w, id, key) ==
  {c \in [nodeID : Others(w, id), count : {2}, timestamp : 0..w.time] :
     RepliedIn(w, id, c.nodeID, key)}

IsSearch(w, id, key, list) ==
  Split(list, Unanswered(w, id), Answered(w, id, key), length_bucket, length_bucket)

SearchesOK(w, id, searches) ==
  /\ KeyedList(searches)
  /\ \A e \in Held(searches) :
       /\ DOMAIN e = {"key", "value", "timestamp", "count"}
       /\ e.key \in NodeId
       /\ IsSearch(w, id, e.key, e.value)

\* A query on its way: it goes to another machine, agrees with what is kept of
\* it, and gives away only data somebody has put to nodes that have answered.
QueryOK(w, id, g, sent, p) ==
  /\ p.msg.id = id
  /\ p.msg.t \in Transaction(id, g)
  /\ IsQuery(w, id, g, p.msg)
  /\ p.msg.q = "put" => ObjectIn(w, p.msg.value, p.msg.data) /\ RepliedIn(w, id, p.dst, p.msg.value)
  /\ \A e \in Held(sent) : e.key = p.msg.t => Carries(e.value, p.msg)

OutboxOK(w, id, g, sent, outbox) ==
  \A p \in outbox : /\ p.src = id /\ p.dst \in Others(w, id)
                    /\ p.msg.y \in {"q", "r", "e"}
                    /\ p.msg.y = "q" => QueryOK(w, id, g, sent, p)

Fields == {"id", "table", "stored_values", "latest_query_rpc", "store_find_queries",
           "sent_queries", "waiting_nodes", "token_sent", "token_rec", "generated",
           "alive", "outbox", "rpc_out"}

IsMachine(w, m) ==
  /\ DOMAIN m = Fields
  /\ m.id \in w.nodes /\ m.alive \in BOOLEAN /\ m.generated \in Nat \ {0}
  /\ DOMAIN m.latest_query_rpc = {"query", "value", "client"}
  /\ ~m.alive => m.stored_values = <<>>

TableOK(w, id, table) == IsTable(Others(w, id), w.time, table)

Sound(w, m) ==
  /\ IsMachine(w, m)
  /\ TableOK(w, m.id, m.table)
  /\ StoredOK(w, m.stored_values)
  /\ WaitingOK(w, m.id, m.waiting_nodes)
  /\ SearchesOK(w, m.id, m.store_find_queries)
  /\ SentOK(w, m.id, m.generated, m.sent_queries)
  /\ TokensOK(m.id, m.generated, m.token_sent)
  /\ PairsOK(w, m.sent_queries, m.token_sent)
  /\ OutboxOK(w, m.id, m.generated, m.sent_queries, m.outbox)

-----------------------------------------------------------------------------
(* What a step of a handler does.                                            *)

\* n is m after it generated transaction ids, forgot queries, and kept new ones
\* under new ids, behind the older ones.
Grows(m, n) ==
  /\ n.id = m.id
  /\ Transaction(m.id, m.generated) \subseteq Transaction(n.id, n.generated)
  /\ \A e \in Held(n.sent_queries) :
       e \in Held(m.sent_queries) \/ e.key \notin Transaction(m.id, m.generated)
  /\ ByAge(now, m.sent_queries) => ByAge(now, n.sent_queries)

\* ... and sent only queries.  The puts among them carry tokens of T.
Progress(T, m, n) ==
  /\ Grows(m, n)
  /\ \A p \in n.outbox : \/ p \in m.outbox
                         \/ p.msg.y = "q" /\ (p.msg.q = "put" => p.msg.token \in T)
  /\ n.rpc_out = m.rpc_out

\* n holds what m holds, the client that waits for a ping among it.
Keeps(m, n) ==
  /\ n.alive = m.alive
  /\ n.stored_values = m.stored_values
  /\ n.token_sent = m.token_sent
  /\ n.latest_query_rpc = m.latest_query_rpc

\* n has died and holds nothing.
Ended(n) ==
  /\ ~n.alive
  /\ n.stored_values = <<>>
  /\ n.token_sent = <<>>
  /\ n.latest_query_rpc.query = ""

\* A step in which only queries other than puts are sent.
Quiet(m, n) == Progress({}, m, n) /\ Keeps(m, n)

\* Steps that send only queries make one.
LEMMA ProgressIsTransitive ==
  ASSUME NEW T, NEW m1, NEW m2, NEW m3, Progress(T, m1, m2), Progress(T, m2, m3)
  PROVE  Progress(T, m1, m3)
  BY DEF Progress, Grows

-----------------------------------------------------------------------------
(* Changes of one field.                                                     *)

\* Another table changes nothing else, ...
LEMMA TableChanges ==
  ASSUME NEW w, NEW m, Sound(w, m), NEW table, TableOK(w, m.id, table)
  PROVE  Sound(w, [m EXCEPT !.table = table]) /\ Quiet(m, [m EXCEPT !.table = table])
<1> DEFINE n == [m EXCEPT !.table = table]
<1>1. Sound(w, n)
  BY DEF Sound, IsMachine, Fields
<1>2. Quiet(m, n)
  BY DEF Sound, IsMachine, Fields, Quiet, Progress, Grows, Keeps
<1> HIDE DEF n
<1> QED BY <1>1, <1>2 DEF n

\* ... nor do other lookups, ...
LEMMA SearchesChange ==
  ASSUME NEW w, NEW m, Sound(w, m), NEW searches, SearchesOK(w, m.id, searches)
  PROVE  /\ Sound(w, [m EXCEPT !.store_find_queries = searches])
         /\ Quiet(m, [m EXCEPT !.store_find_queries = searches])
<1> DEFINE n == [m EXCEPT !.store_find_queries = searches]
<1>1. Sound(w, n)
  BY DEF Sound, IsMachine, Fields
<1>2. Quiet(m, n)
  BY DEF Sound, IsMachine, Fields, Quiet, Progress, Grows, Keeps
<1> HIDE DEF n
<1> QED BY <1>1, <1>2 DEF n

\* ... other waiting nodes ...
LEMMA WaitingChanges ==
  ASSUME NEW w, NEW m, Sound(w, m), NEW waiting, WaitingOK(w, m.id, waiting)
  PROVE  /\ Sound(w, [m EXCEPT !.waiting_nodes = waiting])
         /\ Quiet(m, [m EXCEPT !.waiting_nodes = waiting])
<1> DEFINE n == [m EXCEPT !.waiting_nodes = waiting]
<1>1. Sound(w, n)
  BY DEF Sound, IsMachine, Fields
<1>2. Quiet(m, n)
  BY DEF Sound, IsMachine, Fields, Quiet, Progress, Grows, Keeps
<1> HIDE DEF n
<1> QED BY <1>1, <1>2 DEF n

\* ... or other tokens of peers.
LEMMA TokenRecChanges ==
  ASSUME NEW w, NEW m, Sound(w, m), NEW tokens
  PROVE  /\ Sound(w, [m EXCEPT !.token_rec = tokens])
         /\ Quiet(m, [m EXCEPT !.token_rec = tokens])
<1> DEFINE n == [m EXCEPT !.token_rec = tokens]
<1>1. Sound(w, n)
  BY DEF Sound, IsMachine, Fields
<1>2. Quiet(m, n)
  BY DEF Sound, IsMachine, Fields, Quiet, Progress, Grows, Keeps
<1> HIDE DEF n
<1> QED BY <1>1, <1>2 DEF n

\* Fewer queries are kept.
LEMMA SentShrinks ==
  ASSUME NEW w, NEW m, Sound(w, m), NEW sent, KeyedList(sent), Held(sent) \subseteq Held(m.sent_queries),
         NEW g, LeftOf(sent, m.sent_queries, g)
  PROVE  /\ Sound(w, [m EXCEPT !.sent_queries = sent])
         /\ Quiet(m, [m EXCEPT !.sent_queries = sent])
<1> DEFINE n == [m EXCEPT !.sent_queries = sent]
<1>1. /\ DOMAIN n = DOMAIN m /\ n.sent_queries = sent
      /\ \A f \in Fields \ {"sent_queries"} : n[f] = m[f]
  BY DEF Sound, IsMachine, Fields
<1>2. /\ SentOK(w, m.id, m.generated, sent)
      /\ PairsOK(w, sent, m.token_sent)
      /\ OutboxOK(w, m.id, m.generated, sent, m.outbox)
  BY DEF Sound, SentOK, PairsOK, OutboxOK, QueryOK
<1> HIDE DEF n
<1>3. Sound(w, n)
  BY <1>1, <1>2 DEF Sound, IsMachine, Fields
<1>4. ByAge(now, m.sent_queries) => ByAge(now, sent)
  BY PartIsByAge
<1>5. Quiet(m, n)
  BY <1>1, <1>4 DEF Quiet, Progress, Grows, Keeps, Fields
<1> QED BY <1>3, <1>5 DEF n

\* A put gives up its token.
LEMMA TokensShrink ==
  ASSUME NEW w, NEW m, Sound(w, m), NEW tokens, KeyedList(tokens), Held(tokens) \subseteq Held(m.token_sent)
  PROVE  Sound(w, [m EXCEPT !.token_sent = tokens])
<1> DEFINE n == [m EXCEPT !.token_sent = tokens]
<1>1. /\ DOMAIN n = DOMAIN m /\ n.token_sent = tokens
      /\ \A f \in Fields \ {"token_sent"} : n[f] = m[f]
  BY DEF Sound, IsMachine, Fields
<1>2. TokensOK(m.id, m.generated, tokens) /\ PairsOK(w, m.sent_queries, tokens)
  BY DEF Sound, TokensOK, PairsOK
<1> HIDE DEF n
<1>3. Sound(w, n)
  BY <1>1, <1>2 DEF Sound, IsMachine, Fields
<1> QED BY <1>3 DEF n

-----------------------------------------------------------------------------
(* Sending queries.                                                          *)

\* The transaction id that is generated next is new, and not the empty token.
LEMMA FreshTransaction ==
  ASSUME NEW id, NEW g \in Nat \ {0}
  PROVE  /\ [id |-> id, nb |-> g] \notin Transaction(id, g)
         /\ [id |-> id, nb |-> g] \in Transaction(id, g+1)
         /\ Transaction(id, g) \subseteq Transaction(id, g+1)
         /\ g+1 \in Nat \ {0}
<1> DEFINE t(k) == [id |-> id, nb |-> k]
<1>1. t(g) \notin Transaction(id, g)
  <2>1. \A k \in 1..g-1 : k # g
    OBVIOUS
  <2>2. \A k : t(k).nb = k
    OBVIOUS
  <2>3. \A k \in 1..g-1 : t(k) # t(g)
    BY <2>1, <2>2
  <2> QED BY <2>3 DEF Transaction
<1>2. t(g) \in Transaction(id, g+1)
  <2>1. g \in 1..(g+1)-1
    OBVIOUS
  <2> QED BY <2>1 DEF Transaction
<1>3. Transaction(id, g) \subseteq Transaction(id, g+1)
  <2>1. 1..g-1 \subseteq 1..(g+1)-1
    OBVIOUS
  <2> QED BY <2>1 DEF Transaction
<1>4. g+1 \in Nat \ {0}
  OBVIOUS
<1> QED BY <1>1, <1>2, <1>3, <1>4

\* A query has the members its handler reads and none of those every message has.
IsContent(v) ==
  /\ "q" \in DOMAIN v
  /\ "y" \notin DOMAIN v /\ "t" \notin DOMAIN v /\ "id" \notin DOMAIN v
  /\ v.q = "find_node" => "target" \in DOMAIN v
  /\ v.q = "get" => "token" \in DOMAIN v /\ "value" \in DOMAIN v
  /\ v.q = "put" => "token" \in DOMAIN v /\ "value" \in DOMAIN v /\ "data" \in DOMAIN v

\* A message has the content it is made of, and its header.
LEMMA WithHeader ==
  ASSUME NEW v, IsContent(v), NEW t, NEW id
  PROVE  LET msg == With(v, [y |-> "q", t |-> t, id |-> id])
         IN  /\ msg.y = "q" /\ msg.t = t /\ msg.id = id
             /\ \A x \in DOMAIN v : msg[x] = v[x]
  BY DEF With, IsContent

\* What may be sent: a get with the token of a put asks for the key of its
\* object, and a put gives its object to a node that has answered.
Sendable(w, m, dst, v) ==
  /\ IsContent(v)
  /\ IsQuery(w, m.id, m.generated, v)
  /\ v.q = "get" => \A k \in Held(m.token_sent) : k.key = v.token => ObjectIn(w, v.value, k.value)
  /\ v.q = "put" => ObjectIn(w, v.value, v.data) /\ RepliedIn(w, m.id, dst, v.value)

\* A query that is sent is kept under a new transaction id, which no query on its
\* way and no token of a put has.
LEMMA SendQuerySound ==
  ASSUME NEW w, NEW m, Sound(w, m), NEW dst \in Others(w, m.id), NEW v, Sendable(w, m, dst, v),
         NEW T, v.q = "put" => v.token \in T
  PROVE  /\ Sound(w, SendQuery(m, dst, v))
         /\ Progress(T, m, SendQuery(m, dst, v)) /\ Keeps(m, SendQuery(m, dst, v))
<1> DEFINE t   == generateTransactionId(m)
           msg == With(v, [y |-> "q", t |-> t, id |-> m.id])
           p   == [src |-> m.id, dst |-> dst, msg |-> msg]
           sent == insert_to_tail_file(m.sent_queries, create_store_file(t, v, now), now)
           n   == SendQuery(m, dst, v)
<1>1. /\ DOMAIN n = DOMAIN m
      /\ n.outbox = m.outbox \cup {p}
      /\ n.generated = m.generated + 1
      /\ n.sent_queries = sent
      /\ \A f \in Fields \ {"outbox", "generated", "sent_queries"} : n[f] = m[f]
  BY DEF SendQuery, kademSendMessage, Sound, IsMachine, Fields
<1>2. /\ msg.y = "q" /\ msg.t = t /\ msg.id = m.id
      /\ \A x \in DOMAIN v : msg[x] = v[x]
  BY WithHeader DEF Sendable
<1>3. /\ msg.q = v.q
      /\ v.q = "find_node" => msg.target = v.target
      /\ v.q = "get" => msg.token = v.token /\ msg.value = v.value
      /\ v.q = "put" => msg.token = v.token /\ msg.value = v.value /\ msg.data = v.data
  BY <1>2 DEF Sendable, IsContent
<1> DEFINE g == m.generated
<1>4. /\ t \notin Transaction(m.id, g) /\ t \in Transaction(m.id, g+1)
      /\ Transaction(m.id, g) \subseteq Transaction(m.id, g+1) /\ g+1 \in Nat \ {0}
  BY FreshTransaction DEF generateTransactionId, Sound, IsMachine
<1>5. /\ KeyedList(sent)
      /\ Held(sent) = {e \in Held(m.sent_queries) : e.key # t} \cup {Entry(t, v, 0)}
  BY InsertHeld, NewEntry DEF Sound, SentOK
<1>6. Entry(t, v, 0).key = t /\ Entry(t, v, 0).value = v
  BY DEF Entry
<1> HIDE DEF t, msg, sent, n
<1>7. p.src = m.id /\ p.dst = dst /\ p.msg = msg
  OBVIOUS
<1> HIDE DEF p
<1>8. \A e \in Held(sent) : e \in Held(m.sent_queries) \/ (e.key = t /\ e.value = v)
  BY <1>5, <1>6
<1> HIDE DEF g
<1>9. \A x : IsQuery(w, m.id, g, x) => IsQuery(w, m.id, g+1, x)
  BY <1>4 DEF IsQuery
<1>10. SentOK(w, m.id, g+1, sent)
  BY <1>4, <1>5, <1>8, <1>9 DEF SentOK, Sound, Sendable, g
<1>11. TokensOK(m.id, g+1, m.token_sent)
  BY <1>4 DEF TokensOK, Sound, g
<1>12. PairsOK(w, sent, m.token_sent)
  BY <1>8 DEF PairsOK, Sound, Sendable
<1>13. OutboxOK(w, m.id, g+1, sent, m.outbox \cup {p})
  <2>1. QueryOK(w, m.id, g+1, sent, p)
    <3>1. IsQuery(w, m.id, g+1, msg)
      BY <1>3, <1>9 DEF IsQuery, Sendable, g
    <3>2. \A e \in Held(sent) : e.key = t => Carries(e.value, msg)
      <4>1. \A e \in Held(m.sent_queries) : e.key # t
        BY <1>4 DEF Sound, SentOK, g
      <4> QED BY <1>3, <1>8, <4>1 DEF Carries
    <3> QED BY <1>2, <1>3, <1>4, <1>7, <3>1, <3>2 DEF QueryOK, Sendable
  <2>2. ASSUME NEW x \in m.outbox, x.msg.y = "q" PROVE QueryOK(w, m.id, g+1, sent, x)
    <3>1. QueryOK(w, m.id, g, m.sent_queries, x)
      BY <2>2 DEF Sound, OutboxOK, g
    <3>2. x.msg.t # t
      BY <1>4, <3>1 DEF QueryOK
    <3> QED BY <1>4, <1>8, <1>9, <3>1, <3>2 DEF QueryOK
  <2> QED BY <1>2, <1>7, <2>1, <2>2 DEF OutboxOK, Sound
<1>14. Sound(w, n)
  BY <1>1, <1>4, <1>10, <1>11, <1>12, <1>13 DEF Sound, IsMachine, Fields, g
<1>15. Progress(T, m, n)
  <2>1. ByAge(now, m.sent_queries) => ByAge(now, sent)
    BY InsertByAge, NewEntry DEF Sound, SentOK, sent
  <2> QED BY <1>1, <1>2, <1>3, <1>4, <1>7, <1>8, <2>1 DEF Progress, Grows, Fields, g
<1>16. Keeps(m, n)
  BY <1>1 DEF Keeps, Fields
<1> QED BY <1>14, <1>15, <1>16 DEF n

\* n is sound, and m after a step that sent puts with tokens of T, if any.
Works(w, T, m, n) == Sound(w, n) /\ Progress(T, m, n) /\ Keeps(m, n)

\* A machine that does nothing works ...
LEMMA WorksIsReflexive ==
  ASSUME NEW w, NEW T, NEW m, Sound(w, m)
  PROVE  Works(w, T, m, m)
  BY DEF Works, Progress, Grows, Keeps

\* ... and one that works twice works.
LEMMA WorksIsTransitive ==
  ASSUME NEW w, NEW T, NEW m1, NEW m2, NEW m3, Works(w, T, m1, m2), Works(w, T, m2, m3)
  PROVE  Works(w, T, m1, m3)
  BY ProgressIsTransitive DEF Works, Keeps

\* A machine sends a ping, ...
LEMMA PingSent ==
  ASSUME NEW w, NEW T, NEW m, Sound(w, m), NEW dst \in Others(w, m.id)
  PROVE  Works(w, T, m, kademPing(m, dst)) /\ kademPing(m, dst).table = m.table
<1> DEFINE v == [q |-> "ping"]
<1>1. Sendable(w, m, dst, v) /\ (v.q = "put" => v.token \in T)
  BY DEF Sendable, IsContent, IsQuery
<1>2. Works(w, T, m, SendQuery(m, dst, v))
  BY <1>1, SendQuerySound DEF Works
<1>3. SendQuery(m, dst, v).table = m.table
  BY DEF SendQuery, kademSendMessage, Sound, IsMachine, Fields
<1> QED BY <1>2, <1>3 DEF kademPing

\* ... a find_node, ...
LEMMA FindNodeSent ==
  ASSUME NEW w, NEW T, NEW m, Sound(w, m), NEW dst \in Others(w, m.id), NEW target \in NodeId
  PROVE  Works(w, T, m, kademFindNode(m, target, dst))
<1> DEFINE v == [q |-> "find_node", target |-> target]
<1>1. Sendable(w, m, dst, v) /\ (v.q = "put" => v.token \in T)
  BY DEF Sendable, IsContent, IsQuery
<1> QED BY <1>1, SendQuerySound DEF Works, kademFindNode

\* The token of a get, and the object of its key if the token is a put's.
TokenOK(w, m, token, value) ==
  /\ token \in Transaction(m.id, m.generated)
  /\ value \in NodeId \ w.nodes
  /\ \A k \in Held(m.token_sent) : k.key = token => ObjectIn(w, value, k.value)

\* A token stays one its key may go with, while the machine works.
LEMMA TokenStaysOK ==
  ASSUME NEW w, NEW T, NEW m, NEW n, Works(w, T, m, n), NEW token, NEW value, TokenOK(w, m, token, value)
  PROVE  TokenOK(w, n, token, value)
  BY DEF Works, Progress, Grows, Keeps, TokenOK

\* ... a get with a token its key may go with, ...
LEMMA FindValueSent ==
  ASSUME NEW w, NEW T, NEW m, Sound(w, m), NEW dst \in Others(w, m.id),
         NEW value, NEW token, TokenOK(w, m, token, value)
  PROVE  Works(w, T, m, kademFindValue(m, value, token, dst))
<1> DEFINE v == [q |-> "get", token |-> token, value |-> value]
<1>1. Sendable(w, m, dst, v) /\ (v.q = "put" => v.token \in T)
  BY DEF Sendable, IsContent, IsQuery, TokenOK
<1> QED BY <1>1, SendQuerySound DEF Works, kademFindValue

\* ... and a put, to a node that has answered a find query for the key.
LEMMA StoreValueSent ==
  ASSUME NEW w, NEW T, NEW m, Sound(w, m), NEW dst \in Others(w, m.id),
         NEW token \in T, NEW value, NEW data,
         ObjectIn(w, value, data), RepliedIn(w, m.id, dst, value)
  PROVE  Works(w, T, m, kademStoreValue(m, token, value, data, dst))
<1> DEFINE v == [q |-> "put", token |-> token, value |-> value, data |-> data]
<1>1. Sendable(w, m, dst, v) /\ (v.q = "put" => v.token \in T)
  BY DEF Sendable, IsContent, IsQuery
<1> QED BY <1>1, SendQuerySound DEF Works, kademStoreValue

-----------------------------------------------------------------------------
(* Maintenance. *)

\* RefreshBucket goes through the list of bucket b: what it keeps of machine m.
RefreshRound(b, w, m, s, i) == RefreshStep(b, s, i)
IsRefreshed(b, w, m, i, s) ==
  /\ s.at \in Nat \ {0}
  /\ Works(w, {}, m, s.m)

Refreshing == INSTANCE Loops WITH Step <- RefreshRound, Inv <- IsRefreshed

\* A contact that is pinged has been silent so long that its stamp is not in
\* the future afterwards.
LEMMA PingedContact ==
  ASSUME NEW w, IsWorld(w), NEW N, NEW node \in ContactOf(N, w.time), node.count # 2,
         ~(now - node.timestamp <= KADEM_TIMEOUT_REFRESH_DATA)
  PROVE  Pinged(node) \in ContactOf(N, w.time)
<1>1. /\ node.nodeID \in N /\ node.count \in 0..2 /\ node.timestamp \in 0..w.time
      /\ node = [nodeID |-> node.nodeID, count |-> node.count, timestamp |-> node.timestamp]
  BY DEF ContactOf
<1>2. now \in Nat /\ w.time \in Nat /\ now + PingPeriod <= w.time
      /\ KADEM_TIMEOUT_REFRESH_DATA \in Nat \ {0} /\ PingPeriod \in Nat \ {0}
  BY MachineAssumption DEF IsWorld
<1> DEFINE counted == [node EXCEPT !.count = node.count + 1]
<1>3. Pinged(node) = [counted EXCEPT !.timestamp = node.timestamp + PingPeriod]
  BY <1>1 DEF Pinged
<1>4. counted \in ContactOf(N, w.time)
  BY <1>1 DEF ContactOf
<1>5. node.timestamp + PingPeriod \in 0..w.time
  BY <1>1, <1>2
<1> HIDE DEF counted
<1>6. [counted EXCEPT !.timestamp = node.timestamp + PingPeriod] \in ContactOf(N, w.time)
  BY <1>4, <1>5 DEF ContactOf
<1> QED BY <1>3, <1>6

\* Another bucket changes nothing else.
LEMMA BucketChanges ==
  ASSUME NEW w, NEW m, Sound(w, m), NEW b \in Buckets,
         NEW list, IsBucket(Others(w, m.id), w.time, list)
  PROVE  Works(w, {}, m, [m EXCEPT !.table = [m.table EXCEPT ![b] = list]])
<1>1. TableOK(w, m.id, [m.table EXCEPT ![b] = list])
  BY DEF Sound, TableOK, IsTable, Buckets
<1> QED BY <1>1, TableChanges DEF Works, Quiet

\* A round of the refresh of a bucket: a contact is left, pinged or dropped.
LEMMA RefreshStepSound ==
  ASSUME NEW w, IsWorld(w), NEW m, NEW b \in Buckets, NEW s, NEW i, IsRefreshed(b, w, m, i-1, s)
  PROVE  IsRefreshed(b, w, m, i, RefreshRound(b, w, m, s, i))
<1> DEFINE list == s.m.table[b]
           node == list[s.at]
           drop == DropAndAdvance(list, s.at)
           dropped == [s.m EXCEPT !.table[b] = drop.list]
           pinging == kademPing(s.m, node.nodeID)
           pinged == [pinging EXCEPT !.table[b][s.at] = Pinged(@)]
           N == Others(w, s.m.id)
<1>1. /\ s.at \in Nat \ {0} /\ Sound(w, s.m) /\ Works(w, {}, m, s.m)
      /\ IsBucket(N, w.time, list)
  BY DEF IsRefreshed, Works, Sound, TableOK, IsTable, Buckets
<1>2. list \in Seq(ContactOf(N, w.time)) /\ Len(list) \in Nat
  BY <1>1 DEF IsBucket
<1>3. ASSUME s.at <= Len(list) PROVE node \in ContactOf(N, w.time)
  BY <1>1, <1>2, <1>3
<1>4. /\ drop.at \in Nat \ {0}
      /\ IsBucket(N, w.time, drop.list)
  BY <1>1, CursorAdvances, DropKeepsBucket
<1>5. Works(w, {}, m, dropped)
  <2> HIDE DEF drop
  <2>1. dropped = [s.m EXCEPT !.table = [s.m.table EXCEPT ![b] = drop.list]]
    BY <1>1 DEF Sound, IsMachine, Fields
  <2>2. Works(w, {}, s.m, dropped)
    BY <1>1, <1>4, <2>1, BucketChanges
  <2> QED BY <1>1, <2>2, WorksIsTransitive
<1>6. ASSUME s.at <= Len(list), node.count # 2,
             ~(now - node.timestamp <= KADEM_TIMEOUT_REFRESH_DATA)
      PROVE  Works(w, {}, m, pinged)
  <2>1. Pinged(node) \in ContactOf(N, w.time)
    BY <1>3, <1>6, PingedContact
  <2>2. node.nodeID \in N
    BY <1>3, <1>6 DEF ContactOf
  <2>3. Works(w, {}, s.m, pinging) /\ pinging.table = s.m.table
    BY <1>1, <2>2, PingSent
  <2>4. Sound(w, pinging) /\ pinging.id = s.m.id
    BY <2>3 DEF Works, Progress, Grows
  <2> DEFINE longer == [list EXCEPT ![s.at] = Pinged(node)]
  <2>5. IsBucket(N, w.time, longer)
    <3>1. s.at \in 1..Len(list)
      BY <1>1, <1>2, <1>6
    <3>2. longer \in Seq(ContactOf(N, w.time)) /\ Len(longer) = Len(list)
      BY <1>2, <2>1, <3>1, ExceptSeq
    <3> HIDE DEF longer
    <3> QED BY <1>1, <3>2 DEF IsBucket
  <2> HIDE DEF pinging
  <2>6. pinged = [pinging EXCEPT !.table = [pinging.table EXCEPT ![b] = longer]]
    BY <2>3, <2>4 DEF Sound, IsMachine, Fields
  <2>7. Works(w, {}, pinging, pinged)
    BY <2>4, <2>5, <2>6, BucketChanges
  <2>8. Works(w, {}, s.m, pinged)
    BY <2>3, <2>7, WorksIsTransitive
  <2> QED BY <1>1, <2>8, WorksIsTransitive
<1>7. RefreshRound(b, w, m, s, i) \in
        {s, [m |-> dropped, at |-> drop.at]}
      \/ /\ s.at <= Len(list) /\ node.count # 2
         /\ ~(now - node.timestamp <= KADEM_TIMEOUT_REFRESH_DATA)
         /\ RefreshRound(b, w, m, s, i) = [m |-> pinged, at |-> s.at + 1]
  <2>1. s.at > Len(list) \/ s.at <= Len(list)
    BY <1>1, <1>2
  <2> QED BY <2>1 DEF RefreshRound, RefreshStep
<1> HIDE DEF list, node, drop, dropped, pinging, pinged
<1>8. CASE RefreshRound(b, w, m, s, i) \in {s, [m |-> dropped, at |-> drop.at]}
  BY <1>1, <1>4, <1>5, <1>8 DEF IsRefreshed
<1>9. CASE /\ s.at <= Len(list) /\ node.count # 2
           /\ ~(now - node.timestamp <= KADEM_TIMEOUT_REFRESH_DATA)
           /\ RefreshRound(b, w, m, s, i) = [m |-> pinged, at |-> s.at + 1]
  BY <1>1, <1>6, <1>9 DEF IsRefreshed
<1> QED BY <1>7, <1>8, <1>9

\* The refresh of a bucket (its cursor never leaves the list) only sends pings, ...
LEMMA RefreshBucketSound ==
  ASSUME NEW w, IsWorld(w), NEW m, Sound(w, m), NEW b \in Buckets
  PROVE  Works(w, {}, m, RefreshBucket(m, b))
<1> DEFINE list == m.table[b]
           order == [i \in DOMAIN list |-> i]
           base == [m |-> m, at |-> 1]
           n == Len(list)
<1>1. n \in Nat /\ DOMAIN list = 1..n
  BY DEF Sound, TableOK, IsTable, IsBucket, Buckets
<1>2. DOMAIN order = 1..n
  BY <1>1
<1>3. RefreshBucket(m, b) = Refreshing!Loop(b, w, m, base, order).m
  BY DEF RefreshBucket, FoldLeftDomain, FoldLeft, MapThenFoldSet, Max,
         Refreshing!FoldLeft, Refreshing!MapThenFoldSet, Refreshing!Max, Refreshing!Loop, RefreshRound
<1> HIDE DEF order
<1>4. IsRefreshed(b, w, m, 0, base)
  BY WorksIsReflexive DEF IsRefreshed
<1>5. \A i \in 1..n : \A s : IsRefreshed(b, w, m, i-1, s)
                       => IsRefreshed(b, w, m, i, RefreshRound(b, w, m, s, order[i]))
  BY RefreshStepSound DEF IsRefreshed, RefreshRound
<1> HIDE DEF base
<1>6. IsRefreshed(b, w, m, n, Refreshing!Loop(b, w, m, base, order))
  BY <1>1, <1>2, <1>4, <1>5, Refreshing!LoopInvariant
<1> QED BY <1>3, <1>6 DEF IsRefreshed

RefreshBucketRound(w, m, c, s, i) == RefreshBucket(s, i-1)
AllRefreshed(w, m, c, i, s) == Works(w, {}, m, s)

RefreshingAll == INSTANCE Loops WITH Step <- RefreshBucketRound, Inv <- AllRefreshed

\* ... and so does the refresh of all of them.
LEMMA RefreshBucketsSound ==
  ASSUME NEW w, IsWorld(w), NEW m, Sound(w, m)
  PROVE  Works(w, {}, m, RefreshBuckets(m))
<1> DEFINE order == [i \in 1..BITS |-> i]
<1>1. BITS \in Nat /\ DOMAIN order = 1..BITS /\ \A i \in 1..BITS : order[i] - 1 \in Buckets
  BY NodeDetailsAssumption DEF Buckets
<1>2. RefreshBuckets(m) = RefreshingAll!Loop(w, m, {}, m, order)
  BY DEF RefreshBuckets, FoldLeft, MapThenFoldSet, Max, RefreshingAll!FoldLeft,
         RefreshingAll!MapThenFoldSet, RefreshingAll!Max, RefreshingAll!Loop, RefreshBucketRound
<1> HIDE DEF order
<1>3. AllRefreshed(w, m, {}, 0, m)
  BY WorksIsReflexive DEF AllRefreshed
<1>4. ASSUME NEW i \in 1..BITS, NEW s, AllRefreshed(w, m, {}, i-1, s)
      PROVE  AllRefreshed(w, m, {}, i, RefreshBucketRound(w, m, {}, s, order[i]))
  <2>1. Sound(w, s) /\ Works(w, {}, m, s)
    BY <1>4 DEF AllRefreshed, Works
  <2>2. Works(w, {}, s, RefreshBucket(s, order[i]-1))
    BY <1>1, <2>1, RefreshBucketSound
  <2> QED BY <2>1, <2>2, WorksIsTransitive DEF AllRefreshed, RefreshBucketRound
<1>5. AllRefreshed(w, m, {}, BITS, RefreshingAll!Loop(w, m, {}, m, order))
  BY <1>1, <1>3, <1>4, RefreshingAll!LoopInvariant
<1> QED BY <1>2, <1>5 DEF AllRefreshed

-----------------------------------------------------------------------------
(* Death, and the sender of a message. *)

\* n is sound, and m after a step that m may have died of.
Risks(w, T, m, n) == Sound(w, n) /\ Progress(T, m, n) /\ (Keeps(m, n) \/ Ended(n))

\* What a machine may die of after it worked.
LEMMA WorksThenRisks ==
  ASSUME NEW w, NEW T, NEW m1, NEW m2, NEW m3, Works(w, T, m1, m2), Risks(w, T, m2, m3)
  PROVE  Risks(w, T, m1, m3)
  BY ProgressIsTransitive DEF Works, Risks, Keeps

\* A machine that works has survived.
LEMMA WorksIsRisk ==
  ASSUME NEW w, NEW T, NEW m, NEW n, Works(w, T, m, n)
  PROVE  Risks(w, T, m, n)
  BY DEF Works, Risks

\* A machine that has just been made is sound.
LEMMA EmptyMachine ==
  ASSUME NEW w, IsWorld(w), NEW id \in w.nodes, NEW g \in Nat \ {0}
  PROVE  Sound(w, NewMachine(id, g))
<1> DEFINE m == NewMachine(id, g)
<1>1. /\ DOMAIN m = Fields /\ m.id = id /\ m.generated = g /\ m.alive = TRUE
      /\ m.table = [b \in Buckets |-> <<>>]
      /\ m.stored_values = <<>> /\ m.store_find_queries = <<>> /\ m.sent_queries = <<>>
      /\ m.waiting_nodes = <<>> /\ m.token_sent = <<>> /\ m.outbox = {}
      /\ m.latest_query_rpc = [query |-> "", value |-> {}, client |-> NoClient]
  BY DEF NewMachine, Fields
<1> HIDE DEF m
<1>2. IsMachine(w, m)
  BY <1>1 DEF IsMachine
<1>3. TableOK(w, id, m.table)
  <2>1. IsBucket(Others(w, id), w.time, <<>>)
    BY EmptySeq, NodeDetailsAssumption DEF IsBucket
  <2> QED BY <1>1, <2>1 DEF TableOK, IsTable, Buckets
<1> QED
  BY <1>1, <1>2, <1>3, NothingHeld
  DEF m, Sound, StoredOK, WaitingOK, SearchesOK, SentOK, TokensOK, PairsOK, OutboxOK

\* A machine that dies holds nothing more, and what it has sent is sent.
LEMMA DeathIsSound ==
  ASSUME NEW w, IsWorld(w), NEW T, NEW m, Sound(w, m)
  PROVE  Risks(w, T, m, Die(m)) /\ Ended(Die(m))
<1> DEFINE n == Die(m)
           e == NewMachine(m.id, m.generated)
<1>1. /\ DOMAIN n = Fields /\ n.id = m.id /\ n.generated = m.generated /\ n.alive = FALSE
      /\ n.stored_values = <<>> /\ n.store_find_queries = <<>> /\ n.sent_queries = <<>>
      /\ n.waiting_nodes = <<>> /\ n.token_sent = <<>>
      /\ n.outbox = m.outbox /\ n.rpc_out = m.rpc_out
      /\ n.latest_query_rpc = [query |-> "", value |-> {}, client |-> NoClient]
      /\ n.latest_query_rpc.query = ""
  BY DEF NewMachine, Die, Fields
<1>2. n.table = e.table
  BY DEF NewMachine, Die
<1>3. Sound(w, e) /\ e.id = m.id
  <2>1. m.id \in w.nodes /\ m.generated \in Nat \ {0}
    BY DEF Sound, IsMachine
  <2> QED BY <2>1, EmptyMachine DEF NewMachine
<1> HIDE DEF n, e
<1>4. IsMachine(w, n)
  BY <1>1 DEF IsMachine, Sound
<1>5. TableOK(w, n.id, n.table)
  BY <1>1, <1>2, <1>3 DEF Sound
<1>6. OutboxOK(w, n.id, n.generated, n.sent_queries, n.outbox)
  BY <1>1, NothingHeld DEF Sound, OutboxOK, QueryOK
<1>7. Sound(w, n)
  BY <1>1, <1>4, <1>5, <1>6, NothingHeld
  DEF Sound, StoredOK, WaitingOK, SearchesOK, SentOK, TokensOK, PairsOK
<1>8. Progress(T, m, n)
  <2>1. ByAge(now, n.sent_queries)
    BY <1>1, NothingByAge DEF IsWorld
  <2> QED BY <1>1, <2>1, NothingHeld DEF Progress, Grows
<1>9. Ended(n)
  <2>1. ~n.alive
    BY <1>1
  <2> QED BY <1>1, <2>1 DEF Ended
<1> QED BY <1>7, <1>8, <1>9 DEF Risks, n

\* The node that waits for the place of the head of a bucket.
LEMMA WaiterAdded ==
  ASSUME NEW w, NEW m, Sound(w, m), NEW key \in Others(w, m.id), NEW id \in Others(w, m.id)
  PROVE  LET waiting == insert_to_tail_file(m.waiting_nodes, create_store_file(key, id, now), now)
         IN  Works(w, {}, m, [m EXCEPT !.waiting_nodes = waiting])
<1> DEFINE waiting == insert_to_tail_file(m.waiting_nodes, create_store_file(key, id, now), now)
<1>1. KeyedList(m.waiting_nodes)
  BY DEF Sound, WaitingOK
<1>2. /\ KeyedList(waiting)
      /\ Held(waiting) = {e \in Held(m.waiting_nodes) : e.key # key} \cup {Entry(key, id, 0)}
  BY <1>1, InsertHeld, NewEntry
<1> HIDE DEF waiting
<1>3. Entry(key, id, 0).key = key /\ Entry(key, id, 0).value = id
  BY DEF Entry
<1>4. WaitingOK(w, m.id, waiting)
  BY <1>2, <1>3 DEF WaitingOK, Sound
<1>5. Works(w, {}, m, [m EXCEPT !.waiting_nodes = waiting])
  BY <1>4, WaitingChanges DEF Works, Quiet
<1> QED BY <1>5 DEF waiting

\* A contact is inserted into its bucket, or waits for the answer of the head of it.
LEMMA ConsiderContactSound ==
  ASSUME NEW w, IsWorld(w), NEW m, Sound(w, m), NEW id \in Others(w, m.id)
  PROVE  Works(w, {}, m, ConsiderContact(m, id))
<1> DEFINE b    == find_node_details(m.id, id)
           head == m.table[b][1].nodeID
           waits == [m EXCEPT !.waiting_nodes =
                       insert_to_tail_file(m.waiting_nodes, create_store_file(head, id, now), now)]
           kept == [m EXCEPT !.table = insert_into_contact_table(m.table, m.id, id, now)]
<1>1. id # m.id /\ id \in NodeId /\ m.id \in NodeId /\ b \in Buckets
  BY BucketNumber DEF Others, IsWorld, Sound, IsMachine, Buckets
<1>2. IsBucket(Others(w, m.id), w.time, m.table[b])
  BY <1>1 DEF Sound, TableOK, IsTable, Buckets
<1>3. ASSUME ~Inserts(m.table, m.id, id) PROVE Works(w, {}, m, kademPing(waits, head))
  <2>1. ~(Len(m.table[b]) < length_bucket)
    BY <1>3 DEF Inserts
  <2> DEFINE list == m.table[b]
  <2>2. list \in Seq(ContactOf(Others(w, m.id), w.time)) /\ 1 \in 1..Len(list)
    BY <1>2, <2>1, NodeDetailsAssumption DEF IsBucket
  <2>3. head \in Others(w, m.id)
    <3>1. list[1] \in ContactOf(Others(w, m.id), w.time)
      BY <2>2
    <3> QED BY <3>1 DEF ContactOf
  <2> HIDE DEF head
  <2>4. Works(w, {}, m, waits)
    BY <2>3, WaiterAdded
  <2> HIDE DEF waits
  <2>5. Sound(w, waits) /\ waits.id = m.id
    BY <2>4 DEF Works, Progress, Grows
  <2>6. Works(w, {}, waits, kademPing(waits, head))
    BY <2>3, <2>5, PingSent
  <2> QED BY <2>4, <2>6, WorksIsTransitive
<1>4. Works(w, {}, m, kept)
  <2>1. IsTable(Others(w, m.id), w.time, insert_into_contact_table(m.table, m.id, id, now))
    <3>1. Others(w, m.id) \subseteq NodeId /\ w.time \in Nat /\ now \in 0..w.time
      BY MachineAssumption DEF IsWorld, Others
    <3>2. IsTable(Others(w, m.id), w.time, m.table)
      BY DEF Sound, TableOK
    <3> QED BY <1>1, <3>1, <3>2, InsertIntoTable
  <2> QED BY <2>1, TableChanges DEF TableOK, Works, Quiet
<1>5. \/ ConsiderContact(m, id) = kept
      \/ ~Inserts(m.table, m.id, id) /\ ConsiderContact(m, id) = kademPing(waits, head)
  BY <1>1 DEF ConsiderContact
<1> HIDE DEF kept, waits, head
<1> QED BY <1>3, <1>4, <1>5

\* A message as far as maintenance reads it.
IsHeader(w, id, msg) ==
  /\ msg.y \in {"q", "r", "e"}
  /\ msg.y # "e" => msg.id \in Others(w, id)

\* The sender of a message becomes a contact; a machine may die of the message.
LEMMA InsertSenderSound ==
  ASSUME NEW w, IsWorld(w), NEW m, Sound(w, m), NEW msg, IsHeader(w, m.id, msg)
  PROVE  Risks(w, {}, m, InsertSender(m, msg))
<1> DEFINE kept == msg.t \in Keys(m.sent_queries)
           ping == find_key(m.sent_queries, msg.t).value.q = "ping"
<1>1. CASE msg.y = "e"
  <2>1. InsertSender(m, msg) = m
    BY <1>1 DEF InsertSender
  <2> QED BY <2>1, WorksIsReflexive, WorksIsRisk
<1>2. CASE msg.y # "e" /\ kept /\ ping
  <2>1. InsertSender(m, msg) = m
    BY <1>2 DEF InsertSender
  <2> QED BY <2>1, WorksIsReflexive, WorksIsRisk
<1>3. CASE msg.y # "e" /\ kept /\ ~ping
  <2>1. InsertSender(m, msg) = ConsiderContact(m, msg.id)
    BY <1>3 DEF InsertSender
  <2> QED BY <1>3, <2>1, ConsiderContactSound, WorksIsRisk DEF IsHeader
<1>4. CASE msg.y = "q" /\ ~kept
  <2>1. InsertSender(m, msg) = ConsiderContact(m, msg.id)
    BY <1>4 DEF InsertSender
  <2> QED BY <1>4, <2>1, ConsiderContactSound, WorksIsRisk DEF IsHeader
<1>5. CASE msg.y = "r" /\ ~kept
  <2>1. InsertSender(m, msg) = Die(m)
    BY <1>5 DEF InsertSender
  <2> QED BY <2>1, DeathIsSound
<1> QED BY <1>1, <1>2, <1>3, <1>4, <1>5 DEF IsHeader

\* The places of waiting nodes: a round of InsertWaiting, and the table after it.
InsertRound(id, w, c, table, e) == InsertOverdue(id, table, e)
AreInserted(id, w, c, i, table) == TableOK(w, id, table)

Inserting == INSTANCE Loops WITH Step <- InsertRound, Inv <- AreInserted

\* A waiting node that takes the place of a silent head leaves the table a table.
LEMMA InsertOverdueSound ==
  ASSUME NEW w, IsWorld(w), NEW id \in w.nodes, NEW table, TableOK(w, id, table),
         NEW e, e.key \in Others(w, id), e.value \in Others(w, id)
  PROVE  TableOK(w, id, InsertOverdue(id, table, e))
<1> DEFINE b == find_node_details(id, e.key)
           list == delete_head_insert_tail(table[b], create_node_details(e.value, now), now)
           inserted == [table EXCEPT ![b] = list]
<1>1. b \in 0..BITS-1
  BY BucketNumber DEF Others, IsWorld
<1>2. IsBucket(Others(w, id), w.time, list)
  <2>1. w.time \in Nat /\ now \in 0..w.time
    BY MachineAssumption DEF IsWorld
  <2>2. IsBucket(Others(w, id), w.time, table[b])
    BY <1>1 DEF TableOK, IsTable
  <2> QED BY <2>1, <2>2, ReplaceHead
<1>3. InsertOverdue(id, table, e) \in {table, inserted}
  BY DEF InsertOverdue, Overdue
<1> HIDE DEF b, list
<1>4. TableOK(w, id, inserted)
  BY <1>1, <1>2 DEF TableOK, IsTable
<1> QED BY <1>3, <1>4

\* All the waiting nodes.
LEMMA InsertWaitingSound ==
  ASSUME NEW w, IsWorld(w), NEW m, Sound(w, m)
  PROVE  Works(w, {}, m, InsertWaiting(m))
<1> DEFINE list == m.waiting_nodes
           n == Len(list)
           table == Inserting!Loop(m.id, w, {}, m.table, list)
<1>1. /\ list \in Seq(Held(list)) /\ n \in Nat /\ DOMAIN list = 1..n
      /\ \A e \in Held(list) : e.key \in Others(w, m.id) /\ e.value \in Others(w, m.id)
      /\ m.id \in w.nodes
  BY DEF Sound, IsMachine, WaitingOK, KeyedList
<1>2. InsertWaiting(m) = [m EXCEPT !.table = table]
  BY DEF InsertWaiting, FoldLeft, MapThenFoldSet, Max, Inserting!FoldLeft,
         Inserting!MapThenFoldSet, Inserting!Max, Inserting!Loop, InsertRound
<1>3. AreInserted(m.id, w, {}, 0, m.table)
  BY DEF AreInserted, Sound
<1>4. ASSUME NEW i \in 1..n, NEW t, AreInserted(m.id, w, {}, i-1, t)
      PROVE  AreInserted(m.id, w, {}, i, InsertRound(m.id, w, {}, t, list[i]))
  <2>1. list[i] \in Held(list)
    BY DEF Held
  <2> QED BY <1>1, <1>4, <2>1, InsertOverdueSound DEF AreInserted, InsertRound
<1> HIDE DEF list
<1>5. AreInserted(m.id, w, {}, n, Inserting!Loop(m.id, w, {}, m.table, list))
  BY <1>1, <1>3, <1>4, Inserting!LoopInvariant
<1>6. TableOK(w, m.id, table)
  BY <1>5 DEF AreInserted
<1> HIDE DEF table
<1> QED BY <1>2, <1>6, TableChanges DEF Works, Quiet

\* PruneList goes through a lookup list: the list and the cursor.
PruneRound(A, B, c, s, i) == PruneStep(s, i)
IsPruned(A, B, c, i, s) ==
  /\ s = [list |-> s.list, at |-> s.at]
  /\ s.at \in Nat \ {0}
  /\ Split(s.list, A, B, length_bucket, length_bucket)

Pruning == INSTANCE Loops WITH Step <- PruneRound, Inv <- IsPruned

\* A round of the pruning of a lookup: a contact is left or dropped.
LEMMA PruneStepSound ==
  ASSUME NEW A, NEW B, NEW i, NEW s, IsPruned(A, B, {}, i-1, s)
  PROVE  IsPruned(A, B, {}, i, PruneStep(s, i))
<1> DEFINE drop == DropAndAdvance(s.list, s.at)
           next == [s EXCEPT !.at = s.at + 1]
<1>1. PruneStep(s, i) \in {s, drop, next}
  BY DEF PruneStep, IsPruned
<1>2. IsPruned(A, B, {}, i, s) /\ IsPruned(A, B, {}, i, next)
  BY DEF IsPruned
<1>3. IsPruned(A, B, {}, i, drop)
  <2>1. s.at \in Nat /\ drop.at \in Nat \ {0}
    BY CursorAdvances DEF IsPruned
  <2>2. PICK k \in 0..length_bucket : SplitAt(s.list, A, B, k, length_bucket)
    BY DEF IsPruned, Split
  <2>3. Split(drop.list, A, B, k, length_bucket)
    BY <2>2, DropKeepsSplit, NodeDetailsAssumption
  <2>4. 0..k \subseteq 0..length_bucket
    BY NodeDetailsAssumption
  <2>5. Split(drop.list, A, B, length_bucket, length_bucket)
    BY <2>3, <2>4 DEF Split
  <2>6. drop = [list |-> drop.list, at |-> drop.at]
    BY DEF DropAndAdvance
  <2> HIDE DEF drop
  <2> QED BY <2>1, <2>5, <2>6 DEF IsPruned
<1> HIDE DEF drop, next
<1> QED BY <1>1, <1>2, <1>3

\* A lookup list from which contacts are dropped stays one.
LEMMA PruneListSound ==
  ASSUME NEW A, NEW B, NEW list, Split(list, A, B, length_bucket, length_bucket)
  PROVE  Split(PruneList(list), A, B, length_bucket, length_bucket)
<1> DEFINE order == [i \in DOMAIN list |-> i]
           base == [list |-> list, at |-> 1]
           n == Len(list)
<1>1. n \in Nat /\ DOMAIN list = 1..n
  BY DEF Split, SplitAt
<1>2. DOMAIN order = 1..n
  BY <1>1
<1>3. PruneList(list) = Pruning!Loop(A, B, {}, base, order).list
  BY DEF PruneList, FoldLeftDomain, FoldLeft, MapThenFoldSet, Max,
         Pruning!FoldLeft, Pruning!MapThenFoldSet, Pruning!Max, Pruning!Loop, PruneRound
<1> HIDE DEF order
<1>4. IsPruned(A, B, {}, 0, base)
  BY DEF IsPruned
<1>5. \A i \in 1..n : \A s : IsPruned(A, B, {}, i-1, s)
                       => IsPruned(A, B, {}, i, PruneRound(A, B, {}, s, order[i]))
  <2>1. ASSUME NEW i \in 1..n, NEW s, IsPruned(A, B, {}, i-1, s)
        PROVE  IsPruned(A, B, {}, i, PruneStep(s, order[i]))
    <3>1. IsPruned(A, B, {}, order[i]-1, s)
      BY <2>1 DEF IsPruned
    <3>2. IsPruned(A, B, {}, order[i], PruneStep(s, order[i]))
      BY <3>1, PruneStepSound
    <3> QED BY <3>2 DEF IsPruned
  <2> QED BY <2>1 DEF PruneRound
<1> HIDE DEF base
<1>6. IsPruned(A, B, {}, n, Pruning!Loop(A, B, {}, base, order))
  BY <1>1, <1>2, <1>4, <1>5, Pruning!LoopInvariant
<1> QED BY <1>3, <1>6 DEF IsPruned

\* The searches with their lists pruned.
LEMMA SearchesPruned ==
  ASSUME NEW w, NEW id, NEW searches, SearchesOK(w, id, searches)
  PROVE  SearchesOK(w, id, PrunedSearches(searches))
<1> DEFINE pruned == PrunedSearches(searches)
           n == Len(searches)
<1>1. searches \in Seq(Held(searches)) /\ n \in Nat /\ DOMAIN searches = 1..n
  BY DEF SearchesOK, KeyedList
<1>2. ASSUME NEW i \in 1..n
      PROVE  /\ DOMAIN pruned[i] = {"key", "value", "timestamp", "count"}
             /\ pruned[i].key = searches[i].key
             /\ pruned[i].value = PruneList(searches[i].value)
             /\ pruned[i].key \in NodeId
             /\ IsSearch(w, id, searches[i].key, searches[i].value)
  <2>1. searches[i] \in Held(searches)
    BY DEF Held
  <2> QED BY <1>1, <2>1 DEF SearchesOK, PrunedSearches
<1>3. pruned \in Seq(Held(pruned)) /\ Len(pruned) = n
  <2>1. pruned \in Seq({pruned[i] : i \in 1..n}) /\ Len(pruned) = n
    BY <1>1 DEF PrunedSearches
  <2> QED BY <2>1 DEF Held
<1> HIDE DEF pruned
<1>4. KeyedList(pruned)
  BY <1>2, <1>3 DEF KeyedList, SearchesOK
<1>5. ASSUME NEW e \in Held(pruned)
      PROVE  /\ DOMAIN e = {"key", "value", "timestamp", "count"}
             /\ e.key \in NodeId /\ IsSearch(w, id, e.key, e.value)
  <2>1. PICK i \in 1..n : e = pruned[i]
    BY <1>3 DEF Held
  <2> QED BY <1>2, <2>1, PruneListSound DEF IsSearch
<1>6. SearchesOK(w, id, pruned)
  BY <1>4, <1>5 DEF SearchesOK
<1> QED BY <1>6 DEF pruned

\* The lists are cleaned: queries that are too old are forgotten, and nothing is sent.
LEMMA CleanListsSound ==
  ASSUME NEW w, NEW m, Sound(w, m)
  PROVE  Works(w, {}, m, CleanLists(m))
<1> DEFINE sent == clean(m.sent_queries, KADEM_TIMEOUT_REFRESH_QUERY, now)
           tokens == clean(m.token_rec, 5 * KADEM_TIMEOUT_PING, now)
           searches == PrunedSearches(m.store_find_queries)
           n1 == [m EXCEPT !.sent_queries = sent]
           n2 == [n1 EXCEPT !.token_rec = tokens]
           n3 == [n2 EXCEPT !.store_find_queries = searches]
<1>1. CleanLists(m) = n3
  BY DEF CleanLists
<1>2. KeyedList(sent) /\ Held(sent) \subseteq Held(m.sent_queries) /\ \E g : LeftOf(sent, m.sent_queries, g)
  BY CleanHeld DEF Sound, SentOK
<1>3. SearchesOK(w, m.id, searches)
  BY SearchesPruned DEF Sound
<1> HIDE DEF sent, tokens, searches
<1>4. Works(w, {}, m, n1)
  BY <1>2, SentShrinks DEF Works, Quiet
<1>5. Works(w, {}, n1, n2)
  BY <1>4, TokenRecChanges DEF Works, Quiet
<1>6. Works(w, {}, m, n2)
  <2> HIDE DEF n1, n2
  <2> QED BY <1>4, <1>5, WorksIsTransitive
<1>7. Works(w, {}, n2, n3)
  <2> HIDE DEF n1, n2
  <2>1. Sound(w, n2) /\ n2.id = m.id
    BY <1>6 DEF Works, Progress, Grows
  <2> QED BY <1>3, <2>1, SearchesChange DEF Works, Quiet
<1> HIDE DEF n1, n2, n3
<1>8. Works(w, {}, m, n3)
  BY <1>6, <1>7, WorksIsTransitive
<1> QED BY <1>1, <1>8

\* Maintenance keeps everything a machine holds, or it ends the machine.
LEMMA MaintenanceSound ==
  ASSUME NEW w, IsWorld(w), NEW m, Sound(w, m), NEW msg, IsHeader(w, m.id, msg), NEW garbage
  PROVE  Risks(w, {}, m, kademMaintenance(m, msg, garbage))
<1> DEFINE m1 == RefreshBuckets(m)
           m2 == InsertSender(m1, msg)
           m3 == FinishMaintenance(m2, garbage)
           fatal == garbage.wild /\ \E i \in 1..Len(m2.waiting_nodes) : Overdue(m2.waiting_nodes[i])
<1>1. Works(w, {}, m, m1)
  BY RefreshBucketsSound
<1> HIDE DEF m1
<1>2. Sound(w, m1) /\ m1.id = m.id
  BY <1>1 DEF Works, Progress, Grows
<1>3. Risks(w, {}, m1, m2)
  BY <1>2, InsertSenderSound
<1> HIDE DEF m2
<1>4. Risks(w, {}, m, m2)
  BY <1>1, <1>3, WorksThenRisks
<1>5. CASE ~m2.alive
  BY <1>4, <1>5 DEF FinishMaintenance, kademMaintenance, m1, m2
<1>6. CASE m2.alive /\ ~fatal
  <2>1. Works(w, {}, m2, InsertWaiting(m2))
    BY <1>4, InsertWaitingSound DEF Risks
  <2>2. Works(w, {}, InsertWaiting(m2), CleanLists(InsertWaiting(m2)))
    BY <2>1, CleanListsSound DEF Works
  <2>3. Works(w, {}, m2, m3)
    BY <1>6, <2>1, <2>2, WorksIsTransitive DEF FinishMaintenance
  <2> HIDE DEF m3
  <2>4. Risks(w, {}, m, m3)
    BY <1>4, <1>6, <2>3, ProgressIsTransitive DEF Works, Risks, Keeps, Ended
  <2> QED BY <2>4 DEF kademMaintenance, m1, m2, m3
<1>7. CASE m2.alive /\ fatal
  <2>1. m3 = Die(m2)
    BY <1>7 DEF FinishMaintenance
  <2>2. Risks(w, {}, m2, m3)
    BY <1>4, <2>1, DeathIsSound DEF Risks
  <2> HIDE DEF m3
  <2>3. Ended(m3)
    BY <1>4, <2>1, DeathIsSound DEF Risks
  <2>4. Risks(w, {}, m, m3)
    BY <1>4, <2>2, <2>3, ProgressIsTransitive DEF Risks
  <2> QED BY <2>4 DEF kademMaintenance, m1, m2, m3
<1> QED
  <2>1. m2.alive \in BOOLEAN
    BY <1>4 DEF Risks, Sound, IsMachine
  <2> HIDE DEF fatal
  <2> QED BY <1>5, <1>6, <1>7, <2>1

-----------------------------------------------------------------------------
(* Lookups. *)

\* A sequence has its elements for a type.
LEMMA ElementsType ==
  ASSUME NEW C, NEW s \in Seq(C), NEW A, \A i \in 1..Len(s) : s[i] \in A
  PROVE  s \in Seq(A)
<1>1. Len(s) \in Nat /\ s = [i \in 1..Len(s) |-> s[i]]
  OBVIOUS
<1> QED BY <1>1

\* The two parts of a split list are what CurrentNodes and ResultNodes find, ...
LEMMA SplitInParts ==
  ASSUME NEW A, \A c \in A : c.count \in 0..1, NEW B, \A c \in B : c.count = 2,
         NEW k, NEW q \in Nat, NEW list, SplitAt(list, A, B, k, q)
  PROVE  /\ CurrentNodes(list) \in Seq(A) /\ Len(CurrentNodes(list)) = k
         /\ ResultNodes(list) \in Seq(B) /\ Len(ResultNodes(list)) <= q
         /\ list = CurrentNodes(list) \o ResultNodes(list)
<1> DEFINE n == Len(list)
           places == {j \in 1..n : j = n \/ list[j+1].count >= 2}
<1>1. /\ list \in Seq(A \cup B) /\ n \in Nat /\ k \in 0..n /\ n - k <= q
      /\ \A i \in 1..k : list[i].count \in 0..1 /\ list[i] \in A
      /\ \A i \in k+1..n : list[i].count = 2 /\ list[i] \in B
  BY DEF SplitAt
<1> DEFINE current == CurrentNodes(list)
<1>2. ASSUME k = 0
      PROVE  current \in Seq(A) /\ Len(current) = k /\ \A i \in 1..k : current[i] = list[i]
  <2>1. list # <<>> => SplitPoint(list) \in k+1..n
    <3>1. ASSUME list # <<>> PROVE n \in places
      BY <1>1, <3>1
    <3>2. places \in SUBSET Nat
      OBVIOUS
    <3>3. ASSUME list # <<>> PROVE Min(places) \in places
      <4> HIDE DEF places
      <4> QED BY <3>1, <3>2, <3>3, Minimum
    <3> QED BY <1>2, <3>3 DEF SplitPoint
  <2>2. CurrentNodes(list) = <<>>
    BY <1>1, <2>1 DEF CurrentNodes
  <2> QED BY <1>2, <2>2, EmptySeq
<1>3. ASSUME k # 0
      PROVE  current \in Seq(A) /\ Len(current) = k /\ \A i \in 1..k : current[i] = list[i]
  <2>1. k \in places
    <3>1. k \in 1..n /\ (k = n \/ k+1 \in k+1..n)
      BY <1>1, <1>3
    <3>2. k = n \/ list[k+1].count = 2
      BY <1>1, <3>1
    <3> QED BY <3>1, <3>2
  <2>2. \A j \in places : j >= k
    <3>1. ASSUME NEW j \in 1..n, j < k PROVE j \notin places
      <4>1. j # n /\ j+1 \in 1..k
        BY <1>1, <3>1
      <4>2. list[j+1].count \in 0..1
        BY <1>1, <4>1
      <4>3. ~(list[j+1].count >= 2)
        BY <4>2
      <4> QED BY <4>1, <4>3
    <3> QED BY <1>1, <3>1
  <2>3. places \in SUBSET Nat
    OBVIOUS
  <2>4. SplitPoint(list) = k
    <3>1. places # {} /\ k \in Nat
      BY <1>1, <2>1
    <3>2. Min(places) \in places /\ \A j \in places : Min(places) <= j
      <4> HIDE DEF places
      <4> QED BY <2>3, <3>1, Minimum
    <3>3. Min(places) \in Nat /\ Min(places) >= k /\ Min(places) <= k
      BY <2>1, <2>2, <2>3, <3>2
    <3> QED BY <3>1, <3>3 DEF SplitPoint
  <2>5. list # <<>> /\ list[k].count # 2
    <3>1. k \in 1..k /\ n # 0
      BY <1>1, <1>3
    <3>2. list[k].count \in 0..1
      BY <1>1, <3>1
    <3> QED BY <3>1, <3>2
  <2>6. CurrentNodes(list) = SubSeq(list, 1, k)
    BY <2>4, <2>5 DEF CurrentNodes
  <2> DEFINE part == SubSeq(list, 1, k)
  <2>7. /\ part \in Seq(A \cup B) /\ Len(part) = k
        /\ \A i \in 1..k : part[i] = list[i]
    <3>1. /\ part \in Seq(A \cup B) /\ Len(part) = k-1+1
          /\ \A i \in 1..k-1+1 : part[i] = list[1+i-1]
      <4>1. k \in Nat /\ 1 \in Nat /\ 1 >= 1 /\ k <= Len(list) /\ 1 <= k+1
        BY <1>1
      <4> QED BY <1>1, <4>1, Part
    <3>2. k-1+1 = k /\ \A i \in 1..k : 1+i-1 = i
      BY <1>1
    <3> QED BY <3>1, <3>2
  <2> HIDE DEF part
  <2>8. part \in Seq(A)
    BY <1>1, <2>7, ElementsType
  <2> QED BY <2>6, <2>7, <2>8 DEF part
<1>4. current \in Seq(A) /\ Len(current) = k /\ \A i \in 1..k : current[i] = list[i]
  BY <1>2, <1>3
<1> DEFINE rest == SubSeq(list, k+1, n)
<1>5. ResultNodes(list) = rest
  BY <1>4 DEF ResultNodes
<1>6. /\ rest \in Seq(A \cup B) /\ Len(rest) = n-(k+1)+1
      /\ \A i \in 1..n-(k+1)+1 : rest[i] = list[k+1+i-1]
  <2>1. k+1 \in Nat /\ n \in Nat /\ k+1 >= 1 /\ n <= Len(list) /\ k+1 <= n+1
    BY <1>1
  <2> QED BY <1>1, <2>1, Part
<1>7. \A i \in 1..Len(rest) : k+1+i-1 \in k+1..n
  BY <1>1, <1>6
<1> HIDE DEF rest
<1>8. \A i \in 1..Len(rest) : rest[i] \in B
  BY <1>1, <1>6, <1>7
<1>9. rest \in Seq(B)
  BY <1>6, <1>8, ElementsType
<1>10. Len(rest) <= q
  BY <1>1, <1>6
<1> HIDE DEF current
<1>11. list = current \o rest
  <2>1. /\ current \in Seq(A \cup B) /\ rest \in Seq(A \cup B)
        /\ Len(current) = k /\ Len(rest) = n-k /\ k \in Nat /\ n \in Nat
    BY <1>1, <1>4, <1>6
  <2>2. /\ Len(current \o rest) = n
        /\ \A i \in 1..n : (current \o rest)[i] = IF i <= k THEN current[i] ELSE rest[i-k]
    BY <2>1
  <2>3. \A i \in 1..n : ~(i <= k) => rest[i-k] = list[i]
    <3>1. ASSUME NEW i \in 1..n, ~(i <= k) PROVE rest[i-k] = list[i]
      <4>1. i-k \in 1..n-(k+1)+1 /\ k+1+(i-k)-1 = i
        BY <1>1, <3>1
      <4> QED BY <1>6, <4>1
    <3> QED BY <3>1
  <2>4. \A i \in 1..n : i <= k => current[i] = list[i]
    BY <1>1, <1>4
  <2>5. current \o rest \in Seq(A \cup B)
    BY <2>1
  <2> QED BY <1>1, <2>2, <2>3, <2>4, <2>5, SeqEqual
<1> QED BY <1>4, <1>5, <1>9, <1>10, <1>11 DEF current

\* ... of so many contacts each.
LEMMA PartsOfSplit ==
  ASSUME NEW A, \A c \in A : c.count \in 0..1, NEW B, \A c \in B : c.count = 2,
         NEW k, NEW q \in Nat, NEW list, SplitAt(list, A, B, k, q)
  PROVE  /\ CurrentNodes(list) \in Seq(A) /\ Len(CurrentNodes(list)) = k
         /\ ResultNodes(list) \in Seq(B) /\ Len(ResultNodes(list)) <= q
<1>1. /\ CurrentNodes(list) \in Seq(A) /\ Len(CurrentNodes(list)) = k
      /\ ResultNodes(list) \in Seq(B) /\ Len(ResultNodes(list)) <= q
      /\ list = CurrentNodes(list) \o ResultNodes(list)
  BY SplitInParts
<1> QED BY <1>1

\* A contact that the lists of a lookup may hold.
LEMMA NewCandidate ==
  ASSUME NEW w, IsWorld(w), NEW id, NEW n \in Others(w, id)
  PROVE  /\ create_node_details(n, now) \in Unanswered(w, id)
         /\ \A key : RepliedIn(w, id, n, key) =>
              [create_node_details(n, now) EXCEPT !.count = 2] \in Answered(w, id, key)
<1>1. now \in 0..w.time
  BY MachineAssumption DEF IsWorld
<1>2. create_node_details(n, now) \in Unanswered(w, id)
  BY <1>1 DEF create_node_details, Unanswered
<1> DEFINE a == [create_node_details(n, now) EXCEPT !.count = 2]
<1>3. a = [nodeID |-> n, count |-> 2, timestamp |-> now]
  BY DEF create_node_details
<1> HIDE DEF a
<1>4. \A key : RepliedIn(w, id, n, key) => a \in Answered(w, id, key)
  BY <1>1, <1>3 DEF Answered
<1> QED BY <1>2, <1>4 DEF a

\* The parts of the list of a lookup: contacts to ask and contacts that answered.
LEMMA PartsOfSearch ==
  ASSUME NEW w, NEW id, NEW key, NEW list, IsSearch(w, id, key, list)
  PROVE  /\ CurrentNodes(list) \in Seq(Unanswered(w, id))
         /\ Len(CurrentNodes(list)) <= length_bucket
         /\ ResultNodes(list) \in Seq(Answered(w, id, key))
         /\ Len(ResultNodes(list)) <= length_bucket
<1> DEFINE A == Unanswered(w, id)
           B == Answered(w, id, key)
<1>1. PICK k \in 0..length_bucket : SplitAt(list, A, B, k, length_bucket)
  BY DEF IsSearch, Split
<1>2. /\ \A c \in A : c.count \in 0..1
      /\ \A c \in B : c.count = 2
      /\ length_bucket \in Nat
  BY NodeDetailsAssumption DEF Unanswered, Answered
<1> HIDE DEF A, B
<1>3. /\ CurrentNodes(list) \in Seq(A) /\ Len(CurrentNodes(list)) = k
      /\ ResultNodes(list) \in Seq(B) /\ Len(ResultNodes(list)) <= length_bucket
  BY <1>1, <1>2, PartsOfSplit
<1>4. k <= length_bucket
  BY <1>2
<1> QED BY <1>3, <1>4 DEF A, B

\* The answer of from takes its place among the results.
LEMMA WithAnswerSound ==
  ASSUME NEW w, IsWorld(w), NEW id, NEW find_query,
         IsSearch(w, id, find_query.key, find_query.value),
         NEW from \in Others(w, id), RepliedIn(w, id, from, find_query.key)
  PROVE  /\ WithAnswer(find_query, from) \in Seq(Answered(w, id, find_query.key))
         /\ Len(WithAnswer(find_query, from)) <= length_bucket
<1>1. [create_node_details(from, now) EXCEPT !.count = 2] \in Answered(w, id, find_query.key)
  BY NewCandidate
<1> QED BY <1>1, PartsOfSearch, InsertByDistance DEF WithAnswer

\* The contacts an answer names: a round of Candidates, and the list after it.
CandidateRound(at, key, results, list, id) == AddCandidate(at.m, key, results, list, id)
AreCandidates(at, key, results, i, list) ==
  list \in Seq(Unanswered(at.w, at.m.id)) /\ Len(list) <= length_bucket

Adding == INSTANCE Loops WITH Step <- CandidateRound, Inv <- AreCandidates

\* The contacts to ask after an answer: none is the machine itself.
LEMMA CandidatesSound ==
  ASSUME NEW w, IsWorld(w), NEW m, NEW find_query,
         IsSearch(w, m.id, find_query.key, find_query.value),
         NEW results, NEW nodes \in Seq(w.nodes), NEW from
  PROVE  /\ Candidates(m, find_query, results, nodes, from) \in Seq(Unanswered(w, m.id))
         /\ Len(Candidates(m, find_query, results, nodes, from)) <= length_bucket
<1> DEFINE at == [w |-> w, m |-> m]
           key == find_query.key
           base == delete_node(CurrentNodes(find_query.value), from)
           n == Len(nodes)
<1>1. n \in Nat /\ DOMAIN nodes = 1..n /\ at.w = w /\ at.m = m
  OBVIOUS
<1> HIDE DEF at
<1>2. Candidates(m, find_query, results, nodes, from) = Adding!Loop(at, key, results, base, nodes)
  BY <1>1 DEF Candidates, FoldLeft, MapThenFoldSet, Max, Adding!FoldLeft, Adding!MapThenFoldSet,
         Adding!Max, Adding!Loop, CandidateRound
<1>3. AreCandidates(at, key, results, 0, base)
  <2>1. base \in Seq(Unanswered(w, m.id)) /\ Len(base) <= Len(CurrentNodes(find_query.value))
    BY PartsOfSearch, DeleteNodeType
  <2>2. /\ Len(CurrentNodes(find_query.value)) \in Nat
        /\ Len(CurrentNodes(find_query.value)) <= length_bucket
    BY PartsOfSearch
  <2> HIDE DEF base
  <2>3. Len(base) \in Nat
    BY <2>1
  <2> QED BY <1>1, <2>1, <2>2, <2>3, NodeDetailsAssumption DEF AreCandidates
<1>4. ASSUME NEW i \in 1..n, NEW list, AreCandidates(at, key, results, i-1, list)
      PROVE  AreCandidates(at, key, results, i, CandidateRound(at, key, results, list, nodes[i]))
  <2>1. CASE nodes[i] \in Ids(list) \cup Ids(results) \cup {m.id}
    BY <1>1, <1>4, <2>1 DEF AreCandidates, CandidateRound, AddCandidate
  <2>2. CASE nodes[i] \notin Ids(list) \cup Ids(results) \cup {m.id}
    <3>1. nodes[i] \in Others(w, m.id)
      BY <2>2 DEF Others
    <3>2. create_node_details(nodes[i], now) \in Unanswered(w, m.id)
      BY <3>1, NewCandidate
    <3>3. CandidateRound(at, key, results, list, nodes[i])
            = insert_acc_distance(list, create_node_details(nodes[i], now), key)
      BY <1>1, <2>2 DEF CandidateRound, AddCandidate
    <3> QED BY <1>1, <1>4, <3>2, <3>3, InsertByDistance DEF AreCandidates
  <2> QED BY <2>1, <2>2
<1> HIDE DEF base
<1>5. AreCandidates(at, key, results, n, Adding!Loop(at, key, results, base, nodes))
  BY <1>1, <1>3, <1>4, Adding!LoopInvariant
<1> QED BY <1>1, <1>2, <1>5 DEF AreCandidates

\* Contacts that are marked as asked are contacts of the lookup still.
LEMMA MarkedSound ==
  ASSUME NEW w, NEW id, NEW current \in Seq(Unanswered(w, id))
  PROVE  Marked(current) \in Seq(Unanswered(w, id)) /\ Len(Marked(current)) = Len(current)
<1>1. Len(current) \in Nat /\ \A i \in 1..Len(current) : current[i] \in Unanswered(w, id)
  OBVIOUS
<1>2. \A c \in Unanswered(w, id) : [c EXCEPT !.count = 1] \in Unanswered(w, id)
  BY DEF Unanswered
<1> QED BY <1>1, <1>2 DEF Marked

\* The list a round stores.
LEMMA JoinedIsSearch ==
  ASSUME NEW w, NEW id, NEW key, NEW current \in Seq(Unanswered(w, id)), Len(current) <= length_bucket,
         NEW results \in Seq(Answered(w, id, key)), Len(results) <= length_bucket
  PROVE  IsSearch(w, id, key, Joined(current, results))
<1>1. Len(current) \in 0..length_bucket /\ length_bucket \in Nat
  BY NodeDetailsAssumption
<1>2. SplitAt(current \o results, Unanswered(w, id), Answered(w, id, key), Len(current), length_bucket)
  BY <1>1, JoinIsSplit
<1> QED BY <1>1, <1>2 DEF IsSearch, Split, Joined

\* A search is stored, in the place of one with the same key.
LEMMA SearchStored ==
  ASSUME NEW w, NEW m, Sound(w, m), NEW key \in NodeId, NEW list, IsSearch(w, m.id, key, list), NEW count
  PROVE  LET stored == [create_store_file(key, list, now) EXCEPT !.count = count]
             n == [m EXCEPT !.store_find_queries = insert_to_tail_file(@, stored, now)]
         IN  Works(w, {}, m, n) /\ key \in Keys(n.store_find_queries)
<1> DEFINE stored == [create_store_file(key, list, now) EXCEPT !.count = count]
           searches == insert_to_tail_file(m.store_find_queries, stored, now)
           n == [m EXCEPT !.store_find_queries = searches]
           e == Entry(key, list, count)
<1>0. stored = e
  BY CountedEntry
<1> HIDE DEF stored, e
<1>1. /\ KeyedList(searches)
      /\ Held(searches) = {x \in Held(m.store_find_queries) : x.key # key} \cup {e}
  BY <1>0, InsertHeld DEF Sound, SearchesOK, e
<1> HIDE DEF searches
<1>2. DOMAIN e = {"key", "value", "timestamp", "count"} /\ e.key = key /\ e.value = list
  BY DEF Entry, e
<1>3. SearchesOK(w, m.id, searches)
  BY <1>1, <1>2 DEF SearchesOK, Sound
<1>4. Works(w, {}, m, n)
  BY <1>3, SearchesChange DEF Works, Quiet
<1>5. key \in Keys(searches)
  BY <1>1, <1>2, KeysHeld
<1>6. n.store_find_queries = searches
  BY DEF Sound, IsMachine, Fields
<1> QED BY <1>4, <1>5, <1>6 DEF searches, stored

\* The requests of a round: a step, and the machine after it.
RequestRound(at, key, current, s, i) == RequestStep(key, at.token, current, s, i)
IsRequesting(at, key, current, i, s) == Works(at.w, {}, at.m, s)

Requesting == INSTANCE Loops WITH Step <- RequestRound, Inv <- IsRequesting

\* The token of a lookup: none, or one its key may go with.
LookupToken(w, m, token, key) == token = NoToken \/ TokenOK(w, m, token, key)

\* The queries of a round are sent to the contacts to ask.
LEMMA RequestsSent ==
  ASSUME NEW w, NEW m, Sound(w, m), NEW key \in NodeId, NEW token, LookupToken(w, m, token, key),
         NEW current \in Seq(Unanswered(w, m.id))
  PROVE  Works(w, {}, m, SendRequests(m, key, token, current))
<1> DEFINE at == [w |-> w, m |-> m, token |-> token]
           order == [i \in DOMAIN current |-> i]
           n == Len(current)
<1>1. n \in Nat /\ DOMAIN current = 1..n /\ at.w = w /\ at.m = m /\ at.token = token
  OBVIOUS
<1> HIDE DEF at
<1>2. DOMAIN order = 1..n
  BY <1>1
<1>3. SendRequests(m, key, token, current)
        = Requesting!Loop(at, key, current, m, order)
  BY <1>1 DEF SendRequests, FoldLeftDomain, FoldLeft, MapThenFoldSet, Max, Requesting!FoldLeft,
         Requesting!MapThenFoldSet, Requesting!Max, Requesting!Loop, RequestRound
<1> HIDE DEF order
<1>4. IsRequesting(at, key, current, 0, m)
  BY <1>1, WorksIsReflexive DEF IsRequesting
<1>5. ASSUME NEW i \in 1..n, NEW s, IsRequesting(at, key, current, i-1, s)
      PROVE  IsRequesting(at, key, current, i, RequestRound(at, key, current, s, order[i]))
  <2> DEFINE dst == current[1].nodeID
             sent == RequestRound(at, key, current, s, order[i])
  <2>1. Works(w, {}, m, s) /\ Sound(w, s) /\ s.id = m.id
    BY <1>1, <1>5 DEF IsRequesting, Works, Progress, Grows
  <2>2. dst \in Others(w, m.id)
    <3>1. 1 \in 1..n
      BY <1>1
    <3>2. current[1] \in Unanswered(w, m.id)
      BY <3>1
    <3> QED BY <3>2 DEF Unanswered
  <2>3. \/ sent \in {s, kademFindNode(s, key, dst)}
        \/ token # NoToken /\ sent = kademFindValue(s, key, token, dst)
    BY <1>1 DEF RequestRound, RequestStep
  <2>4. Works(w, {}, s, kademFindNode(s, key, dst))
    BY <2>1, <2>2, FindNodeSent
  <2>5. ASSUME token # NoToken PROVE Works(w, {}, s, kademFindValue(s, key, token, dst))
    <3>1. TokenOK(w, s, token, key)
      BY <2>1, <2>5, TokenStaysOK DEF LookupToken
    <3> QED BY <2>1, <2>2, <3>1, FindValueSent
  <2> HIDE DEF dst, sent
  <2>6. Works(w, {}, m, sent)
    BY <2>1, <2>3, <2>4, <2>5, WorksIsTransitive
  <2> QED BY <1>1, <2>6 DEF IsRequesting, sent
<1>6. IsRequesting(at, key, current, n, Requesting!Loop(at, key, current, m, order))
  BY <1>1, <1>2, <1>4, <1>5, Requesting!LoopInvariant
<1> QED BY <1>1, <1>3, <1>6 DEF IsRequesting

\* A round of a lookup is sent, and the lookup is kept, split as before.
LEMMA SendRoundSound ==
  ASSUME NEW w, NEW m, Sound(w, m), NEW token, NEW find_query, find_query.key \in NodeId,
         LookupToken(w, m, token, find_query.key),
         NEW current \in Seq(Unanswered(w, m.id)), Len(current) <= length_bucket,
         NEW results \in Seq(Answered(w, m.id, find_query.key)), Len(results) <= length_bucket,
         NEW garbage
  PROVE  LET round == SendRound(m, token, find_query, current, results, garbage)
         IN  Works(w, {}, m, round.m) /\ find_query.key \in Keys(round.m.store_find_queries)
<1> DEFINE key == find_query.key
           asked == SendRequests(m, key, token, current)
           list == Joined(Marked(current), results)
           stored == [create_store_file(key, list, now) EXCEPT !.count = garbage.count]
           n == [asked EXCEPT !.store_find_queries = insert_to_tail_file(@, stored, now)]
           round == SendRound(m, token, find_query, current, results, garbage)
<1>1. round.m = n
  BY DEF SendRound
<1>2. Works(w, {}, m, asked)
  BY RequestsSent
<1> HIDE DEF asked, round
<1>3. Sound(w, asked) /\ asked.id = m.id
  BY <1>2 DEF Works, Progress, Grows
<1>4. IsSearch(w, m.id, key, list)
  BY MarkedSound, JoinedIsSearch
<1> HIDE DEF list
<1>5. Works(w, {}, asked, n) /\ key \in Keys(n.store_find_queries)
  BY <1>3, <1>4, SearchStored
<1> HIDE DEF n
<1>6. Works(w, {}, m, n)
  BY <1>2, <1>5, WorksIsTransitive
<1> QED BY <1>1, <1>5, <1>6 DEF round

\* A round of a lookup after from answered with nodes.
LEMMA LookUpRoundSound ==
  ASSUME NEW w, IsWorld(w), NEW m, Sound(w, m), NEW find_query, find_query \in Held(m.store_find_queries),
         NEW token, LookupToken(w, m, token, find_query.key),
         NEW nodes \in Seq(w.nodes), NEW from \in Others(w, m.id),
         RepliedIn(w, m.id, from, find_query.key), NEW garbage
  PROVE  LET round == lookUpRound(m, token, find_query, nodes, from, garbage)
         IN  Works(w, {}, m, round.m) /\ find_query.key \in Keys(round.m.store_find_queries)
<1> DEFINE results == WithAnswer(find_query, from)
           current == Candidates(m, find_query, results, nodes, from)
<1>1. IsSearch(w, m.id, find_query.key, find_query.value) /\ find_query.key \in NodeId
  BY DEF Sound, SearchesOK
<1>2. results \in Seq(Answered(w, m.id, find_query.key)) /\ Len(results) <= length_bucket
  BY <1>1, WithAnswerSound
<1>3. current \in Seq(Unanswered(w, m.id)) /\ Len(current) <= length_bucket
  BY <1>1, CandidatesSound
<1>4. lookUpRound(m, token, find_query, nodes, from, garbage)
        = SendRound(m, token, find_query, current, results, garbage)
  BY DEF lookUpRound
<1> HIDE DEF results, current
<1> QED BY <1>1, <1>2, <1>3, <1>4, SendRoundSound

\* A search is given up.
LEMMA SearchDeleted ==
  ASSUME NEW w, NEW m, Sound(w, m), NEW key
  PROVE  Works(w, {}, m, DeleteFindQuery(m, key))
<1> DEFINE searches == delete_key(m.store_find_queries, key)
<1>1. KeyedList(searches) /\ Held(searches) \subseteq Held(m.store_find_queries)
  BY DeleteHeld DEF Sound, SearchesOK
<1>2. DeleteFindQuery(m, key) = [m EXCEPT !.store_find_queries = searches]
  BY DEF DeleteFindQuery
<1> HIDE DEF searches
<1>3. SearchesOK(w, m.id, searches)
  BY <1>1 DEF SearchesOK, Sound
<1> QED BY <1>2, <1>3, SearchesChange DEF Works, Quiet

\* A query is forgotten: nothing is kept under its transaction id.
LEMMA QueryForgotten ==
  ASSUME NEW w, NEW m, Sound(w, m), NEW t
  PROVE  Works(w, {}, m, ForgetQuery(m, t)) /\ t \notin Keys(ForgetQuery(m, t).sent_queries)
<1> DEFINE sent == delete_key(m.sent_queries, t)
<1>1. /\ KeyedList(sent) /\ Held(sent) = {e \in Held(m.sent_queries) : e.key # t}
      /\ \E g : LeftOf(sent, m.sent_queries, g)
  BY DeleteHeld DEF Sound, SentOK
<1>2. ForgetQuery(m, t) = [m EXCEPT !.sent_queries = sent]
  BY DEF ForgetQuery
<1> HIDE DEF sent
<1>3. Works(w, {}, m, ForgetQuery(m, t))
  BY <1>1, <1>2, SentShrinks DEF Works, Quiet
<1>4. ForgetQuery(m, t).sent_queries = sent
  BY <1>2 DEF Sound, IsMachine, Fields
<1>5. t \notin Keys(sent)
  BY <1>1, KeysHeld
<1> QED BY <1>3, <1>4, <1>5

-----------------------------------------------------------------------------
(* What a message does.                                                      *)

\* m and n differ in the fields of S at most.
SameBut(S, m, n) == DOMAIN n = DOMAIN m /\ \A f \in Fields \ S : n[f] = m[f]

\* Other objects change nothing else, ...
LEMMA StoredChanges ==
  ASSUME NEW w, NEW m, Sound(w, m), m.alive, NEW stored, StoredOK(w, stored)
  PROVE  LET n == [m EXCEPT !.stored_values = stored]
         IN  Sound(w, n) /\ SameBut({"stored_values"}, m, n) /\ n.stored_values = stored
<1> DEFINE n == [m EXCEPT !.stored_values = stored]
<1>1. SameBut({"stored_values"}, m, n) /\ n.stored_values = stored
  BY DEF Sound, IsMachine, Fields, SameBut
<1> HIDE DEF n
<1>2. Sound(w, n)
  BY <1>1 DEF Sound, IsMachine, Fields, SameBut
<1> QED BY <1>1, <1>2 DEF n

\* ... nor does another client to remember ...
LEMMA LatestChanges ==
  ASSUME NEW w, NEW m, Sound(w, m), NEW latest, DOMAIN latest = {"query", "value", "client"}
  PROVE  LET n == [m EXCEPT !.latest_query_rpc = latest]
         IN  Sound(w, n) /\ SameBut({"latest_query_rpc"}, m, n) /\ n.latest_query_rpc = latest
<1> DEFINE n == [m EXCEPT !.latest_query_rpc = latest]
<1>1. SameBut({"latest_query_rpc"}, m, n) /\ n.latest_query_rpc = latest
  BY DEF Sound, IsMachine, Fields, SameBut
<1> HIDE DEF n
<1>2. Sound(w, n)
  BY <1>1 DEF Sound, IsMachine, Fields, SameBut
<1> QED BY <1>1, <1>2 DEF n

\* ... or an answer to a client.
LEMMA ClientAnswered ==
  ASSUME NEW w, NEW m, Sound(w, m), NEW client, NEW answer
  PROVE  LET n == AnswerClient(m, client, answer)
         IN  /\ Sound(w, n) /\ SameBut({"rpc_out"}, m, n)
             /\ n.rpc_out = m.rpc_out \cup {[client |-> client, answer |-> answer]}
<1> DEFINE n == AnswerClient(m, client, answer)
<1>1. SameBut({"rpc_out"}, m, n) /\ n.rpc_out = m.rpc_out \cup {[client |-> client, answer |-> answer]}
  BY DEF Sound, IsMachine, Fields, SameBut, AnswerClient
<1> HIDE DEF n
<1>2. Sound(w, n)
  BY <1>1 DEF Sound, IsMachine, Fields, SameBut
<1> QED BY <1>1, <1>2 DEF n

\* What n holds is what m held, with data stored over what was under key.
HoldsNew(m, n, key, data) ==
  Held(n.stored_values) = {e \in Held(m.stored_values) : e.key # key} \cup {Entry(key, data, 0)}

\* An object is stored over what the machine held under its key.
LEMMA ObjectStored ==
  ASSUME NEW w, NEW m, Sound(w, m), m.alive, NEW key, NEW data, ObjectIn(w, key, data)
  PROVE  LET n == StoreLocally(m, key, data)
         IN  /\ Sound(w, n) /\ SameBut({"stored_values"}, m, n)
             /\ HoldsNew(m, n, key, data)
<1> DEFINE stored == insert_to_tail_file(m.stored_values, create_store_file(key, data, now), now)
<1>1. /\ KeyedList(stored)
      /\ Held(stored) = {e \in Held(m.stored_values) : e.key # key} \cup {Entry(key, data, 0)}
  BY InsertHeld, NewEntry DEF Sound, StoredOK
<1>2. StoreLocally(m, key, data) = [m EXCEPT !.stored_values = stored]
  BY DEF StoreLocally
<1> HIDE DEF stored
<1>3. Entry(key, data, 0).key = key /\ Entry(key, data, 0).value = data
  BY DEF Entry
<1>4. StoredOK(w, stored)
  BY <1>1, <1>3 DEF Sound, StoredOK
<1> QED BY <1>1, <1>2, <1>4, StoredChanges DEF HoldsNew

\* A message that goes to another machine and is not a query.
LEMMA MessageSent ==
  ASSUME NEW w, NEW m, Sound(w, m), NEW dst \in Others(w, m.id), NEW msg, msg.y \in {"r", "e"}
  PROVE  LET n == kademSendMessage(m, dst, msg)
         IN  /\ Sound(w, n) /\ SameBut({"outbox"}, m, n)
             /\ n.outbox = m.outbox \cup {[src |-> m.id, dst |-> dst, msg |-> msg]}
<1> DEFINE n == kademSendMessage(m, dst, msg)
           p == [src |-> m.id, dst |-> dst, msg |-> msg]
<1>1. SameBut({"outbox"}, m, n) /\ n.outbox = m.outbox \cup {p}
  BY DEF Sound, IsMachine, Fields, SameBut, kademSendMessage
<1>2. p.src = m.id /\ p.dst = dst /\ p.msg = msg
  OBVIOUS
<1> HIDE DEF n, p
<1>3. OutboxOK(w, m.id, m.generated, m.sent_queries, m.outbox \cup {p})
  BY <1>2 DEF Sound, OutboxOK
<1>4. Sound(w, n)
  BY <1>1, <1>3 DEF Sound, IsMachine, Fields, SameBut
<1> QED BY <1>1, <1>4 DEF n, p

\* The answer p of machine id to a query msg of src.
AnswersQuery(w, id, msg, src, p) ==
  /\ msg.y = "q"
  /\ p.src = id /\ p.dst = src
  /\ p.msg.y \in {"r", "e"}
  /\ p.msg.y = "r" =>
       /\ p.msg.t = msg.t /\ p.msg.id = id
       /\ msg.q = "find_node" => p.msg.nodes \in Seq(w.nodes)
       /\ msg.q = "get" => IF "value" \in DOMAIN p.msg THEN ObjectIn(w, msg.value, p.msg.data)
                           ELSE p.msg.nodes \in Seq(w.nodes)

\* What goes out while msg is handled: queries, of which the puts give up their
\* token, and the answer to msg.
Sending(w, m, n, msg, src) ==
  \A p \in n.outbox :
    \/ p \in m.outbox
    \/ /\ p.msg.y = "q"
       /\ p.msg.q = "put" =>
            p.msg.token \in Keys(m.token_sent) /\ p.msg.token \notin Keys(n.token_sent)
    \/ AnswersQuery(w, m.id, msg, src, p)

\* What becomes of the objects and of the local client: the machine ends; or
\* nothing happens to them; or an object is stored; or the client that waits for a
\* ping of the sender is told, by the answer to a ping that is still kept.
Stores(w, m, n) ==
  \E key, data : ObjectIn(w, key, data) /\ HoldsNew(m, n, key, data)
Tells(m, n, msg) ==
  /\ \E e \in Held(m.sent_queries) : e.key = msg.t /\ e.value.q = "ping"
  /\ m.latest_query_rpc.query = "ping" /\ m.latest_query_rpc.value = msg.id
  /\ n.latest_query_rpc.query # "ping"
  /\ n.rpc_out = m.rpc_out \cup {[client |-> m.latest_query_rpc.client, answer |-> OK]}
Effect(w, m, n, msg) ==
  \/ Ended(n) /\ n.rpc_out = m.rpc_out
  \/ n.alive = m.alive /\ n.rpc_out = m.rpc_out /\ n.stored_values = m.stored_values
  \/ n.alive = m.alive /\ n.rpc_out = m.rpc_out /\ Stores(w, m, n)
  \/ n.alive = m.alive /\ n.stored_values = m.stored_values /\ msg.y = "r" /\ Tells(m, n, msg)

\* The whole of it.
Outcome(w, m, n, msg, src) ==
  /\ Sound(w, n)
  /\ Grows(m, n)
  /\ Sending(w, m, n, msg, src)
  /\ Effect(w, m, n, msg)
  /\ n.latest_query_rpc = m.latest_query_rpc \/ n.latest_query_rpc.query # "ping"

\* A machine that risks its life gives up at most what a handler may.
LEMMA RiskIsOutcome ==
  ASSUME NEW w, NEW T, NEW m, NEW n, Risks(w, T, m, n), NEW msg, NEW src,
         \A t \in T : t \in Keys(m.token_sent) /\ t \notin Keys(n.token_sent)
  PROVE  Outcome(w, m, n, msg, src)
<1>1. Sending(w, m, n, msg, src)
  BY DEF Risks, Progress, Sending
<1>2. Effect(w, m, n, msg)
  BY DEF Risks, Progress, Keeps, Effect
<1>3. n.latest_query_rpc = m.latest_query_rpc \/ n.latest_query_rpc.query # "ping"
  BY DEF Risks, Keeps, Ended
<1> QED BY <1>1, <1>2, <1>3 DEF Outcome, Risks, Progress

\* A step in which no put is sent and nothing is stored, and after which the client
\* that waits for a ping may be forgotten.
Passes(m, n) ==
  /\ Progress({}, m, n)
  /\ n.alive = m.alive /\ n.stored_values = m.stored_values /\ n.token_sent = m.token_sent
  /\ n.latest_query_rpc = m.latest_query_rpc \/ n.latest_query_rpc.query # "ping"

\* A machine that works passes.
LEMMA WorkPasses ==
  ASSUME NEW w, NEW m, NEW n, Works(w, {}, m, n)
  PROVE  Passes(m, n)
  BY DEF Works, Keeps, Passes

\* One that passes twice passes, ...
LEMMA PassesIsTransitive ==
  ASSUME NEW m1, NEW m2, NEW m3, Passes(m1, m2), Passes(m2, m3)
  PROVE  Passes(m1, m3)
  BY ProgressIsTransitive DEF Passes

\* ... and has done no more than a handler may.
LEMMA PassIsOutcome ==
  ASSUME NEW w, NEW m, NEW n, Sound(w, n), Passes(m, n), NEW msg, NEW src
  PROVE  Outcome(w, m, n, msg, src)
<1>1. Sending(w, m, n, msg, src)
  BY DEF Passes, Progress, Sending
<1>2. Effect(w, m, n, msg)
  BY DEF Passes, Progress, Effect
<1> QED BY <1>1, <1>2 DEF Outcome, Passes, Progress

\* Steps before and after.
LEMMA PassThenOutcome ==
  ASSUME NEW w, NEW m1, NEW m2, NEW m3, NEW msg, NEW src,
         msg.y = "r" => msg.t \in Transaction(m1.id, m1.generated),
         Passes(m1, m2), Outcome(w, m2, m3, msg, src)
  PROVE  Outcome(w, m1, m3, msg, src)
<1>1. Grows(m1, m3)
  BY DEF Passes, Progress, Outcome, Grows
<1>2. Sending(w, m1, m3, msg, src)
  BY DEF Passes, Progress, Outcome, Sending, Grows
<1>3. Effect(w, m1, m3, msg)
  <2>1. ASSUME msg.y = "r", Tells(m2, m3, msg) PROVE Tells(m1, m3, msg)
    BY <2>1 DEF Passes, Progress, Grows, Tells
  <2>2. Stores(w, m2, m3) => Stores(w, m1, m3)
    BY DEF Passes, Progress, Stores, HoldsNew
  <2> QED BY <2>1, <2>2 DEF Passes, Progress, Outcome, Effect
<1>4. m3.latest_query_rpc = m1.latest_query_rpc \/ m3.latest_query_rpc.query # "ping"
  BY DEF Passes, Outcome
<1> QED BY <1>1, <1>2, <1>3, <1>4 DEF Outcome

\* A handler may send queries at its end.
LEMMA OutcomeThenWorks ==
  ASSUME NEW w, NEW m1, NEW m2, NEW m3, NEW msg, NEW src,
         Outcome(w, m1, m2, msg, src), Works(w, {}, m2, m3)
  PROVE  Outcome(w, m1, m3, msg, src)
<1>1. Sound(w, m3) /\ Progress({}, m2, m3) /\ Keeps(m2, m3)
  BY DEF Works
<1>2. Grows(m1, m3)
  BY <1>1 DEF Progress, Outcome, Grows
<1>3. Sending(w, m1, m3, msg, src)
  BY <1>1 DEF Progress, Keeps, Outcome, Sending
<1>4. Effect(w, m1, m3, msg)
  BY <1>1 DEF Progress, Keeps, Outcome, Effect, Stores, HoldsNew, Tells, Ended
<1>5. m3.latest_query_rpc = m1.latest_query_rpc \/ m3.latest_query_rpc.query # "ping"
  BY <1>1 DEF Keeps, Outcome
<1> QED BY <1>1, <1>2, <1>3, <1>4, <1>5 DEF Outcome

\* ... or die of it, unless a client has been told.
LEMMA OutcomeThenDeath ==
  ASSUME NEW w, IsWorld(w), NEW m, NEW n, NEW msg, NEW src, NEW garbage,
         Outcome(w, m, n, msg, src), n.rpc_out = m.rpc_out
  PROVE  Outcome(w, m, MayDie(n, garbage), msg, src)
<1> DEFINE k == Die(n)
<1>1. CASE ~garbage.wild
  BY <1>1 DEF MayDie
<1>2. CASE garbage.wild
  <2>1. Sound(w, k) /\ Grows(n, k) /\ Ended(k) /\ k.rpc_out = m.rpc_out /\ k.outbox = n.outbox
    BY DeathIsSound DEF Outcome, Risks, Progress, Die, NewMachine
  <2>2. MayDie(n, garbage) = k
    BY <1>2 DEF MayDie
  <2> HIDE DEF k
  <2>3. Grows(m, k)
    BY <2>1 DEF Outcome, Grows
  <2>4. Sending(w, m, k, msg, src)
    BY <2>1, NothingHeld, KeysHeld DEF Outcome, Sending, Ended
  <2>5. Effect(w, m, k, msg)
    BY <2>1 DEF Effect
  <2> QED BY <2>1, <2>2, <2>3, <2>4, <2>5 DEF Outcome, Ended
<1> QED BY <1>1, <1>2

-----------------------------------------------------------------------------
(* Queries of peers.                                                         *)

\* n is m after it sent the answer p to a query msg of src.
HasAnswered(w, m, n, p, msg, src, content) ==
  /\ Sound(w, n) /\ SameBut({"outbox"}, m, n)
  /\ n.outbox = m.outbox \cup {p}
  /\ p.src = m.id /\ p.dst = src
  /\ p.msg.y = "r" /\ p.msg.t = msg.t /\ p.msg.id = m.id
  /\ DOMAIN p.msg = DOMAIN content \cup {"y", "t", "id"}
  /\ \A x \in DOMAIN content : p.msg[x] = content[x]

\* The content of an answer has none of the members every message has.
LEMMA AnswerSent ==
  ASSUME NEW w, NEW m, Sound(w, m), NEW src \in Others(w, m.id), NEW msg, NEW content,
         "y" \notin DOMAIN content, "t" \notin DOMAIN content, "id" \notin DOMAIN content
  PROVE  \E p : HasAnswered(w, m, Answer(m, msg, src, content), p, msg, src, content)
<1> DEFINE header == [y |-> "r", t |-> msg.t, id |-> m.id]
           answer == With(content, header)
           p == [src |-> m.id, dst |-> src, msg |-> answer]
           n == Answer(m, msg, src, content)
<1>1. /\ answer.y = "r" /\ answer.t = msg.t /\ answer.id = m.id
      /\ DOMAIN answer = DOMAIN content \cup {"y", "t", "id"}
      /\ \A x \in DOMAIN content : answer[x] = content[x]
  BY DEF With
<1>2. n = kademSendMessage(m, src, answer)
  BY DEF Answer
<1> HIDE DEF answer, n
<1>3. Sound(w, n) /\ SameBut({"outbox"}, m, n) /\ n.outbox = m.outbox \cup {p}
  BY <1>1, <1>2, MessageSent
<1>4. p.src = m.id /\ p.dst = src /\ p.msg = answer
  OBVIOUS
<1> HIDE DEF p
<1>5. HasAnswered(w, m, n, p, msg, src, content)
  BY <1>1, <1>3, <1>4 DEF HasAnswered
<1> QED BY <1>5 DEF n

\* A message as its receiver gets it: who sent it, and what its query needs.
IsQueryOf(w, msg) ==
  /\ msg.q \in {"ping", "find_node", "get", "put"}
  /\ msg.q = "find_node" => msg.target \in NodeId
  /\ msg.q = "get" => msg.value \in NodeId \ w.nodes
  /\ msg.q = "put" => ObjectIn(w, msg.value, msg.data)

\* What an answer from src may hold when its query is kept as v.
Fits(w, id, src, v, msg) ==
  /\ v.q = "find_node" => msg.nodes \in Seq(w.nodes) /\ RepliedIn(w, id, src, v.target)
  /\ v.q = "get" => /\ RepliedIn(w, id, src, v.value)
                    /\ IF "value" \in DOMAIN msg THEN ObjectIn(w, v.value, msg.data)
                       ELSE msg.nodes \in Seq(w.nodes)

IsAnswerTo(w, m, msg, src) ==
  /\ msg.t \in Transaction(m.id, m.generated)
  /\ \A e \in Held(m.sent_queries) : e.key = msg.t => Fits(w, m.id, src, e.value, msg)

IsMessage(w, m, msg, src) ==
  /\ src \in Others(w, m.id)
  /\ msg.y \in {"q", "r", "e"}
  /\ msg.y # "e" => msg.id = src
  /\ msg.y = "q" => IsQueryOf(w, msg)
  /\ msg.y = "r" => IsAnswerTo(w, m, msg, src)

\* A message stays one the machine can receive, while it goes on.
LEMMA MessageStays ==
  ASSUME NEW w, NEW m, NEW n, Grows(m, n), NEW msg, NEW src, IsMessage(w, m, msg, src)
  PROVE  IsMessage(w, n, msg, src)
  BY DEF Grows, IsMessage, IsAnswerTo

\* The identifiers of a list of contacts.
LEMMA NodeStringsType ==
  ASSUME NEW N, NEW t, NEW list \in Seq(ContactOf(N, t))
  PROVE  NodeStrings(list) \in Seq(N)
<1>1. Len(list) \in Nat /\ \A i \in 1..Len(list) : list[i] \in ContactOf(N, t)
  OBVIOUS
<1>2. \A c \in ContactOf(N, t) : c.nodeID \in N
  BY DEF ContactOf
<1> QED BY <1>1, <1>2 DEF NodeStrings

\* The contacts a machine answers with are machines.
LEMMA NearestNodes ==
  ASSUME NEW w, IsWorld(w), NEW m, Sound(w, m), NEW key \in NodeId \ {m.id}
  PROVE  NodeStrings(Nearest(m, key)) \in Seq(w.nodes)
<1>1. /\ IsTable(Others(w, m.id), w.time, m.table) /\ now \in 0..w.time /\ w.time \in Nat
      /\ m.id \in NodeId /\ Others(w, m.id) \subseteq w.nodes
  BY MachineAssumption DEF IsWorld, Sound, IsMachine, TableOK, Others
<1>2. Nearest(m, key) \in Seq(ContactOf(Others(w, m.id), w.time))
  BY <1>1, NearestAreContacts DEF Nearest
<1>3. NodeStrings(Nearest(m, key)) \in Seq(Others(w, m.id))
  BY <1>2, NodeStringsType
<1> QED BY <1>1, <1>3, SeqMonotonic

\* An answer that is sent after nothing but lists of tokens or objects changed.
LEMMA AnswerIsOutcome ==
  ASSUME NEW w, NEW m, NEW k, NEW n, NEW p, NEW msg, NEW src,
         SameBut({"token_rec", "stored_values"}, m, k),
         k.stored_values = m.stored_values \/ Stores(w, m, k),
         NEW content, HasAnswered(w, k, n, p, msg, src, content),
         AnswersQuery(w, m.id, msg, src, p)
  PROVE  Outcome(w, m, n, msg, src)
<1>1. /\ \A f \in Fields \ {"token_rec", "stored_values", "outbox"} : n[f] = m[f]
      /\ n.outbox = m.outbox \cup {p} /\ n.stored_values = k.stored_values
      /\ Sound(w, n)
  BY DEF SameBut, Fields, HasAnswered
<1>2. Grows(m, n)
  BY <1>1 DEF Grows, Fields
<1>3. Sending(w, m, n, msg, src)
  BY <1>1 DEF Sending
<1>4. Effect(w, m, n, msg)
  BY <1>1 DEF Effect, Fields, Stores, HoldsNew
<1>5. n.latest_query_rpc = m.latest_query_rpc
  BY <1>1 DEF Fields
<1> QED BY <1>1, <1>2, <1>3, <1>4, <1>5 DEF Outcome

\* A ping is answered, ...
LEMMA PingServed ==
  ASSUME NEW w, NEW m, Sound(w, m), NEW src \in Others(w, m.id), NEW msg, msg.y = "q", msg.q = "ping"
  PROVE  Outcome(w, m, kademPong(m, msg, src), msg, src)
<1> DEFINE n == Answer(m, msg, src, NoContent)
<1>1. DOMAIN NoContent = {}
  BY DEF NoContent
<1>2. PICK p : HasAnswered(w, m, n, p, msg, src, NoContent)
  BY <1>1, AnswerSent
<1> HIDE DEF n
<1>3. AnswersQuery(w, m.id, msg, src, p)
  BY <1>2 DEF AnswersQuery, HasAnswered
<1>4. SameBut({"token_rec", "stored_values"}, m, m)
  BY DEF SameBut
<1> QED BY <1>2, <1>3, <1>4, AnswerIsOutcome DEF kademPong, n

\* ... a find_node is answered with contacts, ...
LEMMA FindNodeServed ==
  ASSUME NEW w, IsWorld(w), NEW m, Sound(w, m), NEW src \in Others(w, m.id),
         NEW msg, msg.y = "q", msg.q = "find_node", msg.target \in NodeId, NEW garbage
  PROVE  Outcome(w, m, kademHandleFindNode(m, msg, src, garbage), msg, src)
<1> DEFINE nodes == NodeStrings(Nearest(m, msg.target))
           content == [nodes |-> nodes]
           n == Answer(m, msg, src, content)
<1>1. CASE msg.target = m.id
  <2>1. Risks(w, {}, m, Die(m))
    BY DeathIsSound
  <2> QED BY <1>1, <2>1, RiskIsOutcome DEF kademHandleFindNode
<1>2. CASE msg.target # m.id
  <2>1. nodes \in Seq(w.nodes)
    BY <1>2, NearestNodes
  <2> HIDE DEF nodes
  <2>2. DOMAIN content = {"nodes"} /\ content["nodes"] = nodes
    OBVIOUS
  <2> HIDE DEF content
  <2>3. PICK p : HasAnswered(w, m, n, p, msg, src, content)
    BY <2>2, AnswerSent
  <2>4. p.msg.nodes = nodes
    BY <2>2, <2>3 DEF HasAnswered
  <2> HIDE DEF n
  <2>5. AnswersQuery(w, m.id, msg, src, p)
    BY <2>1, <2>3, <2>4 DEF AnswersQuery, HasAnswered
  <2>6. SameBut({"token_rec", "stored_values"}, m, m)
    BY DEF SameBut
  <2>7. Outcome(w, m, n, msg, src)
    BY <2>3, <2>5, <2>6, AnswerIsOutcome
  <2>8. n.rpc_out = m.rpc_out
    BY <2>3 DEF HasAnswered, SameBut, Fields
  <2>9. Outcome(w, m, MayDie(n, garbage), msg, src)
    BY <2>7, <2>8, OutcomeThenDeath
  <2> QED BY <1>2, <2>7, <2>9 DEF kademHandleFindNode, n, content, nodes
<1> QED BY <1>1, <1>2

\* ... a get with the object or with contacts, and its token is kept, ...
LEMMA FindValueServed ==
  ASSUME NEW w, IsWorld(w), NEW m, Sound(w, m), NEW src \in Others(w, m.id),
         NEW msg, msg.y = "q", msg.q = "get", msg.value \in NodeId \ w.nodes
  PROVE  Outcome(w, m, kademHandleFindValue(m, msg, src), msg, src)
<1>1. CASE msg.value \in Keys(m.stored_values)
  <2> DEFINE data == find_key(m.stored_values, msg.value).value
             content == [token |-> msg.token, value |-> msg.value, data |-> data]
             n == Answer(m, msg, src, content)
  <2>1. ObjectIn(w, msg.value, data)
    BY <1>1, FindHeld DEF Sound, StoredOK
  <2> HIDE DEF data
  <2>2. DOMAIN content = {"token", "value", "data"} /\ content["data"] = data
    OBVIOUS
  <2> HIDE DEF content
  <2>3. PICK p : HasAnswered(w, m, n, p, msg, src, content)
    BY <2>2, AnswerSent
  <2>4. p.msg.data = data /\ "value" \in DOMAIN p.msg
    BY <2>2, <2>3 DEF HasAnswered
  <2> HIDE DEF n
  <2>5. AnswersQuery(w, m.id, msg, src, p)
    BY <2>1, <2>3, <2>4 DEF AnswersQuery, HasAnswered
  <2>6. SameBut({"token_rec", "stored_values"}, m, m)
    BY DEF SameBut
  <2>7. Outcome(w, m, n, msg, src)
    BY <2>3, <2>5, <2>6, AnswerIsOutcome
  <2> QED BY <1>1, <2>7 DEF kademHandleFindValue, n, content, data
<1>2. CASE msg.value \notin Keys(m.stored_values)
  <2> DEFINE nodes == NodeStrings(Nearest(m, msg.value))
             content == [token |-> msg.token, nodes |-> nodes]
             tokens == insert_to_tail_file(m.token_rec, create_store_file(msg.token, {}, now), now)
             k == [m EXCEPT !.token_rec = tokens]
             n == Answer(k, msg, src, content)
  <2>1. nodes \in Seq(w.nodes)
    <3>1. msg.value \in NodeId \ {m.id}
      BY DEF Sound, IsMachine
    <3> QED BY <3>1, NearestNodes
  <2> HIDE DEF nodes, tokens
  <2>2. DOMAIN content = {"token", "nodes"} /\ content["nodes"] = nodes
    OBVIOUS
  <2> HIDE DEF content
  <2>3. Sound(w, k)
    BY TokenRecChanges
  <2>4. SameBut({"token_rec", "stored_values"}, m, k) /\ k.stored_values = m.stored_values /\ k.id = m.id
    BY DEF SameBut, Sound, IsMachine, Fields
  <2>5. kademHandleFindValue(m, msg, src) = n
    BY <1>2 DEF kademHandleFindValue, content, nodes, tokens
  <2> HIDE DEF k
  <2>6. PICK p : HasAnswered(w, k, n, p, msg, src, content)
    BY <2>2, <2>3, <2>4, AnswerSent
  <2>7. p.msg.nodes = nodes /\ "value" \notin DOMAIN p.msg
    BY <2>2, <2>6 DEF HasAnswered
  <2> HIDE DEF n
  <2>8. AnswersQuery(w, m.id, msg, src, p)
    BY <2>1, <2>4, <2>6, <2>7 DEF AnswersQuery, HasAnswered
  <2>9. Outcome(w, m, n, msg, src)
    BY <2>4, <2>6, <2>8, AnswerIsOutcome
  <2> QED BY <2>5, <2>9
<1> QED BY <1>1, <1>2

\* ... and a put stores its object if its token is known, and fails if not.
LEMMA StoreValueServed ==
  ASSUME NEW w, NEW m, Sound(w, m), m.alive, NEW src \in Others(w, m.id),
         NEW msg, msg.y = "q", msg.q = "put", ObjectIn(w, msg.value, msg.data)
  PROVE  Outcome(w, m, kademHandleStoreValue(m, msg, src), msg, src)
<1>1. CASE msg.token \in Keys(m.token_rec)
  <2> DEFINE k == StoreLocally(m, msg.value, msg.data)
             n == Answer(k, msg, src, NoContent)
  <2>1. DOMAIN NoContent = {}
    BY DEF NoContent
  <2>2. /\ Sound(w, k) /\ SameBut({"stored_values"}, m, k)
        /\ HoldsNew(m, k, msg.value, msg.data)
    BY ObjectStored
  <2> HIDE DEF k
  <2>3. SameBut({"token_rec", "stored_values"}, m, k) /\ k.id = m.id /\ Stores(w, m, k)
    BY <2>2 DEF SameBut, Fields, Stores
  <2>4. PICK p : HasAnswered(w, k, n, p, msg, src, NoContent)
    BY <2>1, <2>2, <2>3, AnswerSent
  <2> HIDE DEF n
  <2>5. AnswersQuery(w, m.id, msg, src, p)
    BY <2>3, <2>4 DEF AnswersQuery, HasAnswered
  <2>6. Outcome(w, m, n, msg, src)
    BY <2>3, <2>4, <2>5, AnswerIsOutcome
  <2> QED BY <1>1, <2>6 DEF kademHandleStoreValue, n, k
<1>2. CASE msg.token \notin Keys(m.token_rec)
  <2> DEFINE error == [y |-> "e", t |-> msg.t, code |-> "205"]
             n == kademSendMessage(m, src, error)
             p == [src |-> m.id, dst |-> src, msg |-> error]
  <2>1. error.y = "e"
    OBVIOUS
  <2> HIDE DEF error
  <2>2. Sound(w, n) /\ SameBut({"outbox"}, m, n) /\ n.outbox = m.outbox \cup {p}
    BY <2>1, MessageSent
  <2>3. AnswersQuery(w, m.id, msg, src, p)
    BY <2>1 DEF AnswersQuery
  <2> HIDE DEF n, p
  <2>4. \A f \in Fields \ {"outbox"} : n[f] = m[f]
    BY <2>2 DEF SameBut
  <2>5. Outcome(w, m, n, msg, src)
    BY <2>2, <2>3, <2>4 DEF Outcome, Grows, Sending, Effect, Fields
  <2> QED BY <1>2, <2>5 DEF kademHandleStoreValue, kademSendError, n, error
<1> QED BY <1>1, <1>2

\* Whatever a peer asks, the machine answers it, or a find_node ends the machine.
LEMMA QueryServed ==
  ASSUME NEW w, IsWorld(w), NEW m, Sound(w, m), m.alive, NEW src, NEW msg, msg.y = "q",
         IsMessage(w, m, msg, src), NEW garbage
  PROVE  Outcome(w, m, HandleQuery(m, msg, src, garbage), msg, src)
<1>1. src \in Others(w, m.id) /\ IsQueryOf(w, msg)
  BY DEF IsMessage
<1>2. CASE msg.q = "ping"
  BY <1>1, <1>2, PingServed DEF HandleQuery
<1>3. CASE msg.q = "put"
  BY <1>1, <1>3, StoreValueServed DEF HandleQuery, IsQueryOf
<1>4. CASE msg.q = "find_node"
  BY <1>1, <1>4, FindNodeServed DEF HandleQuery, IsQueryOf
<1>5. CASE msg.q = "get"
  BY <1>1, <1>5, FindValueServed DEF HandleQuery, IsQueryOf
<1> QED BY <1>1, <1>2, <1>3, <1>4, <1>5 DEF IsQueryOf

-----------------------------------------------------------------------------
(* Answers of peers.                                                         *)

\* The client that waits is forgotten: only the name of its request is changed.
LEMMA LatestOverwritten ==
  ASSUME NEW w, NEW m, Sound(w, m), NEW name, name # "ping"
  PROVE  LET n == OverwriteLatest(m, name)
         IN  /\ Sound(w, n) /\ SameBut({"latest_query_rpc"}, m, n) /\ Passes(m, n)
             /\ n.latest_query_rpc.query = name
<1> DEFINE latest == [m.latest_query_rpc EXCEPT !.query = name]
           n == [m EXCEPT !.latest_query_rpc = latest]
<1>1. DOMAIN latest = {"query", "value", "client"} /\ latest.query = name
  BY DEF Sound, IsMachine
<1>2. OverwriteLatest(m, name) = n
  BY DEF OverwriteLatest, Sound, IsMachine, Fields
<1> HIDE DEF latest
<1>3. Sound(w, n) /\ SameBut({"latest_query_rpc"}, m, n) /\ n.latest_query_rpc = latest
  BY <1>1, LatestChanges
<1> HIDE DEF n
<1>4. Passes(m, n)
  BY <1>1, <1>3 DEF Passes, Progress, Grows, SameBut, Fields
<1> QED BY <1>1, <1>2, <1>3, <1>4

\* A node that waits for a place in a bucket is forgotten.
LEMMA WaiterForgotten ==
  ASSUME NEW w, NEW m, Sound(w, m), NEW key
  PROVE  Works(w, {}, m, [m EXCEPT !.waiting_nodes = delete_key(@, key)])
<1> DEFINE waiting == delete_key(m.waiting_nodes, key)
<1>1. KeyedList(waiting) /\ Held(waiting) \subseteq Held(m.waiting_nodes)
  BY DeleteHeld DEF Sound, WaitingOK
<1> HIDE DEF waiting
<1>2. WaitingOK(w, m.id, waiting)
  BY <1>1 DEF WaitingOK, Sound
<1>3. Works(w, {}, m, [m EXCEPT !.waiting_nodes = waiting])
  BY <1>2, WaitingChanges DEF Works, Quiet
<1> QED BY <1>3 DEF waiting

\* The sender of an answer enters the table.
LEMMA SenderInserted ==
  ASSUME NEW w, IsWorld(w), NEW m, Sound(w, m), NEW id \in Others(w, m.id)
  PROVE  Works(w, {}, m, [m EXCEPT !.table = insert_into_contact_table(m.table, m.id, id, now)])
<1>1. /\ Others(w, m.id) \subseteq NodeId /\ w.time \in Nat /\ now \in 0..w.time
      /\ id # m.id /\ m.id \in NodeId
      /\ IsTable(Others(w, m.id), w.time, m.table)
  BY MachineAssumption DEF IsWorld, Others, Sound, IsMachine, TableOK
<1>2. IsTable(Others(w, m.id), w.time, insert_into_contact_table(m.table, m.id, id, now))
  BY <1>1, InsertIntoTable
<1> QED BY <1>2, TableChanges DEF TableOK, Works, Quiet

\* The answer to a ping: the sender stays a contact, the node that waits for its
\* place does not get it, and the client that waits is told.
LEMMA PongHandled ==
  ASSUME NEW w, IsWorld(w), NEW m, Sound(w, m), NEW src, NEW msg, msg.y = "r",
         msg.id \in Others(w, m.id),
         \E e \in Held(m.sent_queries) : e.key = msg.t /\ e.value.q = "ping"
  PROVE  Outcome(w, m, kademHandlePong(m, msg), msg, src)
<1> DEFINE table == insert_into_contact_table(m.table, m.id, msg.id, now)
           listed == [m EXCEPT !.table = table]
           waiting == delete_key(m.waiting_nodes, msg.id)
           kept == [listed EXCEPT !.waiting_nodes = waiting]
           latest == m.latest_query_rpc
           awaited == latest.query = "ping" /\ latest.value = msg.id
           cleared == OverwriteLatest(kept, "")
           told == AnswerClient(cleared, latest.client, OK)
<1>1. kademHandlePong(m, msg) = IF awaited THEN told ELSE kept
  BY DEF kademHandlePong, OverwriteLatest
<1>2. Works(w, {}, m, kept)
  <2>1. Works(w, {}, m, listed)
    BY SenderInserted
  <2>2. listed.waiting_nodes = m.waiting_nodes
    BY DEF Sound, IsMachine, Fields
  <2> HIDE DEF listed
  <2>3. Works(w, {}, listed, kept)
    BY <2>1, <2>2, WaiterForgotten DEF Works
  <2> HIDE DEF kept
  <2> QED BY <2>1, <2>3, WorksIsTransitive
<1> HIDE DEF kept
<1>3. Outcome(w, m, kept, msg, src)
  BY <1>2, WorkPasses, PassIsOutcome DEF Works
<1>4. ASSUME awaited PROVE Outcome(w, m, told, msg, src)
  <2>1. /\ Sound(w, cleared) /\ SameBut({"latest_query_rpc"}, kept, cleared)
        /\ cleared.latest_query_rpc.query = ""
    <3>1. Sound(w, kept)
      BY <1>2 DEF Works
    <3> QED BY ONLY <3>1, LatestOverwritten
  <2> HIDE DEF cleared
  <2>2. /\ Sound(w, told) /\ SameBut({"rpc_out"}, cleared, told)
        /\ told.rpc_out = cleared.rpc_out \cup {[client |-> latest.client, answer |-> OK]}
    <3>1. Sound(w, cleared)
      BY <2>1
    <3> HIDE DEF latest
    <3> QED BY <3>1, ClientAnswered
  <2> HIDE DEF told
  <2>3. /\ \A f \in Fields \ {"latest_query_rpc", "rpc_out"} : told[f] = kept[f]
        /\ told.rpc_out = m.rpc_out \cup {[client |-> latest.client, answer |-> OK]}
        /\ told.latest_query_rpc.query = ""
    BY <1>2, <2>1, <2>2 DEF SameBut, Fields, Works, Progress
  <2>4. /\ \A f \in {"id", "generated", "sent_queries", "outbox", "token_sent", "alive", "stored_values"} :
             told[f] = kept[f]
        /\ kept.alive = m.alive /\ kept.stored_values = m.stored_values
    BY <1>2, <2>3 DEF Fields, Works, Keeps
  <2>5. Grows(m, told)
    BY <1>3, <2>4 DEF Outcome, Grows
  <2>6. Sending(w, m, told, msg, src)
    BY <1>3, <2>4 DEF Outcome, Sending
  <2>7. Effect(w, m, told, msg)
    BY <1>4, <2>3, <2>4 DEF Effect, Tells
  <2> QED BY <2>2, <2>3, <2>5, <2>6, <2>7 DEF Outcome
<1> HIDE DEF told, awaited
<1> QED BY <1>1, <1>3, <1>4

\* A search that ends after a round or before it.
LEMMA SearchEnded ==
  ASSUME NEW w, NEW m, NEW k, Works(w, {}, m, k), NEW name, name # "ping", NEW key, NEW msg, NEW src
  PROVE  LET n == DeleteFindQuery(OverwriteLatest(k, name), key)
         IN  Outcome(w, m, n, msg, src) /\ n.rpc_out = m.rpc_out
<1> DEFINE n == OverwriteLatest(k, name)
<1>1. Sound(w, n) /\ Passes(k, n)
  BY LatestOverwritten DEF Works
<1> HIDE DEF n
<1>2. Passes(m, n)
  BY <1>1, WorkPasses, PassesIsTransitive
<1>3. Outcome(w, m, n, msg, src)
  BY <1>1, <1>2, PassIsOutcome
<1>4. Works(w, {}, n, DeleteFindQuery(n, key))
  BY <1>1, SearchDeleted
<1>5. DeleteFindQuery(n, key).rpc_out = m.rpc_out
  BY <1>2, <1>4 DEF Works, Passes, Progress
<1> QED BY <1>3, <1>4, <1>5, OutcomeThenWorks DEF n

\* The answer to a find_node: a round more, the end of the lookup, or of the machine.
LEMMA SearchStepped ==
  ASSUME NEW w, IsWorld(w), NEW m, Sound(w, m), NEW msg, NEW src \in Others(w, m.id), msg.id = src,
         NEW target, RepliedIn(w, m.id, src, target), msg.nodes \in Seq(w.nodes), NEW garbage
  PROVE  LET n == SearchStep(m, msg, target, garbage)
         IN  Outcome(w, m, n, msg, src) /\ n.rpc_out = m.rpc_out
<1> DEFINE find_query == find_key(m.store_find_queries, target)
           round == lookUpRound(m, NoToken, find_query, msg.nodes, msg.id, garbage)
           n == SearchStep(m, msg, target, garbage)
<1>1. ASSUME NEW k, Works(w, {}, m, k) PROVE Outcome(w, m, k, msg, src) /\ k.rpc_out = m.rpc_out
  BY <1>1, WorkPasses, PassIsOutcome DEF Works, Progress
<1>2. Works(w, {}, m, m)
  BY WorksIsReflexive
<1>3. CASE target \notin Keys(m.store_find_queries)
  BY <1>1, <1>2, <1>3 DEF SearchStep
<1>4. CASE target \in Keys(m.store_find_queries) /\ msg.nodes = <<>>
  <2>1. n = Die(m)
    BY <1>4 DEF SearchStep
  <2>2. Risks(w, {}, m, n)
    BY <2>1, DeathIsSound
  <2> HIDE DEF n
  <2>3. Outcome(w, m, n, msg, src)
    BY <2>2, RiskIsOutcome
  <2>4. n.rpc_out = m.rpc_out
    BY <2>2 DEF Risks, Progress
  <2> QED BY <2>3, <2>4 DEF n
<1>5. CASE target \in Keys(m.store_find_queries) /\ msg.nodes # <<>> /\ msg.nodes[1] = target
  <2>1. n = DeleteFindQuery(OverwriteLatest(m, "find_node"), target)
    BY <1>5 DEF SearchStep
  <2> QED BY <1>2, <2>1, SearchEnded
<1>6. CASE target \in Keys(m.store_find_queries) /\ msg.nodes # <<>> /\ msg.nodes[1] # target
  <2>1. find_query \in Held(m.store_find_queries) /\ find_query.key = target
    BY <1>6, FindHeld DEF Sound, SearchesOK
  <2>2. n = EndFindNode(round, target)
    BY <1>6 DEF SearchStep
  <2>3. round.finished \in BOOLEAN
    BY DEF lookUpRound, SendRound
  <2> HIDE DEF find_query
  <2>4. Works(w, {}, m, round.m)
    BY <2>1, LookUpRoundSound DEF LookupToken
  <2> HIDE DEF round, n
  <2>5. CASE round.finished
    BY <1>1, <2>2, <2>4, <2>5 DEF EndFindNode, n
  <2>6. CASE ~round.finished
    <3>1. n = DeleteFindQuery(OverwriteLatest(round.m, "find_node"), target)
      BY <2>2, <2>6 DEF EndFindNode
    <3> QED BY <2>4, <3>1, SearchEnded DEF n
  <2> QED BY <2>3, <2>5, <2>6
<1> QED BY <1>3, <1>4, <1>5, <1>6

LEMMA FindNodeAnswered ==
  ASSUME NEW w, IsWorld(w), NEW m, Sound(w, m), NEW msg, NEW src \in Others(w, m.id), msg.id = src,
         NEW query, query.q = "find_node", Fits(w, m.id, src, query, msg), NEW garbage
  PROVE  Outcome(w, m, kademHandleAnswerFindNode(m, msg, query, garbage), msg, src)
<1> DEFINE n == SearchStep(m, msg, query.target, garbage)
<1>1. Outcome(w, m, n, msg, src) /\ n.rpc_out = m.rpc_out
  BY SearchStepped DEF Fits
<1> HIDE DEF n
<1> QED BY <1>1, OutcomeThenDeath DEF kademHandleAnswerFindNode, n

\* kademSendStoreValue sends the data to each contact of a list: a step, and the
\* machine after it.
StoreRound(at, value, data, s, node) == kademStoreValue(s, at.token, value, data, node.nodeID)
AreStored(at, value, data, i, s) == Works(at.w, {at.token}, at.m, s)

Storing == INSTANCE Loops WITH Step <- StoreRound, Inv <- AreStored

\* The data of a put goes to nodes that have answered, and its token is given up.
LEMMA DataSent ==
  ASSUME NEW w, NEW m, Sound(w, m), NEW token \in Keys(m.token_sent), NEW value,
         \A k \in Held(m.token_sent) : k.key = token => ObjectIn(w, value, k.value),
         NEW nodes \in Seq(Answered(w, m.id, value)), NEW msg, NEW src
  PROVE  LET n == kademSendStoreValue(m, nodes, value, token)
         IN  Outcome(w, m, n, msg, src) /\ n.rpc_out = m.rpc_out
<1> DEFINE data == find_key(m.token_sent, token).value
           at == [w |-> w, m |-> m, token |-> token]
           n == Len(nodes)
           sent == Storing!Loop(at, value, data, m, nodes)
           tokens == delete_key(sent.token_sent, token)
           done == [sent EXCEPT !.token_sent = tokens]
<1>1. n \in Nat /\ DOMAIN nodes = 1..n /\ at.w = w /\ at.m = m /\ at.token = token
  OBVIOUS
<1>2. ObjectIn(w, value, data)
  BY FindHeld DEF Sound, TokensOK
<1> HIDE DEF data, at
<1>3. kademSendStoreValue(m, nodes, value, token) = done
  BY <1>1 DEF kademSendStoreValue, FoldLeft, MapThenFoldSet, Max, Storing!FoldLeft,
         Storing!MapThenFoldSet, Storing!Max, Storing!Loop, StoreRound, data
<1>4. AreStored(at, value, data, 0, m)
  BY <1>1, WorksIsReflexive DEF AreStored
<1>5. ASSUME NEW i \in 1..n, NEW s, AreStored(at, value, data, i-1, s)
      PROVE  AreStored(at, value, data, i, StoreRound(at, value, data, s, nodes[i]))
  <2> DEFINE dst == nodes[i].nodeID
             stored == kademStoreValue(s, token, value, data, dst)
  <2>1. Works(w, {token}, m, s) /\ Sound(w, s) /\ s.id = m.id
    BY <1>1, <1>5 DEF AreStored, Works, Progress, Grows
  <2>2. dst \in Others(w, m.id) /\ RepliedIn(w, m.id, dst, value)
    <3>1. nodes[i] \in Answered(w, m.id, value)
      OBVIOUS
    <3> QED BY <3>1 DEF Answered
  <2> HIDE DEF dst
  <2>3. Works(w, {token}, s, stored)
    BY <1>2, <2>1, <2>2, StoreValueSent
  <2> HIDE DEF stored
  <2>4. Works(w, {token}, m, stored)
    BY <2>1, <2>3, WorksIsTransitive
  <2> QED BY <1>1, <2>4 DEF AreStored, StoreRound, stored, dst
<1>6. AreStored(at, value, data, n, sent)
  BY <1>1, <1>4, <1>5, Storing!LoopInvariant
<1> HIDE DEF sent
<1>7. Sound(w, sent) /\ Progress({token}, m, sent) /\ Keeps(m, sent)
  BY <1>1, <1>6 DEF AreStored, Works
<1>8. KeyedList(tokens) /\ Held(tokens) = {k \in Held(sent.token_sent) : k.key # token}
  BY <1>7, DeleteHeld DEF Sound, TokensOK
<1> HIDE DEF tokens
<1>9. Sound(w, done)
  BY <1>7, <1>8, TokensShrink
<1>10. SameBut({"token_sent"}, sent, done) /\ done.token_sent = tokens
  BY <1>7 DEF SameBut, Sound, IsMachine, Fields
<1>11. token \notin Keys(tokens)
  BY <1>8, KeysHeld
<1> HIDE DEF done
<1>12. \A f \in Fields \ {"token_sent"} : done[f] = sent[f]
  BY <1>10 DEF SameBut
<1>13. Grows(m, done)
  BY <1>7, <1>12 DEF Progress, Grows, Fields
<1>14. Sending(w, m, done, msg, src)
  BY <1>7, <1>10, <1>11, <1>12 DEF Progress, Sending, Fields
<1>15. Effect(w, m, done, msg)
  BY <1>7, <1>12 DEF Progress, Keeps, Effect, Fields
<1>16. done.latest_query_rpc = m.latest_query_rpc
  BY <1>7, <1>12 DEF Keeps, Fields
<1>17. Outcome(w, m, done, msg, src)
  BY <1>9, <1>13, <1>14, <1>15, <1>16 DEF Outcome
<1>18. done.rpc_out = m.rpc_out
  BY <1>7, <1>12 DEF Progress, Fields
<1> QED BY <1>3, <1>17, <1>18

\* The end of a get or a put search.
LEMMA FindValueEnded ==
  ASSUME NEW w, NEW m, Sound(w, m), NEW query, query.value \in Keys(m.store_find_queries),
         TokenOK(w, m, query.token, query.value), NEW msg, NEW src
  PROVE  LET n == EndFindValue(m, query)
         IN  Outcome(w, m, n, msg, src) /\ n.rpc_out = m.rpc_out
<1> DEFINE list == find_key(m.store_find_queries, query.value).value
           results == ResultNodes(list)
           n == IF query.token \in Keys(m.token_sent)
                THEN kademSendStoreValue(m, results, query.value, query.token) ELSE m
<1>1. EndFindValue(m, query) = DeleteFindQuery(n, query.value)
  BY DEF EndFindValue
<1>2. results \in Seq(Answered(w, m.id, query.value))
  <2>1. IsSearch(w, m.id, query.value, list)
    BY FindHeld DEF Sound, SearchesOK
  <2> HIDE DEF list
  <2> QED BY <2>1, PartsOfSearch
<1> HIDE DEF results
<1>3. CASE query.token \in Keys(m.token_sent)
  <2>1. Outcome(w, m, n, msg, src) /\ n.rpc_out = m.rpc_out
    BY <1>2, <1>3, DataSent DEF TokenOK
  <2> HIDE DEF n
  <2>2. Works(w, {}, n, DeleteFindQuery(n, query.value))
    BY <2>1, SearchDeleted DEF Outcome
  <2>3. DeleteFindQuery(n, query.value).rpc_out = m.rpc_out
    BY <2>1, <2>2 DEF Works, Progress
  <2> QED BY <1>1, <2>1, <2>2, <2>3, OutcomeThenWorks
<1>4. CASE query.token \notin Keys(m.token_sent)
  <2>1. n = m
    BY <1>4
  <2> HIDE DEF n
  <2>2. Works(w, {}, m, DeleteFindQuery(m, query.value))
    BY SearchDeleted
  <2>3. /\ Outcome(w, m, DeleteFindQuery(m, query.value), msg, src)
        /\ DeleteFindQuery(m, query.value).rpc_out = m.rpc_out
    BY <2>2, WorkPasses, PassIsOutcome DEF Works, Progress
  <2> QED BY <1>1, <2>1, <2>3
<1> QED BY <1>3, <1>4

\* An object that is found is stored, the client forgotten and the search ended.
LEMMA ValueFound ==
  ASSUME NEW w, NEW m, Sound(w, m), m.alive, NEW key, NEW data, ObjectIn(w, key, data), NEW msg, NEW src
  PROVE  LET n == DeleteFindQuery(OverwriteLatest(StoreLocally(m, key, data), "get"), key)
         IN  Outcome(w, m, n, msg, src) /\ n.rpc_out = m.rpc_out
<1> DEFINE k == StoreLocally(m, key, data)
           n == OverwriteLatest(k, "get")
<1>1. Sound(w, k) /\ SameBut({"stored_values"}, m, k) /\ HoldsNew(m, k, key, data)
  BY ObjectStored
<1> HIDE DEF k
<1>2. /\ Sound(w, n) /\ SameBut({"latest_query_rpc"}, k, n)
      /\ n.latest_query_rpc.query = "get"
  BY <1>1, LatestOverwritten
<1> HIDE DEF n
<1>3. /\ \A f \in Fields \ {"stored_values", "latest_query_rpc"} : n[f] = m[f]
      /\ n.stored_values = k.stored_values
  BY <1>1, <1>2 DEF SameBut, Fields
<1>4. Grows(m, n) /\ Sending(w, m, n, msg, src)
  BY <1>3 DEF Grows, Sending, Fields
<1>5. Effect(w, m, n, msg)
  BY <1>1, <1>3 DEF Effect, Stores, HoldsNew, Fields
<1>6. Outcome(w, m, n, msg, src)
  BY <1>2, <1>4, <1>5 DEF Outcome
<1>7. Works(w, {}, n, DeleteFindQuery(n, key))
  BY <1>2, SearchDeleted
<1>8. DeleteFindQuery(n, key).rpc_out = m.rpc_out
  BY <1>3, <1>7 DEF Works, Progress, Fields
<1> QED BY <1>6, <1>7, <1>8, OutcomeThenWorks DEF n, k

\* The answer to a get: the object is stored, a round more, or the data of a put
\* leaves, with its token, for the nodes that answered; or the machine ends.
LEMMA ValueStepped ==
  ASSUME NEW w, IsWorld(w), NEW m, Sound(w, m), m.alive,
         NEW msg, NEW src \in Others(w, m.id), msg.id = src,
         msg.y = "r" => msg.t \in Transaction(m.id, m.generated),
         NEW query, query.q = "get", Fits(w, m.id, src, query, msg),
         query.value \in Keys(m.store_find_queries),
         TokenOK(w, m, query.token, query.value), NEW garbage
  PROVE  LET n == ValueStep(m, msg, query, garbage)
         IN  Outcome(w, m, n, msg, src) /\ n.rpc_out = m.rpc_out
<1> DEFINE find_query == find_key(m.store_find_queries, query.value)
           round == lookUpRound(m, query.token, find_query, msg.nodes, msg.id, garbage)
           n == ValueStep(m, msg, query, garbage)
<1>1. CASE "value" \in DOMAIN msg
  <2>1. n = DeleteFindQuery(OverwriteLatest(StoreLocally(m, query.value, msg.data), "get"), query.value)
    BY <1>1 DEF ValueStep
  <2>2. ObjectIn(w, query.value, msg.data)
    BY <1>1 DEF Fits
  <2> QED BY <2>1, <2>2, ValueFound
<1>2. CASE "value" \notin DOMAIN msg
  <2>1. n = AfterRound(round, query)
    BY <1>2 DEF ValueStep
  <2>2. find_query \in Held(m.store_find_queries) /\ find_query.key = query.value
    BY FindHeld DEF Sound, SearchesOK
  <2>3. msg.nodes \in Seq(w.nodes) /\ RepliedIn(w, m.id, src, query.value)
    BY <1>2 DEF Fits
  <2> HIDE DEF find_query, n
  <2>4. Works(w, {}, m, round.m) /\ query.value \in Keys(round.m.store_find_queries)
    <3>1. LookupToken(w, m, query.token, find_query.key)
      BY <2>2 DEF LookupToken
    <3> QED BY <2>2, <2>3, <3>1, LookUpRoundSound
  <2> HIDE DEF round
  <2>5. CASE ~round.finished
    <3>1. n = round.m
      BY <2>1, <2>5 DEF AfterRound
    <3> QED BY <2>4, <3>1, WorkPasses, PassIsOutcome DEF Works, Progress, n
  <2>6. CASE round.finished
    <3> DEFINE k == OverwriteLatest(round.m, "get")
    <3>1. n = EndFindValue(k, query)
      BY <2>1, <2>6 DEF AfterRound
    <3>2. /\ Sound(w, k) /\ SameBut({"latest_query_rpc"}, round.m, k) /\ Passes(round.m, k)
      BY <2>4, LatestOverwritten DEF Works
    <3> HIDE DEF k
    <3>3. k.store_find_queries = round.m.store_find_queries /\ k.token_sent = round.m.token_sent
          /\ k.id = round.m.id /\ k.generated = round.m.generated
      BY <3>2 DEF SameBut, Fields
    <3>4. TokenOK(w, round.m, query.token, query.value)
      BY <2>4, TokenStaysOK
    <3>5. TokenOK(w, k, query.token, query.value)
      BY <3>3, <3>4 DEF TokenOK
    <3>6. Outcome(w, k, n, msg, src) /\ n.rpc_out = k.rpc_out
      BY <2>4, <3>1, <3>2, <3>3, <3>5, FindValueEnded
    <3>7. Passes(m, k)
      BY <2>4, <3>2, WorkPasses, PassesIsTransitive
    <3>8. n.rpc_out = m.rpc_out
      BY <3>6, <3>7 DEF Passes, Progress
    <3> QED BY <3>6, <3>7, <3>8, PassThenOutcome DEF n
  <2> QED BY <2>5, <2>6
<1> QED BY <1>1, <1>2

LEMMA FindValueAnswered ==
  ASSUME NEW w, IsWorld(w), NEW m, Sound(w, m), m.alive,
         NEW msg, NEW src \in Others(w, m.id), msg.id = src,
         msg.y = "r" => msg.t \in Transaction(m.id, m.generated),
         NEW query, query.q = "get", Fits(w, m.id, src, query, msg),
         TokenOK(w, m, query.token, query.value), NEW garbage
  PROVE  Outcome(w, m, kademHandleAnswerFindValue(m, msg, query, garbage), msg, src)
<1>1. CASE query.value \notin Keys(m.store_find_queries)
  BY <1>1, WorksIsReflexive, WorkPasses, PassIsOutcome DEF kademHandleAnswerFindValue
<1>2. CASE query.value \in Keys(m.store_find_queries)
  <2> DEFINE n == ValueStep(m, msg, query, garbage)
  <2>1. Outcome(w, m, n, msg, src) /\ n.rpc_out = m.rpc_out
    BY <1>2, ValueStepped
  <2> HIDE DEF n
  <2> QED BY <1>2, <2>1, OutcomeThenDeath DEF kademHandleAnswerFindValue, n
<1> QED BY <1>1, <1>2

\* An answer uses its query up.
LEMMA AnswerHandled ==
  ASSUME NEW w, IsWorld(w), NEW m, Sound(w, m), m.alive, NEW src, NEW msg, msg.y = "r",
         IsMessage(w, m, msg, src), NEW garbage
  PROVE  /\ Outcome(w, m, HandleAnswer(m, msg, garbage), msg, src)
         /\ msg.t \notin Keys(HandleAnswer(m, msg, garbage).sent_queries)
<1> DEFINE e == find_key(m.sent_queries, msg.t)
           n == HandleAnswerTo(e.value, m, msg, garbage)
<1>1. CASE msg.t \notin Keys(m.sent_queries)
  <2>1. HandleAnswer(m, msg, garbage) = m
    BY <1>1 DEF HandleAnswer
  <2> QED BY <1>1, <2>1, WorksIsReflexive, WorkPasses, PassIsOutcome
<1>2. CASE msg.t \in Keys(m.sent_queries)
  <2>1. e \in Held(m.sent_queries) /\ e.key = msg.t
    BY <1>2, FindHeld DEF Sound, SentOK
  <2>2. HandleAnswer(m, msg, garbage) = ForgetQuery(n, msg.t)
    BY <1>2 DEF HandleAnswer
  <2> HIDE DEF e
  <2>3. /\ src \in Others(w, m.id) /\ msg.id = src
        /\ Fits(w, m.id, src, e.value, msg) /\ msg.t \in Transaction(m.id, m.generated)
    BY <2>1 DEF IsMessage, IsAnswerTo
  <2>4. e.value.q \in {"ping", "find_node", "get", "put"}
    BY <2>1 DEF Sound, SentOK, IsQuery
  <2>5. Outcome(w, m, n, msg, src)
    <3>1. CASE e.value.q = "ping"
      <4>1. n = kademHandlePong(m, msg)
        BY <3>1 DEF HandleAnswerTo
      <4> QED BY <2>1, <2>3, <3>1, <4>1, PongHandled
    <3>2. CASE e.value.q = "put"
      <4>1. n = m
        BY <3>2 DEF HandleAnswerTo
      <4> QED BY <4>1, WorksIsReflexive, WorkPasses, PassIsOutcome
    <3>3. CASE e.value.q = "find_node"
      <4>1. n = kademHandleAnswerFindNode(m, msg, e.value, garbage)
        BY <3>3 DEF HandleAnswerTo
      <4> QED BY <2>3, <3>3, <4>1, FindNodeAnswered
    <3>4. CASE e.value.q = "get"
      <4>1. n = kademHandleAnswerFindValue(m, msg, e.value, garbage)
        BY <3>4 DEF HandleAnswerTo
      <4>2. TokenOK(w, m, e.value.token, e.value.value)
        BY <2>1, <3>4 DEF Sound, SentOK, IsQuery, PairsOK, TokenOK
      <4> QED BY <2>3, <3>4, <4>1, <4>2, FindValueAnswered
    <3> QED BY <2>4, <3>1, <3>2, <3>3, <3>4
  <2> HIDE DEF n
  <2>6. Works(w, {}, n, ForgetQuery(n, msg.t)) /\ msg.t \notin Keys(ForgetQuery(n, msg.t).sent_queries)
    BY <2>5, QueryForgotten DEF Outcome
  <2> QED BY <2>2, <2>5, <2>6, OutcomeThenWorks
<1> QED BY <1>1, <1>2

\* A message is handled: what comes of it, and that an answer is used up.
THEOREM MessageHandled ==
  ASSUME NEW w, IsWorld(w), NEW m, Sound(w, m), m.alive, NEW src, NEW msg,
         IsMessage(w, m, msg, src), NEW garbage
  PROVE  LET n == HandleMessage(m, msg, src, garbage)
         IN  /\ Outcome(w, m, n, msg, src)
             /\ n.alive /\ msg.y = "r" => msg.t \notin Keys(n.sent_queries)
<1> DEFINE k == kademMaintenance(m, msg, garbage)
           n == HandleMessage(m, msg, src, garbage)
<1>0. msg.y = "r" => msg.t \in Transaction(m.id, m.generated)
  BY DEF IsMessage, IsAnswerTo
<1>1. n = Dispatch(k, msg, src, garbage)
  BY DEF HandleMessage
<1>2. Risks(w, {}, m, k)
  <2>1. IsHeader(w, m.id, msg)
    BY DEF IsMessage, IsHeader
  <2> QED BY <2>1, MaintenanceSound
<1> HIDE DEF k, n
<1>3. CASE ~k.alive
  <2>1. n = k
    BY <1>1, <1>3 DEF Dispatch
  <2> QED BY <1>2, <1>3, <2>1, RiskIsOutcome DEF n
<1>4. CASE k.alive
  <2>1. Sound(w, k) /\ Keeps(m, k) /\ Progress({}, m, k) /\ Grows(m, k) /\ Passes(m, k)
    BY <1>2, <1>4 DEF Risks, Ended, Progress, Keeps, Passes
  <2>2. IsMessage(w, k, msg, src)
    BY <2>1, MessageStays
  <2>3. CASE msg.y = "q"
    <3>1. n = HandleQuery(k, msg, src, garbage)
      BY <1>1, <1>4, <2>3 DEF Dispatch
    <3>2. Outcome(w, k, n, msg, src)
      BY <1>4, <2>1, <2>2, <2>3, <3>1, QueryServed
    <3> QED BY <1>0, <2>1, <2>3, <3>2, PassThenOutcome DEF n
  <2>4. CASE msg.y = "r"
    <3>1. n = HandleAnswer(k, msg, garbage)
      BY <1>1, <1>4, <2>4 DEF Dispatch
    <3>2. Outcome(w, k, n, msg, src) /\ msg.t \notin Keys(n.sent_queries)
      BY <1>4, <2>1, <2>2, <2>4, <3>1, AnswerHandled
    <3> QED BY <1>0, <2>1, <3>2, PassThenOutcome DEF n
  <2>5. CASE msg.y = "e"
    <3>1. n = ForgetQuery(k, msg.t)
      BY <1>1, <1>4, <2>5 DEF Dispatch
    <3>2. Outcome(w, k, n, msg, src)
      BY <2>1, <3>1, QueryForgotten, WorkPasses, PassIsOutcome DEF Works
    <3> QED BY <1>0, <2>1, <2>5, <3>2, PassThenOutcome DEF n
  <2> QED BY <2>2, <2>3, <2>4, <2>5 DEF IsMessage
<1>5. k.alive \in BOOLEAN
  BY <1>2 DEF Risks, Sound, IsMachine
<1> QED BY <1>3, <1>4, <1>5

-----------------------------------------------------------------------------
(* Who has answered.                                                         *)

\* The nodes that a lookup of m takes for ones that have answered.
Results(m) == UNION {Ids(ResultNodes(e.value)) : e \in Held(m.store_find_queries)}

\* A world in which exactly those have answered, whatever they were asked for.
OwnWorld(w, m) ==
  [nodes |-> w.nodes, objects |-> w.objects, time |-> w.time,
   replied |-> {[asker |-> m.id, node |-> x, key |-> k] : x \in Results(m), k \in NodeId}]

\* A machine is sound in it ...
LEMMA SoundInOwnWorld ==
  ASSUME NEW w, IsWorld(w), NEW m, Sound(w, m), m.outbox = {}
  PROVE  IsWorld(OwnWorld(w, m)) /\ Sound(OwnWorld(w, m), m)
<1> DEFINE v == OwnWorld(w, m)
<1>1. v.nodes = w.nodes /\ v.objects = w.objects /\ v.time = w.time
  BY DEF OwnWorld
<1>2. \A x \in Results(m), k \in NodeId : RepliedIn(v, m.id, x, k)
  BY DEF OwnWorld, RepliedIn
<1> HIDE DEF v
<1>3. IsWorld(v)
  BY <1>1 DEF IsWorld
<1>4. SearchesOK(v, m.id, m.store_find_queries)
  <2>1. ASSUME NEW e \in Held(m.store_find_queries) PROVE IsSearch(v, m.id, e.key, e.value)
    <3> DEFINE list == e.value
               A == Unanswered(w, m.id)
               B == Answered(w, m.id, e.key)
               C == Answered(v, m.id, e.key)
    <3>1. e.key \in NodeId /\ IsSearch(w, m.id, e.key, list)
      BY DEF Sound, SearchesOK
    <3>2. PICK k \in 0..length_bucket : SplitAt(list, A, B, k, length_bucket)
      BY <3>1 DEF IsSearch, Split
    <3>3. /\ \A c \in A : c.count \in 0..1
          /\ \A c \in B : c.count = 2
          /\ length_bucket \in Nat
      BY NodeDetailsAssumption DEF Unanswered, Answered
    <3>4. Unanswered(v, m.id) = A
      BY <1>1 DEF Unanswered, Others
    <3>5. \A c \in B : c.nodeID \in Results(m) => c \in C
      BY <1>1, <1>2, <3>1 DEF Answered, Others
    <3> HIDE DEF A, B, C, list
    <3>6. Len(CurrentNodes(list)) = k
      BY <3>2, <3>3, PartsOfSplit
    <3>7. ResultNodes(list) = SubSeq(list, k+1, Len(list))
      BY <3>6 DEF ResultNodes
    <3>8. list \in Seq(A \cup B) /\ k \in 0..Len(list) /\ Len(list) \in Nat
      BY <3>2 DEF SplitAt
    <3>9. ASSUME NEW i \in k+1..Len(list) PROVE list[i] \in C
      <4>1. /\ Len(SubSeq(list, k+1, Len(list))) = Len(list) - k
            /\ \A j \in 1..Len(list)-k : SubSeq(list, k+1, Len(list))[j] = list[k+1+j-1]
        <5> DEFINE l == Len(list)
                   from == k+1
        <5>1. from \in Nat /\ from >= 1 /\ l \in Nat /\ l <= Len(list) /\ from <= l+1 /\ l-from+1 = l-k
          BY <3>8
        <5> HIDE DEF from
        <5>2. /\ Len(SubSeq(list, from, l)) = l-from+1
              /\ \A j \in 1..l-from+1 : SubSeq(list, from, l)[j] = list[from+j-1]
          BY <3>8, <5>1, Part
        <5> QED BY <5>1, <5>2 DEF from
      <4>2. i-k \in 1..Len(list)-k /\ k+1+(i-k)-1 = i
        BY <3>8
      <4>3. list[i].nodeID \in Ids(ResultNodes(list))
        BY <3>7, <4>1, <4>2 DEF Ids
      <4>4. list[i].nodeID \in Results(m)
        BY <4>3 DEF Results, list
      <4>5. list[i] \in B
        BY <3>2 DEF SplitAt
      <4> QED BY <3>5, <4>4, <4>5
    <3>10. \A i \in 1..k : list[i] \in A
      BY <3>2 DEF SplitAt
    <3>11. list \in Seq(A \cup C)
      <4>1. \A i \in 1..Len(list) : i \in 1..k \/ i \in k+1..Len(list)
        BY <3>8
      <4>2. \A i \in 1..Len(list) : list[i] \in A \cup C
        BY <3>9, <3>10, <4>1
      <4>3. list = [i \in 1..Len(list) |-> list[i]]
        BY <3>8
      <4> QED BY <3>8, <4>2, <4>3
    <3>12. SplitAt(list, A, C, k, length_bucket)
      BY <3>2, <3>9, <3>10, <3>11 DEF SplitAt
    <3> QED BY <3>4, <3>12 DEF IsSearch, Split, C, list
  <2> QED BY <2>1 DEF Sound, SearchesOK
<1>5. Sound(v, m)
  BY <1>1, <1>4 DEF Sound, IsMachine, TableOK, StoredOK, WaitingOK, SentOK, PairsOK, OutboxOK,
       Others, ObjectIn, IsQuery
<1> QED BY <1>3, <1>5 DEF v

\* ... and while it is, nobody else has answered.
LEMMA NobodyElseAnswered ==
  ASSUME NEW w, NEW m, NEW n, Sound(OwnWorld(w, m), n), n.id = m.id
  PROVE  Results(n) \subseteq Results(m)
<1> DEFINE v == OwnWorld(w, m)
<1>1. ASSUME NEW e \in Held(n.store_find_queries), NEW i \in 1..Len(ResultNodes(e.value))
      PROVE  ResultNodes(e.value)[i].nodeID \in Results(m)
  <2>1. IsSearch(v, n.id, e.key, e.value)
    BY DEF Sound, SearchesOK
  <2> HIDE DEF v
  <2>2. ResultNodes(e.value) \in Seq(Answered(v, n.id, e.key))
    BY <2>1, PartsOfSearch
  <2>3. RepliedIn(v, n.id, ResultNodes(e.value)[i].nodeID, e.key)
    BY <2>2 DEF Answered
  <2> DEFINE node == ResultNodes(e.value)[i].nodeID
  <2>4. [asker |-> n.id, node |-> node, key |-> e.key]
          \in {[asker |-> m.id, node |-> x, key |-> k] : x \in Results(m), k \in NodeId}
    BY <2>3 DEF v, RepliedIn, OwnWorld
  <2> HIDE DEF node
  <2>5. PICK x \in Results(m), k \in NodeId :
             [asker |-> n.id, node |-> node, key |-> e.key] = [asker |-> m.id, node |-> x, key |-> k]
    BY <2>4
  <2>6. node = x
    BY <2>5
  <2> QED BY <2>6 DEF node
<1> QED BY <1>1 DEF Results, Ids

\* After maintenance no query is kept that is older than its timeout.
LEMMA MaintenanceForgets ==
  ASSUME NEW w, IsWorld(w), NEW m, Sound(w, m), ByAge(now, m.sent_queries),
         NEW msg, IsHeader(w, m.id, msg), NEW garbage, kademMaintenance(m, msg, garbage).alive
  PROVE  \A e \in Held(kademMaintenance(m, msg, garbage).sent_queries) :
           now - e.timestamp <= KADEM_TIMEOUT_REFRESH_QUERY
<1> DEFINE m1 == RefreshBuckets(m)
           m2 == InsertSender(m1, msg)
           m3 == InsertWaiting(m2)
<1>1. Works(w, {}, m, m1)
  BY RefreshBucketsSound
<1> HIDE DEF m1
<1>2. Sound(w, m1) /\ m1.id = m.id /\ ByAge(now, m1.sent_queries)
  BY <1>1 DEF Works, Progress, Grows
<1>3. Risks(w, {}, m1, m2)
  BY <1>2, InsertSenderSound
<1> HIDE DEF m2
<1>4. Sound(w, m2) /\ ByAge(now, m2.sent_queries)
  BY <1>2, <1>3 DEF Risks, Progress, Grows
<1>5. m2.alive /\ kademMaintenance(m, msg, garbage) = CleanLists(m3)
  BY DEF kademMaintenance, FinishMaintenance, Die, NewMachine, m1, m2
<1>6. Works(w, {}, m2, m3)
  BY <1>4, InsertWaitingSound
<1> HIDE DEF m3
<1>7. Sound(w, m3) /\ ByAge(now, m3.sent_queries)
  BY <1>4, <1>6 DEF Works, Progress, Grows
<1>8. CleanLists(m3).sent_queries = clean(m3.sent_queries, KADEM_TIMEOUT_REFRESH_QUERY, now)
  BY <1>7 DEF CleanLists, Sound, IsMachine, Fields
<1>9. KADEM_TIMEOUT_REFRESH_QUERY \in Nat /\ KeyedList(m3.sent_queries)
  BY <1>7, MachineAssumption DEF Sound, SentOK
<1> QED BY <1>5, <1>7, <1>8, <1>9, CleanIsYoung

\* A message makes a lookup take a node for one that has answered only if it answers
\* a query that is not too old; and that query is used up.
THEOREM ResultsAreFresh ==
  ASSUME NEW w, IsWorld(w), NEW m, Sound(w, m), m.alive, m.outbox = {}, ByAge(now, m.sent_queries),
         NEW src, NEW msg, IsMessage(w, m, msg, src), NEW garbage
  PROVE  LET n == HandleMessage(m, msg, src, garbage)
         IN  \/ Results(n) \subseteq Results(m)
             \/ \E e \in Held(m.sent_queries) :
                  /\ now - e.timestamp <= KADEM_TIMEOUT_REFRESH_QUERY
                  /\ e.key \notin Keys(n.sent_queries)
<1> DEFINE v == OwnWorld(w, m)
           k == kademMaintenance(m, msg, garbage)
           n == HandleMessage(m, msg, src, garbage)
<1>1. IsWorld(v) /\ Sound(v, m) /\ v.nodes = w.nodes /\ v.objects = w.objects
  BY SoundInOwnWorld DEF OwnWorld
<1>2. n = Dispatch(k, msg, src, garbage)
  BY DEF HandleMessage
<1> HIDE DEF v, k, n
<1>3. CASE msg.y # "r"
  <2>1. IsMessage(v, m, msg, src)
    BY <1>1, <1>3 DEF IsMessage, IsQueryOf, Others, ObjectIn
  <2>2. Outcome(v, m, n, msg, src)
    BY <1>1, <2>1, MessageHandled DEF n
  <2>3. Results(n) \subseteq Results(m)
    BY <2>2, NobodyElseAnswered DEF v, Outcome, Grows
  <2> QED BY <2>3 DEF n
<1>4. CASE msg.y = "r"
  <2>1. IsHeader(w, m.id, msg) /\ IsHeader(v, m.id, msg)
    BY <1>1 DEF IsMessage, IsHeader, Others
  <2>2. Risks(v, {}, m, k) /\ Risks(w, {}, m, k)
    BY <1>1, <2>1, MaintenanceSound DEF k
  <2>3. Sound(w, k) /\ Grows(m, k)
    BY <2>2 DEF Risks, Progress
  <2>4. Results(k) \subseteq Results(m)
    BY <2>2, NobodyElseAnswered DEF v, Risks, Progress, Grows
  <2>5. CASE ~k.alive \/ msg.t \notin Keys(k.sent_queries)
    <3>1. k.alive \in BOOLEAN
      BY <2>3 DEF Sound, IsMachine
    <3>2. n = k
      BY <1>2, <1>4, <2>5, <3>1 DEF Dispatch, HandleAnswer
    <3> QED BY <2>4, <3>2 DEF n
  <2>6. CASE k.alive /\ msg.t \in Keys(k.sent_queries)
    <3>1. n = HandleAnswer(k, msg, garbage)
      BY <1>2, <1>4, <2>6 DEF Dispatch
    <3>2. IsMessage(w, k, msg, src)
      BY <2>3, MessageStays
    <3>3. msg.t \notin Keys(n.sent_queries)
      BY <1>4, <2>3, <2>6, <3>1, <3>2, AnswerHandled
    <3>4. PICK e \in Held(k.sent_queries) : e.key = msg.t
      BY <2>6, KeysHeld
    <3>5. now - e.timestamp <= KADEM_TIMEOUT_REFRESH_QUERY
      BY <2>1, <2>6, <3>4, MaintenanceForgets DEF k
    <3>6. msg.t \in Transaction(m.id, m.generated)
      BY <1>4 DEF IsMessage, IsAnswerTo
    <3>7. e \in Held(m.sent_queries)
      BY <2>3, <3>4, <3>6 DEF Grows
    <3> QED BY <3>3, <3>4, <3>5, <3>7 DEF n
  <2> QED BY <2>5, <2>6
<1> QED BY <1>3, <1>4

-----------------------------------------------------------------------------
(* Requests of local clients.                                                *)

\* The first requests of a lookup: a step, and the machine after it.
ValueRound(at, key, c, s, node) == kademFindValue(s, key, at.token, node.nodeID)
NodeRound(at, target, c, s, node) == kademFindNode(s, target, node.nodeID)
AreAsked(at, key, c, i, s) == Works(at.w, {}, at.m, s)

AskingValue == INSTANCE Loops WITH Step <- ValueRound, Inv <- AreAsked
AskingNode == INSTANCE Loops WITH Step <- NodeRound, Inv <- AreAsked

\* A lookup for a value begins: its first contacts are asked, ...
LEMMA ValueAsked ==
  ASSUME NEW w, NEW m, Sound(w, m), NEW key, NEW token, TokenOK(w, m, token, key),
         NEW nodes \in Seq(Unanswered(w, m.id))
  PROVE  Works(w, {}, m, AskForValue(m, key, token, nodes))
<1> DEFINE at == [w |-> w, m |-> m, token |-> token]
           n == Len(nodes)
<1>1. n \in Nat /\ DOMAIN nodes = 1..n /\ at.w = w /\ at.m = m /\ at.token = token
  OBVIOUS
<1> HIDE DEF at
<1>2. AskForValue(m, key, token, nodes) = AskingValue!Loop(at, key, {}, m, nodes)
  BY <1>1 DEF AskForValue, FoldLeft, MapThenFoldSet, Max, AskingValue!FoldLeft,
         AskingValue!MapThenFoldSet, AskingValue!Max, AskingValue!Loop, ValueRound
<1>3. AreAsked(at, key, {}, 0, m)
  BY <1>1, WorksIsReflexive DEF AreAsked
<1>4. ASSUME NEW i \in 1..n, NEW s, AreAsked(at, key, {}, i-1, s)
      PROVE  AreAsked(at, key, {}, i, ValueRound(at, key, {}, s, nodes[i]))
  <2> DEFINE dst == nodes[i].nodeID
             sent == kademFindValue(s, key, token, dst)
  <2>1. Works(w, {}, m, s) /\ Sound(w, s) /\ s.id = m.id
    BY <1>1, <1>4 DEF AreAsked, Works, Progress, Grows
  <2>2. dst \in Others(w, m.id)
    <3>1. nodes[i] \in Unanswered(w, m.id)
      OBVIOUS
    <3> QED BY <3>1 DEF Unanswered
  <2>3. TokenOK(w, s, token, key)
    BY <2>1, TokenStaysOK
  <2> HIDE DEF dst
  <2>4. Works(w, {}, s, sent)
    BY <2>1, <2>2, <2>3, FindValueSent
  <2> HIDE DEF sent
  <2>5. Works(w, {}, m, sent)
    BY <2>1, <2>4, WorksIsTransitive
  <2> QED BY <1>1, <2>5 DEF AreAsked, ValueRound, sent, dst
<1>5. AreAsked(at, key, {}, n, AskingValue!Loop(at, key, {}, m, nodes))
  BY <1>1, <1>3, <1>4, AskingValue!LoopInvariant
<1> QED BY <1>1, <1>2, <1>5 DEF AreAsked

\* ... and one for a node.
LEMMA NodeAsked ==
  ASSUME NEW w, NEW m, Sound(w, m), NEW target \in NodeId, NEW nodes \in Seq(Unanswered(w, m.id))
  PROVE  Works(w, {}, m, AskForNode(m, target, nodes))
<1> DEFINE at == [w |-> w, m |-> m]
           n == Len(nodes)
<1>1. n \in Nat /\ DOMAIN nodes = 1..n /\ at.w = w /\ at.m = m
  OBVIOUS
<1> HIDE DEF at
<1>2. AskForNode(m, target, nodes) = AskingNode!Loop(at, target, {}, m, nodes)
  BY <1>1 DEF AskForNode, FoldLeft, MapThenFoldSet, Max, AskingNode!FoldLeft,
         AskingNode!MapThenFoldSet, AskingNode!Max, AskingNode!Loop, NodeRound
<1>3. AreAsked(at, target, {}, 0, m)
  BY <1>1, WorksIsReflexive DEF AreAsked
<1>4. ASSUME NEW i \in 1..n, NEW s, AreAsked(at, target, {}, i-1, s)
      PROVE  AreAsked(at, target, {}, i, NodeRound(at, target, {}, s, nodes[i]))
  <2> DEFINE dst == nodes[i].nodeID
             sent == kademFindNode(s, target, dst)
  <2>1. Works(w, {}, m, s) /\ Sound(w, s) /\ s.id = m.id
    BY <1>1, <1>4 DEF AreAsked, Works, Progress, Grows
  <2>2. dst \in Others(w, m.id)
    <3>1. nodes[i] \in Unanswered(w, m.id)
      OBVIOUS
    <3> QED BY <3>1 DEF Unanswered
  <2> HIDE DEF dst
  <2>3. Works(w, {}, s, sent)
    BY <2>1, <2>2, FindNodeSent
  <2> HIDE DEF sent
  <2>4. Works(w, {}, m, sent)
    BY <2>1, <2>3, WorksIsTransitive
  <2> QED BY <1>1, <2>4 DEF AreAsked, NodeRound, sent, dst
<1>5. AreAsked(at, target, {}, n, AskingNode!Loop(at, target, {}, m, nodes))
  BY <1>1, <1>3, <1>4, AskingNode!LoopInvariant
<1> QED BY <1>1, <1>2, <1>5 DEF AreAsked

\* The contacts a lookup begins with.
LEMMA FirstContacts ==
  ASSUME NEW w, IsWorld(w), NEW m, Sound(w, m), NEW key \in NodeId \ {m.id}, ~Knows(m, key)
  PROVE  Nearest(m, key) \in Seq(Unanswered(w, m.id)) /\ Len(Nearest(m, key)) <= length_bucket
<1>1. /\ IsTable(Others(w, m.id), w.time, m.table) /\ now \in 0..w.time /\ w.time \in Nat
      /\ m.id \in NodeId
  BY MachineAssumption DEF IsWorld, Sound, IsMachine, TableOK
<1>2. key \notin Ids(m.table[find_node_details(m.id, key)])
  BY DEF Knows
<1>3. /\ Nearest(m, key) \in Seq(NewContactOf(Others(w, m.id), w.time))
      /\ Len(Nearest(m, key)) <= length_bucket
  BY <1>1, <1>2, NearestAreNew DEF Nearest
<1>4. NewContactOf(Others(w, m.id), w.time) \subseteq Unanswered(w, m.id)
  BY DEF NewContactOf, Unanswered
<1> QED BY <1>3, <1>4, SeqMonotonic

\* An object is no contact.
LEMMA ObjectsAreUnknown ==
  ASSUME NEW w, IsWorld(w), NEW m, Sound(w, m), NEW key \in NodeId \ w.nodes
  PROVE  key \in NodeId \ {m.id} /\ ~Knows(m, key)
<1> DEFINE b == find_node_details(m.id, key)
<1>1. m.id \in w.nodes /\ m.id \in NodeId /\ key # m.id
  BY DEF Sound, IsMachine, IsWorld
<1>2. b \in 0..BITS-1
  BY <1>1, BucketNumber
<1>3. m.table[b] \in Seq(ContactOf(Others(w, m.id), w.time))
  BY <1>2 DEF Sound, TableOK, IsTable, IsBucket
<1>4. \A i \in 1..Len(m.table[b]) : m.table[b][i] \in ContactOf(Others(w, m.id), w.time)
  BY <1>3
<1>5. \A c \in ContactOf(Others(w, m.id), w.time) : c.nodeID # key
  BY DEF ContactOf, Others
<1>6. key \notin Ids(m.table[b])
  BY <1>4, <1>5 DEF Ids
<1> QED BY <1>1, <1>6 DEF Knows

\* The first of a list are of it.
LEMMA AtMostType ==
  ASSUME NEW C, NEW list \in Seq(C), NEW n \in Nat
  PROVE  AtMost(list, n) \in Seq(C)
<1> DEFINE k == IF Len(list) < n THEN Len(list) ELSE n
<1>1. k \in Nat /\ 1 \in Nat /\ 1 >= 1 /\ k <= Len(list) /\ 1 <= k+1
  OBVIOUS
<1> HIDE DEF k
<1>2. SubSeq(list, 1, k) \in Seq(C)
  BY <1>1, Part
<1> QED BY <1>2 DEF AtMost, k

\* A lookup that begins with contacts none of which has answered.
LEMMA FreshIsSearch ==
  ASSUME NEW w, NEW id, NEW key, NEW list \in Seq(Unanswered(w, id)), Len(list) <= length_bucket
  PROVE  IsSearch(w, id, key, list)
<1>1. Len(list) \in 0..length_bucket /\ length_bucket \in Nat
  BY NodeDetailsAssumption
<1>2. SplitAt(list, Unanswered(w, id), Answered(w, id, key), Len(list), length_bucket)
  <2>1. list \in Seq(Unanswered(w, id) \cup Answered(w, id, key))
    BY SeqMonotonic
  <2>2. \A i \in 1..Len(list) : list[i] \in Unanswered(w, id)
    OBVIOUS
  <2>3. Len(list) \in 0..Len(list) /\ Len(list) - Len(list) <= length_bucket
        /\ \A i \in Len(list)+1..Len(list) : FALSE
    BY <1>1
  <2> QED BY <2>1, <2>2, <2>3 DEF SplitAt
<1> QED BY <1>1, <1>2 DEF IsSearch, Split

\* A lookup none of whose contacts has answered is kept.
LEMMA SearchBegun ==
  ASSUME NEW w, NEW m, Sound(w, m), NEW key \in NodeId,
         NEW list \in Seq(Unanswered(w, m.id)), Len(list) <= length_bucket, NEW sent
  PROVE  Works(w, {}, m, StoreFindQuery(m, key, list, sent))
<1>1. IsSearch(w, m.id, key, list)
  BY FreshIsSearch
<1> DEFINE stored == [create_store_file(key, list, now) EXCEPT !.count = sent]
           n == [m EXCEPT !.store_find_queries = insert_to_tail_file(@, stored, now)]
<1>2. Works(w, {}, m, n)
  BY <1>1, SearchStored
<1> QED BY <1>2 DEF StoreFindQuery

\* What a handler does to the network when it serves a client: it sends queries
\* other than puts.
Busy(w, m, n) ==
  /\ Sound(w, n)
  /\ Grows(m, n)
  /\ \A p \in n.outbox : p \in m.outbox \/ (p.msg.y = "q" /\ p.msg.q # "put")

\* A step that sends no put is one a machine may make for a client, ...
LEMMA RisksIsBusy ==
  ASSUME NEW w, NEW m, NEW n, Risks(w, {}, m, n)
  PROVE  Busy(w, m, n)
  BY DEF Risks, Progress, Busy

\* ... and so are two of them.
LEMMA BusyIsTransitive ==
  ASSUME NEW w, NEW m1, NEW m2, NEW m3, Busy(w, m1, m2), Busy(w, m2, m3)
  PROVE  Busy(w, m1, m3)
  BY DEF Busy, Grows

\* A machine the counters, objects or clients of which alone have changed.
LEMMA SameIsBusy ==
  ASSUME NEW w, NEW m, NEW n, Sound(w, n),
         SameBut({"stored_values", "latest_query_rpc", "rpc_out"}, m, n)
  PROVE  Busy(w, m, n)
  BY DEF SameBut, Fields, Busy, Grows

\* n is m after it has drawn a transaction id, as the token of a get or of a put.
LEMMA TokenDrawn ==
  ASSUME NEW w, NEW m, Sound(w, m), NEW n, SameBut({"generated", "token_sent"}, m, n),
         n.generated = m.generated + 1,
         TokensOK(m.id, m.generated + 1, n.token_sent), PairsOK(w, m.sent_queries, n.token_sent)
  PROVE  Busy(w, m, n)
<1> DEFINE g == m.generated
<1>1. /\ Transaction(m.id, g) \subseteq Transaction(m.id, g+1) /\ g+1 \in Nat \ {0}
  BY FreshTransaction DEF Sound, IsMachine
<1>2. \A f \in Fields \ {"generated", "token_sent"} : n[f] = m[f]
  BY DEF SameBut
<1>3. n.generated = g+1
  OBVIOUS
<1>4. TokensOK(m.id, g+1, n.token_sent)
  OBVIOUS
<1> HIDE DEF g
<1>5. \A x : IsQuery(w, m.id, g, x) => IsQuery(w, m.id, g+1, x)
  BY <1>1 DEF IsQuery
<1>6. SentOK(w, m.id, g+1, m.sent_queries)
  BY <1>1, <1>5 DEF Sound, SentOK, g
<1>7. OutboxOK(w, m.id, g+1, m.sent_queries, m.outbox)
  BY <1>1, <1>5 DEF Sound, OutboxOK, QueryOK, g
<1>8. IsMachine(w, n)
  BY <1>1, <1>2, <1>3 DEF Sound, IsMachine, SameBut, Fields
<1>9. Sound(w, n)
  BY <1>2, <1>3, <1>4, <1>6, <1>7, <1>8 DEF Sound, Fields
<1>10. Grows(m, n)
  BY <1>1, <1>2, <1>3 DEF Grows, Fields, g
<1> QED BY <1>2, <1>9, <1>10 DEF Busy, Fields

\* A put draws the token of its object, a get one that lets no data out.
LEMMA PutTokenDrawn ==
  ASSUME NEW w, NEW m, Sound(w, m), NEW key \in NodeId \ w.nodes, NEW data, ObjectIn(w, key, data),
         NEW n, n = [m EXCEPT !.generated = @ + 1,
                              !.token_sent = insert_to_tail_file(@,
                                 create_store_file(generateTransactionId(m), data, now), now)]
  PROVE  /\ Busy(w, m, n) /\ SameBut({"generated", "token_sent"}, m, n)
         /\ TokenOK(w, n, generateTransactionId(m), key)
<1> DEFINE g == m.generated
           t == generateTransactionId(m)
           tokens == insert_to_tail_file(m.token_sent, create_store_file(t, data, now), now)
<1>1. /\ n.generated = g+1 /\ n.token_sent = tokens
      /\ SameBut({"generated", "token_sent"}, m, n)
  BY DEF Sound, IsMachine, Fields, SameBut
<1>2. /\ t \notin Transaction(m.id, g) /\ t \in Transaction(m.id, g+1)
      /\ Transaction(m.id, g) \subseteq Transaction(m.id, g+1)
  BY FreshTransaction DEF generateTransactionId, Sound, IsMachine
<1>3. /\ KeyedList(tokens)
      /\ Held(tokens) = {k \in Held(m.token_sent) : k.key # t} \cup {Entry(t, data, 0)}
  BY InsertHeld, NewEntry DEF Sound, TokensOK
<1>4. Entry(t, data, 0).key = t /\ Entry(t, data, 0).value = data
  BY DEF Entry
<1> HIDE DEF tokens, t
<1>5. \A k \in Held(tokens) : k \in Held(m.token_sent) \/ (k.key = t /\ k.value = data)
  BY <1>3, <1>4
<1>6. TokensOK(m.id, g+1, tokens)
  BY <1>2, <1>3, <1>5 DEF Sound, TokensOK
<1>7. PairsOK(w, m.sent_queries, tokens)
  BY <1>2, <1>5 DEF Sound, PairsOK, SentOK, IsQuery
<1>8. Busy(w, m, n)
  BY <1>1, <1>6, <1>7, TokenDrawn
<1>9. TokenOK(w, n, t, key)
  <2>1. n.id = m.id
    BY <1>1 DEF SameBut, Fields
  <2>2. \A k \in Held(tokens) : k.key = t => k.value = data
    BY <1>3, <1>4
  <2> QED BY <1>1, <1>2, <2>1, <2>2 DEF TokenOK
<1> QED BY <1>1, <1>8, <1>9 DEF t

\* The token of a get that no put waits for.
LEMMA GetTokenDrawn ==
  ASSUME NEW w, NEW m, Sound(w, m), NEW key \in NodeId \ w.nodes,
         NEW n, n = [m EXCEPT !.generated = @ + 1]
  PROVE  /\ Busy(w, m, n) /\ SameBut({"generated"}, m, n)
         /\ TokenOK(w, n, generateTransactionId(m), key)
<1> DEFINE g == m.generated
           t == generateTransactionId(m)
<1>1. n.generated = g+1 /\ SameBut({"generated"}, m, n)
  BY DEF Sound, IsMachine, Fields, SameBut
<1>2. n.token_sent = m.token_sent /\ n.id = m.id /\ SameBut({"generated", "token_sent"}, m, n)
  BY <1>1 DEF SameBut, Fields
<1>3. /\ t \notin Transaction(m.id, g) /\ t \in Transaction(m.id, g+1)
      /\ Transaction(m.id, g) \subseteq Transaction(m.id, g+1)
  BY FreshTransaction DEF generateTransactionId, Sound, IsMachine
<1> HIDE DEF t
<1>4. TokensOK(m.id, g+1, n.token_sent) /\ PairsOK(w, m.sent_queries, n.token_sent)
  BY <1>2, <1>3 DEF Sound, TokensOK
<1>5. Busy(w, m, n)
  BY <1>1, <1>2, <1>4, TokenDrawn
<1>6. TokenOK(w, n, t, key)
  BY <1>1, <1>2, <1>3 DEF TokenOK, Sound, TokensOK
<1> QED BY <1>1, <1>5, <1>6 DEF t

\* What a client hears, and what else happens to the machine that serves it.
Told(m, n, client, answer) == n.rpc_out = m.rpc_out \cup {[client |-> client, answer |-> answer]}
Untold(m, n) == n.rpc_out = m.rpc_out
Lasts(m, n) == n.alive = m.alive /\ n.stored_values = m.stored_values
Acquires(m, n, key, data) == n.alive = m.alive /\ HoldsNew(m, n, key, data)

Serves(m, n, req, client) ==
  \/ req.q = "put" /\ Told(m, n, client, OK) /\ (Ended(n) \/ Acquires(m, n, req.value, req.data))
  \/ /\ req.q = "get" /\ Lasts(m, n)
     /\ \/ \E e \in Held(m.stored_values) : e.key = req.value /\ Told(m, n, client, Found(e.value))
        \/ req.value \notin Keys(m.stored_values) /\ Untold(m, n)
  \/ req.q = "ping" /\ Untold(m, n) /\ (("value" \in DOMAIN req /\ Lasts(m, n)) \/ Ended(n))
  \/ /\ req.q = "find_node"
     /\ \/ Lasts(m, n) /\ (Untold(m, n) \/ Told(m, n, client, OK))
        \/ Ended(n) /\ Untold(m, n)
  \/ req.q = "print" /\ Told(m, n, client, OK) /\ Lasts(m, n)
  \/ req.q = "kill_node" /\ Told(m, n, client, OK) /\ Ended(n)

\* The client that waits for a ping is another one only after it asked for it.
Remembers(m, n, req, client) ==
  \/ n.latest_query_rpc = m.latest_query_rpc
  \/ n.latest_query_rpc.query # "ping"
  \/ /\ req.q = "ping" /\ "value" \in DOMAIN req
     /\ n.latest_query_rpc = [query |-> "ping", value |-> req.value, client |-> client]

Served(w, m, n, req, client) ==
  Busy(w, m, n) /\ Serves(m, n, req, client) /\ Remembers(m, n, req, client)

\* A request a client may make of a machine of w.
IsRequest(w, req) ==
  /\ req.q \in {"put", "get", "ping", "find_node", "kill_node", "print"}
  /\ req.q \in {"put", "get"} => req.value \in NodeId \ w.nodes
  /\ req.q = "put" => ObjectIn(w, req.value, req.data)
  /\ req.q = "find_node" => req.value \in NodeId
  /\ req.q = "ping" /\ "value" \in DOMAIN req => req.value \in NodeId

\* Queries that are sent after that change nothing of it.
LEMMA ServedThenWorks ==
  ASSUME NEW w, NEW m1, NEW m2, NEW m3, NEW req, NEW client,
         Served(w, m1, m2, req, client), Works(w, {}, m2, m3)
  PROVE  Served(w, m1, m3, req, client)
<1>1. Busy(w, m2, m3)
  BY WorksIsRisk, RisksIsBusy
<1>2. Busy(w, m1, m3)
  BY <1>1, BusyIsTransitive DEF Served
<1>3. /\ m3.alive = m2.alive /\ m3.stored_values = m2.stored_values /\ m3.rpc_out = m2.rpc_out
      /\ m3.latest_query_rpc = m2.latest_query_rpc /\ m3.token_sent = m2.token_sent
  BY DEF Works, Keeps, Progress
<1>4. Serves(m1, m3, req, client)
  BY <1>3 DEF Served, Serves, Told, Untold, Lasts, Acquires, HoldsNew, Ended
<1>5. Remembers(m1, m3, req, client)
  BY <1>3 DEF Served, Remembers
<1> QED BY <1>2, <1>4, <1>5 DEF Served

\* A print tells the client OK.
LEMMA PrintServed ==
  ASSUME NEW w, NEW m, Sound(w, m), NEW client, NEW req, req.q = "print"
  PROVE  Served(w, m, RPCHandlePrint(m, client), req, client)
<1> DEFINE n == AnswerClient(m, client, OK)
<1>1. /\ Sound(w, n) /\ SameBut({"rpc_out"}, m, n)
      /\ n.rpc_out = m.rpc_out \cup {[client |-> client, answer |-> OK]}
  BY ClientAnswered
<1> HIDE DEF n
<1>2. Busy(w, m, n)
  BY <1>1, SameIsBusy DEF SameBut
<1>3. Serves(m, n, req, client) /\ Remembers(m, n, req, client)
  BY <1>1 DEF SameBut, Fields, Serves, Told, Lasts, Remembers
<1> QED BY <1>2, <1>3 DEF Served, RPCHandlePrint, n

\* A kill_node tells the client OK and ends the machine.
LEMMA KillServed ==
  ASSUME NEW w, IsWorld(w), NEW m, Sound(w, m), NEW client, NEW req, req.q = "kill_node"
  PROVE  Served(w, m, RPCHandleKillNode(m, client), req, client)
<1> DEFINE k == AnswerClient(m, client, OK)
           n == Die(k)
<1>1. /\ Sound(w, k) /\ SameBut({"rpc_out"}, m, k)
      /\ k.rpc_out = m.rpc_out \cup {[client |-> client, answer |-> OK]}
  BY ClientAnswered
<1> HIDE DEF k
<1>2. Risks(w, {}, k, n) /\ Ended(n)
  BY <1>1, DeathIsSound
<1> HIDE DEF n
<1>3. Busy(w, m, n)
  BY <1>1, <1>2, SameIsBusy, RisksIsBusy, BusyIsTransitive DEF SameBut
<1>4. n.rpc_out = k.rpc_out /\ n.latest_query_rpc.query = ""
  BY <1>2 DEF Risks, Progress, Ended
<1>5. Serves(m, n, req, client) /\ Remembers(m, n, req, client)
  BY <1>1, <1>2, <1>4 DEF Serves, Told, Remembers
<1> QED BY <1>3, <1>5 DEF Served, RPCHandleKillNode, n, k

\* A request a machine dies of without a word.
LEMMA DeathServes ==
  ASSUME NEW w, IsWorld(w), NEW m, Sound(w, m), NEW client, NEW req, req.q \in {"ping", "find_node"}
  PROVE  Served(w, m, Die(m), req, client)
<1> DEFINE n == Die(m)
<1>1. Risks(w, {}, m, n) /\ Ended(n)
  BY DeathIsSound
<1> HIDE DEF n
<1>2. Busy(w, m, n)
  BY <1>1, RisksIsBusy
<1>3. n.rpc_out = m.rpc_out /\ n.latest_query_rpc.query = ""
  BY <1>1 DEF Risks, Progress, Ended
<1>4. Serves(m, n, req, client) /\ Remembers(m, n, req, client)
  BY <1>1, <1>3 DEF Serves, Untold, Remembers
<1> QED BY <1>2, <1>4 DEF Served, n

\* The request of a client is remembered.
LEMMA LatestServes ==
  ASSUME NEW w, NEW m, Sound(w, m), NEW client, NEW req,
         (req.q = "ping" /\ "value" \in DOMAIN req) \/ req.q = "find_node"
  PROVE  Served(w, m, Latest(m, req.q, req.value, client), req, client)
<1> DEFINE latest == [query |-> req.q, value |-> req.value, client |-> client]
           n == [m EXCEPT !.latest_query_rpc = latest]
<1>1. DOMAIN latest = {"query", "value", "client"}
  OBVIOUS
<1> HIDE DEF latest
<1>2. Sound(w, n) /\ SameBut({"latest_query_rpc"}, m, n) /\ n.latest_query_rpc = latest
  BY <1>1, LatestChanges
<1>3. n = Latest(m, req.q, req.value, client)
  BY DEF Latest, latest
<1> HIDE DEF n
<1>4. Busy(w, m, n)
  BY <1>2, SameIsBusy DEF SameBut
<1>5. Serves(m, n, req, client)
  BY <1>2 DEF SameBut, Fields, Serves, Untold, Lasts
<1>6. Remembers(m, n, req, client)
  BY <1>2 DEF Remembers, latest
<1> QED BY <1>3, <1>4, <1>5, <1>6 DEF Served

\* A lookup for a node that is not known begins.
LEMMA NodeLookupBegins ==
  ASSUME NEW w, IsWorld(w), NEW m, Sound(w, m), NEW k, NEW req, NEW client,
         Served(w, m, k, req, client), NEW key \in NodeId,
         NEW list \in Seq(Unanswered(w, m.id)), Len(list) <= length_bucket,
         NEW nodes \in Seq(Unanswered(w, m.id)), NEW sent
  PROVE  Served(w, m, AskForNode(StoreFindQuery(k, key, list, sent), key, nodes), req, client)
<1> DEFINE begun == StoreFindQuery(k, key, list, sent)
<1>1. Sound(w, k) /\ k.id = m.id
  BY DEF Served, Busy, Grows
<1>2. Works(w, {}, k, begun)
  BY <1>1, SearchBegun
<1> HIDE DEF begun
<1>3. Sound(w, begun) /\ begun.id = m.id
  BY <1>1, <1>2 DEF Works, Progress, Grows
<1>4. Works(w, {}, begun, AskForNode(begun, key, nodes))
  BY <1>3, NodeAsked
<1> QED BY <1>2, <1>4, WorksIsTransitive, ServedThenWorks DEF begun

\* A ping is sent, looked up, or kills the machine that is asked for itself.
LEMMA PingServedLocally ==
  ASSUME NEW w, IsWorld(w), NEW m, Sound(w, m), NEW client, NEW req,
         req.q = "ping", "value" \in DOMAIN req, req.value \in NodeId
  PROVE  Served(w, m, RPCHandlePing(m, req.value, client), req, client)
<1> DEFINE id == req.value
           near == Nearest(m, id)
           begun == Latest(m, "ping", id, client)
           n == RPCHandlePing(m, id, client)
<1>1. Served(w, m, begun, req, client)
  BY LatestServes
<1> HIDE DEF begun
<1>2. CASE id = m.id
  BY <1>2, DeathServes DEF RPCHandlePing
<1>3. CASE id # m.id /\ Knows(m, id)
  <2>1. n = kademPing(m, id)
    BY <1>3 DEF RPCHandlePing
  <2>2. id \in Others(w, m.id)
    BY <1>3, ObjectsAreUnknown DEF Others
  <2>3. Works(w, {}, m, kademPing(m, id))
    BY <2>2, PingSent
  <2>4. Served(w, m, m, req, client)
    BY WorksIsReflexive, WorksIsRisk, RisksIsBusy
    DEF Served, Serves, Untold, Lasts, Remembers
  <2> QED BY <2>1, <2>3, <2>4, ServedThenWorks
<1>4. CASE id # m.id /\ ~Knows(m, id)
  <2>1. near \in Seq(Unanswered(w, m.id)) /\ Len(near) <= length_bucket
    BY <1>4, FirstContacts
  <2>2. n \in {begun, AskForNode(StoreFindQuery(begun, id, near, Len(near)), id, near)}
    BY <1>4 DEF RPCHandlePing, begun
  <2> HIDE DEF near
  <2> QED BY <1>1, <2>1, <2>2, NodeLookupBegins
<1> QED BY <1>2, <1>3, <1>4

\* The contacts of a find_node, those that are asked marked but for the head.
LEMMA SearchMarked ==
  ASSUME NEW w, NEW id, NEW list \in Seq(Unanswered(w, id)), NEW marked,
         marked = [i \in DOMAIN list |-> marked[i]],
         \A i \in DOMAIN list : marked[i] \in {list[i], [list[i] EXCEPT !.count = 1]}
  PROVE  marked \in Seq(Unanswered(w, id)) /\ Len(marked) = Len(list)
<1> DEFINE n == Len(list)
<1>1. n \in Nat /\ DOMAIN list = 1..n
  OBVIOUS
<1>2. \A i \in 1..n : list[i] \in Unanswered(w, id)
  OBVIOUS
<1>3. ASSUME NEW c \in Unanswered(w, id) PROVE [c EXCEPT !.count = 1] \in Unanswered(w, id)
  BY DEF Unanswered
<1>4. \A i \in 1..n : marked[i] \in Unanswered(w, id)
  BY <1>1, <1>2, <1>3
<1>5. DOMAIN marked = 1..n /\ marked = [i \in 1..n |-> marked[i]]
  BY <1>1
<1> QED BY <1>1, <1>4, <1>5

\* A find_node is answered, looked up, or kills the machine that is asked for itself.
LEMMA FindNodeServedLocally ==
  ASSUME NEW w, IsWorld(w), NEW m, Sound(w, m), NEW client, NEW req,
         req.q = "find_node", req.value \in NodeId
  PROVE  Served(w, m, RPCHandleFindNode(m, req.value, client), req, client)
<1> DEFINE id == req.value
           near == Nearest(m, id)
           asked == AtMost(near, KADEM_ALPHA)
           marked == [i \in DOMAIN near |->
                        IF i \in 2..Len(asked) THEN [near[i] EXCEPT !.count = 1] ELSE near[i]]
           begun == Latest(m, "find_node", id, client)
           n == RPCHandleFindNode(m, id, client)
<1>1. Served(w, m, begun, req, client)
  BY LatestServes
<1>2. CASE id = m.id
  BY <1>2, DeathServes DEF RPCHandleFindNode
<1>3. CASE id # m.id /\ Knows(m, id)
  <2> DEFINE k == AnswerClient(m, client, OK)
  <2>1. n = k
    BY <1>3 DEF RPCHandleFindNode
  <2>2. /\ Sound(w, k) /\ SameBut({"rpc_out"}, m, k)
        /\ k.rpc_out = m.rpc_out \cup {[client |-> client, answer |-> OK]}
    BY ClientAnswered
  <2> HIDE DEF k, n
  <2>3. Busy(w, m, k)
    BY <2>2, SameIsBusy DEF SameBut
  <2>4. Serves(m, k, req, client) /\ Remembers(m, k, req, client)
    BY <2>2 DEF SameBut, Fields, Serves, Told, Lasts, Remembers
  <2> QED BY <2>1, <2>3, <2>4 DEF Served, n
<1>4. CASE id # m.id /\ ~Knows(m, id)
  <2>1. near \in Seq(Unanswered(w, m.id)) /\ Len(near) <= length_bucket
    BY <1>4, FirstContacts
  <2>2. n \in {begun, AskForNode(StoreFindQuery(begun, id, marked, Len(asked)), id, asked)}
    BY <1>4 DEF RPCHandleFindNode
  <2> HIDE DEF near, begun, n
  <2>3. asked \in Seq(Unanswered(w, m.id))
    BY <2>1, AtMostType, MachineAssumption
  <2>4. marked \in Seq(Unanswered(w, m.id)) /\ Len(marked) = Len(near)
    <3>1. \A i \in DOMAIN near : marked[i] \in {near[i], [near[i] EXCEPT !.count = 1]}
      OBVIOUS
    <3>2. marked = [i \in DOMAIN near |-> marked[i]]
      OBVIOUS
    <3> HIDE DEF marked
    <3> QED BY <2>1, <3>1, <3>2, SearchMarked
  <2> HIDE DEF asked, marked
  <2>5. Len(marked) <= length_bucket
    BY <2>1, <2>4
  <2>6. Served(w, m, n, req, client)
    BY <1>1, <2>2, <2>3, <2>4, <2>5, NodeLookupBegins
  <2> QED BY <2>6 DEF n
<1> QED BY <1>2, <1>3, <1>4

\* A lookup for an object begins.
LEMMA ValueLookupBegins ==
  ASSUME NEW w, IsWorld(w), NEW m, Sound(w, m), NEW k, NEW req, NEW client,
         Served(w, m, k, req, client), NEW key \in NodeId, NEW token, TokenOK(w, k, token, key),
         NEW list \in Seq(Unanswered(w, m.id)), Len(list) <= length_bucket,
         NEW nodes \in Seq(Unanswered(w, m.id)), NEW sent
  PROVE  Served(w, m, AskForValue(StoreFindQuery(k, key, list, sent), key, token, nodes), req, client)
<1> DEFINE begun == StoreFindQuery(k, key, list, sent)
<1>1. Sound(w, k) /\ k.id = m.id
  BY DEF Served, Busy, Grows
<1>2. Works(w, {}, k, begun)
  BY <1>1, SearchBegun
<1> HIDE DEF begun
<1>3. Sound(w, begun) /\ begun.id = m.id
  BY <1>1, <1>2 DEF Works, Progress, Grows
<1>4. TokenOK(w, begun, token, key)
  BY <1>2, TokenStaysOK
<1>5. Works(w, {}, begun, AskForValue(begun, key, token, nodes))
  BY <1>3, <1>4, ValueAsked
<1> QED BY <1>2, <1>5, WorksIsTransitive, ServedThenWorks DEF begun

\* A put stores the object, tells the client OK, and asks for nodes to store it on;
\* it kills a machine that knows nobody.
LEMMA PutServed ==
  ASSUME NEW w, IsWorld(w), NEW m, Sound(w, m), m.alive, NEW client, NEW req,
         req.q = "put", IsRequest(w, req)
  PROVE  Served(w, m, RPCHandleStoreValue(m, req.value, req.data, client), req, client)
<1> DEFINE key == req.value
           data == req.data
           token == generateTransactionId(m)
           k1 == StoreLocally(m, key, data)
           k2 == AnswerClient(k1, client, OK)
           local == [k2 EXCEPT !.generated = @ + 1,
                       !.token_sent = insert_to_tail_file(@, create_store_file(token, data, now), now)]
           near == Nearest(m, key)
           asked == AtMost(near, KADEM_ALPHA)
           n == RPCHandleStoreValue(m, key, data, client)
<1>1. key \in NodeId \ w.nodes /\ ObjectIn(w, key, data)
  BY DEF IsRequest
<1>2. n = IF near = <<>> THEN Die(local)
          ELSE AskForValue(StoreFindQuery(local, key, near, Len(asked)), key, token, asked)
  BY DEF RPCHandleStoreValue
<1> HIDE DEF n
<1>3. Sound(w, k1) /\ SameBut({"stored_values"}, m, k1) /\ HoldsNew(m, k1, key, data)
  BY <1>1, ObjectStored
<1> HIDE DEF k1
<1>4. /\ Sound(w, k2) /\ SameBut({"rpc_out"}, k1, k2)
      /\ k2.rpc_out = k1.rpc_out \cup {[client |-> client, answer |-> OK]}
  BY <1>3, ClientAnswered
<1> HIDE DEF k2
<1>5. generateTransactionId(k2) = token
  BY <1>3, <1>4 DEF SameBut, Fields, generateTransactionId
<1>6. /\ Busy(w, k2, local) /\ SameBut({"generated", "token_sent"}, k2, local)
      /\ TokenOK(w, local, token, key)
  BY <1>1, <1>4, <1>5, PutTokenDrawn
<1> HIDE DEF local, token
<1>7. Busy(w, m, local)
  <2>1. Busy(w, m, k2)
    <3>1. SameBut({"stored_values", "latest_query_rpc", "rpc_out"}, m, k2)
      BY <1>3, <1>4 DEF SameBut, Fields
    <3> QED BY <1>4, <3>1, SameIsBusy
  <2> QED BY <1>6, <2>1, BusyIsTransitive
<1>8. /\ \A f \in Fields \ {"stored_values", "rpc_out", "generated", "token_sent"} : local[f] = m[f]
      /\ local.stored_values = k1.stored_values /\ Told(m, local, client, OK)
  BY <1>3, <1>4, <1>6 DEF SameBut, Fields, Told
<1>9. Served(w, m, local, req, client)
  <2>1. Serves(m, local, req, client)
    BY <1>3, <1>8 DEF Serves, Acquires, HoldsNew, Fields
  <2>2. Remembers(m, local, req, client)
    BY <1>8 DEF Remembers, Fields
  <2> QED BY <1>7, <2>1, <2>2 DEF Served
<1>10. CASE near = <<>>
  <2>1. Risks(w, {}, local, Die(local)) /\ Ended(Die(local))
    BY <1>7, DeathIsSound DEF Busy
  <2>2. n = Die(local)
    BY <1>2, <1>10
  <2> HIDE DEF near
  <2>3. Risks(w, {}, local, n) /\ Ended(n)
    BY <2>1, <2>2
  <2>4. Busy(w, m, n)
    BY <1>7, <2>3, RisksIsBusy, BusyIsTransitive
  <2>5. n.rpc_out = local.rpc_out /\ n.latest_query_rpc.query = ""
    BY <2>3 DEF Risks, Progress, Ended
  <2>6. Serves(m, n, req, client) /\ Remembers(m, n, req, client)
    BY <1>8, <2>3, <2>5 DEF Serves, Told, Remembers
  <2> QED BY <2>4, <2>6 DEF Served, n
<1>11. CASE near # <<>>
  <2>1. n = AskForValue(StoreFindQuery(local, key, near, Len(asked)), key, token, asked)
    BY <1>2, <1>11
  <2>2. near \in Seq(Unanswered(w, m.id)) /\ Len(near) <= length_bucket
    BY <1>1, ObjectsAreUnknown, FirstContacts
  <2> HIDE DEF near
  <2>3. asked \in Seq(Unanswered(w, m.id))
    BY <2>2, AtMostType, MachineAssumption
  <2> HIDE DEF asked
  <2>4. Served(w, m, n, req, client)
    BY <1>1, <1>6, <1>9, <2>1, <2>2, <2>3, ValueLookupBegins
  <2> QED BY <2>4 DEF n
<1> QED BY <1>10, <1>11

\* A get is answered with the object, or looked up.
LEMMA GetServed ==
  ASSUME NEW w, IsWorld(w), NEW m, Sound(w, m), m.alive, NEW client, NEW req,
         req.q = "get", IsRequest(w, req)
  PROVE  Served(w, m, RPCHandleFindValue(m, req.value, client), req, client)
<1> DEFINE key == req.value
           token == generateTransactionId(m)
           drawn == [m EXCEPT !.generated = @ + 1]
           near == Nearest(m, key)
           begun == Latest(drawn, "get", key, client)
           e == find_key(m.stored_values, key)
           n == RPCHandleFindValue(m, key, client)
<1>1. key \in NodeId \ w.nodes
  BY DEF IsRequest
<1>2. Busy(w, m, drawn) /\ SameBut({"generated"}, m, drawn) /\ TokenOK(w, drawn, token, key)
  BY <1>1, GetTokenDrawn
<1>3. n = IF key \in Keys(m.stored_values) THEN AnswerClient(drawn, client, Found(e.value))
          ELSE IF near = <<>> THEN begun
          ELSE AskForValue(StoreFindQuery(begun, key, near, Len(near)), key, token, near)
  BY DEF RPCHandleFindValue
<1> HIDE DEF drawn, token, n
<1>4. CASE key \in Keys(m.stored_values)
  <2> DEFINE k == AnswerClient(drawn, client, Found(e.value))
  <2>1. n = k
    BY <1>3, <1>4
  <2>2. e \in Held(m.stored_values) /\ e.key = key
    BY <1>4, FindHeld DEF Sound, StoredOK
  <2> HIDE DEF e
  <2>3. /\ Sound(w, k) /\ SameBut({"rpc_out"}, drawn, k)
        /\ k.rpc_out = drawn.rpc_out \cup {[client |-> client, answer |-> Found(e.value)]}
    BY <1>2, ClientAnswered DEF Busy
  <2> HIDE DEF k
  <2>4. Busy(w, m, k)
    <3>1. Busy(w, drawn, k)
      BY <2>3, SameIsBusy DEF SameBut
    <3> QED BY <1>2, <3>1, BusyIsTransitive
  <2>5. /\ \A f \in Fields \ {"rpc_out", "generated"} : k[f] = m[f]
        /\ Told(m, k, client, Found(e.value))
    BY <1>2, <2>3 DEF SameBut, Fields, Told
  <2>6. Serves(m, k, req, client) /\ Remembers(m, k, req, client)
    BY <2>2, <2>5 DEF Serves, Lasts, Remembers, Fields
  <2>7. Served(w, m, k, req, client)
    BY <2>4, <2>6 DEF Served
  <2> QED BY <2>1, <2>7 DEF n
<1>5. CASE key \notin Keys(m.stored_values)
  <2> DEFINE latest == [query |-> "get", value |-> key, client |-> client]
  <2>1. DOMAIN latest = {"query", "value", "client"} /\ latest.query = "get"
    OBVIOUS
  <2>2. begun = [drawn EXCEPT !.latest_query_rpc = latest]
    BY DEF Latest
  <2> HIDE DEF latest, begun
  <2>3. /\ Sound(w, begun) /\ SameBut({"latest_query_rpc"}, drawn, begun)
        /\ begun.latest_query_rpc = latest
    BY <1>2, <2>1, <2>2, LatestChanges DEF Busy
  <2>4. Busy(w, m, begun)
    <3>1. Busy(w, drawn, begun)
      BY <2>3, SameIsBusy DEF SameBut
    <3> QED BY <1>2, <3>1, BusyIsTransitive
  <2>5. \A f \in Fields \ {"latest_query_rpc", "generated"} : begun[f] = m[f]
    BY <1>2, <2>3 DEF SameBut
  <2>6. Serves(m, begun, req, client) /\ Remembers(m, begun, req, client)
    BY <1>5, <2>1, <2>3, <2>5 DEF Serves, Untold, Lasts, Remembers, Fields
  <2>7. Served(w, m, begun, req, client)
    BY <2>4, <2>6 DEF Served
  <2>8. TokenOK(w, begun, token, key)
    BY <1>2, <2>3 DEF TokenOK, SameBut, Fields
  <2>9. near \in Seq(Unanswered(w, m.id)) /\ Len(near) <= length_bucket
    BY <1>1, ObjectsAreUnknown, FirstContacts
  <2>10. n \in {begun, AskForValue(StoreFindQuery(begun, key, near, Len(near)), key, token, near)}
    BY <1>3, <1>5
  <2> HIDE DEF near
  <2>11. Served(w, m, n, req, client)
    BY <1>1, <2>7, <2>8, <2>9, <2>10, ValueLookupBegins
  <2> QED BY <2>11 DEF n
<1> QED BY <1>4, <1>5

\* A request is served: what the client hears and what becomes of the objects.
THEOREM RequestServed ==
  ASSUME NEW w, IsWorld(w), NEW m, Sound(w, m), m.alive, NEW client, NEW req, IsRequest(w, req)
  PROVE  Served(w, m, HandleRequest(m, req, client), req, client)
<1>1. CASE req.q = "put"
  BY <1>1, PutServed DEF HandleRequest
<1>2. CASE req.q = "get"
  BY <1>2, GetServed DEF HandleRequest
<1>3. CASE req.q = "ping" /\ "value" \in DOMAIN req
  BY <1>3, PingServedLocally DEF HandleRequest, IsRequest
<1>4. CASE req.q = "ping" /\ "value" \notin DOMAIN req
  BY <1>4, DeathServes DEF HandleRequest
<1>5. CASE req.q = "find_node"
  BY <1>5, FindNodeServedLocally DEF HandleRequest, IsRequest
<1>6. CASE req.q = "kill_node"
  BY <1>6, KillServed DEF HandleRequest
<1>7. CASE req.q = "print"
  BY <1>7, PrintServed DEF HandleRequest
<1> QED BY <1>1, <1>2, <1>3, <1>4, <1>5, <1>6, <1>7 DEF IsRequest

\* No request makes a lookup take a node for one that has answered.
THEOREM RequestsAnswerNothing ==
  ASSUME NEW w, IsWorld(w), NEW m, Sound(w, m), m.alive, m.outbox = {}, NEW client, NEW req, IsRequest(w, req)
  PROVE  Results(HandleRequest(m, req, client)) \subseteq Results(m)
<1> DEFINE v == OwnWorld(w, m)
           n == HandleRequest(m, req, client)
<1>1. IsWorld(v) /\ Sound(v, m)
  BY SoundInOwnWorld
<1>2. IsRequest(v, req)
  BY DEF IsRequest, OwnWorld, ObjectIn
<1> HIDE DEF v
<1>3. Served(v, m, n, req, client)
  BY <1>1, <1>2, RequestServed
<1> HIDE DEF n
<1>4. Sound(v, n) /\ n.id = m.id
  BY <1>3 DEF Served, Busy, Grows
<1> QED BY <1>4, NobodyElseAnswered DEF v, n

-----------------------------------------------------------------------------
(* The world grows.                                                          *)

Widens(w, x) ==
  /\ x.nodes = w.nodes /\ w.time \in Nat /\ x.time \in Nat /\ w.time <= x.time
  /\ w.objects \subseteq x.objects /\ w.replied \subseteq x.replied

\* More objects are put, more queries answered, time passes: what is sound stays so.
LEMMA StaysSound ==
  ASSUME NEW w, NEW x, Widens(w, x), NEW m, Sound(w, m)
  PROVE  Sound(x, m)
<1>1. 0..w.time \subseteq 0..x.time
  BY DEF Widens
<1>2. /\ \A id : Others(w, id) = Others(x, id)
      /\ \A key, data : ObjectIn(w, key, data) => ObjectIn(x, key, data)
      /\ \A id, node, key : RepliedIn(w, id, node, key) => RepliedIn(x, id, node, key)
  BY DEF Widens, Others, ObjectIn, RepliedIn
<1>3. TableOK(x, m.id, m.table)
  <2>1. ContactOf(Others(w, m.id), w.time) \subseteq ContactOf(Others(x, m.id), x.time)
    BY <1>1, <1>2 DEF ContactOf
  <2>2. ASSUME NEW list, IsBucket(Others(w, m.id), w.time, list)
        PROVE  IsBucket(Others(x, m.id), x.time, list)
    BY <2>1, <2>2, SeqMonotonic DEF IsBucket
  <2> QED BY <2>2 DEF Sound, TableOK, IsTable
<1>4. SearchesOK(x, m.id, m.store_find_queries)
  <2>1. ASSUME NEW key, NEW list, IsSearch(w, m.id, key, list) PROVE IsSearch(x, m.id, key, list)
    <3>1. Unanswered(w, m.id) \subseteq Unanswered(x, m.id)
      BY <1>1, <1>2 DEF Unanswered
    <3>2. Answered(w, m.id, key) \subseteq Answered(x, m.id, key)
      BY <1>1, <1>2 DEF Answered
    <3> DEFINE A == Unanswered(w, m.id)
               B == Answered(w, m.id, key)
               C == Unanswered(x, m.id)
               D == Answered(x, m.id, key)
    <3>3. PICK k \in 0..length_bucket : SplitAt(list, A, B, k, length_bucket)
      BY <2>1 DEF IsSearch, Split
    <3>4. A \cup B \subseteq C \cup D
      BY <3>1, <3>2
    <3> HIDE DEF A, B, C, D
    <3>5. list \in Seq(C \cup D)
      BY <3>3, <3>4, SeqMonotonic DEF SplitAt
    <3>6. SplitAt(list, C, D, k, length_bucket)
      BY <3>1, <3>2, <3>3, <3>5 DEF SplitAt, A, B, C, D
    <3> QED BY <3>6 DEF IsSearch, Split, C, D
  <2> QED BY <2>1 DEF Sound, SearchesOK
<1>5. \A v : IsQuery(w, m.id, m.generated, v) => IsQuery(x, m.id, m.generated, v)
  BY DEF IsQuery, Widens
<1>6. SentOK(x, m.id, m.generated, m.sent_queries)
  BY <1>5 DEF Sound, SentOK
<1>7. OutboxOK(x, m.id, m.generated, m.sent_queries, m.outbox)
  BY <1>2, <1>5 DEF Sound, OutboxOK, QueryOK
<1>8. IsMachine(x, m)
  BY DEF Sound, IsMachine, Widens
<1> QED
  BY <1>2, <1>3, <1>4, <1>6, <1>7, <1>8 DEF Sound, StoredOK, WaitingOK, PairsOK

\* A query on its way stays so while its sender goes on.
LEMMA QueryStaysOK ==
  ASSUME NEW w, NEW x, Widens(w, x), NEW m, NEW n, Grows(m, n),
         NEW p, QueryOK(w, m.id, m.generated, m.sent_queries, p)
  PROVE  QueryOK(x, n.id, n.generated, n.sent_queries, p)
  BY DEF Widens, Grows, QueryOK, IsQuery, ObjectIn, RepliedIn

\* An answer on its way fits every query it may be taken to answer.
LEMMA AnswerStaysOK ==
  ASSUME NEW w, NEW x, Widens(w, x), NEW m, NEW n, Grows(m, n),
         NEW msg, NEW src, IsAnswerTo(w, m, msg, src)
  PROVE  IsAnswerTo(x, n, msg, src)
  BY DEF Widens, Grows, IsAnswerTo, Fits, ObjectIn, RepliedIn

\* The answer to a query fits what its sender keeps of the query.
LEMMA AnswerFits ==
  ASSUME NEW w, NEW m, NEW q, NEW src, NEW p,
         QueryOK(w, m.id, m.generated, m.sent_queries, q),
         AnswersQuery(w, src, q.msg, m.id, p), p.msg.y = "r",
         q.msg.q = "find_node" => RepliedIn(w, m.id, src, q.msg.target),
         q.msg.q = "get" => RepliedIn(w, m.id, src, q.msg.value)
  PROVE  IsAnswerTo(w, m, p.msg, src)
<1>1. p.msg.t = q.msg.t /\ q.msg.t \in Transaction(m.id, m.generated)
  BY DEF QueryOK, AnswersQuery
<1>2. ASSUME NEW e \in Held(m.sent_queries), e.key = q.msg.t
      PROVE  Fits(w, m.id, src, e.value, p.msg)
  <2>1. Carries(e.value, q.msg)
    BY <1>2 DEF QueryOK
  <2> QED BY <2>1 DEF Carries, Fits, AnswersQuery
<1> QED BY <1>1, <1>2 DEF IsAnswerTo
=============================================================================
