------------------------- MODULE ContactTableProofs -------------------------
(***************************************************************************)
(* What the contact table of a machine keeps, whoever pings it and however *)
(* late its own pings are answered: contacts are in the buckets of their   *)
(* distances, and nobody waits for a place without a reason.               *)
(***************************************************************************)
EXTENDS ContactTable, MachineProofs

-----------------------------------------------------------------------------
(* The invariant. *)

\* The neighbours whose bucket is b.
Near(b) == {id \in Neighbour : find_node_details(Self, id) = b}

\* A contact has been pinged at least as often as those behind it.
Falling(list) == \A i, j \in 1..Len(list) : i < j => list[j].count <= list[i].count

\* A table whose contacts are in the buckets of their distances.
Placed(t, table) ==
  /\ DOMAIN table = Buckets
  /\ \A b \in Buckets : IsBucket(Near(b), t, table[b]) /\ Falling(table[b])

\* The queries a machine has sent but not yet handed over, as the pings they are.
SentPings(n) ==
  {[t |-> p.msg.t, dst |-> p.dst, at |-> now] : p \in {sent \in n.outbox : sent.msg.y = "q"}}

\* Nodes that wait, each for the answer to one of pending or for one that is
\* late already.
Waiting(pending, waiting) ==
  /\ KeyedList(waiting)
  /\ \A e \in Held(waiting) :
       /\ e.key \in Neighbour /\ e.value \in Neighbour /\ e.timestamp \in 0..now
       /\ find_node_details(Self, e.key) = find_node_details(Self, e.value)
       /\ \/ now - e.timestamp > KADEM_TIMEOUT_REFRESH_QUERY
          \/ \E p \in pending : p.dst = e.key /\ p.at = e.timestamp

\* The queries that are kept are pings.
OnlyPings(g, queries) ==
  /\ KeyedList(queries)
  /\ \A e \in Held(queries) : e.key \in Transaction(Self, g) /\ e.value.q = "ping"

\* What is kept of a ping has the time it was sent at.
Timed(pending, g, queries) ==
  \A p \in pending :
    /\ p.t \in Transaction(Self, g) /\ p.dst \in Neighbour
    /\ \A e \in Held(queries) : e.key = p.t => e.timestamp = p.at

\* A machine in the middle of a handler, P the pings before it, ...
Steady(P, n) ==
  /\ DOMAIN n = Fields /\ n.id = Self /\ n.generated \in Nat \ {0} /\ n.alive = TRUE
  /\ Placed(now, n.table)
  /\ OnlyPings(n.generated, n.sent_queries)
  /\ Timed(P \cup SentPings(n), n.generated, n.sent_queries)
  /\ Waiting(P \cup SentPings(n), n.waiting_nodes)

\* ... and one that has ended.
Gone(n) ==
  /\ DOMAIN n = Fields /\ n.alive = FALSE
  /\ n.table = [b \in Buckets |-> <<>>]
  /\ n.waiting_nodes = <<>>

IInv ==
  /\ now \in 0..MaxTime /\ pings \in 0..MaxPings
  /\ m.outbox = {}
  /\ Steady(pinged, m) \/ Gone(m)

-----------------------------------------------------------------------------
(* Changes of a machine.                                                     *)

\* A machine whose table, and nothing else, becomes another one.
LEMMA TableSteady ==
  ASSUME NEW P, NEW n, Steady(P, n), NEW table, Placed(now, table)
  PROVE  Steady(P, [n EXCEPT !.table = table])
<1> DEFINE k == [n EXCEPT !.table = table]
<1>1. DOMAIN k = Fields /\ k.table = table /\ \A f \in Fields \ {"table"} : k[f] = n[f]
  BY DEF Steady, Fields
<1> HIDE DEF k
<1>2. /\ k.id = n.id /\ k.generated = n.generated /\ k.alive = n.alive /\ k.outbox = n.outbox
      /\ k.sent_queries = n.sent_queries /\ k.waiting_nodes = n.waiting_nodes
  BY <1>1 DEF Fields
<1>3. SentPings(k) = SentPings(n)
  BY <1>2 DEF SentPings
<1>4. Steady(P, k)
  BY <1>1, <1>2, <1>3 DEF Steady
<1> QED BY <1>4 DEF k

\* The same for the nodes that wait.
LEMMA WaitingSteady ==
  ASSUME NEW P, NEW n, Steady(P, n), NEW waiting, Waiting(P \cup SentPings(n), waiting)
  PROVE  Steady(P, [n EXCEPT !.waiting_nodes = waiting])
<1> DEFINE k == [n EXCEPT !.waiting_nodes = waiting]
<1>1. DOMAIN k = Fields /\ k.waiting_nodes = waiting /\ \A f \in Fields \ {"waiting_nodes"} : k[f] = n[f]
  BY DEF Steady, Fields
<1> HIDE DEF k
<1>2. /\ k.id = n.id /\ k.generated = n.generated /\ k.alive = n.alive /\ k.outbox = n.outbox
      /\ k.sent_queries = n.sent_queries /\ k.table = n.table
  BY <1>1 DEF Fields
<1>3. SentPings(k) = SentPings(n)
  BY <1>2 DEF SentPings
<1>4. Steady(P, k)
  BY <1>1, <1>2, <1>3 DEF Steady
<1> QED BY <1>4 DEF k

\* Queries that are forgotten are not missed, ...
LEMMA QueriesSteady ==
  ASSUME NEW P, NEW n, Steady(P, n), NEW queries, KeyedList(queries),
         Held(queries) \subseteq Held(n.sent_queries)
  PROVE  Steady(P, [n EXCEPT !.sent_queries = queries])
<1> DEFINE k == [n EXCEPT !.sent_queries = queries]
<1>1. DOMAIN k = Fields /\ k.sent_queries = queries /\ \A f \in Fields \ {"sent_queries"} : k[f] = n[f]
  BY DEF Steady, Fields
<1> HIDE DEF k
<1>2. /\ k.id = n.id /\ k.generated = n.generated /\ k.alive = n.alive /\ k.outbox = n.outbox
      /\ k.waiting_nodes = n.waiting_nodes /\ k.table = n.table
  BY <1>1 DEF Fields
<1>3. SentPings(k) = SentPings(n)
  BY <1>2 DEF SentPings
<1>4. OnlyPings(n.generated, queries) /\ Timed(P \cup SentPings(n), n.generated, queries)
  BY DEF Steady, OnlyPings, Timed
<1>5. Steady(P, k)
  BY <1>1, <1>2, <1>3, <1>4 DEF Steady
<1> QED BY <1>5 DEF k

\* ... nor does it matter what a machine keeps of other things.
LEMMA OthersSteady ==
  ASSUME NEW P, NEW n, Steady(P, n), NEW k, DOMAIN k = Fields,
         k.id = n.id, k.generated = n.generated, k.alive = n.alive, k.table = n.table,
         k.sent_queries = n.sent_queries, k.waiting_nodes = n.waiting_nodes,
         SentPings(k) = SentPings(n)
  PROVE  Steady(P, k)
  BY DEF Steady

\* A ping is sent: it is under way from now on, and kept under a new identifier.
LEMMA PingSteady ==
  ASSUME now \in Nat, NEW P, NEW n, Steady(P, n), NEW dst \in Neighbour
  PROVE  LET k == kademPing(n, dst)
         IN  /\ Steady(P, k)
             /\ k.table = n.table /\ k.waiting_nodes = n.waiting_nodes
             /\ \E p \in SentPings(k) : p.dst = dst /\ p.at = now
<1> DEFINE v    == [q |-> "ping"]
           t    == generateTransactionId(n)
           msg  == With(v, [y |-> "q", t |-> t, id |-> n.id])
           p    == [src |-> n.id, dst |-> dst, msg |-> msg]
           ping == [t |-> t, dst |-> dst, at |-> now]
           sent == insert_to_tail_file(n.sent_queries, create_store_file(t, v, now), now)
           k    == kademPing(n, dst)
           g    == n.generated
<1>1. /\ DOMAIN k = Fields
      /\ k.outbox = n.outbox \cup {p}
      /\ k.generated = g + 1
      /\ k.sent_queries = sent
      /\ \A f \in Fields \ {"outbox", "generated", "sent_queries"} : k[f] = n[f]
  BY DEF kademPing, SendQuery, kademSendMessage, Steady, Fields
<1>2. msg.y = "q" /\ msg.t = t
  BY WithHeader DEF IsContent
<1>3. /\ t \notin Transaction(Self, g) /\ t \in Transaction(Self, g+1)
      /\ Transaction(Self, g) \subseteq Transaction(Self, g+1) /\ g+1 \in Nat \ {0}
  BY FreshTransaction DEF generateTransactionId, Steady
<1>4. /\ KeyedList(sent)
      /\ Held(sent) = {e \in Held(n.sent_queries) : e.key # t} \cup {Entry(t, v, 0)}
  BY InsertHeld, NewEntry DEF Steady, OnlyPings
<1>5. Entry(t, v, 0).key = t /\ Entry(t, v, 0).value.q = "ping" /\ Entry(t, v, 0).timestamp = now
  BY DEF Entry
<1>6. p.msg.y = "q" /\ p.msg.t = t /\ p.dst = dst
  BY <1>2
<1> HIDE DEF t, msg, sent, k, v, p
<1>7. SentPings(k) = SentPings(n) \cup {ping}
  BY <1>1, <1>6 DEF SentPings
<1>8. ping.t = t /\ ping.dst = dst /\ ping.at = now
  OBVIOUS
<1> HIDE DEF ping
<1>9. /\ k.id = n.id /\ k.alive = n.alive /\ k.waiting_nodes = n.waiting_nodes /\ k.table = n.table
  BY <1>1 DEF Fields
<1>10. OnlyPings(g+1, sent)
  BY <1>3, <1>4, <1>5 DEF OnlyPings, Steady
<1>11. Timed(P \cup SentPings(k), g+1, sent)
  <2>1. ASSUME NEW x \in P \cup SentPings(n)
        PROVE  /\ x.t \in Transaction(Self, g+1) /\ x.dst \in Neighbour
               /\ \A e \in Held(sent) : e.key = x.t => e.timestamp = x.at
    <3>1. /\ x.t \in Transaction(Self, g) /\ x.dst \in Neighbour
          /\ \A e \in Held(n.sent_queries) : e.key = x.t => e.timestamp = x.at
      BY DEF Steady, Timed
    <3> QED BY <1>3, <1>4, <1>5, <3>1
  <2>2. \A e \in Held(sent) : e.key = t => e.timestamp = now
    BY <1>4, <1>5
  <2>3. \A x \in P \cup SentPings(k) : x \in P \cup SentPings(n) \/ x = ping
    BY <1>7
  <2> QED BY <1>3, <1>8, <2>1, <2>2, <2>3 DEF Timed
<1>12. Waiting(P \cup SentPings(k), n.waiting_nodes)
  BY <1>7 DEF Waiting, Steady
<1>13. Steady(P, k)
  BY <1>1, <1>3, <1>9, <1>10, <1>11, <1>12 DEF Steady
<1>14. ping \in SentPings(k)
  BY <1>7
<1>15. \E x \in SentPings(k) : x.dst = dst /\ x.at = now
  BY <1>8, <1>14
<1> QED BY <1>9, <1>13, <1>15 DEF k

-----------------------------------------------------------------------------
(* Refreshing a bucket: who leaves it.                                       *)

\* Bucket old has become list in a refresh that has come to position at.  What is
\* in front of it was pinged, but for the head, which may be stale and stay; every
\* node of old whose contact was not stale is still there.
Tended(old, list, at) ==
  /\ at \in Nat \ {0}
  /\ Falling(list)
  /\ \A p, q \in 1..Len(list) :
       p < at /\ at <= q => list[p].count = 2 \/ list[q].count < list[p].count
  /\ at >= 3 => \A q \in 1..Len(list) : at <= q => list[q].count # 2
  /\ \A i \in 1..Len(old) : ~Stale(old[i]) =>
       \E p \in 1..Len(list) : /\ list[p].nodeID = old[i].nodeID
                               /\ at <= p => ~Stale(list[p])

\* At the start.
LEMMA NothingTended ==
  ASSUME NEW list, Falling(list)
  PROVE  Tended(list, list, 1)
  BY DEF Tended

\* delete_node unlinks contacts of its identifier and never the head of two or more.
LEMMA UnlinkedPositions ==
  ASSUME NEW list, Len(list) \in Nat, Len(list) >= 2, NEW id
  PROVE  \A j \in Unlinked(list, id) : j \in 2..Len(list) /\ list[j].nodeID = id
<1> DEFINE n == Len(list)
           match(i) == list[i].nodeID = id
           behind(j) == \E i \in 1..j-1 : /\ i = 1 \/ ~match(i)
                                          /\ \A k \in i+1..j : match(k)
                                          /\ (j - i) % 2 = 1
<1>1. Unlinked(list, id) = IF n = 1 THEN {i \in {1} : match(i)} ELSE {j \in 2..n : behind(j)}
  BY Zenon DEF Unlinked
<1>2. n # 1
  <2>1. n \in Nat /\ n >= 2
    OBVIOUS
  <2> HIDE DEF n
  <2> QED BY <2>1
<1>3. ASSUME NEW j \in 2..n, behind(j) PROVE match(j)
  <2>1. PICK i \in 1..j-1 : \A k \in i+1..j : match(k)
    BY <1>3
  <2>2. j \in i+1..j
    BY <2>1
  <2> QED BY <2>1, <2>2, Zenon
<1> HIDE DEF n, behind
<1>4. Unlinked(list, id) = {j \in 2..n : behind(j)}
  BY <1>1, <1>2
<1> QED BY <1>3, <1>4 DEF n

\* The only contact of a bucket is dropped; the head of a longer one stays, and the
\* cursor goes on; the second contact is dropped and no other.
LEMMA DropOnly ==
  ASSUME NEW list, Len(list) = 1
  PROVE  UnlinkedBySelf(list, 1) = {1} /\ DropAndAdvance(list, 1).at = 1
<1>1. UnlinkedBySelf(list, 1) = {1}
  BY DEF UnlinkedBySelf, Unlinked
<1>2. {1} \cap (1..1) = {1} /\ Cardinality({1}) = 1
  BY FS_Singleton
<1> QED BY <1>1, <1>2 DEF DropAndAdvance

LEMMA DropHead ==
  ASSUME NEW list, Len(list) \in Nat, Len(list) >= 2
  PROVE  /\ UnlinkedBySelf(list, 1) \subseteq 2..Len(list)
         /\ \A j \in UnlinkedBySelf(list, 1) : list[j].nodeID = list[1].nodeID
         /\ DropAndAdvance(list, 1).at = 2
<1> DEFINE gone == Unlinked(list, list[1].nodeID)
<1>1. \A j \in gone : j \in 2..Len(list) /\ list[j].nodeID = list[1].nodeID
  BY UnlinkedPositions
<1>2. UnlinkedBySelf(list, 1) = gone
  BY <1>1 DEF UnlinkedBySelf
<1> HIDE DEF gone
<1>3. gone \cap (1..1) = {} /\ Cardinality({}) = 0
  BY <1>1, FS_EmptySet
<1>4. DropAndAdvance(list, 1).at = 1 + 1 - Cardinality(gone \cap (1..1))
  BY <1>2 DEF DropAndAdvance
<1>5. DropAndAdvance(list, 1).at = 2
  BY <1>3, <1>4
<1> QED BY <1>1, <1>2, <1>5

LEMMA DropSecond ==
  ASSUME NEW list, Len(list) \in Nat, Len(list) >= 2
  PROVE  UnlinkedBySelf(list, 2) = {2} /\ DropAndAdvance(list, 2).at = 2
<1> DEFINE id == list[2].nodeID
           gone == Unlinked(list, id)
<1>1. \A j \in gone : j \in 2..Len(list)
  BY UnlinkedPositions
<1>2. 2 \in gone
  <2>1. 1 \in 1..2-1 /\ (2 - 1) % 2 = 1 /\ \A k \in 1+1..2 : list[k].nodeID = id
    OBVIOUS
  <2>2. 2 \in 2..Len(list) /\ Len(list) # 1
    OBVIOUS
  <2> QED BY <2>1, <2>2 DEF Unlinked
<1>3. UnlinkedBySelf(list, 2) = {j \in gone : j <= 2}
  BY <1>2 DEF UnlinkedBySelf
<1> HIDE DEF gone
<1>4. UnlinkedBySelf(list, 2) = {2}
  BY <1>1, <1>2, <1>3
<1>5. {2} \cap (1..2) = {2} /\ Cardinality({2}) = 1
  <2>1. {2} \cap (1..2) = {2}
    OBVIOUS
  <2> QED BY <2>1, FS_Singleton
<1>6. DropAndAdvance(list, 2).at = 2 + 1 - Cardinality({2} \cap (1..2))
  BY <1>4 DEF DropAndAdvance
<1>7. DropAndAdvance(list, 2).at = 2
  BY <1>5, <1>6
<1> QED BY <1>4, <1>7

\* Some contacts of a bucket are removed: the others stay in their order.
LEMMA RemovedFalls ==
  ASSUME NEW list, Falling(list), NEW gone, NEW rest, NEW g,
         KeptFrom(list, gone, Len(list), rest, g), Len(list) \in Nat, Len(rest) \in Nat
  PROVE  Falling(rest)
<1>1. ASSUME NEW p \in 1..Len(rest), NEW q \in 1..Len(rest), p < q
      PROVE  rest[q].count <= rest[p].count
  <2>1. g[p] \in 1..Len(list) /\ g[q] \in 1..Len(list) /\ g[p] < g[q]
    BY <1>1 DEF KeptFrom
  <2>2. rest[p] = list[g[p]] /\ rest[q] = list[g[q]]
    BY DEF KeptFrom
  <2> QED BY <2>1, <2>2 DEF Falling
<1> QED BY <1>1 DEF Falling

\* A stale contact is dropped.
LEMMA DropTends ==
  ASSUME now \in Nat, NEW N, NEW old, NEW list \in Seq(ContactOf(N, now)), NEW at,
         Tended(old, list, at), at <= Len(list), Stale(list[at])
  PROVE  LET drop == DropAndAdvance(list, at) IN Tended(old, drop.list, drop.at)
<1> DEFINE drop == DropAndAdvance(list, at)
           gone == UnlinkedBySelf(list, at)
           rest == drop.list
           n == Len(list)
<1>1. n \in Nat /\ at \in 1..n /\ list[at].count = 2
  BY DEF Tended, Stale
<1>2. at \in {1, 2}
  BY <1>1 DEF Tended
<1>3. \A i \in 1..n : list[i].count \in 0..2
  <2>1. \A i \in 1..n : list[i] \in ContactOf(N, now)
    OBVIOUS
  <2> QED BY <2>1 DEF ContactOf
<1>4. rest = RemovePositions(list, gone)
  BY DEF DropAndAdvance
<1>5. rest \in Seq(ContactOf(N, now)) /\ Len(rest) \in Nat
  BY <1>4, RemoveLeaves
<1>6. PICK g : KeptFrom(list, gone, n, rest, g)
  BY <1>4, RemoveLeaves
<1>7. Falling(rest)
  BY <1>1, <1>5, <1>6, RemovedFalls DEF Tended
<1> HIDE DEF rest
<1>8. \A p \in 1..Len(rest) : g[p] \in 1..n /\ rest[p] = list[g[p]] /\ g[p] \notin gone
  BY <1>6 DEF KeptFrom
<1>9. \A p, q \in 1..Len(rest) : p < q => g[p] < g[q]
  BY <1>6 DEF KeptFrom
<1>10. \A j \in 1..n : j \notin gone => \E p \in 1..Len(rest) : g[p] = j
  BY <1>6 DEF KeptFrom
<1> DEFINE There(i, k) == \E p \in 1..Len(rest) : /\ rest[p].nodeID = old[i].nodeID
                                                  /\ k <= p => ~Stale(rest[p])
<1>11. CASE n = 1
  <2>0. at = 1
    BY <1>1, <1>11
  <2>1. gone = {1} /\ drop.at = 1 /\ at = 1
    BY <1>11, <2>0, DropOnly
  <2>2. Len(rest) = 0
    BY <1>5, <1>8, <1>11, <2>1
  <2>3. \A i \in 1..Len(old) : Stale(old[i])
    <3>1. ASSUME NEW i \in 1..Len(old), ~Stale(old[i]) PROVE FALSE
      <4>1. PICK p \in 1..n : at <= p => ~Stale(list[p])
        BY <3>1 DEF Tended
      <4> QED BY <1>11, <2>1, <4>1
    <3> QED BY <3>1
  <2> QED BY <1>7, <2>1, <2>2, <2>3 DEF Tended, rest
<1>12. CASE n # 1 /\ at = 1
  <2>0. n >= 2 /\ n \in Nat
    <3> HIDE DEF n
    <3> QED BY <1>1, <1>12
  <2>1. gone \subseteq 2..n /\ (\A j \in gone : list[j].nodeID = list[1].nodeID) /\ drop.at = 2
    BY <1>12, <2>0, DropHead
  <2>2. PICK h \in 1..Len(rest) : g[h] = 1
    <3>1. 1 \in 1..n /\ 1 \notin gone
      BY <1>1, <2>1
    <3> QED BY <1>10, <3>1
  <2>3. h = 1
    <3>1. 1 \in 1..Len(rest) /\ (1 < h => g[1] < 1)
      BY <1>5, <1>9, <2>2
    <3> QED BY <1>8, <3>1
  <2>4. rest[1] = list[1] /\ rest[1].count = 2 /\ 1 \in 1..Len(rest)
    BY <1>1, <1>8, <1>12, <2>2, <2>3
  <2>5. \A p, q \in 1..Len(rest) : p < 2 /\ 2 <= q => rest[p].count = 2 \/ rest[q].count < rest[p].count
    BY <2>4
  <2>6. ASSUME NEW i \in 1..Len(old), ~Stale(old[i]) PROVE There(i, 2)
    <3>1. PICK p \in 1..n : list[p].nodeID = old[i].nodeID /\ (1 <= p => ~Stale(list[p]))
      BY <1>12, <2>6 DEF Tended
    <3>2. CASE p \in gone
      <4>1. rest[1].nodeID = old[i].nodeID /\ ~(2 <= 1)
        BY <2>1, <2>4, <3>1, <3>2
      <4> QED BY <2>4, <4>1
    <3>3. CASE p \notin gone
      <4>1. PICK r \in 1..Len(rest) : g[r] = p
        BY <1>10, <3>3
      <4> QED BY <1>8, <3>1, <4>1
    <3> QED BY <3>2, <3>3
  <2> QED BY <1>7, <2>1, <2>5, <2>6 DEF Tended, rest
<1>13. CASE n # 1 /\ at = 2
  <2>1. gone = {2} /\ drop.at = 2
    BY <1>1, <1>13, DropSecond
  <2>2. PICK h \in 1..Len(rest) : g[h] = 1
    <3>1. 1 \in 1..n /\ 1 \notin gone
      BY <1>1, <2>1
    <3> QED BY <1>10, <3>1
  <2>3. h = 1
    <3>1. 1 \in 1..Len(rest) /\ (1 < h => g[1] < 1)
      BY <1>5, <1>9, <2>2
    <3> QED BY <1>8, <3>1
  <2>4. rest[1] = list[1] /\ 1 \in 1..Len(rest)
    BY <1>8, <2>2, <2>3
  <2>5. list[1].count = 2
    <3>1. 1 \in 1..n /\ 2 \in 1..n /\ 1 < at /\ at <= 2
      BY <1>1, <1>13
    <3>2. list[1].count = 2 \/ list[2].count < list[1].count
      BY <3>1 DEF Tended
    <3> QED BY <1>1, <1>3, <1>13, <3>1, <3>2
  <2>6. \A p, q \in 1..Len(rest) : p < 2 /\ 2 <= q => rest[p].count = 2 \/ rest[q].count < rest[p].count
    BY <2>4, <2>5
  <2>7. ASSUME NEW i \in 1..Len(old), ~Stale(old[i]) PROVE There(i, 2)
    <3>1. PICK p \in 1..n : list[p].nodeID = old[i].nodeID /\ (2 <= p => ~Stale(list[p]))
      BY <1>13, <2>7 DEF Tended
    <3>2. p # 2
      BY <1>13, <3>1
    <3>3. PICK r \in 1..Len(rest) : g[r] = p
      BY <1>10, <2>1, <3>2
    <3>4. CASE p = 1
      BY <2>4, <3>1, <3>4
    <3>5. CASE p # 1
      BY <1>8, <3>1, <3>2, <3>3, <3>5
    <3> QED BY <3>4, <3>5
  <2> QED BY <1>7, <2>1, <2>6, <2>7 DEF Tended, rest
<1> QED BY <1>2, <1>11, <1>12, <1>13

\* One that is not is pinged.
LEMMA PingTends ==
  ASSUME now \in Nat, NEW N, NEW old, NEW list \in Seq(ContactOf(N, now)), NEW at,
         Tended(old, list, at), at <= Len(list), list[at].count # 2
  PROVE  Tended(old, [list EXCEPT ![at] = Pinged(list[at])], at + 1)
<1> DEFINE longer == [list EXCEPT ![at] = Pinged(list[at])]
           n == Len(list)
<1>1. n \in Nat /\ at \in 1..n
  BY DEF Tended
<1>2. \A i \in 1..n : list[i] \in ContactOf(N, now) /\ list[i].count \in 0..2
  <2>1. \A i \in 1..n : list[i] \in ContactOf(N, now)
    OBVIOUS
  <2> QED BY <2>1 DEF ContactOf
<1>3. Pinged(list[at]).nodeID = list[at].nodeID /\ Pinged(list[at]).count = list[at].count + 1
  BY <1>1, <1>2 DEF Pinged, ContactOf
<1>4. /\ Len(longer) = n
      /\ longer[at] = Pinged(list[at])
      /\ \A i \in 1..n \ {at} : longer[i] = list[i]
  BY <1>1
<1> HIDE DEF longer
<1>5. \A i \in 1..n : /\ longer[i].nodeID = list[i].nodeID
                      /\ longer[i].count = IF i = at THEN list[i].count + 1 ELSE list[i].count
  BY <1>1, <1>3, <1>4
<1>6. \A p, q \in 1..n : p < q => list[q].count <= list[p].count
  BY DEF Tended, Falling
<1>7. \A p, q \in 1..n : p < at /\ at <= q => list[p].count = 2 \/ list[q].count < list[p].count
  BY DEF Tended
<1>8. \A q \in 1..n : at <= q => list[q].count # 2
  BY <1>1, <1>2, <1>6
<1>9. Falling(longer)
  BY <1>1, <1>2, <1>4, <1>5, <1>6, <1>7 DEF Falling
<1>10. \A p, q \in 1..n : p < at+1 /\ at+1 <= q => longer[p].count = 2 \/ longer[q].count < longer[p].count
  BY <1>1, <1>2, <1>5, <1>6, <1>7
<1>11. \A q \in 1..n : at+1 <= q => longer[q].count # 2
  BY <1>1, <1>5, <1>8
<1>12. \A i \in 1..Len(old) : ~Stale(old[i]) =>
         \E p \in 1..n : longer[p].nodeID = old[i].nodeID /\ (at+1 <= p => ~Stale(longer[p]))
  <2>1. ASSUME NEW i \in 1..Len(old), ~Stale(old[i])
        PROVE  \E p \in 1..n : longer[p].nodeID = old[i].nodeID /\ (at+1 <= p => ~Stale(longer[p]))
    <3>1. PICK p \in 1..n : list[p].nodeID = old[i].nodeID /\ (at <= p => ~Stale(list[p]))
      BY <2>1 DEF Tended
    <3>2. at+1 <= p => p # at /\ at <= p
      BY <1>1
    <3> QED BY <1>4, <1>5, <3>1, <3>2
  <2> QED BY <2>1
<1>13. at + 1 \in Nat \ {0}
  BY <1>1
<1> QED BY <1>4, <1>9, <1>10, <1>11, <1>12, <1>13 DEF Tended, longer

-----------------------------------------------------------------------------
(* Adding to a bucket and taking its head: who leaves it. *)

\* A contact at the tail has not been pinged.
LEMMA TailFalls ==
  ASSUME now \in Nat, NEW N, NEW list, IsBucket(N, now, list), Falling(list), NEW node \in ContactOf(N, now)
  PROVE  LET longer == insert_to_tail(list, node, now)
         IN  /\ Falling(longer)
             /\ Ids(list) \subseteq Ids(longer)
             /\ Len(list) < length_bucket => node.nodeID \in Ids(longer)
<1> DEFINE stamped == [node EXCEPT !.count = 0, !.timestamp = now]
           n == Len(list)
           longer == Append(list, stamped)
<1>1. /\ n \in Nat /\ length_bucket \in Nat
      /\ \A i \in 1..n : list[i] \in ContactOf(N, now)
  BY NodeDetailsAssumption DEF IsBucket
<1>2. stamped.count = 0 /\ stamped.nodeID = node.nodeID
  BY DEF ContactOf
<1> HIDE DEF stamped
<1>3. Len(longer) = n+1 /\ longer[n+1] = stamped /\ \A i \in 1..n : longer[i] = list[i]
  BY DEF IsBucket
<1> HIDE DEF longer
<1>4. insert_to_tail(list, node, now) = IF n >= length_bucket THEN list ELSE longer
  BY DEF insert_to_tail, stamped, longer
<1>5. Falling(longer)
  <2>1. ASSUME NEW i \in 1..n+1, NEW j \in 1..n+1, i < j PROVE longer[j].count <= longer[i].count
    <3>1. i \in 1..n /\ longer[i] = list[i] /\ list[i].count \in 0..2
      BY <1>1, <1>3, <2>1 DEF ContactOf
    <3>2. CASE j = n+1
      BY <1>2, <1>3, <3>1, <3>2
    <3>3. CASE j # n+1
      <4>1. j \in 1..n
        BY <1>1, <3>3
      <4> QED BY <1>3, <2>1, <3>1, <4>1 DEF Falling
    <3> QED BY <3>2, <3>3
  <2> QED BY <1>3, <2>1 DEF Falling
<1>6. Ids(list) \subseteq Ids(longer) /\ node.nodeID \in Ids(longer)
  <2>1. n+1 \in 1..n+1 /\ 1..n \subseteq 1..n+1
    BY <1>1
  <2>2. \A i \in 1..n : list[i].nodeID \in Ids(longer)
    BY <1>3, <2>1 DEF Ids
  <2>3. node.nodeID \in Ids(longer)
    BY <1>2, <1>3, <2>1 DEF Ids
  <2> QED BY <2>2, <2>3 DEF Ids
<1> HIDE DEF n
<1>7. CASE n >= length_bucket
  <2>1. ~(n < length_bucket) /\ insert_to_tail(list, node, now) = list
    BY <1>1, <1>4, <1>7 DEF n
  <2> QED BY <2>1 DEF n
<1>8. CASE ~(n >= length_bucket)
  <2>1. insert_to_tail(list, node, now) = longer
    BY <1>4, <1>8
  <2> QED BY <1>5, <1>6, <2>1
<1> QED BY <1>7, <1>8

\* A contact that is taken out does not change the order of the others.
LEMMA OneOutFalls ==
  ASSUME NEW C, NEW list \in Seq(C), Falling(list), NEW i \in 1..Len(list)
  PROVE  /\ Falling(RemoveAt(list, i))
         /\ Ids(list) \subseteq Ids(RemoveAt(list, i)) \cup {list[i].nodeID}
<1> DEFINE n == Len(list)
           rest == RemoveAt(list, i)
           from(p) == IF p < i THEN p ELSE p+1
<1>1. n \in Nat /\ i \in 1..n
  OBVIOUS
<1>2. Len(rest) = n-1 /\ \A p \in 1..n-1 : rest[p] = list[from(p)]
  BY RemoveAtProperties
<1> HIDE DEF rest
<1>3. \A p, q \in 1..n-1 : from(p) \in 1..n /\ (p < q => from(p) < from(q))
  BY <1>1
<1>4. \A j \in 1..n : j # i => \E p \in 1..n-1 : from(p) = j
  <2>1. ASSUME NEW j \in 1..n, j < i PROVE j \in 1..n-1 /\ from(j) = j
    BY <1>1, <2>1
  <2>2. ASSUME NEW j \in 1..n, j > i PROVE j-1 \in 1..n-1 /\ from(j-1) = j
    BY <1>1, <2>2
  <2>3. \A j \in 1..n : j # i => j < i \/ j > i
    BY <1>1
  <2> QED BY <2>1, <2>2, <2>3
<1> HIDE DEF from, n
<1>5. Falling(rest)
  <2>1. ASSUME NEW p \in 1..n-1, NEW q \in 1..n-1, p < q PROVE rest[q].count <= rest[p].count
    <3>1. from(p) \in 1..n /\ from(q) \in 1..n /\ from(p) < from(q)
      BY <1>3, <2>1
    <3> QED BY <1>2, <3>1 DEF Falling, n
  <2> QED BY <1>2, <2>1 DEF Falling
<1>6. \A j \in 1..n : list[j].nodeID \in Ids(rest) \cup {list[i].nodeID}
  <2>1. ASSUME NEW j \in 1..n, j # i PROVE list[j].nodeID \in Ids(rest)
    <3>1. PICK p \in 1..n-1 : from(p) = j
      BY <1>4, <2>1
    <3> QED BY <1>2, <3>1 DEF Ids
  <2> QED BY <2>1
<1> QED BY <1>5, <1>6 DEF Ids, n, rest

\* The same of the head.
LEMMA HeadOutFalls ==
  ASSUME NEW C, NEW list \in Seq(C), Falling(list)
  PROVE  /\ Falling(delete_head(list))
         /\ Ids(list) \subseteq Ids(delete_head(list)) \cup {list[1].nodeID}
<1> DEFINE n == Len(list)
<1>1. CASE list = <<>>
  BY <1>1 DEF delete_head, Ids
<1>2. CASE list # <<>>
  <2>1. n \in Nat /\ n >= 1
    BY <1>2
  <2> DEFINE rest == delete_head(list)
  <2>2. Len(rest) = n-1 /\ \A p \in 1..n-1 : rest[p] = list[p+1]
    BY <1>2 DEF delete_head
  <2> HIDE DEF rest
  <2>3. \A p \in 1..n-1 : p+1 \in 1..n
    BY <2>1
  <2>4. ASSUME NEW p \in 1..n-1, NEW q \in 1..n-1, p < q PROVE rest[q].count <= rest[p].count
    <3>1. p+1 \in 1..n /\ q+1 \in 1..n /\ p+1 < q+1
      BY <2>1, <2>4
    <3> QED BY <2>2, <3>1 DEF Falling
  <2>5. ASSUME NEW j \in 1..n, j # 1 PROVE list[j].nodeID \in Ids(rest)
    <3>1. j-1 \in 1..n-1 /\ (j-1)+1 = j
      BY <2>1, <2>5
    <3> QED BY <2>2, <3>1 DEF Ids
  <2>6. Falling(rest)
    BY <2>2, <2>4 DEF Falling
  <2>7. Ids(list) \subseteq Ids(rest) \cup {list[1].nodeID}
    BY <2>5 DEF Ids
  <2> QED BY <2>6, <2>7 DEF rest
<1> QED BY <1>1, <1>2

\* move_node_details leaves no node out, ...
LEMMA MoveFalls ==
  ASSUME now \in Nat, NEW N, NEW list, IsBucket(N, now, list), Falling(list), NEW id \in N,
         Len(list) < length_bucket
  PROVE  LET moved == move_node_details(list, id, now)
         IN  Falling(moved) /\ Ids(list) \cup {id} \subseteq Ids(moved)
<1>1. now \in 0..now
  OBVIOUS
<1>2. CASE id \notin Ids(list)
  <2> DEFINE node == create_node_details(id, now)
  <2>1. node \in ContactOf(N, now) /\ node.nodeID = id
    BY <1>1, NewContact DEF create_node_details
  <2>2. move_node_details(list, id, now) = insert_to_tail(list, node, now)
    BY <1>2 DEF move_node_details
  <2> HIDE DEF node
  <2> QED BY <2>1, <2>2, TailFalls
<1>3. CASE id \in Ids(list)
  <2> DEFINE i == look_for_IP(list, id)
             rest == RemoveAt(list, i)
  <2>1. list \in Seq(ContactOf(N, now)) /\ Len(list) \in Nat /\ length_bucket \in Nat
    BY NodeDetailsAssumption DEF IsBucket
  <2>2. i \in 1..Len(list) /\ list[i].nodeID = id
    BY <1>3, <2>1, LookForIP
  <2>3. move_node_details(list, id, now) = insert_to_tail(rest, list[i], now)
    BY <1>3 DEF move_node_details, move_to_tail
  <2> HIDE DEF i
  <2>4. rest \in Seq(ContactOf(N, now)) /\ Len(rest) = Len(list) - 1
    BY <2>1, <2>2, RemoveAtProperties
  <2>5. Falling(rest) /\ Ids(list) \subseteq Ids(rest) \cup {id}
    BY <2>1, <2>2, OneOutFalls
  <2> HIDE DEF rest
  <2>6. IsBucket(N, now, rest) /\ Len(rest) < length_bucket
    BY <2>1, <2>4 DEF IsBucket
  <2>7. list[i] \in ContactOf(N, now)
    BY <2>1, <2>2
  <2>8. Falling(insert_to_tail(rest, list[i], now)) /\ Ids(rest) \cup {id} \subseteq Ids(insert_to_tail(rest, list[i], now))
    BY <2>2, <2>5, <2>6, <2>7, TailFalls
  <2> QED BY <2>3, <2>5, <2>8
<1> QED BY <1>2, <1>3

\* ... and delete_head_insert_tail only the one at the head.
LEMMA ReplaceFalls ==
  ASSUME now \in Nat, NEW N, NEW list, IsBucket(N, now, list), Falling(list), NEW id \in N
  PROVE  LET replaced == delete_head_insert_tail(list, create_node_details(id, now), now)
         IN  Falling(replaced) /\ Ids(list) \subseteq Ids(replaced) \cup {list[1].nodeID}
<1> DEFINE node == create_node_details(id, now)
           rest == delete_head(list)
<1>1. node \in ContactOf(N, now)
  BY NewContact
<1>2. IsBucket(N, now, rest)
  BY DeleteHead
<1>3. Falling(rest) /\ Ids(list) \subseteq Ids(rest) \cup {list[1].nodeID}
  BY HeadOutFalls DEF IsBucket
<1>4. delete_head_insert_tail(list, node, now) = insert_to_tail(rest, node, now)
  BY DEF delete_head_insert_tail
<1> HIDE DEF node, rest
<1>5. Falling(insert_to_tail(rest, node, now)) /\ Ids(rest) \subseteq Ids(insert_to_tail(rest, node, now))
  BY <1>1, <1>2, <1>3, TailFalls
<1> QED BY <1>3, <1>4, <1>5 DEF node

-----------------------------------------------------------------------------
(* Maintenance. *)

\* A contact that is pinged has been silent longer than the ping adds to its stamp.
LEMMA PingedInTime ==
  ASSUME now \in Nat, NEW N, NEW node \in ContactOf(N, now), node.count # 2,
         ~(now - node.timestamp <= KADEM_TIMEOUT_REFRESH_DATA)
  PROVE  Pinged(node) \in ContactOf(N, now)
<1>1. /\ node.nodeID \in N /\ node.count \in 0..2 /\ node.timestamp \in 0..now
      /\ node = [nodeID |-> node.nodeID, count |-> node.count, timestamp |-> node.timestamp]
  BY DEF ContactOf
<1>2. /\ KADEM_TIMEOUT_REFRESH_DATA \in Nat /\ PingPeriod \in Nat
      /\ PingPeriod <= KADEM_TIMEOUT_REFRESH_DATA
  BY MachineAssumption, ContactTableAssumption
<1> DEFINE counted == [node EXCEPT !.count = node.count + 1]
<1>3. Pinged(node) = [counted EXCEPT !.timestamp = node.timestamp + PingPeriod]
  BY <1>1 DEF Pinged
<1>4. counted \in ContactOf(N, now)
  BY <1>1 DEF ContactOf
<1>5. node.timestamp + PingPeriod \in 0..now
  BY <1>1, <1>2
<1> HIDE DEF counted
<1>6. [counted EXCEPT !.timestamp = node.timestamp + PingPeriod] \in ContactOf(N, now)
  BY <1>4, <1>5 DEF ContactOf
<1> QED BY <1>3, <1>6

\* One bucket becomes another with contacts of its own.
LEMMA BucketPlaced ==
  ASSUME NEW table, Placed(now, table), NEW b \in Buckets,
         NEW list, IsBucket(Near(b), now, list), Falling(list)
  PROVE  Placed(now, [table EXCEPT ![b] = list])
  BY DEF Placed

\* The refresh of bucket b of machine old, with P the pings before it.
StaysSteady(b, P, old, i, s) ==
  /\ s.at \in Nat \ {0} /\ Steady(P, s.m)
  /\ Tended(old.table[b], s.m.table[b], s.at)
  /\ s.m.waiting_nodes = old.waiting_nodes
  /\ \A x \in Buckets : x # b => s.m.table[x] = old.table[x]

Tending == INSTANCE Loops WITH Step <- RefreshRound, Inv <- StaysSteady

\* A round of it.
LEMMA RefreshStepSteady ==
  ASSUME now \in Nat, NEW P, NEW b \in Buckets, NEW old, NEW s, NEW i,
         StaysSteady(b, P, old, i-1, s)
  PROVE  StaysSteady(b, P, old, i, RefreshRound(b, P, old, s, i))
<1> DEFINE list == s.m.table[b]
           node == list[s.at]
           drop == DropAndAdvance(list, s.at)
           dropped == [s.m EXCEPT !.table[b] = drop.list]
           pinging == kademPing(s.m, node.nodeID)
           rung == [pinging EXCEPT !.table[b][s.at] = Pinged(@)]
<1>1. /\ s.at \in Nat \ {0} /\ Steady(P, s.m) /\ Placed(now, s.m.table)
      /\ Tended(old.table[b], list, s.at)
      /\ s.m.waiting_nodes = old.waiting_nodes
      /\ \A x \in Buckets : x # b => s.m.table[x] = old.table[x]
  BY DEF StaysSteady, Steady
<1>2. IsBucket(Near(b), now, list) /\ list \in Seq(ContactOf(Near(b), now)) /\ Len(list) \in Nat
  BY <1>1 DEF Placed, IsBucket
<1>3. ASSUME s.at <= Len(list) PROVE node \in ContactOf(Near(b), now)
  BY <1>1, <1>2, <1>3
<1>4. drop.at \in Nat \ {0} /\ IsBucket(Near(b), now, drop.list)
  BY <1>1, <1>2, CursorAdvances, DropKeepsBucket
<1>5. ASSUME s.at <= Len(list), node.count = 2,
             ~(now - node.timestamp <= KADEM_TIMEOUT_REFRESH_DATA)
      PROVE  StaysSteady(b, P, old, i, [m |-> dropped, at |-> drop.at])
  <2>1. Stale(node)
    <3>1. node.timestamp \in 0..now /\ KADEM_TIMEOUT_REFRESH_DATA \in Nat
      BY <1>3, <1>5, MachineAssumption DEF ContactOf
    <3> QED BY <1>5, <3>1 DEF Stale
  <2>2. Tended(old.table[b], drop.list, drop.at)
    BY <1>1, <1>2, <1>5, <2>1, DropTends
  <2> HIDE DEF drop
  <2>3. dropped = [s.m EXCEPT !.table = [s.m.table EXCEPT ![b] = drop.list]]
    BY <1>1 DEF Steady, Fields
  <2>4. Falling(drop.list)
    BY <2>2 DEF Tended
  <2>5. Steady(P, dropped)
    BY <1>1, <1>4, <2>3, <2>4, BucketPlaced, TableSteady
  <2>6. /\ dropped.waiting_nodes = s.m.waiting_nodes /\ dropped.table[b] = drop.list
        /\ \A x \in Buckets : x # b => dropped.table[x] = s.m.table[x]
    BY <1>1, <2>3 DEF Steady, Placed, Fields
  <2> HIDE DEF dropped
  <2> QED BY <1>1, <1>4, <2>2, <2>5, <2>6 DEF StaysSteady
<1>6. ASSUME s.at <= Len(list), node.count # 2,
             ~(now - node.timestamp <= KADEM_TIMEOUT_REFRESH_DATA)
      PROVE  StaysSteady(b, P, old, i, [m |-> rung, at |-> s.at + 1])
  <2>1. Pinged(node) \in ContactOf(Near(b), now)
    BY <1>3, <1>6, PingedInTime
  <2>2. node.nodeID \in Neighbour
    BY <1>3, <1>6 DEF ContactOf, Near
  <2>3. Steady(P, pinging) /\ pinging.table = s.m.table /\ pinging.waiting_nodes = s.m.waiting_nodes
    BY <1>1, <2>2, PingSteady
  <2> DEFINE longer == [list EXCEPT ![s.at] = Pinged(node)]
  <2>4. IsBucket(Near(b), now, longer)
    <3>1. s.at \in 1..Len(list)
      BY <1>1, <1>2, <1>6
    <3>2. longer \in Seq(ContactOf(Near(b), now)) /\ Len(longer) = Len(list)
      BY <1>2, <2>1, <3>1, ExceptSeq
    <3> HIDE DEF longer
    <3> QED BY <1>2, <3>2 DEF IsBucket
  <2>7. Tended(old.table[b], longer, s.at + 1)
    BY <1>1, <1>2, <1>6, PingTends
  <2>8. Falling(longer)
    BY <2>7 DEF Tended
  <2> HIDE DEF pinging
  <2>5. rung = [pinging EXCEPT !.table = [pinging.table EXCEPT ![b] = longer]]
    BY <2>3 DEF Steady, Fields
  <2> HIDE DEF longer
  <2>6. Placed(now, pinging.table) /\ DOMAIN pinging = Fields
    BY <2>3 DEF Steady
  <2>9. Steady(P, rung)
    BY <2>3, <2>4, <2>5, <2>6, <2>8, BucketPlaced, TableSteady
  <2>10. /\ rung.waiting_nodes = s.m.waiting_nodes /\ rung.table[b] = longer
         /\ \A x \in Buckets : x # b => rung.table[x] = s.m.table[x]
    BY <2>3, <2>5, <2>6 DEF Placed, Fields
  <2>11. s.at + 1 \in Nat \ {0}
    BY <1>1
  <2> HIDE DEF rung
  <2> QED BY <1>1, <2>7, <2>9, <2>10, <2>11 DEF StaysSteady
<1>7. \/ RefreshRound(b, P, old, s, i) = s
      \/ /\ s.at <= Len(list) /\ node.count = 2
         /\ ~(now - node.timestamp <= KADEM_TIMEOUT_REFRESH_DATA)
         /\ RefreshRound(b, P, old, s, i) = [m |-> dropped, at |-> drop.at]
      \/ /\ s.at <= Len(list) /\ node.count # 2
         /\ ~(now - node.timestamp <= KADEM_TIMEOUT_REFRESH_DATA)
         /\ RefreshRound(b, P, old, s, i) = [m |-> rung, at |-> s.at + 1]
  <2>1. s.at > Len(list) \/ s.at <= Len(list)
    BY <1>1, <1>2
  <2> QED BY <2>1 DEF RefreshRound, RefreshStep
<1>8. StaysSteady(b, P, old, i, s)
  BY DEF StaysSteady
<1> HIDE DEF list, node, drop, dropped, pinging, rung
<1> QED BY <1>5, <1>6, <1>7, <1>8

\* The nodes whose contacts are not stale are still there, or among gone.
Spared(old, list, gone) ==
  \A i \in 1..Len(old) : ~Stale(old[i]) => old[i].nodeID \in Ids(list) \cup gone

\* A bucket is refreshed, ...
LEMMA RefreshBucketSteady ==
  ASSUME now \in Nat, NEW P, NEW n, Steady(P, n), NEW b \in Buckets
  PROVE  LET k == RefreshBucket(n, b)
         IN  /\ Steady(P, k)
             /\ k.waiting_nodes = n.waiting_nodes
             /\ Spared(n.table[b], k.table[b], {})
             /\ \A x \in Buckets : x # b => k.table[x] = n.table[x]
<1> DEFINE list == n.table[b]
           order == [i \in DOMAIN list |-> i]
           base == [m |-> n, at |-> 1]
           l == Len(list)
           last == Tending!Loop(b, P, n, base, order)
<1>1. l \in Nat /\ DOMAIN list = 1..l
  BY DEF Steady, Placed, IsBucket
<1>2. DOMAIN order = 1..l /\ \A i \in 1..l : order[i] = i
  BY <1>1
<1>3. RefreshBucket(n, b) = last.m
  BY DEF RefreshBucket, FoldLeftDomain, FoldLeft, MapThenFoldSet, Max,
         Tending!FoldLeft, Tending!MapThenFoldSet, Tending!Max, Tending!Loop, RefreshRound
<1> HIDE DEF order
<1>4. StaysSteady(b, P, n, 0, base)
  <2>1. Tended(list, list, 1)
    BY NothingTended DEF Steady, Placed
  <2> QED BY <2>1 DEF StaysSteady
<1>5. \A i \in 1..l : \A s : StaysSteady(b, P, n, i-1, s)
                       => StaysSteady(b, P, n, i, RefreshRound(b, P, n, s, order[i]))
  BY <1>2, RefreshStepSteady
<1> HIDE DEF base, last
<1>6. StaysSteady(b, P, n, l, last)
  BY <1>1, <1>2, <1>4, <1>5, Tending!LoopInvariant DEF last
<1>7. Spared(n.table[b], last.m.table[b], {})
  <2>1. Tended(n.table[b], last.m.table[b], last.at)
    BY <1>6 DEF StaysSteady
  <2> QED BY <2>1 DEF Tended, Spared, Ids
<1> QED BY <1>3, <1>6, <1>7 DEF StaysSteady

\* The refresh of the first i buckets of machine old.
AllSteady(P, old, c, i, n) ==
  /\ Steady(P, n)
  /\ n.waiting_nodes = old.waiting_nodes
  /\ \A b \in Buckets : IF b < i THEN Spared(old.table[b], n.table[b], {}) ELSE n.table[b] = old.table[b]

TendingAll == INSTANCE Loops WITH Step <- RefreshBucketRound, Inv <- AllSteady

\* ... and so are all of them.
LEMMA RefreshBucketsSteady ==
  ASSUME now \in Nat, NEW P, NEW n, Steady(P, n)
  PROVE  LET k == RefreshBuckets(n)
         IN  /\ Steady(P, k)
             /\ k.waiting_nodes = n.waiting_nodes
             /\ \A b \in Buckets : Spared(n.table[b], k.table[b], {})
<1> DEFINE order == [i \in 1..BITS |-> i]
           last == TendingAll!Loop(P, n, {}, n, order)
<1>1. BITS \in Nat /\ DOMAIN order = 1..BITS /\ \A i \in 1..BITS : order[i] = i
  BY NodeDetailsAssumption
<1>2. RefreshBuckets(n) = last
  BY DEF RefreshBuckets, FoldLeft, MapThenFoldSet, Max, TendingAll!FoldLeft,
         TendingAll!MapThenFoldSet, TendingAll!Max, TendingAll!Loop, RefreshBucketRound
<1> HIDE DEF order
<1>3. AllSteady(P, n, {}, 0, n)
  <2>1. \A b \in Buckets : ~(b < 0)
    BY <1>1 DEF Buckets
  <2> QED BY <2>1 DEF AllSteady
<1>4. ASSUME NEW i \in 1..BITS, NEW s, AllSteady(P, n, {}, i-1, s)
      PROVE  AllSteady(P, n, {}, i, RefreshBucketRound(P, n, {}, s, order[i]))
  <2> DEFINE k == RefreshBucket(s, i-1)
  <2>1. RefreshBucketRound(P, n, {}, s, order[i]) = k
    BY <1>1 DEF RefreshBucketRound
  <2>2. i-1 \in Buckets /\ \A b \in Buckets : b < i <=> b < i-1 \/ b = i-1
    BY <1>1 DEF Buckets
  <2>3. /\ Steady(P, k) /\ k.waiting_nodes = s.waiting_nodes
        /\ Spared(s.table[i-1], k.table[i-1], {})
        /\ \A x \in Buckets : x # i-1 => k.table[x] = s.table[x]
    BY <1>4, <2>2, RefreshBucketSteady DEF AllSteady
  <2>4. s.table[i-1] = n.table[i-1] /\ s.waiting_nodes = n.waiting_nodes
    BY <1>4, <2>2 DEF AllSteady
  <2>5. ASSUME NEW b \in Buckets
        PROVE  IF b < i THEN Spared(n.table[b], k.table[b], {}) ELSE k.table[b] = n.table[b]
    <3>1. IF b < i-1 THEN Spared(n.table[b], s.table[b], {}) ELSE s.table[b] = n.table[b]
      BY <1>4 DEF AllSteady
    <3>2. CASE b = i-1
      BY <2>2, <2>3, <2>4, <3>2
    <3>3. CASE b # i-1
      BY <2>2, <2>3, <3>1, <3>3
    <3> QED BY <3>2, <3>3
  <2> HIDE DEF k
  <2> QED BY <2>1, <2>3, <2>4, <2>5 DEF AllSteady
<1> HIDE DEF last
<1>5. AllSteady(P, n, {}, BITS, last)
  BY <1>1, <1>3, <1>4, TendingAll!LoopInvariant DEF last
<1>6. \A b \in Buckets : b < BITS
  BY <1>1 DEF Buckets
<1> QED BY <1>2, <1>5, <1>6 DEF AllSteady

\* No node has left a bucket on the way from machine n to machine k.
NoneLeft(n, k) == \A b \in Buckets : Ids(n.table[b]) \subseteq Ids(k.table[b])

\* A contact enters its bucket.
LEMMA ContactSteady ==
  ASSUME now \in Nat, NEW P, NEW n, Steady(P, n), NEW id \in Neighbour
  PROVE  LET k == [n EXCEPT !.table = insert_into_contact_table(@, n.id, id, now)]
         IN  /\ find_node_details(Self, id) \in Buckets
             /\ Steady(P, k) /\ NoneLeft(n, k) /\ k.waiting_nodes = n.waiting_nodes
<1> DEFINE b == find_node_details(Self, id)
           table == [n.table EXCEPT ![b] = move_node_details(n.table[b], id, now)]
           inserted == insert_into_contact_table(n.table, Self, id, now)
<1>1. n.id = Self /\ Placed(now, n.table) /\ DOMAIN n = Fields
  BY DEF Steady
<1>2. b \in Buckets /\ id \in Near(b)
  <2>1. Self \in NodeId /\ id \in NodeId /\ Self # id
    BY ContactTableAssumption
  <2> QED BY <2>1, BucketNumber DEF Buckets, Near
<1>3. IsBucket(Near(b), now, n.table[b]) /\ Falling(n.table[b])
  BY <1>1, <1>2 DEF Placed
<1>4. now \in 0..now /\ Len(n.table[b]) \in Nat /\ length_bucket \in Nat
  BY <1>3, NodeDetailsAssumption DEF IsBucket
<1>5. IsBucket(Near(b), now, move_node_details(n.table[b], id, now))
  BY <1>2, <1>3, <1>4, MoveNodeDetails
<1>6. inserted = IF Len(n.table[b]) >= length_bucket THEN n.table ELSE table
  BY DEF insert_into_contact_table
<1> DEFINE k == [n EXCEPT !.table = inserted]
<1>7. Placed(now, inserted) /\ \A x \in Buckets : Ids(n.table[x]) \subseteq Ids(inserted[x])
  <2>1. CASE Len(n.table[b]) >= length_bucket
    BY <1>1, <1>6, <2>1
  <2>2. CASE ~(Len(n.table[b]) >= length_bucket)
    <3> DEFINE moved == move_node_details(n.table[b], id, now)
    <3>1. Len(n.table[b]) < length_bucket
      BY <1>4, <2>2
    <3>2. Falling(moved) /\ Ids(n.table[b]) \subseteq Ids(moved)
      BY <1>2, <1>3, <3>1, MoveFalls
    <3> HIDE DEF moved, b
    <3>3. inserted = [n.table EXCEPT ![b] = moved]
      BY <1>6, <2>2 DEF moved
    <3>4. Placed(now, inserted)
      BY <1>1, <1>2, <1>5, <3>2, <3>3, BucketPlaced DEF moved
    <3>5. \A x \in Buckets : inserted[x] = IF x = b THEN moved ELSE n.table[x]
      BY <1>1, <3>3 DEF Placed
    <3> QED BY <3>2, <3>4, <3>5
  <2> QED BY <2>1, <2>2
<1>8. [n EXCEPT !.table = insert_into_contact_table(@, n.id, id, now)] = k
  BY <1>1
<1> HIDE DEF inserted
<1>9. k.table = inserted /\ k.waiting_nodes = n.waiting_nodes
  BY <1>1 DEF Fields
<1>10. Steady(P, k)
  BY <1>7, TableSteady
<1> QED BY <1>2, <1>7, <1>8, <1>9, <1>10 DEF b, NoneLeft

\* Somebody waits for the answer of the head of a bucket, which is pinged.
LEMMA WaiterSteady ==
  ASSUME now \in Nat, NEW P, NEW n, Steady(P, n), NEW b \in Buckets,
         NEW head \in Near(b), NEW id \in Near(b)
  PROVE  LET l == kademPing([n EXCEPT !.waiting_nodes =
                     insert_to_tail_file(@, create_store_file(head, id, now), now)], head)
         IN  /\ Steady(P, l)
             /\ l.table = n.table
             /\ \A e \in Held(l.waiting_nodes) : Overdue(e) => e \in Held(n.waiting_nodes)
<1> DEFINE waiting == insert_to_tail_file(n.waiting_nodes, create_store_file(head, id, now), now)
           k == kademPing(n, head)
           l == kademPing([n EXCEPT !.waiting_nodes = waiting], head)
           pending == P \cup SentPings(k)
<1>1. head \in Neighbour /\ id \in Neighbour
      /\ find_node_details(Self, head) = find_node_details(Self, id)
  BY DEF Near
<1>2. /\ Steady(P, k) /\ k.waiting_nodes = n.waiting_nodes /\ k.table = n.table
      /\ \E p \in SentPings(k) : p.dst = head /\ p.at = now
  BY <1>1, PingSteady
<1>3. l = [k EXCEPT !.waiting_nodes = waiting]
  <2> HIDE DEF waiting
  <2> QED BY DEF kademPing, SendQuery, kademSendMessage, generateTransactionId, Steady, Fields
<1>4. Waiting(pending, n.waiting_nodes) /\ KeyedList(n.waiting_nodes)
  BY <1>2 DEF Steady, Waiting
<1>5. /\ KeyedList(waiting)
      /\ Held(waiting) = {e \in Held(n.waiting_nodes) : e.key # head} \cup {Entry(head, id, 0)}
  BY <1>4, InsertHeld, NewEntry
<1>6. /\ Entry(head, id, 0).key = head /\ Entry(head, id, 0).value = id
      /\ Entry(head, id, 0).timestamp = now
  BY DEF Entry
<1> HIDE DEF waiting, k, l
<1>7. Waiting(pending, waiting)
  <2>1. now \in 0..now
    OBVIOUS
  <2>2. ASSUME NEW e \in Held(waiting), e \in Held(n.waiting_nodes)
        PROVE  /\ e.key \in Neighbour /\ e.value \in Neighbour /\ e.timestamp \in 0..now
               /\ find_node_details(Self, e.key) = find_node_details(Self, e.value)
               /\ \/ now - e.timestamp > KADEM_TIMEOUT_REFRESH_QUERY
                  \/ \E p \in pending : p.dst = e.key /\ p.at = e.timestamp
    BY <1>4, <2>2 DEF Waiting
  <2>3. \E p \in pending : p.dst = head /\ p.at = now
    BY <1>2
  <2> QED BY <1>1, <1>5, <1>6, <2>1, <2>2, <2>3 DEF Waiting
<1>8. ~Overdue(Entry(head, id, 0))
  BY <1>6, MachineAssumption DEF Overdue
<1>9. l.table = n.table /\ l.waiting_nodes = waiting
  BY <1>2, <1>3 DEF Steady, Fields
<1>10. Steady(P, l)
  BY <1>2, <1>3, <1>7, WaitingSteady
<1>11. \A e \in Held(waiting) : Overdue(e) => e \in Held(n.waiting_nodes)
  BY <1>5, <1>8
<1> QED BY <1>9, <1>10, <1>11 DEF l, waiting

\* A neighbour that has sent a query becomes a contact or waits for a place.
LEMMA ConsiderContactSteady ==
  ASSUME now \in Nat, NEW P, NEW n, Steady(P, n), NEW id \in Neighbour
  PROVE  LET k == ConsiderContact(n, id)
         IN  /\ Steady(P, k) /\ NoneLeft(n, k)
             /\ \A e \in Held(k.waiting_nodes) : Overdue(e) => e \in Held(n.waiting_nodes)
<1> DEFINE b == find_node_details(n.id, id)
           list == n.table[b]
           head == list[1].nodeID
           waits == [n EXCEPT !.waiting_nodes =
                       insert_to_tail_file(@, create_store_file(head, id, now), now)]
           kept == [n EXCEPT !.table = insert_into_contact_table(@, n.id, id, now)]
<1>1. n.id = Self /\ id # Self
  BY ContactTableAssumption DEF Steady
<1>2. /\ b \in Buckets /\ id \in Near(b)
      /\ Steady(P, kept) /\ NoneLeft(n, kept) /\ kept.waiting_nodes = n.waiting_nodes
  BY <1>1, ContactSteady DEF Near
<1>3. ASSUME ~Inserts(n.table, n.id, id)
      PROVE  LET l == kademPing(waits, head)
             IN  /\ Steady(P, l) /\ NoneLeft(n, l)
                 /\ \A e \in Held(l.waiting_nodes) : Overdue(e) => e \in Held(n.waiting_nodes)
  <2>1. list \in Seq(ContactOf(Near(b), now)) /\ ~(Len(list) < length_bucket)
    BY <1>2, <1>3 DEF Steady, Placed, IsBucket, Inserts
  <2>2. 1 \in 1..Len(list)
    BY <2>1, NodeDetailsAssumption
  <2>3. list[1] \in ContactOf(Near(b), now)
    BY <2>1, <2>2
  <2>4. head \in Near(b)
    BY <2>3 DEF ContactOf
  <2> HIDE DEF head, b
  <2> QED BY <1>2, <2>4, WaiterSteady DEF NoneLeft
<1>4. \/ ConsiderContact(n, id) = kept
      \/ ~Inserts(n.table, n.id, id) /\ ConsiderContact(n, id) = kademPing(waits, head)
  BY <1>1 DEF ConsiderContact
<1> HIDE DEF kept, waits, head
<1> QED BY <1>2, <1>3, <1>4

\* A machine that dies has no contacts and nobody waits.
LEMMA DeathIsEnd ==
  ASSUME NEW n
  PROVE  Gone(Die(n))
  BY DEF Gone, Die, NewMachine, Fields

\* The first i waiting nodes that have waited long enough for a place in bucket b.
Lates(waiting, b, i) ==
  {j \in 1..i : Overdue(waiting[j]) /\ find_node_details(Self, waiting[j].key) = b}

\* The places of the nodes that have waited long enough, a round at a time: every
\* one of them has driven at most one node out of its bucket.
ArePlaced(id, waiting, old, i, table) ==
  /\ Placed(now, table)
  /\ \E lost : /\ DOMAIN lost = 1..Len(waiting)
               /\ \A b \in Buckets :
                    Ids(old[b]) \subseteq Ids(table[b]) \cup {lost[j] : j \in Lates(waiting, b, i)}

Placing == INSTANCE Loops WITH Step <- InsertRound, Inv <- ArePlaced

\* A waiting node is put into the bucket it belongs to, in the place of its head.
LEMMA InsertOverdueSteady ==
  ASSUME now \in Nat, NEW table, Placed(now, table), NEW e, e.key \in Neighbour, e.value \in Neighbour,
         find_node_details(Self, e.key) = find_node_details(Self, e.value), Overdue(e)
  PROVE  LET after == InsertOverdue(Self, table, e)
             near == find_node_details(Self, e.key)
         IN  /\ Placed(now, after)
             /\ \A b \in Buckets :
                  Ids(table[b]) \subseteq
                    Ids(after[b]) \cup (IF b = near THEN {table[near][1].nodeID} ELSE {})
<1> DEFINE near == find_node_details(Self, e.key)
           list == delete_head_insert_tail(table[near], create_node_details(e.value, now), now)
           after == InsertOverdue(Self, table, e)
<1>1. near \in Buckets
  <2>1. Self \in NodeId /\ e.key \in NodeId /\ Self # e.key
    BY ContactTableAssumption
  <2> QED BY <2>1, BucketNumber DEF Buckets
<1>2. /\ IsBucket(Near(near), now, list) /\ Falling(list)
      /\ Ids(table[near]) \subseteq Ids(list) \cup {table[near][1].nodeID}
  <2>1. /\ IsBucket(Near(near), now, table[near]) /\ Falling(table[near])
        /\ e.value \in Near(near) /\ now \in 0..now
    BY <1>1 DEF Placed, Near
  <2> HIDE DEF near
  <2> QED BY <2>1, ReplaceHead, ReplaceFalls
<1>3. after \in {table, [table EXCEPT ![near] = list]}
  BY DEF InsertOverdue
<1> HIDE DEF near, list, after
<1>4. Placed(now, after)
  BY <1>1, <1>2, <1>3, BucketPlaced
<1>5. \A b \in Buckets : after[b] = table[b] \/ (b = near /\ after[b] = list)
  BY <1>1, <1>3 DEF Placed
<1>6. \A b \in Buckets :
        Ids(table[b]) \subseteq Ids(after[b]) \cup (IF b = near THEN {table[near][1].nodeID} ELSE {})
  BY <1>2, <1>5
<1> QED BY <1>4, <1>6 DEF near, after

\* A round.
LEMMA InsertRoundSteady ==
  ASSUME now \in Nat, NEW waiting, NEW old, NEW i \in Nat, i >= 1, i <= Len(waiting), Len(waiting) \in Nat,
         NEW table, ArePlaced(Self, waiting, old, i-1, table),
         waiting[i].key \in Neighbour, waiting[i].value \in Neighbour, waiting[i].timestamp \in 0..now,
         find_node_details(Self, waiting[i].key) = find_node_details(Self, waiting[i].value)
  PROVE  ArePlaced(Self, waiting, old, i, InsertOverdue(Self, table, waiting[i]))
<1> DEFINE e == waiting[i]
           near == find_node_details(Self, e.key)
           after == InsertOverdue(Self, table, e)
           Before(b) == Lates(waiting, b, i-1)
           Now(b) == Lates(waiting, b, i)
<1>1. Placed(now, table)
  BY DEF ArePlaced
<1>2. PICK lost : /\ DOMAIN lost = 1..Len(waiting)
                  /\ \A b \in Buckets : Ids(old[b]) \subseteq Ids(table[b]) \cup {lost[j] : j \in Before(b)}
  BY DEF ArePlaced
<1>3. \A b : Before(b) \subseteq Now(b) \ {i}
  BY DEF Lates
<1>4. CASE ~Overdue(e)
  <2>1. after = table
    BY <1>4 DEF InsertOverdue
  <2> HIDE DEF after, Before, Now
  <2>2. \A b \in Buckets : Ids(old[b]) \subseteq Ids(after[b]) \cup {lost[j] : j \in Now(b)}
    BY <1>2, <1>3, <2>1
  <2> QED BY <1>1, <1>2, <2>1, <2>2 DEF ArePlaced, after, Now
<1>5. CASE Overdue(e)
  <2> DEFINE head == table[near][1].nodeID
             more == [lost EXCEPT ![i] = head]
  <2>1. /\ Placed(now, after)
        /\ \A b \in Buckets : Ids(table[b]) \subseteq Ids(after[b]) \cup (IF b = near THEN {head} ELSE {})
    BY <1>1, <1>5, InsertOverdueSteady
  <2>2. i \in Now(near)
    BY <1>5 DEF Lates
  <2>3. DOMAIN more = 1..Len(waiting) /\ more[i] = head /\ \A j \in 1..Len(waiting) : j # i => more[j] = lost[j]
    BY <1>2
  <2>4. \A b : Now(b) \subseteq 1..Len(waiting)
    BY DEF Lates
  <2> HIDE DEF after, Before, Now, more, head, near, e
  <2>5. \A b \in Buckets : Ids(old[b]) \subseteq Ids(after[b]) \cup {more[j] : j \in Now(b)}
    <3>1. ASSUME NEW b \in Buckets, NEW id \in Ids(old[b]), id \notin Ids(after[b])
          PROVE  \E j \in Now(b) : id = more[j]
      <4>1. CASE id \in Ids(table[b])
        <5>1. b = near /\ id = head
          BY <2>1, <3>1, <4>1
        <5> QED BY <2>2, <2>3, <5>1
      <4>2. CASE id \notin Ids(table[b])
        <5>1. PICK j \in Before(b) : id = lost[j]
          BY <1>2, <3>1, <4>2
        <5>2. j \in Now(b) /\ j # i /\ j \in 1..Len(waiting)
          BY <1>3, <2>4
        <5> QED BY <2>3, <5>1, <5>2
      <4> QED BY <4>1, <4>2
    <3> QED BY <3>1
  <2> QED BY <2>1, <2>3, <2>5 DEF ArePlaced, after, Now, e
<1> QED BY <1>4, <1>5

\* Of all of them.
AllLates(waiting, b) == Lates(waiting, b, Len(waiting))

\* From machine n to machine k a node has left for each waiting node at most.
LeftForWaiting(n, k) ==
  \E lost : \A b \in Buckets :
    Ids(n.table[b]) \subseteq Ids(k.table[b]) \cup {lost[j] : j \in AllLates(n.waiting_nodes, b)}

\* All of them.
LEMMA InsertWaitingSteady ==
  ASSUME now \in Nat, NEW P, NEW n, Steady(P, n)
  PROVE  Steady(P, InsertWaiting(n)) /\ LeftForWaiting(n, InsertWaiting(n))
<1> DEFINE list == n.waiting_nodes
           l == Len(list)
           table == Placing!Loop(n.id, list, n.table, n.table, list)
<1>1. /\ list \in Seq(Held(list)) /\ l \in Nat /\ DOMAIN list = 1..l /\ n.id = Self
      /\ \A e \in Held(list) : /\ e.key \in Neighbour /\ e.value \in Neighbour /\ e.timestamp \in 0..now
                               /\ find_node_details(Self, e.key) = find_node_details(Self, e.value)
  BY DEF Steady, Waiting, KeyedList
<1>2. InsertWaiting(n) = [n EXCEPT !.table = table]
  BY DEF InsertWaiting, FoldLeft, MapThenFoldSet, Max, Placing!FoldLeft,
         Placing!MapThenFoldSet, Placing!Max, Placing!Loop, InsertRound
<1>3. ArePlaced(n.id, list, n.table, 0, n.table)
  <2>1. DOMAIN [j \in 1..l |-> 0] = 1..l
    OBVIOUS
  <2>2. Placed(now, n.table)
    BY DEF Steady
  <2> HIDE DEF list, l
  <2> QED BY <2>1, <2>2 DEF ArePlaced, l
<1>4. ASSUME NEW i \in 1..l, NEW t, ArePlaced(n.id, list, n.table, i-1, t)
      PROVE  ArePlaced(n.id, list, n.table, i, InsertRound(n.id, list, n.table, t, list[i]))
  <2>1. list[i] \in Held(list)
    BY DEF Held
  <2>2. i \in Nat /\ i >= 1 /\ i <= Len(list) /\ Len(list) \in Nat
    BY <1>1
  <2> HIDE DEF list
  <2> QED BY <1>1, <1>4, <2>1, <2>2, InsertRoundSteady DEF InsertRound
<1> HIDE DEF list, table
<1>5. ArePlaced(n.id, list, n.table, l, table)
  BY <1>1, <1>3, <1>4, Placing!LoopInvariant DEF table
<1>6. Placed(now, table)
  BY <1>5 DEF ArePlaced
<1>7. [n EXCEPT !.table = table].table = table
  BY DEF Steady, Fields
<1>8. \E lost : \A b \in Buckets :
        Ids(n.table[b]) \subseteq Ids(table[b]) \cup {lost[j] : j \in Lates(list, b, l)}
  BY <1>5 DEF ArePlaced
<1>9. LeftForWaiting(n, [n EXCEPT !.table = table])
  BY <1>7, <1>8 DEF LeftForWaiting, AllLates, list
<1> QED BY <1>2, <1>6, <1>9, TableSteady

\* Queries that are too old are forgotten, and only those.
LEMMA CleanListsSteady ==
  ASSUME now \in Nat, NEW P, NEW n, Steady(P, n)
  PROVE  LET k == CleanLists(n)
         IN  /\ Steady(P, k) /\ k.table = n.table
             /\ \A e \in Held(n.sent_queries) \ Held(k.sent_queries) :
                  e.timestamp < now - KADEM_TIMEOUT_REFRESH_QUERY
<1> DEFINE k == CleanLists(n)
           queries == clean(n.sent_queries, KADEM_TIMEOUT_REFRESH_QUERY, now)
           forgot == [n EXCEPT !.sent_queries = queries]
<1>1. /\ KeyedList(queries) /\ Held(queries) \subseteq Held(n.sent_queries)
      /\ \A e \in Held(n.sent_queries) \ Held(queries) : e.timestamp < now - KADEM_TIMEOUT_REFRESH_QUERY
  BY CleanHeld DEF Steady, OnlyPings
<1>2. /\ DOMAIN k = Fields /\ DOMAIN forgot = Fields /\ k.sent_queries = queries
      /\ \A f \in Fields \ {"token_rec", "store_find_queries"} : k[f] = forgot[f]
  BY DEF CleanLists, Steady, Fields
<1> HIDE DEF queries
<1>3. Steady(P, forgot)
  BY <1>1, QueriesSteady
<1> HIDE DEF forgot, k
<1>4. /\ k.id = forgot.id /\ k.generated = forgot.generated /\ k.alive = forgot.alive
      /\ k.table = forgot.table /\ k.waiting_nodes = forgot.waiting_nodes
      /\ k.sent_queries = forgot.sent_queries /\ k.outbox = forgot.outbox
  BY <1>2 DEF Fields
<1>5. SentPings(k) = SentPings(forgot)
  BY <1>4 DEF SentPings
<1>6. Steady(P, k)
  BY <1>2, <1>3, <1>4, <1>5, OthersSteady
<1>7. k.table = n.table
  BY <1>4 DEF Steady, Fields, forgot
<1> QED BY <1>1, <1>2, <1>6, <1>7 DEF k

\* What ends maintenance, or the machine.
LEMMA FinishSteady ==
  ASSUME now \in Nat, NEW P, NEW n, Steady(P, n), NEW garbage
  PROVE  LET k == FinishMaintenance(n, garbage)
         IN  \/ Steady(P, k) /\ LeftForWaiting(n, k) /\ k = CleanLists(InsertWaiting(n))
             \/ Gone(k)
<1> DEFINE filled == InsertWaiting(n)
           fatal == garbage.wild /\ \E i \in 1..Len(n.waiting_nodes) : Overdue(n.waiting_nodes[i])
<1>1. Steady(P, filled) /\ LeftForWaiting(n, filled)
  BY InsertWaitingSteady
<1>2. FinishMaintenance(n, garbage) = IF fatal THEN Die(n) ELSE CleanLists(filled)
  BY DEF FinishMaintenance, Steady
<1> HIDE DEF fatal
<1>3. CASE fatal
  BY <1>2, <1>3, DeathIsEnd
<1>4. CASE ~fatal
  <2> HIDE DEF filled
  <2>1. Steady(P, CleanLists(filled)) /\ CleanLists(filled).table = filled.table
    BY <1>1, CleanListsSteady
  <2> QED BY <1>1, <1>2, <1>4, <2>1 DEF LeftForWaiting, filled
<1> QED BY <1>3, <1>4

\* From machine n to machine k a node whose contact was not stale has left for each
\* node that had waited long enough, and no other.
FewLeft(n, k) ==
  \E lost : \A b \in Buckets :
    Spared(n.table[b], k.table[b], {lost[j] : j \in AllLates(n.waiting_nodes, b)})

\* A refresh, a contact or a waiting node more, a place for those who wait, and
\* what the handler adds.
LEMMA FewLeave ==
  ASSUME NEW n, NEW n1, NEW n2, NEW n3, NEW k,
         n1.waiting_nodes = n.waiting_nodes, \A b \in Buckets : Spared(n.table[b], n1.table[b], {}),
         NoneLeft(n1, n2), KeyedList(n2.waiting_nodes),
         \A e \in Held(n2.waiting_nodes) : Overdue(e) => e \in Held(n1.waiting_nodes),
         LeftForWaiting(n2, n3), NoneLeft(n3, k)
  PROVE  FewLeft(n, k)
<1> DEFINE w == n.waiting_nodes
           v == n2.waiting_nodes
           Same(i, j) == j \in 1..Len(v) /\ v[j] = w[i]
           at == [i \in 1..Len(w) |-> CHOOSE j : Same(i, j)]
<1>1. PICK lost : \A b \in Buckets :
        Ids(n2.table[b]) \subseteq Ids(n3.table[b]) \cup {lost[j] : j \in AllLates(v, b)}
  BY DEF LeftForWaiting
<1> DEFINE gone == [i \in 1..Len(w) |-> lost[at[i]]]
<1>2. ASSUME NEW b \in Buckets, NEW j \in AllLates(v, b)
      PROVE  \E i \in AllLates(w, b) : gone[i] = lost[j]
  <2>1. j \in 1..Len(v) /\ Overdue(v[j]) /\ find_node_details(Self, v[j].key) = b
    BY DEF AllLates, Lates
  <2>2. v[j] \in Held(w)
    BY <2>1 DEF Held
  <2>3. PICK i \in 1..Len(w) : v[j] = w[i]
    BY <2>2 DEF Held
  <2>4. i \in AllLates(w, b)
    BY <2>1, <2>3 DEF AllLates, Lates
  <2>5. at[i] = j
    <3>1. Same(i, j)
      BY <2>1, <2>3
    <3>2. Same(i, at[i])
      BY <3>1
    <3>3. v[at[i]] = v[j] /\ at[i] \in 1..Len(v)
      BY <2>3, <3>2
    <3> HIDE DEF at, v
    <3> QED BY <2>1, <3>3 DEF KeyedList, v
  <2> QED BY <2>4, <2>5
<1>3. ASSUME NEW b \in Buckets, NEW c \in 1..Len(n.table[b]), ~Stale(n.table[b][c])
      PROVE  n.table[b][c].nodeID \in Ids(k.table[b]) \cup {gone[i] : i \in AllLates(w, b)}
  <2> DEFINE id == n.table[b][c].nodeID
  <2>1. id \in Ids(n1.table[b])
    BY <1>3 DEF Spared
  <2> HIDE DEF id, gone, w, v, at, Same
  <2>2. id \in Ids(n2.table[b])
    BY <2>1 DEF NoneLeft
  <2>3. id \in Ids(n3.table[b]) \/ \E j \in AllLates(v, b) : id = lost[j]
    BY <1>1, <2>2
  <2>4. Ids(n3.table[b]) \subseteq Ids(k.table[b])
    BY DEF NoneLeft
  <2> QED BY <1>2, <2>3, <2>4 DEF id
<1> HIDE DEF gone, at, Same
<1> QED BY <1>3 DEF FewLeft, Spared

-----------------------------------------------------------------------------
(* Datagrams. *)

\* A neighbour pings the machine, under an identifier the machine has not used.
LEMMA PingTaken ==
  ASSUME now \in Nat, NEW P, NEW n, Steady(P, n), NEW src \in Neighbour,
         NEW msg, msg.y = "q", msg.q = "ping", msg.id = src, msg.t.id = src, NEW garbage
  PROVE  LET k == HandleMessage(n, msg, src, garbage)
         IN  (Steady(P, k) /\ FewLeft(n, k)) \/ Gone(k)
<1> DEFINE n1 == RefreshBuckets(n)
           n2 == InsertSender(n1, msg)
           n3 == FinishMaintenance(n2, garbage)
           answer == With(NoContent, [y |-> "r", t |-> msg.t, id |-> n3.id])
           pong == [n3 EXCEPT !.outbox = @ \cup {[src |-> n3.id, dst |-> src, msg |-> answer]}]
<1>1. /\ Steady(P, n1) /\ n1.waiting_nodes = n.waiting_nodes
      /\ \A b \in Buckets : Spared(n.table[b], n1.table[b], {})
  BY RefreshBucketsSteady
<1>2. n2 = ConsiderContact(n1, src)
  <2>1. Self # src
    BY ContactTableAssumption
  <2>2. \A e \in Held(n1.sent_queries) : e.key.id = Self
    BY <1>1 DEF Steady, OnlyPings, Transaction
  <2>3. msg.t \notin Keys(n1.sent_queries)
    BY <2>1, <2>2, KeysHeld
  <2> QED BY <2>3 DEF InsertSender
<1> HIDE DEF n1
<1>3. /\ Steady(P, n2) /\ NoneLeft(n1, n2)
      /\ \A e \in Held(n2.waiting_nodes) : Overdue(e) => e \in Held(n1.waiting_nodes)
  BY <1>1, <1>2, ConsiderContactSteady
<1> HIDE DEF n2
<1>4. (Steady(P, n3) /\ LeftForWaiting(n2, n3)) \/ Gone(n3)
  BY <1>3, FinishSteady
<1>5. HandleMessage(n, msg, src, garbage) = Dispatch(n3, msg, src, garbage)
  BY DEF HandleMessage, kademMaintenance, n1, n2
<1> HIDE DEF n3
<1>6. CASE Gone(n3)
  <2>1. Dispatch(n3, msg, src, garbage) = n3
    BY <1>6 DEF Gone, Dispatch
  <2> QED BY <1>5, <1>6, <2>1
<1>7. CASE Steady(P, n3) /\ LeftForWaiting(n2, n3)
  <2>1. Dispatch(n3, msg, src, garbage) = pong
    BY <1>7 DEF Dispatch, HandleQuery, kademPong, Answer, kademSendMessage, Steady
  <2>2. answer.y = "r"
    BY DEF With, NoContent
  <2> HIDE DEF answer
  <2> DEFINE datagram == [src |-> n3.id, dst |-> src, msg |-> answer]
  <2>3. datagram.msg.y = "r"
    BY <2>2
  <2>4. DOMAIN pong = Fields /\ pong.outbox = n3.outbox \cup {datagram}
        /\ \A f \in Fields \ {"outbox"} : pong[f] = n3[f]
    BY <1>7 DEF Steady, Fields
  <2> HIDE DEF pong, datagram
  <2>5. /\ pong.id = n3.id /\ pong.generated = n3.generated /\ pong.alive = n3.alive
        /\ pong.table = n3.table /\ pong.waiting_nodes = n3.waiting_nodes
        /\ pong.sent_queries = n3.sent_queries
    BY <2>4 DEF Fields
  <2>6. SentPings(pong) = SentPings(n3)
    BY <2>3, <2>4 DEF SentPings
  <2>7. Steady(P, pong)
    BY <1>7, <2>4, <2>5, <2>6, OthersSteady
  <2>8. NoneLeft(n3, pong)
    BY <2>5 DEF NoneLeft
  <2>9. KeyedList(n2.waiting_nodes)
    BY <1>3 DEF Steady, Waiting
  <2>10. FewLeft(n, pong)
    BY <1>1, <1>3, <1>7, <2>8, <2>9, FewLeave
  <2> QED BY <1>5, <2>1, <2>7, <2>10
<1> QED BY <1>4, <1>6, <1>7

\* The answer to a ping that is kept: its sender enters the table and nobody waits
\* for it any more.
LEMMA PongSteady ==
  ASSUME now \in Nat, NEW P, NEW n, Steady(P, n), NEW msg, msg.id \in Neighbour
  PROVE  LET k == ForgetQuery(kademHandlePong(n, msg), msg.t)
         IN  Steady(P, k) /\ NoneLeft(n, k) /\ \A e \in Held(k.waiting_nodes) : e.key # msg.id
<1> DEFINE entered == [n EXCEPT !.table = insert_into_contact_table(@, n.id, msg.id, now)]
           waiting == delete_key(n.waiting_nodes, msg.id)
           kept == [entered EXCEPT !.waiting_nodes = waiting]
           queries == delete_key(n.sent_queries, msg.t)
           forgot == [kept EXCEPT !.sent_queries = queries]
           k == ForgetQuery(kademHandlePong(n, msg), msg.t)
<1>1. Steady(P, entered) /\ NoneLeft(n, entered)
  BY ContactSteady
<1>2. entered.waiting_nodes = n.waiting_nodes /\ entered.sent_queries = n.sent_queries
  BY DEF Steady, Fields
<1>3. /\ DOMAIN k = Fields
      /\ \A f \in Fields \ {"latest_query_rpc", "rpc_out"} : k[f] = forgot[f]
  BY DEF Steady, Fields, ForgetQuery, kademHandlePong, AnswerClient
<1>4. Waiting(P \cup SentPings(entered), entered.waiting_nodes)
  BY <1>1 DEF Steady
<1> HIDE DEF entered
<1>5. KeyedList(waiting) /\ Held(waiting) = {e \in Held(n.waiting_nodes) : e.key # msg.id}
  BY <1>2, <1>4, DeleteHeld DEF Waiting
<1>6. KeyedList(queries) /\ Held(queries) \subseteq Held(n.sent_queries)
  BY DeleteHeld DEF Steady, OnlyPings
<1>7. kept.sent_queries = n.sent_queries
  BY <1>1, <1>2 DEF Steady, Fields
<1>8. forgot.waiting_nodes = waiting /\ forgot.table = entered.table
  BY <1>1 DEF Steady, Fields
<1> HIDE DEF waiting, queries
<1>9. Steady(P, kept)
  <2>1. Waiting(P \cup SentPings(entered), waiting)
    BY <1>2, <1>4, <1>5 DEF Waiting
  <2> QED BY <1>1, <2>1, WaitingSteady
<1> HIDE DEF kept
<1>10. Steady(P, forgot)
  BY <1>6, <1>7, <1>9, QueriesSteady
<1> HIDE DEF forgot, k
<1>11. /\ k.id = forgot.id /\ k.generated = forgot.generated /\ k.alive = forgot.alive
       /\ k.table = forgot.table /\ k.waiting_nodes = forgot.waiting_nodes
       /\ k.sent_queries = forgot.sent_queries /\ k.outbox = forgot.outbox
  BY <1>3 DEF Fields
<1>12. SentPings(k) = SentPings(forgot)
  BY <1>11 DEF SentPings
<1>13. Steady(P, k)
  BY <1>3, <1>10, <1>11, <1>12, OthersSteady
<1>14. NoneLeft(n, k)
  BY <1>1, <1>8, <1>11 DEF NoneLeft
<1> QED BY <1>5, <1>8, <1>11, <1>13, <1>14 DEF k

\* A machine that need not count on p any more.
LEMMA WithoutPing ==
  ASSUME NEW P, NEW n, Steady(P, n), NEW p,
         \A e \in Held(n.waiting_nodes) : p.dst = e.key /\ p.at = e.timestamp =>
           now - e.timestamp > KADEM_TIMEOUT_REFRESH_QUERY
  PROVE  Steady(P \ {p}, n)
<1>1. Timed((P \ {p}) \cup SentPings(n), n.generated, n.sent_queries)
  BY DEF Steady, Timed
<1>2. Waiting((P \ {p}) \cup SentPings(n), n.waiting_nodes)
  <2>1. Waiting(P \cup SentPings(n), n.waiting_nodes)
    BY DEF Steady
  <2>2. ASSUME NEW e \in Held(n.waiting_nodes)
        PROVE  \/ now - e.timestamp > KADEM_TIMEOUT_REFRESH_QUERY
               \/ \E q \in (P \ {p}) \cup SentPings(n) : q.dst = e.key /\ q.at = e.timestamp
    <3>1. CASE now - e.timestamp > KADEM_TIMEOUT_REFRESH_QUERY
      BY <3>1
    <3>2. CASE \E q \in P \cup SentPings(n) : q.dst = e.key /\ q.at = e.timestamp
      BY <3>2
    <3> QED BY <2>1, <3>1, <3>2 DEF Waiting
  <2> QED BY <2>1, <2>2 DEF Waiting
<1> QED BY <1>1, <1>2 DEF Steady

\* A neighbour answers ping p.  If the ping is kept nobody waits for its answer
\* afterwards; if it was forgotten just now, who waits has waited long enough; if
\* it was forgotten before, the machine ends.
LEMMA PongTaken ==
  ASSUME now \in Nat, NEW P, NEW n, Steady(P, n), NEW p \in P, p.dst \in Neighbour,
         NEW msg, msg.y = "r", msg.t = p.t, msg.id = p.dst, NEW garbage
  PROVE  LET k == HandleMessage(n, msg, p.dst, garbage)
         IN  (Steady(P \ {p}, k) /\ FewLeft(n, k)) \/ Gone(k)
<1> DEFINE n1 == RefreshBuckets(n)
           n2 == InsertSender(n1, msg)
           n3 == FinishMaintenance(n2, garbage)
           n4 == Dispatch(n3, msg, p.dst, garbage)
<1>1. /\ Steady(P, n1) /\ n1.waiting_nodes = n.waiting_nodes
      /\ \A b \in Buckets : Spared(n.table[b], n1.table[b], {})
  BY RefreshBucketsSteady
<1> HIDE DEF n1
<1>2. HandleMessage(n, msg, p.dst, garbage) = n4
  BY DEF HandleMessage, kademMaintenance, n1
<1>3. CASE p.t \notin Keys(n1.sent_queries)
  <2>1. n2 = Die(n1)
    BY <1>3 DEF InsertSender
  <2>2. Gone(n2)
    BY <2>1, DeathIsEnd
  <2> HIDE DEF n2
  <2>3. ~n2.alive
    BY <2>2 DEF Gone
  <2>4. n4 = n2
    BY <2>3 DEF FinishMaintenance, Dispatch
  <2> QED BY <1>2, <2>2, <2>4
<1>4. CASE Gone(n3)
  <2>1. n4 = n3
    BY <1>4 DEF Gone, Dispatch
  <2> QED BY <1>2, <1>4, <2>1
<1>5. CASE p.t \in Keys(n1.sent_queries) /\ ~Gone(n3)
  <2> DEFINE e == find_key(n1.sent_queries, p.t)
             filled == InsertWaiting(n1)
             cleaned == CleanLists(filled)
  <2>1. e \in Held(n1.sent_queries) /\ e.key = p.t /\ e.value.q = "ping" /\ e.timestamp = p.at
    <3>1. e \in Held(n1.sent_queries) /\ e.key = p.t
      BY <1>1, <1>5, FindHeld DEF Steady, OnlyPings
    <3> QED BY <1>1, <3>1 DEF Steady, OnlyPings, Timed
  <2>2. n2 = n1
    BY <1>5, <2>1 DEF InsertSender
  <2> HIDE DEF n2, e
  <2>3. Steady(P, filled) /\ LeftForWaiting(n1, filled) /\ filled.sent_queries = n1.sent_queries
    <3>1. filled.sent_queries = n1.sent_queries
      BY <1>1 DEF InsertWaiting, Steady, Fields
    <3> QED BY <1>1, <3>1, InsertWaitingSteady
  <2> HIDE DEF filled
  <2>4. /\ Steady(P, cleaned) /\ cleaned.table = filled.table
        /\ \A x \in Held(n1.sent_queries) \ Held(cleaned.sent_queries) :
             x.timestamp < now - KADEM_TIMEOUT_REFRESH_QUERY
    BY <2>3, CleanListsSteady
  <2>5. KADEM_TIMEOUT_REFRESH_QUERY \in Nat
    BY MachineAssumption
  <2>6. \A x \in Held(cleaned.waiting_nodes) : x.timestamp \in 0..now
    BY <2>4 DEF Steady, Waiting
  <2> HIDE DEF cleaned
  <2>7. n3 = cleaned /\ cleaned.alive
    BY <1>1, <1>5, <2>2, <2>4, FinishSteady DEF cleaned, filled, Steady
  <2> HIDE DEF n3
  <2>10. ASSUME NEW k, NoneLeft(cleaned, k) PROVE FewLeft(n, k)
    <3>1. LeftForWaiting(n1, cleaned)
      BY <2>3, <2>4 DEF LeftForWaiting
    <3>2. KeyedList(n1.waiting_nodes) /\ NoneLeft(n1, n1)
      BY <1>1 DEF Steady, Waiting, NoneLeft
    <3> QED BY <1>1, <2>10, <3>1, <3>2, FewLeave
  <2>8. CASE p.t \notin Keys(cleaned.sent_queries)
    <3>1. n4 = cleaned
      BY <2>7, <2>8 DEF Dispatch, HandleAnswer
    <3>2. e \notin Held(cleaned.sent_queries)
      BY <2>1, <2>8, KeysHeld
    <3>3. p.at < now - KADEM_TIMEOUT_REFRESH_QUERY
      BY <2>1, <2>4, <3>2
    <3>4. \A x \in Held(cleaned.waiting_nodes) : p.at = x.timestamp =>
            now - x.timestamp > KADEM_TIMEOUT_REFRESH_QUERY
      BY <2>5, <2>6, <3>3
    <3>5. Steady(P \ {p}, cleaned)
      BY <2>4, <3>4, WithoutPing
    <3>6. FewLeft(n, cleaned)
      BY <2>10 DEF NoneLeft
    <3> QED BY <1>2, <3>1, <3>5, <3>6
  <2>9. CASE p.t \in Keys(cleaned.sent_queries)
    <3> DEFINE query == find_key(cleaned.sent_queries, p.t)
               k == ForgetQuery(kademHandlePong(cleaned, msg), msg.t)
    <3>1. query.value.q = "ping"
      BY <2>4, <2>9, FindHeld DEF Steady, OnlyPings
    <3> HIDE DEF query
    <3>2. n4 = k
      BY <2>7, <2>9, <3>1 DEF Dispatch, HandleAnswer, HandleAnswerTo, query
    <3>3. Steady(P, k) /\ NoneLeft(cleaned, k) /\ \A x \in Held(k.waiting_nodes) : x.key # p.dst
      BY <2>4, PongSteady
    <3> HIDE DEF k
    <3>4. Steady(P \ {p}, k)
      BY <3>3, WithoutPing
    <3>5. FewLeft(n, k)
      BY <2>10, <3>3
    <3> QED BY <1>2, <3>2, <3>4, <3>5
  <2> QED BY <2>8, <2>9
<1> QED BY <1>3, <1>4, <1>5

-----------------------------------------------------------------------------
(* The steps. *)

\* What a machine has sent is taken away.
LEMMA TakenAway ==
  ASSUME NEW Q, NEW n, Steady(Q, n) \/ Gone(n)
  PROVE  LET k == [n EXCEPT !.outbox = {}]
         IN  k.outbox = {} /\ (Steady(Q \cup SentPings(n), k) \/ Gone(k))
<1> DEFINE k == [n EXCEPT !.outbox = {}]
<1>1. DOMAIN k = Fields /\ k.outbox = {} /\ \A f \in Fields \ {"outbox"} : k[f] = n[f]
  BY DEF Steady, Gone, Fields
<1> HIDE DEF k
<1>2. /\ k.id = n.id /\ k.generated = n.generated /\ k.alive = n.alive /\ k.table = n.table
      /\ k.waiting_nodes = n.waiting_nodes /\ k.sent_queries = n.sent_queries
  BY <1>1 DEF Fields
<1>3. SentPings(k) = {}
  BY <1>1 DEF SentPings
<1>4. CASE Gone(n)
  BY <1>1, <1>2, <1>4 DEF Gone, k
<1>5. CASE Steady(Q, n)
  <2>1. (Q \cup SentPings(n)) \cup SentPings(k) = Q \cup SentPings(n)
    BY <1>3
  <2>2. Steady(Q \cup SentPings(n), k)
    BY <1>1, <1>2, <1>5, <2>1 DEF Steady
  <2> QED BY <1>1, <2>2 DEF k
<1> QED BY <1>4, <1>5

\* The invariant is about the machine and the time only.
LEMMA BecomeKeepsIInv ==
  ASSUME IInv, UNCHANGED now, pings' \in 0..MaxPings,
         NEW after, NEW answered, Become(after, answered),
         Steady(pinged \ answered, after) \/ Gone(after)
  PROVE  IInv'
<1> DEFINE k == [after EXCEPT !.outbox = {}]
           P == (pinged \ answered) \cup SentPings(after)
<1>1. m' = k /\ pinged' = P
  BY DEF Become, SentPings
<1>2. k.outbox = {} /\ (Steady(P, k) \/ Gone(k))
  BY TakenAway
<1> HIDE DEF k, P
<1>3. (Steady(P, k) => Steady(pinged, m)') /\ (Gone(k) => Gone(m)')
  BY <1>1 DEF Steady, Gone, SentPings, Waiting
<1> QED BY <1>1, <1>2, <1>3 DEF IInv

\* What holds now holds a little later.
LEMMA LaterSteady ==
  ASSUME now \in Nat, now' = now + 1, UNCHANGED <<m, pinged>>, m.outbox = {}, Steady(pinged, m)
  PROVE  Steady(pinged, m)'
<1>1. ASSUME NEW b \in Buckets PROVE IsBucket(Near(b), now + 1, m.table[b]) /\ Falling(m.table[b])
  <2>1. ContactOf(Near(b), now) \subseteq ContactOf(Near(b), now + 1)
    BY DEF ContactOf
  <2>2. /\ m.table[b] \in Seq(ContactOf(Near(b), now)) /\ Len(m.table[b]) <= length_bucket
        /\ Falling(m.table[b])
    BY DEF Steady, Placed, IsBucket
  <2> QED BY <2>1, <2>2, SeqMonotonic DEF IsBucket
<1>2. Placed(now + 1, m.table)
  BY <1>1 DEF Steady, Placed
<1>3. SentPings(m) = {} /\ SentPings(m)' = {}
  BY DEF SentPings
<1>4. Timed(pinged, m.generated, m.sent_queries) /\ Waiting(pinged, m.waiting_nodes)
  BY <1>3 DEF Steady
<1>5. Waiting(pinged, m.waiting_nodes)'
  <2>1. KADEM_TIMEOUT_REFRESH_QUERY \in Nat
    BY MachineAssumption
  <2>2. ASSUME NEW e \in Held(m.waiting_nodes)
        PROVE  /\ e.timestamp \in 0..now+1
               /\ now - e.timestamp > KADEM_TIMEOUT_REFRESH_QUERY =>
                    now + 1 - e.timestamp > KADEM_TIMEOUT_REFRESH_QUERY
    BY <1>4, <2>1 DEF Waiting
  <2> QED BY <1>4, <2>2 DEF Waiting
<1> QED BY <1>2, <1>3, <1>4, <1>5 DEF Steady

\* At the start there are no contacts.
LEMMA InitIsInvariant == Init => IInv
<1> SUFFICES ASSUME Init PROVE IInv
  OBVIOUS
<1>1. /\ DOMAIN m = Fields /\ m.id = Self /\ m.generated = 1 /\ m.alive = TRUE /\ m.outbox = {}
      /\ m.table = [b \in Buckets |-> <<>>] /\ m.sent_queries = <<>> /\ m.waiting_nodes = <<>>
  BY DEF Init, NewMachine, Fields
<1>2. SentPings(m) = {} /\ pinged = {}
  BY <1>1 DEF SentPings, Init
<1>3. Placed(now, m.table)
  <2>1. \A b \in Buckets : IsBucket(Near(b), now, <<>>) /\ Falling(<<>>)
    BY EmptySeq, NodeDetailsAssumption DEF IsBucket, Falling
  <2> QED BY <1>1, <2>1 DEF Placed
<1>4. Steady(pinged, m)
  BY <1>1, <1>2, <1>3, NothingHeld DEF Steady, OnlyPings, Timed, Waiting
<1> QED BY <1>1, <1>4, ContactTableAssumption DEF IInv, Init

\* Every step keeps the invariant.
LEMMA NextKeepsIInv == IInv /\ [Next]_vars => IInv'
<1> SUFFICES ASSUME IInv, [Next]_vars PROVE IInv'
  OBVIOUS
<1>1. now \in Nat /\ now \in 0..MaxTime /\ pings \in 0..MaxPings /\ MaxPings \in Nat /\ MaxTime \in Nat
  BY ContactTableAssumption DEF IInv
<1>2. m.alive => Steady(pinged, m)
  BY DEF IInv, Gone
<1>3. ASSUME NEW n \in Neighbour, PingFrom(n) PROVE IInv'
  <2>0. PICK wild \in BOOLEAN :
          Become(HandleMessage(m, [y |-> "q", q |-> "ping", t |-> [id |-> n, nb |-> pings], id |-> n],
                               n, [count |-> 0, wild |-> wild]), {})
    BY <1>3 DEF PingFrom, Handle
  <2> DEFINE garbage == [count |-> 0, wild |-> wild]
             msg == [y |-> "q", q |-> "ping", t |-> [id |-> n, nb |-> pings], id |-> n]
             after == HandleMessage(m, msg, n, garbage)
  <2>1. Steady(pinged, m) /\ UNCHANGED now /\ pings' \in 0..MaxPings /\ Become(after, {})
    BY <1>1, <1>2, <1>3, <2>0 DEF PingFrom, Handle
  <2>2. msg.y = "q" /\ msg.q = "ping" /\ msg.id = n /\ msg.t.id = n
    OBVIOUS
  <2> HIDE DEF msg
  <2>3. Steady(pinged, after) \/ Gone(after)
    BY <1>1, <2>1, <2>2, PingTaken
  <2> HIDE DEF after
  <2>4. pinged \ {} = pinged
    OBVIOUS
  <2>5. Steady(pinged \ {}, after) \/ Gone(after)
    BY <2>3, <2>4
  <2> QED BY <2>1, <2>5, BecomeKeepsIInv
<1>4. ASSUME NEW p \in pinged, PongTo(p) PROVE IInv'
  <2>0. PICK wild \in BOOLEAN :
          Become(HandleMessage(m, [y |-> "r", t |-> p.t, id |-> p.dst],
                               p.dst, [count |-> 0, wild |-> wild]), {p})
    BY <1>4 DEF PongTo, Handle
  <2> DEFINE garbage == [count |-> 0, wild |-> wild]
             msg == [y |-> "r", t |-> p.t, id |-> p.dst]
             after == HandleMessage(m, msg, p.dst, garbage)
  <2>1. Steady(pinged, m) /\ UNCHANGED now /\ pings' \in 0..MaxPings /\ Become(after, {p})
    BY <1>1, <1>2, <1>4, <2>0 DEF PongTo, Handle
  <2>2. msg.y = "r" /\ msg.t = p.t /\ msg.id = p.dst
    OBVIOUS
  <2>3. p.dst \in Neighbour
    BY <2>1 DEF Steady, Timed
  <2> HIDE DEF msg
  <2>4. Steady(pinged \ {p}, after) \/ Gone(after)
    BY <1>1, <2>1, <2>2, <2>3, PongTaken
  <2> HIDE DEF after
  <2> QED BY <2>1, <2>4, BecomeKeepsIInv
<1>5. CASE Tick
  <2>1. now' = now + 1 /\ now' \in 0..MaxTime /\ UNCHANGED <<m, pinged, pings>> /\ m.outbox = {}
    BY <1>1, <1>5 DEF Tick, IInv
  <2>2. Steady(pinged, m) => Steady(pinged, m)'
    BY <1>1, <2>1, LaterSteady
  <2>3. Gone(m) => Gone(m)'
    BY <2>1 DEF Gone
  <2> QED BY <1>1, <2>1, <2>2, <2>3 DEF IInv
<1>6. CASE UNCHANGED vars
  BY <1>6 DEF vars, IInv, Steady, Gone, SentPings, Waiting
<1> QED BY <1>3, <1>4, <1>5, <1>6 DEF Next

\* The invariant of the table: contacts are in their buckets, queries are pings, and
\* whoever waits can count on a ping that is not answered or has waited enough.
THEOREM SpecIInv == Spec => []IInv
<1>1. Init => IInv
  BY InitIsInvariant
<1>2. IInv /\ [Next]_vars => IInv'
  BY NextKeepsIInv
<1> QED BY <1>1, <1>2, PTL DEF Spec

-----------------------------------------------------------------------------
(* What follows from it. *)

\* No bucket holds more than length_bucket contacts, none is pinged more than
\* twice or stamped ahead of the clock: whatever the neighbours do.
THEOREM SpecTypeOK == Spec => []TypeOK
<1>1. ASSUME IInv PROVE TypeOK
  <2>1. CASE Gone(m)
    BY <1>1, <2>1, NodeDetailsAssumption DEF Gone, IInv, TypeOK
  <2>2. CASE Steady(pinged, m)
    <3>1. ASSUME NEW b \in Buckets
          PROVE  /\ Len(m.table[b]) <= length_bucket
                 /\ \A i \in 1..Len(m.table[b]) : /\ m.table[b][i].nodeID \in Neighbour
                                                  /\ m.table[b][i].count \in 0..2
                                                  /\ m.table[b][i].timestamp \in 0..now
      <4>1. m.table[b] \in Seq(ContactOf(Near(b), now)) /\ Len(m.table[b]) <= length_bucket
        BY <2>2 DEF Steady, Placed, IsBucket
      <4>2. \A i \in 1..Len(m.table[b]) : m.table[b][i] \in ContactOf(Near(b), now)
        BY <4>1
      <4> QED BY <4>1, <4>2 DEF ContactOf, Near
    <3>2. \A i \in 1..Len(m.waiting_nodes) : m.waiting_nodes[i].value \in Neighbour
      BY <2>2 DEF Steady, Waiting, Held
    <3> QED BY <1>1, <3>1, <3>2 DEF IInv, TypeOK
  <2> QED BY <1>1, <2>1, <2>2 DEF IInv
<1> QED BY <1>1, SpecIInv, PTL

\* A contact is in the bucket of its distance, where the lookups search it, and who
\* waits for a place waits for one in its own bucket.
THEOREM SpecPlacement == Spec => []Placement
<1>1. ASSUME IInv PROVE Placement
  <2>1. CASE Gone(m)
    BY <2>1 DEF Gone, Placement, Ids
  <2>2. CASE Steady(pinged, m)
    <3>1. ASSUME NEW b \in Buckets, NEW id \in Ids(m.table[b]) PROVE find_node_details(Self, id) = b
      <4>1. m.table[b] \in Seq(ContactOf(Near(b), now))
        BY <2>2 DEF Steady, Placed, IsBucket
      <4>2. PICK i \in 1..Len(m.table[b]) : id = m.table[b][i].nodeID
        BY DEF Ids
      <4>3. m.table[b][i] \in ContactOf(Near(b), now)
        BY <4>1
      <4> QED BY <4>2, <4>3 DEF ContactOf, Near
    <3>2. \A i \in 1..Len(m.waiting_nodes) :
            find_node_details(Self, m.waiting_nodes[i].key) = find_node_details(Self, m.waiting_nodes[i].value)
      BY <2>2 DEF Steady, Waiting, Held
    <3> QED BY <3>1, <3>2 DEF Placement
  <2> QED BY <1>1, <2>1, <2>2 DEF IInv
<1> QED BY <1>1, SpecIInv, PTL

\* Nobody waits for a place without a ping to the contact it would replace that may
\* still be answered: an answer in time ends the wait.
THEOREM SpecWaitersAreJustified == Spec => []WaitersAreJustified
<1>1. ASSUME IInv PROVE WaitersAreJustified
  <2>1. CASE Gone(m)
    BY <2>1 DEF Gone, WaitersAreJustified
  <2>2. CASE Steady(pinged, m)
    <3>1. SentPings(m) = {}
      BY <1>1 DEF IInv, SentPings
    <3>2. Waiting(pinged, m.waiting_nodes)
      BY <2>2, <3>1 DEF Steady
    <3> QED BY <3>2 DEF Waiting, Held, WaitersAreJustified
  <2> QED BY <1>1, <2>1, <2>2 DEF IInv
<1> QED BY <1>1, SpecIInv, PTL

\* Those that have left early are no more than those that have waited.
LEMMA LeftIsFew ==
  ASSUME NEW n, NEW k, FewLeft(n, k), NEW b \in Buckets,
         Len(n.table[b]) \in Nat, DOMAIN n.table[b] = 1..Len(n.table[b]),
         Len(n.waiting_nodes) \in Nat
  PROVE  LET list  == n.table[b]
             early == {i \in DOMAIN list : list[i].nodeID \notin Ids(k.table[b]) /\ ~Stale(list[i])}
         IN  Cardinality({list[i].nodeID : i \in early}) <= Cardinality(AllLates(n.waiting_nodes, b))
<1> DEFINE list == n.table[b]
           early == {i \in DOMAIN list : list[i].nodeID \notin Ids(k.table[b]) /\ ~Stale(list[i])}
           left == {list[i].nodeID : i \in early}
           late == AllLates(n.waiting_nodes, b)
<1>1. PICK lost : Spared(list, k.table[b], {lost[j] : j \in late})
  BY DEF FewLeft
<1> DEFINE gone == {lost[j] : j \in late}
<1>2. left \subseteq gone
  BY <1>1 DEF Spared
<1>3. IsFiniteSet(late)
  <2>1. IsFiniteSet(1..Len(n.waiting_nodes))
    BY FS_Interval
  <2>2. late \subseteq 1..Len(n.waiting_nodes)
    BY DEF AllLates, Lates
  <2> QED BY <2>1, <2>2, FS_Subset
<1> HIDE DEF late, left
<1>4. IsFiniteSet(gone) /\ Cardinality(gone) <= Cardinality(late)
  <2> DEFINE f == [j \in late |-> lost[j]]
  <2>1. f \in Surjection(late, gone)
    BY DEF Surjection
  <2> HIDE DEF f, gone
  <2> QED BY <1>3, <2>1, FS_Surjection
<1> HIDE DEF gone
<1>5. IsFiniteSet(left) /\ Cardinality(left) <= Cardinality(gone)
  BY <1>2, <1>4, FS_Subset
<1>6. Cardinality(left) \in Nat /\ Cardinality(gone) \in Nat /\ Cardinality(late) \in Nat
  BY <1>3, <1>4, <1>5, FS_CardinalityType
<1>7. Cardinality(left) <= Cardinality(late)
  BY <1>4, <1>5, <1>6
<1> QED BY <1>7 DEF left, late

\* What NoContactLeavesEarly says of a step.
LeavesInTime ==
  \A b \in Buckets :
    LET Early(c) == c.nodeID \notin Ids(m.table'[b]) /\ ~Stale(c)
        left     == {m.table[b][i].nodeID :
                       i \in {j \in DOMAIN m.table[b] : Early(m.table[b][j])}}
        overdue  == {i \in DOMAIN m.waiting_nodes :
                       /\ find_node_details(Self, m.waiting_nodes[i].key) = b
                       /\ Overdue(m.waiting_nodes[i])}
    IN  m.alive' => Cardinality(left) <= Cardinality(overdue)

\* A machine that has handled a datagram.
LEMMA HandledInTime ==
  ASSUME IInv, Steady(pinged, m), NEW k, FewLeft(m, k), m' = [k EXCEPT !.outbox = {}],
         DOMAIN k = Fields
  PROVE  LeavesInTime
<1> DEFINE left(b) == {m.table[b][i].nodeID :
                         i \in {j \in DOMAIN m.table[b] : /\ m.table[b][j].nodeID \notin Ids(m.table'[b])
                                                          /\ ~Stale(m.table[b][j])}}
           overdue(b) == {i \in DOMAIN m.waiting_nodes :
                            /\ find_node_details(Self, m.waiting_nodes[i].key) = b
                            /\ Overdue(m.waiting_nodes[i])}
<1>1. m.table' = k.table
  BY DEF Fields
<1>2. /\ Len(m.waiting_nodes) \in Nat /\ DOMAIN m.waiting_nodes = 1..Len(m.waiting_nodes)
      /\ \A b \in Buckets : Len(m.table[b]) \in Nat /\ DOMAIN m.table[b] = 1..Len(m.table[b])
  BY DEF Steady, Waiting, KeyedList, Placed, IsBucket
<1>3. \A b \in Buckets : AllLates(m.waiting_nodes, b) = overdue(b)
  BY <1>2 DEF AllLates, Lates
<1>4. ASSUME NEW b \in Buckets PROVE Cardinality(left(b)) <= Cardinality(AllLates(m.waiting_nodes, b))
  <2>1. Len(m.table[b]) \in Nat /\ DOMAIN m.table[b] = 1..Len(m.table[b])
    BY <1>2
  <2> QED BY <1>1, <1>2, <2>1, LeftIsFew
<1> HIDE DEF left, overdue
<1>5. \A b \in Buckets : Cardinality(left(b)) <= Cardinality(overdue(b))
  BY <1>3, <1>4
<1> QED BY <1>5 DEF LeavesInTime, left, overdue

\* ... or has ended over it.
LEMMA TakenInTime ==
  ASSUME IInv, Steady(pinged, m), NEW P, NEW k, (Steady(P, k) /\ FewLeft(m, k)) \/ Gone(k),
         m' = [k EXCEPT !.outbox = {}]
  PROVE  LeavesInTime
<1>1. CASE Steady(P, k) /\ FewLeft(m, k)
  <2>1. DOMAIN k = Fields
    BY <1>1 DEF Steady
  <2> QED BY <1>1, <2>1, HandledInTime
<1>2. CASE Gone(k)
  <2>1. m'.alive = FALSE
    BY <1>2 DEF Gone, Fields
  <2> QED BY <2>1 DEF LeavesInTime
<1> QED BY <1>1, <1>2

\* Nobody leaves a table that does not change.
LEMMA UnchangedInTime ==
  ASSUME IInv, UNCHANGED m
  PROVE  LeavesInTime
<1> DEFINE left(b) == {m.table[b][i].nodeID :
                         i \in {j \in DOMAIN m.table[b] : /\ m.table[b][j].nodeID \notin Ids(m.table'[b])
                                                          /\ ~Stale(m.table[b][j])}}
           overdue(b) == {i \in DOMAIN m.waiting_nodes :
                            /\ find_node_details(Self, m.waiting_nodes[i].key) = b
                            /\ Overdue(m.waiting_nodes[i])}
<1>1. \A b \in Buckets : DOMAIN m.table[b] = 1..Len(m.table[b])
  BY DEF IInv, Steady, Placed, IsBucket, Gone
<1>2. \A b \in Buckets : left(b) = {}
  BY <1>1 DEF Ids
<1>3. ASSUME NEW b \in Buckets PROVE Cardinality(overdue(b)) \in Nat
  <2>1. Len(m.waiting_nodes) \in Nat /\ DOMAIN m.waiting_nodes = 1..Len(m.waiting_nodes)
    BY DEF IInv, Steady, Waiting, KeyedList, Gone
  <2>2. IsFiniteSet(1..Len(m.waiting_nodes))
    BY <2>1, FS_Interval
  <2>3. overdue(b) \subseteq 1..Len(m.waiting_nodes)
    BY <2>1
  <2> HIDE DEF overdue
  <2> QED BY <2>2, <2>3, FS_Subset, FS_CardinalityType
<1>4. Cardinality({}) = 0
  BY FS_EmptySet
<1> HIDE DEF left, overdue
<1>5. \A b \in Buckets : Cardinality(left(b)) <= Cardinality(overdue(b))
  BY <1>2, <1>3, <1>4
<1> QED BY <1>5 DEF LeavesInTime, left, overdue

\* Nobody leaves a bucket unless its contact was pinged twice and is stale, or
\* somebody has waited for its place longer than a ping may take: whatever the
\* neighbours do, and however many contacts a bucket holds.
THEOREM SpecNoContactLeavesEarly == Spec => NoContactLeavesEarly
<1>1. ASSUME IInv, [Next]_vars PROVE LeavesInTime
  <2>1. now \in Nat /\ (m.alive => Steady(pinged, m))
    BY <1>1, ContactTableAssumption DEF IInv, Gone
  <2>2. ASSUME NEW n \in Neighbour, PingFrom(n) PROVE LeavesInTime
    <3>0. PICK wild \in BOOLEAN :
            Become(HandleMessage(m, [y |-> "q", q |-> "ping", t |-> [id |-> n, nb |-> pings], id |-> n],
                                 n, [count |-> 0, wild |-> wild]), {})
      BY <2>2 DEF PingFrom, Handle
    <3> DEFINE garbage == [count |-> 0, wild |-> wild]
               msg == [y |-> "q", q |-> "ping", t |-> [id |-> n, nb |-> pings], id |-> n]
               after == HandleMessage(m, msg, n, garbage)
    <3>1. Steady(pinged, m) /\ m' = [after EXCEPT !.outbox = {}]
      BY <2>1, <2>2, <3>0 DEF PingFrom, Handle, Become
    <3>2. msg.y = "q" /\ msg.q = "ping" /\ msg.id = n /\ msg.t.id = n
      OBVIOUS
    <3> HIDE DEF msg
    <3>3. (Steady(pinged, after) /\ FewLeft(m, after)) \/ Gone(after)
      BY <2>1, <3>1, <3>2, PingTaken
    <3> HIDE DEF after
    <3> QED BY <1>1, <3>1, <3>3, TakenInTime
  <2>3. ASSUME NEW p \in pinged, PongTo(p) PROVE LeavesInTime
    <3>0. PICK wild \in BOOLEAN :
            Become(HandleMessage(m, [y |-> "r", t |-> p.t, id |-> p.dst],
                                 p.dst, [count |-> 0, wild |-> wild]), {p})
      BY <2>3 DEF PongTo, Handle
    <3> DEFINE garbage == [count |-> 0, wild |-> wild]
               msg == [y |-> "r", t |-> p.t, id |-> p.dst]
               after == HandleMessage(m, msg, p.dst, garbage)
    <3>1. Steady(pinged, m) /\ m' = [after EXCEPT !.outbox = {}]
      BY <2>1, <2>3, <3>0 DEF PongTo, Handle, Become
    <3>2. msg.y = "r" /\ msg.t = p.t /\ msg.id = p.dst
      OBVIOUS
    <3>3. p.dst \in Neighbour
      BY <3>1 DEF Steady, Timed
    <3> HIDE DEF msg
    <3>4. (Steady(pinged \ {p}, after) /\ FewLeft(m, after)) \/ Gone(after)
      BY <2>1, <3>1, <3>2, <3>3, PongTaken
    <3> HIDE DEF after
    <3> QED BY <1>1, <3>1, <3>4, TakenInTime
  <2>4. CASE Tick
    BY <1>1, <2>4, UnchangedInTime DEF Tick
  <2>5. CASE UNCHANGED vars
    BY <1>1, <2>5, UnchangedInTime DEF vars
  <2> QED BY <1>1, <2>2, <2>3, <2>4, <2>5 DEF Next
<1> QED BY <1>1, SpecIInv, PTL DEF Spec, NoContactLeavesEarly, LeavesInTime
=============================================================================
