---------------------------- MODULE NodeDetails ----------------------------
(***************************************************************************)
(* Node identifiers, the XOR metric and the contact lists of node.c and    *)
(* XORmetrics.c.                                                           *)
(*                                                                         *)
(* An identifier is the set of the positions of its 1 bits (bit BITS-1     *)
(* first in the hexadecimal string).  An identifier is the MD5 of a host's *)
(* address and port (initMachine), so a contact's ip and port are those of *)
(* the node that has its identifier and are not stored twice.  A contact   *)
(* list is a sequence of contacts, head first.                             *)
(***************************************************************************)
EXTENDS Integers, Sequences, FiniteSets, SequencesExt

CONSTANTS BITS,           \* bits of an identifier = buckets (128)
          LONG_BITS,      \* bits of the unsigned long that sscanf("%x") parses into (64)
          INT_BITS,       \* bits of the int it stores (32)
          length_bucket   \* contacts a bucket or a lookup list holds (6)

ASSUME NodeDetailsAssumption ==
  /\ BITS \in Nat /\ BITS > 0 /\ BITS % 4 = 0
  /\ LONG_BITS \in Nat /\ INT_BITS \in 1..LONG_BITS
  /\ length_bucket \in Nat /\ length_bucket > 1

NodeId == SUBSET (0..BITS-1)

\* Mutant: count is left as malloc returned it.
create_node_details_uninitialised(id, now) == [nodeID |-> id, count |-> 7, timestamp |-> now]

create_node_details(id, now) == [nodeID |-> id, count |-> 0, timestamp |-> now]

Ids(list) == {list[i].nodeID : i \in 1..Len(list)}

-----------------------------------------------------------------------------
(* The metric. *)

XORmetrics(hash1, hash2) == SymDiff(hash1, hash2)

\* The bucket of other_node: four times the number of hexadecimal digits
\* behind the first nonzero one, plus what the test on that digit adds.
\* -1 when the two are equal: the string of zeros has no such digit.
find_node_details(this_node, other_node) ==
  LET distance == XORmetrics(this_node, other_node)
      len      == Max({b \div 4 : b \in distance})
      alpha    == {b \in 0..3 : 4*len + b \in distance}
  IN  IF distance = {} THEN -1
      ELSE 4*len + CASE alpha = {0}              -> 0
                     [] alpha \in {{1}, {0, 1}}  -> 1
                     [] 2 \in alpha /\ 3 \notin alpha -> 2
                     [] OTHER                    -> 3

\* sscanf(distance, "%x", &int): what does not fit a long saturates to all
\* ones, and the int keeps the low INT_BITS bits, as a signed number.
DistanceAsInt(key, id) ==
  LET distance == XORmetrics(key, id)
      low      == IF \E b \in distance : b >= LONG_BITS
                  THEN 0..INT_BITS-1
                  ELSE distance \cap (0..INT_BITS-1)
      weight(b) == IF b = INT_BITS-1 THEN -(2^b) ELSE 2^b
  IN  MapThenSumSet(weight, low)

-----------------------------------------------------------------------------
(* Buckets. *)

insert_to_tail(bucket, node, now) ==
  IF Len(bucket) >= length_bucket THEN bucket
  ELSE Append(bucket, [node EXCEPT !.count = 0, !.timestamp = now])

delete_head(bucket) == IF bucket = <<>> THEN <<>> ELSE Tail(bucket)

\* Mutant: the head is not deleted and the length not looked at.
delete_head_insert_tail_keeping(bucket, node, now) ==
  Append(bucket, [node EXCEPT !.timestamp = now])

delete_head_insert_tail(bucket, node, now) ==
  insert_to_tail(delete_head(bucket), node, now)

\* Index of the first contact with this identifier, 0 if there is none.
look_for_IP(bucket, nodeID) ==
  SelectInSeq(bucket, LAMBDA node : node.nodeID = nodeID)

move_to_tail(bucket, i, now) ==
  insert_to_tail(RemoveAt(bucket, i), bucket[i], now)

move_node_details(bucket, nodeID, now) ==
  IF nodeID \in Ids(bucket)
  THEN move_to_tail(bucket, look_for_IP(bucket, nodeID), now)
  ELSE insert_to_tail(bucket, create_node_details(nodeID, now), now)

\* The table after the call, which changes nothing when the bucket is full,
\* not even for a contact the bucket holds.
insert_into_contact_table(table, this_nodeID, nodeID, now) ==
  LET b == find_node_details(this_nodeID, nodeID) IN
  IF Len(table[b]) >= length_bucket THEN table
  ELSE [table EXCEPT ![b] = move_node_details(@, nodeID, now)]

\* ... and whether it returned a bucket number (and not -1).
Inserts(table, this_nodeID, nodeID) ==
  Len(table[find_node_details(this_nodeID, nodeID)]) < length_bucket

-----------------------------------------------------------------------------
(* Choosing contacts for a key. *)

\* The order in which buckets are read: b, b-1, ..., 0, b+1, ..., BITS-1.
BucketOrder(b) == [i \in 1..BITS |-> IF i <= b+1 THEN b+1-i ELSE i-1]

\* The contacts of the table, bucket after bucket in that order.
InBucketOrder(table, b) == FoldLeft(LAMBDA read, i : read \o table[i], <<>>, BucketOrder(b))

\* The contact itself and those behind it when its bucket holds it, else
\* copies of the first length_bucket contacts in bucket order.
k_nearest_nodes(table, this_node, node_to_find, now) ==
  LET b     == find_node_details(this_node, node_to_find)
      at    == look_for_IP(table[b], node_to_find)
      all   == InBucketOrder(table, b)
      found == SubSeq(all, 1, IF Len(all) < length_bucket THEN Len(all) ELSE length_bucket)
  IN  IF at # 0 THEN SubSeq(table[b], at, Len(table[b]))
      ELSE [i \in 1..Len(found) |-> create_node_details(found[i].nodeID, now)]

-----------------------------------------------------------------------------
(* Deleting from a list. *)

Keep(list, gone, kept, i) == IF i \in gone THEN kept ELSE Append(kept, list[i])

RemovePositions(list, gone) ==
  FoldLeftDomain(LAMBDA kept, i : Keep(list, gone, kept, i), <<>>, list)

\* The positions delete_node unlinks.  It never looks at the head of a list
\* of two or more, and steps over the contact behind one it unlinks: within a
\* run of equal identifiers every other one goes.
Unlinked(list, nodeID) ==
  LET match(i) == list[i].nodeID = nodeID IN
  IF Len(list) = 1 THEN {i \in {1} : match(i)}
  ELSE {j \in 2..Len(list) :
          \E i \in 1..j-1 : /\ i = 1 \/ ~match(i)
                            /\ \A k \in i+1..j : match(k)
                            /\ (j - i) % 2 = 1}

\* Mutant: temp->next = NULL instead of temp->next->next.
delete_node_cutting(list, nodeID) ==
  IF Unlinked(list, nodeID) = {} THEN list
  ELSE SubSeq(list, 1, Min(Unlinked(list, nodeID)) - 1)

delete_node(list, nodeID) == RemovePositions(list, Unlinked(list, nodeID))

\* kademMaintenance passes delete_node the identifier string of the contact
\* at position i of the same list: once that contact is unlinked its string is
\* freed and matches nothing further on.
UnlinkedBySelf(list, i) ==
  LET gone == Unlinked(list, list[i].nodeID)
  IN  IF i \in gone THEN {j \in gone : j <= i} ELSE gone

\* A cursor at position i of the list, after that call and cursor = cursor->next.
DropAndAdvance(list, i) ==
  LET gone == UnlinkedBySelf(list, i)
  IN  [list |-> RemovePositions(list, gone),
       at   |-> i + 1 - Cardinality(gone \cap (1..i))]

-----------------------------------------------------------------------------
(* Lists ordered by distance. *)

\* Mutant: one contact too many is let in.
insert_acc_distance_overfull(list, node, key) ==
  LET d(n)    == DistanceAsInt(key, n.nodeID)
      behind  == {j \in 2..Len(list) : d(node) <= d(list[j])}
      at      == IF list = <<>> \/ d(node) < d(list[1]) THEN 1
                 ELSE Min(behind \cup {Len(list) + 1})
      refused == Len(list) > length_bucket \/ (at \in behind /\ d(node) = d(list[at]))
  IN  IF refused THEN list ELSE InsertAt(list, at, node)

\* Mutant: a contact as far as another is let in beside it.
insert_acc_distance_tying(list, node, key) ==
  LET d(n)    == DistanceAsInt(key, n.nodeID)
      behind  == {j \in 2..Len(list) : d(node) <= d(list[j])}
      at      == IF list = <<>> \/ d(node) < d(list[1]) THEN 1
                 ELSE Min(behind \cup {Len(list) + 1})
  IN  IF Len(list) >= length_bucket THEN list ELSE InsertAt(list, at, node)

\* Mutant: the first contact that is nearer is taken for the place.
insert_acc_distance_reversed(list, node, key) ==
  LET d(n)    == DistanceAsInt(key, n.nodeID)
      behind  == {j \in 2..Len(list) : d(node) >= d(list[j])}
      at      == Min(behind \cup {Len(list) + 1})
  IN  IF Len(list) >= length_bucket THEN list ELSE InsertAt(list, at, node)

\* Before the first contact that is farther; refused when the list is full or
\* when the first contact behind the head that is not nearer is equally far.
insert_acc_distance(list, node, key) ==
  LET d(n)    == DistanceAsInt(key, n.nodeID)
      behind  == {j \in 2..Len(list) : d(node) <= d(list[j])}
      at      == IF list = <<>> \/ d(node) < d(list[1]) THEN 1
                 ELSE Min(behind \cup {Len(list) + 1})
      refused == \/ Len(list) >= length_bucket
                 \/ at \in behind /\ d(node) = d(list[at])
  IN  IF refused THEN list ELSE InsertAt(list, at, node)
=============================================================================
