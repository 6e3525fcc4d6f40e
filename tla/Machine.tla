------------------------------ MODULE Machine ------------------------------
(***************************************************************************)
(* One DHT process: struct kademMachine and the functions of kademlia.c    *)
(* that work on it.  Every function is an operator from a machine to the   *)
(* machine it leaves; what it hands to the sockets collects in outbox      *)
(* (datagrams to peers) and rpc_out (answers to local clients), which the  *)
(* module that runs the machine takes away.  now is the one reading of the *)
(* clock of a handler, which never waits.                                  *)
(***************************************************************************)
EXTENDS NodeDetails, StoreFile

CONSTANTS KADEM_ALPHA,                  \* requests sent per round (2)
          KADEM_TIMEOUT_REFRESH_DATA,   \* age at which a contact is pinged (300)
          KADEM_TIMEOUT_REFRESH_QUERY,  \* life of a sent query (2)
          KADEM_TIMEOUT_PING,           \* grace of a pinged contact (2)
          PingPeriod,                   \* what a ping adds to a contact's timestamp (2)
          NoClient                      \* latest_query_rpc before the first request

ASSUME MachineAssumption ==
  /\ KADEM_ALPHA \in Nat \ {0}
  /\ \A t \in {KADEM_TIMEOUT_REFRESH_DATA, KADEM_TIMEOUT_REFRESH_QUERY,
               KADEM_TIMEOUT_PING, PingPeriod} : t \in Nat \ {0}

VARIABLE now

Buckets == 0..BITS-1

\* initMachine; generated counts the identifiers drawn from rand(), which
\* never repeat (an MD5 of rand() and the machine's identifier).
NewMachine(id, generated) ==
  [id                 |-> id,
   table              |-> [b \in Buckets |-> <<>>],
   stored_values      |-> <<>>,
   latest_query_rpc   |-> [query |-> "", value |-> {}, client |-> NoClient],
   store_find_queries |-> <<>>,
   sent_queries       |-> <<>>,
   waiting_nodes      |-> <<>>,
   token_sent         |-> <<>>,
   token_rec          |-> <<>>,
   generated          |-> generated,
   alive              |-> TRUE,
   outbox             |-> {},
   rpc_out            |-> {}]

\* The process dies: a null pointer, an index outside the table, exit().  What
\* it has sent is sent.
Die(m) == [NewMachine(m.id, m.generated) EXCEPT
             !.alive = FALSE, !.outbox = m.outbox, !.rpc_out = m.rpc_out]

\* A handler that writes past a buffer or releases what it does not own may end
\* the process (garbage.wild); what it has sent is sent, and may be lost.
MayDie(m, garbage) == IF garbage.wild THEN Die(m) ELSE m

-----------------------------------------------------------------------------
(* Sending. *)

generateTransactionId(m) == [id |-> m.id, nb |-> m.generated]
NoToken == [id |-> {}, nb |-> 0]    \* the empty string; generated starts at 1

\* A message with the members of its content and those every message has.
With(content, header) ==
  [x \in DOMAIN content \cup DOMAIN header |->
     IF x \in DOMAIN content THEN content[x] ELSE header[x]]

kademSendMessage(m, dst, msg) ==
  [m EXCEPT !.outbox = @ \cup {[src |-> m.id, dst |-> dst, msg |-> msg]}]

\* The common part of kademPing, kademFindNode, kademFindValue and
\* kademStoreValue: the query is sent, then kept under its transaction id.
SendQuery(m, dst, query) ==
  LET t   == generateTransactionId(m)
      msg == With(query, [y |-> "q", t |-> t, id |-> m.id])
  IN  [kademSendMessage(m, dst, msg) EXCEPT
         !.generated = @ + 1,
         !.sent_queries = insert_to_tail_file(@, create_store_file(t, query, now), now)]

kademPing(m, dst) == SendQuery(m, dst, [q |-> "ping"])
kademFindNode(m, target, dst) ==
  SendQuery(m, dst, [q |-> "find_node", target |-> target])
kademFindValue(m, value, token, dst) ==
  SendQuery(m, dst, [q |-> "get", token |-> token, value |-> value])
kademStoreValue(m, token, value, data, dst) ==
  SendQuery(m, dst, [q |-> "put", token |-> token, value |-> value, data |-> data])

NoContent == <<>>
Answer(m, msg, dst, content) ==
  kademSendMessage(m, dst, With(content, [y |-> "r", t |-> msg.t, id |-> m.id]))
kademSendError(m, t, code, dst) ==
  kademSendMessage(m, dst, [y |-> "e", t |-> t, code |-> code])

\* The two answers a local client can get: OK, and OK with the data of a get.
OK == [resp |-> "OK"]
Found(data) == [resp |-> "OK", data |-> data]
AnswerClient(m, client, answer) ==
  [m EXCEPT !.rpc_out = @ \cup {[client |-> client, answer |-> answer]}]

-----------------------------------------------------------------------------
(* kademMaintenance, run before every message from a peer is handled. *)

\* What a ping does to the contact it goes to.
Pinged(node) == [node EXCEPT !.count = @ + 1, !.timestamp = @ + PingPeriod]

\* One step through bucket b, s.at the contact the cursor is on: one that is
\* stale is dropped if it was pinged twice, else pinged once more.
RefreshStep(b, s, i) ==
  LET list == s.m.table[b]
      node == list[s.at]
      drop == DropAndAdvance(list, s.at)
  IN  IF s.at > Len(list) THEN s
      ELSE IF now - node.timestamp <= KADEM_TIMEOUT_REFRESH_DATA THEN s
      ELSE IF node.count = 2
      THEN [m |-> [s.m EXCEPT !.table[b] = drop.list], at |-> drop.at]
      ELSE [m  |-> [kademPing(s.m, node.nodeID) EXCEPT !.table[b][s.at] = Pinged(@)],
            at |-> s.at + 1]

\* Bucket b from its head, while the contacts are stale.
RefreshBucket(m, b) ==
  FoldLeftDomain(LAMBDA s, i : RefreshStep(b, s, i), [m |-> m, at |-> 1], m.table[b]).m

RefreshBuckets(m) ==
  FoldLeft(LAMBDA s, i : RefreshBucket(s, i-1), m, [i \in 1..BITS |-> i])

\* Inserts a sender into the table; when its bucket is full the sender waits
\* for the outcome of a ping to the head of the bucket.
ConsiderContact(m, id) ==
  LET b    == find_node_details(m.id, id)
      full == ~Inserts(m.table, m.id, id)
      head == m.table[b][1].nodeID
      kept == [m EXCEPT !.table = insert_into_contact_table(@, m.id, id, now)]
  IN  IF id = m.id THEN Die(m)                  \* table[-1]
      ELSE IF id \notin Ids(m.table[b]) /\ full
      THEN kademPing([m EXCEPT !.waiting_nodes =
                        insert_to_tail_file(@, create_store_file(head, id, now), now)], head)
      ELSE kept

\* An answer to a query that is no longer kept is read as a query: it has no
\* "a" member, and json_object_object_get on the missing object dies.
InsertSender(m, msg) ==
  LET kept == msg.t \in Keys(m.sent_queries) IN
  CASE msg.y = "e" -> m
    [] msg.y # "e" /\ kept /\ find_key(m.sent_queries, msg.t).value.q = "ping" -> m
    [] msg.y # "e" /\ kept /\ find_key(m.sent_queries, msg.t).value.q # "ping" ->
         ConsiderContact(m, msg.id)
    [] msg.y = "q" /\ ~kept -> ConsiderContact(m, msg.id)
    [] msg.y = "r" /\ ~kept -> Die(m)

\* Mutant: nobody waits for the ping to be overdue.
InsertWaiting_early(m) ==
  LET insert(table, w) ==
        LET b == find_node_details(m.id, w.key) IN
        [table EXCEPT ![b] =
           delete_head_insert_tail(@, create_node_details(w.value, now), now)]
  IN  [m EXCEPT !.table = FoldLeft(insert, @, m.waiting_nodes)]

\* Mutant: the bucket is computed from the two contacts.
InsertWaiting_misplaced(m) ==
  LET insert(table, w) ==
        LET b == find_node_details(w.key, w.value) IN
        IF now - w.timestamp <= KADEM_TIMEOUT_PING THEN table
        ELSE [table EXCEPT ![b] =
                delete_head_insert_tail(@, create_node_details(w.value, now), now)]
  IN  [m EXCEPT !.table = FoldLeft(insert, @, m.waiting_nodes)]

Overdue(w) == now - w.timestamp > KADEM_TIMEOUT_PING

\* A waiting node whose ping is overdue takes the place of the head of that bucket.
InsertOverdue(this_node, table, w) ==
  IF ~Overdue(w) THEN table
  ELSE [table EXCEPT ![find_node_details(this_node, w.key)] =
          delete_head_insert_tail(@, create_node_details(w.value, now), now)]

\* Every waiting node in turn.  Its entry stays in the list.
InsertWaiting(m) ==
  [m EXCEPT !.table = FoldLeft(LAMBDA t, w : InsertOverdue(m.id, t, w), @, m.waiting_nodes)]

\* One step through a lookup list: a contact that was asked and did not answer
\* is dropped.
PruneStep(s, i) ==
  IF s.at > Len(s.list) THEN s
  ELSE IF /\ s.list[s.at].count = 1
          /\ now - s.list[s.at].timestamp > 2 * KADEM_TIMEOUT_PING
  THEN DropAndAdvance(s.list, s.at)
  ELSE [s EXCEPT !.at = @ + 1]

PruneList(list) == FoldLeftDomain(PruneStep, [list |-> list, at |-> 1], list).list

PrunedSearches(searches) ==
  [i \in DOMAIN searches |-> [searches[i] EXCEPT !.value = PruneList(@)]]

CleanLists(m) ==
  [m EXCEPT
     !.sent_queries       = clean(@, KADEM_TIMEOUT_REFRESH_QUERY, now),
     !.token_rec          = clean(@, 5 * KADEM_TIMEOUT_PING, now),
     !.store_find_queries = PrunedSearches(@)]

\* create_node_from_string copies 33 bytes into 16: see MayDie.
FinishMaintenance(m, garbage) ==
  IF ~m.alive THEN m
  ELSE IF garbage.wild /\ \E i \in 1..Len(m.waiting_nodes) : Overdue(m.waiting_nodes[i]) THEN Die(m)
  ELSE CleanLists(InsertWaiting(m))

kademMaintenance(m, msg, garbage) ==
  FinishMaintenance(InsertSender(RefreshBuckets(m), msg), garbage)

-----------------------------------------------------------------------------
(* Lookups.  A find query holds one list: the contacts to ask (count 0) or   *)
(* asked (count 1), then those that have answered (count 2).                 *)

SplitPoint(list) ==
  Min({j \in 1..Len(list) : j = Len(list) \/ list[j+1].count >= 2})
CurrentNodes(list) ==
  IF list = <<>> \/ list[SplitPoint(list)].count = 2 THEN <<>>
  ELSE SubSeq(list, 1, SplitPoint(list))
ResultNodes(list) == SubSeq(list, Len(CurrentNodes(list)) + 1, Len(list))

\* The first KADEM_ALPHA contacts that have not been asked.
ToAsk(current) ==
  LET fresh == {i \in 1..Len(current) : current[i].count < 1}
  IN  {i \in fresh : Cardinality({j \in fresh : j <= i}) <= KADEM_ALPHA}

\* Mutant: the machine itself is a contact to ask.
AddCandidate_self(m, key, results, list, id) ==
  IF id \in Ids(list) \cup Ids(results) THEN list
  ELSE insert_acc_distance(list, create_node_details(id, now), key)

\* A contact an answer names is put into the list of contacts to ask, unless it
\* is there, has answered, or is the machine itself.
AddCandidate(m, key, results, list, id) ==
  IF id \in Ids(list) \cup Ids(results) \cup {m.id} THEN list
  ELSE insert_acc_distance(list, create_node_details(id, now), key)

\* Mutant: the contacts that have answered come first.
Joined_swapped(current, results) == results \o current

\* Both lists stuck together again.
Joined(current, results) == current \o results

\* The request of a round for the i-th contact to ask: it goes to the head of
\* the list.
RequestStep(key, token, current, m, i) ==
  IF i \notin ToAsk(current) THEN m
  ELSE IF token = NoToken THEN kademFindNode(m, key, current[1].nodeID)
  ELSE kademFindValue(m, key, token, current[1].nodeID)

\* All of them.
SendRequests(m, key, token, current) ==
  FoldLeftDomain(LAMBDA s, i : RequestStep(key, token, current, s, i), m, current)

\* The contacts to ask, those that are asked in this round marked.
Marked(current) ==
  [i \in 1..Len(current) |->
     IF i \in ToAsk(current) THEN [current[i] EXCEPT !.count = 1] ELSE current[i]]

\* What a round does with its two lists.  The query is stored again at the
\* tail with a count the allocator left there (garbage.count).
SendRound(m, token, find_query, current, results, garbage) ==
  LET key    == find_query.key
      stored == [create_store_file(key, Joined(Marked(current), results), now)
                   EXCEPT !.count = garbage.count]
  IN  [m |-> [SendRequests(m, key, token, current) EXCEPT
                !.store_find_queries = insert_to_tail_file(@, stored, now)],
       finished |-> current = <<>> /\ find_query.count - 1 <= 0]

\* The results with from, which has just answered, where its distance puts it.
WithAnswer(find_query, from) ==
  insert_acc_distance(ResultNodes(find_query.value),
                      [create_node_details(from, now) EXCEPT !.count = 2], find_query.key)

\* The contacts to ask once from has answered with nodes.
Candidates(m, find_query, results, nodes, from) ==
  FoldLeft(LAMBDA l, id : AddCandidate(m, find_query.key, results, l, id),
           delete_node(CurrentNodes(find_query.value), from), nodes)

\* One round on find_query after from answered with nodes.
lookUpRound(m, token, find_query, nodes, from, garbage) ==
  LET results == WithAnswer(find_query, from)
  IN  SendRound(m, token, find_query, Candidates(m, find_query, results, nodes, from),
                results, garbage)

\* Mutant: the key is deleted from another list.
DeleteFindQuery_values(m, key) == [m EXCEPT !.stored_values = delete_key(@, key)]

\* Mutant: the find query is not deleted.
DeleteFindQuery_never(m, key) == m

DeleteFindQuery(m, key) ==
  [m EXCEPT !.store_find_queries = delete_key(@, key)]
\* Mutant: an answered query is kept.
ForgetQuery_never(m, t) == m

ForgetQuery(m, t) == [m EXCEPT !.sent_queries = delete_key(@, t)]

\* strcpy(latest_query_rpc.query, name) == 0: never true, but it does copy.
OverwriteLatest(m, name) == [m EXCEPT !.latest_query_rpc.query = name]

-----------------------------------------------------------------------------
(* Queries of peers. *)

kademPong(m, msg, src) == Answer(m, msg, src, NoContent)

Nearest(m, key) == k_nearest_nodes(m.table, m.id, key, now)
NodeStrings(list) == [i \in 1..Len(list) |-> list[i].nodeID]

\* Every contact is written into a node_string of 25 bytes, which none fits.
kademHandleFindNode(m, msg, src, garbage) ==
  LET near == Nearest(m, msg.target)
      answered == Answer(m, msg, src, [nodes |-> NodeStrings(near)])
  IN  IF msg.target = m.id THEN Die(m)           \* table[-1]
      ELSE IF near = <<>> THEN answered
      ELSE MayDie(answered, garbage)

\* Mutant: the token of a get is not kept.
kademHandleFindValue_forgetting(m, msg, src) ==
  IF msg.value \in Keys(m.stored_values)
  THEN Answer(m, msg, src, [token |-> msg.token, value |-> msg.value,
                            data |-> find_key(m.stored_values, msg.value).value])
  ELSE Answer(m, msg, src, [token |-> msg.token, nodes |-> NodeStrings(Nearest(m, msg.value))])

kademHandleFindValue(m, msg, src) ==
  IF msg.value \in Keys(m.stored_values)
  THEN Answer(m, msg, src, [token |-> msg.token, value |-> msg.value,
                            data |-> find_key(m.stored_values, msg.value).value])
  ELSE Answer([m EXCEPT !.token_rec =
                 insert_to_tail_file(@, create_store_file(msg.token, {}, now), now)],
              msg, src, [token |-> msg.token, nodes |-> NodeStrings(Nearest(m, msg.value))])

StoreLocally(m, key, data) ==
  [m EXCEPT !.stored_values =
     insert_to_tail_file(@, create_store_file(key, data, now), now)]

\* Mutant: the answer is sent and nothing stored.
kademHandleStoreValue_dropping(m, msg, src) ==
  IF msg.token \in Keys(m.token_rec) THEN Answer(m, msg, src, NoContent)
  ELSE kademSendError(m, msg.t, "205", src)

kademHandleStoreValue(m, msg, src) ==
  IF msg.token \in Keys(m.token_rec)
  THEN Answer(StoreLocally(m, msg.value, msg.data), msg, src, NoContent)
  ELSE kademSendError(m, msg.t, "205", src)

HandleQuery(m, msg, src, garbage) ==
  CASE msg.q = "ping"      -> kademPong(m, msg, src)
    [] msg.q = "put"       -> kademHandleStoreValue(m, msg, src)
    [] msg.q = "find_node" -> kademHandleFindNode(m, msg, src, garbage)
    [] msg.q = "get"       -> kademHandleFindValue(m, msg, src)

-----------------------------------------------------------------------------
(* Answers of peers; query is what find_key found under their transaction id. *)

\* Mutant: the waiting node is not forgotten.
kademHandlePong_keeping(m, msg) ==
  LET latest == m.latest_query_rpc
      kept   == [m EXCEPT !.table = insert_into_contact_table(@, m.id, msg.id, now)]
  IN  IF latest.query = "ping" /\ latest.value = msg.id
      THEN AnswerClient([kept EXCEPT !.latest_query_rpc.query = ""], latest.client, OK)
      ELSE kept

\* Mutant: the sender of the answer does not enter the table.
kademHandlePong_unlisted(m, msg) ==
  LET latest == m.latest_query_rpc
      kept   == [m EXCEPT !.waiting_nodes = delete_key(@, msg.id)]
  IN  IF latest.query = "ping" /\ latest.value = msg.id
      THEN AnswerClient([kept EXCEPT !.latest_query_rpc.query = ""], latest.client, OK)
      ELSE kept

\* Mutant: any answer to a ping is taken for the one the client waits for.
kademHandlePong_any(m, msg) ==
  LET latest == m.latest_query_rpc
      kept   == [m EXCEPT
                   !.table = insert_into_contact_table(@, m.id, msg.id, now),
                   !.waiting_nodes = delete_key(@, msg.id)]
  IN  IF latest.query = "ping"
      THEN AnswerClient([kept EXCEPT !.latest_query_rpc.query = ""], latest.client, OK)
      ELSE kept

\* The sender enters the table, a local client waiting for a ping of it is
\* answered, and whoever waited for its place in the bucket is forgotten.
kademHandlePong(m, msg) ==
  LET latest  == m.latest_query_rpc
      awaited == latest.query = "ping" /\ latest.value = msg.id
      kept    == [m EXCEPT
                    !.table = insert_into_contact_table(@, m.id, msg.id, now),
                    !.waiting_nodes = delete_key(@, msg.id)]
  IN  IF awaited
      THEN AnswerClient([kept EXCEPT !.latest_query_rpc.query = ""], latest.client, OK)
      ELSE kept

\* A round that goes on ends the search, and one that is finished leaves the
\* query behind: the result of lookUpRound is tested for being nonzero.
EndFindNode(round, target) ==
  IF round.finished THEN round.m
  ELSE DeleteFindQuery(OverwriteLatest(round.m, "find_node"), target)

\* What becomes of the search for target.
SearchStep(m, msg, target, garbage) ==
  IF target \notin Keys(m.store_find_queries) THEN m
  ELSE IF msg.nodes = <<>> THEN Die(m)         \* strdup(NULL)
  ELSE IF msg.nodes[1] = target
  THEN DeleteFindQuery(OverwriteLatest(m, "find_node"), target)
  ELSE EndFindNode(lookUpRound(m, NoToken, find_key(m.store_find_queries, target),
                               msg.nodes, msg.id, garbage), target)

\* The contacts it names go through create_node_from_string, which writes past its
\* buffers and returns nothing; a pointer that nothing has set is released, and
\* the contents of the answer twice.
kademHandleAnswerFindNode(m, msg, query, garbage) ==
  MayDie(SearchStep(m, msg, query.target, garbage), garbage)

\* Mutant: the data of the oldest token is sent.
kademSendStoreValue_oldest(m, nodes, value, token) ==
  LET store(s, node) == kademStoreValue(s, token, value, m.token_sent[1].value, node.nodeID)
  IN  [FoldLeft(store, m, nodes) EXCEPT !.token_sent = delete_key(@, token)]

\* Mutant: the data goes to the nearest contacts, whether they answered or not.
kademSendStoreValue_nearest(m, nodes, value, token) ==
  LET data == find_key(m.token_sent, token).value
      store(s, node) == kademStoreValue(s, token, value, data, node.nodeID)
  IN  [FoldLeft(store, m, Nearest(m, value)) EXCEPT !.token_sent = delete_key(@, token)]

\* Mutant: the token stays after the data was sent.
kademSendStoreValue_keeping(m, nodes, value, token) ==
  LET data == find_key(m.token_sent, token).value
      store(s, node) == kademStoreValue(s, token, value, data, node.nodeID)
  IN  FoldLeft(store, m, nodes)

\* The data of the put that created the token goes to every node that answered.
kademSendStoreValue(m, nodes, value, token) ==
  LET data == find_key(m.token_sent, token).value
      store(s, node) == kademStoreValue(s, token, value, data, node.nodeID)
  IN  [FoldLeft(store, m, nodes) EXCEPT !.token_sent = delete_key(@, token)]

\* A get or put search whose last round left machine m: a put sends its data.
EndFindValue(m, query) ==
  LET results == ResultNodes(find_key(m.store_find_queries, query.value).value)
  IN  DeleteFindQuery(IF query.token \in Keys(m.token_sent)
                      THEN kademSendStoreValue(m, results, query.value, query.token)
                      ELSE m, query.value)

\* Neither outcome answers the client: see OverwriteLatest.
AfterRound(round, query) ==
  IF round.finished THEN EndFindValue(OverwriteLatest(round.m, "get"), query) ELSE round.m

\* A search for a key that its answer ends, or takes a round further.
ValueStep(m, msg, query, garbage) ==
  IF "value" \in DOMAIN msg
  THEN DeleteFindQuery(OverwriteLatest(StoreLocally(m, query.value, msg.data), "get"), query.value)
  ELSE AfterRound(lookUpRound(m, query.token, find_key(m.store_find_queries, query.value),
                              msg.nodes, msg.id, garbage), query)

\* The same buffers and the same contents released twice, if the search is kept.
kademHandleAnswerFindValue(m, msg, query, garbage) ==
  IF query.value \notin Keys(m.store_find_queries) THEN m
  ELSE MayDie(ValueStep(m, msg, query, garbage), garbage)

HandleAnswerTo(query, m, msg, garbage) ==
  CASE query.q = "ping"      -> kademHandlePong(m, msg)
    [] query.q = "put"       -> m
    [] query.q = "find_node" -> kademHandleAnswerFindNode(m, msg, query, garbage)
    [] query.q = "get"       -> kademHandleAnswerFindValue(m, msg, query, garbage)

HandleAnswer(m, msg, garbage) ==
  IF msg.t \notin Keys(m.sent_queries) THEN m
  ELSE ForgetQuery(HandleAnswerTo(find_key(m.sent_queries, msg.t).value, m, msg, garbage), msg.t)

\* garbage is what the handler finds in memory that nothing has written.
Dispatch(m, msg, src, garbage) ==
  CASE ~m.alive                -> m
    [] m.alive /\ msg.y = "q" -> HandleQuery(m, msg, src, garbage)
    [] m.alive /\ msg.y = "r" -> HandleAnswer(m, msg, garbage)
    [] m.alive /\ msg.y = "e" -> ForgetQuery(m, msg.t)

\* A datagram on sock_p2p: maintenance, then the handler of its type.
HandleMessage(m, msg, src, garbage) ==
  Dispatch(kademMaintenance(m, msg, garbage), msg, src, garbage)

-----------------------------------------------------------------------------
(* Requests of local clients. *)

Latest(m, query, value, client) ==
  [m EXCEPT !.latest_query_rpc = [query |-> query, value |-> value, client |-> client]]

\* A find query whose list is nodes and whose count is the requests sent.
StoreFindQuery(m, key, nodes, sent) ==
  [m EXCEPT !.store_find_queries =
     insert_to_tail_file(@, [create_store_file(key, nodes, now) EXCEPT !.count = sent], now)]

AtMost(list, n) == SubSeq(list, 1, IF Len(list) < n THEN Len(list) ELSE n)

\* The first requests of a lookup: one to each of nodes.
AskForValue(m, key, token, nodes) ==
  FoldLeft(LAMBDA s, node : kademFindValue(s, key, token, node.nodeID), m, nodes)
AskForNode(m, target, nodes) ==
  FoldLeft(LAMBDA s, node : kademFindNode(s, target, node.nodeID), m, nodes)

\* put: the object is stored and the client answered before the network is
\* asked; with no contact the head of the empty list is dereferenced.
RPCHandleStoreValue(m, key, data, client) ==
  LET token  == generateTransactionId(m)
      local  == [AnswerClient(StoreLocally(m, key, data), client, OK) EXCEPT
                   !.generated = @ + 1,
                   !.token_sent = insert_to_tail_file(@, create_store_file(token, data, now), now)]
      near   == Nearest(m, key)
      asked  == AtMost(near, KADEM_ALPHA)
  IN  IF near = <<>> THEN Die(local)
      ELSE AskForValue(StoreFindQuery(local, key, near, Len(asked)), key, token, asked)

\* get: all the nearest contacts are asked at once.
RPCHandleFindValue(m, key, client) ==
  LET token == generateTransactionId(m)
      drawn == [m EXCEPT !.generated = @ + 1]
      near  == Nearest(m, key)
      begun == Latest(drawn, "get", key, client)
  IN  IF key \in Keys(m.stored_values)
      THEN AnswerClient(drawn, client, Found(find_key(m.stored_values, key).value))
      ELSE IF near = <<>> THEN begun
      ELSE AskForValue(StoreFindQuery(begun, key, near, Len(near)), key, token, near)

Knows(m, id) == id \in Ids(m.table[find_node_details(m.id, id)])

\* Mutant: a known node is reported as alive.
RPCHandlePing_trusting(m, id, client) ==
  IF Knows(m, id) THEN AnswerClient(m, client, OK) ELSE Latest(m, "ping", id, client)

\* ping: a known node is pinged, though nothing remembers the client; an
\* unknown one is looked for.
RPCHandlePing(m, id, client) ==
  LET near  == Nearest(m, id)
      begun == Latest(m, "ping", id, client)
  IN  IF id = m.id THEN Die(m)                   \* table[-1]
      ELSE IF Knows(m, id) THEN kademPing(m, id)
      ELSE IF near = <<>> THEN begun
      ELSE AskForNode(StoreFindQuery(begun, id, near, Len(near)), id, near)

\* find_node: KADEM_ALPHA contacts are asked.  The query has a copy of the head
\* of the list and shares the rest, so marking the head as asked is lost.
RPCHandleFindNode(m, id, client) ==
  LET near   == Nearest(m, id)
      asked  == AtMost(near, KADEM_ALPHA)
      marked == [i \in DOMAIN near |->
                   IF i \in 2..Len(asked) THEN [near[i] EXCEPT !.count = 1] ELSE near[i]]
      begun  == Latest(m, "find_node", id, client)
  IN  IF id = m.id THEN Die(m)                   \* table[-1]
      ELSE IF Knows(m, id) THEN AnswerClient(m, client, OK)
      ELSE IF near = <<>> THEN begun
      ELSE AskForNode(StoreFindQuery(begun, id, marked, Len(asked)), id, asked)

RPCHandleKillNode(m, client) == Die(AnswerClient(m, client, OK))

\* print_routing_table and print_object_ids.
RPCHandlePrint(m, client) == AnswerClient(m, client, OK)

HandleRequest(m, req, client) ==
  CASE req.q = "put"       -> RPCHandleStoreValue(m, req.value, req.data, client)
    [] req.q = "get"       -> RPCHandleFindValue(m, req.value, client)
    [] req.q = "ping" /\ "value" \in DOMAIN req    -> RPCHandlePing(m, req.value, client)
    [] req.q = "ping" /\ "value" \notin DOMAIN req -> Die(m)    \* strlen(NULL)
    [] req.q = "find_node" -> RPCHandleFindNode(m, req.value, client)
    [] req.q = "kill_node" -> RPCHandleKillNode(m, client)
    [] req.q = "print"     -> RPCHandlePrint(m, client)
=============================================================================
