------------------------------ MODULE Kademlia ------------------------------
(***************************************************************************)
(* A network of machines, their local clients and the datagrams between    *)
(* them.  Each machine is the select loop of startKademlia: it takes one   *)
(* datagram or one request at a time and runs its handler to the end.      *)
(* UDP loses and duplicates datagrams and delivers them in any order;      *)
(* processes die and are started again with the same identifier.           *)
(***************************************************************************)
EXTENDS Machine

CONSTANTS Node,                 \* identifiers of the machines
          Contacts,             \* [Node -> Seq(Node)]: whom each has met at the start
          Peer,                 \* [Node -> Node \cup {NoPeer}]: the <dhtnode> argument
          NoPeer,
          Requests,             \* sequence of [node, q, value, data]: what each client asks
          UninitialisedCounts,  \* what malloc may leave in store_file.count
          Wild,                 \* whether an error of memory may end a process
          MaxTime, MaxLost, MaxDuplicated, MaxDeaths

\* A machine has not met itself, an object has the identifier of no machine, and a
\* request is one a local client can send.
ASSUME KademliaAssumption ==
  /\ Node \subseteq NodeId
  /\ \A n \in Node : /\ Contacts[n] \in Seq(Node \ {n})
                     /\ Peer[n] \in (Node \ {n}) \cup {NoPeer}
  /\ \A c \in DOMAIN Requests : LET req == Requests[c] IN
       /\ req.node \in Node
       /\ req.q \in {"put", "get", "ping", "find_node", "kill_node", "print"}
       /\ req.q \in {"put", "get"} => req.value \in NodeId \ Node
       /\ req.q = "find_node" => req.value \in NodeId
       /\ req.q = "ping" /\ "value" \in DOMAIN req => req.value \in NodeId
  /\ UninitialisedCounts \subseteq Int /\ Wild \subseteq BOOLEAN
  /\ {MaxTime, MaxLost, MaxDuplicated, MaxDeaths} \subseteq Nat

VARIABLES machine,   \* [Node -> the record of module Machine]
          net,       \* datagrams under way
          asked,     \* [Client -> request, or None]
          answers,   \* [Client -> answers received]
          replied,   \* history: [asker, node, key] of the find queries answered
          faults     \* [lost, duplicated, deaths]: how many so far

\* What a handler may find in a count that nothing has set, and behind a buffer.
Garbage == [count : UninitialisedCounts, wild : Wild]

Client == DOMAIN Requests   \* local applications, one request each

vars == <<now, machine, net, asked, answers, replied, faults>>

None == [q |-> "none"]

\* initMachine of node n: empty lists, then a ping to the peer it was given.
initMachine(n, generated) ==
  LET m == NewMachine(n, generated)
  IN  IF Peer[n] = NoPeer THEN m ELSE kademPing(m, Peer[n])

MeetAll(m, contacts) ==
  [m EXCEPT !.table = FoldLeft(LAMBDA t, id : insert_into_contact_table(t, m.id, id, now),
                               @, contacts)]

Flushed(m) == [m EXCEPT !.outbox = {}, !.rpc_out = {}]

Init ==
  /\ now = 0
  /\ machine = [n \in Node |-> Flushed(MeetAll(initMachine(n, 1), Contacts[n]))]
  /\ net = UNION {initMachine(n, 1).outbox : n \in Node}
  /\ asked = [c \in Client |-> None]
  /\ answers = [c \in Client |-> <<>>]
  /\ replied = {}
  /\ faults = [lost |-> 0, duplicated |-> 0, deaths |-> 0]

\* Node n becomes m: what m sent is on its way, what it answered is received.
Run(n, m, rest) ==
  /\ machine' = [machine EXCEPT ![n] = Flushed(m)]
  /\ net' = rest \cup m.outbox
  /\ answers' = [c \in Client |->
       answers[c] \o SetToSeq({a.answer : a \in {r \in m.rpc_out : r.client = c}})]

\* The key of the lookup a query belongs to.
LookedUp(msg) == IF msg.q = "get" THEN msg.value ELSE msg.target

\* A machine receives a datagram; the network may keep a copy of it.
Receive(p, copied, garbage) ==
  /\ p \in net
  /\ machine[p.dst].alive
  /\ copied => faults.duplicated < MaxDuplicated
  /\ Run(p.dst, HandleMessage(machine[p.dst], p.msg, p.src, garbage),
         IF copied THEN net ELSE net \ {p})
  /\ faults' = [faults EXCEPT !.duplicated = IF copied THEN @ + 1 ELSE @]
  /\ replied' = IF p.msg.y = "q" /\ p.msg.q \in {"get", "find_node"}
                THEN replied \cup {[asker |-> p.src, node |-> p.dst, key |-> LookedUp(p.msg)]}
                ELSE replied
  /\ UNCHANGED <<now, asked>>

\* A local application sends its request.
Ask(c) ==
  LET req == Requests[c] IN
  /\ asked[c] = None
  /\ machine[req.node].alive
  /\ asked' = [asked EXCEPT ![c] = req]
  /\ Run(req.node, HandleRequest(machine[req.node], req, c), net)
  /\ UNCHANGED <<now, replied, faults>>

\* A datagram is lost, for one to a dead process without being counted.
Lose(p) ==
  /\ p \in net
  /\ machine[p.dst].alive => faults.lost < MaxLost
  /\ net' = net \ {p}
  /\ faults' = [faults EXCEPT !.lost = IF machine[p.dst].alive THEN @ + 1 ELSE @]
  /\ UNCHANGED <<now, machine, asked, answers, replied>>

\* A process dies from outside, or later of what an error of memory left behind.
Kill(n) ==
  /\ machine[n].alive
  /\ faults.deaths < MaxDeaths
  /\ machine' = [machine EXCEPT ![n] = Die(@)]
  /\ faults' = [faults EXCEPT !.deaths = @ + 1]
  /\ UNCHANGED <<now, net, asked, answers, replied>>

\* A dead process is started again with its old arguments.
Start(n) ==
  /\ ~machine[n].alive
  /\ faults.deaths < MaxDeaths
  /\ Run(n, initMachine(n, machine[n].generated), net)
  /\ faults' = [faults EXCEPT !.deaths = @ + 1]
  /\ UNCHANGED <<now, asked, replied>>

Tick ==
  /\ now < MaxTime
  /\ now' = now + 1
  /\ UNCHANGED <<machine, net, asked, answers, replied, faults>>

Next ==
  \/ \E p \in net, copied \in BOOLEAN, garbage \in Garbage :
       Receive(p, copied, garbage)
  \/ \E c \in Client : Ask(c)
  \/ \E p \in net : Lose(p)
  \/ \E n \in Node : Kill(n)
  \/ \E n \in Node : Start(n)
  \/ Tick

Spec == Init /\ [][Next]_vars

-----------------------------------------------------------------------------
(* Properties. *)

IsContactList(list, max) ==
  /\ Len(list) <= max
  /\ \A i \in 1..Len(list) : /\ list[i].nodeID \in NodeId
                             /\ list[i].count \in 0..2
                             /\ list[i].timestamp \in 0..now + PingPeriod

\* Every variable has its type; a bucket never outgrows length_bucket nor
\* a lookup twice that (contacts to ask and contacts that answered), a stamp is
\* never ahead of the clock by more than a ping.
TypeOK ==
  /\ now \in 0..MaxTime
  /\ \A n \in Node : LET m == machine[n] IN
       /\ m.id = n /\ m.alive \in BOOLEAN /\ m.generated \in Nat
       /\ \A b \in Buckets : IsContactList(m.table[b], length_bucket)
       /\ \A i \in 1..Len(m.store_find_queries) :
            /\ m.store_find_queries[i].key \in NodeId
            /\ IsContactList(m.store_find_queries[i].value, 2*length_bucket)
  /\ \A p \in net : p.src \in Node /\ p.dst \in Node /\ p.msg.y \in {"q", "r", "e"}
  /\ \A c \in Client : asked[c] \in {Requests[c], None}

\* In a find query the contacts that have answered come after all the others,
\* through rounds, insertions by distance and pruning: lookUpRound and its
\* callers find the answers by the first contact with count 2.
AnswersComeLast ==
  \A n \in Node : \A q \in 1..Len(machine[n].store_find_queries) :
    LET list == machine[n].store_find_queries[q].value
    IN  \A i, j \in 1..Len(list) : i < j /\ list[i].count = 2 => list[j].count = 2

IsPut(p) == p.msg.y = "q" /\ p.msg.q = "put"

\* Data is sent for storage only to nodes that have answered a find query of
\* the same machine for the same key (and so were given the token's GET).
StoresGoToAnswerers ==
  \A p \in net : IsPut(p) =>
    [asker |-> p.src, node |-> p.dst, key |-> p.msg.value] \in replied

\* As long as no token is old enough to be dropped and no process restarts, a
\* running machine to which data is sent holds the token that lets it in.
StoresAreGranted ==
  now <= 5 * KADEM_TIMEOUT_PING /\ faults.deaths = 0 =>
    \A p \in net : IsPut(p) /\ machine[p.dst].alive =>
      p.msg.token \in Keys(machine[p.dst].token_rec)

\* The data of a put leaves its machine in one step, which gives up the token:
\* no later answer of the same lookup sends it again.  (In that step a node that is
\* twice among the results is sent it twice: Lookup!AtMostTwice.)
StoreOnce ==
  [][\A p \in net' \ net : IsPut(p) =>
       /\ p.msg.token \in Keys(machine[p.src].token_sent)
       /\ p.msg.token \notin Keys(machine[p.src].token_sent')]_vars

ResultIds(m) ==
  UNION {Ids(ResultNodes(m.store_find_queries[q].value)) : q \in 1..Len(m.store_find_queries)}

\* A lookup takes a node for one that has answered only on an answer to a query
\* that is not older than its timeout, and uses that query up.
FreshAnswersOnly ==
  [][\A n \in Node :
       ~(ResultIds(machine[n]') \subseteq ResultIds(machine[n])) =>
         \E i \in 1..Len(machine[n].sent_queries) :
           LET s == machine[n].sent_queries[i]
           IN  /\ now - s.timestamp <= KADEM_TIMEOUT_REFRESH_QUERY
               /\ s.key \notin Keys(machine[n].sent_queries')]_vars

\* p answers a ping that its receiver has kept until now, and that it uses up.
AnswersPing(p) ==
  LET m == machine[p.dst] IN
  /\ p.msg.y = "r"
  /\ p.msg.t \in Keys(m.sent_queries)
  /\ find_key(m.sent_queries, p.msg.t).value.q = "ping"
  /\ p.msg.t \notin Keys(m.sent_queries')

\* A client that asked for a ping is told OK only in the step in which its machine
\* handles the answer of the node it asked about to a ping of that machine.
PingAnswersTrue ==
  [][\A c \in Client :
       asked[c].q = "ping" /\ answers[c] # answers[c]' =>
         \E p \in net, copied \in BOOLEAN, garbage \in Garbage :
           /\ Receive(p, copied, garbage)
           /\ p.dst = asked[c].node /\ p.src = asked[c].value
           /\ AnswersPing(p)]_vars

Died == {n \in Node : machine[n].alive /\ ~machine'[n].alive}

\* A request that may end the machine it is sent to: never a get, and a put only
\* where there is no contact to send it to.
Deadly(req) ==
  /\ req.q \in {"put", "ping", "find_node", "kill_node"}
  /\ req.q = "put" => \A b \in Buckets : machine[req.node].table[b] = <<>>

\* A datagram that may end its receiver: contacts are written into a buffer too
\* short for them, or copied out of one (find_node, its answer, that of a get, a
\* waiting node); or it answers a query that is not kept any more.
Dangerous(p) ==
  LET m == machine[p.dst] IN
  \/ p.msg.y = "q" /\ p.msg.q = "find_node"
  \/ /\ p.msg.y = "r"
     /\ p.msg.t \in Keys(m.sent_queries) =>
          find_key(m.sent_queries, p.msg.t).value.q \in {"find_node", "get"}
  \/ m.waiting_nodes # <<>>

\* No process dies but by a crash, of such a request or of such a datagram: a
\* ping, get or put of a peer, an error and the answer to a ping or put end none,
\* whatever lookups, losses and deaths came before.
DeathsExplained ==
  [][\A n \in Died :
       \/ faults'.deaths # faults.deaths
       \/ \E c \in Client : asked'[c] # asked[c] /\ asked'[c].node = n /\ Deadly(asked'[c])
       \/ \E p \in net, copied \in BOOLEAN, garbage \in Garbage :
            Receive(p, copied, garbage) /\ p.dst = n /\ Dangerous(p)]_vars

\* No machine comes to have itself for a contact, to ask or to have answered, nor
\* sends itself anything, whatever others name to it: the distance of a machine to
\* itself has no bucket (node.c:208) and the index is -1.
NeverItself ==
  /\ \A n \in Node :
       /\ \A b \in Buckets : n \notin Ids(machine[n].table[b])
       /\ \A q \in 1..Len(machine[n].store_find_queries) :
            n \notin Ids(machine[n].store_find_queries[q].value)
       /\ \A i \in 1..Len(machine[n].waiting_nodes) :
            n \notin {machine[n].waiting_nodes[i].key, machine[n].waiting_nodes[i].value}
  /\ \A p \in net : p.src # p.dst

\* What the machines keep and tell their clients is what DhtService promises:
\* a get is answered at once with the object held or not at all, a client hears
\* once, what is held somebody has put, and only a request, an answer or a
\* crash takes it away.
Objects(m) ==
  {[key |-> m.stored_values[i].key, data |-> m.stored_values[i].value] :
     i \in 1..Len(m.stored_values)}

Service == INSTANCE DhtService WITH
  Request <- {Requests[c] : c \in Client},
  held    <- [n \in Node |-> Objects(machine[n])],
  alive   <- [n \in Node |-> machine[n].alive]

ImplementsDhtService == Service!Spec

\* What a machine holds under a key is what a client put under that key, even
\* when puts of several keys are under way at once; what a client is told of a
\* key is too.
DataIntegrity == Service!Integrity

-----------------------------------------------------------------------------
(* What comments of the code say and the code does not do. *)

\* kademlia.c:962, 1370, an answer whose query is not kept any more is only
\* traced as "Query not found".  kademMaintenance dies of it first.
AnswersKillNobody ==
  [][faults'.deaths = faults.deaths =>
       ~\E p \in net \ net' : p.msg.y = "r" /\ p.dst \in Died]_vars

\* kademlia.h:96, tokens are kept "to check that the DHT received a GET before
\* a PUT": a PUT that follows a GET of the same machine for the key is let in.
PutsAfterGetsAreGranted ==
  \A p \in net : p.msg.y = "e" => p.msg.code # "205" \/ now > 5 * KADEM_TIMEOUT_PING

-----------------------------------------------------------------------------
(* Liveness, for a network that loses nothing: a datagram that stays under   *)
(* way is delivered.                                                         *)

Deliver == \E p \in net, garbage \in Garbage : Receive(p, FALSE, garbage)
Deliverable == \E p \in net : machine[p.dst].alive

\* WF_vars(Deliver), with what enables Deliver written out (Receive has no
\* other guard when nothing is copied).
FairSpec == Spec /\ ([]<>~Deliverable \/ []<><<Deliver>>_vars)

\* Every search has one contact to ask at most, and is left no more than one
\* answer to wait for by the allocator.
OneAtATime ==
  \A n \in Node : \A q \in 1..Len(machine[n].store_find_queries) :
    LET search == machine[n].store_find_queries[q]
    IN  Len(CurrentNodes(search.value)) <= 1 /\ search.count <= 1

Holds(n, key) == key \in Keys(machine[n].stored_values)

\* An object that was put comes to be held by a second machine.  With several
\* contacts to ask the requests go to the first of them and the search may never
\* end; so it may when the allocator leaves a greater count (kademlia.c:1046-1105).
PutReplicated ==
  []OneAtATime =>
    \A c \in Client : asked[c].q = "put" ~>
      \E n \in Node \ {Requests[c].node} : Holds(n, Requests[c].value)

\* Every search for an object comes to an end, on the same condition, over as many
\* rounds as it takes to ask one contact after the other.
SearchesEnd ==
  []OneAtATime => <>[](\A n \in Node : machine[n].store_find_queries = <<>>)

\* A machine and the peer it was given come to know each other.
JoinSucceeds ==
  \A n \in Node : Peer[n] # NoPeer =>
    <>[](Knows(machine[n], Peer[n]) /\ Knows(machine[Peer[n]], n))
=============================================================================
