# A formal model of the Kademlia DHT process

TLA+ modules, TLC runs and TLAPS proofs about the DHT in `kademlia.c`, `node.c`,
`XORmetrics.c` and `store_file.c`, and about the messaging application in `messaging.c`
and `utils.c`. The definitions are translated from the C
source; where a comment says something else, the model follows the code and a run
shows the difference. `PROJECT.json` maps every definition to its lines.

## 1. The system

| part | state | operations |
|---|---|---|
| DHT process (`kademlia.c`, `main_kademlia.c`) | `struct kademMachine`: identifier, routing table, the lists of stored values, sent queries, waiting nodes, find queries, tokens sent and received, the latest request of a local client | `initMachine`, `startKademlia` (a select loop), `kademMaintenance`, one handler per query, per answer, per local request |
| contact lists, routing table (`node.c`) | 128 buckets, each a linked list of at most six contacts (identifier, address, `count`, `timestamp`) | insert, move to tail, delete, nearest contacts, insert by distance |
| XOR metric (`XORmetrics.c`) | none | distance of two identifiers |
| keyed lists (`store_file.c`) | linked list of (key, value, count, timestamp) | store, delete, find, drop what is old |
| messaging application (`messaging.c`, `utils.c`) | an RPC socket to its DHT process, a P2P socket to other applications, two `timeval`s, line buffers | put its address at the start and wait, show what others send, get the address of another and send to it, ping, find_node, kill_node, print |
| MD5, JSON library | none of their own | hashing, parsing; third-party |
| `test_*.c`, `testXOR.c`, `md5_t.c` | none | programs that call a function or send a request and print |

**How they interact.** A process has one thread. It selects over a socket for local
clients (requests and answers in JSON), a socket for peers, and stdin. Each datagram
is handled to its end before the next. A datagram of a peer first goes through
`kademMaintenance`, the only timer-like code: it runs when something arrives, not
when time passes (the branch for a timeout of select is empty). Peers
exchange queries (`ping`, `find_node`, `get`, `put`), answers and errors over UDP; an
answer is matched to its query by a transaction id in `sent_queries`. A client's
`put` stores the object, acknowledges it, draws a token, and looks the
key up with `get` queries that carry the token; when the lookup ends the object goes
in `put` queries to the nodes that answered, which accept it if they have seen
the token.

An application asks the process on its host over UDP. It waits for an answer after
the put at its start and after each `get`, and never after a command, so that answers of
commands stay in the socket; it does not look at what a datagram answers.

**What is hard.** UDP loses, duplicates and reorders; answers race the expiry of
their queries; a full bucket makes a newcomer wait for the outcome of a ping;
several lookups and clients share one machine (and one `latest_query_rpc`); a
lookup keeps the contacts to ask and those that have answered in one list; a
128-bit distance is read into an `int`; a count is uninitialised; processes die and
come back with the same identifier. `hazards` in `PROJECT.json` lists each at its line.

**What makes each part correct.**

* keyed lists: at most one entry per key, in the order of the stamps, so that the
  list is a map with expiry;
* contact lists: bounded, no call disturbs other contacts;
* routing table: a contact is in the bucket of its distance, leaves it only when it
  is stale or somebody has waited long enough, and nobody waits without a reason;
* lookups: only answers to live queries count, the two halves of the list stay
  apart, those that answered are in order and none more than twice, a search ends;
* put: data goes to nodes that answered, once, with a token they hold, under its
  own key, and reaches a second machine;
* clients: a request is answered at most once, a get at once or never, by what somebody
  put under the key; a ping when the node it asked for has answered;
* processes end by a crash, a request or an answer that may end them, of nothing else;
* joining: a machine and its peer come to know each other;
* messages: a message goes to the application it names and is shown there.

## 2. Modules

| module | models |
|---|---|
| `StoreFile` | the functions of `store_file.c` on sequences of entries |
| `StoreFileSystem` | one such list under any order of calls and a running clock |
| `KeyedStore` | the abstract promise: a map with put, remove and exact expiry |
| `StoreFileProofs` | theorems and proofs about `StoreFileSystem` |
| `NodeDetails` | `node.c` and `XORmetrics.c`: metric, buckets, list operations |
| `Loops` | what a fold over a list, and so a loop of the code, computes and keeps |
| `Machine` | `struct kademMachine` and the functions of `kademlia.c`, as operators from a machine to the machine it leaves |
| `MachineProofs` | what the operations of `NodeDetails` and every handler of `Machine` keep and do |
| `Lookup` (`MCLookup`) | one search of one machine, from the request that begins it, among peers that answer what and when they like |
| `LookupProofs` | theorems and proofs about `Lookup` |
| `ContactTable` (`MCContactTable`) | one machine among neighbours that send pings and answer them whenever they like |
| `ContactTableProofs` | theorems and proofs about `ContactTable` |
| `Kademlia` (`MCKademlia`) | several machines, their clients, the network, crashes and the clock |
| `KademliaProofs` | theorems and proofs about `Kademlia`, and that it implements `DhtService` |
| `DhtService` | the abstract promise: what processes hold and tell their clients |
| `DhtServiceProofs` | theorem and proofs about `DhtService` |
| `Messaging` (`MCMessaging`) | the applications, their sockets and users, composed with `DhtService` |
| `MessagingProofs` | theorems and proofs about `Messaging` |

`Machine` extends `NodeDetails` and `StoreFile`; `Lookup`, `ContactTable` and `Kademlia` extend
`Machine` and give it variables. Since a handler never waits and a process has
one thread, a handler is one action: `Receive` is a datagram with
`kademMaintenance` and its handler, `Ask` a client's request. The atomicity is that of
the select loop. What a handler sends collects in `outbox` and `rpc_out` and is
taken away in the same step.

`Lookup` keeps of its machine the searches only (`store_find_queries`). A search begins with what the
request leaves (`Init`: the machine has met some peers, `k_nearest_nodes` reads its buckets in their order), and each step is an answer
or another datagram: maintenance prunes the list, and `HandleAnswerTo` is the code's handler. `asked` holds the queries that a peer
may still answer, by the time they were sent at; that a peer does not name itself and that only peers are named is what
`NeverItself` of `Kademlia` gives. Nobody holds the object looked for: an answer with the object ends the search.

`DhtService` knows no machines, messages or lookups: objects held by a process, one request
of each client, its answers. A get is answered with the object held in the step in which
it is asked, or never; an object somebody put may come to a process at any
time (`Learn`) and replace what it holds under that key; a put may, when the process knows nobody, end it;
a ping may be answered later, once (`Pong`). `Kademlia` implements it
(`ImplementsDhtService`: `held` is `stored_values`, the clients' side is the same). `Messaging` uses it
for the processes its applications ask: a short module stands for the model of the whole network, and
what is shown there holds for whatever `Kademlia` does within its promise. A client
of the service is a request of an application (`Slot`: login and number), so that many
requests of one application are many clients.

`Messaging` follows `main`: `pc` says in which of its `select`s a process waits
(`entering`: the put's answer; `loop`: P2P socket and stdin; `waiting`: the get's answer),
`spinning` is the first loop after its time was over, with a descriptor set that stays
empty. `tv` and `tv2` hold what `select` left of the ten seconds. `buf_send2` is reduced to
`dirty`, whether the rest of a longer line would follow a command. What
`kademUdpToMessage` finds on the stack when an answer has no payload is the address read before,
or nothing (`Payload`, `Stumble`). `inbox` is the RPC socket of a DHT process, `rpc` and `p2p` those of an
application. Histories, which no guard reads: `nb` and `open` (requests made and not
known to be answered), `clean`, `sent`.

State and code: `m.table[b]` is `routes.table[b]`, a list is a sequence with its head
first; `stored_values`, `sent_queries`, `waiting_nodes`, `token_sent`, `token_rec` and
`store_find_queries` have their names. `alive = FALSE` stands for a process that ended:
by `kill_node`, by a null pointer, or by `table[-1]` (the bucket of a machine's own
identifier); its lists are gone.

Abstractions:

* An identifier is the set of the positions of its 1 bits. It is the MD5 of address and
  port, so a contact's address is not kept beside it, and no two machines share one.
* A message is a record of the members the handlers read. Data is a model value.
* Transaction ids and tokens are hashes of `rand()` and the identifier: here a counter
  per machine that never repeats, not even after a restart (`srand` is given the time).
* The clock does not run backwards and is read once per handler.
* `sscanf("%x")` of a distance saturates to the width of a `long` and keeps the low bits
  as a signed `int`: `DistanceAsInt` has both widths as parameters.
* The find query `lookUpRound` stores again has an uninitialised `count`: any
  value of `UninitialisedCounts`, chosen at each delivery (`Garbage`). At the end of
  `kademHandleAnswerFindNode` (949) a pointer that nothing has set is released: the process
  dies of it or does not.
* An error of memory may end the process at the end of the handler that makes it, or not (`MayDie`, `garbage.wild`):
  every contact a find_node is answered with is written into 25 bytes (`kademlia.c:796`, 816);
  `create_node_from_string` (`node.c:396`) copies an identifier of 33 bytes into 16 and an address into 15 and has no return
  statement, for each contact an answer names and each waiting node whose ping is overdue; the contents of the answers to find_node and get
  are released twice (956 and 957, 1360 to 1362). What such a handler has sent is on its way. An effect that shows only later, as
  when the address of a contact was damaged and the next message to it ends the process (485 to 488), is `Kill`.
  That such an error goes on with other data than the code means, as with a contact whose identifier or address is another, is not modelled.
* The identifier of a waiting node is stored with its length and without its terminator (`kademlia.c:324`, 382) and read as a
  string (`node.c:403`); it is taken as it was stored. `RPCHandleFindNode` has 20 bytes for address
  and port (2196), one too few for the longest, and `find_node_details` one byte too few for the distance (`node.c:211`): both are
  taken to have no effect.
* In `Messaging` a login is also the key MD5 makes of it and the address it is put with: no two
  applications share either. Datagrams between a process and an application on its host, and between
  applications, are not lost unless their receiver is down. Standard input stays open (at its end
  `fgets` would leave the old line to be sent again), a line fits its buffer except in
  `find_node`, where it may end the application, and an application that ended is not started again.
* A contact that is freed while the loop's cursor is on it (`kademMaintenance`) leaves its
  successor readable; its identifier no longer compares equal to anything.

## 3. Runs

Passing runs:

| run | asks | bounds, and why they suffice |
|---|---|---|
| `store_file` | `TypeOK`, `UniqueKeys`, `Ascending`, `ImplementsKeyedStore` | three keys, two values, ages 0 to 2, clock to 3: replacing, deleting in the middle, expiry of none, some and all. Deadlock is checked |
| `lookup` | `TypeOK`, `AnswersOrdered`, `AtMostTwice`, `OthersStay` | a put, a get or a find_node; five peers, of which the machine has met one or three in buckets that are not in the order of distance; lists of three, four answers by anybody who was asked, once or repeatedly, with up to three contacts, clock to 3: distances that fit, saturate and tie (four bits, of which three are read into two), lists that fill, contacts that are given up |
| `contact_table` | `TypeOK`, `WaitersAreJustified`, `Placement`, `NoContactLeavesEarly` | buckets of two, three neighbours of one bucket and one of another, five pings, clock to 4 (a contact is stale after 2, a ping overdue after 1): newcomers wait, are let in, are refused, contacts go stale |
| `kademlia_puts` | `TypeOK`, `DataIntegrity`, `StoresAreGranted`, `DeathsExplained`, `ImplementsDhtService` | three machines in a chain, two puts at its end, the other end told to end (`kill_node`), counts 0 and 5, one datagram lost, every delivery order, every error of memory fatal or not |
| `kademlia_holders` | `DeathsExplained`, `ImplementsDhtService` | two machines; one joins and puts, gets and looks for a node, the other puts under the same key and is sent a ping without a value, in every order: the put that knows nobody and the one that meets a holder, the get that finds the object and the one whose client hears nothing; counts 0 and 5, every error of memory fatal or not |
| `kademlia_faults` | `StoresGoToAnswerers`, `AnswersComeLast`, `FreshAnswersOnly`, `StoreOnce` | a third machine pings the one that puts; one death (with the datagrams sent to the dead) or restart, clock to 3 (queries live 1, contacts are pruned after 2). No loss is counted: a datagram that stays under way has the same effect on the others |
| `kademlia_pings` | `NeverItself`, `PingAnswersTrue`, `ImplementsDhtService` | three machines, one of which joins; three pings of known and unknown nodes, the same one twice, a find_node of a node nobody is; one duplicate; no error of memory is fatal |
| `messaging` | `TypeOK`, `AnsweredOnce`, `AddresseeKept`, `MessagesGoToNamed`, `MessagesAreShown` | two applications with a process each; one types two lines of any kind (a message, a long one, print, ping, find_node, kill_node, too short), the other one message; one crash or restart from outside, any number by requests; a wait of one unit, so that a timeout races every answer |
| `kademlia_searches` | `SearchesEnd`, `PutReplicated`, `JoinSucceeds` | three machines: two know each other and one of them puts, the third joins the other one and gets, before it knows anybody or after; a search goes from one machine to the next, so that it has two rounds and reads the count the first has left; counts 0 and 5; the clock stands still; no error of memory is fatal |

`CHECK_DEADLOCK FALSE` stands in the runs of `Lookup`, `ContactTable` and `Kademlia`, which stop when every
bound is reached and nothing is under way. Small constants keep the order of
the real ones: a query lives as long as a ping's grace, a token five times that, a
contact much longer (in `contact_table` a little longer, so that it goes stale).
`StoresAreGranted` speaks of the time before a token may be dropped and of no restart,
because tokens do expire and die with their process. `DeathsExplained` names what may end a process:
a crash; `kill_node`, a put to a machine without contacts, a ping, a find_node of a client (`Deadly`); of datagrams a find_node, an answer to a find_node or a get, an answer to a query that is
not kept, and any datagram while a node waits (`Dangerous`). A get or put of a peer, its ping, an error, and an answer to a ping or a put never do, nor do
a client's get, print or put where there is a contact; which is what
the mutant breaks that inserts the machine's own identifier. Both runs that check it let every error of memory be fatal.
Two applications are enough for `Messaging`: a third
adds senders, which only meet in the P2P socket, and the theorems below hold for any number.

Violations, each a comment of the source or the README that the code does not keep (`findings`):

| run | property | what the counterexample shows |
|---|---|---|
| `late_answer_kills` | `AnswersKillNobody` | a duplicated answer is read as a query and its missing member is dereferenced |
| `put_refused` | `PutsAfterGetsAreGranted` | a put and a get of one key share a find query; the object goes out with a token its receiver never saw |
| `misdelivered` | `MessagesReachAddressee` | the answer of a command, which nobody has read, is taken for that of the next get, and the message goes to nobody or to an address read before |

Further deviations that were met while translating, are in the model, and have no run:
`strcpy` stands for `strcmp` (`kademlia.c:1281`), so that the value of a get
that arrives later never reaches its client, which `DhtService` states; the application's ping says
`id` and the process reads `value` and ends (`messaging.c:398`, `kademlia.c:1909`); a put whose
lookup meets a holder of the key replaces the new object by the old (1278);
a `find_node` search is deleted by its first round and kept when it has ended
(900); a lookup of a machine's own identifier reads `table[-1]`; the entry of a
waiting node outlives its ping and evicts the head at each later datagram (398), and is put into a bucket that may
hold it already, where `node.c:183` says that a node which exists in its bucket is moved; a contact of a full bucket that is heard of keeps
its old stamp (`node.c:250`), where `kademlia.c:302` says that it is refreshed; a put is acknowledged and
then dereferences the head of a list of contacts that may be empty (1888); every request of a round goes
to the first contact of the list, and the others are marked as asked (1058); the count of requests that wait is put into a find query that is then replaced by one
with a count nobody has set (1046, 1105); `delete_node` never looks at the head of a list of two or more, so that it stays among the contacts to ask
when it answers (`node.c:453`), where `kademlia.c:1010` says that it is moved; the
buckets are read in the order of their numbers, not of distance (`node.c:277`); contacts at equal `int` distances
are dropped from lookup lists (`node.c:483`); the application's loop that waits for the answer of its put does
not renew its descriptor set after a timeout and never ends (`messaging.c:154`).

**Fairness.** In `Messaging`, weak fairness of what `main` does when `select` returns
(`Selects`, `Show`) and of `Serve`: a process that is not stopped goes on, and `select` returns when a datagram is there or the
time is over. Nobody is made to type, no object to travel and no process to die or restart. A message is then shown, because the
wait for a get ends; the exception in `MessagesAreShown`, the first loop after its timeout, is the code's.

In `Kademlia`, `FairSpec` says that when a datagram to a running machine is under way again and
again, datagrams are delivered again and again: the select loop takes what is in the socket,
and a network that loses nothing puts it there. It is weak fairness of `Deliver` with what
enables it written out: TLC evaluates `ENABLED Deliver` by running every handler symbolically, which does not end in useful time. Clients, clock, losses and deaths get none. Fairness is not asked of each
datagram; a delivery removes it, and a run has finitely many. `JoinSucceeds` needs the
clock to stand still (or not to pass the life of a query) since an answer that is later than that ends
the process that receives it. `PutReplicated` and `SearchesEnd` are claimed of behaviours in which every search has one contact to ask at most and is left no greater count than 1
by the allocator (`OneAtATime`), and in runs in which no error of memory is fatal. With several contacts to ask, all requests go to the first, and
with a greater count a search that has nobody left to ask goes on waiting: then it may go on for ever and its object stay where it was put.

**Mutants.** Every property of a passing run has a mutant: an operator beside the original
in the module (named `X_what`) with a plausible bug, under which TLC finds the property violated.

## 4. Proofs

`StoreFileProofs` proves, for every set of keys, values and ages and every length of the list:

* `SpecTypeOK`, `SpecUniqueKeys`, `SpecAscending`: the three invariants of `store_file`;
* `SpecImplementsKeyedStore`: `Spec => Abstract!Spec`, the list is a map with expiry.

The inductive invariant `IInv` is the conjunction of the three (`SpecIInv`): that keys
stay unique needs `delete_key` to remove the only entry of a key before one is
appended (`DeleteKey`, `InsertToTail`); that the stamps ascend needs them not to be ahead of
the clock, which is part of `Ascending`. The refinement needs both: `find_key`
returns the only entry of its key, and `clean`, which stops at the first young entry, removes
exactly the old ones because the stamps ascend (`OldPrefix`, `CleanList`, `CleanExpires`).
Assumption: `StoreFileAssumption`, ages and the bound of the clock are naturals.
Steps with the clock frozen at the bound do not matter to the safety part.

`DhtServiceProofs` proves `SpecIntegrity`, `Spec => []Integrity`, for every set of processes, clients
and requests: what is held was put under its key, one object of a key, and who is told something has
asked, once, and is told the truth. The two halves are one inductive invariant with the types (`IInv`): an answer is true
because what was held was put, and what was put stays put since a client asks once (`PutsStay`).
Assumption: a request names a process (`RequestsNameNodes`). `Kademlia` meets `Integrity` (`DataIntegrity`)
because it implements `DhtService` (below).

`MessagingProofs` proves for every set of applications and processes, every assignment of lines to users and any number of deaths:

* `SpecTypeOK`, `SpecAnsweredOnce`, `SpecAddresseeKept`, `SpecMessagesGoToNamed`: the four invariants of `messaging`.

The inductive invariant `IInv` has that of `DhtService` in it (`StepKeepsD` takes it over from
`DhtServiceProofs`, as every step of a process here is a step there) and relates the two sides: a request
in a queue, or served, has a number its application has given out, and is the awaited get if it is the last one of
an application that waits (`Queued`, `Served`); what was not served is open (`Opened`); a datagram in an RPC
socket is the one answer of the service to an open request (`Unread`, `AnsweredOnce`). If nothing was open when the address was asked for then
only that get is (`OnlyOpen`), so that the datagram read next is its answer (`ReadIsTrue`), which is
what somebody put under the login: its address (`TruthOfGets`). The steps of an application
are of three kinds (`Quiet`, `Sends`, `Takes`), each shown once to keep the invariant.
Assumptions: `MessagingAssumption`, `NoneIsNoRequest`.

`Loops` has the lemma the loops rest on, `LoopInvariant`: a fold (`FoldLeft`, which the loops of the code are in the model) keeps what each round keeps.
`FoldLeft` is a `CHOOSE` of a function defined by recursion, and the induction theorems of the
library cannot be instantiated here; so the proof takes the least round that breaks the invariant (`Least`, from the well-foundedness
of the naturals) and shows there is none. The module has the body of the loop (`Step`) and its invariant (`Inv`)
as constant operators; each loop of the code that a theorem needs has an instance of it.

`MachineProofs` begins with lemmas about lists and buckets, for every width and bound: which contacts an operation leaves, that
a bucket never outgrows `length_bucket`, that a bucket number exists for two identifiers that differ
(`BucketNumber`), that a list whose answered contacts come last stays so when contacts are removed (`RemoveKeepsSplit`), and
that what a removal of several positions leaves is the list without them, in its order (`RemoveLeaves`, by moving the positions kept down one removal at a time, `SiftOne`).

`LookupProofs` proves, for every set of peers, everything they may answer, any width of an identifier and of what is read of a distance, and any bound of a list:

* `SpecTypeOK`, `SpecAnswersOrdered`, `SpecAtMostTwice`: the three invariants of `lookup`;
* `SpecOthersStay`: its action property.

The lists a search begins with have no order, and a node may be in them and among those that answered twice. What there is of order is
in the part that has answered, which is built by `insert_acc_distance` alone, without a look whether the node is there (`WithAnswer`). The invariant (`IInv`) says of the one search that its list is
contacts to ask and then contacts that have answered, none of either more than `length_bucket`, and the latter in order of distance, no three at one. A contact as far as one behind the head is refused;
as the code compares a new contact with the head in another way than with the rest, one that is as far as the head alone gets in behind it (`InsertPlace`), and
then a third at that distance meets the second. So the order and the bound of two survive every insertion (`InsertKeepsOrder`). All of it needs the distances to be comparable,
in other words that what `sscanf` makes of a distance is a number whatever is cut off (`DistanceIsInt`): the sum of the weights of the bits, which the model takes
in any order, exists and is an integer because a set without one bit is smaller (`SumExists`, `SumIsInt`).

That no other contact is lost, repeated or moved is shown of each piece of a step by the positions before and after (`Stay`): the others are found at rising positions of
both lists, and there is one way only to go through a set upwards (`RisingAlike`, `SameAllBut`). Pruning loses only contacts with the identifier of one given up (`PruneListLoses`),
`delete_node` only the one that answered, insertions move nobody (`InsertStays`, `CandidatesStay`), and two lists stuck together keep what each has (`StayTogether`).
What a whole round leaves of a search is one list (`RoundStored`), and a request begins one search (`RequestBeginsOne`, `AnswerTakes` for the handlers).
Assumptions: `LookupAssumption`, in particular that an object has the identifier of no peer, and those of `Machine`.

`ContactTableProofs` proves, for every machine, set of neighbours, number of pings and clock:

* `SpecTypeOK`, `SpecPlacement`, `SpecWaitersAreJustified`: the three invariants of `contact_table`;
* `SpecNoContactLeavesEarly`: its action property, a claim about a step of up to one eviction per waiter in every bucket.

The invariant (`IInv`) is about the machine in the middle of a handler too (`Steady`): bucket `b` holds only neighbours
whose distance gives `b`, none of them pinged less often than one behind it (`Placed`, `Falling`), every query kept is a ping and has the time at which it was sent (`OnlyPings`,
`Timed`), and each waiting node has a ping to the contact it would replace, sent when it began to wait, or has waited longer than a query lives (`Waiting`).
`Timed` is what `WaitersAreJustified` lacks: maintenance may forget the ping in the very step in which
its answer arrives, so that the answer is ignored and the node goes on waiting; who waits on it has then waited long enough, since the two stamps
are one. An answer to a ping forgotten before ends the machine (`Gone`), a list with nobody in it.

`Falling` is what `NoContactLeavesEarly` needs. A refresh whose cursor stands on a stale contact drops a contact at that place and, after a ping moved
the list under it, the wrong one could go: that it is a stale one follows from the order of the counts (`Tended`). The rest of a step
is compared piece by piece (`Spared`: every node of the old bucket is still there, or stale, or in a given set): a refresh loses nobody that is not stale
(`PingTends`, `DropTends`), the loop over the waiting nodes at most the head of a bucket for each that has waited long enough
(`LeftForWaiting`, by `LoopInvariant` with a function from positions of the waiting list to the nodes lost for them), the handlers nobody (`NoneLeft`);
so the nodes that left are the image of waiters, and no more than they are (`FewLeave`, `LeftIsFew`). The property counts nodes, not contacts: a bucket may
hold a node several times (section 3), and `delete_node` of a stale head can then unlink several copies of one node
for one waiter. Counting contacts is true in the run, whose buckets hold two, and false for larger ones; the attempt at a proof showed it.
Assumption: `ContactTableAssumption`; its last part, that a contact becomes stale later than a ping lengthens its life (300 and 2 seconds),
keeps stamps from running ahead of the clock.

`MachineProofs` proves what one machine does. Two theorems are about one machine in a world `w` (the identifiers that exist, the objects put, the find queries
answered, the latest stamp): `MessageHandled`, whatever message of a peer it handles and whatever it finds in memory nothing
has written, and `RequestServed`, whatever its client asks. If it was `Sound` it is `Sound` afterwards,
and what it did has a reason (`Outcome`, `Served`): a datagram it sent is a query kept under a new transaction id, or the answer to this message; a put
among them gives up its token; an object it stores is one somebody put; a client it tells anything is the one that
asked now, or asked for a ping of the sender. `Sound` has in it

* keyed lists with one entry per key, and the queries and tokens under transaction ids the machine has used, so that a new id is fresh;
* `PairsOK`: the token of a get for a key belongs to an object put under *that* key. Without it the data of one put could go out under the key of another;
* `SearchesOK`: a lookup list is contacts not asked or asked, then contacts that have answered a find query for *this* key;
* `OutboxOK`: a query in flight carries what is kept of it.

Two more say when a lookup takes a node for one that has answered (`Results`): only for a message that uses up a kept query not older than its timeout
(`ResultsAreFresh`), and never for a request (`RequestsAnswerNothing`). They follow from the first two, read in a world in which nobody has answered but
the nodes already taken for it (`OwnWorld`): a sound machine is sound in it (`SoundInOwnWorld`), every handler but that of an
answer keeps it sound in that same world, and so takes nobody else (`NobodyElseAnswered`). That the query used up is young
is maintenance's doing, which runs before the message is read (`MaintenanceForgets`): `clean` stops at the first young query, and leaves no old one behind it because kept queries
are in the order of their stamps (`ByAge`, `CleanIsYoung`), which every handler keeps (`Grows`).

`KademliaProofs` proves, for every set of machines and requests, any number of losses, duplicates, deaths and restarts and any clock:

* `SpecTypeOK`, `SpecAnswersComeLast`, `SpecStoresGoToAnswerers`, `SpecDataIntegrity`, `SpecNeverItself`: invariants of `kademlia_puts`, `kademlia_faults` and `kademlia_pings`;
* `SpecStoreOnce`, `SpecFreshAnswersOnly`, `SpecPingAnswersTrue`: action properties of `kademlia_faults` and `kademlia_pings`;
* `SpecImplementsDhtService`: `Spec => Service!Spec`, the refinement TLC checks in `kademlia_puts`, `kademlia_holders` and `kademlia_pings`.

The inductive invariant (`IInv`, `SpecIInv`) says that each machine is sound in the world of its network (`MachinesOK`);
that each datagram agrees with what its sender and its receiver keep (`NetOK`: an answer under way fits the query under its id if its
receiver still has one, which is why a duplicate or a late answer can do no harm but end a process);
that a client is told something at most once, after it asked (`ClientsOK`), and that a machine which waits for a ping knows
for whom (`PingsOK`). The soundness of a machine that is not involved must survive a step too: objects and answered queries only
grow (`Widens`). TLC checked `IInv` as an invariant of the three `kademlia` runs before it was proved.
`FreshAnswersOnly` needs one thing more, the order of the kept queries in every machine (`QueriesByAge`, `SpecQueriesByAge`), which TLC
checked in `kademlia_faults`; it is kept apart from `IInv` because no other property needs it.
`PingAnswersTrue` names the step: the client is told in the `Receive` of a datagram of the node it asked about, whose query
the machine has kept until then, and which uses it up (`ReceiveTells`, from the reason `MessageHandled` gives; `StepPingsTruly`).
In the refinement a `Receive` is a stutter, a `Learn`, a `Pong` or a death, an `Ask` the service's answer to that request, `Kill`, `Start`
and the rest what their names say. `DataIntegrity` is not proved about machines at all: it is `Integrity` of `DhtService`, which `DhtServiceProofs` gives to whatever implements it.

Assumptions: the widths and times are positive as in the code (`NodeDetailsAssumption`, `MachineAssumption`); `KademliaAssumption`, which TLC evaluates in every run of `Kademlia`:
a machine is not its own contact or peer, a client sends what it can send, and an object's key is the identifier of no
machine. The last is what MD5 gives: key and identifier are hashes of a name and of an address with a port. Without it the code reads `table[-1]`.

**Only model-checked.** All liveness (`PutReplicated`, `SearchesEnd`, `JoinSucceeds`, `MessagesAreShown`), which is beyond the prover.
`StoresAreGranted`, which does not hold for every set of requests: with a get of the key of a put under way it fails, and that is the finding of
`put_refused`. `DeathsExplained`, which needs what no part of `Sound` says yet: which waiting entries and kept queries a machine has left when maintenance is over, and that `k_nearest_nodes` is
empty only if every bucket is. It is open, not out of reach.

## 5. Not modelled

The stdin console of the DHT process, option parsing and socket errors;
`RPCHandlePingRspn`, which nothing calls; messages of unknown type and the errors sent for
them, which no process of this program produces; printing and tracing. `print_routing_table` and
`print_object_ids` change nothing and are one request. MD5 and the JSON library are third-party code: an
identifier and a message are values. Errors of memory are modelled as far as they may end the process (section 2), not as far
as they may change data; those whose only effect is a leak are left out. The programs under test are read for what they expect and not modelled.

## 6. Plan

1. `DeathsExplained` of `Kademlia` as a theorem: what maintenance leaves of the waiting entries and the kept queries,
   and when `k_nearest_nodes` finds nobody, as lemmas about one machine; that no machine meets itself (`NeverItself`) is proved.
2. An abstract bucket (a bounded set of live contacts with an order) that `ContactTable` implements.
3. The livelock of a search with several contacts to ask, as a property of the behaviours `OneAtATime` leaves out; find queries shared by
   requests of different kinds.
