--------------------------- MODULE KademliaProofs ---------------------------
(***************************************************************************)
(* What a network of machines keeps, whatever is lost, duplicated or       *)
(* reordered and whoever dies, for every set of machines and of requests:  *)
(* the invariant of each machine (MachineProofs), datagrams that agree     *)
(* with what their sender and their receiver keep of the query they        *)
(* belong to, and clients that are answered once.  From it follow the      *)
(* safety properties of module Kademlia, and that the network does what    *)
(* DhtService promises.                                                    *)
(***************************************************************************)
EXTENDS Kademlia, MachineProofs, FiniteSetTheorems

-----------------------------------------------------------------------------
(* The invariant. *)

\* The objects that clients have put.
PutObjects ==
  {[key |-> asked[c].value, data |-> asked[c].data] :
     c \in {d \in Client : asked[d] # None /\ asked[d].q = "put"}}

World ==
  [nodes |-> Node, objects |-> PutObjects, replied |-> replied, time |-> now + PingPeriod]

\* A machine between two steps of its select loop.
Idle(m) == m.outbox = {} /\ m.rpc_out = {}

MachinesOK ==
  /\ machine = [n \in Node |-> machine[n]]
  /\ \A n \in Node : Sound(World, machine[n]) /\ machine[n].id = n /\ Idle(machine[n])

\* A query agrees with what its sender keeps of it, an answer with what its
\* receiver keeps of the query it answers.
PacketOK(p) ==
  /\ p.src \in Node /\ p.dst \in Node \ {p.src}
  /\ p.msg.y \in {"q", "r", "e"}
  /\ p.msg.y = "q" =>
       QueryOK(World, p.src, machine[p.src].generated, machine[p.src].sent_queries, p)
  /\ p.msg.y = "r" => p.msg.id = p.src /\ IsAnswerTo(World, machine[p.dst], p.msg, p.src)
NetOK == \A p \in net : PacketOK(p)

\* A client asks once, and is answered once, after it has asked.
ClientsOK ==
  /\ asked = [c \in Client |-> asked[c]] /\ answers = [c \in Client |-> answers[c]]
  /\ \A c \in Client :
       /\ asked[c] \in {Requests[c], None}
       /\ answers[c] = <<>> \/ (asked[c] # None /\ answers[c] = <<answers[c][1]>>)

\* The client a machine remembers for a ping has asked it for that ping and has
\* not been answered.
WaitsForPing(c, n, id) ==
  /\ c \in Client /\ asked[c] = Requests[c] /\ answers[c] = <<>>
  /\ Requests[c].q = "ping" /\ "value" \in DOMAIN Requests[c]
  /\ Requests[c].node = n /\ Requests[c].value = id
PingsOK ==
  \A n \in Node : LET latest == machine[n].latest_query_rpc
                  IN  latest.query = "ping" => WaitsForPing(latest.client, n, latest.value)

IInv ==
  /\ now \in 0..MaxTime
  /\ MachinesOK
  /\ NetOK
  /\ ClientsOK
  /\ PingsOK

-----------------------------------------------------------------------------
(* A machine runs a handler.                                                 *)

\* A machine whose messages are sent and whose answers are received.
LEMMA FlushedIsSound ==
  ASSUME NEW w, NEW m, Sound(w, m)
  PROVE  /\ Sound(w, Flushed(m)) /\ Idle(Flushed(m))
         /\ SameBut({"outbox", "rpc_out"}, m, Flushed(m))
<1> DEFINE n == Flushed(m)
<1>1. n.outbox = {} /\ n.rpc_out = {} /\ SameBut({"outbox", "rpc_out"}, m, n)
  BY DEF Sound, IsMachine, Fields, SameBut, Flushed
<1> HIDE DEF n
<1>2. OutboxOK(w, n.id, n.generated, n.sent_queries, n.outbox)
  BY <1>1 DEF OutboxOK
<1>3. Sound(w, n)
  BY <1>1, <1>2 DEF Sound, IsMachine, Fields, SameBut
<1> QED BY <1>1, <1>3 DEF Idle, n

\* The world of a state is one a machine can work in.
LEMMA WorldIsWorld ==
  ASSUME now \in Nat
  PROVE  IsWorld(World)
  BY KademliaAssumption, MachineAssumption DEF IsWorld, World

\* A step in which nothing is put, no query answered and no time passes.
LEMMA SameWorldWidens ==
  ASSUME now \in Nat
  PROVE  Widens(World, World)
  BY MachineAssumption DEF World, Widens

\* Nothing was put that is not put any more.
LEMMA WorldWidens ==
  ASSUME now \in Nat, now' \in Nat, now <= now',
         \A c \in Client : asked[c] # None => asked'[c] = asked[c],
         replied \subseteq replied'
  PROVE  Widens(World, World') /\ (now' = now => IsWorld(World'))
<1>1. PutObjects \subseteq PutObjects'
  BY DEF PutObjects
<1>2. now + PingPeriod \in Nat /\ now' + PingPeriod \in Nat /\ now + PingPeriod <= now' + PingPeriod
  BY MachineAssumption
<1>3. Widens(World, World')
  BY <1>1, <1>2 DEF World, Widens
<1>4. now' = now => IsWorld(World')
  BY KademliaAssumption, <1>2 DEF IsWorld, World
<1> QED BY <1>3, <1>4

\* Node n becomes k: the other machines and the datagrams under way stay what they were.
LEMMA MachineChanges ==
  ASSUME MachinesOK, Widens(World, World'),
         NEW n \in Node, NEW k, machine' = [machine EXCEPT ![n] = k],
         Sound(World', k), Idle(k), Grows(machine[n], k)
  PROVE  /\ MachinesOK'
         /\ \A p : PacketOK(p) => PacketOK(p)'
<1>1. k.id = n
  BY DEF Grows, MachinesOK
<1>2. /\ machine'[n] = k
      /\ \A j \in Node \ {n} : machine'[j] = machine[j]
      /\ machine' = [j \in Node |-> machine'[j]]
  BY DEF MachinesOK
<1>3. MachinesOK'
  <2>1. \A j \in Node \ {n} : Sound(World', machine[j])
    BY StaysSound DEF MachinesOK
  <2> QED BY <1>1, <1>2, <2>1 DEF MachinesOK
<1>4. \A j \in Node : Grows(machine[j], machine'[j]) /\ machine[j].id = j /\ machine'[j].id = j
  BY <1>1, <1>2 DEF MachinesOK, Grows
<1>5. ASSUME NEW p, PacketOK(p) PROVE PacketOK(p)'
  <2>1. p.msg.y = "q" =>
          QueryOK(World', p.src, machine'[p.src].generated, machine'[p.src].sent_queries, p)
    <3> DEFINE a == machine[p.src]
               b == machine'[p.src]
    <3>1. p.msg.y = "q" => QueryOK(World, a.id, a.generated, a.sent_queries, p)
      BY <1>4, <1>5 DEF PacketOK
    <3>2. Grows(a, b) /\ b.id = p.src
      BY <1>4, <1>5 DEF PacketOK
    <3> HIDE DEF a, b
    <3>3. p.msg.y = "q" => QueryOK(World', b.id, b.generated, b.sent_queries, p)
      BY <3>1, <3>2, QueryStaysOK
    <3> QED BY <3>2, <3>3 DEF b
  <2>2. p.msg.y = "r" => IsAnswerTo(World', machine'[p.dst], p.msg, p.src)
    BY <1>4, <1>5, AnswerStaysOK DEF PacketOK
  <2> QED BY <1>5, <2>1, <2>2 DEF PacketOK
<1> QED BY <1>3, <1>5

\* Node n runs a handler that leaves m.
LEMMA RunKeepsNet ==
  ASSUME MachinesOK, NetOK, Widens(World, World'),
         NEW n \in Node, NEW m, Sound(World', m), Grows(machine[n], m),
         NEW rest \in SUBSET net, Run(n, m, rest),
         \A p \in m.outbox : p.msg.y = "r" =>
           /\ p.msg.id = n
           /\ p.dst # n => IsAnswerTo(World', machine[p.dst], p.msg, n)
  PROVE  MachinesOK' /\ NetOK'
<1> DEFINE k == Flushed(m)
<1>1. /\ machine' = [machine EXCEPT ![n] = k] /\ net' = rest \cup m.outbox
  BY DEF Run
<1>2. Sound(World', k) /\ Idle(k) /\ SameBut({"outbox", "rpc_out"}, m, k)
  BY FlushedIsSound
<1> HIDE DEF k
<1>3. k.id = m.id /\ k.generated = m.generated /\ k.sent_queries = m.sent_queries
  BY <1>2 DEF SameBut, Fields
<1>4. m.id = n /\ Grows(machine[n], k)
  BY <1>3 DEF Grows, MachinesOK
<1>5. MachinesOK' /\ \A p : PacketOK(p) => PacketOK(p)'
  BY <1>1, <1>2, <1>4, MachineChanges
<1>6. machine'[n] = k /\ \A j \in Node \ {n} : machine'[j] = machine[j]
  BY <1>1 DEF MachinesOK
<1>7. ASSUME NEW p \in m.outbox PROVE PacketOK(p)'
  <2>1. /\ p.src = n /\ p.dst \in Others(World', n) /\ p.msg.y \in {"q", "r", "e"}
        /\ p.msg.y = "q" => QueryOK(World', n, m.generated, m.sent_queries, p)
    BY <1>4, <1>7 DEF Sound, OutboxOK
  <2>2. p.dst \in Node \ {n}
    BY <2>1 DEF Others, World
  <2> QED BY <1>3, <1>6, <1>7, <2>1, <2>2 DEF PacketOK
<1> QED BY <1>1, <1>5, <1>7 DEF NetOK

-----------------------------------------------------------------------------
(* What clients are told. *)

\* The sequence of no answers, ...
LEMMA SequenceOfNone ==
  SetToSeq({}) = <<>>
<1>1. Cardinality({}) = 0
  BY FS_EmptySet
<1>2. SetToSeq({}) \in [1..0 -> {}]
  <2>1. <<>> \in [1..0 -> {}] /\ IsInjective(<<>>)
    BY DEF IsInjective
  <2> QED BY <1>1, <2>1 DEF SetToSeq
<1> QED BY <1>2

\* ... and of one.
LEMMA SequenceOfOne ==
  ASSUME NEW x
  PROVE  SetToSeq({x}) = <<x>>
<1>1. Cardinality({x}) = 1
  BY FS_Singleton
<1>2. SetToSeq({x}) \in [1..1 -> {x}]
  <2>1. <<x>> \in [1..1 -> {x}] /\ IsInjective(<<x>>)
    BY DEF IsInjective
  <2> QED BY <1>1, <2>1 DEF SetToSeq
<1>3. \A f \in [1..1 -> {x}] : f = <<x>>
  OBVIOUS
<1> QED BY <1>2, <1>3

\* The answers of a client who is told nothing.
LEMMA NothingAdded ==
  ASSUME ClientsOK, NEW c \in Client
  PROVE  answers[c] \o <<>> = answers[c]
<1>1. CASE answers[c] = <<>>
  BY <1>1
<1>2. CASE answers[c] = <<answers[c][1]>>
  <2> DEFINE x == answers[c][1]
  <2>1. <<x>> \o <<>> = <<x>>
    OBVIOUS
  <2> QED BY <1>2, <2>1
<1> QED BY <1>1, <1>2 DEF ClientsOK

\* A handler that tells nobody anything.
LEMMA NobodyIsTold ==
  ASSUME ClientsOK, NEW n, NEW m, NEW rest, Run(n, m, rest), m.rpc_out = {}
  PROVE  answers' = answers
<1>1. \A c \in Client : {a.answer : a \in {r \in m.rpc_out : r.client = c}} = {}
  OBVIOUS
<1>2. \A c \in Client : answers'[c] = answers[c] \o <<>>
  BY <1>1, SequenceOfNone DEF Run
<1>3. \A c \in Client : answers[c] \o <<>> = answers[c]
  BY NothingAdded
<1>4. answers' = [c \in Client |-> answers'[c]]
  BY DEF Run
<1> QED BY <1>2, <1>3, <1>4 DEF ClientsOK

\* A handler that tells a client something for the first time.
LEMMA OneIsTold ==
  ASSUME ClientsOK, NEW n, NEW m, NEW rest, Run(n, m, rest), NEW r, m.rpc_out = {r},
         NEW d \in Client, r.client = d, answers[d] = <<>>
  PROVE  /\ answers' = [answers EXCEPT ![d] = <<r.answer>>]
         /\ answers'[d] = <<r.answer>> /\ \A c \in Client \ {d} : answers'[c] = answers[c]
<1> DEFINE heard(c) == {a.answer : a \in {q \in m.rpc_out : q.client = c}}
<1>1. \A c \in Client \ {d} : heard(c) = {}
  OBVIOUS
<1>2. heard(d) = {r.answer}
  <2>1. {q \in m.rpc_out : q.client = d} = {r}
    OBVIOUS
  <2> QED BY <2>1
<1>3. \A c \in Client : answers'[c] = answers[c] \o SetToSeq(heard(c))
  BY DEF Run
<1>4. answers' = [c \in Client |-> answers'[c]]
  BY DEF Run
<1> HIDE DEF heard
<1>5. answers'[d] = <<r.answer>>
  <2>1. <<>> \o <<r.answer>> = <<r.answer>>
    OBVIOUS
  <2> QED BY <1>2, <1>3, <2>1, SequenceOfOne
<1>6. \A c \in Client \ {d} : answers'[c] = answers[c]
  BY <1>1, <1>3, NothingAdded, SequenceOfNone
<1> QED BY <1>4, <1>5, <1>6 DEF ClientsOK

-----------------------------------------------------------------------------
(* A datagram is received. *)

\* What is left of the receiver.
Handled(p, garbage) == HandleMessage(machine[p.dst], p.msg, p.src, garbage)

\* What MachineProofs says of the handler holds of the receiver: a datagram on its
\* way is one its receiver can receive.
LEMMA Received ==
  ASSUME IInv, NEW p \in net, NEW copied \in BOOLEAN, NEW garbage \in Garbage,
         Receive(p, copied, garbage)
  PROVE  /\ p.dst \in Node /\ p.src \in Node \ {p.dst} /\ machine[p.dst].alive
         /\ now' = now /\ asked' = asked /\ Widens(World, World') /\ IsWorld(World')
         /\ Sound(World', machine[p.dst]) /\ IsMessage(World', machine[p.dst], p.msg, p.src)
         /\ Outcome(World', machine[p.dst], Handled(p, garbage), p.msg, p.src)
         /\ Handled(p, garbage).alive /\ p.msg.y = "r" =>
              p.msg.t \notin Keys(Handled(p, garbage).sent_queries)
         /\ \E rest \in SUBSET net : Run(p.dst, Handled(p, garbage), rest)
         /\ p.msg.y = "q" /\ p.msg.q \in {"get", "find_node"} =>
              RepliedIn(World', p.src, p.dst, LookedUp(p.msg))
<1> DEFINE m == machine[p.dst]
<1>1. PacketOK(p) /\ now \in Nat /\ MachinesOK
  BY KademliaAssumption DEF IInv, NetOK
<1>2. /\ now' = now /\ asked' = asked /\ replied \subseteq replied' /\ m.alive
  BY DEF Receive
<1>3. Widens(World, World') /\ IsWorld(World')
  BY <1>1, <1>2, WorldWidens
<1>4. p.dst \in Node /\ p.src \in Node \ {p.dst}
  BY <1>1 DEF PacketOK
<1>5. Sound(World', m) /\ m.id = p.dst /\ Grows(m, m)
  BY <1>1, <1>3, <1>4, StaysSound DEF MachinesOK, Grows
<1>6. IsMessage(World', m, p.msg, p.src)
  <2>1. p.src \in Others(World', m.id)
    BY <1>4, <1>5 DEF Others, World
  <2>2. p.msg.y = "q" => IsQueryOf(World', p.msg) /\ p.msg.id = p.src
    <3> DEFINE a == machine[p.src]
    <3>1. a.id = p.src /\ Grows(a, a)
      BY <1>1, <1>4 DEF MachinesOK, Grows
    <3>2. p.msg.y = "q" => QueryOK(World, a.id, a.generated, a.sent_queries, p)
      BY <1>1, <3>1 DEF PacketOK
    <3> HIDE DEF a
    <3>3. p.msg.y = "q" => QueryOK(World', a.id, a.generated, a.sent_queries, p)
      BY <1>3, <3>1, <3>2, QueryStaysOK
    <3> QED BY <3>1, <3>3 DEF QueryOK, IsQuery, IsQueryOf
  <2>3. p.msg.y = "r" => IsAnswerTo(World', m, p.msg, p.src) /\ p.msg.id = p.src
    BY <1>1, <1>3, <1>5, AnswerStaysOK DEF PacketOK
  <2>4. p.msg.y \in {"q", "r", "e"}
    BY <1>1 DEF PacketOK
  <2> QED BY <2>1, <2>2, <2>3, <2>4 DEF IsMessage
<1>8. /\ Outcome(World', m, Handled(p, garbage), p.msg, p.src)
      /\ Handled(p, garbage).alive /\ p.msg.y = "r" =>
           p.msg.t \notin Keys(Handled(p, garbage).sent_queries)
  BY <1>2, <1>3, <1>5, <1>6, MessageHandled DEF Handled
<1>9. \E rest \in SUBSET net : Run(p.dst, Handled(p, garbage), rest)
  BY DEF Receive, Handled
<1>10. p.msg.y = "q" /\ p.msg.q \in {"get", "find_node"} =>
         RepliedIn(World', p.src, p.dst, LookedUp(p.msg))
  BY DEF Receive, RepliedIn, World
<1> QED BY <1>1, <1>2, <1>3, <1>4, <1>5, <1>6, <1>8, <1>9, <1>10

\* A datagram that is received leaves the others as they were; what its receiver
\* sends, the answer to it among them, agrees with what sender and receiver keep.
LEMMA ReceiveKeepsNet ==
  ASSUME IInv, NEW p \in net, NEW copied \in BOOLEAN, NEW garbage \in Garbage,
         Receive(p, copied, garbage)
  PROVE  MachinesOK' /\ NetOK'
<1> DEFINE n == p.dst
           m == Handled(p, garbage)
           a == machine[p.src]
<1>1. /\ n \in Node /\ p.src \in Node \ {n} /\ Widens(World, World')
      /\ Outcome(World', machine[n], m, p.msg, p.src)
      /\ p.msg.y = "q" /\ p.msg.q \in {"get", "find_node"} =>
           RepliedIn(World', p.src, n, LookedUp(p.msg))
  BY Received
<1>2. PICK rest \in SUBSET net : Run(n, m, rest)
  BY Received
<1>3. MachinesOK /\ NetOK /\ PacketOK(p)
  BY DEF IInv, NetOK
<1>4. /\ a.id = p.src /\ Grows(a, a)
      /\ machine[n].id = n /\ Idle(machine[n])
  BY <1>1, <1>3 DEF MachinesOK, Grows
<1> HIDE DEF m, a
<1>5. ASSUME NEW x \in m.outbox, x.msg.y = "r"
      PROVE  x.msg.id = n /\ (x.dst # n => IsAnswerTo(World', machine[x.dst], x.msg, n))
  <2>1. AnswersQuery(World', n, p.msg, p.src, x)
    BY <1>1, <1>4, <1>5 DEF Outcome, Sending, Idle
  <2>2. p.msg.y = "q" /\ x.dst = p.src /\ x.msg.id = n
    BY <1>5, <2>1 DEF AnswersQuery
  <2>3. QueryOK(World', a.id, a.generated, a.sent_queries, p)
    <3>1. QueryOK(World, a.id, a.generated, a.sent_queries, p)
      BY <1>3, <1>4, <2>2 DEF PacketOK, a
    <3> QED BY <1>1, <1>4, <3>1, QueryStaysOK
  <2>4. /\ p.msg.q = "find_node" => RepliedIn(World', a.id, n, p.msg.target)
        /\ p.msg.q = "get" => RepliedIn(World', a.id, n, p.msg.value)
    BY <1>1, <1>4, <2>2 DEF LookedUp
  <2>5. IsAnswerTo(World', a, x.msg, n)
    BY <1>4, <1>5, <2>1, <2>3, <2>4, AnswerFits
  <2> QED BY <2>2, <2>5 DEF a
<1>6. Sound(World', m) /\ Grows(machine[n], m)
  BY <1>1 DEF Outcome
<1> QED BY <1>1, <1>2, <1>3, <1>5, <1>6, RunKeepsNet

\* What a datagram tells the local clients: nobody anything, or OK to the one that
\* waits for a ping of the sender, if it answers a ping, which is used up.
Tidings(p) ==
  \/ answers' = answers
  \/ \E c \in Client : /\ WaitsForPing(c, p.dst, p.src)
                       /\ AnswersPing(p)
                       /\ machine[p.dst].alive /\ machine'[p.dst].alive = TRUE
                       /\ answers' = [answers EXCEPT ![c] = <<OK>>]
                       /\ machine'[p.dst].latest_query_rpc.query # "ping"

\* After a handler ran, node n is what the handler left, without what it sent.
LEMMA RunLeaves ==
  ASSUME MachinesOK, NEW n \in Node, NEW m, NEW w, Sound(w, m), NEW rest, Run(n, m, rest)
  PROVE  /\ \A f \in Fields \ {"outbox", "rpc_out"} : machine'[n][f] = m[f]
         /\ \A j \in Node \ {n} : machine'[j] = machine[j]
<1>1. machine' = [machine EXCEPT ![n] = Flushed(m)]
  BY DEF Run
<1>2. SameBut({"outbox", "rpc_out"}, m, Flushed(m))
  BY FlushedIsSound
<1>3. machine'[n] = Flushed(m) /\ \A j \in Node \ {n} : machine'[j] = machine[j]
  BY <1>1 DEF MachinesOK
<1> QED BY <1>2, <1>3 DEF SameBut

\* Who is told when a datagram is received.
LEMMA ReceiveTells ==
  ASSUME IInv, NEW p \in net, NEW copied \in BOOLEAN, NEW garbage \in Garbage,
         Receive(p, copied, garbage)
  PROVE  Tidings(p)
<1> DEFINE n == p.dst
           m == Handled(p, garbage)
           latest == machine[n].latest_query_rpc
<1>1. /\ n \in Node /\ p.src \in Node \ {n}
      /\ Outcome(World', machine[n], m, p.msg, p.src)
      /\ machine[n].alive = TRUE
      /\ m.alive /\ p.msg.y = "r" => p.msg.t \notin Keys(m.sent_queries)
  BY Received DEF IInv, MachinesOK, Sound, IsMachine
<1>2. PICK rest \in SUBSET net : Run(n, m, rest)
  BY Received
<1>3. MachinesOK /\ ClientsOK /\ PingsOK /\ Idle(machine[n]) /\ PacketOK(p)
  BY <1>1 DEF IInv, MachinesOK, NetOK
<1> HIDE DEF m
<1>4. m.rpc_out = {} \/ (p.msg.y = "r" /\ m.alive = TRUE /\ Tells(machine[n], m, p.msg))
  BY <1>1, <1>3 DEF Outcome, Effect, Idle
<1>5. CASE m.rpc_out = {}
  BY <1>2, <1>3, <1>5, NobodyIsTold DEF Tidings
<1>6. CASE p.msg.y = "r" /\ m.alive = TRUE /\ Tells(machine[n], m, p.msg)
  <2> DEFINE c == latest.client
             r == [client |-> c, answer |-> OK]
  <2>1. /\ latest.query = "ping" /\ latest.value = p.src
        /\ m.latest_query_rpc.query # "ping"
        /\ m.rpc_out = {r} /\ r.client = c /\ r.answer = OK
    BY <1>3, <1>6 DEF Tells, Idle, PacketOK
  <2>2. WaitsForPing(c, n, p.src)
    BY <1>1, <1>3, <2>1 DEF PingsOK
  <2>3. c \in Client /\ answers[c] = <<>>
    BY <2>2 DEF WaitsForPing
  <2> HIDE DEF c, r
  <2>4. answers' = [answers EXCEPT ![c] = <<OK>>]
    BY <1>2, <1>3, <2>1, <2>3, OneIsTold
  <2>5. /\ machine'[n].latest_query_rpc.query # "ping" /\ machine'[n].alive = TRUE
        /\ AnswersPing(p)
    <3>1. {"latest_query_rpc", "sent_queries", "alive"} \subseteq Fields \ {"outbox", "rpc_out"}
      BY DEF Fields
    <3>2. /\ machine'[n]["latest_query_rpc"] = m["latest_query_rpc"]
          /\ machine'[n]["sent_queries"] = m["sent_queries"]
          /\ machine'[n]["alive"] = m["alive"]
      BY <1>1, <1>2, <1>3, <3>1, RunLeaves DEF Outcome
    <3>3. p.msg.t \notin Keys(machine'[n].sent_queries)
      BY <1>1, <1>6, <3>2
    <3>4. /\ p.msg.t \in Keys(machine[n].sent_queries)
          /\ find_key(machine[n].sent_queries, p.msg.t).value.q = "ping"
      <4> DEFINE list == machine[n].sent_queries
                 f == find_key(list, p.msg.t)
      <4>1. KeyedList(list)
        BY <1>1, <1>3 DEF MachinesOK, Sound, SentOK
      <4>2. PICK e \in Held(list) : e.key = p.msg.t /\ e.value.q = "ping"
        BY <1>6 DEF Tells
      <4>3. p.msg.t \in Keys(list)
        BY <4>2, KeysHeld
      <4>4. f \in Held(list) /\ f.key = p.msg.t
        BY <4>1, <4>3, FindHeld
      <4> HIDE DEF f, list
      <4>5. f = e
        BY <4>1, <4>2, <4>4 DEF KeyedList, Held
      <4> QED BY <4>2, <4>3, <4>5 DEF f, list
    <3>5. AnswersPing(p)
      BY <1>6, <3>3, <3>4 DEF AnswersPing
    <3> QED BY <1>6, <2>1, <3>2, <3>5
  <2> QED BY <1>1, <1>6, <2>2, <2>3, <2>4, <2>5 DEF Tidings
<1> QED BY <1>4, <1>5, <1>6

\* The client who is told has asked for a ping and was not told before.
LEMMA ReceiveKeepsClients ==
  ASSUME IInv, NEW p \in net, NEW copied \in BOOLEAN, NEW garbage \in Garbage,
         Receive(p, copied, garbage)
  PROVE  ClientsOK' /\ PingsOK'
<1> DEFINE n == p.dst
           m == Handled(p, garbage)
<1>1. /\ n \in Node /\ asked' = asked
      /\ Outcome(World', machine[n], m, p.msg, p.src)
  BY Received
<1>2. PICK rest \in SUBSET net : Run(n, m, rest)
  BY Received
<1>3. MachinesOK /\ ClientsOK /\ PingsOK
  BY DEF IInv
<1>4. Tidings(p)
  BY ReceiveTells
<1>5. \/ machine'[n].latest_query_rpc = machine[n].latest_query_rpc
      \/ machine'[n].latest_query_rpc.query # "ping"
  <2>1. machine'[n]["latest_query_rpc"] = m["latest_query_rpc"]
    BY <1>1, <1>2, <1>3, RunLeaves DEF Outcome, Fields
  <2> QED BY <1>1, <2>1 DEF Outcome
<1>6. \A j \in Node \ {n} : machine'[j] = machine[j]
  BY <1>1, <1>2, <1>3, RunLeaves DEF Outcome
<1>7. CASE answers' = answers
  <2>1. ClientsOK'
    BY <1>1, <1>3, <1>7 DEF ClientsOK
  <2>2. PingsOK'
    BY <1>1, <1>3, <1>5, <1>6, <1>7 DEF PingsOK, WaitsForPing
  <2> QED BY <2>1, <2>2
<1>8. ASSUME NEW c \in Client, WaitsForPing(c, n, p.src), answers' = [answers EXCEPT ![c] = <<OK>>],
             machine'[n].latest_query_rpc.query # "ping"
      PROVE  ClientsOK' /\ PingsOK'
  <2>1. asked[c] = Requests[c] /\ Requests[c].node = n /\ Requests[c].q = "ping"
    BY <1>8 DEF WaitsForPing
  <2>2. /\ answers'[c] = <<OK>> /\ \A d \in Client \ {c} : answers'[d] = answers[d]
        /\ answers' = [d \in Client |-> answers'[d]]
    BY <1>3, <1>8 DEF ClientsOK
  <2>3. <<OK>> = <<(<<OK>>)[1]>> /\ asked[c] # None
    BY <2>1 DEF None
  <2>4. ClientsOK'
    BY <1>1, <1>3, <2>2, <2>3 DEF ClientsOK
  <2>5. PingsOK'
    BY <1>1, <1>3, <1>6, <1>8, <2>1, <2>2 DEF PingsOK, WaitsForPing
  <2> QED BY <2>4, <2>5
<1> QED BY <1>4, <1>7, <1>8 DEF Tidings

-----------------------------------------------------------------------------
(* A client asks. *)

\* What is left of the machine a client asks.
Answering(c) == HandleRequest(machine[Requests[c].node], Requests[c], c)

\* What MachineProofs says of a request holds of the machine that is asked.
LEMMA Asks ==
  ASSUME IInv, NEW c \in Client, Ask(c)
  PROVE  /\ Requests[c].node \in Node /\ machine[Requests[c].node].alive
         /\ asked[c] = None /\ asked' = [asked EXCEPT ![c] = Requests[c]]
         /\ asked'[c] = Requests[c] /\ Requests[c] # None /\ answers[c] = <<>>
         /\ \A d \in Client \ {c} : asked'[d] = asked[d]
         /\ now' = now /\ Widens(World, World') /\ IsWorld(World')
         /\ Sound(World', machine[Requests[c].node]) /\ IsRequest(World', Requests[c])
         /\ Served(World', machine[Requests[c].node], Answering(c), Requests[c], c)
         /\ Run(Requests[c].node, Answering(c), net)
<1> DEFINE req == Requests[c]
           m == machine[req.node]
<1>1. /\ req.node \in Node
      /\ req.q \in {"put", "get", "ping", "find_node", "kill_node", "print"}
      /\ req.q \in {"put", "get"} => req.value \in NodeId \ Node
      /\ req.q = "find_node" => req.value \in NodeId
      /\ req.q = "ping" /\ "value" \in DOMAIN req => req.value \in NodeId
  BY KademliaAssumption DEF Client
<1> HIDE DEF req
<1>2. /\ asked[c] = None /\ m.alive /\ asked' = [asked EXCEPT ![c] = req]
      /\ Run(req.node, Answering(c), net)
      /\ now' = now /\ replied' = replied
  BY DEF Ask, Answering, req
<1>3. MachinesOK /\ ClientsOK /\ now \in Nat
  BY KademliaAssumption DEF IInv
<1>4. asked'[c] = req /\ req # None /\ \A d \in Client \ {c} : asked'[d] = asked[d]
  BY <1>1, <1>2, <1>3 DEF ClientsOK, None
<1>5. Widens(World, World') /\ IsWorld(World')
  BY <1>2, <1>3, <1>4, WorldWidens
<1>6. Sound(World', m)
  BY <1>1, <1>3, <1>5, StaysSound DEF MachinesOK
<1>7. IsRequest(World', req)
  <2>1. req.q = "put" => ObjectIn(World', req.value, req.data)
    <3>1. req.q = "put" => [key |-> req.value, data |-> req.data] \in PutObjects'
      BY <1>4 DEF PutObjects
    <3> QED BY <3>1 DEF ObjectIn, World
  <2> QED BY <1>1, <2>1 DEF IsRequest, World
<1>8. Served(World', m, Answering(c), req, c)
  BY <1>2, <1>5, <1>6, <1>7, RequestServed DEF Answering, req
<1>9. answers[c] = <<>>
  BY <1>2, <1>3 DEF ClientsOK
<1> QED BY <1>1, <1>2, <1>4, <1>5, <1>6, <1>7, <1>8, <1>9 DEF req

\* A request leaves the datagrams on their way as they were.
LEMMA AskKeepsNet ==
  ASSUME IInv, NEW c \in Client, Ask(c)
  PROVE  MachinesOK' /\ NetOK'
<1> DEFINE n == Requests[c].node
           m == Answering(c)
<1>1. /\ n \in Node /\ Widens(World, World') /\ Run(n, m, net)
      /\ Sound(World', m) /\ Grows(machine[n], m)
      /\ \A p \in m.outbox : p \in machine[n].outbox \/ p.msg.y = "q"
  BY Asks DEF Served, Busy
<1>2. MachinesOK /\ NetOK /\ Idle(machine[n])
  BY <1>1 DEF IInv, MachinesOK
<1> HIDE DEF m
<1>3. \A p \in m.outbox : p.msg.y = "q"
  BY <1>1, <1>2 DEF Idle
<1> QED BY <1>1, <1>2, <1>3, RunKeepsNet

\* A client hears at most one thing in the step in which it asks, and no other does.
Hears(c) ==
  \/ answers' = answers
  \/ \E x : answers' = [answers EXCEPT ![c] = <<x>>]

\* What the client is told in the step in which it asks.
LEMMA AskTells ==
  ASSUME IInv, NEW c \in Client, Ask(c)
  PROVE  LET m == machine[Requests[c].node]
         IN  /\ Untold(m, Answering(c)) => answers' = answers
             /\ \A x : Told(m, Answering(c), c, x) => answers' = [answers EXCEPT ![c] = <<x>>]
<1> DEFINE m == machine[Requests[c].node]
           n == Answering(c)
<1>1. /\ Run(Requests[c].node, n, net) /\ answers[c] = <<>> /\ Requests[c].node \in Node
  BY Asks
<1>2. ClientsOK /\ Idle(m)
  BY <1>1 DEF IInv, MachinesOK
<1> HIDE DEF m, n
<1>3. ASSUME Untold(m, n) PROVE answers' = answers
  BY <1>1, <1>2, <1>3, NobodyIsTold DEF Untold, Idle
<1>4. ASSUME NEW x, Told(m, n, c, x) PROVE answers' = [answers EXCEPT ![c] = <<x>>]
  <2> DEFINE r == [client |-> c, answer |-> x]
  <2>1. n.rpc_out = {r} /\ r.client = c /\ r.answer = x
    BY <1>2, <1>4 DEF Told, Idle
  <2> HIDE DEF r
  <2> QED BY <1>1, <1>2, <2>1, OneIsTold
<1> QED BY <1>3, <1>4 DEF m, n

\* It hears at most one thing, and of a ping nothing yet.
LEMMA AskHears ==
  ASSUME IInv, NEW c \in Client, Ask(c)
  PROVE  Hears(c) /\ (Requests[c].q = "ping" => answers' = answers)
<1> DEFINE m == machine[Requests[c].node]
           n == Answering(c)
           req == Requests[c]
<1>1. Serves(m, n, req, c)
  BY Asks DEF Served
<1>2. /\ Untold(m, n) => answers' = answers
      /\ \A x : Told(m, n, c, x) => answers' = [answers EXCEPT ![c] = <<x>>]
  BY AskTells
<1> HIDE DEF m, n, req
<1>3. Untold(m, n) \/ \E x : Told(m, n, c, x)
  BY <1>1 DEF Serves
<1>4. req.q = "ping" => Untold(m, n)
  BY <1>1 DEF Serves
<1> QED BY <1>2, <1>3, <1>4 DEF Hears, req

\* A client that asks has heard at most one thing after it.
LEMMA AskKeepsClients ==
  ASSUME IInv, NEW c \in Client, Ask(c)
  PROVE  ClientsOK' /\ PingsOK'
<1> DEFINE n == Requests[c].node
           m == Answering(c)
<1>1. /\ n \in Node /\ Run(n, m, net)
      /\ asked[c] = None /\ asked'[c] = Requests[c] /\ Requests[c] # None /\ answers[c] = <<>>
      /\ asked' = [asked EXCEPT ![c] = Requests[c]]
      /\ \A d \in Client \ {c} : asked'[d] = asked[d]
      /\ Sound(World', m) /\ Remembers(machine[n], m, Requests[c], c)
  BY Asks DEF Served, Busy
<1>2. MachinesOK /\ ClientsOK /\ PingsOK
  BY DEF IInv
<1>3. Hears(c) /\ (Requests[c].q = "ping" => answers' = answers)
  BY AskHears
<1>4. /\ \A d \in Client \ {c} : answers'[d] = answers[d]
      /\ answers'[c] = <<>> \/ answers'[c] = <<answers'[c][1]>>
      /\ answers' = [d \in Client |-> answers'[d]]
  <2>1. CASE answers' = answers
    BY <1>1, <1>2, <2>1 DEF ClientsOK
  <2>2. ASSUME NEW x, answers' = [answers EXCEPT ![c] = <<x>>]
        PROVE  /\ \A d \in Client \ {c} : answers'[d] = answers[d]
               /\ answers'[c] = <<>> \/ answers'[c] = <<answers'[c][1]>>
               /\ answers' = [d \in Client |-> answers'[d]]
    <3>1. <<x>> = <<(<<x>>)[1]>>
      OBVIOUS
    <3> QED BY <1>2, <2>2, <3>1 DEF ClientsOK
  <2> QED BY <1>3, <2>1, <2>2 DEF Hears
<1>5. ClientsOK'
  <2>1. asked' = [d \in Client |-> asked'[d]]
    BY <1>1, <1>2 DEF ClientsOK
  <2> QED BY <1>1, <1>2, <1>4, <2>1 DEF ClientsOK
<1>6. ASSUME NEW j \in Node, NEW d, NEW id, WaitsForPing(d, j, id) PROVE WaitsForPing(d, j, id)'
  <2>1. d # c
    BY <1>1, <1>6 DEF WaitsForPing
  <2> QED BY <1>1, <1>4, <1>6, <2>1 DEF WaitsForPing
<1>7. \A j \in Node \ {n} : machine'[j] = machine[j]
  BY <1>1, <1>2, RunLeaves
<1>8. machine'[n].latest_query_rpc = m.latest_query_rpc
  <2>1. machine'[n]["latest_query_rpc"] = m["latest_query_rpc"]
    BY <1>1, <1>2, RunLeaves DEF Fields
  <2> QED BY <2>1
<1>9. ASSUME NEW l, l = m.latest_query_rpc, l.query = "ping"
      PROVE  WaitsForPing(l.client, n, l.value)'
  <2>1. CASE l = machine[n].latest_query_rpc
    <3>1. WaitsForPing(l.client, n, l.value)
      BY <1>1, <1>2, <1>9, <2>1 DEF PingsOK
    <3> QED BY <1>1, <1>6, <3>1
  <2>2. CASE /\ Requests[c].q = "ping" /\ "value" \in DOMAIN Requests[c]
             /\ l = [query |-> "ping", value |-> Requests[c].value, client |-> c]
    <3>1. l.value = Requests[c].value /\ l.client = c
      BY <2>2
    <3>2. answers'[c] = <<>>
      BY <1>1, <1>3, <2>2
    <3> QED BY <1>1, <2>2, <3>1, <3>2 DEF WaitsForPing
  <2> HIDE DEF m
  <2> QED BY <1>1, <1>9, <2>1, <2>2 DEF Remembers
<1>10. PingsOK'
  <2>1. ASSUME NEW j \in Node, NEW l, l = machine'[j].latest_query_rpc, l.query = "ping"
        PROVE  WaitsForPing(l.client, j, l.value)'
    <3>1. CASE j = n
      BY <1>8, <1>9, <2>1, <3>1
    <3>2. CASE j # n
      <4>1. l = machine[j].latest_query_rpc
        BY <1>7, <2>1, <3>2
      <4>2. WaitsForPing(l.client, j, l.value)
        BY <1>2, <2>1, <4>1 DEF PingsOK
      <4> QED BY <1>6, <4>2
    <3> QED BY <3>1, <3>2
  <2> QED BY <2>1 DEF PingsOK
<1> QED BY <1>5, <1>10

-----------------------------------------------------------------------------
(* Processes begin and end, and time passes. *)

\* A machine that has just been started has sent a ping, if it was given a peer.
LEMMA StartedIsSound ==
  ASSUME NEW w, IsWorld(w), w.nodes = Node, NEW n \in Node, NEW g \in Nat \ {0}
  PROVE  Works(w, {}, NewMachine(n, g), initMachine(n, g))
<1> DEFINE m == NewMachine(n, g)
<1>1. Sound(w, m)
  BY EmptyMachine
<1>2. m.id = n
  BY DEF NewMachine
<1> HIDE DEF m
<1>3. CASE Peer[n] = NoPeer
  <2>1. initMachine(n, g) = m
    BY <1>3 DEF initMachine, m
  <2>2. Works(w, {}, m, m)
    BY <1>1, WorksIsReflexive
  <2> QED BY <2>1, <2>2 DEF m
<1>4. CASE Peer[n] # NoPeer
  <2>1. initMachine(n, g) = kademPing(m, Peer[n])
    BY <1>4 DEF initMachine, m
  <2>2. Peer[n] \in Others(w, m.id)
    BY <1>2, <1>4, KademliaAssumption DEF Others
  <2>3. Works(w, {}, m, kademPing(m, Peer[n]))
    BY <1>1, <2>2, PingSent
  <2> QED BY <2>1, <2>3 DEF m
<1> QED BY <1>3, <1>4

\* What a machine that is started again sends: queries, and nobody is told anything.
LEMMA Restarted ==
  ASSUME IInv, NEW n \in Node, Start(n)
  PROVE  LET m == initMachine(n, machine[n].generated)
         IN  /\ Run(n, m, net) /\ Widens(World, World')
             /\ Sound(World', m) /\ Grows(machine[n], m)
             /\ \A p \in m.outbox : p.msg.y = "q" /\ p.msg.q # "put"
             /\ m.latest_query_rpc.query = "" /\ m.rpc_out = {}
             /\ m.alive = TRUE /\ m.stored_values = <<>>
<1> DEFINE old == machine[n]
           new == NewMachine(n, old.generated)
           m == initMachine(n, old.generated)
<1>1. Run(n, m, net) /\ now' = now /\ asked' = asked /\ replied' = replied
  BY DEF Start
<1>2. MachinesOK /\ now \in Nat
  BY KademliaAssumption DEF IInv
<1>3. Widens(World, World') /\ IsWorld(World') /\ World'.nodes = Node
  BY <1>1, <1>2, WorldWidens DEF World
<1>4. old.generated \in Nat \ {0} /\ old.id = n
  BY <1>2 DEF MachinesOK, Sound, IsMachine
<1>5. Works(World', {}, new, m)
  BY <1>3, <1>4, StartedIsSound
<1>6. /\ new.id = n /\ new.generated = old.generated /\ new.sent_queries = <<>>
      /\ new.outbox = {} /\ new.rpc_out = {} /\ new.alive = TRUE /\ new.stored_values = <<>>
      /\ new.latest_query_rpc = [query |-> "", value |-> {}, client |-> NoClient]
      /\ new.latest_query_rpc.query = ""
  BY DEF NewMachine
<1> HIDE DEF new, m
<1>7. /\ Sound(World', m) /\ m.latest_query_rpc.query = "" /\ m.rpc_out = {}
      /\ m.alive = TRUE /\ m.stored_values = <<>>
      /\ \A p \in m.outbox : p.msg.y = "q" /\ p.msg.q # "put"
  BY <1>5, <1>6 DEF Works, Keeps, Progress
<1>8. Grows(old, m)
  <2>1. Grows(old, new)
    BY <1>2, <1>4, <1>6, NothingHeld, NothingByAge DEF Grows
  <2> QED BY <1>5, <2>1 DEF Works, Progress, Grows
<1> QED BY <1>1, <1>3, <1>7, <1>8 DEF m

\* A process that is started again has no client.
LEMMA StartTellsNobody ==
  ASSUME IInv, NEW n \in Node, Start(n)
  PROVE  answers' = answers
<1> DEFINE m == initMachine(n, machine[n].generated)
<1>1. Run(n, m, net) /\ m.rpc_out = {}
  BY Restarted
<1> HIDE DEF m
<1> QED BY <1>1, NobodyIsTold DEF IInv

\* ... and it uses no transaction id it has used before it died, so no answer to a
\* query of its former life is taken for one to a new query.
LEMMA StartKeepsIInv ==
  ASSUME IInv, NEW n \in Node, Start(n)
  PROVE  IInv'
<1> DEFINE m == initMachine(n, machine[n].generated)
<1>1. now' = now /\ asked' = asked /\ replied' = replied /\ answers' = answers
  BY StartTellsNobody DEF Start
<1>2. MachinesOK /\ NetOK /\ ClientsOK /\ PingsOK /\ now \in 0..MaxTime
  BY DEF IInv
<1>3. /\ Run(n, m, net) /\ Widens(World, World') /\ Sound(World', m) /\ Grows(machine[n], m)
      /\ m.latest_query_rpc.query = "" /\ \A p \in m.outbox : p.msg.y = "q"
  BY Restarted
<1> HIDE DEF m
<1>4. MachinesOK' /\ NetOK'
  BY <1>2, <1>3, RunKeepsNet
<1>5. ClientsOK'
  BY <1>1, <1>2 DEF ClientsOK
<1>6. PingsOK'
  <2>1. \A j \in Node \ {n} : machine'[j] = machine[j]
    BY <1>2, <1>3, RunLeaves
  <2>2. machine'[n]["latest_query_rpc"] = m["latest_query_rpc"]
    <3>1. "latest_query_rpc" \in Fields \ {"outbox", "rpc_out"}
      BY DEF Fields
    <3> QED BY <1>2, <1>3, <3>1, RunLeaves
  <2>3. machine'[n].latest_query_rpc.query # "ping"
    BY <1>3, <2>2
  <2> QED BY <1>1, <1>2, <2>1, <2>3 DEF PingsOK, WaitsForPing
<1> QED BY <1>1, <1>2, <1>4, <1>5, <1>6 DEF IInv

\* A process dies; what it has sent is on its way.
LEMMA KillKeepsIInv ==
  ASSUME IInv, NEW n \in Node, Kill(n)
  PROVE  IInv'
<1> DEFINE m == Die(machine[n])
<1>1. /\ machine' = [machine EXCEPT ![n] = m]
      /\ UNCHANGED <<now, net, asked, answers, replied>>
  BY DEF Kill
<1>2. MachinesOK /\ NetOK /\ ClientsOK /\ PingsOK /\ now \in Nat /\ now \in 0..MaxTime
  BY KademliaAssumption DEF IInv
<1>3. Widens(World, World') /\ IsWorld(World')
  BY <1>1, <1>2, WorldWidens
<1>4. Sound(World', machine[n]) /\ Idle(machine[n])
  BY <1>2, <1>3, StaysSound DEF MachinesOK
<1>5. Risks(World', {}, machine[n], m) /\ Ended(m)
  BY <1>3, <1>4, DeathIsSound
<1>6. m.outbox = machine[n].outbox /\ m.rpc_out = machine[n].rpc_out
  BY DEF Die, NewMachine
<1> HIDE DEF m
<1>7. Sound(World', m) /\ Grows(machine[n], m) /\ m.latest_query_rpc.query = ""
  BY <1>5 DEF Risks, Progress, Ended
<1>8. Idle(m)
  BY <1>4, <1>6 DEF Idle
<1>9. MachinesOK' /\ \A p : PacketOK(p) => PacketOK(p)'
  BY <1>1, <1>2, <1>3, <1>7, <1>8, MachineChanges
<1>10. NetOK' /\ ClientsOK'
  BY <1>1, <1>2, <1>9 DEF NetOK, ClientsOK
<1>11. PingsOK'
  BY <1>1, <1>2, <1>7 DEF PingsOK, WaitsForPing, MachinesOK
<1> QED BY <1>1, <1>2, <1>9, <1>10, <1>11 DEF IInv

\* Time passes: no stamp gets ahead of the clock.
LEMMA TickKeepsIInv ==
  ASSUME IInv, Tick
  PROVE  IInv'
<1>1. /\ now' = now + 1 /\ now < MaxTime
      /\ UNCHANGED <<machine, net, asked, answers, replied>>
  BY DEF Tick
<1>2. /\ MachinesOK /\ NetOK /\ ClientsOK /\ PingsOK /\ now \in Nat /\ now' \in Nat
      /\ now <= now' /\ now' \in 0..MaxTime
  BY <1>1, KademliaAssumption DEF IInv
<1>3. Widens(World, World')
  BY <1>1, <1>2, WorldWidens
<1>4. MachinesOK'
  BY <1>1, <1>2, <1>3, StaysSound DEF MachinesOK
<1>5. NetOK'
  <2>1. \A j \in Node : Grows(machine[j], machine[j]) /\ machine[j].id = j
    BY <1>2 DEF MachinesOK, Grows
  <2>2. ASSUME NEW p \in net PROVE PacketOK(p)'
    <3> DEFINE a == machine[p.src]
    <3>1. PacketOK(p)
      BY <1>2 DEF NetOK
    <3>2. a.id = p.src /\ Grows(a, a) /\ (p.msg.y = "q" => QueryOK(World, a.id, a.generated, a.sent_queries, p))
      BY <2>1, <3>1 DEF PacketOK
    <3> HIDE DEF a
    <3>3. p.msg.y = "q" => QueryOK(World', a.id, a.generated, a.sent_queries, p)
      BY <1>3, <3>2, QueryStaysOK
    <3>4. p.msg.y = "r" => IsAnswerTo(World', machine[p.dst], p.msg, p.src)
      BY <1>3, <2>1, <3>1, AnswerStaysOK DEF PacketOK
    <3> QED BY <1>1, <3>1, <3>2, <3>3, <3>4 DEF PacketOK, a
  <2> QED BY <1>1, <2>2 DEF NetOK
<1>6. ClientsOK' /\ PingsOK'
  BY <1>1, <1>2 DEF ClientsOK, PingsOK, WaitsForPing
<1> QED BY <1>2, <1>4, <1>5, <1>6 DEF IInv

-----------------------------------------------------------------------------
(* The invariant of the network.                                             *)

\* A machine meets its contacts one after the other: a round, and what holds
\* after it.
MeetRound(id, N, t, table, contact) == insert_into_contact_table(table, id, contact, now)
HasMet(id, N, t, i, table) == IsTable(N, t, table)

Meeting == INSTANCE Loops WITH Step <- MeetRound, Inv <- HasMet

\* A machine that has met others works as before.
LEMMA ContactsMet ==
  ASSUME NEW w, IsWorld(w), NEW m, Sound(w, m), NEW contacts \in Seq(Others(w, m.id))
  PROVE  Works(w, {}, m, MeetAll(m, contacts))
<1> DEFINE N == Others(w, m.id)
           table == Meeting!Loop(m.id, N, w.time, m.table, contacts)
<1>1. MeetAll(m, contacts) = [m EXCEPT !.table = table]
  BY DEF MeetAll, FoldLeft, MapThenFoldSet, Max,
         Meeting!FoldLeft, Meeting!MapThenFoldSet, Meeting!Max, Meeting!Loop, MeetRound
<1>2. /\ N \subseteq NodeId /\ w.time \in Nat /\ now \in 0..w.time
      /\ m.id \in NodeId /\ \A id \in N : id # m.id
  BY MachineAssumption DEF IsWorld, Others, Sound, IsMachine
<1>3. IsTable(N, w.time, table)
  <2>1. HasMet(m.id, N, w.time, 0, m.table)
    BY DEF Sound, TableOK, HasMet
  <2>2. ASSUME NEW i \in 1..Len(contacts), NEW s, HasMet(m.id, N, w.time, i-1, s)
        PROVE  HasMet(m.id, N, w.time, i, MeetRound(m.id, N, w.time, s, contacts[i]))
    BY <1>2, <2>2, InsertIntoTable DEF HasMet, MeetRound
  <2>3. Len(contacts) \in Nat /\ DOMAIN contacts = 1..Len(contacts)
    OBVIOUS
  <2> HIDE DEF N
  <2>4. HasMet(m.id, N, w.time, Len(contacts), table)
    BY <2>1, <2>2, <2>3, Meeting!LoopInvariant
  <2> QED BY <2>4 DEF HasMet
<1> HIDE DEF table
<1>4. TableOK(w, m.id, table)
  BY <1>3 DEF TableOK
<1> HIDE DEF N
<1> QED BY <1>1, <1>4, TableChanges DEF Works, Quiet

\* A machine that has sent its first ping, and what it is at the start.
Joining(n) == initMachine(n, 1)
AtStart(n) == Flushed(MeetAll(Joining(n), Contacts[n]))

\* A machine at the start: it has sent at most a ping.
LEMMA InitialMachine ==
  ASSUME now \in Nat, NEW n \in Node
  PROVE  /\ Sound(World, Joining(n)) /\ Joining(n).id = n /\ Grows(Joining(n), AtStart(n))
         /\ Sound(World, AtStart(n)) /\ Idle(AtStart(n))
         /\ AtStart(n).alive = TRUE /\ AtStart(n).stored_values = <<>>
         /\ AtStart(n).latest_query_rpc.query = ""
         /\ \A p \in Joining(n).outbox : p.msg.y = "q"
<1> DEFINE new == NewMachine(n, 1)
           sender == initMachine(n, 1)
           met == MeetAll(sender, Contacts[n])
           m == Flushed(met)
<1>1. /\ new.id = n /\ new.outbox = {} /\ new.alive = TRUE /\ new.stored_values = <<>>
      /\ new.latest_query_rpc = [query |-> "", value |-> {}, client |-> NoClient]
      /\ new.latest_query_rpc.query = ""
  BY DEF NewMachine
<1>2. IsWorld(World) /\ World.nodes = Node
  BY WorldIsWorld DEF World
<1>3. Works(World, {}, new, sender)
  BY <1>2, StartedIsSound
<1> HIDE DEF new, sender
<1>4. /\ Sound(World, sender) /\ sender.id = n /\ sender.alive = TRUE /\ sender.stored_values = <<>>
      /\ sender.latest_query_rpc.query = ""
      /\ \A p \in sender.outbox : p.msg.y = "q"
  BY <1>1, <1>3 DEF Works, Progress, Grows, Keeps
<1>5. Works(World, {}, sender, met)
  <2>1. Contacts[n] \in Seq(Others(World, sender.id))
    BY <1>2, <1>4, KademliaAssumption DEF Others
  <2> QED BY <1>2, <1>4, <2>1, ContactsMet
<1> HIDE DEF met
<1>6. Sound(World, m) /\ Idle(m) /\ SameBut({"outbox", "rpc_out"}, met, m)
  BY <1>5, FlushedIsSound DEF Works
<1> HIDE DEF m
<1>7. /\ Grows(sender, m) /\ m.alive = TRUE /\ m.stored_values = <<>>
      /\ m.latest_query_rpc.query = ""
  BY <1>4, <1>5, <1>6 DEF SameBut, Fields, Works, Progress, Grows, Keeps
<1>8. sender = Joining(n) /\ m = AtStart(n)
  BY DEF sender, met, m, Joining, AtStart
<1> QED BY <1>4, <1>6, <1>7, <1>8

\* The invariant holds at the start.
LEMMA InitIsInvariant ==
  ASSUME Init
  PROVE  IInv
<1>1. now = 0 /\ now \in Nat /\ now \in 0..MaxTime
  BY KademliaAssumption DEF Init
<1>2. /\ machine = [n \in Node |-> machine[n]]
      /\ \A n \in Node : machine[n] = AtStart(n)
      /\ net = UNION {Joining(n).outbox : n \in Node}
  BY DEF Init, AtStart, Joining
<1>3. \A n \in Node : /\ Sound(World, Joining(n)) /\ Joining(n).id = n /\ Grows(Joining(n), machine[n])
                      /\ Sound(World, machine[n]) /\ Idle(machine[n])
                      /\ machine[n].latest_query_rpc.query = ""
                      /\ \A p \in Joining(n).outbox : p.msg.y = "q"
  <2>1. ASSUME NEW n \in Node
        PROVE  /\ Sound(World, Joining(n)) /\ Joining(n).id = n /\ Grows(Joining(n), AtStart(n))
               /\ Sound(World, AtStart(n)) /\ Idle(AtStart(n))
               /\ AtStart(n).latest_query_rpc.query = ""
               /\ \A p \in Joining(n).outbox : p.msg.y = "q"
    BY <1>1, InitialMachine
  <2>2. \A n \in Node : machine[n] = AtStart(n)
    BY <1>2
  <2>3. ASSUME NEW n \in Node
        PROVE  /\ Sound(World, Joining(n)) /\ Joining(n).id = n /\ Grows(Joining(n), machine[n])
               /\ Sound(World, machine[n]) /\ Idle(machine[n])
               /\ machine[n].latest_query_rpc.query = ""
               /\ \A p \in Joining(n).outbox : p.msg.y = "q"
    <3>1. machine[n] = AtStart(n)
      BY <2>2
    <3>2. Sound(World, machine[n]) /\ Idle(machine[n])
      BY <2>1, <3>1
    <3>3. machine[n].latest_query_rpc.query = ""
      BY <2>1, <3>1
    <3>4. Grows(Joining(n), machine[n])
      BY <2>1, <3>1
    <3> QED BY <2>1, <3>2, <3>3, <3>4
  <2> QED BY <2>3
<1>4. MachinesOK
  <2>1. \A n \in Node : machine[n].id = n
    BY <1>3 DEF Grows
  <2> QED BY <1>2, <1>3, <2>1 DEF MachinesOK
<1>5. ASSUME NEW n \in Node, NEW p \in Joining(n).outbox PROVE PacketOK(p)
  <2> DEFINE m == Joining(n)
             k == machine[n]
  <2>1. /\ p.src = n /\ p.dst \in Others(World, n) /\ p.msg.y = "q"
        /\ QueryOK(World, m.id, m.generated, m.sent_queries, p)
    BY <1>3, <1>5 DEF Sound, OutboxOK
  <2>2. Grows(m, k) /\ k.id = n
    BY <1>3 DEF Grows
  <2> HIDE DEF m, k
  <2>3. QueryOK(World, k.id, k.generated, k.sent_queries, p)
    BY <1>1, <2>1, <2>2, SameWorldWidens, QueryStaysOK
  <2>4. p.dst \in Node \ {n}
    BY <2>1 DEF Others, World
  <2> QED BY <2>1, <2>2, <2>3, <2>4 DEF PacketOK, k
<1>6. NetOK
  BY <1>2, <1>5 DEF NetOK
<1>7. ClientsOK
  BY DEF Init, ClientsOK
<1>8. PingsOK
  BY <1>3 DEF PingsOK
<1> QED BY <1>1, <1>4, <1>6, <1>7, <1>8 DEF IInv

\* A datagram is lost.
LEMMA LoseKeepsIInv ==
  ASSUME IInv, NEW p \in net, Lose(p)
  PROVE  IInv'
<1>1. net' \subseteq net /\ UNCHANGED <<now, machine, asked, answers, replied>>
  BY DEF Lose
<1>2. World' = World
  BY <1>1 DEF World, PutObjects
<1>3. MachinesOK' /\ NetOK'
  BY <1>1, <1>2 DEF IInv, MachinesOK, NetOK, PacketOK
<1>4. ClientsOK' /\ PingsOK'
  BY <1>1 DEF IInv, ClientsOK, PingsOK, WaitsForPing
<1> QED BY <1>1, <1>3, <1>4 DEF IInv

\* Every step keeps the invariant.
LEMMA NextKeepsIInv ==
  ASSUME IInv, [Next]_vars
  PROVE  IInv'
<1>1. ASSUME NEW p \in net, NEW copied \in BOOLEAN, NEW garbage \in Garbage,
             Receive(p, copied, garbage)
      PROVE  IInv'
  <2>1. now' = now
    BY <1>1 DEF Receive
  <2> QED BY <1>1, <2>1, ReceiveKeepsNet, ReceiveKeepsClients DEF IInv
<1>2. ASSUME NEW c \in Client, Ask(c) PROVE IInv'
  <2>1. now' = now
    BY <1>2 DEF Ask
  <2> QED BY <1>2, <2>1, AskKeepsNet, AskKeepsClients DEF IInv
<1>3. ASSUME NEW p \in net, Lose(p) PROVE IInv'
  BY <1>3, LoseKeepsIInv
<1>4. ASSUME NEW n \in Node, Kill(n) PROVE IInv'
  BY <1>4, KillKeepsIInv
<1>5. ASSUME NEW n \in Node, Start(n) PROVE IInv'
  BY <1>5, StartKeepsIInv
<1>6. CASE Tick
  BY <1>6, TickKeepsIInv
<1>7. CASE UNCHANGED vars
  <2>1. UNCHANGED <<now, machine, net, asked, answers, replied>>
    BY <1>7 DEF vars
  <2>2. World' = World
    BY <2>1 DEF World, PutObjects
  <2> QED
    BY <2>1, <2>2
    DEF IInv, MachinesOK, NetOK, PacketOK, ClientsOK, PingsOK, WaitsForPing
<1> QED BY <1>1, <1>2, <1>3, <1>4, <1>5, <1>6, <1>7 DEF Next

\* The invariant of the network: whatever is lost, copied or reordered and whoever
\* dies, each machine is sound, each datagram agrees with what its sender and its
\* receiver keep, and each client is answered at most once, after it has asked.
THEOREM SpecIInv == Spec => []IInv
<1>1. Init => IInv
  BY InitIsInvariant
<1>2. IInv /\ [Next]_vars => IInv'
  BY NextKeepsIInv
<1> QED BY <1>1, <1>2, PTL DEF Spec

-----------------------------------------------------------------------------
(* What the runs check. *)

\* Types and bounds follow from the invariant.
LEMMA TypeFollows ==
  ASSUME IInv
  PROVE  TypeOK
<1> DEFINE t == now + PingPeriod
<1>1. /\ now \in 0..MaxTime /\ MachinesOK /\ NetOK /\ ClientsOK
      /\ Node \subseteq NodeId /\ length_bucket \in Nat
  BY KademliaAssumption, NodeDetailsAssumption DEF IInv
<1>2. ASSUME NEW n \in Node
      PROVE  LET m == machine[n] IN
             /\ m.id = n /\ m.alive \in BOOLEAN /\ m.generated \in Nat
             /\ \A b \in Buckets : IsContactList(m.table[b], length_bucket)
             /\ \A i \in 1..Len(m.store_find_queries) :
                  /\ m.store_find_queries[i].key \in NodeId
                  /\ IsContactList(m.store_find_queries[i].value, 2*length_bucket)
  <2> DEFINE m == machine[n]
             N == Others(World, n)
  <2>1. Sound(World, m) /\ m.id = n
    BY <1>1 DEF MachinesOK
  <2>2. N \subseteq NodeId /\ World.time = t
    BY <1>1 DEF Others, World
  <2>3. ASSUME NEW b \in Buckets PROVE IsContactList(m.table[b], length_bucket)
    <3> DEFINE list == m.table[b]
    <3>1. IsBucket(N, t, list)
      BY <2>1, <2>2 DEF Sound, TableOK, IsTable, Buckets
    <3> HIDE DEF list, N, t
    <3>2. \A i \in 1..Len(list) : list[i] \in ContactOf(N, t)
      BY <3>1 DEF IsBucket
    <3> QED BY <2>2, <3>1, <3>2 DEF IsBucket, ContactOf, IsContactList, list, t
  <2>4. ASSUME NEW i \in 1..Len(m.store_find_queries)
        PROVE  /\ m.store_find_queries[i].key \in NodeId
               /\ IsContactList(m.store_find_queries[i].value, 2*length_bucket)
    <3> DEFINE list == m.store_find_queries[i].value
               key == m.store_find_queries[i].key
               A == Unanswered(World, n)
               B == Answered(World, n, key)
    <3>1. key \in NodeId /\ IsSearch(World, n, key, list)
      BY <2>1 DEF Sound, SearchesOK, Held
    <3>2. \A c \in A \cup B : c.nodeID \in N /\ c.count \in 0..2 /\ c.timestamp \in 0..t
      BY <2>2 DEF Unanswered, Answered
    <3>3. PICK k \in 0..length_bucket : SplitAt(list, A, B, k, length_bucket)
      BY <3>1 DEF IsSearch, Split
    <3> HIDE DEF list, key, A, B, N, t
    <3>4. Len(list) \in Nat /\ Len(list) <= 2*length_bucket
      BY <1>1, <3>3 DEF SplitAt
    <3>5. \A j \in 1..Len(list) : list[j] \in A \cup B
      BY <3>3 DEF SplitAt
    <3>6. IsContactList(list, 2*length_bucket)
      BY <2>2, <3>2, <3>4, <3>5 DEF IsContactList, t
    <3> QED BY <3>1, <3>6 DEF list, key
  <2> QED BY <2>1, <2>3, <2>4 DEF Sound, IsMachine
<1>3. \A p \in net : p.src \in Node /\ p.dst \in Node /\ p.msg.y \in {"q", "r", "e"}
  BY <1>1 DEF NetOK, PacketOK
<1>4. \A c \in Client : asked[c] \in {Requests[c], None}
  BY <1>1 DEF ClientsOK
<1> QED BY <1>1, <1>2, <1>3, <1>4 DEF TypeOK

\* No bucket outgrows length_bucket and no lookup twice that, no stamp is ahead of
\* the clock by more than a ping: in every network, whatever happens to it.
THEOREM SpecTypeOK == Spec => []TypeOK
  BY SpecIInv, TypeFollows, PTL

\* A lookup is split: its contacts that have answered come last.
LEMMA SplitFollows ==
  ASSUME IInv
  PROVE  AnswersComeLast
<1> SUFFICES ASSUME NEW n \in Node, NEW q \in 1..Len(machine[n].store_find_queries)
             PROVE  LET list == machine[n].store_find_queries[q].value
                    IN  \A i, j \in 1..Len(list) :
                          i < j /\ list[i].count = 2 => list[j].count = 2
  BY DEF AnswersComeLast
<1> DEFINE list == machine[n].store_find_queries[q].value
           key == machine[n].store_find_queries[q].key
           A == Unanswered(World, n)
           B == Answered(World, n, key)
<1>1. IsSearch(World, n, key, list)
  BY DEF IInv, MachinesOK, Sound, SearchesOK, Held
<1>2. PICK k \in 0..length_bucket : SplitAt(list, A, B, k, length_bucket)
  BY <1>1 DEF IsSearch, Split
<1>3. (\A c \in A : c.count # 2) /\ (\A c \in B : c.count = 2)
  BY DEF Unanswered, Answered
<1> HIDE DEF list, key, A, B
<1>4. Len(list) \in Nat /\ k \in Nat /\ k <= Len(list)
  BY <1>2 DEF SplitAt
<1>5. ASSUME NEW i \in 1..Len(list), NEW j \in 1..Len(list), i < j, list[i].count = 2
      PROVE  list[j].count = 2
  <2>1. i \notin 1..k
    BY <1>2, <1>3, <1>5 DEF SplitAt
  <2>2. j \in k+1..Len(list)
    BY <1>4, <1>5, <2>1
  <2> QED BY <1>2, <1>3, <2>2 DEF SplitAt
<1> QED BY <1>5 DEF list

\* lookUpRound and its callers may look for the answers of a lookup from the first
\* contact that has answered.
THEOREM SpecAnswersComeLast == Spec => []AnswersComeLast
  BY SpecIInv, SplitFollows, PTL

\* Data goes out only to nodes that have answered a find query of the same
\* machine for the same key.
THEOREM SpecStoresGoToAnswerers == Spec => []StoresGoToAnswerers
<1>1. IInv => StoresGoToAnswerers
  BY DEF IInv, NetOK, PacketOK, QueryOK, RepliedIn, World, StoresGoToAnswerers, IsPut
<1> QED BY <1>1, SpecIInv, PTL

\* No machine is a contact of its own.
LEMMA NotItself ==
  ASSUME IInv
  PROVE  NeverItself
<1>1. MachinesOK /\ \A p \in net : p.src # p.dst
  BY DEF IInv, NetOK, PacketOK
<1>2. ASSUME NEW n \in Node
      PROVE  LET m == machine[n] IN
             /\ \A b \in Buckets : n \notin Ids(m.table[b])
             /\ \A q \in 1..Len(m.store_find_queries) : n \notin Ids(m.store_find_queries[q].value)
             /\ \A i \in 1..Len(m.waiting_nodes) : n \notin {m.waiting_nodes[i].key, m.waiting_nodes[i].value}
  <2> DEFINE m == machine[n]
             N == Others(World, n)
  <2>1. Sound(World, m) /\ m.id = n
    BY <1>1 DEF MachinesOK
  <2>2. n \notin N
    BY DEF Others
  <2>3. ASSUME NEW b \in Buckets PROVE n \notin Ids(m.table[b])
    <3> DEFINE list == m.table[b]
    <3>1. IsBucket(N, World.time, list)
      BY <2>1 DEF Sound, TableOK, IsTable, Buckets
    <3> HIDE DEF list, N
    <3>2. \A i \in 1..Len(list) : list[i] \in ContactOf(N, World.time)
      BY <3>1 DEF IsBucket
    <3> QED BY <2>2, <3>2 DEF Ids, ContactOf, list
  <2>4. ASSUME NEW q \in 1..Len(m.store_find_queries)
        PROVE  n \notin Ids(m.store_find_queries[q].value)
    <3> DEFINE list == m.store_find_queries[q].value
               key == m.store_find_queries[q].key
               A == Unanswered(World, n)
               B == Answered(World, n, key)
    <3>1. IsSearch(World, n, key, list)
      BY <2>1 DEF Sound, SearchesOK, Held
    <3>2. PICK k \in 0..length_bucket : SplitAt(list, A, B, k, length_bucket)
      BY <3>1 DEF IsSearch, Split
    <3>3. \A c \in A \cup B : c.nodeID \in N
      BY DEF Unanswered, Answered
    <3> HIDE DEF list, key, A, B, N
    <3>4. \A j \in 1..Len(list) : list[j] \in A \cup B
      BY <3>2 DEF SplitAt
    <3> QED BY <2>2, <3>3, <3>4 DEF Ids, list
  <2>5. ASSUME NEW i \in 1..Len(m.waiting_nodes)
        PROVE  n \notin {m.waiting_nodes[i].key, m.waiting_nodes[i].value}
    BY <2>1, <2>2 DEF Sound, WaitingOK, Held
  <2> QED BY <2>3, <2>4, <2>5
<1> QED BY <1>1, <1>2 DEF NeverItself

\* No machine comes to have itself for a contact, which has no place in its table,
\* nor sends itself anything: in every network, whoever names it to whom.
THEOREM SpecNeverItself == Spec => []NeverItself
  BY SpecIInv, NotItself, PTL

\* What is sent in a step that takes datagrams from the network and runs a handler.
LEMMA SentByRun ==
  ASSUME NEW n, NEW m, NEW rest \in SUBSET net, Run(n, m, rest), NEW p \in net' \ net
  PROVE  p \in m.outbox
  BY DEF Run

\* A put that goes out takes its token with it.
LEMMA StepStoresOnce ==
  ASSUME IInv, [Next]_vars, NEW p \in net' \ net, IsPut(p)
  PROVE  /\ p.msg.token \in Keys(machine[p.src].token_sent)
         /\ p.msg.token \notin Keys(machine'[p.src].token_sent)
<1>1. ASSUME NEW d \in net, NEW copied \in BOOLEAN, NEW garbage \in Garbage,
             Receive(d, copied, garbage)
      PROVE  /\ p.msg.token \in Keys(machine[p.src].token_sent)
             /\ p.msg.token \notin Keys(machine'[p.src].token_sent)
  <2> DEFINE n == d.dst
             m == Handled(d, garbage)
  <2>1. /\ n \in Node /\ Outcome(World', machine[n], m, d.msg, d.src)
        /\ \E rest \in SUBSET net : Run(n, m, rest)
    BY <1>1, Received
  <2>2. PICK rest \in SUBSET net : Run(n, m, rest)
    BY <2>1
  <2>3. MachinesOK /\ Idle(machine[n]) /\ machine[n].id = n
    BY <2>1 DEF IInv, MachinesOK
  <2> HIDE DEF m
  <2>4. p \in m.outbox /\ p \notin machine[n].outbox
    BY <2>2, <2>3, SentByRun DEF Idle
  <2>5. p.src = n
    BY <2>1, <2>3, <2>4 DEF Outcome, Sound, OutboxOK, Grows
  <2>6. p.msg.token \in Keys(machine[n].token_sent) /\ p.msg.token \notin Keys(m.token_sent)
    BY <2>1, <2>4 DEF Outcome, Sending, AnswersQuery, IsPut
  <2>7. machine'[n]["token_sent"] = m["token_sent"]
    <3>1. "token_sent" \in Fields \ {"outbox", "rpc_out"}
      BY DEF Fields
    <3> QED BY <2>1, <2>2, <2>3, <3>1, RunLeaves DEF Outcome
  <2> QED BY <2>5, <2>6, <2>7
<1>2. ASSUME NEW c \in Client, Ask(c) PROVE FALSE
  <2> DEFINE n == Requests[c].node
             m == Answering(c)
  <2>1. n \in Node /\ Run(n, m, net) /\ Busy(World', machine[n], m)
    BY <1>2, Asks DEF Served
  <2>2. Idle(machine[n])
    BY <2>1 DEF IInv, MachinesOK
  <2> HIDE DEF m
  <2>3. p \in m.outbox /\ p \notin machine[n].outbox
    BY <2>1, <2>2, SentByRun DEF Idle
  <2> QED BY <2>1, <2>3 DEF Busy, IsPut
<1>3. ASSUME NEW n \in Node, Start(n) PROVE FALSE
  <2> DEFINE m == initMachine(n, machine[n].generated)
  <2>1. Run(n, m, net) /\ \A d \in m.outbox : d.msg.q # "put"
    BY <1>3, Restarted
  <2> HIDE DEF m
  <2> QED BY <2>1, SentByRun DEF IsPut
<1>4. ASSUME NEW d \in net, Lose(d) PROVE FALSE
  BY <1>4 DEF Lose
<1>5. ASSUME NEW n \in Node, Kill(n) PROVE FALSE
  BY <1>5 DEF Kill
<1>6. CASE Tick
  BY <1>6 DEF Tick
<1>7. CASE UNCHANGED vars
  BY <1>7 DEF vars
<1> QED BY <1>1, <1>2, <1>3, <1>4, <1>5, <1>6, <1>7 DEF Next

\* The data of a put leaves its machine once: no later answer of the same lookup,
\* and no duplicate of one, sends it again.
THEOREM SpecStoreOnce == Spec => StoreOnce
<1>1. ASSUME IInv, [Next]_vars
      PROVE  [\A p \in net' \ net : IsPut(p) =>
                /\ p.msg.token \in Keys(machine[p.src].token_sent)
                /\ p.msg.token \notin Keys(machine[p.src].token_sent')]_vars
  BY <1>1, StepStoresOnce
<1> QED BY <1>1, SpecIInv, PTL DEF Spec, StoreOnce

\* The step in which a client that asked for a ping is told.
LEMMA StepPingsTruly ==
  ASSUME IInv, [Next]_vars, NEW c \in Client, asked[c].q = "ping", answers[c] # answers'[c]
  PROVE  \E p \in net, copied \in BOOLEAN, garbage \in Garbage :
           /\ Receive(p, copied, garbage)
           /\ p.dst = asked[c].node /\ p.src = asked[c].value
           /\ AnswersPing(p)
<1>1. ASSUME NEW p \in net, NEW copied \in BOOLEAN, NEW garbage \in Garbage,
             Receive(p, copied, garbage)
      PROVE  p.dst = asked[c].node /\ p.src = asked[c].value /\ AnswersPing(p)
  <2>1. Tidings(p) /\ ClientsOK
    BY <1>1, ReceiveTells DEF IInv
  <2>2. PICK d \in Client : /\ WaitsForPing(d, p.dst, p.src) /\ AnswersPing(p)
                            /\ answers' = [answers EXCEPT ![d] = <<OK>>]
    BY <2>1 DEF Tidings
  <2>3. d = c
    BY <2>1, <2>2 DEF ClientsOK
  <2> QED BY <2>2, <2>3 DEF WaitsForPing
<1>2. ASSUME NEW d \in Client, Ask(d) PROVE FALSE
  <2>1. Hears(d) /\ ClientsOK /\ asked[d] = None
    BY <1>2, AskHears, Asks DEF IInv
  <2>2. d # c
    BY <2>1 DEF None
  <2> QED BY <2>1, <2>2 DEF Hears, ClientsOK
<1>3. ASSUME NEW n \in Node, Start(n) PROVE FALSE
  <2>1. answers' = answers
    BY <1>3, StartTellsNobody
  <2> QED BY <2>1
<1>4. ASSUME NEW d \in net, Lose(d) PROVE FALSE
  BY <1>4 DEF Lose
<1>5. ASSUME NEW n \in Node, Kill(n) PROVE FALSE
  BY <1>5 DEF Kill
<1>6. CASE Tick
  BY <1>6 DEF Tick
<1>7. CASE UNCHANGED vars
  BY <1>7 DEF vars
<1> QED BY <1>1, <1>2, <1>3, <1>4, <1>5, <1>6, <1>7 DEF Next

\* A client that asked for a ping is told OK only in a step in which its machine
\* receives, from the node it asked about, the answer to a ping that it has kept
\* until then and now forgets.
THEOREM SpecPingAnswersTrue == Spec => PingAnswersTrue
<1>1. ASSUME IInv, [Next]_vars
      PROVE  [\A c \in Client :
                asked[c].q = "ping" /\ answers[c] # answers[c]' =>
                  \E p \in net, copied \in BOOLEAN, garbage \in Garbage :
                    /\ Receive(p, copied, garbage)
                    /\ p.dst = asked[c].node /\ p.src = asked[c].value
                    /\ AnswersPing(p)]_vars
  BY <1>1, StepPingsTruly
<1> QED BY <1>1, SpecIInv, PTL DEF Spec, PingAnswersTrue

-----------------------------------------------------------------------------
(* The age of queries. *)

\* Every machine keeps its queries in the order in which they were sent.
QueriesByAge == \A n \in Node : ByAge(now, machine[n].sent_queries)

\* At the start there is at most the ping to the peer.
LEMMA InitByAge ==
  ASSUME Init
  PROVE  QueriesByAge
<1>1. ASSUME NEW n \in Node PROVE ByAge(now, machine[n].sent_queries)
  <2> DEFINE new == NewMachine(n, 1)
  <2>1. now \in Nat /\ machine[n] = AtStart(n)
    BY <1>1 DEF Init, AtStart, Joining
  <2>2. new.sent_queries = <<>> /\ ByAge(now, <<>>)
    BY <2>1, NothingByAge DEF NewMachine
  <2>3. Works(World, {}, new, Joining(n))
    <3>1. IsWorld(World) /\ World.nodes = Node
      BY <2>1, WorldIsWorld DEF World
    <3> QED BY <3>1, StartedIsSound DEF Joining
  <2>4. Grows(Joining(n), AtStart(n))
    BY <2>1, InitialMachine
  <2> HIDE DEF new
  <2> QED BY <2>1, <2>2, <2>3, <2>4 DEF Works, Progress, Grows
<1> QED BY <1>1 DEF QueriesByAge

\* One machine becomes k and no time passes.
LEMMA StaysByAge ==
  ASSUME MachinesOK, QueriesByAge, now' = now, NEW n \in Node, NEW k, NEW m,
         Grows(machine[n], m), k.sent_queries = m.sent_queries,
         machine' = [machine EXCEPT ![n] = k]
  PROVE  QueriesByAge'
<1>1. ByAge(now, k.sent_queries)
  BY DEF QueriesByAge, Grows
<1>2. machine'[n] = k /\ \A j \in Node \ {n} : machine'[j] = machine[j]
  BY DEF MachinesOK
<1>3. \A j \in Node : ByAge(now, machine'[j].sent_queries)
  BY <1>1, <1>2 DEF QueriesByAge
<1> QED BY <1>3 DEF QueriesByAge

\* ... because it runs a handler.
LEMMA RunStaysByAge ==
  ASSUME MachinesOK, QueriesByAge, now' = now, NEW n \in Node, NEW m, NEW w, Sound(w, m),
         Grows(machine[n], m), NEW rest, Run(n, m, rest)
  PROVE  QueriesByAge'
<1> DEFINE k == Flushed(m)
<1>1. machine' = [machine EXCEPT ![n] = k]
  BY DEF Run
<1>2. k.sent_queries = m.sent_queries
  BY FlushedIsSound DEF SameBut, Fields
<1> HIDE DEF k
<1> QED BY <1>1, <1>2, StaysByAge

\* Every step leaves the queries in their order.
LEMMA NextByAge ==
  ASSUME IInv, QueriesByAge, [Next]_vars
  PROVE  QueriesByAge'
<1>0. MachinesOK
  BY DEF IInv
<1>1. ASSUME NEW p \in net, NEW copied \in BOOLEAN, NEW garbage \in Garbage,
             Receive(p, copied, garbage)
      PROVE  QueriesByAge'
  <2> DEFINE m == Handled(p, garbage)
  <2>1. /\ p.dst \in Node /\ now' = now /\ Sound(World', m) /\ Grows(machine[p.dst], m)
        /\ \E rest \in SUBSET net : Run(p.dst, m, rest)
    BY <1>1, Received DEF Outcome
  <2> HIDE DEF m
  <2> QED BY <1>0, <2>1, RunStaysByAge
<1>2. ASSUME NEW c \in Client, Ask(c) PROVE QueriesByAge'
  <2> DEFINE n == Requests[c].node
             m == Answering(c)
  <2>1. n \in Node /\ now' = now /\ Sound(World', m) /\ Grows(machine[n], m) /\ Run(n, m, net)
    BY <1>2, Asks DEF Served, Busy
  <2> HIDE DEF n, m
  <2> QED BY <1>0, <2>1, RunStaysByAge
<1>3. ASSUME NEW p \in net, Lose(p) PROVE QueriesByAge'
  BY <1>3 DEF Lose, QueriesByAge
<1>4. ASSUME NEW n \in Node, Kill(n) PROVE QueriesByAge'
  <2> DEFINE m == Die(machine[n])
  <2>1. machine' = [machine EXCEPT ![n] = m] /\ now' = now
    BY <1>4 DEF Kill
  <2>2. IsWorld(World) /\ Sound(World, machine[n])
    BY <1>0, WorldIsWorld, KademliaAssumption DEF IInv, MachinesOK
  <2>3. Grows(machine[n], m)
    BY <2>2, DeathIsSound DEF Risks, Progress
  <2> HIDE DEF m
  <2> QED BY <1>0, <2>1, <2>3, StaysByAge
<1>5. ASSUME NEW n \in Node, Start(n) PROVE QueriesByAge'
  <2> DEFINE m == initMachine(n, machine[n].generated)
  <2>1. Run(n, m, net) /\ Sound(World', m) /\ Grows(machine[n], m) /\ now' = now
    BY <1>5, Restarted DEF Start
  <2> HIDE DEF m
  <2> QED BY <1>0, <2>1, RunStaysByAge
<1>6. CASE Tick
  <2>1. now' = now + 1 /\ machine' = machine
    BY <1>6 DEF Tick
  <2>2. ASSUME NEW n \in Node PROVE ByAge(now + 1, machine[n].sent_queries)
    BY DEF QueriesByAge, ByAge
  <2> QED BY <2>1, <2>2 DEF QueriesByAge
<1>7. CASE UNCHANGED vars
  BY <1>7 DEF vars, QueriesByAge
<1> QED BY <1>1, <1>2, <1>3, <1>4, <1>5, <1>6, <1>7 DEF Next

\* The queries a machine keeps are in the order in which it sent them, whatever
\* answers came in between: clean, which stops at the first that is young enough,
\* leaves none that is too old.
THEOREM SpecQueriesByAge == Spec => []QueriesByAge
<1>1. Init => QueriesByAge
  BY InitByAge
<1>2. IInv /\ QueriesByAge /\ [Next]_vars => QueriesByAge'
  BY NextByAge
<1> QED BY <1>1, <1>2, SpecIInv, PTL DEF Spec

\* What a machine's lookups take for nodes that have answered.
LEMMA ResultIdsAre ==
  ASSUME NEW m
  PROVE  ResultIds(m) = Results(m)
  BY DEF ResultIds, Results, Held

\* What FreshAnswersOnly says of a step.
AnswersAreFresh ==
  \A n \in Node :
    ~(ResultIds(machine'[n]) \subseteq ResultIds(machine[n])) =>
      \E i \in 1..Len(machine[n].sent_queries) :
        LET s == machine[n].sent_queries[i]
        IN  /\ now - s.timestamp <= KADEM_TIMEOUT_REFRESH_QUERY
            /\ s.key \notin Keys(machine'[n].sent_queries)

\* One machine becomes k, and k has its results from an answer to a fresh query.
LEMMA FreshIfOne ==
  ASSUME MachinesOK, NEW n \in Node, NEW k, machine' = [machine EXCEPT ![n] = k],
         \/ Results(k) \subseteq Results(machine[n])
         \/ \E e \in Held(machine[n].sent_queries) :
              /\ now - e.timestamp <= KADEM_TIMEOUT_REFRESH_QUERY
              /\ e.key \notin Keys(k.sent_queries)
  PROVE  AnswersAreFresh
<1>1. machine'[n] = k /\ \A j \in Node \ {n} : machine'[j] = machine[j]
  BY DEF MachinesOK
<1>2. \A j \in Node \ {n} : ResultIds(machine'[j]) \subseteq ResultIds(machine[j])
  BY <1>1
<1>3. ASSUME ~(ResultIds(machine'[n]) \subseteq ResultIds(machine[n]))
      PROVE  \E i \in 1..Len(machine[n].sent_queries) :
               /\ now - machine[n].sent_queries[i].timestamp <= KADEM_TIMEOUT_REFRESH_QUERY
               /\ machine[n].sent_queries[i].key \notin Keys(machine'[n].sent_queries)
  <2>1. ~(Results(k) \subseteq Results(machine[n]))
    BY <1>1, <1>3, ResultIdsAre
  <2>2. PICK e \in Held(machine[n].sent_queries) :
             now - e.timestamp <= KADEM_TIMEOUT_REFRESH_QUERY /\ e.key \notin Keys(k.sent_queries)
    BY <2>1
  <2> QED BY <1>1, <2>2 DEF Held
<1> QED BY <1>2, <1>3 DEF AnswersAreFresh

\* A machine whose messages are sent has the results and the queries it had.
LEMMA FlushedResults ==
  ASSUME NEW w, NEW m, Sound(w, m)
  PROVE  Results(Flushed(m)) = Results(m) /\ Flushed(m).sent_queries = m.sent_queries
<1> DEFINE k == Flushed(m)
<1>1. k.store_find_queries = m.store_find_queries /\ k.sent_queries = m.sent_queries
  BY FlushedIsSound DEF SameBut, Fields
<1> HIDE DEF k
<1> QED BY <1>1 DEF Results, k

\* A step takes nodes for ones that have answered on the answer to a fresh query only.
LEMMA StepIsFresh ==
  ASSUME IInv, QueriesByAge, [Next]_vars
  PROVE  AnswersAreFresh
<1>0. MachinesOK
  BY DEF IInv
<1>1. ASSUME NEW p \in net, NEW copied \in BOOLEAN, NEW garbage \in Garbage,
             Receive(p, copied, garbage)
      PROVE  AnswersAreFresh
  <2> DEFINE n == p.dst
             m == Handled(p, garbage)
             k == Flushed(m)
  <2>1. /\ n \in Node /\ machine[n].alive /\ IsWorld(World') /\ Sound(World', machine[n])
        /\ IsMessage(World', machine[n], p.msg, p.src) /\ Sound(World', m)
        /\ \E rest \in SUBSET net : Run(n, m, rest)
    BY <1>1, Received DEF Outcome
  <2>2. machine[n].outbox = {} /\ ByAge(now, machine[n].sent_queries)
    BY <1>0, <2>1 DEF MachinesOK, Idle, QueriesByAge
  <2>4. \/ Results(m) \subseteq Results(machine[n])
        \/ \E e \in Held(machine[n].sent_queries) :
             /\ now - e.timestamp <= KADEM_TIMEOUT_REFRESH_QUERY
             /\ e.key \notin Keys(m.sent_queries)
    BY <2>1, <2>2, ResultsAreFresh DEF Handled
  <2>5. machine' = [machine EXCEPT ![n] = k]
    BY <2>1 DEF Run
  <2> HIDE DEF m
  <2>6. Results(k) = Results(m) /\ k.sent_queries = m.sent_queries
    BY <2>1, FlushedResults
  <2> HIDE DEF n, k
  <2> QED BY <1>0, <2>1, <2>4, <2>5, <2>6, FreshIfOne
<1>2. ASSUME NEW c \in Client, Ask(c) PROVE AnswersAreFresh
  <2> DEFINE req == Requests[c]
             n == req.node
             m == Answering(c)
             k == Flushed(m)
  <2>1. /\ n \in Node /\ machine[n].alive /\ IsWorld(World') /\ Sound(World', machine[n])
        /\ IsRequest(World', req) /\ Sound(World', m) /\ Run(n, m, net)
    BY <1>2, Asks DEF Served, Busy
  <2>2. machine[n].outbox = {}
    BY <1>0, <2>1 DEF MachinesOK, Idle
  <2>3. Results(m) \subseteq Results(machine[n])
    BY <2>1, <2>2, RequestsAnswerNothing DEF Answering
  <2>4. machine' = [machine EXCEPT ![n] = k]
    BY <2>1 DEF Run
  <2> HIDE DEF m
  <2>5. Results(k) = Results(m)
    BY <2>1, FlushedResults
  <2> HIDE DEF n, k
  <2> QED BY <1>0, <2>1, <2>3, <2>4, <2>5, FreshIfOne
<1>3. ASSUME NEW p \in net, Lose(p) PROVE AnswersAreFresh
  BY <1>3 DEF Lose, AnswersAreFresh
<1>4. ASSUME NEW n \in Node, NEW k, machine' = [machine EXCEPT ![n] = k], k.store_find_queries = <<>>
      PROVE  AnswersAreFresh
  <2>1. Results(k) = {}
    BY <1>4, NothingHeld DEF Results
  <2> QED BY <1>0, <1>4, <2>1, FreshIfOne
<1>5. ASSUME NEW n \in Node, Kill(n) PROVE AnswersAreFresh
  <2>1. machine' = [machine EXCEPT ![n] = Die(machine[n])] /\ Die(machine[n]).store_find_queries = <<>>
    BY <1>5 DEF Kill, Die, NewMachine
  <2> QED BY <1>4, <2>1
<1>6. ASSUME NEW n \in Node, Start(n) PROVE AnswersAreFresh
  <2> DEFINE m == initMachine(n, machine[n].generated)
  <2>1. m.store_find_queries = <<>>
    BY DEF initMachine, NewMachine, kademPing, SendQuery, kademSendMessage
  <2>2. machine' = [machine EXCEPT ![n] = Flushed(m)]
    BY <1>6 DEF Start, Run
  <2> HIDE DEF m
  <2>3. Flushed(m).store_find_queries = <<>>
    <3>1. Sound(World', m)
      BY <1>6, Restarted DEF m
    <3> QED BY <2>1, <3>1, FlushedIsSound DEF SameBut, Fields
  <2> QED BY <1>4, <2>2, <2>3
<1>7. CASE Tick
  BY <1>7 DEF Tick, AnswersAreFresh
<1>8. CASE UNCHANGED vars
  BY <1>8 DEF vars, AnswersAreFresh
<1> QED BY <1>1, <1>2, <1>3, <1>5, <1>6, <1>7, <1>8 DEF Next

\* A lookup takes a node for one that has answered only in a step that uses up a
\* query not older than its timeout, however late, often or out of order answers come.
THEOREM SpecFreshAnswersOnly == Spec => FreshAnswersOnly
<1>1. ASSUME IInv, QueriesByAge, [Next]_vars
      PROVE  [\A n \in Node :
                ~(ResultIds(machine[n]') \subseteq ResultIds(machine[n])) =>
                  \E i \in 1..Len(machine[n].sent_queries) :
                    LET s == machine[n].sent_queries[i]
                    IN  /\ now - s.timestamp <= KADEM_TIMEOUT_REFRESH_QUERY
                        /\ s.key \notin Keys(machine[n].sent_queries')]_vars
  BY <1>1, StepIsFresh DEF AnswersAreFresh
<1> QED BY <1>1, SpecIInv, SpecQueriesByAge, PTL DEF Spec, FreshAnswersOnly

-----------------------------------------------------------------------------
(* The network does what DhtService promises. *)

HeldNow == [n \in Node |-> Objects(machine[n])]
AliveNow == [n \in Node |-> machine[n].alive]

\* The objects of a machine are the entries of its store.
LEMMA ObjectsOfHeld ==
  ASSUME NEW m
  PROVE  Objects(m) = {[key |-> e.key, data |-> e.value] : e \in Held(m.stored_values)}
  BY DEF Objects, Held

\* What a machine holds is what DhtService says when it stores an object ...
LEMMA ObjectsOver ==
  ASSUME NEW m, NEW n, NEW key, NEW data, HoldsNew(m, n, key, data)
  PROVE  Objects(n) = Service!Over(Objects(m), [key |-> key, data |-> data])
<1> DEFINE o == [key |-> key, data |-> data]
           object(e) == [key |-> e.key, data |-> e.value]
           A == Held(m.stored_values)
           new == Entry(key, data, 0)
<1>1. Objects(m) = {object(e) : e \in A}
  BY ObjectsOfHeld
<1>2. Objects(n) = {object(e) : e \in {x \in A : x.key # key} \cup {new}}
  BY ObjectsOfHeld DEF HoldsNew
<1>3. object(new) = o
  BY DEF Entry
<1>4. o.key = key /\ \A e : object(e).key = e.key
  OBVIOUS
<1> HIDE DEF o, object, A, new
<1>5. Objects(n) = {object(e) : e \in {x \in A : x.key # key}} \cup {o}
  BY <1>2, <1>3
<1>6. {object(e) : e \in {x \in A : x.key # key}} = {p \in Objects(m) : p.key # key}
  BY <1>1, <1>4
<1> QED BY <1>4, <1>5, <1>6 DEF Service!Over, o

\* ... or nothing, when it holds nothing.
LEMMA NoObjects ==
  ASSUME NEW m, m.stored_values = <<>>
  PROVE  Objects(m) = {}
  BY ObjectsOfHeld, NothingHeld

\* What DhtService sees of a step in which machine n alone changes, to m.
LEMMA ViewChanges ==
  ASSUME MachinesOK, NEW n \in Node, NEW m, m.alive \in BOOLEAN,
         machine'[n].alive = m.alive, machine'[n].stored_values = m.stored_values,
         \A j \in Node \ {n} : machine'[j] = machine[j]
  PROVE  /\ HeldNow' = [HeldNow EXCEPT ![n] = Objects(m)]
         /\ AliveNow' = [AliveNow EXCEPT ![n] = m.alive]
<1>1. Objects(machine'[n]) = Objects(m)
  BY DEF Objects
<1>2. HeldNow' = [HeldNow EXCEPT ![n] = Objects(m)]
  BY <1>1 DEF HeldNow
<1>3. AliveNow' = [AliveNow EXCEPT ![n] = m.alive]
  BY DEF AliveNow
<1> QED BY <1>2, <1>3

\* It sees the process die, live, or store an object.
LEMMA ViewOfChange ==
  ASSUME MachinesOK, NEW n \in Node, NEW m, m.alive \in BOOLEAN,
         machine'[n].alive = m.alive, machine'[n].stored_values = m.stored_values,
         \A j \in Node \ {n} : machine'[j] = machine[j]
  PROVE  /\ Ended(m) => Service!Dies(n)
         /\ Lasts(machine[n], m) => Service!Lives
         /\ \A key, data : Acquires(machine[n], m, key, data) =>
              Service!Store(n, [key |-> key, data |-> data])
<1>1. /\ HeldNow' = [HeldNow EXCEPT ![n] = Objects(m)]
      /\ AliveNow' = [AliveNow EXCEPT ![n] = m.alive]
  BY ViewChanges
<1>2. ASSUME Ended(m) PROVE Service!Dies(n)
  <2>1. Objects(m) = {} /\ m.alive = FALSE
    BY <1>2, NoObjects DEF Ended
  <2> QED BY <1>1, <2>1 DEF Service!Dies, HeldNow, AliveNow
<1>3. HeldNow[n] = Objects(machine[n]) /\ AliveNow[n] = machine[n].alive
  BY DEF HeldNow, AliveNow
<1>4. ASSUME machine[n].alive = m.alive PROVE AliveNow' = AliveNow
  BY <1>1, <1>4 DEF AliveNow
<1>5. ASSUME Lasts(machine[n], m) PROVE Service!Lives
  <2>1. Objects(m) = HeldNow[n]
    BY <1>3, <1>5 DEF Lasts, Objects
  <2>2. HeldNow' = HeldNow
    BY <1>1, <2>1 DEF HeldNow
  <2>3. AliveNow' = AliveNow
    BY <1>4, <1>5 DEF Lasts
  <2> QED BY <2>2, <2>3 DEF Service!Lives, HeldNow, AliveNow
<1>6. ASSUME NEW key, NEW data, Acquires(machine[n], m, key, data)
      PROVE  Service!Store(n, [key |-> key, data |-> data])
  <2> DEFINE o == [key |-> key, data |-> data]
  <2>1. Objects(m) = Service!Over(Objects(machine[n]), o)
    BY <1>6, ObjectsOver DEF Acquires
  <2>2. HeldNow' = [HeldNow EXCEPT ![n] = Service!Over(HeldNow[n], o)]
    BY <1>1, <1>3, <2>1
  <2>3. AliveNow' = AliveNow
    BY <1>4, <1>6 DEF Acquires
  <2> HIDE DEF o
  <2>4. Service!Store(n, o)
    BY <2>2, <2>3 DEF Service!Store, HeldNow, AliveNow
  <2> QED BY <2>4 DEF o
<1> QED BY <1>2, <1>5, <1>6

\* The same of a machine that runs a handler.
LEMMA ViewOfRun ==
  ASSUME MachinesOK, NEW n \in Node, NEW m, NEW w, Sound(w, m), NEW rest, Run(n, m, rest)
  PROVE  /\ Ended(m) => Service!Dies(n)
         /\ Lasts(machine[n], m) => Service!Lives
         /\ \A key, data : Acquires(machine[n], m, key, data) =>
              Service!Store(n, [key |-> key, data |-> data])
<1>1. {"alive", "stored_values"} \subseteq Fields \ {"outbox", "rpc_out"}
  BY DEF Fields
<1>2. /\ machine'[n]["alive"] = m["alive"] /\ machine'[n]["stored_values"] = m["stored_values"]
      /\ \A j \in Node \ {n} : machine'[j] = machine[j]
  BY <1>1, RunLeaves
<1>3. m.alive \in BOOLEAN
  BY DEF Sound, IsMachine
<1>4. machine'[n].alive = m.alive /\ machine'[n].stored_values = m.stored_values
  BY <1>2
<1> QED BY <1>2, <1>3, <1>4, ViewOfChange

\* A machine that receives a datagram crashes, learns an object, tells a client of
\* a ping, or does nothing that DhtService speaks of.
LEMMA ReceiveRefines ==
  ASSUME IInv, NEW p \in net, NEW copied \in BOOLEAN, NEW garbage \in Garbage,
         Receive(p, copied, garbage)
  PROVE  Service!Next \/ UNCHANGED Service!vars
<1> DEFINE n == p.dst
           m == Handled(p, garbage)
<1>1. /\ n \in Node /\ asked' = asked /\ Outcome(World', machine[n], m, p.msg, p.src)
      /\ machine[n].alive = TRUE
  BY Received DEF IInv, MachinesOK, Sound, IsMachine
<1>2. PICK rest \in SUBSET net : Run(n, m, rest)
  BY Received
<1>3. MachinesOK /\ ClientsOK /\ Idle(machine[n])
  BY <1>1 DEF IInv, MachinesOK
<1>4. /\ Ended(m) => Service!Dies(n)
      /\ Lasts(machine[n], m) => Service!Lives
      /\ \A key, data : Acquires(machine[n], m, key, data) =>
           Service!Store(n, [key |-> key, data |-> data])
  BY <1>1, <1>2, <1>3, ViewOfRun DEF Outcome
<1>5. m.rpc_out = {} => answers' = answers
  BY <1>2, <1>3, NobodyIsTold
<1>6. AliveNow[n] = TRUE
  BY <1>1 DEF AliveNow
<1>7. Tidings(p)
  BY ReceiveTells
<1> HIDE DEF m
<1>8. CASE Ended(m) /\ m.rpc_out = {}
  <2>1. Service!Crash(n)
    BY <1>1, <1>4, <1>5, <1>6, <1>8 DEF Service!Crash, AliveNow
  <2> QED BY <1>1, <2>1 DEF Service!Next
<1>9. CASE Lasts(machine[n], m) /\ answers' = answers
  BY <1>1, <1>4, <1>9 DEF Service!vars, Service!Lives
<1>10. CASE Lasts(machine[n], m) /\ answers' # answers
  <2>1. PICK c \in Client : WaitsForPing(c, n, p.src) /\ answers' = [answers EXCEPT ![c] = <<OK>>]
    BY <1>7, <1>10 DEF Tidings
  <2>2. /\ asked[c].q = "ping" /\ "value" \in DOMAIN asked[c] /\ asked[c].node = n
        /\ answers[c] = <<>>
    BY <2>1 DEF WaitsForPing
  <2>3. asked[c] # None
    BY <2>2 DEF None
  <2>4. Service!Tell(c, Service!OK)
    <3>1. Append(<<>>, OK) = <<OK>> /\ Service!OK = OK
      BY DEF OK, Service!OK
    <3> QED BY <2>1, <2>2, <3>1 DEF Service!Tell
  <2>5. Service!Pong(c)
    BY <1>1, <1>4, <1>6, <1>10, <2>2, <2>3, <2>4 DEF Service!Pong, Service!Lives, AliveNow
  <2> QED BY <2>5 DEF Service!Next
<1>11. ASSUME NEW key, NEW data, ObjectIn(World', key, data), Acquires(machine[n], m, key, data),
              m.rpc_out = {}
       PROVE  Service!Next
  <2>1. [key |-> key, data |-> data] \in PutObjects
    BY <1>1, <1>11 DEF ObjectIn, World, PutObjects
  <2>2. PICK c \in Client : /\ asked[c] # None /\ asked[c].q = "put"
                            /\ [key |-> asked[c].value, data |-> asked[c].data]
                                 = [key |-> key, data |-> data]
    BY <2>1 DEF PutObjects
  <2>3. Service!Store(n, Service!ObjectOf(asked[c]))
    BY <1>4, <1>11, <2>2 DEF Service!ObjectOf
  <2>4. Service!Learn(n, c)
    BY <1>1, <1>5, <1>6, <1>11, <2>2, <2>3 DEF Service!Learn, AliveNow
  <2> QED BY <1>1, <2>4 DEF Service!Next
<1> QED
  BY <1>1, <1>3, <1>8, <1>9, <1>10, <1>11
  DEF Outcome, Effect, Idle, Lasts, Acquires, Stores

\* A request is served as DhtService says.
LEMMA AskRefines ==
  ASSUME IInv, NEW c \in Client, Ask(c)
  PROVE  Service!Next
<1> DEFINE req == Requests[c]
           n == req.node
           m == Answering(c)
           k == machine[n]
<1>1. /\ n \in Node /\ k.alive /\ asked[c] = None /\ asked' = [asked EXCEPT ![c] = req]
      /\ req # None /\ answers[c] = <<>>
      /\ Served(World', k, m, req, c) /\ Run(n, m, net)
  BY Asks
<1>2. MachinesOK /\ AliveNow[n] = k.alive
  BY <1>1 DEF IInv, AliveNow
<1>3. /\ Ended(m) => Service!Dies(n)
      /\ Lasts(k, m) => Service!Lives
      /\ \A key, data : Acquires(k, m, key, data) =>
           Service!Store(n, [key |-> key, data |-> data])
  BY <1>1, <1>2, ViewOfRun DEF Served, Busy
<1>4. /\ Untold(k, m) => answers' = answers
      /\ \A x : Told(k, m, c, x) => answers' = [answers EXCEPT ![c] = <<x>>]
  BY AskTells
<1>5. HeldNow[n] = {[key |-> e.key, data |-> e.value] : e \in Held(k.stored_values)}
  BY <1>1, ObjectsOfHeld DEF HeldNow
<1>6. Keys(k.stored_values) = {e.key : e \in Held(k.stored_values)}
  BY KeysHeld
<1>7. Serves(k, m, req, c)
  BY <1>1 DEF Served
<1> HIDE DEF k, m, req
<1>8. Untold(k, m) => Service!TellNobody
  BY <1>4 DEF Service!TellNobody
<1>9. ASSUME NEW x, Told(k, m, c, x) PROVE Service!Tell(c, x)
  <2>1. Append(<<>>, x) = <<x>>
    OBVIOUS
  <2> QED BY <1>1, <1>4, <1>9, <2>1 DEF Service!Tell
<1>10. Service!OK = OK /\ \A d : Service!Found(d) = Found(d)
  BY DEF OK, Found, Service!OK, Service!Found
<1>11. \/ req.q = "put" /\ Service!ServePut(c, req)
       \/ req.q = "get" /\ Service!ServeGet(c, req)
       \/ req.q = "ping" /\ Service!ServePing(req)
       \/ req.q = "find_node" /\ Service!ServeFindNode(c, req)
       \/ req.q = "print" /\ Service!ServePrint(c)
       \/ req.q = "kill_node" /\ Service!ServeKill(c, req)
  <2>1. CASE req.q = "put"
    BY <1>3, <1>7, <1>9, <1>10, <2>1 DEF Serves, Service!ServePut, Service!ObjectOf
  <2>2. CASE req.q = "get"
    <3>1. Service!Lives
      BY <1>3, <1>7, <2>2 DEF Serves
    <3>2. ASSUME NEW e \in Held(k.stored_values), e.key = req.value, Told(k, m, c, Found(e.value))
          PROVE  \E o \in HeldNow[n] : o.key = req.value /\ Service!Tell(c, Service!Found(o.data))
      <4> DEFINE o == [key |-> e.key, data |-> e.value]
      <4>1. o.key = req.value /\ o.data = e.value /\ o \in HeldNow[n]
        BY <1>5, <3>2
      <4> HIDE DEF o
      <4>2. Service!Tell(c, Service!Found(o.data))
        BY <1>9, <1>10, <3>2, <4>1
      <4> QED BY <4>1, <4>2
    <3>3. ASSUME req.value \notin Keys(k.stored_values)
          PROVE  \A o \in HeldNow[n] : o.key # req.value
      BY <1>5, <1>6, <3>3
    <3>4. \/ \E o \in HeldNow[n] : o.key = req.value /\ Service!Tell(c, Service!Found(o.data))
          \/ (\A o \in HeldNow[n] : o.key # req.value) /\ Service!TellNobody
      BY <1>7, <1>8, <2>2, <3>2, <3>3 DEF Serves
    <3> QED BY <2>2, <3>1, <3>4 DEF Service!ServeGet, HeldNow
  <2>3. CASE req.q = "ping"
    BY <1>3, <1>7, <1>8, <2>3 DEF Serves, Service!ServePing
  <2>4. CASE req.q = "find_node"
    BY <1>3, <1>7, <1>8, <1>9, <1>10, <2>4 DEF Serves, Service!ServeFindNode
  <2>5. CASE req.q = "print"
    BY <1>3, <1>7, <1>9, <1>10, <2>5 DEF Serves, Service!ServePrint
  <2>6. CASE req.q = "kill_node"
    BY <1>3, <1>7, <1>9, <1>10, <2>6 DEF Serves, Service!ServeKill
  <2> QED BY <1>7, <2>1, <2>2, <2>3, <2>4, <2>5, <2>6 DEF Serves
<1>12. Service!Ask(c, req)
  BY <1>1, <1>2, <1>11 DEF Service!Ask, AliveNow
<1> QED BY <1>1, <1>12 DEF Service!Next, req

\* Every step is one of DhtService, or none.
LEMMA NextRefines ==
  ASSUME IInv, [Next]_vars
  PROVE  Service!Next \/ UNCHANGED Service!vars
<1>1. ASSUME NEW p \in net, NEW copied \in BOOLEAN, NEW garbage \in Garbage,
             Receive(p, copied, garbage)
      PROVE  Service!Next \/ UNCHANGED Service!vars
  BY <1>1, ReceiveRefines
<1>2. ASSUME NEW c \in Client, Ask(c) PROVE Service!Next
  BY <1>2, AskRefines
<1>3. ASSUME UNCHANGED <<machine, asked, answers>> PROVE UNCHANGED Service!vars
  BY <1>3 DEF Service!vars
<1>4. ASSUME NEW n \in Node, Kill(n) PROVE Service!Next
  <2> DEFINE m == Die(machine[n])
  <2>1. /\ machine[n].alive /\ machine' = [machine EXCEPT ![n] = m] /\ UNCHANGED <<asked, answers>>
    BY <1>4 DEF Kill
  <2>2. MachinesOK
    BY DEF IInv
  <2>3. m.alive = FALSE /\ m.stored_values = <<>>
    BY DEF Die, NewMachine
  <2> HIDE DEF m
  <2>4. /\ machine'[n].alive = m.alive /\ machine'[n].stored_values = m.stored_values
        /\ \A j \in Node \ {n} : machine'[j] = machine[j]
    BY <2>1, <2>2 DEF MachinesOK
  <2>5. /\ HeldNow' = [HeldNow EXCEPT ![n] = {}]
        /\ AliveNow' = [AliveNow EXCEPT ![n] = FALSE]
    <3>1. Objects(m) = {}
      BY <2>3, NoObjects
    <3>2. m.alive \in BOOLEAN
      BY <2>3
    <3>3. /\ HeldNow' = [HeldNow EXCEPT ![n] = Objects(m)]
          /\ AliveNow' = [AliveNow EXCEPT ![n] = m.alive]
      BY <2>2, <2>4, <3>2, ViewChanges
    <3> QED BY <2>3, <3>1, <3>3
  <2>6. AliveNow[n]
    BY <2>1 DEF AliveNow
  <2>7. Service!Crash(n)
    BY <2>1, <2>5, <2>6 DEF Service!Crash, Service!Dies, HeldNow, AliveNow
  <2> QED BY <2>7 DEF Service!Next
<1>5. ASSUME NEW n \in Node, Start(n) PROVE Service!Next
  <2> DEFINE m == initMachine(n, machine[n].generated)
  <2>1. ~machine[n].alive /\ asked' = asked /\ answers' = answers
    BY <1>5, StartTellsNobody DEF Start
  <2>2. Run(n, m, net) /\ Sound(World', m) /\ m.alive = TRUE /\ m.stored_values = <<>>
    BY <1>5, Restarted
  <2>3. MachinesOK /\ machine[n].stored_values = <<>>
    BY <2>1 DEF IInv, MachinesOK, Sound, IsMachine
  <2> HIDE DEF m
  <2>4. /\ machine'[n]["alive"] = m["alive"] /\ machine'[n]["stored_values"] = m["stored_values"]
        /\ \A j \in Node \ {n} : machine'[j] = machine[j]
    <3>1. {"alive", "stored_values"} \subseteq Fields \ {"outbox", "rpc_out"}
      BY DEF Fields
    <3> QED BY <2>2, <2>3, <3>1, RunLeaves
  <2>5. /\ HeldNow' = [HeldNow EXCEPT ![n] = Objects(m)]
        /\ AliveNow' = [AliveNow EXCEPT ![n] = TRUE]
    <3>1. m.alive \in BOOLEAN
      BY <2>2
    <3>2. machine'[n].alive = m.alive /\ machine'[n].stored_values = m.stored_values
      BY <2>4
    <3>3. /\ HeldNow' = [HeldNow EXCEPT ![n] = Objects(m)]
          /\ AliveNow' = [AliveNow EXCEPT ![n] = m.alive]
      BY <2>3, <2>4, <3>1, <3>2, ViewChanges
    <3> QED BY <2>2, <3>3
  <2>6. HeldNow[n] = {} /\ Objects(m) = {} /\ ~AliveNow[n]
    BY <2>1, <2>2, <2>3, NoObjects DEF HeldNow, AliveNow
  <2>7. HeldNow' = HeldNow
    BY <2>5, <2>6 DEF HeldNow
  <2>8. Service!Restart(n)
    BY <2>1, <2>5, <2>6, <2>7 DEF Service!Restart, HeldNow, AliveNow
  <2> QED BY <2>8 DEF Service!Next
<1>6. ASSUME NEW p \in net, Lose(p) PROVE UNCHANGED <<machine, asked, answers>>
  BY <1>6 DEF Lose
<1>7. CASE Tick
  BY <1>3, <1>7 DEF Tick
<1>8. CASE UNCHANGED vars
  BY <1>3, <1>8 DEF vars
<1> QED BY <1>1, <1>2, <1>3, <1>4, <1>5, <1>6, <1>7, <1>8 DEF Next

\* What the machines keep and tell their clients is what DhtService promises, for
\* every network: the detailed specification implements the abstract one.
THEOREM SpecImplementsDhtService == Spec => ImplementsDhtService
<1>1. Init => Service!Init
  <2> SUFFICES ASSUME Init PROVE Service!Init
    OBVIOUS
  <2>1. now \in Nat /\ \A n \in Node : machine[n] = AtStart(n)
    BY DEF Init, AtStart, Joining
  <2>2. ASSUME NEW n \in Node PROVE machine[n].alive = TRUE /\ Objects(machine[n]) = {}
    <3>1. AtStart(n).alive = TRUE /\ AtStart(n).stored_values = <<>>
      BY <2>1, InitialMachine
    <3>2. machine[n] = AtStart(n)
      BY <2>1
    <3> QED BY <3>1, <3>2, NoObjects
  <2>3. HeldNow = [n \in Node |-> {}] /\ AliveNow = [n \in Node |-> TRUE]
    BY <2>2 DEF HeldNow, AliveNow
  <2> QED BY <2>3 DEF Init, Service!Init, HeldNow, AliveNow
<1>2. ASSUME IInv, [Next]_vars PROVE [Service!Next]_(Service!vars)
  BY <1>2, NextRefines
<1> QED BY <1>1, <1>2, SpecIInv, PTL DEF Spec, ImplementsDhtService, Service!Spec

\* DhtServiceProofs shows what follows from those promises.
Promised == INSTANCE DhtServiceProofs WITH
  Request <- {Requests[c] : c \in Client},
  held    <- [n \in Node |-> Objects(machine[n])],
  alive   <- [n \in Node |-> machine[n].alive]

\* What a machine holds under a key is what a client put under that key, and what
\* a client is told of a key is too: through deaths, restarts, lost and repeated
\* datagrams, and puts of several keys at once.
THEOREM SpecDataIntegrity == Spec => []DataIntegrity
<1>1. Promised!RequestsNameNodes
  BY KademliaAssumption DEF Promised!RequestsNameNodes, Client
<1>2. Promised!Spec => []Promised!Integrity
  BY <1>1, Promised!SpecIntegrity
<1>3. Service!Init => Promised!Init
  BY DEF Service!Init, Promised!Init
<1>4. [Service!Next]_(Service!vars) => [Promised!Next]_(Promised!vars)
  BY DEF Service!Next, Service!Ask, Service!Learn, Service!Pong, Service!Crash,
      Service!Restart, Service!Store, Service!Dies, Service!Lives,
      Service!Tell, Service!TellNobody, Service!ServePut, Service!ServeGet,
      Service!ServePing, Service!ServeFindNode, Service!ServePrint,
      Service!ServeKill, Service!ObjectOf, Service!Over, Service!OK,
      Service!Found, Service!vars, Promised!Next, Promised!Ask,
      Promised!Learn, Promised!Pong, Promised!Crash, Promised!Restart,
      Promised!Store, Promised!Dies, Promised!Lives, Promised!Tell,
      Promised!TellNobody, Promised!ServePut, Promised!ServeGet,
      Promised!ServePing, Promised!ServeFindNode, Promised!ServePrint,
      Promised!ServeKill, Promised!ObjectOf, Promised!Over, Promised!OK,
      Promised!Found, Promised!vars
<1>5. Promised!Integrity => DataIntegrity
  BY DEF DataIntegrity, Service!Integrity, Service!HeldWasPut,
      Service!AnsweredTruly, Service!WasPut, Service!TruthFor,
      Service!ObjectOf, Service!OK, Service!Found, Promised!Integrity,
      Promised!HeldWasPut, Promised!AnsweredTruly, Promised!WasPut,
      Promised!TruthFor, Promised!ObjectOf, Promised!OK, Promised!Found
<1> QED
  BY <1>2, <1>3, <1>4, <1>5, SpecImplementsDhtService, PTL
  DEF ImplementsDhtService, Service!Spec, Promised!Spec
=============================================================================
