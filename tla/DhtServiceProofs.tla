-------------------------- MODULE DhtServiceProofs --------------------------
(***************************************************************************)
(* What clients may rely on is kept by every step of DhtService, for every *)
(* set of processes, of clients and of requests.                           *)
(***************************************************************************)
EXTENDS DhtService, TLAPS

\* Every request names the process it is sent to.
RequestsNameNodes == \A r \in Request : r.node \in Node

\* A process whose objects are replaced by Over(objects, o) holds no other new
\* object, and still one of a key.
LEMMA OverKeepsKeys ==
  ASSUME NEW objects, NEW o,
         \A o1, o2 \in objects : o1.key = o2.key => o1 = o2
  PROVE  /\ \A p \in Over(objects, o) : p \in objects \/ p = o
         /\ \A o1, o2 \in Over(objects, o) : o1.key = o2.key => o1 = o2
  BY DEF Over

\* What was put stays put: an application that has asked does not ask again.
LEMMA PutsStay ==
  ASSUME NEW c \in Client, NEW req \in Request \ {None}, TypeOK, Ask(c, req),
         NEW o, WasPut(o)
  PROVE  WasPut(o)'
  BY DEF Ask, WasPut, TypeOK, ObjectOf

\* The first answer to a client.
LEMMA FirstAnswer ==
  ASSUME NEW c \in Client, NEW answer, TypeOK, answers[c] = <<>>, Tell(c, answer)
  PROVE  /\ answers'[c] = <<answer>>
         /\ \A d \in Client : d # c => answers'[d] = answers[d]
         /\ DOMAIN answers' = Client
  <1>1. answers' = [answers EXCEPT ![c] = Append(<<>>, answer)]
    BY DEF Tell
  <1>2. Append(<<>>, answer) = <<answer>>
    OBVIOUS
  <1> QED BY <1>1, <1>2 DEF TypeOK

\* What is held stays an object somebody has put, when one more is stored.
LEMMA StoreKeepsHeld ==
  ASSUME NEW n \in Node, NEW o, TypeOK, HeldWasPut, Store(n, o),
         o \in [key : Key, data : Data], WasPut(o)',
         \A p : WasPut(p) => WasPut(p)'
  PROVE  /\ HeldWasPut'
         /\ held' \in [Node -> SUBSET [key : Key, data : Data]]
  <1>1. held' = [held EXCEPT ![n] = Over(held[n], o)]
    BY DEF Store
  <1>2. \A o1, o2 \in held[n] : o1.key = o2.key => o1 = o2
    BY DEF HeldWasPut
  <1>3. /\ \A p \in Over(held[n], o) : p \in held[n] \/ p = o
        /\ \A o1, o2 \in Over(held[n], o) : o1.key = o2.key => o1 = o2
    BY <1>2, OverKeepsKeys
  <1> QED BY <1>1, <1>3 DEF TypeOK, HeldWasPut

LEMMA DiesKeepsHeld ==
  ASSUME NEW n, TypeOK, HeldWasPut, Dies(n), \A p : WasPut(p) => WasPut(p)'
  PROVE  /\ HeldWasPut'
         /\ held' \in [Node -> SUBSET [key : Key, data : Data]]
         /\ alive' \in [Node -> BOOLEAN]
  BY DEF Dies, TypeOK, HeldWasPut

\* The object of a put is one of those a process may hold.
LEMMA PutIsObject ==
  ASSUME NEW req \in Request, req.q = "put"
  PROVE  ObjectOf(req) \in [key : Key, data : Data]
  BY DEF ObjectOf, Key, Data

\* A put leaves its object, or a process without any; no other request changes
\* what is held but by ending the process.
LEMMA AskKeepsHeld ==
  ASSUME NEW c \in Client, NEW req \in Request \ {None},
         RequestsNameNodes, TypeOK, HeldWasPut, Ask(c, req)
  PROVE  /\ HeldWasPut'
         /\ held' \in [Node -> SUBSET [key : Key, data : Data]]
         /\ alive' \in [Node -> BOOLEAN]
  <1>1. \A p : WasPut(p) => WasPut(p)'
    BY PutsStay
  <1>2. req.node \in Node
    BY DEF RequestsNameNodes
  <1>3. CASE Dies(req.node)
    BY <1>1, <1>3, DiesKeepsHeld
  <1>4. CASE Lives
    BY <1>1, <1>4 DEF Lives, TypeOK, HeldWasPut
  <1>5. CASE req.q = "put" /\ Store(req.node, ObjectOf(req))
    <2>1. WasPut(ObjectOf(req))'
      BY <1>5 DEF Ask, WasPut, TypeOK, ObjectOf
    <2>2. ObjectOf(req) \in [key : Key, data : Data]
      BY <1>5, PutIsObject
    <2>3. alive' \in [Node -> BOOLEAN]
      BY <1>5 DEF Store, TypeOK
    <2> QED BY <1>1, <1>2, <1>5, <2>1, <2>2, <2>3, StoreKeepsHeld
  <1> QED
    BY <1>3, <1>4, <1>5
    DEF Ask, ServePut, ServeGet, ServePing, ServeFindNode, ServePrint, ServeKill

\* What a client is told in the step in which it asks.
LEMMA AskAnswers ==
  ASSUME NEW c \in Client, NEW req \in Request \ {None}, TypeOK, Ask(c, req)
  PROVE  \/ TellNobody
         \/ Tell(c, OK) /\ req.q # "get"
         \/ /\ req.q = "get"
            /\ \E o \in held[req.node] : o.key = req.value /\ Tell(c, Found(o.data))
  BY DEF Ask, ServePut, ServeGet, ServePing, ServeFindNode, ServePrint, ServeKill

LEMMA AskKeepsAnswers ==
  ASSUME NEW c \in Client, NEW req \in Request \ {None},
         RequestsNameNodes, TypeOK, HeldWasPut, AnsweredTruly, Ask(c, req)
  PROVE  AnsweredTruly' /\ answers' \in [Client -> Seq(Answer)]
  <1>1. /\ asked[c] = None
        /\ asked' = [asked EXCEPT ![c] = req]
        /\ answers[c] = <<>>
        /\ req.node \in Node
    BY DEF Ask, AnsweredTruly, RequestsNameNodes
  <1>2. /\ asked'[c] = req
        /\ \A d \in Client : asked[d] # None => asked'[d] = asked[d]
    BY <1>1 DEF TypeOK
  <1>3. ASSUME NEW d \in Client, answers[d] # <<>>
        PROVE  asked'[d] # None /\ answers[d] \in TruthFor(asked[d])'
    <2>1. asked[d] # None /\ asked'[d] = asked[d] /\ answers[d] \in TruthFor(asked[d])
      BY <1>2, <1>3 DEF AnsweredTruly
    <2> QED BY <1>2, <2>1 DEF TruthFor
  <1>4. CASE TellNobody
    BY <1>3, <1>4 DEF TellNobody, TypeOK, AnsweredTruly
  <1>5. ASSUME NEW answer \in Answer, Tell(c, answer), <<answer>> \in TruthFor(req)'
        PROVE  AnsweredTruly' /\ answers' \in [Client -> Seq(Answer)]
    <2>1. /\ answers'[c] = <<answer>>
          /\ \A d \in Client : d # c => answers'[d] = answers[d]
      BY <1>1, <1>5, FirstAnswer
    <2>2. answers' \in [Client -> Seq(Answer)]
      BY <1>5 DEF Tell, TypeOK
    <2> QED BY <1>2, <1>3, <1>5, <2>1, <2>2 DEF AnsweredTruly
  <1>6. CASE Tell(c, OK) /\ req.q # "get"
    BY <1>5, <1>6 DEF Answer, TruthFor
  <1>7. CASE /\ req.q = "get"
             /\ \E o \in held[req.node] : o.key = req.value /\ Tell(c, Found(o.data))
    <2>1. PICK o \in held[req.node] : o.key = req.value /\ Tell(c, Found(o.data))
      BY <1>7
    <2>2. PICK d \in Client : asked[d] # None /\ asked[d].q = "put" /\ ObjectOf(asked[d]) = o
      BY <1>1 DEF HeldWasPut, WasPut
    <2>3. asked'[d] = asked[d] /\ asked[d].value = req.value /\ asked[d].data = o.data
      BY <1>2, <2>1, <2>2 DEF ObjectOf
    <2>4. Found(o.data) \in Answer
      BY <2>2, <2>3 DEF TypeOK, Answer, Data
    <2>5. <<Found(o.data)>> \in TruthFor(req)'
      BY <1>7, <2>2, <2>3 DEF TruthFor
    <2> QED BY <1>5, <2>1, <2>4, <2>5
  <1> QED BY <1>4, <1>6, <1>7, AskAnswers

IInv == TypeOK /\ Integrity

\* Objects that come to a process somebody put; a restart brings none.
LEMMA LearnKeepsIInv ==
  ASSUME NEW n \in Node, NEW c \in Client, IInv, Learn(n, c)
  PROVE  IInv'
  <1> USE DEF IInv, Integrity
  <1>1. UNCHANGED <<asked, answers>> /\ asked[c] # None /\ asked[c].q = "put"
    BY DEF Learn
  <1>2. asked[c] \in Request /\ ObjectOf(asked[c]) \in [key : Key, data : Data]
    BY <1>1, PutIsObject DEF TypeOK
  <1>3. (\A p : WasPut(p) => WasPut(p)') /\ WasPut(ObjectOf(asked[c]))'
    BY <1>1 DEF WasPut, ObjectOf
  <1>4. HeldWasPut' /\ held' \in [Node -> SUBSET [key : Key, data : Data]]
    BY <1>2, <1>3, StoreKeepsHeld DEF Learn
  <1>5. alive' \in [Node -> BOOLEAN]
    BY DEF Learn, Store, TypeOK
  <1> QED BY <1>1, <1>4, <1>5 DEF TypeOK, AnsweredTruly, TruthFor

LEMMA PongKeepsIInv ==
  ASSUME NEW c \in Client, IInv, Pong(c)
  PROVE  IInv'
  <1> USE DEF IInv, Integrity
  <1>1. /\ UNCHANGED <<held, alive, asked>>
        /\ asked[c] # None /\ asked[c].q = "ping" /\ answers[c] = <<>> /\ Tell(c, OK)
    BY DEF Pong
  <1>2. /\ answers'[c] = <<OK>>
        /\ \A d \in Client : d # c => answers'[d] = answers[d]
    BY <1>1, FirstAnswer
  <1>3. answers' \in [Client -> Seq(Answer)]
    BY <1>1 DEF Tell, TypeOK, Answer
  <1>4. HeldWasPut'
    BY <1>1 DEF HeldWasPut, WasPut
  <1>5. <<OK>> \in TruthFor(asked[c])
    BY <1>1 DEF TruthFor
  <1>6. \A d \in Client : answers'[d] # <<>> => asked[d] # None /\ answers'[d] \in TruthFor(asked[d])
    BY <1>1, <1>2, <1>5 DEF AnsweredTruly
  <1>7. AnsweredTruly'
    BY <1>1, <1>6 DEF AnsweredTruly, TruthFor
  <1> QED BY <1>1, <1>3, <1>4, <1>7 DEF TypeOK

LEMMA CrashKeepsIInv ==
  ASSUME NEW n \in Node, IInv, Crash(n)
  PROVE  IInv'
  <1> USE DEF IInv, Integrity
  <1>1. Dies(n) /\ UNCHANGED <<asked, answers>>
    BY DEF Crash
  <1>2. \A p : WasPut(p) => WasPut(p)'
    BY <1>1 DEF WasPut
  <1>3. /\ HeldWasPut'
        /\ held' \in [Node -> SUBSET [key : Key, data : Data]]
        /\ alive' \in [Node -> BOOLEAN]
    BY <1>1, <1>2, DiesKeepsHeld
  <1> QED BY <1>1, <1>3 DEF TypeOK, AnsweredTruly, TruthFor

LEMMA AskKeepsIInv ==
  ASSUME NEW c \in Client, NEW req \in Request \ {None}, RequestsNameNodes, IInv, Ask(c, req)
  PROVE  IInv'
  <1>1. asked' \in [Client -> Request \cup {None}]
    BY DEF Ask, IInv, TypeOK
  <1> QED BY <1>1, AskKeepsHeld, AskKeepsAnswers DEF IInv, Integrity, TypeOK

\* Integrity and the types are one inductive invariant: what is held was put, so
\* what a get is told, which is held, was put too.
LEMMA NextKeepsIInv ==
  ASSUME RequestsNameNodes, IInv, [Next]_vars
  PROVE  IInv'
  <1>1. CASE UNCHANGED vars
    BY <1>1 DEF vars, IInv, TypeOK, Integrity, HeldWasPut, AnsweredTruly, TruthFor, WasPut
  <1>2. ASSUME NEW c \in Client, NEW req \in Request \ {None}, Ask(c, req)
        PROVE  IInv'
    BY <1>2, AskKeepsIInv
  <1>3. ASSUME NEW n \in Node, NEW c \in Client, Learn(n, c)
        PROVE  IInv'
    BY <1>3, LearnKeepsIInv
  <1>4. ASSUME NEW c \in Client, Pong(c)
        PROVE  IInv'
    BY <1>4, PongKeepsIInv
  <1>5. ASSUME NEW n \in Node, Crash(n)
        PROVE  IInv'
    BY <1>5, CrashKeepsIInv
  <1>6. ASSUME NEW n \in Node, Restart(n)
        PROVE  IInv'
    BY <1>6 DEF Restart, IInv, Integrity, TypeOK, HeldWasPut, WasPut, AnsweredTruly, TruthFor
  <1> QED BY <1>1, <1>2, <1>3, <1>4, <1>5, <1>6 DEF Next

\* What a process holds was put under its key, what a get is told was put
\* under the key it asked for, and nobody is answered twice: through deaths,
\* restarts and objects that travel.
THEOREM SpecIntegrity ==
  ASSUME RequestsNameNodes
  PROVE  Spec => []Integrity
  <1>1. Init => IInv
    BY DEF Init, IInv, Integrity, TypeOK, HeldWasPut, AnsweredTruly
  <1>2. IInv /\ [Next]_vars => IInv'
    BY NextKeepsIInv
  <1>3. IInv => Integrity
    BY DEF IInv
  <1> QED BY <1>1, <1>2, <1>3, PTL DEF Spec
=============================================================================
