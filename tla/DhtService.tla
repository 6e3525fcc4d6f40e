----------------------------- MODULE DhtService -----------------------------
(***************************************************************************)
(* What the DHT processes promise the applications on their hosts.  A      *)
(* process holds objects; an application asks one process once.  A put is  *)
(* acknowledged in the step that stores the object.  A get is answered if  *)
(* the process holds the key, and never later.  Objects that somebody put  *)
(* come to other processes when they may, and replace what was there.      *)
(* A request may end the process it is sent to.                            *)
(***************************************************************************)
EXTENDS Sequences

CONSTANTS Node, Client,
          Request,     \* [node, q, value, data]: what an application may ask
          None         \* what one has asked that has asked nothing

VARIABLES held,      \* [Node -> set of [key, data]]
          alive,     \* [Node -> BOOLEAN]
          asked,     \* [Client -> Request \cup {None}]
          answers    \* [Client -> sequence of answers]

vars == <<held, alive, asked, answers>>

OK == [resp |-> "OK"]
Found(data) == [resp |-> "OK", data |-> data]
Data == {req.data : req \in {r \in Request : r.q = "put"}}
Answer == {OK} \cup {Found(d) : d \in Data}

Init ==
  /\ held = [n \in Node |-> {}]
  /\ alive = [n \in Node |-> TRUE]
  /\ asked = [c \in Client |-> None]
  /\ answers = [c \in Client |-> <<>>]

ObjectOf(req) == [key |-> req.value, data |-> req.data]

\* A set of objects after o was stored: it has one object of a key.
Over(objects, o) == {p \in objects : p.key # o.key} \cup {o}

Store(n, o) == held' = [held EXCEPT ![n] = Over(@, o)] /\ UNCHANGED alive
Dies(n) == alive' = [alive EXCEPT ![n] = FALSE] /\ held' = [held EXCEPT ![n] = {}]
Lives == UNCHANGED <<held, alive>>
Tell(c, answer) == answers' = [answers EXCEPT ![c] = Append(@, answer)]
TellNobody == UNCHANGED answers

\* A put is acknowledged, and then may kill a process that knows nobody.
ServePut(c, req) ==
  /\ Tell(c, OK)
  /\ Store(req.node, ObjectOf(req)) \/ Dies(req.node)

ServeGet(c, req) ==
  /\ Lives
  /\ \/ \E o \in held[req.node] : o.key = req.value /\ Tell(c, Found(o.data))
     \/ (\A o \in held[req.node] : o.key # req.value) /\ TellNobody

\* A ping may be answered later, by Pong, or kill the process: it does if it
\* does not say whom to ping.
ServePing(req) ==
  /\ TellNobody
  /\ ("value" \in DOMAIN req /\ Lives) \/ Dies(req.node)

ServeFindNode(c, req) ==
  \/ Lives /\ (Tell(c, OK) \/ TellNobody)
  \/ Dies(req.node) /\ TellNobody

ServePrint(c) == Tell(c, OK) /\ Lives
ServeKill(c, req) == Tell(c, OK) /\ Dies(req.node)

Ask(c, req) ==
  /\ asked[c] = None
  /\ alive[req.node]
  /\ asked' = [asked EXCEPT ![c] = req]
  /\ \/ req.q = "put" /\ ServePut(c, req)
     \/ req.q = "get" /\ ServeGet(c, req)
     \/ req.q = "ping" /\ ServePing(req)
     \/ req.q = "find_node" /\ ServeFindNode(c, req)
     \/ req.q = "print" /\ ServePrint(c)
     \/ req.q = "kill_node" /\ ServeKill(c, req)

\* An object that somebody has put reaches process n.
Learn(n, c) ==
  /\ alive[n]
  /\ asked[c] # None
  /\ asked[c].q = "put"
  /\ Store(n, ObjectOf(asked[c]))
  /\ UNCHANGED <<asked, answers>>

\* The application that asked for a ping is told that the node lives, once.
Pong(c) ==
  /\ asked[c] # None
  /\ asked[c].q = "ping"
  /\ "value" \in DOMAIN asked[c]
  /\ alive[asked[c].node]
  /\ answers[c] = <<>>
  /\ Tell(c, OK)
  /\ UNCHANGED <<held, alive, asked>>

Crash(n) == alive[n] /\ Dies(n) /\ UNCHANGED <<asked, answers>>

Restart(n) ==
  /\ ~alive[n]
  /\ alive' = [alive EXCEPT ![n] = TRUE]
  /\ UNCHANGED <<held, asked, answers>>

Next ==
  \/ \E c \in Client, req \in Request \ {None} : Ask(c, req)
  \/ \E n \in Node, c \in Client : Learn(n, c)
  \/ \E c \in Client : Pong(c)
  \/ \E n \in Node : Crash(n) \/ Restart(n)

Spec == Init /\ [][Next]_vars

-----------------------------------------------------------------------------

Key == {req.value : req \in {r \in Request : r.q = "put"}}

TypeOK ==
  /\ held \in [Node -> SUBSET [key : Key, data : Data]]
  /\ alive \in [Node -> BOOLEAN]
  /\ asked \in [Client -> Request \cup {None}]
  /\ answers \in [Client -> Seq(Answer)]

WasPut(o) == \E c \in Client :
  asked[c] # None /\ asked[c].q = "put" /\ ObjectOf(asked[c]) = o

\* A process holds one object of a key, and only objects somebody has put.
HeldWasPut ==
  \A n \in Node :
    /\ \A o \in held[n] : WasPut(o)
    /\ \A o1, o2 \in held[n] : o1.key = o2.key => o1 = o2

\* Only who has asked is answered, once; the answer to a get is data that
\* somebody put under the key asked for, though it was held by many since, and
\* only a get is told data.
TruthFor(req) ==
  IF req.q = "get"
  THEN {<<Found(asked[c].data)>> :
          c \in {d \in Client : asked[d] # None /\ asked[d].q = "put" /\ asked[d].value = req.value}}
  ELSE {<<OK>>}

AnsweredTruly ==
  \A c \in Client : answers[c] # <<>> => asked[c] # None /\ answers[c] \in TruthFor(asked[c])

Integrity == HeldWasPut /\ AnsweredTruly
=============================================================================
