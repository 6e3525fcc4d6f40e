----------------------------- MODULE Messaging -----------------------------
(***************************************************************************)
(* The messaging applications, main of messaging.c, each talking to one    *)
(* DHT process over its RPC socket and to the other applications over its  *)
(* P2P socket.  The DHT processes are those of DhtService.  An application *)
(* puts its address under its login, waits for the answer, then serves its *)
(* P2P socket and its user; a line "to:jack ..." asks the DHT for the      *)
(* address of jack and sends to the address in the datagram it reads next. *)
(* A login is also the MD5 key it is stored under and stands for its       *)
(* P2P address: no two applications share either.                          *)
(***************************************************************************)
EXTENDS Naturals, Sequences

CONSTANTS Login,      \* the applications
          Node,       \* the DHT processes
          Dht,        \* [Login -> Node]: the process of each
          Nobody,     \* a name, and an address, that no application has
          None,       \* see DhtService
          Line,       \* [Login -> set of [cmd, to, long]]: what each user types
          Wait,       \* the ten seconds that tv and tv2 start with
          MaxLines,   \* [Login -> Nat]: lines typed at most
          MaxDeaths   \* crashes and restarts of DHT processes

Name == Login \cup {Nobody}
Query == {"print", "ping", "kill_node", "find_node"}   \* the two prints are one

ASSUME MessagingAssumption ==
  /\ Nobody \notin Login
  /\ Dht \in [Login -> Node]
  /\ Line \in [Login -> SUBSET [cmd : Query \cup {"to", "short"}, to : Name, long : BOOLEAN]]
  /\ MaxLines \in [Login -> Nat]
  /\ Wait \in Nat /\ MaxDeaths \in Nat

VARIABLES app,      \* [Login -> the locals of main]
          rpc,      \* [Login -> sequence of [i, answer]: the RPC socket]
          p2p,      \* [Login -> senders of the messages in the P2P socket]
          inbox,    \* [Node -> requests waiting in sock_local_rpc]
          sent,     \* history: [from, to, dst, clean] of the messages sent
          deaths,   \* crashes and restarts so far
          held, alive, asked, answers   \* of DhtService

dht  == <<held, alive, asked, answers>>
vars == <<app, rpc, p2p, inbox, sent, deaths, held, alive, asked, answers>>

\* The i-th request of an application is a client of its own to the service.
Slot == UNION {{c} \X (1..MaxLines[c] + 1) : c \in Login}

put(c)        == [node |-> Dht[c], q |-> "put", value |-> c, data |-> c]
get(c, name)  == [node |-> Dht[c], q |-> "get", value |-> name]
command(c, q) == [node |-> Dht[c], q |-> q]   \* ping_node says "id", not "value"

Request == {put(c) : c \in Login} \cup {get(c, name) : c \in Login, name \in Name}
           \cup {command(c, q) : c \in Login, q \in Query}

ASSUME NoneIsNoRequest == None \notin Request

Service == INSTANCE DhtService WITH Client <- Slot

\* dirty: buf_send2 has old characters where a command would end; last: the
\* address in the payload read last.  History: nb, the requests made; open, those
\* whose answer was not read; clean, none was when the address was asked for.
Init ==
  /\ app \in [Login -> [pc : {"start"}, tv : {Wait}, tv2 : {Wait}, dirty : BOOLEAN,
                        to : {Nobody}, last : {Nobody}, clean : {FALSE},
                        lines : {0}, nb : {0}, open : {{}}]]
  /\ rpc = [c \in Login |-> <<>>]
  /\ p2p = [c \in Login |-> <<>>]
  /\ inbox = [n \in Node |-> <<>>]
  /\ sent = {}
  /\ deaths = 0
  /\ Service!Init

Runs(c) == app[c].pc \notin {"start", "exited"}

-----------------------------------------------------------------------------
(* The application. *)

\* kademSendMessage: a datagram to a process that is not running is lost.
kademSendMessage(c, req) ==
  inbox' = [inbox EXCEPT ![Dht[c]] =
              IF alive[Dht[c]] THEN Append(@, [slot |-> <<c, app[c].nb + 1>>, req |-> req])
              ELSE @]

\* The application is started and puts its address.
Start(c) ==
  /\ app[c].pc = "start"
  /\ kademSendMessage(c, put(c))
  /\ app' = [app EXCEPT ![c].pc = "entering", ![c].nb = 1, ![c].open = {1}]
  /\ UNCHANGED <<rpc, p2p, sent, deaths, dht>>

\* Mutant: the datagram is left in the socket.
ReadRpc_peeking(c) == rpc[c] # <<>> /\ UNCHANGED rpc

\* The first datagram of the RPC socket is read.
ReadRpc(c) == rpc[c] # <<>> /\ rpc' = [rpc EXCEPT ![c] = Tail(@)]

\* Whatever arrives ends the wait for the answer of the put.  What is left of
\* tv is not used: the main loop does nothing when its time is over.
Enter(c) ==
  /\ app[c].pc = "entering"
  /\ ReadRpc(c)
  /\ app' = [app EXCEPT ![c].pc = "loop", ![c].tv = 0,
                        ![c].open = @ \ {Head(rpc[c]).i}]
  /\ UNCHANGED <<p2p, inbox, sent, deaths, dht>>

\* Time passes in the select of that wait; when none is left, readfds is empty
\* and stays so: the loop runs for ever, whatever arrives.
WaitToEnter(c) ==
  /\ app[c].pc = "entering"
  /\ rpc[c] = <<>>
  /\ app' = IF app[c].tv > 0 THEN [app EXCEPT ![c].tv = @ - 1]
            ELSE [app EXCEPT ![c].pc = "spinning"]
  /\ UNCHANGED <<rpc, p2p, inbox, sent, deaths, dht>>

\* A message of another application is read and printed, before stdin.
Show(c) ==
  /\ app[c].pc = "loop"
  /\ p2p[c] # <<>>
  /\ p2p' = [p2p EXCEPT ![c] = Tail(@)]
  /\ UNCHANGED <<app, rpc, inbox, sent, deaths, dht>>

\* A line of stdin is read: nothing is in the P2P socket.
Reads(c) ==
  /\ app[c].pc = "loop"
  /\ p2p[c] = <<>>
  /\ app[c].lines < MaxLines[c]

\* The application ends: exit(), or a null pointer.
Exits(c) ==
  /\ app' = [app EXCEPT ![c].pc = "exited"]
  /\ rpc' = [rpc EXCEPT ![c] = <<>>]
  /\ p2p' = [p2p EXCEPT ![c] = <<>>]

\* A line without a name: strlen(to_ID)-3 is less than 1.
ShortLine(c, line) ==
  /\ Reads(c)
  /\ line.cmd = "short"
  /\ Exits(c)
  /\ UNCHANGED <<inbox, sent, deaths, dht>>

\* strncpy does not end the command it copies: only one that strtok cuts at
\* its argument is always recognised.
Recognised(c, line) ==
  \/ line.cmd \in {"ping", "find_node"}
  \/ line.cmd \in {"print", "kill_node"} /\ ~app[c].dirty

\* A request is sent whose answer nobody waits for.
Command(c, line) ==
  /\ Reads(c)
  /\ Recognised(c, line)
  /\ kademSendMessage(c, command(c, line.cmd))
  /\ app' = [app EXCEPT ![c].lines = @ + 1, ![c].nb = @ + 1,
                        ![c].open = @ \cup {app[c].nb + 1}, ![c].dirty = FALSE]
  /\ UNCHANGED <<rpc, p2p, sent, deaths, dht>>

\* The identifier of a find_node does not fit buf_send2.
Overflow(c, line) ==
  /\ Reads(c)
  /\ line.cmd = "find_node"
  /\ Exits(c)
  /\ UNCHANGED <<inbox, sent, deaths, dht>>

\* The address of name is asked for, to send it the rest of the line.
AskAddress(c, name, long) ==
  /\ kademSendMessage(c, get(c, name))
  /\ app' = [app EXCEPT ![c].pc = "waiting", ![c].to = name, ![c].lines = @ + 1,
                        ![c].nb = @ + 1, ![c].open = @ \cup {app[c].nb + 1},
                        ![c].clean = (app[c].open = {}), ![c].dirty = @ \/ long]
  /\ UNCHANGED <<rpc, p2p, sent, deaths, dht>>

Message(c, line) ==
  /\ Reads(c)
  /\ line.cmd = "to"
  /\ AskAddress(c, line.to, line.long)

\* A command that is not recognised is a message to nobody.
Misread(c, line) ==
  /\ Reads(c)
  /\ line.cmd \notin {"to", "short"}
  /\ ~Recognised(c, line)
  /\ AskAddress(c, Nobody, FALSE)

\* Mutant: the timeval is not given to select.
GiveUp_never(c) == FALSE

\* No answer came in what is left of ten seconds: they are not given again.
GiveUp(c) ==
  /\ app[c].tv2 = 0
  /\ app' = [app EXCEPT ![c].pc = "loop", ![c].to = Nobody, ![c].clean = FALSE]

\* Time passes in the select for the answer of the get.
WaitForAnswer(c) ==
  /\ app[c].pc = "waiting"
  /\ rpc[c] = <<>>
  /\ \/ app[c].tv2 > 0 /\ app' = [app EXCEPT ![c].tv2 = @ - 1]
     \/ GiveUp(c)
  /\ UNCHANGED <<rpc, p2p, inbox, sent, deaths, dht>>

\* Mutant: the header is taken for the payload.
Payload_header(c, answer) == IF "data" \in DOMAIN answer THEN {answer.resp} ELSE {Nobody}

\* Mutant: the payload is not copied out of the datagram.
Payload_stale(c, answer) == {app[c].last}

\* What kademUdpToMessage leaves in the payload: the data of the answer, or, if
\* it has none, what the stack holds: an old address or none.
Payload(c, answer) ==
  IF "data" \in DOMAIN answer THEN {answer.data} ELSE {app[c].last, Nobody}

\* The datagram is taken for the answer of the get, without a look at what it
\* answers, and the message sent to the address in it.
SendMessage(c) ==
  /\ app[c].pc = "waiting"
  /\ ReadRpc(c)
  /\ \E dst \in Payload(c, Head(rpc[c]).answer) :
       /\ app' = [app EXCEPT ![c].pc = "loop", ![c].to = Nobody, ![c].clean = FALSE,
                             ![c].last = dst, ![c].open = @ \ {Head(rpc[c]).i}]
       /\ sent' = sent \cup {[from |-> c, to |-> app[c].to, dst |-> dst, clean |-> app[c].clean]}
       /\ p2p' = IF dst \in Login /\ Runs(dst)
                 THEN [p2p EXCEPT ![dst] = Append(@, c)] ELSE p2p
  /\ UNCHANGED <<inbox, deaths, dht>>

\* The payload is empty: strlen of what strtok does not find.
Stumble(c) ==
  /\ app[c].pc = "waiting"
  /\ rpc[c] # <<>>
  /\ "data" \notin DOMAIN Head(rpc[c]).answer
  /\ Exits(c)
  /\ UNCHANGED <<inbox, sent, deaths, dht>>

-----------------------------------------------------------------------------
(* The DHT processes, as DhtService has them.  No Pong: see ping_node. *)

\* Mutant: the answer goes to every application.
Hand_broadcast(s) ==
  rpc' = IF answers'[s] = answers[s] THEN rpc
         ELSE [c \in Login |-> IF Runs(c)
                 THEN Append(rpc[c], [i |-> s[2], answer |-> answers'[s][1]]) ELSE rpc[c]]

\* What slot s has just been told is in the RPC socket of its application.
Hand(s) ==
  rpc' = IF answers'[s] = answers[s] \/ ~Runs(s[1]) THEN rpc
         ELSE [rpc EXCEPT ![s[1]] = Append(@, [i |-> s[2], answer |-> answers'[s][1]])]

\* The socket of a process that died is closed.
Drop(n, rest) == inbox' = [inbox EXCEPT ![n] = IF alive'[n] THEN rest ELSE <<>>]

Serve(n) ==
  /\ inbox[n] # <<>>
  /\ LET r == Head(inbox[n]) IN Service!Ask(r.slot, r.req) /\ Hand(r.slot)
  /\ Drop(n, Tail(inbox[n]))
  /\ UNCHANGED <<app, p2p, sent, deaths>>

Learn(n) ==
  /\ \E s \in Slot : Service!Learn(n, s)
  /\ UNCHANGED <<app, rpc, p2p, inbox, sent, deaths>>

Crash(n) ==
  /\ deaths < MaxDeaths
  /\ Service!Crash(n)
  /\ Drop(n, <<>>)
  /\ deaths' = deaths + 1
  /\ UNCHANGED <<app, rpc, p2p, sent>>

Restart(n) ==
  /\ deaths < MaxDeaths
  /\ Service!Restart(n)
  /\ deaths' = deaths + 1
  /\ UNCHANGED <<app, rpc, p2p, inbox, sent>>

-----------------------------------------------------------------------------

\* What main does when select returns, in each of its three loops.
Selects(c) == WaitToEnter(c) \/ Enter(c) \/ WaitForAnswer(c) \/ SendMessage(c) \/ Stumble(c)

Types(c) == \E line \in Line[c] :
  ShortLine(c, line) \/ Command(c, line) \/ Overflow(c, line) \/ Message(c, line) \/ Misread(c, line)

Next ==
  \/ \E c \in Login : Start(c) \/ Selects(c) \/ Show(c) \/ Types(c)
  \/ \E n \in Node : Serve(n) \/ Learn(n) \/ Crash(n) \/ Restart(n)

Spec == Init /\ [][Next]_vars

\* A process that is not stopped goes on: select returns when a datagram is there
\* or the time is over.  Nobody is made to type, and no object to travel.
Fairness ==
  /\ \A c \in Login : WF_vars(Selects(c)) /\ WF_vars(Show(c))
  /\ \A n \in Node : WF_vars(Serve(n))

FairSpec == Spec /\ Fairness

-----------------------------------------------------------------------------
(* Properties. *)

TypeOK ==
  /\ app \in [Login -> [pc : {"start", "entering", "spinning", "loop", "waiting", "exited"},
                        tv : 0..Wait, tv2 : 0..Wait, dirty : BOOLEAN, to : Name, last : Name,
                        clean : BOOLEAN, lines : Nat, nb : Nat, open : SUBSET Nat]]
  /\ rpc \in [Login -> Seq([i : Nat, answer : Service!Answer])]
  /\ p2p \in [Login -> Seq(Login)]
  /\ inbox \in [Node -> Seq([slot : Slot, req : Request])]
  /\ sent \subseteq [from : Login, to : Name, dst : Name, clean : BOOLEAN]
  /\ deaths \in 0..MaxDeaths

\* Every request, from the put to the last command, is answered at most once:
\* each datagram of the RPC socket answers a request whose answer has not been
\* read, and no other does.
AnsweredOnce ==
  \A c \in Login :
    /\ app[c].open \subseteq 1..app[c].nb
    /\ \A j \in 1..Len(rpc[c]) : rpc[c][j].i \in app[c].open
    /\ \A j, l \in 1..Len(rpc[c]) : rpc[c][j].i = rpc[c][l].i => j = l

\* A message goes to the application it is for, if every earlier request of its
\* sender, puts and commands included, was answered and the answer read when
\* its address was asked for: whatever the processes do meanwhile, and whoever
\* else sends.
AddresseeKept == \A m \in sent : m.clean => m.dst = m.to

\* Even a message that takes the answer of another request for its own goes to
\* somebody its sender has asked for before, or to nobody: not to an address that
\* another application asked for.
MessagesGoToNamed ==
  \A m \in sent : m.dst \in Login =>
    \E s \in Slot : s[1] = m.from /\ asked[s] = get(m.from, m.dst)

\* A message in the socket of an application is shown, though the user types
\* and gets stay unanswered, unless it ends or runs in its first loop for ever.
MessagesAreShown ==
  \A c \in Login : p2p[c] # <<>> ~> p2p[c] = <<>> \/ app[c].pc = "spinning"

\* messaging.c:243, "Receive the address and port of the node. Send a message to
\* a node": a message goes to the application its line names.
MessagesReachAddressee == \A m \in sent : m.dst = m.to
=============================================================================
