-------------------------- MODULE MessagingProofs --------------------------
(***************************************************************************)
(* For every set of applications and of DHT processes, whatever the users  *)
(* type and however often processes die: a request is answered at most     *)
(* once, and a message goes to whom it is for when no answer was unread.   *)
(***************************************************************************)
EXTENDS Messaging, TLAPS

D == INSTANCE DhtServiceProofs WITH Client <- Slot

\* What application c may ask for.
RequestOf(c) ==
  {put(c)} \cup {get(c, name) : name \in Name} \cup {command(c, q) : q \in Query}

LEMMA RequestsNameNodes == D!RequestsNameNodes
  BY MessagingAssumption DEF D!RequestsNameNodes, Request, put, get, command

LEMMA Requests == \A c \in Login : RequestOf(c) \subseteq Request
  BY DEF RequestOf, Request

\* A slot is an application and the number of a request.
LEMMA Slots ==
  /\ \A s \in Slot : /\ s[1] \in Login /\ s[2] \in Nat \ {0}
                     /\ s = <<s[1], s[2]>>
  /\ \A c \in Login : \A i \in 1..MaxLines[c] + 1 : <<c, i>> \in Slot
  BY MessagingAssumption DEF Slot

\* The steps of the two DHT processes' actions are those of DhtService.
LEMMA SameAsk ==
  ASSUME NEW s \in Slot, NEW req \in Request, Service!Ask(s, req)
  PROVE  D!Ask(s, req)
  BY DEF Service!Ask, D!Ask, Service!ServePut, D!ServePut, Service!ServeGet, D!ServeGet,
         Service!ServePing, D!ServePing, Service!ServeFindNode, D!ServeFindNode,
         Service!ServePrint, D!ServePrint, Service!ServeKill, D!ServeKill,
         Service!Tell, D!Tell, Service!Store, D!Store, Service!Dies, D!Dies,
         Service!Lives, D!Lives, Service!TellNobody, D!TellNobody, Service!OK, D!OK,
         Service!Found, D!Found, Service!Over, D!Over, Service!ObjectOf, D!ObjectOf

LEMMA StepKeepsD ==
  ASSUME D!IInv, [D!Next]_(D!vars)
  PROVE  D!IInv'
  BY RequestsNameNodes, D!NextKeepsIInv

-----------------------------------------------------------------------------
(* The invariant. *)

\* One application's requests are numbered from the put on.
Numbered ==
  \A c \in Login :
    /\ app[c].lines <= MaxLines[c]
    /\ app[c].nb = IF app[c].pc = "start" THEN 0 ELSE app[c].lines + 1
    /\ app[c].pc = "start" => app[c].lines = 0

\* Request req may be the i-th of application c: the last, if c waits for the
\* answer of a get, is that get.
Fits(c, i, req) ==
  /\ i \in 1..app[c].nb
  /\ req \in RequestOf(c)
  /\ app[c].pc = "waiting" /\ i = app[c].nb => req = get(c, app[c].to)

Queued ==
  \A n \in Node : \A j \in 1..Len(inbox[n]) :
    Fits(inbox[n][j].slot[1], inbox[n][j].slot[2], inbox[n][j].req)

\* A process has been asked only what was sent to it.
Served == \A s \in Slot : asked[s] # None => Fits(s[1], s[2], asked[s])

\* What no process has been asked yet is open.
Opened ==
  \A s \in Slot : asked[s] = None /\ s[2] <= app[s[1]].nb => s[2] \in app[s[1]].open

\* A datagram of the RPC socket is the one answer to a request.
Unread ==
  \A c \in Login : \A j \in 1..Len(rpc[c]) :
    /\ asked[<<c, rpc[c][j].i>>] # None
    /\ answers[<<c, rpc[c][j].i>>] = <<rpc[c][j].answer>>

\* With no answer unread the get that is waited for is the only open request.
OnlyOpen ==
  \A c \in Login :
    app[c].pc = "waiting" /\ app[c].clean => app[c].open \subseteq {app[c].nb}

\* The address c has read was given to it on a get of its own.
LastNamed ==
  \A c \in Login : app[c].last \in Login =>
    \E s \in Slot : s[1] = c /\ asked[s] = get(c, app[c].last)

Rest == Numbered /\ Queued /\ Served /\ Opened /\ Unread /\ AnsweredOnce /\ OnlyOpen

IInv ==
  /\ D!IInv /\ TypeOK /\ Rest
  /\ LastNamed /\ AddresseeKept /\ MessagesGoToNamed

-----------------------------------------------------------------------------
(* What holds of every step. *)

LEMMA Numbers ==
  ASSUME TypeOK
  PROVE  \A c \in Login : app[c].nb \in Nat /\ app[c].lines \in Nat /\ app[c].open \subseteq Nat
  BY DEF TypeOK

\* What the sockets hold has its type.
LEMMA Elements ==
  ASSUME TypeOK
  PROVE  /\ \A n \in Node : \A j \in 1..Len(inbox[n]) :
              inbox[n][j].slot \in Slot /\ inbox[n][j].req \in Request
         /\ \A c \in Login : \A j \in 1..Len(rpc[c]) :
              rpc[c][j].i \in Nat /\ rpc[c][j].answer \in Service!Answer
  <1>1. ASSUME NEW S, NEW q \in Seq(S), NEW j \in 1..Len(q)
        PROVE  q[j] \in S
    OBVIOUS
  <1>2. ASSUME NEW n \in Node, NEW j \in 1..Len(inbox[n])
        PROVE  inbox[n][j].slot \in Slot /\ inbox[n][j].req \in Request
    <2>1. inbox[n] \in Seq([slot : Slot, req : Request])
      BY DEF TypeOK
    <2>2. inbox[n][j] \in [slot : Slot, req : Request]
      BY <1>1, <2>1
    <2> QED BY <2>2
  <1>3. ASSUME NEW c \in Login, NEW j \in 1..Len(rpc[c])
        PROVE  rpc[c][j].i \in Nat /\ rpc[c][j].answer \in Service!Answer
    <2>1. rpc[c] \in Seq([i : Nat, answer : Service!Answer])
      BY DEF TypeOK
    <2>2. rpc[c][j] \in [i : Nat, answer : Service!Answer]
      BY <1>1, <2>1
    <2> QED BY <2>2
  <1> QED BY <1>2, <1>3

\* An application's requests keep their numbers, and while it waits for the
\* answer of its last one it waits for that.
Steady(c) ==
  /\ app'[c].nb \in Nat /\ app[c].nb <= app'[c].nb
  /\ app'[c].pc = "waiting" /\ app'[c].nb = app[c].nb =>
       app[c].pc = "waiting" /\ app'[c].to = app[c].to

LEMMA FitsStays ==
  ASSUME NEW c \in Login, NEW i, NEW req, TypeOK, Steady(c), Fits(c, i, req)
  PROVE  Fits(c, i, req)'
  BY DEF TypeOK, Steady, Fits

LEMMA ServedStays ==
  ASSUME TypeOK, \A c \in Login : Steady(c), Served, UNCHANGED asked
  PROVE  Served'
  BY FitsStays, Slots DEF Served

\* Requests that leave a queue leave the others as they are.
LEMMA QueueStays ==
  ASSUME TypeOK, \A c \in Login : Steady(c), Queued,
         \A n \in Node : \A j \in 1..Len(inbox'[n]) :
           \E l \in 1..Len(inbox[n]) : inbox'[n][j] = inbox[n][l]
  PROVE  Queued'
  <1> SUFFICES ASSUME NEW n \in Node, NEW j \in 1..Len(inbox'[n])
               PROVE  Fits(inbox[n][j].slot[1], inbox[n][j].slot[2], inbox[n][j].req)'
    BY DEF Queued
  <1>1. PICK l \in 1..Len(inbox[n]) : inbox'[n][j] = inbox[n][l]
    OBVIOUS
  <1> DEFINE r == inbox[n][l]
  <1>2. Fits(r.slot[1], r.slot[2], r.req)
    BY DEF Queued
  <1>3. r.slot \in Slot
    BY Elements
  <1>4. r.slot[1] \in Login
    BY <1>3, Slots
  <1>5. \A c \in Login : \A i, req : Fits(c, i, req) => Fits(c, i, req)'
    BY FitsStays
  <1> HIDE DEF r
  <1> QED BY <1>1, <1>2, <1>4, <1>5 DEF r

-----------------------------------------------------------------------------
(* What an application does is of one of three kinds. *)

OthersSame(c) == \A d \in Login : d # c => app'[d] = app[d] /\ rpc'[d] = rpc[d]

\* It waits, shows a message, gives up or ends.
Quiet(c) ==
  /\ OthersSame(c)
  /\ app'[c].nb = app[c].nb /\ app'[c].lines = app[c].lines
  /\ app'[c].open = app[c].open /\ app'[c].last = app[c].last
  /\ app[c].pc # "start" /\ app'[c].pc # "start"
  /\ app'[c].pc = "waiting" =>
       /\ app[c].pc = "waiting"
       /\ app'[c].to = app[c].to /\ app'[c].clean = app[c].clean
  /\ rpc'[c] = rpc[c] \/ rpc'[c] = <<>>
  /\ UNCHANGED <<inbox, asked, answers>>

\* It makes a request, and waits for its answer if it is a get.
Sends(c, req) ==
  /\ OthersSame(c)
  /\ app'[c].nb = app[c].nb + 1 /\ app'[c].lines = app[c].nb
  /\ app'[c].lines <= MaxLines[c]
  /\ app'[c].open = app[c].open \cup {app[c].nb + 1} /\ app'[c].last = app[c].last
  /\ app'[c].pc # "start"
  /\ app'[c].pc = "waiting" =>
       /\ req = get(c, app'[c].to)
       /\ app'[c].clean => app[c].open = {}
  /\ req \in RequestOf(c)
  /\ kademSendMessage(c, req)
  /\ UNCHANGED <<rpc, asked, answers>>

\* It reads a datagram of its RPC socket, with or without waiting for it.
Takes(c) ==
  /\ OthersSame(c)
  /\ rpc[c] # <<>> /\ rpc' = [rpc EXCEPT ![c] = Tail(@)]
  /\ app'[c].nb = app[c].nb /\ app'[c].lines = app[c].lines
  /\ app'[c].open = app[c].open \ {Head(rpc[c]).i}
  /\ app[c].pc # "start" /\ app'[c].pc = "loop"
  /\ UNCHANGED <<inbox, asked, answers>>

LEMMA QuietKeeps ==
  ASSUME NEW c \in Login, TypeOK, TypeOK', Rest, LastNamed, Quiet(c)
  PROVE  Rest' /\ LastNamed'
  <1>1. \A d \in Login : Steady(d)
    BY Numbers DEF Quiet, OthersSame, Steady
  <1>2. Numbered'
    BY DEF Rest, Numbered, Quiet, OthersSame
  <1>3. Queued'
    BY <1>1, QueueStays DEF Rest, Quiet
  <1>4. Served'
    BY <1>1, ServedStays DEF Rest, Quiet
  <1>5. \A d \in Login : /\ app'[d].nb = app[d].nb /\ app'[d].open = app[d].open
                         /\ app'[d].last = app[d].last
                         /\ rpc'[d] = rpc[d] \/ rpc'[d] = <<>>
    BY DEF Quiet, OthersSame
  <1>6. Opened'
    BY <1>5, Slots DEF Rest, Quiet, Opened
  <1>7. \A d \in Login : \A j \in 1..Len(rpc'[d]) : j \in 1..Len(rpc[d]) /\ rpc'[d][j] = rpc[d][j]
    BY <1>5
  <1>8. Unread'
    BY <1>7 DEF Rest, Quiet, Unread
  <1>9. AnsweredOnce'
    BY <1>5, <1>7 DEF Rest, AnsweredOnce
  <1>10. OnlyOpen'
    BY <1>5 DEF Rest, Quiet, OthersSame, OnlyOpen
  <1>11. LastNamed'
    BY <1>5 DEF Quiet, LastNamed
  <1> QED BY <1>2, <1>3, <1>4, <1>6, <1>8, <1>9, <1>10, <1>11 DEF Rest

LEMMA SendsKeeps ==
  ASSUME NEW c \in Login, NEW req, TypeOK, TypeOK', Rest, LastNamed, Sends(c, req)
  PROVE  Rest' /\ LastNamed'
  <1>0. PICK i \in Nat : i = app[c].nb + 1
    BY Numbers
  <1>1. /\ \A d \in Login : app[d].nb \in Nat /\ app[d].lines \in Nat
        /\ \A d \in Login : Steady(d)
    BY Numbers DEF Sends, OthersSame, Steady
  <1>2. Numbered'
    BY <1>1 DEF Rest, Numbered, Sends, OthersSame
  <1>3. Fits(c, i, req)'
    BY <1>0, <1>1 DEF Sends, Fits
  <1>4. Queued'
    <2>1. SUFFICES ASSUME NEW n \in Node, NEW j \in 1..Len(inbox'[n])
                   PROVE  Fits(inbox[n][j].slot[1], inbox[n][j].slot[2], inbox[n][j].req)'
      BY DEF Queued
    <2>2. CASE j \in 1..Len(inbox[n]) /\ inbox'[n][j] = inbox[n][j]
      <3>1. inbox[n][j].slot[1] \in Login
        BY <2>2, Elements, Slots
      <3>2. Fits(inbox[n][j].slot[1], inbox[n][j].slot[2], inbox[n][j].req)
        BY <2>2 DEF Rest, Queued
      <3>3. \A d \in Login : \A l, r : Fits(d, l, r) => Fits(d, l, r)'
        BY <1>1, FitsStays
      <3> QED BY <2>2, <3>1, <3>2, <3>3
    <2>3. CASE inbox'[n][j] = [slot |-> <<c, i>>, req |-> req]
      BY <1>3, <2>3
    <2>4. inbox[n] \in Seq([slot : Slot, req : Request])
      BY DEF TypeOK
    <2>5. inbox'[n] = inbox[n] \/ inbox'[n] = Append(inbox[n], [slot |-> <<c, i>>, req |-> req])
      BY <1>0 DEF Sends, kademSendMessage, TypeOK
    <2> QED BY <2>2, <2>3, <2>4, <2>5
  <1>5. Served'
    BY <1>1, ServedStays DEF Rest, Sends
  <1>6. Opened'
    BY <1>1, Slots DEF Rest, Opened, Sends, OthersSame
  <1>7. Unread'
    BY DEF Rest, Unread, Sends
  <1>8. AnsweredOnce'
    <2>1. \A d \in Login : app'[d].open \subseteq 1..app'[d].nb /\ app[d].open \subseteq app'[d].open
      BY <1>0, <1>1 DEF Rest, AnsweredOnce, Sends, OthersSame
    <2>2. rpc' = rpc
      BY DEF Sends
    <2> QED BY <2>1, <2>2 DEF Rest, AnsweredOnce
  <1>9. OnlyOpen'
    BY <1>1 DEF Rest, OnlyOpen, Sends, OthersSame
  <1>10. LastNamed'
    BY DEF LastNamed, Sends, OthersSame
  <1> QED BY <1>2, <1>4, <1>5, <1>6, <1>7, <1>8, <1>9, <1>10 DEF Rest

LEMMA TakesKeeps ==
  ASSUME NEW c \in Login, TypeOK, TypeOK', Rest, Takes(c)
  PROVE  Rest'
  <1> DEFINE h == Head(rpc[c]).i
  <1>1. /\ \A d \in Login : app[d].nb \in Nat /\ app[d].lines \in Nat
        /\ \A d \in Login : Steady(d)
    BY Numbers DEF Takes, OthersSame, Steady
  <1>2. Numbered'
    BY DEF Rest, Numbered, Takes, OthersSame
  <1>3. Queued'
    BY <1>1, QueueStays DEF Rest, Takes
  <1>4. Served'
    BY <1>1, ServedStays DEF Rest, Takes
  <1>5. /\ Len(rpc[c]) \in Nat /\ 1 \in 1..Len(rpc[c]) /\ h = rpc[c][1].i
        /\ rpc'[c] = Tail(rpc[c])
        /\ \A j \in 1..Len(rpc'[c]) :
             j + 1 \in 1..Len(rpc[c]) /\ j + 1 # 1 /\ rpc'[c][j] = rpc[c][j + 1]
    <2>1. rpc[c] \in Seq([i : Nat, answer : Service!Answer]) /\ rpc[c] # <<>>
      BY DEF Takes, TypeOK
    <2>2. rpc'[c] = Tail(rpc[c])
      BY DEF Takes, TypeOK
    <2> QED BY <2>1, <2>2
  <1>6. /\ \A d \in Login : app'[d].nb = app[d].nb
        /\ app'[c].open = app[c].open \ {h}
        /\ \A d \in Login : d # c => app'[d] = app[d] /\ rpc'[d] = rpc[d]
        /\ asked' = asked /\ answers' = answers
    BY DEF Takes, OthersSame
  <1>7. asked[<<c, h>>] # None
    BY <1>5 DEF Rest, Unread
  <1>8. Opened'
    <2>1. ASSUME NEW s \in Slot, asked[s] = None, s[2] <= app[s[1]].nb
          PROVE  s[2] \in app'[s[1]].open
      <3>1. s[1] \in Login /\ s = <<s[1], s[2]>> /\ s[2] \in app[s[1]].open
        BY <2>1, Slots DEF Rest, Opened
      <3>2. CASE s[1] = c
        BY <1>6, <1>7, <2>1, <3>1, <3>2
      <3>3. CASE s[1] # c
        BY <1>6, <3>1, <3>3
      <3> QED BY <3>2, <3>3
    <2> QED BY <1>6, <2>1, Slots DEF Opened
  <1>9. Unread'
    <2>1. ASSUME NEW d \in Login, NEW j \in 1..Len(rpc'[d])
          PROVE  /\ asked[<<d, rpc'[d][j].i>>] # None
                 /\ answers[<<d, rpc'[d][j].i>>] = <<rpc'[d][j].answer>>
      <3>1. CASE d = c
        <4>1. j + 1 \in 1..Len(rpc[c]) /\ rpc'[c][j] = rpc[c][j + 1]
          BY <1>5, <3>1
        <4> QED BY <3>1, <4>1 DEF Rest, Unread
      <3>2. CASE d # c
        BY <1>6, <3>2 DEF Rest, Unread
      <3> QED BY <3>1, <3>2
    <2> QED BY <1>6, <2>1 DEF Unread
  <1>10. AnsweredOnce'
    <2>1. ASSUME NEW d \in Login
          PROVE  /\ app'[d].open \subseteq 1..app'[d].nb
                 /\ \A j \in 1..Len(rpc'[d]) : rpc'[d][j].i \in app'[d].open
                 /\ \A j, l \in 1..Len(rpc'[d]) : rpc'[d][j].i = rpc'[d][l].i => j = l
      <3>1. CASE d = c
        <4>1. \A j \in 1..Len(rpc[c]) : rpc[c][j].i \in app[c].open /\ (rpc[c][j].i = h => j = 1)
          BY <1>5 DEF Rest, AnsweredOnce
        <4>2. \A j \in 1..Len(rpc'[c]) : rpc'[c][j].i \in app[c].open \ {h}
          BY <1>5, <4>1
        <4>3. \A j, l \in 1..Len(rpc'[c]) : rpc'[c][j].i = rpc'[c][l].i => j = l
          BY <1>5 DEF Rest, AnsweredOnce
        <4>4. app'[c].open \subseteq 1..app'[c].nb
          BY <1>6 DEF Rest, AnsweredOnce
        <4> QED BY <1>6, <3>1, <4>2, <4>3, <4>4
      <3>2. CASE d # c
        BY <1>6, <3>2 DEF Rest, AnsweredOnce
      <3> QED BY <3>1, <3>2
    <2> QED BY <2>1 DEF AnsweredOnce
  <1>11. OnlyOpen'
    BY <1>6 DEF Rest, OnlyOpen, Takes
  <1> QED BY <1>2, <1>3, <1>4, <1>8, <1>9, <1>10, <1>11 DEF Rest

-----------------------------------------------------------------------------
(* Every action of an application is of its kind, and keeps the types. *)

AppRecord ==
  [pc : {"start", "entering", "spinning", "loop", "waiting", "exited"},
   tv : 0..Wait, tv2 : 0..Wait, dirty : BOOLEAN, to : Name, last : Name,
   clean : BOOLEAN, lines : Nat, nb : Nat, open : SUBSET Nat]

LEMMA AppTypes ==
  ASSUME TypeOK
  PROVE  app \in [Login -> AppRecord] /\ \A c \in Login : app[c] \in AppRecord
  BY DEF TypeOK, AppRecord

\* An application whose locals change keeps their types.
LEMMA Updated ==
  ASSUME TypeOK, NEW c \in Login, NEW r \in AppRecord, app' = [app EXCEPT ![c] = r]
  PROVE  app' \in [Login -> AppRecord]
  BY AppTypes

\* A socket from which one datagram is taken, or all, or that gets one.
LEMMA Sockets ==
  ASSUME NEW S, NEW f \in [Login -> Seq(S)], NEW c \in Login
  PROVE  /\ [f EXCEPT ![c] = <<>>] \in [Login -> Seq(S)]
         /\ f[c] # <<>> => [f EXCEPT ![c] = Tail(@)] \in [Login -> Seq(S)]
         /\ \A d \in S : [f EXCEPT ![c] = Append(@, d)] \in [Login -> Seq(S)]
  <1>1. [f EXCEPT ![c] = <<>>] \in [Login -> Seq(S)]
    OBVIOUS
  <1>2. ASSUME f[c] # <<>>
        PROVE  [f EXCEPT ![c] = Tail(@)] \in [Login -> Seq(S)]
    BY <1>2
  <1>3. ASSUME NEW d \in S
        PROVE  [f EXCEPT ![c] = Append(@, d)] \in [Login -> Seq(S)]
    OBVIOUS
  <1> QED BY <1>1, <1>2, <1>3

\* The application ends; its requests are not asked for any more.
LEMMA ExitIsQuiet ==
  ASSUME NEW c \in Login, TypeOK, app[c].pc # "start", Exits(c),
         UNCHANGED <<inbox, sent, deaths, dht>>
  PROVE  TypeOK' /\ Quiet(c)
  <1>1. app' \in [Login -> AppRecord]
    <2>1. [app[c] EXCEPT !.pc = "exited"] \in AppRecord
      BY AppTypes DEF AppRecord
    <2>2. app' = [app EXCEPT ![c] = [app[c] EXCEPT !.pc = "exited"]]
      BY DEF Exits
    <2> QED BY <2>1, <2>2, Updated
  <1>2. TypeOK'
    BY <1>1, Sockets DEF TypeOK, AppRecord, Exits
  <1>3. Quiet(c)
    BY DEF TypeOK, Exits, Quiet, OthersSame, dht
  <1> QED BY <1>2, <1>3

LEMMA WaitsAreQuiet ==
  ASSUME NEW c \in Login, TypeOK, WaitToEnter(c) \/ WaitForAnswer(c) \/ Show(c)
  PROVE  TypeOK' /\ Quiet(c) /\ UNCHANGED <<sent, dht>>
  <1>0. Wait \in Nat /\ Nobody \in Name
    BY MessagingAssumption DEF Name
  <1>1. CASE WaitToEnter(c)
    <2>1. app' \in [Login -> AppRecord]
      <3>1. CASE app[c].tv > 0
        <4>1. [app[c] EXCEPT !.tv = @ - 1] \in AppRecord
          BY <1>0, <3>1, AppTypes DEF AppRecord
        <4>2. app' = [app EXCEPT ![c] = [app[c] EXCEPT !.tv = @ - 1]]
          BY <1>1, <3>1 DEF WaitToEnter
        <4> QED BY <4>1, <4>2, Updated
      <3>2. CASE ~(app[c].tv > 0)
        <4>1. [app[c] EXCEPT !.pc = "spinning"] \in AppRecord
          BY AppTypes DEF AppRecord
        <4>2. app' = [app EXCEPT ![c] = [app[c] EXCEPT !.pc = "spinning"]]
          BY <1>1, <3>2 DEF WaitToEnter
        <4> QED BY <4>1, <4>2, Updated
      <3> QED BY <3>1, <3>2
    <2>2. Quiet(c)
      BY <1>1 DEF TypeOK, WaitToEnter, Quiet, OthersSame, dht
    <2> QED BY <1>1, <2>1, <2>2 DEF TypeOK, AppRecord, WaitToEnter
  <1>2. CASE WaitForAnswer(c)
    <2>1. app' \in [Login -> AppRecord]
      <3>1. CASE app[c].tv2 > 0 /\ app' = [app EXCEPT ![c].tv2 = @ - 1]
        <4>1. [app[c] EXCEPT !.tv2 = @ - 1] \in AppRecord
          BY <1>0, <3>1, AppTypes DEF AppRecord
        <4>2. app' = [app EXCEPT ![c] = [app[c] EXCEPT !.tv2 = @ - 1]]
          BY <3>1
        <4> QED BY <4>1, <4>2, Updated
      <3>2. CASE GiveUp(c)
        <4>1. [app[c] EXCEPT !.pc = "loop", !.to = Nobody, !.clean = FALSE] \in AppRecord
          BY <1>0, AppTypes DEF AppRecord
        <4>2. app' = [app EXCEPT ![c] =
                        [app[c] EXCEPT !.pc = "loop", !.to = Nobody, !.clean = FALSE]]
          BY <3>2 DEF GiveUp
        <4> QED BY <4>1, <4>2, Updated
      <3> QED BY <1>2, <3>1, <3>2 DEF WaitForAnswer
    <2>2. Quiet(c)
      BY <1>2 DEF TypeOK, WaitForAnswer, GiveUp, Quiet, OthersSame, dht
    <2> QED BY <1>2, <2>1, <2>2 DEF TypeOK, AppRecord, WaitForAnswer
  <1>3. CASE Show(c)
    <2>1. TypeOK'
      BY <1>3, Sockets DEF TypeOK, Show, dht
    <2>2. Quiet(c)
      BY <1>3 DEF TypeOK, Show, Quiet, OthersSame, dht
    <2> QED BY <1>3, <2>1, <2>2 DEF Show
  <1> QED BY <1>1, <1>2, <1>3

\* A request that fits the slots of its application keeps the type of the queues.
LEMMA SendTypes ==
  ASSUME NEW c \in Login, NEW req \in RequestOf(c), TypeOK,
         app[c].nb <= MaxLines[c], kademSendMessage(c, req)
  PROVE  inbox' \in [Node -> Seq([slot : Slot, req : Request])]
  <1>1. Dht[c] \in Node /\ MaxLines[c] \in Nat /\ app[c].nb + 1 \in 1..MaxLines[c] + 1
    BY MessagingAssumption, Numbers
  <1>2. [slot |-> <<c, app[c].nb + 1>>, req |-> req] \in [slot : Slot, req : Request]
    BY <1>1, Slots, Requests
  <1>3. inbox[Dht[c]] \in Seq([slot : Slot, req : Request])
    BY <1>1 DEF TypeOK
  <1>4. Append(inbox[Dht[c]], [slot |-> <<c, app[c].nb + 1>>, req |-> req])
          \in Seq([slot : Slot, req : Request])
    BY <1>2, <1>3
  <1>5. inbox \in [Node -> Seq([slot : Slot, req : Request])]
    BY DEF TypeOK
  <1> HIDE DEF Slot, Request
  <1> QED BY <1>1, <1>3, <1>4, <1>5 DEF kademSendMessage

LEMMA StartSends ==
  ASSUME NEW c \in Login, TypeOK, Rest, Start(c)
  PROVE  TypeOK' /\ Sends(c, put(c))
  <1>1. app[c].nb = 0 /\ app[c].lines = 0 /\ app[c].open = {} /\ MaxLines[c] \in Nat
    BY MessagingAssumption, Numbers DEF Start, Rest, Numbered, AnsweredOnce
  <1>2. put(c) \in RequestOf(c)
    BY DEF RequestOf
  <1>3. app' = [app EXCEPT ![c] = [app[c] EXCEPT !.pc = "entering", !.nb = 1, !.open = {1}]]
    BY DEF Start
  <1>4. [app[c] EXCEPT !.pc = "entering", !.nb = 1, !.open = {1}] \in AppRecord
    <2>1. app[c] \in AppRecord /\ {1} \in SUBSET Nat /\ 1 \in Nat
      BY AppTypes
    <2> QED BY <2>1 DEF AppRecord
  <1>5. app' \in [Login -> AppRecord]
    BY <1>3, <1>4, Updated
  <1>6. inbox' \in [Node -> Seq([slot : Slot, req : Request])]
    <2>1. kademSendMessage(c, put(c)) /\ app[c].nb <= MaxLines[c]
      BY <1>1 DEF Start
    <2> QED BY <1>2, <2>1, SendTypes
  <1>7. TypeOK'
    BY <1>5, <1>6 DEF TypeOK, AppRecord, Start
  <1>8. app'[c] = [app[c] EXCEPT !.pc = "entering", !.nb = 1, !.open = {1}]
    BY <1>3, AppTypes
  <1>9. app[c] \in AppRecord
    BY AppTypes
  <1>10. /\ app'[c].nb = 1 /\ app'[c].lines = 0 /\ app'[c].open = {1}
         /\ app'[c].last = app[c].last /\ app'[c].pc = "entering"
    BY <1>1, <1>8, <1>9 DEF AppRecord
  <1>11. OthersSame(c)
    BY <1>3, AppTypes DEF OthersSame, Start
  <1>12. kademSendMessage(c, put(c)) /\ UNCHANGED <<rpc, asked, answers>>
    BY DEF Start, dht
  <1>13. /\ app'[c].nb = app[c].nb + 1 /\ app'[c].lines = app[c].nb
         /\ app'[c].lines <= MaxLines[c] /\ app'[c].open = app[c].open \cup {app[c].nb + 1}
    <2>1. 0 + 1 = 1
      OBVIOUS
    <2> QED BY <1>1, <1>10, <2>1
  <1> QED BY <1>2, <1>7, <1>10, <1>11, <1>12, <1>13 DEF Sends

LEMMA CommandSends ==
  ASSUME NEW c \in Login, NEW line \in Line[c], TypeOK, Rest, Command(c, line)
  PROVE  TypeOK' /\ Sends(c, command(c, line.cmd))
  <1> DEFINE r == [app[c] EXCEPT !.lines = @ + 1, !.nb = @ + 1,
                                 !.open = @ \cup {app[c].nb + 1}, !.dirty = FALSE]
  <1>1. /\ app[c].nb \in Nat /\ app[c].lines \in Nat /\ MaxLines[c] \in Nat
        /\ app[c].pc = "loop" /\ app[c].nb = app[c].lines + 1 /\ app[c].lines < MaxLines[c]
    BY MessagingAssumption, Numbers DEF Command, Reads, Rest, Numbered
  <1>2. command(c, line.cmd) \in RequestOf(c)
    BY DEF Command, Recognised, Query, RequestOf
  <1>3. app[c] \in AppRecord /\ app' = [app EXCEPT ![c] = r]
    BY AppTypes DEF Command
  <1>4. r \in AppRecord
    <2>1. /\ app[c].nb + 1 \in Nat /\ app[c].lines + 1 \in Nat
          /\ app[c].open \cup {app[c].nb + 1} \in SUBSET Nat
      BY <1>1, Numbers
    <2> QED BY <1>3, <2>1 DEF AppRecord
  <1>5. app' \in [Login -> AppRecord]
    BY <1>3, <1>4, Updated
  <1>6. inbox' \in [Node -> Seq([slot : Slot, req : Request])]
    <2>1. kademSendMessage(c, command(c, line.cmd)) /\ app[c].nb <= MaxLines[c]
      BY <1>1 DEF Command
    <2> QED BY <1>2, <2>1, SendTypes
  <1>7. TypeOK'
    BY <1>5, <1>6 DEF TypeOK, AppRecord, Command
  <1>8. app'[c] = r /\ OthersSame(c)
    BY <1>3, AppTypes DEF OthersSame, Command
  <1>9. /\ r.nb = app[c].nb + 1 /\ r.lines = app[c].lines + 1
        /\ r.open = app[c].open \cup {app[c].nb + 1}
        /\ r.last = app[c].last /\ r.pc = "loop"
    BY <1>1, <1>3 DEF AppRecord
  <1> HIDE DEF r
  <1>10. kademSendMessage(c, command(c, line.cmd)) /\ UNCHANGED <<rpc, asked, answers>>
    BY DEF Command, dht
  <1>11. r.nb = app[c].nb + 1 /\ r.lines = app[c].nb /\ r.lines <= MaxLines[c]
    BY <1>1, <1>9
  <1> QED BY <1>2, <1>7, <1>8, <1>9, <1>10, <1>11 DEF Sends

LEMMA AskAddressSends ==
  ASSUME NEW c \in Login, NEW name \in Name, NEW long \in BOOLEAN, TypeOK, Rest,
         Reads(c), AskAddress(c, name, long)
  PROVE  TypeOK' /\ Sends(c, get(c, name))
  <1> DEFINE r == [app[c] EXCEPT !.pc = "waiting", !.to = name, !.lines = @ + 1, !.nb = @ + 1,
                                 !.open = @ \cup {app[c].nb + 1},
                                 !.clean = (app[c].open = {}), !.dirty = @ \/ long]
  <1>1. /\ app[c].nb \in Nat /\ app[c].lines \in Nat /\ MaxLines[c] \in Nat
        /\ app[c].pc = "loop" /\ app[c].nb = app[c].lines + 1 /\ app[c].lines < MaxLines[c]
    BY MessagingAssumption, Numbers DEF Reads, Rest, Numbered
  <1>2. get(c, name) \in RequestOf(c)
    BY DEF RequestOf
  <1>3. app[c] \in AppRecord /\ app' = [app EXCEPT ![c] = r]
    BY AppTypes DEF AskAddress
  <1>4. r \in AppRecord
    <2>1. /\ app[c].nb + 1 \in Nat /\ app[c].lines + 1 \in Nat
          /\ app[c].open \cup {app[c].nb + 1} \in SUBSET Nat
      BY <1>1, Numbers
    <2> QED BY <1>3, <2>1 DEF AppRecord
  <1>5. app' \in [Login -> AppRecord]
    BY <1>3, <1>4, Updated
  <1>6. inbox' \in [Node -> Seq([slot : Slot, req : Request])]
    <2>1. kademSendMessage(c, get(c, name))
      BY DEF AskAddress
    <2>2. app[c].nb <= MaxLines[c]
      BY <1>1
    <2> QED BY <1>2, <2>1, <2>2, SendTypes
  <1>7. TypeOK'
    BY <1>5, <1>6 DEF TypeOK, AppRecord, AskAddress
  <1>8. app'[c] = r /\ OthersSame(c)
    BY <1>3, AppTypes DEF OthersSame, AskAddress
  <1>9. /\ r.nb = app[c].nb + 1 /\ r.lines = app[c].lines + 1
        /\ r.open = app[c].open \cup {app[c].nb + 1}
        /\ r.last = app[c].last /\ r.pc = "waiting" /\ r.to = name
        /\ r.clean = (app[c].open = {})
    BY <1>1, <1>3 DEF AppRecord
  <1> HIDE DEF r
  <1>10. kademSendMessage(c, get(c, name)) /\ UNCHANGED <<rpc, asked, answers>>
    BY DEF AskAddress, dht
  <1>11. r.nb = app[c].nb + 1 /\ r.lines = app[c].nb /\ r.lines <= MaxLines[c]
    BY <1>1, <1>9
  <1> QED BY <1>2, <1>7, <1>8, <1>9, <1>10, <1>11 DEF Sends

-----------------------------------------------------------------------------
(* What is read from the RPC socket is true. *)

\* A put, a get and a command are told apart by q.
LEMMA Kinds ==
  ASSUME NEW c \in Login, NEW req \in RequestOf(c)
  PROVE  /\ req.q = "put" => req.value = c /\ req.data = c
         /\ req.q = "get" => req = get(c, req.value)
  BY DEF RequestOf, put, get, command, Query

\* Data is the answer to a get of the application, and is the name asked for:
\* every process keeps the address of an application under its login.
LEMMA TruthOfGets ==
  ASSUME D!IInv, Served, NEW s \in Slot, NEW answer, asked[s] # None,
         answers[s] = <<answer>>
  PROVE  /\ asked[s].q = "get" =>
              /\ answer = D!Found(answer.data) /\ answer.data \in Login
              /\ asked[s] = get(s[1], answer.data)
         /\ asked[s].q # "get" => answer = D!OK
  <1>1. answers[s] \in D!TruthFor(asked[s])
    BY DEF D!IInv, D!Integrity, D!AnsweredTruly
  <1>2. s[1] \in Login /\ asked[s] \in RequestOf(s[1])
    BY Slots DEF Served, Fits
  <1>3. ASSUME asked[s].q = "get"
        PROVE  /\ answer = D!Found(answer.data) /\ answer.data \in Login
               /\ asked[s] = get(s[1], answer.data)
    <2>1. PICK d \in Slot : /\ asked[d] # None /\ asked[d].q = "put"
                            /\ asked[d].value = asked[s].value
                            /\ answers[s] = <<D!Found(asked[d].data)>>
      BY <1>1, <1>3 DEF D!TruthFor
    <2>2. d[1] \in Login /\ asked[d] \in RequestOf(d[1])
      BY <2>1, Slots DEF Served, Fits
    <2>3. asked[d].data = asked[s].value /\ asked[d].data \in Login
      BY <2>1, <2>2, Kinds
    <2>4. answer = D!Found(asked[d].data)
      BY <2>1
    <2>5. answer.data = asked[d].data
      BY <2>4 DEF D!Found
    <2>6. asked[s] = get(s[1], asked[s].value)
      BY <1>2, <1>3, Kinds
    <2> QED BY <2>3, <2>4, <2>5, <2>6
  <1>4. ASSUME asked[s].q # "get"
        PROVE  answer = D!OK
    BY <1>1, <1>4 DEF D!TruthFor
  <1> QED BY <1>3, <1>4

LEMMA ReadIsTrue ==
  ASSUME NEW c \in Login, IInv, rpc[c] # <<>>
  PROVE  LET h == Head(rpc[c]) IN
         /\ h.i \in app[c].open /\ <<c, h.i>> \in Slot
         /\ Fits(c, h.i, asked[<<c, h.i>>])
         /\ "data" \in DOMAIN h.answer =>
              h.answer.data \in Login /\ asked[<<c, h.i>>] = get(c, h.answer.data)
         /\ asked[<<c, h.i>>].q = "get" => "data" \in DOMAIN h.answer
  <1> DEFINE h == Head(rpc[c])
  <1>1. 1 \in 1..Len(rpc[c]) /\ h = rpc[c][1]
    <2>1. rpc[c] \in Seq([i : Nat, answer : Service!Answer])
      BY DEF IInv, TypeOK
    <2> QED BY <2>1
  <1> HIDE DEF h
  <1>2. h.i \in app[c].open /\ h.i \in 1..app[c].nb
    BY <1>1 DEF IInv, Rest, AnsweredOnce
  <1>3. app[c].nb <= MaxLines[c] + 1 /\ MaxLines[c] \in Nat /\ app[c].nb \in Nat
    BY Numbers, MessagingAssumption DEF IInv, Rest, Numbered
  <1>4. <<c, h.i>> \in Slot
    BY <1>2, <1>3, Slots
  <1>5. asked[<<c, h.i>>] # None /\ answers[<<c, h.i>>] = <<h.answer>>
    BY <1>1 DEF IInv, Rest, Unread
  <1>6. Fits(c, h.i, asked[<<c, h.i>>])
    BY <1>4, <1>5 DEF IInv, Rest, Served
  <1>7. D!IInv /\ Served
    BY DEF IInv, Rest
  <1>8. CASE asked[<<c, h.i>>].q = "get"
    <2>1. /\ h.answer = D!Found(h.answer.data) /\ h.answer.data \in Login
          /\ asked[<<c, h.i>>] = get(c, h.answer.data)
      BY <1>4, <1>5, <1>7, <1>8, TruthOfGets
    <2>2. "data" \in DOMAIN h.answer
      BY <2>1 DEF D!Found
    <2> QED BY <1>2, <1>4, <1>6, <2>1, <2>2 DEF h
  <1>9. CASE asked[<<c, h.i>>].q # "get"
    <2>1. h.answer = D!OK
      BY <1>4, <1>5, <1>7, <1>9, TruthOfGets
    <2>2. "data" \notin DOMAIN h.answer
      BY <2>1 DEF D!OK
    <2> QED BY <1>2, <1>4, <1>6, <1>9, <2>2 DEF h
  <1> QED BY <1>8, <1>9

LEMMA EnterTakes ==
  ASSUME NEW c \in Login, IInv, Enter(c)
  PROVE  TypeOK' /\ Takes(c) /\ LastNamed' /\ UNCHANGED <<sent, dht>>
  <1> DEFINE h == Head(rpc[c]).i
             r == [app[c] EXCEPT !.pc = "loop", !.tv = 0, !.open = @ \ {h}]
  <1>1. TypeOK /\ rpc[c] # <<>> /\ Wait \in Nat
    BY MessagingAssumption DEF IInv, Enter, ReadRpc
  <1>2. app[c] \in AppRecord /\ app' = [app EXCEPT ![c] = r]
    BY <1>1, AppTypes DEF Enter
  <1>3. r \in AppRecord
    <2>1. app[c].open \ {h} \in SUBSET Nat /\ 0 \in 0..Wait
      BY <1>1, Numbers
    <2> QED BY <1>2, <2>1 DEF AppRecord
  <1>4. app' \in [Login -> AppRecord]
    BY <1>1, <1>2, <1>3, Updated
  <1>5. rpc' = [rpc EXCEPT ![c] = Tail(@)] /\ UNCHANGED <<p2p, inbox, sent, deaths, dht>>
    BY DEF Enter, ReadRpc
  <1>6. rpc' \in [Login -> Seq([i : Nat, answer : Service!Answer])]
    BY <1>1, <1>5, Sockets DEF TypeOK
  <1>7. TypeOK'
    BY <1>1, <1>4, <1>5, <1>6 DEF TypeOK, AppRecord
  <1>8. app'[c] = r /\ OthersSame(c)
    BY <1>1, <1>2, <1>5, AppTypes DEF OthersSame, TypeOK
  <1>9. /\ r.nb = app[c].nb /\ r.lines = app[c].lines /\ r.open = app[c].open \ {h}
        /\ r.last = app[c].last /\ r.pc = "loop"
    BY <1>2 DEF AppRecord
  <1> HIDE DEF r
  <1>10. app[c].pc # "start"
    BY DEF Enter
  <1>11. Takes(c)
    BY <1>1, <1>5, <1>8, <1>9, <1>10 DEF Takes, dht
  <1>12. LastNamed'
    BY <1>5, <1>8, <1>9 DEF IInv, LastNamed, OthersSame, dht
  <1> QED BY <1>5, <1>7, <1>11, <1>12

\* The message goes where the datagram that is read says, or where the last one
\* did; if no other answer was unread it is the answer of this get.
LEMMA SendMessageTakes ==
  ASSUME NEW c \in Login, IInv, SendMessage(c)
  PROVE  /\ TypeOK' /\ Takes(c) /\ LastNamed'
         /\ AddresseeKept' /\ MessagesGoToNamed' /\ UNCHANGED dht
  <1> DEFINE h == Head(rpc[c])
  <1>1. /\ TypeOK /\ rpc[c] # <<>> /\ app[c].pc = "waiting"
        /\ rpc' = [rpc EXCEPT ![c] = Tail(@)] /\ UNCHANGED <<inbox, deaths, dht>>
    BY DEF IInv, SendMessage, ReadRpc
  <1>2. PICK dst \in Payload(c, h.answer) :
          /\ app' = [app EXCEPT ![c].pc = "loop", ![c].to = Nobody, ![c].clean = FALSE,
                                ![c].last = dst, ![c].open = @ \ {h.i}]
          /\ sent' = sent \cup {[from |-> c, to |-> app[c].to, dst |-> dst, clean |-> app[c].clean]}
          /\ p2p' = IF dst \in Login /\ Runs(dst)
                    THEN [p2p EXCEPT ![dst] = Append(@, c)] ELSE p2p
    BY DEF SendMessage
  <1> DEFINE r == [app[c] EXCEPT !.pc = "loop", !.to = Nobody, !.clean = FALSE,
                                 !.last = dst, !.open = @ \ {h.i}]
             m == [from |-> c, to |-> app[c].to, dst |-> dst, clean |-> app[c].clean]
  <1>3. /\ h.i \in app[c].open /\ <<c, h.i>> \in Slot
        /\ Fits(c, h.i, asked[<<c, h.i>>])
        /\ "data" \in DOMAIN h.answer =>
             h.answer.data \in Login /\ asked[<<c, h.i>>] = get(c, h.answer.data)
        /\ asked[<<c, h.i>>].q = "get" => "data" \in DOMAIN h.answer
    BY <1>1, ReadIsTrue
  <1> HIDE DEF h
  <1>4. app[c] \in AppRecord /\ app' = [app EXCEPT ![c] = r]
    BY <1>1, <1>2, AppTypes
  <1>6. \/ "data" \in DOMAIN h.answer /\ dst = h.answer.data
        \/ "data" \notin DOMAIN h.answer /\ dst \in {app[c].last, Nobody}
    BY <1>2 DEF Payload
  <1>7. /\ dst \in Name
        /\ dst \in Login => \E s \in Slot : s[1] = c /\ asked[s] = get(c, dst)
    <2>1. Nobody \in Name /\ Login \subseteq Name /\ Nobody \notin Login
      BY MessagingAssumption DEF Name
    <2>2. app[c].last \in Name
      BY <1>4 DEF AppRecord
    <2>3. LastNamed
      BY DEF IInv
    <2>4. <<c, h.i>>[1] = c
      OBVIOUS
    <2> QED BY <1>3, <1>6, <2>1, <2>2, <2>3, <2>4 DEF LastNamed
  <1>8. r \in AppRecord
    <2>1. app[c].open \ {h.i} \in SUBSET Nat /\ Nobody \in Name
      BY <1>1, Numbers DEF Name
    <2> QED BY <1>4, <1>7, <2>1 DEF AppRecord
  <1>9. app' \in [Login -> AppRecord]
    BY <1>1, <1>4, <1>8, Updated
  <1>10. TypeOK'
    <2>1. rpc' \in [Login -> Seq([i : Nat, answer : Service!Answer])]
      BY <1>1, Sockets DEF TypeOK
    <2>2. p2p' \in [Login -> Seq(Login)]
      BY <1>1, <1>2, Sockets DEF TypeOK
    <2>3. app[c].to \in Name /\ app[c].clean \in BOOLEAN
      BY <1>4 DEF AppRecord
    <2>4. sent' \subseteq [from : Login, to : Name, dst : Name, clean : BOOLEAN]
      BY <1>1, <1>2, <1>7, <2>3 DEF TypeOK
    <2> QED BY <1>1, <1>9, <2>1, <2>2, <2>4 DEF TypeOK, AppRecord
  <1>11. app'[c] = r /\ OthersSame(c)
    BY <1>1, <1>4, AppTypes DEF OthersSame, TypeOK
  <1>12. /\ r.nb = app[c].nb /\ r.lines = app[c].lines /\ r.open = app[c].open \ {h.i}
         /\ r.last = dst /\ r.pc = "loop"
    BY <1>4 DEF AppRecord
  <1> HIDE DEF r
  <1>13. Takes(c)
    BY <1>1, <1>11, <1>12 DEF Takes, dht, h
  <1>14. LastNamed'
    BY <1>1, <1>7, <1>11, <1>12 DEF IInv, LastNamed, OthersSame, dht
  <1>15. app[c].clean => dst = app[c].to
    <2>1. SUFFICES ASSUME app[c].clean
                   PROVE  dst = app[c].to
      OBVIOUS
    <2>2. h.i = app[c].nb
      BY <1>1, <1>3, <2>1 DEF IInv, Rest, OnlyOpen
    <2>3. asked[<<c, h.i>>] = get(c, app[c].to)
      BY <1>1, <1>3, <2>2 DEF Fits
    <2>4. "data" \in DOMAIN h.answer /\ get(c, h.answer.data) = get(c, app[c].to)
      BY <1>3, <2>3 DEF get
    <2> QED BY <1>6, <2>4 DEF get
  <1>16. AddresseeKept'
    BY <1>2, <1>15 DEF IInv, AddresseeKept
  <1>17. MessagesGoToNamed'
    <2>1. asked' = asked
      BY <1>1 DEF dht
    <2>2. \A x \in sent' : x \in sent \/ x = m
      BY <1>2
    <2>3. m.from = c /\ m.dst = dst
      OBVIOUS
    <2> QED BY <1>7, <2>1, <2>2, <2>3 DEF IInv, MessagesGoToNamed
  <1> QED BY <1>1, <1>10, <1>13, <1>14, <1>16, <1>17

-----------------------------------------------------------------------------
(* The DHT processes. *)

\* Whoever asks has not asked and was not told anything before; it is told once.
LEMMA AskedOnce ==
  ASSUME D!IInv, NEW s \in Slot, NEW req \in Request, D!Ask(s, req)
  PROVE  /\ D!IInv'
         /\ asked[s] = None /\ asked'[s] = req /\ answers[s] = <<>>
         /\ \A x \in Slot : x # s => asked'[x] = asked[x] /\ answers'[x] = answers[x]
         /\ answers'[s] = answers[s] \/ \E a \in Service!Answer : answers'[s] = <<a>>
  <1>1. req # None
    BY NoneIsNoRequest
  <1>2. D!IInv'
    BY <1>1, StepKeepsD DEF D!Next
  <1>3. D!TypeOK /\ D!TypeOK'
    BY <1>2 DEF D!IInv
  <1>4. asked[s] = None /\ asked' = [asked EXCEPT ![s] = req]
    BY DEF D!Ask
  <1>5. asked'[s] = req /\ \A x \in Slot : x # s => asked'[x] = asked[x]
    BY <1>3, <1>4 DEF D!TypeOK
  <1>6. answers[s] = <<>>
    BY <1>4 DEF D!IInv, D!Integrity, D!AnsweredTruly
  <1>7. answers' = answers \/ \E a : D!Tell(s, a)
    BY <1>1, <1>3, D!AskAnswers DEF D!TellNobody
  <1>8. ASSUME NEW a, D!Tell(s, a)
        PROVE  /\ answers'[s] = <<a>> /\ a \in Service!Answer
               /\ \A x \in Slot : x # s => answers'[x] = answers[x]
    <2>1. /\ answers'[s] = <<a>>
          /\ \A x \in Slot : x # s => answers'[x] = answers[x]
      BY <1>3, <1>6, <1>8, D!FirstAnswer
    <2>2. <<a>> \in Seq(D!Answer)
      BY <1>3, <2>1 DEF D!TypeOK
    <2>3. a \in D!Answer
      BY <2>2
    <2> QED BY <2>1, <2>3
        DEF D!Answer, Service!Answer, D!OK, Service!OK, D!Found, Service!Found, D!Data, Service!Data
  <1> QED BY <1>2, <1>4, <1>5, <1>6, <1>7, <1>8

LEMMA DropTypes ==
  ASSUME TypeOK, NEW n \in Node, NEW rest \in Seq([slot : Slot, req : Request]), Drop(n, rest)
  PROVE  /\ inbox' \in [Node -> Seq([slot : Slot, req : Request])]
         /\ inbox'[n] = rest \/ inbox'[n] = <<>>
         /\ \A x \in Node : x # n => inbox'[x] = inbox[x]
  <1>1. inbox \in [Node -> Seq([slot : Slot, req : Request])]
    BY DEF TypeOK
  <1>2. <<>> \in Seq([slot : Slot, req : Request])
    OBVIOUS
  <1>3. inbox' = [inbox EXCEPT ![n] = rest] \/ inbox' = [inbox EXCEPT ![n] = <<>>]
    BY DEF Drop
  <1> QED BY <1>1, <1>2, <1>3

\* An answered request has been asked: nothing of what applications know of it
\* changes when another is served.
LEMMA ServeKeeps ==
  ASSUME NEW n \in Node, IInv, Serve(n)
  PROVE  IInv'
  <1> DEFINE s == Head(inbox[n]).slot
             req == Head(inbox[n]).req
             c == s[1]
  <1>1. /\ inbox[n] \in Seq([slot : Slot, req : Request]) /\ inbox[n] # <<>>
        /\ UNCHANGED <<app, p2p, sent, deaths>>
    BY DEF IInv, TypeOK, Serve
  <1>2. /\ 1 \in 1..Len(inbox[n]) /\ Head(inbox[n]) = inbox[n][1]
        /\ Tail(inbox[n]) \in Seq([slot : Slot, req : Request])
        /\ \A j \in 1..Len(Tail(inbox[n])) :
             j + 1 \in 1..Len(inbox[n]) /\ Tail(inbox[n])[j] = inbox[n][j + 1]
    BY <1>1
  <1>3. s \in Slot /\ req \in Request /\ TypeOK
    BY <1>2, Elements DEF IInv
  <1>4. c \in Login /\ s = <<c, s[2]>> /\ s[2] \in Nat
    BY <1>3, Slots
  <1>5. Fits(c, s[2], req)
    BY <1>2 DEF IInv, Rest, Queued
  <1>6. Service!Ask(s, req) /\ Hand(s) /\ Drop(n, Tail(inbox[n]))
    BY DEF Serve
  <1> HIDE DEF s, req, c
  <1>7. /\ D!IInv'
        /\ asked[s] = None /\ asked'[s] = req /\ answers[s] = <<>>
        /\ \A x \in Slot : x # s => asked'[x] = asked[x] /\ answers'[x] = answers[x]
        /\ answers'[s] = answers[s] \/ \E a \in Service!Answer : answers'[s] = <<a>>
    <2>1. D!Ask(s, req)
      BY <1>3, <1>6, SameAsk
    <2> QED BY <1>3, <2>1, AskedOnce DEF IInv
  <1>8. /\ inbox' \in [Node -> Seq([slot : Slot, req : Request])]
        /\ inbox'[n] = Tail(inbox[n]) \/ inbox'[n] = <<>>
        /\ \A x \in Node : x # n => inbox'[x] = inbox[x]
    BY <1>2, <1>3, <1>6, DropTypes
  <1>9. \/ rpc' = rpc
        \/ \E a \in Service!Answer :
             /\ answers'[s] = <<a>>
             /\ rpc' = [rpc EXCEPT ![c] = Append(@, [i |-> s[2], answer |-> a])]
    <2>1. CASE answers'[s] = answers[s] \/ ~Runs(c)
      BY <1>6, <2>1 DEF Hand, c
    <2>2. CASE answers'[s] # answers[s] /\ Runs(c)
      <3>1. PICK a \in Service!Answer : answers'[s] = <<a>>
        BY <1>7, <2>2
      <3>2. answers'[s][1] = a
        BY <3>1
      <3>3. rpc' = [rpc EXCEPT ![c] = Append(@, [i |-> s[2], answer |-> answers'[s][1]])]
        BY <1>6, <2>2 DEF Hand, c
      <3> QED BY <3>1, <3>2, <3>3
    <2> QED BY <2>1, <2>2
  <1>10. s[2] \in app[c].open /\ s[2] <= app[c].nb
    BY <1>3, <1>4, <1>5, <1>7 DEF IInv, Rest, Opened, Fits, c
  <1>11. \A d \in Login : \A j \in 1..Len(rpc[d]) : <<d, rpc[d][j].i>> # s
    BY <1>7 DEF IInv, Rest, Unread
  <1>12. \A d \in Login : \A j \in 1..Len(rpc[d]) : <<d, rpc[d][j].i>> \in Slot
    <2>1. SUFFICES ASSUME NEW d \in Login, NEW j \in 1..Len(rpc[d])
                   PROVE  <<d, rpc[d][j].i>> \in Slot
      OBVIOUS
    <2>2. rpc[d][j].i \in 1..app[d].nb
      BY DEF IInv, Rest, AnsweredOnce
    <2>3. app[d].nb <= MaxLines[d] + 1 /\ MaxLines[d] \in Nat /\ app[d].nb \in Nat
      BY <1>3, Numbers, MessagingAssumption DEF IInv, Rest, Numbered
    <2> QED BY <2>2, <2>3, Slots
  <1>13. \A d \in Login : Steady(d)
    BY <1>1, <1>3, Numbers DEF Steady
  <1>14. TypeOK'
    <2>1. \A a \in Service!Answer :
            [i |-> s[2], answer |-> a] \in [i : Nat, answer : Service!Answer]
      BY <1>4
    <2>2. rpc \in [Login -> Seq([i : Nat, answer : Service!Answer])]
      BY <1>3 DEF TypeOK
    <2>3. rpc' \in [Login -> Seq([i : Nat, answer : Service!Answer])]
      <3>1. ASSUME NEW a \in Service!Answer
            PROVE  [rpc EXCEPT ![c] = Append(@, [i |-> s[2], answer |-> a])]
                     \in [Login -> Seq([i : Nat, answer : Service!Answer])]
        BY <1>4, <2>1, <2>2, Sockets
      <3> QED BY <1>9, <2>2, <3>1
    <2> QED BY <1>1, <1>3, <1>8, <2>3 DEF TypeOK
  <1>15. Numbered' /\ OnlyOpen' /\ AddresseeKept'
    BY <1>1 DEF IInv, Rest, Numbered, OnlyOpen, AddresseeKept
  <1>16. Queued'
    <2>1. \A x \in Node : \A j \in 1..Len(inbox'[x]) :
            \E l \in 1..Len(inbox[x]) : inbox'[x][j] = inbox[x][l]
      <3>1. SUFFICES ASSUME NEW x \in Node, NEW j \in 1..Len(inbox'[x])
                     PROVE  \E l \in 1..Len(inbox[x]) : inbox'[x][j] = inbox[x][l]
        OBVIOUS
      <3>2. CASE x = n /\ inbox'[n] = Tail(inbox[n])
        BY <1>2, <3>2
      <3>3. CASE x = n /\ inbox'[n] = <<>>
        BY <3>3
      <3>4. CASE x # n
        BY <1>8, <3>4
      <3> QED BY <1>8, <3>2, <3>3, <3>4
    <2> QED BY <1>3, <1>13, <2>1, QueueStays DEF IInv, Rest
  <1>17. Served'
    <2>1. ASSUME NEW x \in Slot, asked'[x] # None
          PROVE  Fits(x[1], x[2], asked'[x])
      <3>1. CASE x = s
        BY <1>5, <1>7, <3>1 DEF c
      <3>2. CASE x # s
        BY <1>7, <2>1, <3>2 DEF IInv, Rest, Served
      <3> QED BY <3>1, <3>2
    <2> QED BY <1>1, <2>1 DEF Served, Fits
  <1>18. Opened'
    <2>1. \A x \in Slot : asked'[x] = None => asked[x] = None
      BY <1>3, <1>7, NoneIsNoRequest
    <2> QED BY <1>1, <2>1 DEF IInv, Rest, Opened
  <1>19. ASSUME NEW d \in Login, NEW j \in 1..Len(rpc[d])
         PROVE  /\ asked'[<<d, rpc[d][j].i>>] # None
                /\ answers'[<<d, rpc[d][j].i>>] = <<rpc[d][j].answer>>
    BY <1>7, <1>11, <1>12 DEF IInv, Rest, Unread
  <1>20. Unread' /\ AnsweredOnce'
    <2>1. CASE rpc' = rpc
      BY <1>1, <1>19, <2>1 DEF IInv, Rest, Unread, AnsweredOnce
    <2>2. ASSUME NEW a \in Service!Answer, answers'[s] = <<a>>,
                 rpc' = [rpc EXCEPT ![c] = Append(@, [i |-> s[2], answer |-> a])]
          PROVE  Unread' /\ AnsweredOnce'
      <3> DEFINE k == Len(rpc[c]) + 1
      <3>1. /\ rpc[c] \in Seq([i : Nat, answer : Service!Answer])
            /\ rpc'[c] = Append(rpc[c], [i |-> s[2], answer |-> a])
            /\ \A d \in Login : d # c => rpc'[d] = rpc[d]
        BY <1>3, <1>4, <2>2 DEF TypeOK
      <3>2. /\ Len(rpc[c]) \in Nat /\ Len(rpc'[c]) = k /\ rpc'[c][k] = [i |-> s[2], answer |-> a]
            /\ \A j \in 1..k : j # k => j \in 1..Len(rpc[c]) /\ rpc'[c][j] = rpc[c][j]
        BY <3>1
      <3> HIDE DEF k
      <3>3. \A j \in 1..Len(rpc[c]) : rpc[c][j].i # s[2]
        BY <1>4, <1>11
      <3>4. Unread'
        <4>1. SUFFICES ASSUME NEW d \in Login, NEW j \in 1..Len(rpc'[d])
                       PROVE  /\ asked'[<<d, rpc'[d][j].i>>] # None
                              /\ answers'[<<d, rpc'[d][j].i>>] = <<rpc'[d][j].answer>>
          BY DEF Unread
        <4>2. CASE d = c /\ j = k
          <5>1. rpc'[d][j].i = s[2] /\ rpc'[d][j].answer = a
            BY <3>2, <4>2
          <5>2. req # None
            BY <1>3, NoneIsNoRequest
          <5> QED BY <1>4, <1>7, <2>2, <4>2, <5>1, <5>2
        <4>3. CASE d # c \/ j # k
          <5>1. j \in 1..Len(rpc[d]) /\ rpc'[d][j] = rpc[d][j]
            BY <3>1, <3>2, <4>3
          <5> QED BY <1>19, <5>1
        <4> QED BY <4>2, <4>3
      <3>5. AnsweredOnce'
        <4>1. ASSUME NEW d \in Login, NEW j \in 1..Len(rpc'[d])
              PROVE  rpc'[d][j].i \in app[d].open
          <5>1. CASE d = c /\ j = k
            BY <1>10, <3>2, <5>1
          <5>2. CASE d # c \/ j # k
            <6>1. j \in 1..Len(rpc[d]) /\ rpc'[d][j] = rpc[d][j]
              BY <3>1, <3>2, <5>2
            <6> QED BY <6>1 DEF IInv, Rest, AnsweredOnce
          <5> QED BY <5>1, <5>2
        <4>2. ASSUME NEW d \in Login, NEW j \in 1..Len(rpc'[d]), NEW l \in 1..Len(rpc'[d]),
                     rpc'[d][j].i = rpc'[d][l].i
              PROVE  j = l
          <5>1. CASE d # c
            BY <3>1, <4>2, <5>1 DEF IInv, Rest, AnsweredOnce
          <5>2. CASE d = c
            <6>1. \A x \in 1..k : rpc'[c][x].i = s[2] <=> x = k
              BY <3>2, <3>3
            <6>2. \A x, y \in 1..Len(rpc[c]) : rpc[c][x].i = rpc[c][y].i => x = y
              BY <1>4 DEF IInv, Rest, AnsweredOnce
            <6>3. j \in 1..k /\ l \in 1..k
              BY <3>2, <5>2
            <6> QED BY <3>2, <4>2, <5>2, <6>1, <6>2, <6>3
          <5> QED BY <5>1, <5>2
        <4> QED BY <1>1, <4>1, <4>2 DEF IInv, Rest, AnsweredOnce
      <3> QED BY <3>4, <3>5
    <2> QED BY <1>9, <2>1, <2>2
  <1>21. ASSUME NEW x \in Slot, NEW d \in Login, NEW name, asked[x] = get(d, name), name \in Login
         PROVE  asked'[x] = get(d, name)
    <2>1. get(d, name) \in Request
      BY <1>21 DEF Request, Name
    <2> QED BY <1>7, <1>21, <2>1, NoneIsNoRequest
  <1>22. LastNamed'
    BY <1>1, <1>21 DEF IInv, LastNamed
  <1>23. MessagesGoToNamed'
    <2>1. \A m \in sent : m.from \in Login
      BY <1>3 DEF TypeOK
    <2> QED BY <1>1, <1>21, <2>1 DEF IInv, MessagesGoToNamed
  <1> QED BY <1>7, <1>14, <1>15, <1>16, <1>17, <1>18, <1>20, <1>22, <1>23 DEF IInv, Rest

\* Objects that travel, deaths and restarts change nothing an application
\* knows of; requests that wait for a process that dies are lost.
LEMMA ProcessKeeps ==
  ASSUME NEW n \in Node, IInv, Learn(n) \/ Crash(n) \/ Restart(n)
  PROVE  IInv'
  <1>1. TypeOK /\ MaxDeaths \in Nat
    BY MessagingAssumption DEF IInv
  <1>2. \/ \E s \in Slot : D!Learn(n, s)
        \/ D!Crash(n)
        \/ D!Restart(n)
    BY DEF Learn, Crash, Restart, Service!Learn, D!Learn, Service!Crash, D!Crash,
           Service!Restart, D!Restart, Service!Store, D!Store, Service!Dies, D!Dies,
           Service!Over, D!Over, Service!ObjectOf, D!ObjectOf
  <1>3. D!IInv'
    BY <1>2, StepKeepsD DEF IInv, D!Next
  <1>4. UNCHANGED <<app, rpc, p2p, sent, asked, answers>>
    BY DEF Learn, Crash, Restart, Service!Learn, Service!Crash, Service!Restart
  <1>5. deaths' \in 0..MaxDeaths
    BY <1>1 DEF TypeOK, Learn, Crash, Restart
  <1>6. /\ inbox' \in [Node -> Seq([slot : Slot, req : Request])]
        /\ inbox'[n] = inbox[n] \/ inbox'[n] = <<>>
        /\ \A x \in Node : x # n => inbox'[x] = inbox[x]
    <2>1. <<>> \in Seq([slot : Slot, req : Request])
      OBVIOUS
    <2>2. CASE Crash(n)
      BY <1>1, <2>1, <2>2, DropTypes DEF Crash
    <2>3. CASE inbox' = inbox
      BY <1>1, <2>3 DEF TypeOK
    <2> QED BY <2>2, <2>3 DEF Learn, Restart
  <1>7. TypeOK'
    BY <1>1, <1>4, <1>5, <1>6 DEF TypeOK
  <1>8. \A d \in Login : Steady(d)
    BY <1>1, <1>4, Numbers DEF Steady
  <1>9. Queued'
    <2>1. \A x \in Node : \A j \in 1..Len(inbox'[x]) :
            \E l \in 1..Len(inbox[x]) : inbox'[x][j] = inbox[x][l]
      BY <1>6
    <2> QED BY <1>1, <1>8, <2>1, QueueStays DEF IInv, Rest
  <1>10. Served'
    BY <1>1, <1>4, <1>8, ServedStays DEF IInv, Rest
  <1>11. /\ Numbered' /\ Opened' /\ Unread' /\ AnsweredOnce' /\ OnlyOpen'
         /\ LastNamed' /\ AddresseeKept' /\ MessagesGoToNamed'
    BY <1>4 DEF IInv, Rest, Numbered, Opened, Unread, AnsweredOnce, OnlyOpen,
                LastNamed, AddresseeKept, MessagesGoToNamed
  <1> QED BY <1>3, <1>7, <1>9, <1>10, <1>11 DEF IInv, Rest

-----------------------------------------------------------------------------
(* The invariant holds, and with it the properties. *)

LEMMA InitHolds ==
  ASSUME Init
  PROVE  IInv
  <1>1. \A c \in Login : /\ app[c] \in AppRecord
                         /\ app[c].pc = "start" /\ app[c].last = Nobody /\ app[c].lines = 0
                         /\ app[c].nb = 0 /\ app[c].open = {}
    <2>1. SUFFICES ASSUME NEW c \in Login
                   PROVE  /\ app[c] \in AppRecord
                          /\ app[c].pc = "start" /\ app[c].last = Nobody
                          /\ app[c].lines = 0 /\ app[c].nb = 0 /\ app[c].open = {}
      OBVIOUS
    <2>2. app[c] \in [pc : {"start"}, tv : {Wait}, tv2 : {Wait}, dirty : BOOLEAN,
                      to : {Nobody}, last : {Nobody}, clean : {FALSE},
                      lines : {0}, nb : {0}, open : {{}}]
      BY DEF Init
    <2>3. Wait \in 0..Wait /\ Nobody \in Name /\ {} \in SUBSET Nat
      BY MessagingAssumption DEF Name
    <2>4. PICK b \in BOOLEAN :
            app[c] = [pc |-> "start", tv |-> Wait, tv2 |-> Wait, dirty |-> b, to |-> Nobody,
                      last |-> Nobody, clean |-> FALSE, lines |-> 0, nb |-> 0, open |-> {}]
      BY <2>2
    <2>5. app[c] \in AppRecord
      BY <2>3, <2>4 DEF AppRecord
    <2> QED BY <2>4, <2>5
  <1>2. app \in [Login -> AppRecord]
    BY <1>1 DEF Init
  <1>3. MaxDeaths \in Nat /\ \A c \in Login : MaxLines[c] \in Nat
    BY MessagingAssumption
  <1>4. TypeOK
    BY <1>2, <1>3 DEF Init, TypeOK, AppRecord
  <1>5. D!IInv
    <2>1. D!Init
      BY DEF Init, Service!Init, D!Init
    <2> QED BY <2>1 DEF D!Init, D!IInv, D!TypeOK, D!Integrity, D!HeldWasPut, D!AnsweredTruly
  <1>6. \A s \in Slot : asked[s] = None
    BY DEF Init, Service!Init
  <1>7. Numbered /\ AnsweredOnce /\ OnlyOpen /\ Unread
    BY <1>1, <1>3 DEF Init, Numbered, AnsweredOnce, OnlyOpen, Unread
  <1>8. Queued /\ Served
    BY <1>6 DEF Init, Queued, Served
  <1>9. Opened
    BY <1>1, Slots DEF Opened
  <1>10. LastNamed /\ AddresseeKept /\ MessagesGoToNamed
    BY <1>1, MessagingAssumption DEF Init, LastNamed, AddresseeKept, MessagesGoToNamed
  <1> QED BY <1>4, <1>5, <1>7, <1>8, <1>9, <1>10 DEF IInv, Rest

\* The histories of messages are kept by a step that sends none and asks nobody.
LEMMA SentStays ==
  ASSUME IInv, UNCHANGED <<sent, asked>>
  PROVE  AddresseeKept' /\ MessagesGoToNamed'
  BY DEF IInv, AddresseeKept, MessagesGoToNamed

LEMMA DStays ==
  ASSUME IInv, UNCHANGED dht
  PROVE  D!IInv' /\ UNCHANGED asked
  BY StepKeepsD DEF IInv, dht, D!vars

LEMMA ApplicationKeeps ==
  ASSUME NEW c \in Login, IInv, Start(c) \/ Selects(c) \/ Show(c) \/ Types(c)
  PROVE  IInv'
  <1>1. TypeOK /\ Rest /\ LastNamed
    BY DEF IInv
  <1>2. ASSUME TypeOK', Quiet(c), UNCHANGED <<sent, dht>>
        PROVE  IInv'
    BY <1>1, <1>2, QuietKeeps, SentStays, DStays DEF IInv
  <1>3. ASSUME NEW req, TypeOK', Sends(c, req), UNCHANGED <<sent, dht>>
        PROVE  IInv'
    BY <1>1, <1>3, SendsKeeps, SentStays, DStays DEF IInv
  <1>4. CASE Start(c)
    BY <1>1, <1>3, <1>4, StartSends DEF Start
  <1>5. CASE WaitToEnter(c) \/ WaitForAnswer(c) \/ Show(c)
    BY <1>1, <1>2, <1>5, WaitsAreQuiet
  <1>6. CASE Enter(c)
    BY <1>1, <1>6, EnterTakes, TakesKeeps, SentStays, DStays DEF IInv
  <1>7. CASE SendMessage(c)
    BY <1>1, <1>7, SendMessageTakes, TakesKeeps, DStays DEF IInv
  <1>8. CASE Stumble(c)
    BY <1>1, <1>2, <1>8, ExitIsQuiet DEF Stumble
  <1>9. ASSUME NEW line \in Line[c],
               \/ ShortLine(c, line) \/ Command(c, line) \/ Overflow(c, line)
               \/ Message(c, line) \/ Misread(c, line)
        PROVE  IInv'
    <2>1. CASE ShortLine(c, line) \/ Overflow(c, line)
      BY <1>1, <1>2, <2>1, ExitIsQuiet DEF ShortLine, Overflow, Reads
    <2>2. CASE Command(c, line)
      BY <1>1, <1>3, <2>2, CommandSends DEF Command
    <2>3. ASSUME NEW name \in Name, NEW long \in BOOLEAN, Reads(c), AskAddress(c, name, long)
          PROVE  IInv'
      BY <1>1, <1>3, <2>3, AskAddressSends DEF AskAddress
    <2>4. line.to \in Name /\ line.long \in BOOLEAN /\ Nobody \in Name
      BY MessagingAssumption DEF Name
    <2>5. CASE Message(c, line)
      BY <2>3, <2>4, <2>5 DEF Message
    <2>6. CASE Misread(c, line)
      BY <2>3, <2>4, <2>6 DEF Misread
    <2> QED BY <1>9, <2>1, <2>2, <2>5, <2>6
  <1> QED BY <1>4, <1>5, <1>6, <1>7, <1>8, <1>9 DEF Selects, Types

LEMMA NextKeeps ==
  ASSUME IInv, [Next]_vars
  PROVE  IInv'
  <1>1. CASE UNCHANGED vars
    <2>1. D!IInv'
      BY <1>1, DStays DEF vars, dht
    <2>2. TypeOK'
      BY <1>1 DEF vars, IInv, TypeOK
    <2>3. Numbered' /\ Queued' /\ Served' /\ Opened' /\ Unread'
      BY <1>1 DEF vars, IInv, Rest, Numbered, Queued, Served, Fits, Opened, Unread
    <2>4. AnsweredOnce' /\ OnlyOpen' /\ LastNamed' /\ AddresseeKept' /\ MessagesGoToNamed'
      BY <1>1 DEF vars, IInv, Rest, AnsweredOnce, OnlyOpen, LastNamed, AddresseeKept,
                  MessagesGoToNamed
    <2> QED BY <2>1, <2>2, <2>3, <2>4 DEF IInv, Rest
  <1>2. ASSUME NEW c \in Login, Start(c) \/ Selects(c) \/ Show(c) \/ Types(c)
        PROVE  IInv'
    BY <1>2, ApplicationKeeps
  <1>3. ASSUME NEW n \in Node, Serve(n)
        PROVE  IInv'
    BY <1>3, ServeKeeps
  <1>4. ASSUME NEW n \in Node, Learn(n) \/ Crash(n) \/ Restart(n)
        PROVE  IInv'
    BY <1>4, ProcessKeeps
  <1> QED BY <1>1, <1>2, <1>3, <1>4 DEF Next

THEOREM SpecIInv == Spec => []IInv
  BY InitHolds, NextKeeps, PTL DEF Spec

\* Every variable has its type, whatever users type and processes do.
THEOREM SpecTypeOK == Spec => []TypeOK
  <1>1. IInv => TypeOK
    BY DEF IInv
  <1> QED BY SpecIInv, <1>1, PTL

\* What is in an RPC socket of messaging.c answers requests that were not
\* answered before, one each.
THEOREM SpecAnsweredOnce == Spec => []AnsweredOnce
  <1>1. IInv => AnsweredOnce
    BY DEF IInv, Rest
  <1> QED BY SpecIInv, <1>1, PTL

\* A message of messaging.c goes to the login in its line if no answer was
\* unread when the address was asked for.
THEOREM SpecAddresseeKept == Spec => []AddresseeKept
  <1>1. IInv => AddresseeKept
    BY DEF IInv
  <1> QED BY SpecIInv, <1>1, PTL

\* Every message goes to somebody its sender asked for, whatever is unread.
THEOREM SpecMessagesGoToNamed == Spec => []MessagesGoToNamed
  <1>1. IInv => MessagesGoToNamed
    BY DEF IInv
  <1> QED BY SpecIInv, <1>1, PTL
=============================================================================
