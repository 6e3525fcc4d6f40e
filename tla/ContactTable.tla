---------------------------- MODULE ContactTable ----------------------------
(***************************************************************************)
(* The contact table of one machine among neighbours that ping it whenever *)
(* they like and answer its pings soon, late or never.  The neighbours are *)
(* the environment: they are not modelled beyond the datagrams they send.  *)
(* Each datagram goes through kademMaintenance, which refreshes the        *)
(* buckets, files the sender and lets waiting nodes in, and then through   *)
(* its handler.                                                            *)
(***************************************************************************)
EXTENDS Machine

CONSTANTS Self,         \* the machine
          Neighbour,    \* the identifiers that send it datagrams
          MaxTime, MaxPings

ASSUME ContactTableAssumption ==
  /\ Neighbour \subseteq NodeId /\ Self \in NodeId \ Neighbour
  /\ MaxTime \in Nat /\ MaxPings \in Nat
  /\ PingPeriod <= KADEM_TIMEOUT_REFRESH_DATA    \* 2 and 300

VARIABLES m,         \* the record of module Machine
          pinged,    \* pings of the machine that were not answered: [t, dst, at]
          pings      \* how many pings the neighbours have sent

vars == <<now, m, pinged, pings>>

Init ==
  /\ now = 0
  /\ m = NewMachine(Self, 1)
  /\ pinged = {}
  /\ pings = 0

\* The machine becomes after; what it sent is moved to the environment.
Become(after, answered) ==
  /\ m' = [after EXCEPT !.outbox = {}]
  /\ pinged' = (pinged \ answered)
               \cup {[t |-> p.msg.t, dst |-> p.dst, at |-> now] :
                       p \in {sent \in after.outbox : sent.msg.y = "q"}}

\* The machine handles datagram msg of n.
Handle(n, msg, answered) ==
  /\ m.alive
  /\ \E wild \in BOOLEAN :
       Become(HandleMessage(m, msg, n, [count |-> 0, wild |-> wild]), answered)
  /\ UNCHANGED now

\* A neighbour pings the machine.
PingFrom(n) ==
  /\ pings < MaxPings
  /\ pings' = pings + 1
  /\ Handle(n, [y |-> "q", q |-> "ping", t |-> [id |-> n, nb |-> pings], id |-> n], {})

\* A neighbour answers a ping of the machine.
PongTo(p) ==
  /\ p \in pinged
  /\ Handle(p.dst, [y |-> "r", t |-> p.t, id |-> p.dst], {p})
  /\ UNCHANGED pings

Tick ==
  /\ now < MaxTime
  /\ now' = now + 1
  /\ UNCHANGED <<m, pinged, pings>>

Next ==
  \/ \E n \in Neighbour : PingFrom(n)
  \/ \E p \in pinged : PongTo(p)
  \/ Tick

Spec == Init /\ [][Next]_vars

-----------------------------------------------------------------------------
(* Properties that hold. *)

\* Types: a bucket holds at most length_bucket contacts, pinged at most twice,
\* whose stamps are never ahead of the clock by more than the two pings' worth.
TypeOK ==
  /\ now \in 0..MaxTime /\ pings \in 0..MaxPings
  /\ \A b \in Buckets : LET list == m.table[b] IN
       /\ Len(list) <= length_bucket
       /\ \A i \in 1..Len(list) : /\ list[i].nodeID \in Neighbour
                                  /\ list[i].count \in 0..2
                                  /\ list[i].timestamp \in 0..now
  /\ \A i \in 1..Len(m.waiting_nodes) : m.waiting_nodes[i].value \in Neighbour

\* Whoever waits for a place waits for a contact the machine has pinged for it
\* at that moment and that has not answered: an answer within the life of a
\* query ends the wait, whatever happened to the bucket in between.
WaitersAreJustified ==
  \A i \in 1..Len(m.waiting_nodes) :
    LET w == m.waiting_nodes[i]
    IN  \/ now - w.timestamp > KADEM_TIMEOUT_REFRESH_QUERY
        \/ \E p \in pinged : p.dst = w.key /\ p.at = w.timestamp

\* A contact is in the bucket of its distance and nowhere else, the machine is
\* not its own contact, and a waiting node waits for the bucket it belongs to:
\* InsertWaiting puts it where the pinged contact was, without looking.
Placement ==
  /\ \A b \in Buckets : \A id \in Ids(m.table[b]) : find_node_details(Self, id) = b
  /\ \A i \in 1..Len(m.waiting_nodes) :
       LET w == m.waiting_nodes[i]
       IN  find_node_details(Self, w.key) = find_node_details(Self, w.value)

Stale(c) == c.count = 2 /\ now - c.timestamp > KADEM_TIMEOUT_REFRESH_DATA

\* A node leaves a bucket only when its contact is stale after two pings, or when
\* somebody has waited for a place in that bucket longer than a ping may take,
\* and then only as many nodes leave as have waited.
NoContactLeavesEarly ==
  [][\A b \in Buckets :
       LET Early(c) == c.nodeID \notin Ids(m.table'[b]) /\ ~Stale(c)
           left     == {m.table[b][i].nodeID :
                          i \in {j \in DOMAIN m.table[b] : Early(m.table[b][j])}}
           overdue  == {i \in DOMAIN m.waiting_nodes :
                          /\ find_node_details(Self, m.waiting_nodes[i].key) = b
                          /\ Overdue(m.waiting_nodes[i])}
       IN  m.alive' => Cardinality(left) <= Cardinality(overdue)]_vars
=============================================================================
