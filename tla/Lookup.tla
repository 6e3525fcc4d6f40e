------------------------------- MODULE Lookup -------------------------------
(***************************************************************************)
(* One search of one machine: the request of a local client that begins it *)
(* and the peers that answer its find queries, with any contacts, in any   *)
(* order, in time or too late.  The peers are the environment, and nobody  *)
(* holds the object looked for.  The identifiers are wider than what the   *)
(* code reads of a distance, as they are in the program (128 bits, of      *)
(* which the low 64 saturate).                                             *)
(***************************************************************************)
EXTENDS Machine

CONSTANTS Self, Id,              \* the machine and its peers
          Met,                   \* whom the machine has met: sequences of peers
          Request,               \* what its client may ask
          Named,                 \* what an answer may name: sequences of identifiers
          UninitialisedCounts,   \* what malloc may leave in store_file.count
          MaxTime, MaxAnswers

ASSUME LookupAssumption ==
  /\ Id \subseteq NodeId /\ Self \in NodeId \ Id
  /\ Met \subseteq Seq(Id) /\ Named \subseteq Seq(Id \cup {Self})
  /\ \A req \in Request :
       \/ /\ req.q \in {"put", "get"}
          /\ req.value \in NodeId \ (Id \cup {Self})
       \/ /\ req.q \in {"ping", "find_node"}
          /\ "value" \in DOMAIN req /\ req.value \in NodeId
  /\ UninitialisedCounts \subseteq Int
  /\ MaxTime \in Nat /\ MaxAnswers \in Nat

VARIABLES searches,   \* store_find_queries of the machine: the search, while there is one
          query,      \* what the peers are asked
          asked,      \* [Id -> [0..MaxTime -> Nat]]: queries not answered, by time
          answers,    \* how many have been answered
          about       \* history: the contacts the last step was about

vars == <<now, searches, query, asked, answers, about>>

\* The queries among the datagrams of outbox, sent now.
Sent(outbox) ==
  [n \in Id |-> [at \in 0..MaxTime |->
     IF at = now THEN Cardinality({p \in outbox : p.dst = n}) ELSE 0]]

\* The machine when it has met these peers.
Acquainted(met) ==
  [NewMachine(Self, 1) EXCEPT
     !.table = FoldLeft(LAMBDA t, id : insert_into_contact_table(t, Self, id, now), @, met)]

\* A client's request begins a search.
Init ==
  /\ now = 0
  /\ \E met \in Met, req \in Request :
       LET m == HandleRequest(Acquainted(met), req, NoClient) IN
       /\ m.store_find_queries # <<>>
       /\ searches = m.store_find_queries
       /\ \E i \in 1..Len(m.sent_queries) : query = m.sent_queries[i].value
       /\ asked = Sent(m.outbox)
  /\ answers = 0
  /\ about = {}

\* The contacts of the search that were asked and have not answered in time.
GivenUp ==
  UNION {{c.nodeID : c \in {s.value[i] : i \in
             {j \in 1..Len(s.value) : /\ s.value[j].count = 1
                                      /\ now - s.value[j].timestamp > 2 * KADEM_TIMEOUT_PING}}} :
         s \in {searches[i] : i \in 1..Len(searches)}}

\* What maintenance leaves the handler of a message.
Maintained == [NewMachine(Self, 1) EXCEPT !.store_find_queries = PrunedSearches(searches)]

\* A peer answers a query that is still kept, with the contacts it is asked for.
PeerAnswers(from, at, named, garbage) ==
  LET msg   == [y |-> "r", id |-> from, nodes |-> named]
      after == HandleAnswerTo(query, Maintained, msg, garbage)
      sent  == Sent(after.outbox)
  IN  /\ searches # <<>> /\ answers < MaxAnswers
      /\ asked[from][at] > 0 /\ now - at <= KADEM_TIMEOUT_REFRESH_QUERY
      /\ searches' = after.store_find_queries
      /\ asked' = [n \in Id |-> [t \in 0..MaxTime |->
                     asked[n][t] + sent[n][t] - IF n = from /\ t = at THEN 1 ELSE 0]]
      /\ answers' = answers + 1
      /\ about' = {from} \cup {named[i] : i \in DOMAIN named} \cup GivenUp
      /\ UNCHANGED <<now, query>>

\* The machine receives some other message.
OtherMessage ==
  /\ searches # <<>>
  /\ searches' = Maintained.store_find_queries
  /\ about' = GivenUp
  /\ UNCHANGED <<now, query, asked, answers>>

Tick ==
  /\ now < MaxTime
  /\ now' = now + 1
  /\ about' = {}
  /\ UNCHANGED <<searches, query, asked, answers>>

Next ==
  \/ \E from \in Id, at \in 0..MaxTime, named \in Named,
        garbage \in [count : UninitialisedCounts, wild : BOOLEAN] :
       /\ \A i \in DOMAIN named : named[i] # from      \* see Kademlia!NeverItself
       /\ PeerAnswers(from, at, named, garbage)
  \/ OtherMessage
  \/ Tick

Spec == Init /\ [][Next]_vars

-----------------------------------------------------------------------------
(* Properties that hold. *)

\* The contacts of the search, in their order.
Contacts == IF searches = <<>> THEN <<>> ELSE searches[1].value
Distance(contact) == DistanceAsInt(searches[1].key, contact.nodeID)

\* There is one search at most.  Its contacts are peers, not more than two full lists
\* of them, and those that have answered are behind the others.
TypeOK ==
  /\ now \in 0..MaxTime /\ answers \in 0..MaxAnswers
  /\ Len(searches) <= 1 /\ Len(Contacts) <= 2*length_bucket
  /\ \A i \in 1..Len(Contacts) : Contacts[i].nodeID \in Id /\ Contacts[i].count \in 0..2
  /\ \A i, j \in 1..Len(Contacts) : i < j /\ Contacts[i].count = 2 => Contacts[j].count = 2

\* The contacts that have answered, to which a put sends its data, are in the order
\* of the distances as the code computes them, cut to an int and saturated when
\* they are too long; though the lists the search began with have no such order.
AnswersOrdered ==
  \A i, j \in 1..Len(Contacts) :
    i < j /\ Contacts[i].count = 2 /\ Contacts[j].count = 2 =>
      Distance(Contacts[i]) <= Distance(Contacts[j])

\* lookUpRound puts a node that answers once more among the results again, but no
\* more than two contacts at one distance are there: no node gets the data of a
\* put more than twice, however often it is asked.
AtMostTwice ==
  \A i, j, k \in 1..Len(Contacts) :
    i < j /\ j < k /\ {Contacts[i].count, Contacts[j].count, Contacts[k].count} = {2} =>
      \/ Distance(Contacts[i]) # Distance(Contacts[j])
      \/ Distance(Contacts[j]) # Distance(Contacts[k])

\* The identifiers of ids but those of S.
AllBut(ids, S) ==
  FoldLeft(LAMBDA kept, id : IF id \in S THEN kept ELSE Append(kept, id), <<>>, ids)

\* A round loses, repeats or moves no contact but the one that has answered, those
\* it names and those given up: pruning, deletion from the middle of one list,
\* insertions into two, and the two stuck together again.
OthersStay ==
  [][searches # <<>> /\ searches' # <<>> =>
       AllBut(NodeStrings(Contacts'), about') = AllBut(NodeStrings(Contacts), about')]_vars
=============================================================================
