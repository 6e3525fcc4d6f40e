----------------------------- MODULE MCKademlia -----------------------------
(* Small networks for module Kademlia: two or three machines, the contacts   *)
(* each has when the run begins, and the requests of its clients.            *)
EXTENDS Kademlia

\* Identifiers of four bits; k and k2 are keys of objects.
a == {}
b == {2}
c == {3}
k == {2, 3}
k2 == {1, 2, 3}
Trio == {a, b, c}
Couple == {a, b}

\* Who has met whom: in Chain b is between the other two; in Joining b, in Meeting
\* c is new.
Chain   == (a :> <<b>>) @@ (b :> <<a, c>>) @@ (c :> <<b>>)
Joining == (a :> <<b>>) @@ (b :> <<>>)
Meeting == (a :> <<b>>) @@ (b :> <<a>>) @@ (c :> <<>>)

\* Whom each is given on its command line.
NoPeers  == [n \in Trio |-> NoPeer]
JoinPair == (a :> NoPeer) @@ (b :> a)
JoinLast == (a :> NoPeer) @@ (b :> NoPeer) @@ (c :> a)
JoinNext == (a :> NoPeer) @@ (b :> NoPeer) @@ (c :> b)

Put(n, key, data) == [node |-> n, q |-> "put", value |-> key, data |-> data]
Request(n, query, value) == [node |-> n, q |-> query, value |-> value]

OnePut     == <<Put(a, k, "d1")>>
PutsAndKill == <<Put(c, k, "d1"), Put(c, k2, "d2"), Request(a, "kill_node", {})>>
TwoSearches == <<Put(a, k, "d1"), Request(c, "get", k2)>>
Holders    == <<Put(b, k, "d2"), Put(a, k, "d1"), Request(b, "get", k),
                Request(b, "find_node", k2), [node |-> a, q |-> "ping"]>>
SameKey    == <<Put(a, k, "d1"), Request(a, "get", k)>>
Pings      == <<Request(a, "ping", c), Request(a, "ping", c), Request(a, "ping", b),
                Request(b, "find_node", k)>>
=============================================================================
