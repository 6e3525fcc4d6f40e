------------------------------ MODULE MCLookup ------------------------------
(* Five peers and two objects, distances of which fit the number sscanf      *)
(* parses into, saturate, or are equal in the code's eyes.                   *)
EXTENDS Lookup

self == {2, 3}
p == {}
q == {0}
r == {1}
s == {0, 1}
u == {1, 3}
Peers     == {p, q, r, s, u}
Greetings == {<<p>>, <<q, p, r>>, <<u, s, p>>}
Asked     == {[q |-> "put", value |-> {0, 2, 3}, data |-> "d"], [q |-> "get", value |-> {3}],
              [q |-> "find_node", value |-> {1, 2}]}
Answers   == {<<>>, <<p, r>>, <<s, self, q>>, <<u, q>>}
=============================================================================
