---------------------------- MODULE MCMessaging ----------------------------
(* Two or three applications for module Messaging, and what their users type. *)
EXTENDS Messaging

CONSTANTS joe, jack, n1, n2

To(name, long) == [cmd |-> "to", to |-> name, long |-> long]
Cmd(q)         == [cmd |-> q, to |-> Nobody, long |-> FALSE]

Pair    == {joe, jack}
OneEach == [c \in Pair |-> IF c = joe THEN n1 ELSE n2]
TwoAndOne == [c \in Pair |-> IF c = joe THEN 2 ELSE 1]

\* Joe types anything, jack a message to joe.
Talk == [c \in Pair |->
           IF c = joe THEN {To(jack, FALSE), To(jack, TRUE), Cmd("print"), Cmd("ping"),
                            Cmd("find_node"), Cmd("kill_node"), Cmd("short")}
           ELSE {To(joe, FALSE)}]
=============================================================================
