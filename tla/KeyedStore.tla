----------------------------- MODULE KeyedStore -----------------------------
(***************************************************************************)
(* What the lists of store_file.c promise the functions of kademlia.c: a   *)
(* map from keys to the last value stored under them and the time it was   *)
(* stored, from which what is too old can be dropped.                      *)
(***************************************************************************)
EXTENDS Integers

CONSTANTS Key, Value, Age

VARIABLES store, clock

Init == store = [k \in {} |-> [value |-> k, timestamp |-> 0]] /\ clock = 0

\* The last value stored under a key replaces what was there.
Put(key, value) ==
  /\ store' = [k \in DOMAIN store \cup {key} |->
                 IF k = key THEN [value |-> value, timestamp |-> clock] ELSE store[k]]
  /\ UNCHANGED clock

Remove(key) ==
  /\ store' = [k \in DOMAIN store \ {key} |-> store[k]]
  /\ UNCHANGED clock

\* Everything older than age goes, and nothing else.
Expire(age) ==
  /\ store' = [k \in {k \in DOMAIN store : store[k].timestamp >= clock - age} |-> store[k]]
  /\ UNCHANGED clock

Pass == clock' = clock + 1 /\ UNCHANGED store

Next ==
  \/ \E key \in Key, value \in Value : Put(key, value)
  \/ \E key \in Key : Remove(key)
  \/ \E age \in Age : Expire(age)
  \/ Pass

Spec == Init /\ [][Next]_<<store, clock>>
=============================================================================
