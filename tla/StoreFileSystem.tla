-------------------------- MODULE StoreFileSystem --------------------------
(***************************************************************************)
(* One list of store_file.c under the calls kademlia.c makes on it: store  *)
(* an entry, delete the entry of a key, drop the entries that are too old. *)
(* The calls come in any order while the clock runs.                       *)
(***************************************************************************)
EXTENDS StoreFile

CONSTANTS Key, Value,
          Age,       \* the ages the callers clean with
          MaxTime    \* bound on the clock

ASSUME StoreFileAssumption == Age \subseteq Nat /\ MaxTime \in Nat

VARIABLES values, now

vars == <<values, now>>

Init == values = <<>> /\ now = 0

Insert(key, value) ==
  /\ values' = insert_to_tail_file(values, create_store_file(key, value, now), now)
  /\ UNCHANGED now

Delete(key) ==
  /\ values' = delete_key(values, key)
  /\ UNCHANGED now

Clean(age) ==
  /\ values' = clean(values, age, now)
  /\ UNCHANGED now

Tick ==
  /\ now < MaxTime
  /\ now' = now + 1
  /\ UNCHANGED values

Next ==
  \/ \E key \in Key, value \in Value : Insert(key, value)
  \/ \E key \in Key : Delete(key)
  \/ \E age \in Age : Clean(age)
  \/ Tick

Spec == Init /\ [][Next]_vars

-----------------------------------------------------------------------------

FileType == [key : Key, value : Value, timestamp : Nat, count : Nat]

TypeOK == values \in Seq(FileType) /\ now \in Nat

\* delete_key returns after the head, and skips the successor of an entry it
\* unlinks; find_key returns the first entry of a key: both are right as no two
\* entries ever share a key.
UniqueKeys ==
  \A i, j \in 1..Len(values) : values[i].key = values[j].key => i = j

\* clean stops at the first entry that is young enough: it misses none as the
\* entries are always in the order of their stamps, none of which is ahead of
\* the clock.
Ascending ==
  /\ \A i, j \in 1..Len(values) : i < j => values[i].timestamp <= values[j].timestamp
  /\ \A i \in 1..Len(values) : values[i].timestamp <= now

\* The list, read with find_key, is a map from keys to what was last stored.
Mapping ==
  [k \in Keys(values) |-> [value     |-> find_key(values, k).value,
                           timestamp |-> find_key(values, k).timestamp]]

Abstract == INSTANCE KeyedStore WITH store <- Mapping, clock <- now

\* Every call on the list is the operation of the map it is meant to be:
\* insert_to_tail_file replaces, delete_key removes the key, clean drops
\* exactly the entries older than its age.
ImplementsKeyedStore == Abstract!Spec
=============================================================================
