----------------------------- MODULE StoreFile -----------------------------
(***************************************************************************)
(* The keyed lists of store_file.c.  A list is a sequence of entries       *)
(* [key, value, timestamp, count], head first; the machine keeps its       *)
(* stored objects, its sent queries, its tokens, its waiting nodes and its *)
(* find queries in such lists.  now is what time(NULL) returns.            *)
(***************************************************************************)
EXTENDS Integers, Sequences

\* Mutant: the key and the value in each other's field.
create_store_file_swapped(key, value, now) ==
  [key |-> value, value |-> key, timestamp |-> now, count |-> 0]

\* create_store_file leaves count uninitialised; the three callers that read
\* it set it first, or take the value the allocator left (Machine!lookUpRound).
create_store_file(key, value, now) ==
  [key |-> key, value |-> value, timestamp |-> now, count |-> 0]

Keys(values) == {values[i].key : i \in 1..Len(values)}

find_key(values, key) ==
  values[CHOOSE i \in 1..Len(values) : /\ values[i].key = key
                                       /\ \A j \in 1..i-1 : values[j].key # key]

\* Unlinks the first entry stored under key.  The loop of the code goes on
\* behind it, over entries of other keys: keys are unique (UniqueKeys).
delete_key(values, key) ==
  IF key \notin Keys(values) THEN values
  ELSE LET i == CHOOSE i \in 1..Len(values) :
                  /\ values[i].key = key
                  /\ \A j \in 1..i-1 : values[j].key # key
       IN  SubSeq(values, 1, i-1) \o SubSeq(values, i+1, Len(values))

\* Mutant: what the key held before is not deleted.
insert_to_tail_file_keeping(values, file, now) ==
  Append(values, [file EXCEPT !.timestamp = now])

\* Mutant: an entry that exists is stamped where it is.
insert_to_tail_file_in_place(values, file, now) ==
  IF file.key \notin Keys(values) THEN Append(values, [file EXCEPT !.timestamp = now])
  ELSE [i \in DOMAIN values |-> IF values[i].key = file.key
                               THEN [file EXCEPT !.timestamp = now] ELSE values[i]]

\* Replaces what the key held: the entry goes to the tail, stamped with now.
insert_to_tail_file(values, file, now) ==
  Append(delete_key(values, file.key), [file EXCEPT !.timestamp = now])

\* Mutant: an entry that is exactly as old as age goes too.
clean_early(values, age, now) ==
  LET old(i) == values[i].timestamp <= now - age
      n == CHOOSE n \in 0..Len(values) :
             /\ \A i \in 1..n : old(i)
             /\ n < Len(values) => ~old(n+1)
  IN  SubSeq(values, n+1, Len(values))

\* Drops the head while it is older than age; stops at the first young entry.
clean(values, age, now) ==
  LET old(i) == values[i].timestamp < now - age
      n == CHOOSE n \in 0..Len(values) :
             /\ \A i \in 1..n : old(i)
             /\ n < Len(values) => ~old(n+1)
  IN  SubSeq(values, n+1, Len(values))
=============================================================================
