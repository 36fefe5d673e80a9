---------------------------- MODULE BoundedKeySet ---------------------------
(***************************************************************************)
(* The value of a boundedKeySet (src/armatureanalytics/bounded_keys.go):   *)
(* the map of its keys and the order in which they were added.  The caller *)
(* holds s.mu around each operation.                                       *)
(***************************************************************************)
EXTENDS Integers, Sequences

Empty == [keys |-> {}, order |-> <<>>]

Full(s, max) == Len(s.order) >= max

\* The key that Add throws out of a full set, if any.
Oldest(s, max) == IF Full(s, max) THEN {Head(s.order)} ELSE {}

\* Add of a new key, and of one that is there.
Insert(s, k, max) ==
    [keys  |-> (s.keys \ Oldest(s, max)) \cup {k},
     order |-> Append(IF Full(s, max) THEN Tail(s.order) ELSE s.order, k)]
Add(s, k, max) == IF k \in s.keys THEN s ELSE Insert(s, k, max)

\* append(s.order[:i], s.order[i+1:]...)
Without(q, i) ==
    [j \in 1..Len(q) - 1 |-> IF j < i THEN q[j] ELSE q[j + 1]]

Place(q, k) == CHOOSE i \in 1..Len(q) : q[i] = k

Delete(s, k) ==
    IF k \in s.keys
    THEN [keys |-> s.keys \ {k}, order |-> Without(s.order, Place(s.order, k))]
    ELSE s

\* The order lists every key once and nothing else, so that eviction removes
\* the oldest key and never one that was forgotten and added again.
WellFormed(s, max) ==
    /\ s.keys = {s.order[i] : i \in 1..Len(s.order)}
    /\ \A i, j \in 1..Len(s.order) : s.order[i] = s.order[j] => i = j
    /\ Len(s.order) <= max

=============================================================================
