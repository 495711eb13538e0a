------------------------------ MODULE LruCache ------------------------------
(***************************************************************************)
(* What the cache promises, with no list, no nodes and no pointers: a map   *)
(* from at most Capacity keys to entries.  dangerlog.txt, "When the cache   *)
(* is removed": if the cache is full the entry stored first is removed, and *)
(* an update counts as storing the entry anew.  So a key carries the number *)
(* of the put that last stored it, and a full cache gives up the key with   *)
(* the smallest number.                                                     *)
(***************************************************************************)
EXTENDS Integers, FiniteSets

CONSTANTS
    Keys,               \* request targets
    Capacity,           \* most entries kept
    Responses,          \* what put may be given
    NoEntry,            \* contents of a key that is not cached
    First(_, _),        \* First(r, t): the entry a response makes at time t
    Merge(_, _, _),     \* Merge(e, r, t): the entry e becomes with r at t
    MaxPuts,            \* bound: puts in a behaviour
    MaxTime             \* bound: the clock

VARIABLES
    stored,     \* stored[k]: number of the put that last stored k, 0 if none
    contents,   \* contents[k]: the entry of k, NoEntry if none
    puts,       \* puts so far
    now         \* the clock, in seconds

vars == <<stored, contents, puts, now>>

Cached == {k \in Keys : stored[k] > 0}

Oldest == {k \in Cached : \A m \in Cached : stored[k] <= stored[m]}

Init ==
    /\ stored = [k \in Keys |-> 0]
    /\ contents = [k \in Keys |-> NoEntry]
    /\ puts = 0
    /\ now = 0

\* An entry that is already there is merged with the response and is as new
\* as one stored for the first time.
Update(k, r) ==
    /\ k \in Cached
    /\ puts < MaxPuts
    /\ puts' = puts + 1
    /\ stored' = [stored EXCEPT ![k] = puts + 1]
    /\ contents' = [contents EXCEPT ![k] = Merge(contents[k], r, now)]
    /\ UNCHANGED now

\* There is room for one more.
Add(k, r) ==
    /\ k \notin Cached
    /\ Cardinality(Cached) < Capacity
    /\ puts < MaxPuts
    /\ puts' = puts + 1
    /\ stored' = [stored EXCEPT ![k] = puts + 1]
    /\ contents' = [contents EXCEPT ![k] = First(r, now)]
    /\ UNCHANGED now

\* There is none: the oldest entry goes.
Replace(old, k, r) ==
    /\ k \notin Cached
    /\ Cardinality(Cached) >= Capacity
    /\ old \in Oldest
    /\ puts < MaxPuts
    /\ puts' = puts + 1
    /\ stored' = [stored EXCEPT ![old] = 0, ![k] = puts + 1]
    /\ contents' = [contents EXCEPT ![old] = NoEntry, ![k] = First(r, now)]
    /\ UNCHANGED now

Tick ==
    /\ now < MaxTime
    /\ now' = now + 1
    /\ UNCHANGED <<stored, contents, puts>>

Next ==
    \/ \E k \in Keys, r \in Responses :
          \/ Update(k, r)
          \/ Add(k, r)
          \/ \E old \in Keys : Replace(old, k, r)
    \/ Tick

Spec == Init /\ [][Next]_vars

=============================================================================
