-------------------------------- MODULE Cache --------------------------------
(***************************************************************************)
(* The cache used by one thread at a time: every call of put with the       *)
(* responses its callers hand it, the clock moving in between.  put is one  *)
(* action per outcome of its isCached test, and the address the allocator   *)
(* returns is any free one, the node just deleted included.                 *)
(*                                                                          *)
(* stamp and puts are history variables: stamp[n] is the number of the put  *)
(* that last placed node n at the head.  Nothing in the code reads them;    *)
(* they say what "least recently stored" means, which responseTime cannot,  *)
(* because it only counts seconds.                                          *)
(***************************************************************************)
EXTENDS CacheOps

CONSTANTS
    Responses,  \* responses put is given
    MaxPuts,    \* bound: puts in a behaviour
    MaxTime     \* bound: the clock

ASSUME ResponsesAssumption == Responses \subseteq Response
ASSUME BoundsAssumption    == MaxPuts \in Nat /\ MaxTime \in Nat

VARIABLES
    cache,      \* Proxy::cache
    now,        \* what Time::getLocalUTC reads, in seconds
    stamp,      \* history: number of the put that last moved a node to head
    puts        \* history: puts so far

vars == <<cache, now, stamp, puts>>

\* key and r stand for what memory holds before a constructor writes it.
Init ==
    /\ \E key \in Keys, r \in Responses : cache = EmptyCache(key, NewEntry(r, 0))
    /\ now = 0
    /\ stamp = [n \in Nodes |-> 0]
    /\ puts = 0

Stamp(n) ==
    /\ puts < MaxPuts
    /\ puts' = puts + 1
    /\ stamp' = [stamp EXCEPT ![n] = puts + 1]

\* put of a key that has a node.
Update(k, r) ==
    /\ cache.wild = {}
    /\ IsCached(cache, k)
    /\ Stamp(cache.cacheMap[k])
    /\ cache' = PutCached(cache, k, r, now)
    /\ UNCHANGED now

\* put of a key that has none, the new node at any free address.
Insert(k, r) ==
    /\ cache.wild = {}
    /\ ~IsCached(cache, k)
    /\ \E n \in Nodes \ MakeRoom(cache).live :
          /\ Stamp(n)
          /\ cache' = PutNew(cache, k, r, n, now)
    /\ UNCHANGED now

Tick ==
    /\ now < MaxTime
    /\ now' = now + 1
    /\ UNCHANGED <<cache, stamp, puts>>

Next ==
    \/ \E k \in Keys, r \in Responses : Update(k, r) \/ Insert(k, r)
    \/ Tick

Spec == Init /\ [][Next]_vars

-----------------------------------------------------------------------------
(* Properties.                                                              *)

\* Every variable has its type.
TypeOK ==
    /\ cache \in CacheValue
    /\ now \in 0..MaxTime
    /\ puts \in 0..MaxPuts
    /\ stamp \in [Nodes -> 0..MaxPuts]

\* The whole structure put leaves behind: list, map and counter agree after
\* any sequence of calls, evictions and address reuse included.
WellFormed == Structure(cache)

\* No method follows a NULL or a freed pointer, although removeTail leaves
\* the next field of the new tail dangling: moveToHead is the only method
\* that follows next, and it never does so for the tail.
NoFault == cache.wild = {}

\* The list is in the order of the puts, so that it is one chain from head
\* to tail and the tail, which the next eviction takes, is the node stored
\* longest ago.
ListInPutOrder ==
    \A n \in cache.live :
       /\ n # cache.tail => stamp[n] > stamp[cache.next[n]]
       /\ stamp[cache.tail] <= stamp[n]

\* Cache.hpp: the list is kept in the order of responseTime, newest first
\* ("arrange by response_time", "LRU by response time").
ListInTimeOrder ==
    \A n \in cache.live :
       n # cache.tail => cache.entry[n].responseTime
                           >= cache.entry[cache.next[n]].responseTime

\* The inductive invariant of the proofs in Cache_proofs: every step of put,
\* from any state it admits, leads to a state it admits.
IInv == TypeOK /\ WellFormed /\ NoFault /\ Order(cache, stamp, puts, now)

\* The cache implements the bounded map of LruCache: the entry of a key is
\* what the cached node holds, and its age is that of the node.
NoEntry == <<>>

StoredAt ==
    [k \in Keys |-> IF IsCached(cache, k) THEN stamp[cache.cacheMap[k]] ELSE 0]

Contents ==
    [k \in Keys |-> IF IsCached(cache, k) THEN cache.entry[cache.cacheMap[k]]
                                         ELSE NoEntry]

Lru == INSTANCE LruCache WITH
    First <- NewEntry, Merge <- Updated, stored <- StoredAt, contents <- Contents

ImplementsLru == Lru!Spec

=============================================================================
