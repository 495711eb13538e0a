------------------------------ MODULE CacheOps ------------------------------
(***************************************************************************)
(* The cache of the proxy (Cache.cpp, Cache.hpp) as a value and the methods *)
(* of class Cache as operators from one cache value to the next.  A value c *)
(* is the object and the heap it owns:                                      *)
(*                                                                          *)
(*   head, tail     the ends of the doubly linked list of CacheNodes        *)
(*   size           the counter Cache::size                                 *)
(*   cacheMap       key -> node address, NULL where the key has no entry    *)
(*   live           the addresses that are allocated                        *)
(*   next, prev     the link fields of every address                        *)
(*   cacheKey       CacheNode::cacheKey                                     *)
(*   entry          the other fields of a CacheNode                         *)
(*   wild           NULL and freed pointers that a method has followed      *)
(*                                                                          *)
(* The operators are the methods run from start to end with nobody else in  *)
(* the cache; module CacheRace takes the same methods apart line by line.   *)
(***************************************************************************)
EXTENDS Integers, FiniteSets

CONSTANTS
    Keys,       \* request targets, the keys of cacheMap
    Nodes,      \* addresses at which `new CacheNode` can place a node
    NULL,       \* the null pointer
    Capacity,   \* Cache::CAPACITY (100 in the build)
    Tags,       \* values of an ETag or Last-Modified field, NoTag among them
    NoTag,      \* the empty string: the response has no such header
    Heads,      \* header blocks
    Bodies      \* message bodies

ASSUME NullAssumption     == NULL \notin Nodes
ASSUME CapacityAssumption == Capacity \in Nat \ {0}
ASSUME TagAssumption      == NoTag \in Tags

Pointer == Nodes \union {NULL}

\* What the cache keeps of a response: put is only called for these two.
Status == {"200", "304"}

Response ==
    [status : Status, ETag : Tags, LastModified : Tags,
     head : Heads, body : Bodies]

Entry ==
    [line : Status, ETag : Tags, LastModified : Tags,
     head : Heads, body : Bodies, responseTime : Nat]

CacheValue ==
    [head : Pointer, tail : Pointer, size : Int,
     cacheMap : [Keys -> Pointer], live : SUBSET Nodes,
     next : [Nodes -> Pointer], prev : [Nodes -> Pointer],
     cacheKey : [Nodes -> Keys], entry : [Nodes -> Entry],
     wild : SUBSET Pointer]

-----------------------------------------------------------------------------
(* Methods that only read.                                                  *)

IsCached(c, k) == c.cacheMap[k] # NULL

\* Mutant: off by one.
IsFullLate(c) == c.size > Capacity

IsFull(c) == c.size >= Capacity

\* Dereferencing any pointer of S outside live is undefined behaviour.
Deref(c, S) == [c EXCEPT !.wild = @ \union (S \ c.live)]

-----------------------------------------------------------------------------
(* The list.                                                                *)

AddFromHead(c, n, mode) ==
    LET counted == IF mode = 0 THEN c.size + 1 ELSE c.size IN
    IF c.head = NULL
    THEN [c EXCEPT !.head = n, !.tail = n, !.size = counted]
    ELSE [Deref(c, {n, c.head}) EXCEPT
            !.next[n] = c.head, !.prev[c.head] = n,
            !.head = n, !.size = counted]

\* A node inside the list: both neighbours are relinked around it.
UnlinkInner(c, n) ==
    [Deref(c, {n, c.next[n], c.prev[n]}) EXCEPT
        !.prev = [@ EXCEPT ![c.next[n]] = c.prev[n], ![n] = NULL],
        !.next = [@ EXCEPT ![c.prev[n]] = c.next[n], ![n] = NULL]]

\* The last node: its next field is left as it is.
UnlinkTail(c, n) ==
    [Deref(c, {n, c.prev[n]}) EXCEPT
        !.tail = c.prev[n], !.next[c.prev[n]] = NULL, !.prev[n] = NULL]

\* Mutant: the case of the tail is missing.
MoveToHeadAsInner(c, n) ==
    IF n = c.head THEN c ELSE AddFromHead(UnlinkInner(c, n), n, 1)

MoveToHead(c, n) ==
    CASE n = c.head -> c
      [] n # c.head /\ n # c.tail -> AddFromHead(UnlinkInner(c, n), n, 1)
      [] n # c.head /\ n = c.tail -> AddFromHead(UnlinkTail(c, n), n, 1)

\* Mutant: the key stays in cacheMap.
RemoveTailKeepsKey(c) ==
    IF c.tail = NULL
    THEN c
    ELSE [Deref(c, {c.tail}) EXCEPT
            !.head = IF c.head = c.tail THEN NULL ELSE @,
            !.tail = c.prev[c.tail],
            !.live = @ \ {c.tail},
            !.size = @ - 1]

\* Mutant: size is not decremented.
RemoveTailUncounted(c) ==
    IF c.tail = NULL
    THEN c
    ELSE LET k == c.cacheKey[c.tail] IN
         [Deref(c, {c.tail}) EXCEPT
            !.head = IF c.head = c.tail THEN NULL ELSE @,
            !.tail = c.prev[c.tail],
            !.live = @ \ {c.tail},
            !.cacheMap[k] = NULL]

\* The key is erased through the copy taken before the delete, and the next
\* field of the new tail keeps pointing to the freed node.
RemoveTail(c) ==
    IF c.tail = NULL
    THEN c
    ELSE LET k == c.cacheKey[c.tail] IN
         [Deref(c, {c.tail}) EXCEPT
            !.head = IF c.head = c.tail THEN NULL ELSE @,
            !.tail = c.prev[c.tail],
            !.live = @ \ {c.tail},
            !.size = @ - 1,
            !.cacheMap[k] = NULL]

-----------------------------------------------------------------------------
(* put.                                                                     *)

Present(new, old) == IF new # NoTag THEN new ELSE old

\* Mutants of Updated, each one field wrong: the time is that of the first
\* put, or a second early; the body of a 304 is stored, or that of a 200 is not.
UpdatedButTime(e, r, time) ==
    [line |-> "200", ETag |-> Present(r.ETag, e.ETag),
     LastModified |-> Present(r.LastModified, e.LastModified), head |-> r.head,
     body |-> IF r.status = "304" THEN e.body ELSE r.body,
     responseTime |-> e.responseTime]

UpdatedEarly(e, r, time) ==
    [UpdatedButTime(e, r, time) EXCEPT !.responseTime = time - 1]

UpdatedAnyBody(e, r, time) ==
    [UpdatedButTime(e, r, time) EXCEPT !.responseTime = time, !.body = r.body]

UpdatedNoBody(e, r, time) ==
    [UpdatedButTime(e, r, time) EXCEPT !.responseTime = time, !.body = e.body]

\* The fields of a node that is already cached after a 200 or a 304 for it.
Updated(e, r, time) ==
    [line         |-> IF r.status = "304" THEN "200" ELSE r.status,
     ETag         |-> Present(r.ETag, e.ETag),
     LastModified |-> Present(r.LastModified, e.LastModified),
     head         |-> r.head,
     body         |-> IF r.status = "304" THEN e.body ELSE r.body,
     responseTime |-> time]

\* CacheNode's constructor, and the start line put then gives the node.
NewEntry(r, time) ==
    [line |-> "200", ETag |-> r.ETag, LastModified |-> r.LastModified,
     head |-> r.head, body |-> r.body, responseTime |-> time]

\* Mutant: the node is updated where it is.
PutCachedInPlace(c, k, r, time) ==
    [c EXCEPT !.entry[c.cacheMap[k]] = Updated(@, r, time)]

PutCached(c, k, r, time) ==
    LET n == c.cacheMap[k] IN
    MoveToHead([c EXCEPT !.entry[n] = Updated(@, r, time)], n)

MakeRoom(c) == IF IsFull(c) THEN RemoveTail(c) ELSE c

\* `new CacheNode` at the free address n.
NewCacheNode(c, k, r, n, time) ==
    [c EXCEPT !.live = @ \union {n}, !.next[n] = NULL, !.prev[n] = NULL,
              !.cacheKey[n] = k, !.entry[n] = NewEntry(r, time)]

StoreNode(c, k, r, n, time) ==
    [AddFromHead(NewCacheNode(c, k, r, n, time), n, 0)
        EXCEPT !.cacheMap[k] = n]

PutNew(c, k, r, n, time) == StoreNode(MakeRoom(c), k, r, n, time)

EmptyCache(key, entry) ==
    [head |-> NULL, tail |-> NULL, size |-> 0,
     cacheMap |-> [k \in Keys |-> NULL], live |-> {},
     next |-> [n \in Nodes |-> NULL], prev |-> [n \in Nodes |-> NULL],
     cacheKey |-> [n \in Nodes |-> key], entry |-> [n \in Nodes |-> entry],
     wild |-> {}]

-----------------------------------------------------------------------------
(* What a cache looks like between two calls.                               *)

\* The ends of the list: both are NULL or both are nodes.
Ends(c) ==
    /\ c.live = {} => c.head = NULL /\ c.tail = NULL
    /\ c.live # {} => /\ c.head \in c.live
                      /\ c.tail \in c.live
                      /\ c.prev[c.head] = NULL

\* prev and next of neighbours agree.  Nothing is said of the next field of
\* the tail: after an eviction it points to freed memory.
Links(c) ==
    \A n \in c.live :
       /\ n # c.head => /\ c.prev[n] \in c.live \ {c.tail}
                        /\ c.next[c.prev[n]] = n
       /\ n # c.tail => /\ c.next[n] \in c.live
                        /\ c.prev[c.next[n]] = n

\* cacheMap and the list hold the same nodes: the map finds a node under the
\* key it carries, and every node in memory is found that way (so none leaks
\* and none is found under two keys).
MapAgrees(c) ==
    /\ \A n \in c.live : c.cacheMap[c.cacheKey[n]] = n
    /\ \A k \in Keys : IsCached(c, k) => /\ c.cacheMap[k] \in c.live
                                         /\ c.cacheKey[c.cacheMap[k]] = k

\* size counts the nodes and stays within the capacity.
SizeAgrees(c) ==
    /\ IsFiniteSet(c.live)
    /\ c.size = Cardinality(c.live)
    /\ c.size <= Capacity

Structure(c) == Ends(c) /\ Links(c) /\ MapAgrees(c) /\ SizeAgrees(c)

\* The order of the list of c, strong enough to be inductive, where s are the
\* stamps of the first p puts and t is the time: stamps are distinct, times
\* grow with them, and next leads to the live node with the next smaller
\* stamp, so that the node before the tail is the minimum once the tail goes.
Order(c, s, p, t) ==
    /\ \A n \in c.live : s[n] \in 1..p /\ c.entry[n].responseTime <= t
    /\ \A m, n \in c.live :
          /\ s[m] = s[n] => m = n
          /\ s[m] <= s[n] =>
                c.entry[m].responseTime <= c.entry[n].responseTime
    /\ \A n \in c.live : s[c.tail] <= s[n] /\ s[n] <= s[c.head]
    /\ \A n \in c.live \ {c.tail} :
          /\ s[c.next[n]] < s[n]
          /\ \A m \in c.live : s[m] < s[n] => s[m] <= s[c.next[n]]

=============================================================================
