------------------------------ MODULE CacheRace -------------------------------
(***************************************************************************)
(* put and get of the cache line by line, for the handler threads that call *)
(* them with no lock: every lock_guard of Cache.cpp is commented out, and   *)
(* cachelock (Proxy.cpp:2) is never taken.  A step is a statement that      *)
(* reads or writes the shared cache, and is named for its line; size++ and  *)
(* size-- are a read and a write.  What a thread alone makes of the cache   *)
(* is the operator of CacheOps: PutAlone checks it.                         *)
(*                                                                          *)
(* std::map is taken to be intact, one lookup, insertion or erasure after   *)
(* the other; two of them at once are undefined too.  cacheMap[key] of a    *)
(* missing key inserts it with a NULL: nulls.  Time is left out.            *)
(***************************************************************************)
EXTENDS CacheOps

CONSTANTS
    Threads     \* bound: the handler threads there are at the same time

VARIABLES
    shared,     \* Proxy::cache
    nulls,      \* the keys cacheMap holds with a NULL
    pc,         \* the line each thread is at
    local,      \* the arguments and the local variables of its call
    before      \* history: the cache when its call began

raceVars == <<shared, nulls, pc, local, before>>

\* After a wild pointer has been followed nothing is said of the process.
Running == shared.wild = {}

\* Thread t goes from one line to the next, leaving the cache c, the locals l
\* and the NULLs in cacheMap.
MapStep(t, line, next, c, l, empty) ==
    /\ Running
    /\ pc[t] = line
    /\ pc' = [pc EXCEPT ![t] = next]
    /\ shared' = c
    /\ local' = [local EXCEPT ![t] = l]
    /\ nulls' = empty
    /\ UNCHANGED before

Step(t, line, next, c, l) == MapStep(t, line, next, c, l, nulls)

\* The key and the node the call of t is about.
K(t) == local[t].key
N(t) == local[t].node

\* A step that leaves the locals, and one that leaves the cache.
Write(t, line, next, c) == Step(t, line, next, c, local[t])
Read(t, line, next, l) == Step(t, line, next, shared, l)

-----------------------------------------------------------------------------
(* put of a key that is cached, and get.                                    *)

\* A handler calls put, or asks for a key before it gets it.
Call(t) ==
    \E key \in Keys, r \in Response, line \in {"put80", "ask"} :
       /\ Running /\ pc[t] = "idle"
       /\ pc' = [pc EXCEPT ![t] = line]
       /\ local' = [local EXCEPT ![t].key = key, ![t].response = r]
       /\ before' = [before EXCEPT ![t] = shared]
       /\ UNCHANGED <<shared, nulls>>

\* isCached counts a key whatever pointer it has.
Counted(t) == IsCached(shared, K(t)) \/ K(t) \in nulls

Test(t) ==
    \/ Read(t, "put80", IF Counted(t) THEN "put84" ELSE "put119", local[t])
    \/ Read(t, "ask", IF Counted(t) THEN "get233" ELSE "returnGet", local[t])

\* cacheMap[cacheKey]; a key that has gone meanwhile comes back with a NULL.
Lookup(t, line, next) ==
    MapStep(t, line, next, shared, [local[t] EXCEPT !.node = shared.cacheMap[K(t)]],
            IF IsCached(shared, K(t)) THEN nulls ELSE nulls \union {K(t)})

Find(t) ==
    \/ Lookup(t, "put84", "put85")
    \/ Lookup(t, "get233", "getFull")
    \/ Lookup(t, "put144", "startLine")

\* get reads the node, put the start line it logs.
ReadFound(t) ==
    \/ Write(t, "getFull", "returnGet", Deref(shared, {N(t)}))
    \/ Write(t, "startLine", "return", Deref(shared, {N(t)}))

\* A node's fields change if there is such a node.
Assign(t, e) ==
    IF N(t) \in Nodes THEN [Deref(shared, {N(t)}) EXCEPT !.entry[N(t)] = e]
                      ELSE Deref(shared, {N(t)})

FieldsOf(t) ==
    IF N(t) \in Nodes THEN shared.entry[N(t)] ELSE NewEntry(local[t].response, 0)

SetValidators(t) ==
    LET e == FieldsOf(t)
        u == Updated(e, local[t].response, 0) IN
    Write(t, "put85", "put94",
          Assign(t, [e EXCEPT !.responseTime = u.responseTime, !.ETag = u.ETag,
                              !.LastModified = u.LastModified]))

SetContents(t) ==
    Write(t, "put94", "move25", Assign(t, Updated(FieldsOf(t), local[t].response, 0)))

-----------------------------------------------------------------------------
(* The list.  Assignments through a pointer that is no node change nothing   *)
(* that is modelled; the process is then in undefined behaviour.            *)

At(f, p) == IF p \in Nodes THEN f[p] ELSE NULL
Set(f, p, q) == IF p \in Nodes THEN [f EXCEPT ![p] = q] ELSE f

SetNext(c, p, q) == [Deref(c, {p}) EXCEPT !.next = Set(@, p, q)]
SetPrev(c, p, q) == [Deref(c, {p}) EXCEPT !.prev = Set(@, p, q)]

IsHead(t) == Read(t, "move25", IF N(t) = shared.head THEN "return" ELSE "move29", local[t])

IsTail(t) ==
    Read(t, "move29", IF N(t) # shared.tail THEN "move31" ELSE "move38",
         [local[t] EXCEPT !.mode = 1])

MoveToHeadStep(t) ==
    LET next == At(shared.next, N(t))
        prev == At(shared.prev, N(t))
        c == Deref(shared, {N(t)}) IN
    \/ Write(t, "move31", "move32", SetPrev(c, next, prev))
    \/ Write(t, "move32", "move33", SetNext(c, prev, next))
    \/ Write(t, "move33", "add4", SetPrev(SetNext(c, N(t), NULL), N(t), NULL))
    \/ Write(t, "move38", "move39", [c EXCEPT !.tail = prev])
    \/ Write(t, "move39", "move40", SetNext(c, prev, NULL))
    \/ Write(t, "move40", "add4", SetPrev(c, N(t), NULL))

AddFromHeadStep(t) ==
    LET end == IF local[t].mode = 0 THEN "inc" ELSE "return" IN
    \/ Read(t, "add4", IF shared.head = NULL THEN "add6" ELSE "add14", local[t])
    \/ Write(t, "add6", "add7", [shared EXCEPT !.head = N(t)])
    \/ Write(t, "add7", end, [shared EXCEPT !.tail = N(t)])
    \/ Write(t, "add14", "add15", SetNext(shared, N(t), shared.head))
    \/ Write(t, "add15", "add16", SetPrev(shared, shared.head, N(t)))
    \/ Write(t, "add16", end, [shared EXCEPT !.head = N(t)])

CountStep(t) ==
    \/ Read(t, "inc", "incWrite", [local[t] EXCEPT !.count = shared.size])
    \/ Write(t, "incWrite", "put143", [shared EXCEPT !.size = local[t].count + 1])
    \/ Read(t, "dec", "decWrite", [local[t] EXCEPT !.count = shared.size])
    \/ Write(t, "decWrite", "remove66", [shared EXCEPT !.size = local[t].count - 1])

RemoveTailStep(t) ==
    \/ Read(t, "remove46", IF shared.tail = NULL THEN "put130" ELSE "remove50", local[t])
    \/ Step(t, "remove50", "remove52", Deref(shared, {shared.tail}),
            [local[t] EXCEPT !.node = shared.tail, !.oldKey =
               IF shared.tail \in Nodes THEN shared.cacheKey[shared.tail] ELSE @])
    \/ Write(t, "remove52", "remove56",
             [shared EXCEPT !.head = IF @ = shared.tail THEN NULL ELSE @])
    \/ Write(t, "remove56", "remove57",
             [Deref(shared, {shared.tail}) EXCEPT !.tail = At(shared.prev, @)])
    \/ Write(t, "remove57", "dec", [Deref(shared, {N(t)}) EXCEPT !.live = @ \ {N(t)}])
    \/ MapStep(t, "remove66", "put130",
               [shared EXCEPT !.cacheMap[local[t].oldKey] = NULL], local[t],
               nulls \ {local[t].oldKey})

-----------------------------------------------------------------------------
(* put of a key that is not cached.                                         *)

Full(t) == Read(t, "put119", IF IsFull(shared) THEN "remove46" ELSE "put130", local[t])

New(t) ==
    \E a \in Nodes \ shared.live :
       Step(t, "put130", "add4", NewCacheNode(shared, K(t), local[t].response, a, 0),
            [local[t] EXCEPT !.node = a, !.mode = 0])

Enter(t) ==
    MapStep(t, "put143", "put144", [shared EXCEPT !.cacheMap[K(t)] = N(t)],
            local[t], nulls \ {K(t)})

Return(t) == Read(t, "return", "idle", local[t]) \/ Read(t, "returnGet", "idle", local[t])

\* The locals of a thread have no value until its first call.
RaceInit ==
    \E key \in Keys, r \in Response :
       /\ shared = EmptyCache(key, NewEntry(r, 0))
       /\ nulls = {}
       /\ pc = [t \in Threads |-> "idle"]
       /\ local = [t \in Threads |-> [key |-> key, response |-> r, node |-> NULL,
                                      oldKey |-> key, mode |-> 0, count |-> 0]]
       /\ before = [t \in Threads |-> shared]

RaceNext ==
    \E t \in Threads :
       \/ Call(t) \/ Test(t) \/ Find(t) \/ ReadFound(t)
       \/ SetValidators(t) \/ SetContents(t)
       \/ IsHead(t) \/ IsTail(t) \/ MoveToHeadStep(t) \/ AddFromHeadStep(t)
       \/ CountStep(t) \/ RemoveTailStep(t)
       \/ Full(t) \/ New(t) \/ Enter(t) \/ Return(t)

RaceSpec == RaceInit /\ [][RaceNext]_raceVars

-----------------------------------------------------------------------------
(* Properties.                                                              *)

\* The caches one call of put may turn c into, its methods run to the end.
Outcomes(c, key, r) ==
    IF IsCached(c, key)
    THEN {PutCached(c, key, r, 0)}
    ELSE {PutNew(c, key, r, a, 0) : a \in Nodes \ MakeRoom(c).live}

\* A call that has the cache to itself does what CacheOps says of the whole
\* method, every line of it taken together, and follows no wild pointer.
PutAlone ==
    \A t \in Threads : pc[t] = "return" =>
       shared \in Outcomes(before[t], K(t), local[t].response)

Quiet == Running /\ \A t \in Threads : pc[t] = "idle"

-----------------------------------------------------------------------------
(* What documents of the repository say.                                    *)

\* dangerlog.txt:55-56 - "use the target-resource in the request to uniquely
\* correspond to a cache node, and use the number of cache nodes to control
\* the size of the cache.  The cache size is 100 nodes": between calls every
\* target finds its own node, every node is found, and they fit the capacity.
NodesPerTarget == Quiet => MapAgrees(shared) /\ Cardinality(shared.live) <= Capacity

=============================================================================
