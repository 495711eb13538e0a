---------------------------- MODULE Cache_proofs -----------------------------
(***************************************************************************)
(* Proofs about modules Cache and CacheRace, for every number of keys,      *)
(* addresses, threads, puts and ticks and every capacity, from the lemmas   *)
(* of CacheOps_proofs: for each the inductive invariant, then the theorems. *)
(***************************************************************************)
EXTENDS Cache, CacheRace, CacheOps_proofs

-----------------------------------------------------------------------------
(* The inductive invariant.                                                 *)

\* What the invariant says of the history, as the lemmas want it.
LEMMA Typed ==
    ASSUME IInv
    PROVE  /\ cache \in CacheValue /\ Structure(cache) /\ cache.wild = {}
           /\ now \in Nat /\ puts \in Nat
           /\ stamp \in [Nodes -> Nat]
           /\ Order(cache, stamp, puts, now)
  <1>1. 0..MaxPuts \subseteq Nat /\ 0..MaxTime \subseteq Nat
    BY BoundsAssumption
  <1>2. QED
    BY <1>1 DEF IInv, TypeOK, WellFormed, NoFault

LEMMA InitIInv == Init => IInv
  <1> SUFFICES ASSUME Init
               PROVE  IInv
    OBVIOUS
  <1>1. PICK key \in Keys, r \in Responses :
           cache = EmptyCache(key, NewEntry(r, 0))
    BY DEF Init
  <1>2. NewEntry(r, 0) \in Entry
    BY ResponsesAssumption DEF NewEntry, Entry, Response, Status
  <1>3. cache \in CacheValue
    BY <1>1, <1>2 DEF EmptyCache, CacheValue, Pointer
  <1>4. /\ cache.head = NULL /\ cache.tail = NULL /\ cache.size = 0
        /\ cache.live = {} /\ cache.wild = {}
        /\ \A k \in Keys : cache.cacheMap[k] = NULL
    BY <1>1 DEF EmptyCache
  <1>5. TypeOK
    BY <1>3, BoundsAssumption DEF Init, TypeOK
  <1>6. Structure(cache)
    <2>1. SizeAgrees(cache)
      BY <1>4, FS_EmptySet, CapacityAssumption DEF SizeAgrees
    <2>2. QED
      BY <1>4, <2>1 DEF Structure, Ends, Links, MapAgrees, IsCached
  <1>7. Order(cache, stamp, puts, now)
    BY <1>4 DEF Order
  <1>8. QED
    BY <1>4, <1>5, <1>6, <1>7 DEF IInv, WellFormed, NoFault

LEMMA StepIInv == IInv /\ [Next]_vars => IInv'
  <1> SUFFICES ASSUME IInv, [Next]_vars
               PROVE  IInv'
    OBVIOUS
  <1>1. /\ cache \in CacheValue /\ Structure(cache) /\ cache.wild = {}
        /\ now \in Nat /\ puts \in Nat
        /\ stamp \in [Nodes -> Nat]
        /\ Order(cache, stamp, puts, now)
    BY Typed
  <1>2. TypeOK
    BY DEF IInv
  <1>3. ASSUME NEW n \in Nodes, Stamp(n), UNCHANGED now
        PROVE  /\ puts' = puts + 1 /\ stamp' = [stamp EXCEPT ![n] = puts + 1]
               /\ puts' \in 0..MaxPuts /\ stamp' \in [Nodes -> 0..MaxPuts]
               /\ now' \in 0..MaxTime
    BY <1>2, <1>3, BoundsAssumption DEF Stamp, TypeOK
  <1>4. ASSUME NEW k \in Keys, NEW r \in Responses, Update(k, r)
        PROVE  IInv'
    <2>1. r \in Response /\ IsCached(cache, k) /\ now' = now
          /\ cache' = PutCached(cache, k, r, now)
      BY <1>4, ResponsesAssumption DEF Update
    <2>2. cache.cacheMap[k] \in Nodes
      BY <1>1, <2>1 DEF Structure, MapAgrees, CacheValue
    <2>3. /\ puts' = puts + 1
          /\ stamp' = [stamp EXCEPT ![cache.cacheMap[k]] = puts + 1]
          /\ puts' \in 0..MaxPuts /\ stamp' \in [Nodes -> 0..MaxPuts]
          /\ now' \in 0..MaxTime
      BY <1>3, <1>4, <2>2 DEF Update
    <2>4. cache' \in CacheValue /\ cache'.wild = {} /\ Structure(cache')
      BY <1>1, <2>1, PutCachedStructure
    <2>5. Order(cache', [stamp EXCEPT ![cache.cacheMap[k]] = puts + 1],
                puts + 1, now)
      BY <1>1, <2>1, PutCachedOrder
    <2>6. QED
      BY <2>1, <2>3, <2>4, <2>5
         DEF IInv, TypeOK, WellFormed, NoFault, Structure, Ends, Links,
             MapAgrees, SizeAgrees, IsCached, Order
  <1>5. ASSUME NEW k \in Keys, NEW r \in Responses, Insert(k, r)
        PROVE  IInv'
    <2>1. PICK n \in Nodes \ MakeRoom(cache).live :
             Stamp(n) /\ cache' = PutNew(cache, k, r, n, now)
      BY <1>5 DEF Insert
    <2>2. r \in Response /\ ~IsCached(cache, k) /\ now' = now
      BY <1>5, ResponsesAssumption DEF Insert
    <2>3. /\ puts' = puts + 1 /\ stamp' = [stamp EXCEPT ![n] = puts + 1]
          /\ puts' \in 0..MaxPuts /\ stamp' \in [Nodes -> 0..MaxPuts]
          /\ now' \in 0..MaxTime
      BY <1>3, <2>1, <2>2
    <2>4. /\ cache' \in CacheValue /\ cache'.wild = {} /\ Structure(cache')
          /\ Order(cache', [stamp EXCEPT ![n] = puts + 1], puts + 1, now)
      BY <1>1, <2>1, <2>2, PutNewKeeps
    <2>5. QED
      BY <2>2, <2>3, <2>4
         DEF IInv, TypeOK, WellFormed, NoFault, Structure, Ends, Links,
             MapAgrees, SizeAgrees, IsCached, Order
  <1>6. CASE Tick
    <2>1. now' \in 0..MaxTime /\ now' = now + 1
      BY <1>1, <1>2, <1>6, BoundsAssumption DEF Tick, TypeOK
    <2>2. cache' = cache /\ stamp' = stamp /\ puts' = puts
      BY <1>6 DEF Tick
    <2>3. \A n \in cache.live : /\ cache.entry[n].responseTime \in Nat
                                /\ cache.entry[n].responseTime <= now
      BY <1>1 DEF Order, CacheValue, Entry
    <2>4. \A n \in cache.live : cache.entry[n].responseTime <= now'
      BY <1>1, <2>1, <2>3
    <2>5. Order(cache, stamp, puts, now)'
      BY <1>1, <2>2, <2>4 DEF Order
    <2>6. TypeOK' /\ WellFormed' /\ NoFault'
      BY <1>1, <1>2, <2>1, <2>2
         DEF TypeOK, WellFormed, NoFault, Structure, Ends, Links,
             MapAgrees, SizeAgrees, IsCached
    <2>7. QED
      BY <2>5, <2>6 DEF IInv
  <1>7. CASE UNCHANGED vars
    BY <1>1, <1>2, <1>7
       DEF vars, IInv, TypeOK, WellFormed, NoFault, Structure, Ends, Links,
           MapAgrees, SizeAgrees, IsCached, Order
  <1>8. QED
    BY <1>4, <1>5, <1>6, <1>7 DEF Next

\* The inductive invariant of put: types, well formed list and map, no wild
\* pointer, and the nodes in the list in the order they were stored in.
THEOREM IInvAlways == Spec => []IInv
  BY InitIInv, StepIInv, PTL DEF Spec

-----------------------------------------------------------------------------
(* The theorems.                                                            *)

\* Every variable of the cache keeps its type, whatever is put in it.
THEOREM TypeCorrect == Spec => []TypeOK
  <1>1. IInv => TypeOK
    BY DEF IInv
  <1>2. QED
    BY <1>1, IInvAlways, PTL

\* After any number of puts the list, cacheMap and size of Cache.cpp describe
\* the same nodes, and there are no more of them than the capacity.
THEOREM CacheWellFormed == Spec => []WellFormed
  <1>1. IInv => WellFormed
    BY DEF IInv
  <1>2. QED
    BY <1>1, IInvAlways, PTL

\* put never follows a NULL or a dangling pointer, the next field that
\* removeTail leaves dangling included.
THEOREM CacheNoFault == Spec => []NoFault
  <1>1. IInv => NoFault
    BY DEF IInv
  <1>2. QED
    BY <1>1, IInvAlways, PTL

\* The list is in the order of the puts, and the node removeTail takes is the
\* one stored longest ago.
THEOREM CacheListInPutOrder == Spec => []ListInPutOrder
  <1>1. IInv => ListInPutOrder
    <2> SUFFICES ASSUME IInv, NEW n \in cache.live
                 PROVE  /\ n # cache.tail => stamp[n] > stamp[cache.next[n]]
                        /\ stamp[cache.tail] <= stamp[n]
      BY DEF ListInPutOrder
    <2>1. /\ n # cache.tail => stamp[cache.next[n]] < stamp[n]
          /\ stamp[cache.tail] <= stamp[n]
      BY Typed DEF Order
    <2>2. n # cache.tail => cache.next[n] \in cache.live
      BY Typed DEF Structure, Links
    <2>3. \A m \in cache.live : stamp[m] \in Nat
      BY Typed DEF CacheValue
    <2>4. QED
      BY <2>1, <2>2, <2>3
  <1>2. QED
    BY <1>1, IInvAlways, PTL

\* The order of the puts is the order of the response times, which is what
\* Cache.hpp says the list is arranged by.
THEOREM CacheListInTimeOrder == Spec => []ListInTimeOrder
  <1>1. IInv => ListInTimeOrder
    <2> SUFFICES ASSUME IInv, NEW n \in cache.live, n # cache.tail
                 PROVE  cache.entry[n].responseTime
                           >= cache.entry[cache.next[n]].responseTime
      BY DEF ListInTimeOrder
    <2>1. cache.next[n] \in cache.live /\ stamp[cache.next[n]] < stamp[n]
      BY Typed DEF Order, Structure, Links
    <2>2. \A m \in cache.live : /\ stamp[m] \in Nat
                                /\ cache.entry[m].responseTime \in Nat
      BY Typed DEF CacheValue, Entry
    <2>3. stamp[cache.next[n]] <= stamp[n]
      BY <2>1, <2>2
    <2>4. cache.entry[cache.next[n]].responseTime
             <= cache.entry[n].responseTime
      BY <2>1, <2>3, Typed DEF Order
    <2>5. QED
      BY <2>1, <2>2, <2>4
  <1>2. QED
    BY <1>1, IInvAlways, PTL

-----------------------------------------------------------------------------
(* The cache implements the bounded map.                                    *)

\* The cardinality LruCache speaks of is that of FiniteSets.
LEMMA SameCardinality ==
    ASSUME NEW S
    PROVE  Lru!Cardinality(S) = Cardinality(S)
  BY Zenon DEF Lru!Cardinality, Cardinality

\* A key has been stored if its node has a stamp, and there are as many such
\* keys as nodes.
LEMMA CachedKeys ==
    ASSUME IInv
    PROVE  /\ Lru!Cached = {k \in Keys : IsCached(cache, k)}
           /\ IsFiniteSet(Lru!Cached)
           /\ Cardinality(Lru!Cached) = cache.size
           /\ \A k \in Keys : IsCached(cache, k) =>
                 /\ cache.cacheMap[k] \in cache.live /\ cache.cacheMap[k] \in Nodes
                 /\ cache.cacheKey[cache.cacheMap[k]] = k
                 /\ stamp[cache.cacheMap[k]] \in 1..puts
  <1>1. /\ cache \in CacheValue /\ Structure(cache) /\ puts \in Nat
        /\ stamp \in [Nodes -> Nat]
        /\ Order(cache, stamp, puts, now)
    BY Typed
  <1>2. \A k \in Keys : IsCached(cache, k) =>
           /\ cache.cacheMap[k] \in cache.live /\ cache.cacheMap[k] \in Nodes
           /\ cache.cacheKey[cache.cacheMap[k]] = k
           /\ stamp[cache.cacheMap[k]] \in 1..puts
    BY <1>1 DEF Structure, MapAgrees, Order, CacheValue
  <1> DEFINE S == {k \in Keys : IsCached(cache, k)}
             f == [n \in cache.live |-> cache.cacheKey[n]]
  <1>3. Lru!Cached = S
    <2>1. ASSUME NEW k \in Keys
          PROVE  StoredAt[k] > 0 <=> IsCached(cache, k)
      BY <1>1, <1>2, <2>1 DEF StoredAt
    <2>2. QED
      BY <2>1 DEF Lru!Cached
  <1>4. ASSUME NEW n \in cache.live
        PROVE  cache.cacheKey[n] \in S /\ cache.cacheMap[cache.cacheKey[n]] = n
    BY <1>1, NullAssumption DEF Structure, MapAgrees, IsCached, CacheValue
  <1>5. f \in [cache.live -> S]
    BY <1>4
  <1>6. /\ \A m, n \in cache.live : f[m] = f[n] => m = n
        /\ \A k \in S : \E n \in cache.live : f[n] = k
    BY <1>2, <1>4
  <1>7. IsFiniteSet(cache.live) /\ cache.size = Cardinality(cache.live)
    BY <1>1 DEF Structure, SizeAgrees
  <1> HIDE DEF S, f
  <1>8. f \in Surjection(cache.live, S)
    BY <1>5, <1>6 DEF Surjection
  <1>9. f \in Injection(cache.live, S)
    BY <1>5, <1>6 DEF Injection, IsInjective
  <1>10. /\ IsFiniteSet(S) /\ Cardinality(S) <= Cardinality(cache.live)
         /\ Cardinality(S) = Cardinality(cache.live)
               <=> f \in Injection(cache.live, S)
    BY <1>7, <1>8, FS_Surjection
  <1>11. QED
    BY <1>2, <1>3, <1>7, <1>9, <1>10 DEF S

\* The put of a cached key is an update of the map.
LEMMA UpdateImplements ==
    ASSUME IInv, NEW k \in Keys, NEW r \in Responses, Update(k, r)
    PROVE  Lru!Update(k, r)
  <1> DEFINE n == cache.cacheMap[k]
  <1>1. /\ cache \in CacheValue /\ Structure(cache) /\ now \in Nat /\ puts \in Nat
        /\ stamp \in [Nodes -> Nat]
    BY Typed
  <1>2. /\ IsCached(cache, k) /\ Stamp(n) /\ UNCHANGED now
        /\ cache' = PutCached(cache, k, r, now) /\ r \in Response
    BY ResponsesAssumption DEF Update
  <1>3. /\ cache'.cacheMap = cache.cacheMap
        /\ cache'.entry[n] = Updated(cache.entry[n], r, now)
        /\ \A m \in Nodes \ {n} : cache'.entry[m] = cache.entry[m]
    BY <1>1, <1>2, PutCachedContents
  <1>4. n \in Nodes /\ \A j \in Keys \ {k} : IsCached(cache, j) =>
           cache.cacheMap[j] \in Nodes \ {n}
    BY <1>2, CachedKeys
  <1>5. \A m \in Nodes : stamp'[m] = IF m = n THEN puts + 1 ELSE stamp[m]
    BY <1>1, <1>2 DEF Stamp
  <1>6. \A j \in Keys : IsCached(cache, j)' <=> IsCached(cache, j)
    BY <1>3 DEF IsCached
  <1> HIDE DEF n
  <1>7. StoredAt' = [StoredAt EXCEPT ![k] = puts + 1]
    <2>1. \A j \in Keys : StoredAt'[j] = IF j = k THEN puts + 1 ELSE StoredAt[j]
      BY <1>2, <1>3, <1>4, <1>5, <1>6 DEF StoredAt, n
    <2>2. QED
      BY <2>1 DEF StoredAt
  <1>8. Contents' = [Contents EXCEPT ![k] = Updated(Contents[k], r, now)]
    <2>1. Contents[k] = cache.entry[n]
      BY <1>2 DEF Contents, n
    <2>2. \A j \in Keys : Contents'[j] = IF j = k THEN Updated(Contents[k], r, now)
                                       ELSE Contents[j]
      BY <1>2, <1>3, <1>4, <1>6, <2>1 DEF Contents, n
    <2>3. QED
      BY <2>2 DEF Contents
  <1>9. k \in Lru!Cached
    BY <1>2, CachedKeys
  <1>10. puts < MaxPuts /\ puts' = puts + 1
    BY <1>2 DEF Stamp
  <1>11. QED
    BY <1>2, <1>7, <1>8, <1>9, <1>10 DEF Lru!Update

\* The put of another key adds it, in the place of the one stored longest ago
\* if there is no other.
LEMMA InsertImplements ==
    ASSUME IInv, NEW k \in Keys, NEW r \in Responses, Insert(k, r)
    PROVE  Lru!Add(k, r) \/ \E old \in Keys : Lru!Replace(old, k, r)
  <1>1. /\ cache \in CacheValue /\ Structure(cache) /\ cache.wild = {}
        /\ now \in Nat /\ puts \in Nat /\ stamp \in [Nodes -> Nat]
        /\ Order(cache, stamp, puts, now)
    BY Typed
  <1>2. PICK n \in Nodes \ MakeRoom(cache).live :
           Stamp(n) /\ cache' = PutNew(cache, k, r, n, now)
    BY DEF Insert
  <1>3. ~IsCached(cache, k) /\ UNCHANGED now /\ r \in Response
    BY ResponsesAssumption DEF Insert
  <1>4. cache' \in CacheValue /\ Structure(cache')
    BY <1>1, <1>2, <1>3, PutNewKeeps
  <1>5. /\ cache'.entry[n] = NewEntry(r, now) /\ cache'.cacheMap[k] = n
        /\ \A m \in cache'.live \ {n} : cache'.entry[m] = cache.entry[m]
        /\ ~IsFull(cache) =>
              \A j \in Keys \ {k} : cache'.cacheMap[j] = cache.cacheMap[j]
        /\ IsFull(cache) =>
              /\ cache.tail \in cache.live
              /\ \A j \in Keys \ {k} :
                    cache'.cacheMap[j] = IF j = cache.cacheKey[cache.tail] THEN NULL
                                         ELSE cache.cacheMap[j]
    BY <1>1, <1>2, <1>3, <1>4, PutNewContents
  <1>6. /\ puts < MaxPuts /\ puts' = puts + 1
        /\ \A m \in Nodes : stamp'[m] = IF m = n THEN puts + 1 ELSE stamp[m]
    BY <1>1, <1>2 DEF Stamp
  <1>7. /\ Lru!Cached = {j \in Keys : IsCached(cache, j)}
        /\ Cardinality(Lru!Cached) = cache.size
        /\ \A j \in Keys : IsCached(cache, j) =>
              /\ cache.cacheMap[j] \in cache.live /\ cache.cacheMap[j] \in Nodes
              /\ cache.cacheKey[cache.cacheMap[j]] = j
    BY CachedKeys
  <1>8. IsCached(cache, k)' /\ n # NULL /\ n \in Nodes
    BY <1>2, <1>5, NullAssumption DEF IsCached
  <1>9. ASSUME NEW j \in Keys \ {k}, IsCached(cache, j)'
        PROVE  cache'.cacheMap[j] \in cache'.live \ {n}
    <2>1. cache'.cacheMap[j] \in cache'.live /\ cache'.cacheKey[cache'.cacheMap[j]] = j
      BY <1>4, <1>9 DEF Structure, MapAgrees
    <2>2. cache'.cacheKey[cache'.cacheMap[k]] = k
      BY <1>4, <1>8 DEF Structure, MapAgrees
    <2>3. QED
      BY <1>5, <2>1, <2>2
  <1>10. ASSUME NEW j \in Keys \ {k}, cache'.cacheMap[j] = cache.cacheMap[j]
         PROVE  StoredAt'[j] = StoredAt[j] /\ Contents'[j] = Contents[j]
    <2>1. IsCached(cache, j)' <=> IsCached(cache, j)
      BY <1>10 DEF IsCached
    <2>2. CASE IsCached(cache, j)
      <3>1. cache.cacheMap[j] \in Nodes \ {n} /\ cache.cacheMap[j] \in cache'.live \ {n}
        BY <1>7, <1>9, <1>10, <2>1, <2>2
      <3>2. QED
        BY <1>5, <1>6, <1>10, <2>1, <2>2, <3>1 DEF StoredAt, Contents
    <2>3. CASE ~IsCached(cache, j)
      BY <2>1, <2>3 DEF StoredAt, Contents
    <2>4. QED
      BY <2>2, <2>3
  <1>11. StoredAt'[k] = puts + 1 /\ Contents'[k] = NewEntry(r, now)
    BY <1>5, <1>6, <1>8 DEF StoredAt, Contents
  <1>12. k \notin Lru!Cached
    BY <1>3, <1>7
  <1>13. CASE ~IsFull(cache)
    <2>1. StoredAt' = [StoredAt EXCEPT ![k] = puts + 1]
      <3>1. \A j \in Keys : StoredAt'[j] = IF j = k THEN puts + 1 ELSE StoredAt[j]
        BY <1>5, <1>10, <1>11, <1>13
      <3>2. QED
        BY <3>1 DEF StoredAt
    <2>2. Contents' = [Contents EXCEPT ![k] = NewEntry(r, now)]
      <3>1. \A j \in Keys : Contents'[j] = IF j = k THEN NewEntry(r, now) ELSE Contents[j]
        BY <1>5, <1>10, <1>11, <1>13
      <3>2. QED
        BY <3>1 DEF Contents
    <2>3. Cardinality(Lru!Cached) < Capacity
      BY <1>1, <1>7, <1>13, CapacityAssumption DEF IsFull, CacheValue
    <2>4. QED
      BY <1>3, <1>6, <1>12, <2>1, <2>2, <2>3, SameCardinality DEF Lru!Add
  <1>14. CASE IsFull(cache)
    <2> DEFINE old == cache.cacheKey[cache.tail]
    <2>1. cache.tail \in cache.live /\ cache.tail \in Nodes /\ old \in Keys
      BY <1>1, <1>5, <1>14 DEF CacheValue
    <2>2. cache.cacheMap[old] = cache.tail /\ IsCached(cache, old)
      BY <1>1, <2>1, NullAssumption DEF Structure, MapAgrees, IsCached
    <2>3. old # k
      BY <1>3, <2>2
    <2>4. \A j \in Keys \ {k} :
             cache'.cacheMap[j] = IF j = old THEN NULL ELSE cache.cacheMap[j]
      BY <1>5, <1>14
    <2> HIDE DEF old
    <2>5. StoredAt'[old] = 0 /\ Contents'[old] = NoEntry
      BY <2>1, <2>3, <2>4 DEF StoredAt, Contents, IsCached
    <2>6. StoredAt' = [StoredAt EXCEPT ![old] = 0, ![k] = puts + 1]
      <3>1. \A j \in Keys : StoredAt'[j] = IF j = k THEN puts + 1
                                          ELSE IF j = old THEN 0 ELSE StoredAt[j]
        BY <1>10, <1>11, <2>4, <2>5
      <3>2. QED
        BY <2>3, <3>1 DEF StoredAt
    <2>7. Contents' = [Contents EXCEPT ![old] = NoEntry, ![k] = NewEntry(r, now)]
      <3>1. \A j \in Keys : Contents'[j] = IF j = k THEN NewEntry(r, now)
                                          ELSE IF j = old THEN NoEntry ELSE Contents[j]
        BY <1>10, <1>11, <2>4, <2>5
      <3>2. QED
        BY <2>3, <3>1 DEF Contents
    <2>8. old \in Lru!Oldest
      <3>1. StoredAt[old] = stamp[cache.tail]
        BY <2>1, <2>2 DEF StoredAt
      <3>2. ASSUME NEW j \in Lru!Cached
            PROVE  StoredAt[old] <= StoredAt[j]
        <4>1. j \in Keys /\ IsCached(cache, j) /\ cache.cacheMap[j] \in cache.live
          BY <1>7
        <4>2. StoredAt[j] = stamp[cache.cacheMap[j]]
          BY <4>1 DEF StoredAt
        <4>3. stamp[cache.tail] <= stamp[cache.cacheMap[j]]
          BY <1>1, <4>1 DEF Order
        <4>4. QED
          BY <3>1, <4>2, <4>3
      <3>3. old \in Lru!Cached
        BY <1>7, <2>1, <2>2
      <3>4. QED
        BY <3>2, <3>3 DEF Lru!Oldest
    <2>9. Cardinality(Lru!Cached) >= Capacity
      BY <1>7, <1>14 DEF IsFull
    <2>10. Lru!Replace(old, k, r)
      BY <1>3, <1>6, <1>12, <2>6, <2>7, <2>8, <2>9, SameCardinality
         DEF Lru!Replace
    <2>11. QED
      BY <2>1, <2>10
  <1>15. QED
    BY <1>13, <1>14

\* What the cache holds at any time is what the bounded map of LruCache holds:
\* it gives up the key stored longest ago and no other.
THEOREM CacheImplementsLru == Spec => ImplementsLru
  <1>1. Init => Lru!Init
    <2> SUFFICES ASSUME Init
                 PROVE  Lru!Init
      OBVIOUS
    <2>1. \A k \in Keys : ~IsCached(cache, k)
      BY DEF Init, EmptyCache, IsCached
    <2>2. QED
      BY <2>1 DEF Init, Lru!Init, StoredAt, Contents
  <1>2. IInv /\ [Next]_vars => [Lru!Next]_Lru!vars
    <2> SUFFICES ASSUME IInv, [Next]_vars
                 PROVE  [Lru!Next]_Lru!vars
      OBVIOUS
    <2>1. ASSUME NEW k \in Keys, NEW r \in Responses, Update(k, r)
          PROVE  Lru!Next
      BY <2>1, UpdateImplements DEF Lru!Next
    <2>2. ASSUME NEW k \in Keys, NEW r \in Responses, Insert(k, r)
          PROVE  Lru!Next
      BY <2>2, InsertImplements DEF Lru!Next
    <2>3. CASE Tick
      BY <2>3 DEF Tick, Lru!Next, Lru!Tick, StoredAt, Contents
    <2>4. CASE UNCHANGED vars
      BY <2>4 DEF vars, Lru!vars, StoredAt, Contents
    <2>5. QED
      BY <2>1, <2>2, <2>3, <2>4 DEF Next
  <1>3. QED
    BY <1>1, <1>2, IInvAlways, PTL DEF Spec, ImplementsLru, Lru!Spec

-----------------------------------------------------------------------------
(* CacheRace with one call at a time: with one thread, or under a lock that *)
(* is held about each whole call.  The invariant says of every line of put and get what the    *)
(* call has made so far of the cache it found, before[t], in the operators  *)
(* of CacheOps; the last line of a method has made what the operator makes. *)

\* No two threads are in a call at once.  The lock_guards that Cache.cpp has as
\* comments would not see to it: those of lines 83 and 116 are taken after the
\* test of line 80, and that of line 61 would wait for the mutex that line 116
\* has locked.
OneAtATime == \A t, u \in Threads : pc[t] # "idle" /\ pc[u] # "idle" => t = u

\* There is one thread.
Alone == \A t, u \in Threads : t = u

\* A cache between two calls, in some order of the puts that made it.
Sound(c) ==
    /\ c \in CacheValue /\ Structure(c) /\ c.wild = {}
    /\ \E s \in [Nodes -> Nat], p \in Nat : Order(c, s, p, 0)

Lines ==
    {"ask", "get233", "getFull", "returnGet",
     "put80", "put84", "put85", "put94", "put119", "put130", "put143", "put144", "startLine",
     "return", "move25", "move29", "move31", "move32", "move33", "move38", "move39", "move40",
     "add4", "add6", "add7", "add14", "add15", "add16",
     "inc", "incWrite", "dec", "decWrite",
     "remove46", "remove50", "remove52", "remove56", "remove57", "remove66"}

Locals ==
    [key : Keys, response : Response, node : Pointer, oldKey : Keys,
     mode : {0, 1}, count : Int]

\* The node of the key the call is about.
Found(l, b) == IsCached(b, l.key) /\ l.node = b.cacheMap[l.key]

Renewed(l, b) == [b EXCEPT !.entry[l.node] = Updated(@, l.response, 0)]

\* Up to the first statement of put or get that writes.
Reading(line, c, l, b) ==
    /\ line \in {"put80", "ask", "returnGet", "put84", "get233", "getFull", "put85",
                 "put119", "remove46", "remove50", "remove52"} => c = b
    /\ line \in {"put84", "get233"} => IsCached(b, l.key)
    /\ line \in {"getFull", "put85"} => Found(l, b)
    /\ line \in {"put119", "remove46", "remove50", "remove52", "remove56",
                 "remove57", "dec", "decWrite", "remove66", "put130"} =>
          ~IsCached(b, l.key)
    /\ line \in {"remove46", "remove50", "remove52", "remove56",
                 "remove57", "dec", "decWrite", "remove66"} => IsFull(b)
    /\ line \in {"remove50", "remove52", "remove56",
                 "remove57", "dec", "decWrite", "remove66"} => b.tail # NULL
    /\ line \in {"remove52", "remove56", "remove57", "dec", "decWrite",
                 "remove66"} => l.node = b.tail /\ l.oldKey = b.cacheKey[b.tail]

\* removeTail, line by line; what it makes in the end is MakeRoom.
Removing(line, c, l, b) ==
    LET head == IF b.head = b.tail THEN NULL ELSE b.head IN
    /\ line = "remove56" => c = [b EXCEPT !.head = head]
    /\ line = "remove57" => c = [b EXCEPT !.head = head, !.tail = b.prev[b.tail]]
    /\ line \in {"dec", "decWrite"} =>
          c = [b EXCEPT !.head = head, !.tail = b.prev[b.tail],
                        !.live = b.live \ {b.tail}]
    /\ line = "decWrite" => l.count = b.size
    /\ line = "remove66" =>
          c = [b EXCEPT !.head = head, !.tail = b.prev[b.tail],
                        !.live = b.live \ {b.tail}, !.size = b.size - 1]
    /\ line = "put130" => c = MakeRoom(b)

\* The update of a cached node, and moveToHead of it.
Moving(line, c, l, b) ==
    LET n == l.node
        u == Renewed(l, b)
        v == [u.prev EXCEPT ![u.next[n]] = u.prev[n]] IN
    /\ line \in {"put94", "move25", "move29", "move31", "move32", "move33",
                 "move38", "move39", "move40"} => Found(l, b)
    /\ line = "put94" =>
          c = [b EXCEPT !.entry[n] = [@ EXCEPT
                 !.responseTime = 0, !.ETag = u.entry[n].ETag,
                 !.LastModified = u.entry[n].LastModified]]
    /\ line \in {"move25", "move29", "move31", "move38"} => c = u
    /\ line \in {"move29", "move31", "move32", "move33",
                 "move38", "move39", "move40"} => n # b.head
    /\ line \in {"move31", "move32", "move33"} => n # b.tail
    /\ line \in {"move31", "move32", "move33", "move38", "move39", "move40"} =>
          l.mode = 1
    /\ line \in {"move38", "move39", "move40"} => n = b.tail
    /\ line = "move32" => c = [u EXCEPT !.prev = v]
    /\ line = "move33" =>
          c = [u EXCEPT !.prev = v, !.next = [@ EXCEPT ![u.prev[n]] = u.next[n]]]
    /\ line = "move39" => c = [u EXCEPT !.tail = u.prev[n]]
    /\ line = "move40" =>
          c = [u EXCEPT !.tail = u.prev[n], !.next = [@ EXCEPT ![u.prev[n]] = NULL]]

\* The node that goes to the head, and the cache addFromHead finds: a cached
\* node taken out of the list (mode 1), or a new one (mode 0).
Loose(l, b) ==
    IF l.mode = 1
    THEN Found(l, b) /\ l.node # b.head
    ELSE ~IsCached(b, l.key) /\ l.node \in Nodes \ MakeRoom(b).live

Base(l, b) ==
    IF l.mode = 0
    THEN NewCacheNode(MakeRoom(b), l.key, l.response, l.node, 0)
    ELSE IF l.node = b.tail THEN UnlinkTail(Renewed(l, b), l.node)
                            ELSE UnlinkInner(Renewed(l, b), l.node)

\* addFromHead, and the entry in cacheMap after it.
Adding(line, c, l, b) ==
    LET n == l.node
        m == Base(l, b) IN
    /\ line \in {"add4", "add6", "add7", "add14", "add15", "add16",
                 "inc", "incWrite", "put143"} => Loose(l, b)
    /\ line \in {"add4", "add6", "add14"} => c = m
    /\ line \in {"add6", "add7"} => m.head = NULL
    /\ line \in {"add14", "add15", "add16"} => m.head # NULL
    /\ line = "add7" => c = [m EXCEPT !.head = n]
    /\ line = "add15" => c = [m EXCEPT !.next = [@ EXCEPT ![n] = m.head]]
    /\ line = "add16" => c = [m EXCEPT !.next = [@ EXCEPT ![n] = m.head],
                                       !.prev = [@ EXCEPT ![m.head] = n]]
    /\ line \in {"inc", "incWrite", "put143"} => l.mode = 0
    /\ line \in {"inc", "incWrite"} => c = AddFromHead(m, n, 1)
    /\ line = "incWrite" => l.count = m.size
    /\ line = "put143" => c = AddFromHead(m, n, 0)

\* How far a call has come that found the cache b: the cache is c, its locals
\* are l.
Along(line, c, l, b) ==
    /\ Sound(b)
    /\ Reading(line, c, l, b)
    /\ Removing(line, c, l, b)
    /\ Moving(line, c, l, b)
    /\ Adding(line, c, l, b)
    /\ line \in {"put144", "startLine", "return"} =>
          c \in Outcomes(b, l.key, l.response)
    /\ line \in {"put144", "startLine"} => IsCached(c, l.key)
    /\ line = "startLine" => l.node = c.cacheMap[l.key]

RaceInv ==
    /\ nulls = {}
    /\ pc \in [Threads -> Lines \union {"idle"}]
    /\ local \in [Threads -> Locals]
    /\ before \in [Threads -> CacheValue]
    /\ (\A t \in Threads : pc[t] = "idle") => Sound(shared)
    /\ \A t \in Threads : pc[t] # "idle" => Along(pc[t], shared, local[t], before[t])

-----------------------------------------------------------------------------
(* What the lines do to a cache they follow no wild pointer of.             *)

LEMMA SetNextLive ==
    ASSUME NEW c \in CacheValue, NEW p \in c.live, NEW q \in Pointer
    PROVE  /\ SetNext(c, p, q) = [c EXCEPT !.next = [c.next EXCEPT ![p] = q]]
           /\ SetNext(c, p, q) \in CacheValue
  <1>1. p \in Nodes /\ [c.next EXCEPT ![p] = q] \in [Nodes -> Pointer]
    BY DEF CacheValue
  <1>2. Deref(c, {p}) = c
    BY DerefLive
  <1>3. SetNext(c, p, q) = [c EXCEPT !.next = [c.next EXCEPT ![p] = q]]
    BY <1>1, <1>2 DEF SetNext, Set, CacheValue
  <1>4. QED
    BY <1>1, <1>3 DEF CacheValue

LEMMA SetPrevLive ==
    ASSUME NEW c \in CacheValue, NEW p \in c.live, NEW q \in Pointer
    PROVE  /\ SetPrev(c, p, q) = [c EXCEPT !.prev = [c.prev EXCEPT ![p] = q]]
           /\ SetPrev(c, p, q) \in CacheValue
  <1>1. p \in Nodes /\ [c.prev EXCEPT ![p] = q] \in [Nodes -> Pointer]
    BY DEF CacheValue
  <1>2. Deref(c, {p}) = c
    BY DerefLive
  <1>3. SetPrev(c, p, q) = [c EXCEPT !.prev = [c.prev EXCEPT ![p] = q]]
    BY <1>1, <1>2 DEF SetPrev, Set, CacheValue
  <1>4. QED
    BY <1>1, <1>3 DEF CacheValue

\* The node of a cached key, and the cache with its entry renewed.  A node is
\* no neighbour of itself: that takes the order.
LEMMA FoundFacts ==
    ASSUME NEW b, Sound(b), NEW l \in Locals, Found(l, b),
           NEW n, n = l.node, NEW u, u = Renewed(l, b)
    PROVE  /\ n \in Nodes /\ n \in b.live
           /\ u \in CacheValue /\ u.wild = {}
           /\ u.head = b.head /\ u.tail = b.tail /\ u.live = b.live
           /\ u.next = b.next /\ u.prev = b.prev /\ u.size = b.size
           /\ u.head \in u.live
           /\ n # u.head => u.prev[n] \in u.live /\ u.prev[n] # n
           /\ n # u.tail => u.next[n] \in u.live /\ u.next[n] # n
           /\ u.entry[n] = Updated(b.entry[n], l.response, 0)
  <1>1. PICK s \in [Nodes -> Nat], p \in Nat : Order(b, s, p, 0)
    BY DEF Sound
  <1>2. b \in CacheValue /\ Structure(b) /\ b.wild = {}
    BY DEF Sound
  <1>3. n \in b.live /\ n \in Nodes
    BY <1>2 DEF Found, Structure, MapAgrees, CacheValue, Locals
  <1>4. l.response \in Response
    BY DEF Locals
  <1>5. u = [b EXCEPT !.entry[n] = Updated(@, l.response, 0)]
    BY DEF Renewed
  <1>6. /\ u \in CacheValue
        /\ u.head = b.head /\ u.tail = b.tail
        /\ u.next = b.next /\ u.prev = b.prev
        /\ u.live = b.live /\ u.size = b.size /\ u.wild = b.wild
    <2>1. b \in CacheValue /\ n \in Nodes /\ 0 \in Nat
      BY <1>2, <1>3
    <2>2. QED
      BY <1>4, <1>5, <2>1, UpdatedFields
  <1>7. u.entry[n] = Updated(b.entry[n], l.response, 0)
    BY <1>2, <1>3, <1>5 DEF CacheValue
  <1>8. b.head \in b.live
    BY <1>2, <1>3 DEF Structure, Ends
  <1>9. n # b.head => /\ b.prev[n] \in b.live \ {b.tail} /\ b.next[b.prev[n]] = n
    BY <1>2, <1>3 DEF Structure, Links
  <1>10. n # b.tail => b.next[n] \in b.live
    BY <1>2, <1>3 DEF Structure, Links
  <1>11. \A m \in b.live \ {b.tail} : b.next[m] # m
    <2>1. ASSUME NEW m \in b.live \ {b.tail}, b.next[m] = m
          PROVE  FALSE
      <3>1. s[m] \in Nat /\ s[m] < s[m]
        BY <1>1, <1>2, <2>1 DEF Order, CacheValue
      <3>2. QED
        BY <3>1
    <2>2. QED
      BY <2>1
  <1>12. n # b.head => b.prev[n] # n
    BY <1>9, <1>11
  <1>13. n # b.tail => b.next[n] # n
    BY <1>3, <1>11
  <1>14. QED
    BY <1>2, <1>3, <1>6, <1>7, <1>8, <1>9, <1>10, <1>12, <1>13

-----------------------------------------------------------------------------
(* The lines one after the other: where one ends, the next begins.          *)

\* The tests and look-ups of put and get.
LEMMA ReadingLines ==
    ASSUME NEW c, NEW l \in Locals, NEW b, Sound(b)
    PROVE  /\ Along("put80", c, l, b) =>
                 Along(IF IsCached(c, l.key) THEN "put84" ELSE "put119", c, l, b)
           /\ Along("ask", c, l, b) =>
                 Along(IF IsCached(c, l.key) THEN "get233" ELSE "returnGet", c, l, b)
           /\ Along("put119", c, l, b) =>
                 Along(IF IsFull(c) THEN "remove46" ELSE "put130", c, l, b)
           /\ Along("remove46", c, l, b) =>
                 Along(IF c.tail = NULL THEN "put130" ELSE "remove50", c, l, b)
  <1>1. Along("put80", c, l, b) =>
           Along(IF IsCached(c, l.key) THEN "put84" ELSE "put119", c, l, b)
    BY DEF Along, Reading, Removing, Moving, Adding
  <1>2. Along("ask", c, l, b) =>
           Along(IF IsCached(c, l.key) THEN "get233" ELSE "returnGet", c, l, b)
    BY DEF Along, Reading, Removing, Moving, Adding
  <1>3. Along("put119", c, l, b) =>
           Along(IF IsFull(c) THEN "remove46" ELSE "put130", c, l, b)
    BY DEF Along, Reading, Removing, Moving, Adding, MakeRoom
  <1>4. Along("remove46", c, l, b) =>
           Along(IF c.tail = NULL THEN "put130" ELSE "remove50", c, l, b)
    BY DEF Along, Reading, Removing, Moving, Adding, MakeRoom, RemoveTail
  <1>5. QED
    BY <1>1, <1>2, <1>3, <1>4

LEMMA FindLines ==
    ASSUME NEW c, NEW l \in Locals, NEW b, Sound(b),
           NEW d, d = [l EXCEPT !.node = c.cacheMap[l.key]]
    PROVE  /\ Along("put84", c, l, b) => d \in Locals /\ Along("put85", c, d, b)
           /\ Along("get233", c, l, b) => d \in Locals /\ Along("getFull", c, d, b)
           /\ Along("getFull", c, l, b) =>
                 /\ Deref(c, {l.node}) = c
                 /\ Along("returnGet", c, l, b)
  <1>1. d.key = l.key /\ d.node = c.cacheMap[l.key]
    BY DEF Locals
  <1>2. c = b => d \in Locals
    BY DEF Locals, Sound, CacheValue
  <1>3. Along("put84", c, l, b) => d \in Locals /\ Along("put85", c, d, b)
    BY <1>1, <1>2 DEF Along, Reading, Removing, Moving, Adding, Found
  <1>4. Along("get233", c, l, b) => d \in Locals /\ Along("getFull", c, d, b)
    BY <1>1, <1>2 DEF Along, Reading, Removing, Moving, Adding, Found
  <1>5. Along("getFull", c, l, b) => Along("returnGet", c, l, b)
    BY DEF Along, Reading, Removing, Moving, Adding
  <1>6. Along("getFull", c, l, b) => Deref(c, {l.node}) = c
    <2>1. SUFFICES ASSUME Along("getFull", c, l, b)
                   PROVE  Deref(c, {l.node}) = c
      OBVIOUS
    <2>2. c = b /\ Found(l, b)
      BY <2>1 DEF Along, Reading
    <2>3. c \in CacheValue /\ l.node \in c.live
      BY <2>2, FoundFacts DEF Sound
    <2>4. QED
      BY <2>3, DerefLive
  <1>7. QED
    BY <1>3, <1>4, <1>5, <1>6

\* removeTail: the copy of the tail's key, taken before the delete.
LEMMA CopyLine ==
    ASSUME NEW c, NEW l \in Locals, NEW b, Sound(b), Along("remove50", c, l, b),
           NEW d, d = [l EXCEPT !.node = c.tail, !.oldKey = c.cacheKey[c.tail]]
    PROVE  /\ c.tail \in Nodes /\ Deref(c, {c.tail}) = c
           /\ d \in Locals /\ Along("remove52", c, d, b)
  <1>1. b \in CacheValue /\ Structure(b)
    BY DEF Sound
  <1>2. b.tail # NULL => /\ b.tail \in b.live /\ b.tail \in Nodes
                         /\ Deref(b, {b.tail}) = b
    BY <1>1, DerefLive DEF Structure, Ends, CacheValue
  <1>3. c = b /\ b.tail # NULL /\ ~IsCached(b, l.key) /\ IsFull(b)
    BY DEF Along, Reading
  <1>4. d \in Locals /\ d.key = l.key
    BY <1>1, <1>2, <1>3 DEF Locals, CacheValue, Pointer
  <1>5. d.node = b.tail /\ d.oldKey = b.cacheKey[b.tail]
    BY <1>3 DEF Locals
  <1>6. Along("remove52", c, d, b)
    BY <1>3, <1>4, <1>5 DEF Along, Reading, Removing, Moving, Adding
  <1>7. QED
    BY <1>2, <1>3, <1>4, <1>6

\* The lines of removeTail after it.
LEMMA RemovingLines ==
    ASSUME NEW c, NEW l \in Locals, NEW b, Sound(b), NEW d, NEW e
    PROVE  /\ /\ Along("remove52", c, l, b)
              /\ e = [c EXCEPT !.head = IF @ = c.tail THEN NULL ELSE @]
              => Along("remove56", e, l, b)
           /\ /\ Along("remove56", c, l, b)
              /\ e = [Deref(c, {c.tail}) EXCEPT !.tail = At(c.prev, @)]
              => Along("remove57", e, l, b)
           /\ /\ Along("remove57", c, l, b)
              /\ e = [Deref(c, {l.node}) EXCEPT !.live = @ \ {l.node}]
              => Along("dec", e, l, b)
           /\ /\ Along("dec", c, l, b)
              /\ d = [l EXCEPT !.count = c.size]
              => d \in Locals /\ Along("decWrite", c, d, b)
           /\ /\ Along("decWrite", c, l, b)
              /\ e = [c EXCEPT !.size = l.count - 1]
              => Along("remove66", e, l, b)
           /\ /\ Along("remove66", c, l, b)
              /\ e = [c EXCEPT !.cacheMap[l.oldKey] = NULL]
              => Along("put130", e, l, b)
  <1>1. b \in CacheValue /\ Structure(b)
    BY DEF Sound
  <1>2. b.tail # NULL => /\ b.tail \in b.live /\ b.tail \in Nodes
                         /\ Deref(b, {b.tail}) = b
    BY <1>1, DerefLive DEF Structure, Ends, CacheValue
  <1>3. /\ Along("remove52", c, l, b)
        /\ e = [c EXCEPT !.head = IF @ = c.tail THEN NULL ELSE @]
        => Along("remove56", e, l, b)
    BY <1>1 DEF Along, Reading, Removing, Moving, Adding, CacheValue
  <1>4. /\ Along("remove56", c, l, b)
        /\ e = [Deref(c, {c.tail}) EXCEPT !.tail = At(c.prev, @)]
        => Along("remove57", e, l, b)
    <2>1. SUFFICES ASSUME Along("remove56", c, l, b),
                          e = [Deref(c, {c.tail}) EXCEPT !.tail = At(c.prev, @)]
                   PROVE  Along("remove57", e, l, b)
      OBVIOUS
    <2>2. /\ c = [b EXCEPT !.head = IF b.head = b.tail THEN NULL ELSE b.head]
          /\ b.tail # NULL
      BY <2>1 DEF Along, Reading, Removing
    <2>3. /\ c \in CacheValue /\ c.tail = b.tail /\ c.prev = b.prev
          /\ c.live = b.live
      BY <1>1, <2>2 DEF CacheValue, Pointer
    <2>4. Deref(c, {c.tail}) = c /\ At(c.prev, c.tail) = b.prev[b.tail]
      <3>1. {c.tail} \in SUBSET c.live
        BY <1>2, <2>2, <2>3
      <3>2. Deref(c, {c.tail}) = c
        BY <2>3, <3>1, DerefLive
      <3>3. QED
        BY <1>2, <2>2, <2>3, <3>2 DEF At
    <2>5. e = [b EXCEPT !.head = IF b.head = b.tail THEN NULL ELSE b.head,
                        !.tail = b.prev[b.tail]]
      BY <1>1, <2>1, <2>2, <2>3, <2>4 DEF CacheValue
    <2>6. QED
      BY <2>1, <2>5 DEF Along, Reading, Removing, Moving, Adding
  <1>5. /\ Along("remove57", c, l, b)
        /\ e = [Deref(c, {l.node}) EXCEPT !.live = @ \ {l.node}]
        => Along("dec", e, l, b)
    <2>1. SUFFICES ASSUME Along("remove57", c, l, b),
                          e = [Deref(c, {l.node}) EXCEPT !.live = @ \ {l.node}]
                   PROVE  Along("dec", e, l, b)
      OBVIOUS
    <2>2. /\ c = [b EXCEPT !.head = IF b.head = b.tail THEN NULL ELSE b.head,
                           !.tail = b.prev[b.tail]]
          /\ b.tail # NULL /\ l.node = b.tail
      BY <2>1 DEF Along, Reading, Removing
    <2>3. /\ b.prev[b.tail] \in Pointer
          /\ (IF b.head = b.tail THEN NULL ELSE b.head) \in Pointer
      BY <1>1, <1>2, <2>2 DEF CacheValue, Pointer
    <2>4. c \in CacheValue /\ c.live = b.live
      BY <1>1, <2>2, <2>3 DEF CacheValue
    <2>5. Deref(c, {l.node}) = c
      <3>1. {l.node} \in SUBSET c.live
        BY <1>2, <2>2, <2>4
      <3>2. QED
        BY <2>4, <3>1, DerefLive
    <2>6. e = [b EXCEPT !.head = IF b.head = b.tail THEN NULL ELSE b.head,
                        !.tail = b.prev[b.tail], !.live = b.live \ {b.tail}]
      BY <1>1, <2>1, <2>2, <2>5 DEF CacheValue
    <2>7. QED
      BY <2>1, <2>6 DEF Along, Reading, Removing, Moving, Adding
  <1>6. /\ Along("dec", c, l, b)
        /\ d = [l EXCEPT !.count = c.size]
        => d \in Locals /\ Along("decWrite", c, d, b)
    <2>1. SUFFICES ASSUME Along("dec", c, l, b), d = [l EXCEPT !.count = c.size]
                   PROVE  d \in Locals /\ Along("decWrite", c, d, b)
      OBVIOUS
    <2>2. c.size = b.size /\ b.size \in Int
      BY <1>1, <2>1 DEF Along, Removing, CacheValue
    <2>3. /\ d \in Locals /\ d.key = l.key /\ d.node = l.node
          /\ d.oldKey = l.oldKey /\ d.count = b.size
      BY <2>1, <2>2 DEF Locals
    <2>4. QED
      BY <2>1, <2>3 DEF Along, Reading, Removing, Moving, Adding
  <1>7. /\ Along("decWrite", c, l, b)
        /\ e = [c EXCEPT !.size = l.count - 1]
        => Along("remove66", e, l, b)
    BY <1>1 DEF Along, Reading, Removing, Moving, Adding, CacheValue
  <1>8. /\ Along("remove66", c, l, b)
        /\ e = [c EXCEPT !.cacheMap[l.oldKey] = NULL]
        => Along("put130", e, l, b)
    <2>1. SUFFICES ASSUME Along("remove66", c, l, b),
                          e = [c EXCEPT !.cacheMap[l.oldKey] = NULL]
                   PROVE  Along("put130", e, l, b)
      OBVIOUS
    <2>2. /\ c = [b EXCEPT !.head = IF b.head = b.tail THEN NULL ELSE b.head,
                           !.tail = b.prev[b.tail], !.live = b.live \ {b.tail},
                           !.size = b.size - 1]
          /\ b.tail # NULL /\ IsFull(b) /\ l.oldKey = b.cacheKey[b.tail]
      BY <2>1 DEF Along, Reading, Removing
    <2>3. e = RemoveTail(b)
      BY <1>1, <1>2, <2>1, <2>2 DEF RemoveTail, CacheValue
    <2>4. QED
      BY <2>1, <2>2, <2>3 DEF Along, Reading, Removing, Moving, Adding, MakeRoom
  <1>9. QED
    BY <1>3, <1>4, <1>5, <1>6, <1>7, <1>8

\* The update of the node of a cached key, in two assignments.
LEMMA UpdateLines ==
    ASSUME NEW c, NEW l \in Locals, NEW b, Sound(b), NEW e,
           NEW f, f = c.entry[l.node], NEW g, g = Updated(f, l.response, 0)
    PROVE  /\ Along("put85", c, l, b) =>
                 /\ Deref(c, {l.node}) = c /\ l.node \in Nodes
                 /\ e = [c EXCEPT !.entry[l.node] =
                           [f EXCEPT !.responseTime = g.responseTime,
                                     !.ETag = g.ETag,
                                     !.LastModified = g.LastModified]]
                    => Along("put94", e, l, b)
           /\ Along("put94", c, l, b) =>
                 /\ Deref(c, {l.node}) = c /\ l.node \in Nodes
                 /\ e = [c EXCEPT !.entry[l.node] = g] => Along("move25", e, l, b)
  <1> DEFINE n == l.node
             u == Renewed(l, b)
             o == b.entry[n]
             h == Updated(o, l.response, 0)
             w == [o EXCEPT !.responseTime = 0, !.ETag = h.ETag,
                            !.LastModified = h.LastModified]
  <1>1. b \in CacheValue
    BY DEF Sound
  <1>2. Found(l, b) => /\ n \in Nodes /\ n \in b.live /\ o \in Entry
                       /\ u.entry[n] = h /\ u = [b EXCEPT !.entry[n] = h]
    <2> SUFFICES ASSUME Found(l, b)
                 PROVE  /\ n \in Nodes /\ n \in b.live /\ o \in Entry
                        /\ u.entry[n] = h /\ u = [b EXCEPT !.entry[n] = h]
      OBVIOUS
    <2>1. n \in Nodes /\ n \in b.live /\ u.entry[n] = h
      BY FoundFacts
    <2>2. o \in Entry
      BY <1>1, <2>1 DEF CacheValue
    <2>3. u = [b EXCEPT !.entry[n] = h]
      BY DEF Renewed
    <2>4. QED
      BY <2>1, <2>2, <2>3
  <1>3. h.responseTime = 0
    BY DEF Updated
  <1>4. Along("put85", c, l, b) =>
           /\ Deref(c, {l.node}) = c /\ l.node \in Nodes
           /\ e = [c EXCEPT !.entry[l.node] =
                     [f EXCEPT !.responseTime = g.responseTime, !.ETag = g.ETag,
                               !.LastModified = g.LastModified]]
              => Along("put94", e, l, b)
    <2> SUFFICES ASSUME Along("put85", c, l, b)
                 PROVE  /\ Deref(c, {l.node}) = c /\ l.node \in Nodes
                        /\ e = [c EXCEPT !.entry[l.node] =
                                  [f EXCEPT !.responseTime = g.responseTime,
                                            !.ETag = g.ETag,
                                            !.LastModified = g.LastModified]]
                           => Along("put94", e, l, b)
      OBVIOUS
    <2>1. c = b /\ Found(l, b)
      BY DEF Along, Reading
    <2>2. {n} \in SUBSET c.live /\ c \in CacheValue
      BY <1>1, <1>2, <2>1
    <2>3. f = o /\ g = h
      BY <2>1
    <2>4. ASSUME e = [c EXCEPT !.entry[l.node] =
                        [f EXCEPT !.responseTime = g.responseTime,
                                  !.ETag = g.ETag,
                                  !.LastModified = g.LastModified]]
          PROVE  Along("put94", e, l, b)
      <3>1. e = [b EXCEPT !.entry[n] = w]
        BY <1>3, <2>1, <2>3, <2>4
      <3>2. e = [b EXCEPT !.entry[n] = [@ EXCEPT
                   !.responseTime = 0, !.ETag = u.entry[n].ETag,
                   !.LastModified = u.entry[n].LastModified]]
        BY <1>1, <1>2, <2>1, <3>1 DEF CacheValue
      <3>3. QED
        BY <2>1, <3>2 DEF Along, Reading, Removing, Moving, Adding
    <2>5. QED
      BY <1>2, <2>1, <2>2, <2>4, DerefLive
  <1>5. Along("put94", c, l, b) =>
           /\ Deref(c, {l.node}) = c /\ l.node \in Nodes
           /\ e = [c EXCEPT !.entry[l.node] = g] => Along("move25", e, l, b)
    <2> SUFFICES ASSUME Along("put94", c, l, b)
                 PROVE  /\ Deref(c, {l.node}) = c /\ l.node \in Nodes
                        /\ e = [c EXCEPT !.entry[l.node] = g] =>
                              Along("move25", e, l, b)
      OBVIOUS
    <2>1. /\ Found(l, b)
          /\ c = [b EXCEPT !.entry[n] = [@ EXCEPT
                    !.responseTime = 0, !.ETag = u.entry[n].ETag,
                    !.LastModified = u.entry[n].LastModified]]
      BY DEF Along, Moving
    <2>2. c = [b EXCEPT !.entry = [b.entry EXCEPT ![n] = w]]
      BY <1>1, <1>2, <2>1 DEF CacheValue
    <2>3. h.ETag \in Tags /\ h.LastModified \in Tags
      <3>1. l.response \in Response /\ o \in Entry
        BY <1>2, <2>1 DEF Locals
      <3>2. QED
        BY <3>1 DEF Updated, Present, Response, Entry
    <2>4. w \in Entry /\ o \in Entry
      BY <1>2, <2>1, <2>3 DEF Entry
    <2>5. w.ETag = h.ETag /\ w.LastModified = h.LastModified /\ w.body = o.body
      BY <2>4 DEF Entry
    <2> HIDE DEF w
    <2>6. /\ c \in CacheValue /\ c.live = b.live
          /\ c.entry = [b.entry EXCEPT ![n] = w]
      <3> DEFINE x == [b.entry EXCEPT ![n] = w]
      <3>1. x \in [Nodes -> Entry]
        BY <1>1, <2>4 DEF CacheValue
      <3>2. c = [b EXCEPT !.entry = x]
        BY <2>2
      <3> HIDE DEF x
      <3>3. c \in CacheValue /\ c.live = b.live /\ c.entry = x
        BY <1>1, <3>1, <3>2 DEF CacheValue
      <3>4. QED
        BY <3>3 DEF x
    <2>7. f = w
      BY <1>1, <1>2, <2>1, <2>6 DEF CacheValue
    <2>8. g = h
      BY <2>5, <2>7 DEF Updated, Present
    <2> HIDE DEF h, o
    <2>9. {n} \in SUBSET c.live
      BY <1>2, <2>1, <2>6
    <2>10. ASSUME e = [c EXCEPT !.entry[l.node] = g]
           PROVE  Along("move25", e, l, b)
      <3>1. e = [c EXCEPT !.entry = [c.entry EXCEPT ![n] = h]]
        BY <2>6, <2>8, <2>10 DEF CacheValue
      <3>2. [c.entry EXCEPT ![n] = h] = [b.entry EXCEPT ![n] = h]
        BY <1>1, <1>2, <2>1, <2>6 DEF CacheValue
      <3>3. e = [b EXCEPT !.entry = [b.entry EXCEPT ![n] = h]]
        BY <1>1, <2>2, <3>1, <3>2 DEF CacheValue
      <3>4. e = u
        BY <1>1, <1>2, <2>1, <3>3 DEF CacheValue
      <3>5. QED
        BY <2>1, <3>4 DEF Along, Reading, Removing, Moving, Adding
    <2>11. QED
      BY <1>2, <2>1, <2>6, <2>9, <2>10, DerefLive
  <1>6. QED
    BY <1>4, <1>5

\* The two tests of moveToHead: the head stays where it is.
LEMMA WhichEnd ==
    ASSUME NEW c, NEW l \in Locals, NEW b, Sound(b),
           NEW d, d = [l EXCEPT !.mode = 1]
    PROVE  /\ Along("move25", c, l, b) =>
                 Along(IF l.node = c.head THEN "return" ELSE "move29", c, l, b)
           /\ Along("move29", c, l, b) =>
                 /\ d \in Locals
                 /\ Along(IF l.node # c.tail THEN "move31" ELSE "move38", c, d, b)
  <1>1. Along("move25", c, l, b) =>
           Along(IF l.node = c.head THEN "return" ELSE "move29", c, l, b)
    <2> SUFFICES ASSUME Along("move25", c, l, b)
                 PROVE  Along(IF l.node = c.head THEN "return" ELSE "move29", c, l, b)
      OBVIOUS
    <2>1. Found(l, b) /\ c = Renewed(l, b)
      BY DEF Along, Moving
    <2>2. c.head = b.head
      BY <2>1, FoundFacts
    <2>3. CASE l.node = c.head
      <3>1. MoveToHead(c, l.node) = c
        BY <2>3 DEF MoveToHead
      <3>2. c = PutCached(b, l.key, l.response, 0)
        BY <2>1, <3>1 DEF PutCached, Found, Renewed
      <3>3. c \in Outcomes(b, l.key, l.response)
        BY <2>1, <3>2 DEF Outcomes, Found
      <3>4. QED
        BY <2>3, <3>3 DEF Along, Reading, Removing, Moving, Adding
    <2>4. CASE l.node # c.head
      BY <2>1, <2>2, <2>4 DEF Along, Reading, Removing, Moving, Adding
    <2>5. QED
      BY <2>3, <2>4
  <1>2. Along("move29", c, l, b) =>
           /\ d \in Locals
           /\ Along(IF l.node # c.tail THEN "move31" ELSE "move38", c, d, b)
    <2> SUFFICES ASSUME Along("move29", c, l, b)
                 PROVE  /\ d \in Locals
                        /\ Along(IF l.node # c.tail THEN "move31" ELSE "move38",
                                 c, d, b)
      OBVIOUS
    <2>1. Found(l, b) /\ c = Renewed(l, b) /\ l.node # b.head
      BY DEF Along, Moving
    <2>2. c.tail = b.tail
      BY <2>1, FoundFacts
    <2>3. /\ d \in Locals /\ d.node = l.node /\ d.key = l.key
          /\ d.response = l.response /\ d.mode = 1
      BY DEF Locals
    <2>4. Found(d, b) /\ Renewed(d, b) = c
      BY <2>1, <2>3 DEF Found, Renewed
    <2>5. QED
      BY <2>1, <2>2, <2>3, <2>4 DEF Along, Reading, Removing, Moving, Adding
  <1>3. QED
    BY <1>1, <1>2

\* moveToHead takes an inner node out of the list.
LEMMA InnerLines ==
    ASSUME NEW c, NEW l \in Locals, NEW b, Sound(b), NEW e, NEW n, n = l.node
    PROVE  /\ /\ Along("move31", c, l, b)
              /\ e = SetPrev(Deref(c, {n}), At(c.next, n), At(c.prev, n))
              => Along("move32", e, l, b)
           /\ /\ Along("move32", c, l, b)
              /\ e = SetNext(Deref(c, {n}), At(c.prev, n), At(c.next, n))
              => Along("move33", e, l, b)
           /\ /\ Along("move33", c, l, b)
              /\ e = SetPrev(SetNext(Deref(c, {n}), n, NULL), n, NULL)
              => Along("add4", e, l, b)
  <1> DEFINE u == Renewed(l, b)
             v == [u.prev EXCEPT ![u.next[n]] = u.prev[n]]
             x == [u.next EXCEPT ![u.prev[n]] = u.next[n]]
  <1>1. ASSUME Found(l, b), n # b.head, n # b.tail
        PROVE  /\ n \in Nodes /\ n \in b.live
               /\ u \in CacheValue /\ u.live = b.live
               /\ u.prev[n] \in u.live /\ u.prev[n] # n
               /\ u.next[n] \in u.live /\ u.next[n] # n
               /\ v \in [Nodes -> Pointer] /\ v[n] = u.prev[n]
               /\ x \in [Nodes -> Pointer] /\ x[n] = u.next[n]
    <2>1. /\ n \in Nodes /\ n \in b.live
          /\ u \in CacheValue /\ u.live = b.live
          /\ u.prev[n] \in u.live /\ u.prev[n] # n
          /\ u.next[n] \in u.live /\ u.next[n] # n
      BY <1>1, FoundFacts
    <2>2. v \in [Nodes -> Pointer] /\ v[n] = u.prev[n]
      BY <2>1 DEF CacheValue
    <2>3. x \in [Nodes -> Pointer] /\ x[n] = u.next[n]
      BY <2>1 DEF CacheValue
    <2>4. QED
      BY <2>1, <2>2, <2>3
  <1>2. /\ Along("move31", c, l, b)
        /\ e = SetPrev(Deref(c, {n}), At(c.next, n), At(c.prev, n))
        => Along("move32", e, l, b)
    <2> SUFFICES ASSUME Along("move31", c, l, b),
                        e = SetPrev(Deref(c, {n}), At(c.next, n), At(c.prev, n))
                 PROVE  Along("move32", e, l, b)
      OBVIOUS
    <2>1. Found(l, b) /\ c = u /\ n # b.head /\ n # b.tail /\ l.mode = 1
      BY DEF Along, Moving
    <2>2. {n} \in SUBSET u.live
      BY <1>1, <2>1
    <2>3. Deref(c, {n}) = u
      BY <1>1, <2>1, <2>2, DerefLive
    <2>4. At(c.next, n) = u.next[n] /\ At(c.prev, n) = u.prev[n]
      BY <1>1, <2>1 DEF At
    <2>5. u.prev[n] \in Pointer
      BY <1>1, <2>1 DEF CacheValue
    <2> HIDE DEF u
    <2>6. e = [u EXCEPT !.prev = v]
      <3>1. e = SetPrev(u, u.next[n], u.prev[n])
        BY <2>3, <2>4
      <3>2. u \in CacheValue /\ u.next[n] \in u.live
        BY <1>1, <2>1
      <3>3. QED
        BY <2>5, <3>1, <3>2, SetPrevLive
    <2>7. QED
      BY <2>1, <2>6 DEF Along, Reading, Removing, Moving, Adding, u
  <1>3. /\ Along("move32", c, l, b)
        /\ e = SetNext(Deref(c, {n}), At(c.prev, n), At(c.next, n))
        => Along("move33", e, l, b)
    <2> SUFFICES ASSUME Along("move32", c, l, b),
                        e = SetNext(Deref(c, {n}), At(c.prev, n), At(c.next, n))
                 PROVE  Along("move33", e, l, b)
      OBVIOUS
    <2>1. /\ Found(l, b) /\ n # b.head /\ n # b.tail /\ l.mode = 1
          /\ c = [u EXCEPT !.prev = v]
      BY DEF Along, Moving
    <2> HIDE DEF u
    <2>2. /\ c \in CacheValue /\ c.live = u.live /\ c.next = u.next
          /\ c.prev[n] = u.prev[n]
      BY <1>1, <2>1 DEF CacheValue
    <2>3. {n} \in SUBSET c.live
      BY <1>1, <2>1, <2>2
    <2>4. Deref(c, {n}) = c
      BY <2>2, <2>3, DerefLive
    <2>5. At(c.next, n) = u.next[n] /\ At(c.prev, n) = u.prev[n]
      BY <1>1, <2>1, <2>2 DEF At
    <2>6. u.next[n] \in Pointer
      BY <1>1, <2>1 DEF CacheValue
    <2>7. e = [c EXCEPT !.next = [c.next EXCEPT ![u.prev[n]] = u.next[n]]]
      <3>1. e = SetNext(c, u.prev[n], u.next[n])
        BY <2>4, <2>5
      <3>2. u.prev[n] \in c.live
        BY <1>1, <2>1, <2>2
      <3>3. QED
        BY <2>2, <2>6, <3>1, <3>2, SetNextLive
    <2>8. e = [u EXCEPT !.prev = v, !.next = x]
      BY <1>1, <2>1, <2>2, <2>7 DEF CacheValue
    <2>9. QED
      BY <2>1, <2>8 DEF Along, Reading, Removing, Moving, Adding, u
  <1>4. /\ Along("move33", c, l, b)
        /\ e = SetPrev(SetNext(Deref(c, {n}), n, NULL), n, NULL)
        => Along("add4", e, l, b)
    <2> SUFFICES ASSUME Along("move33", c, l, b),
                        e = SetPrev(SetNext(Deref(c, {n}), n, NULL), n, NULL)
                 PROVE  Along("add4", e, l, b)
      OBVIOUS
    <2>1. /\ Found(l, b) /\ n # b.head /\ n # b.tail /\ l.mode = 1
          /\ c = [u EXCEPT !.prev = v, !.next = x]
      BY DEF Along, Moving
    <2> HIDE DEF u
    <2>2. /\ c \in CacheValue /\ c.live = u.live /\ c.next = x /\ c.prev = v
      BY <1>1, <2>1 DEF CacheValue
    <2>3. n \in c.live /\ {n} \in SUBSET c.live /\ NULL \in Pointer
      BY <1>1, <2>1, <2>2 DEF Pointer
    <2>4. Deref(c, {n}) = c
      BY <2>2, <2>3, DerefLive
    <2> DEFINE d == SetNext(c, n, NULL)
    <2>5. /\ d = [c EXCEPT !.next = [x EXCEPT ![n] = NULL]]
          /\ d \in CacheValue
      BY <2>2, <2>3, SetNextLive
    <2> HIDE DEF d
    <2>6. d.live = c.live /\ d.prev = v
      BY <2>2, <2>5 DEF CacheValue
    <2>7. SetPrev(d, n, NULL) = [d EXCEPT !.prev = [v EXCEPT ![n] = NULL]]
      <3>1. n \in d.live /\ d \in CacheValue /\ NULL \in Pointer
        BY <2>3, <2>5, <2>6
      <3>2. SetPrev(d, n, NULL) = [d EXCEPT !.prev = [d.prev EXCEPT ![n] = NULL]]
        BY <3>1, SetPrevLive
      <3>3. QED
        BY <2>6, <3>2
    <2>8. e = [d EXCEPT !.prev = [v EXCEPT ![n] = NULL]]
      BY <2>4, <2>7 DEF d
    <2>9. {n, u.next[n], u.prev[n]} \in SUBSET u.live
      BY <1>1, <2>1
    <2>10. Deref(u, {n, u.next[n], u.prev[n]}) = u
      BY <1>1, <2>1, <2>9, DerefLive
    <2>11. UnlinkInner(u, n) = [u EXCEPT !.prev = [v EXCEPT ![n] = NULL],
                                         !.next = [x EXCEPT ![n] = NULL]]
      BY <1>1, <2>1, <2>10 DEF UnlinkInner, CacheValue
    <2>12. e = UnlinkInner(u, n)
      <3>1. u \in CacheValue
        BY <1>1, <2>1
      <3>2. c = [u EXCEPT !.prev = v, !.next = x]
        BY <2>1 DEF v, x
      <3> HIDE DEF v, x
      <3>3. d = [u EXCEPT !.prev = v, !.next = [x EXCEPT ![n] = NULL]]
        BY <2>5, <3>1, <3>2 DEF CacheValue
      <3>4. e = [u EXCEPT !.prev = [v EXCEPT ![n] = NULL],
                          !.next = [x EXCEPT ![n] = NULL]]
        BY <2>8, <3>1, <3>3 DEF CacheValue
      <3>5. QED
        BY <2>11, <3>4
    <2>13. Loose(l, b) /\ e = Base(l, b)
      BY <2>1, <2>12 DEF Loose, Base, u
    <2>14. QED
      BY <2>13 DEF Along, Reading, Removing, Moving, Adding
  <1>5. QED
    BY <1>2, <1>3, <1>4

\* moveToHead takes the tail off the list.
LEMMA TailLines ==
    ASSUME NEW c, NEW l \in Locals, NEW b, Sound(b), NEW e, NEW n, n = l.node
    PROVE  /\ /\ Along("move38", c, l, b)
              /\ e = [Deref(c, {n}) EXCEPT !.tail = At(c.prev, n)]
              => Along("move39", e, l, b)
           /\ /\ Along("move39", c, l, b)
              /\ e = SetNext(Deref(c, {n}), At(c.prev, n), NULL)
              => Along("move40", e, l, b)
           /\ /\ Along("move40", c, l, b)
              /\ e = SetPrev(Deref(c, {n}), n, NULL)
              => Along("add4", e, l, b)
  <1> DEFINE u == Renewed(l, b)
             x == [u.next EXCEPT ![u.prev[n]] = NULL]
  <1>1. ASSUME Found(l, b), n # b.head
        PROVE  /\ n \in Nodes /\ n \in b.live
               /\ u \in CacheValue /\ u.live = b.live
               /\ u.prev[n] \in u.live /\ u.prev[n] \in Pointer
               /\ x \in [Nodes -> Pointer] /\ {n} \in SUBSET u.live
               /\ NULL \in Pointer
    <2>1. /\ n \in Nodes /\ n \in b.live
          /\ u \in CacheValue /\ u.live = b.live /\ u.prev[n] \in u.live
      BY <1>1, FoundFacts
    <2>2. NULL \in Pointer
      BY DEF Pointer
    <2>3. x \in [Nodes -> Pointer] /\ u.prev[n] \in Pointer
      BY <2>1, <2>2 DEF CacheValue
    <2>4. QED
      BY <2>1, <2>2, <2>3
  <1>2. /\ Along("move38", c, l, b)
        /\ e = [Deref(c, {n}) EXCEPT !.tail = At(c.prev, n)]
        => Along("move39", e, l, b)
    <2> SUFFICES ASSUME Along("move38", c, l, b),
                        e = [Deref(c, {n}) EXCEPT !.tail = At(c.prev, n)]
                 PROVE  Along("move39", e, l, b)
      OBVIOUS
    <2>1. Found(l, b) /\ c = u /\ n # b.head /\ n = b.tail /\ l.mode = 1
      BY DEF Along, Moving
    <2>2. Deref(c, {n}) = u
      BY <1>1, <2>1, DerefLive
    <2>3. At(c.prev, n) = u.prev[n]
      BY <1>1, <2>1 DEF At
    <2>4. e = [u EXCEPT !.tail = u.prev[n]]
      BY <2>2, <2>3
    <2>5. QED
      BY <2>1, <2>4 DEF Along, Reading, Removing, Moving, Adding
  <1>3. /\ Along("move39", c, l, b)
        /\ e = SetNext(Deref(c, {n}), At(c.prev, n), NULL)
        => Along("move40", e, l, b)
    <2> SUFFICES ASSUME Along("move39", c, l, b),
                        e = SetNext(Deref(c, {n}), At(c.prev, n), NULL)
                 PROVE  Along("move40", e, l, b)
      OBVIOUS
    <2>1. /\ Found(l, b) /\ n # b.head /\ n = b.tail /\ l.mode = 1
          /\ c = [u EXCEPT !.tail = u.prev[n]]
      BY DEF Along, Moving
    <2> HIDE DEF u
    <2>2. /\ c \in CacheValue /\ c.live = u.live /\ c.next = u.next
          /\ c.prev = u.prev
      BY <1>1, <2>1 DEF CacheValue
    <2>3. Deref(c, {n}) = c
      BY <1>1, <2>1, <2>2, DerefLive
    <2>4. At(c.prev, n) = u.prev[n]
      BY <1>1, <2>1, <2>2 DEF At
    <2>5. e = [c EXCEPT !.next = x]
      <3>1. e = SetNext(c, u.prev[n], NULL)
        BY <2>3, <2>4
      <3>2. u.prev[n] \in c.live /\ NULL \in Pointer
        BY <1>1, <2>1, <2>2
      <3>3. e = [c EXCEPT !.next = [c.next EXCEPT ![u.prev[n]] = NULL]]
        BY <2>2, <3>1, <3>2, SetNextLive
      <3>4. QED
        BY <2>2, <3>3
    <2>6. e = [u EXCEPT !.tail = u.prev[n], !.next = x]
      BY <1>1, <2>1, <2>5 DEF CacheValue
    <2>7. QED
      BY <2>1, <2>6 DEF Along, Reading, Removing, Moving, Adding, u
  <1>4. /\ Along("move40", c, l, b)
        /\ e = SetPrev(Deref(c, {n}), n, NULL)
        => Along("add4", e, l, b)
    <2> SUFFICES ASSUME Along("move40", c, l, b),
                        e = SetPrev(Deref(c, {n}), n, NULL)
                 PROVE  Along("add4", e, l, b)
      OBVIOUS
    <2>1. /\ Found(l, b) /\ n # b.head /\ n = b.tail /\ l.mode = 1
          /\ c = [u EXCEPT !.tail = u.prev[n], !.next = x]
      BY DEF Along, Moving
    <2> HIDE DEF u
    <2>2. /\ c \in CacheValue /\ c.live = u.live /\ c.prev = u.prev
      BY <1>1, <2>1 DEF CacheValue
    <2>3. Deref(c, {n}) = c
      BY <1>1, <2>1, <2>2, DerefLive
    <2>4. e = [c EXCEPT !.prev = [u.prev EXCEPT ![n] = NULL]]
      <3>1. e = SetPrev(c, n, NULL)
        BY <2>3
      <3>2. n \in c.live /\ NULL \in Pointer
        BY <1>1, <2>1, <2>2
      <3>3. e = [c EXCEPT !.prev = [c.prev EXCEPT ![n] = NULL]]
        BY <2>2, <3>1, <3>2, SetPrevLive
      <3>4. QED
        BY <2>2, <3>3
    <2>5. {n, u.prev[n]} \in SUBSET u.live
      BY <1>1, <2>1
    <2>6. Deref(u, {n, u.prev[n]}) = u
      BY <1>1, <2>1, <2>5, DerefLive
    <2>7. UnlinkTail(u, n) = [u EXCEPT !.tail = u.prev[n], !.next = x,
                                       !.prev = [u.prev EXCEPT ![n] = NULL]]
      BY <1>1, <2>1, <2>6 DEF UnlinkTail, CacheValue
    <2>8. e = UnlinkTail(u, n)
      BY <1>1, <2>1, <2>4, <2>7 DEF CacheValue
    <2>9. Loose(l, b) /\ e = Base(l, b)
      BY <2>1, <2>8 DEF Loose, Base, u
    <2>10. QED
      BY <2>9 DEF Along, Reading, Removing, Moving, Adding
  <1>5. QED
    BY <1>2, <1>3, <1>4

\* The cache addFromHead finds.
LEMMA BaseFacts ==
    ASSUME NEW l \in Locals, NEW b, Sound(b), Loose(l, b),
           NEW m, m = Base(l, b)
    PROVE  /\ m \in CacheValue /\ l.node \in m.live
           /\ m.head # NULL => m.head \in m.live
  <1> DEFINE n == l.node
             u == Renewed(l, b)
             o == MakeRoom(b)
  <1>1. b \in CacheValue /\ Structure(b)
    BY DEF Sound
  <1>2. NULL \in Pointer
    BY DEF Pointer
  <1>3. CASE l.mode = 1
    <2>1. Found(l, b) /\ n # b.head
      BY <1>3 DEF Loose
    <2>2. /\ n \in Nodes /\ n \in b.live /\ u \in CacheValue
          /\ u.live = b.live /\ u.head = b.head /\ u.tail = b.tail
          /\ u.head \in u.live /\ u.prev[n] \in u.live
          /\ n # u.tail => u.next[n] \in u.live
      BY <2>1, FoundFacts
    <2> HIDE DEF u
    <2>3. CASE n = b.tail
      <3>1. {n, u.prev[n]} \in SUBSET u.live
        BY <2>2
      <3>2. Deref(u, {n, u.prev[n]}) = u
        BY <2>2, <3>1, DerefLive
      <3>3. m = [u EXCEPT !.tail = u.prev[n],
                          !.next = [u.next EXCEPT ![u.prev[n]] = NULL],
                          !.prev = [u.prev EXCEPT ![n] = NULL]]
        <4>1. UnlinkTail(u, n) = [u EXCEPT !.tail = u.prev[n],
                 !.next = [u.next EXCEPT ![u.prev[n]] = NULL],
                 !.prev = [u.prev EXCEPT ![n] = NULL]]
          BY <2>2, <3>2 DEF UnlinkTail, CacheValue
        <4>2. m = UnlinkTail(u, n)
          BY <1>3, <2>3 DEF Base, u
        <4>3. QED
          BY <4>1, <4>2
      <3>4. /\ u.prev[n] \in Pointer
            /\ [u.next EXCEPT ![u.prev[n]] = NULL] \in [Nodes -> Pointer]
            /\ [u.prev EXCEPT ![n] = NULL] \in [Nodes -> Pointer]
        BY <1>2, <2>2 DEF CacheValue
      <3>5. m \in CacheValue /\ m.live = u.live /\ m.head = u.head
        BY <2>2, <3>3, <3>4 DEF CacheValue
      <3>6. QED
        BY <2>2, <3>5
    <2>4. CASE n # b.tail
      <3> DEFINE v == [u.prev EXCEPT ![u.next[n]] = u.prev[n], ![n] = NULL]
                 x == [u.next EXCEPT ![u.prev[n]] = u.next[n], ![n] = NULL]
      <3>1. {n, u.next[n], u.prev[n]} \in SUBSET u.live
        BY <2>2, <2>4
      <3>2. Deref(u, {n, u.next[n], u.prev[n]}) = u
        BY <2>2, <3>1, DerefLive
      <3>3. m = [u EXCEPT !.prev = v, !.next = x]
        <4>1. UnlinkInner(u, n) = [u EXCEPT !.prev = v, !.next = x]
          BY <2>2, <3>2 DEF UnlinkInner, CacheValue
        <4>2. m = UnlinkInner(u, n)
          BY <1>3, <2>4 DEF Base, u
        <4>3. QED
          BY <4>1, <4>2
      <3>4. u.prev[n] \in Pointer /\ u.next[n] \in Pointer
        BY <2>2 DEF CacheValue
      <3>5. v \in [Nodes -> Pointer] /\ x \in [Nodes -> Pointer]
        BY <1>2, <2>2, <3>4 DEF CacheValue
      <3> HIDE DEF v, x
      <3>6. m \in CacheValue /\ m.live = u.live /\ m.head = u.head
        BY <2>2, <3>3, <3>5 DEF CacheValue
      <3>7. QED
        BY <2>2, <3>6
    <2>5. QED
      BY <2>3, <2>4
  <1>4. CASE l.mode # 1
    <2>1. l.mode = 0 /\ n \in Nodes \ o.live
      BY <1>4 DEF Loose, Locals
    <2>2. m = NewCacheNode(o, l.key, l.response, n, 0)
      BY <2>1 DEF Base
    <2>3. b.live # {} => b.head \in b.live /\ b.tail \in b.live
      BY <1>1 DEF Structure, Ends
    <2>4. b.live = {} => b.head = NULL /\ b.tail = NULL
      BY <1>1 DEF Structure, Ends
    <2>5. o \in CacheValue /\ (o.head # NULL => o.head \in o.live)
      <3>1. CASE IsFull(b) /\ b.tail \in b.live
        <4>1. o = RemoveTail(b)
          BY <3>1 DEF MakeRoom
        <4>2. /\ o \in CacheValue /\ o.live = b.live \ {b.tail}
              /\ o.head = IF b.head = b.tail THEN NULL ELSE b.head
          BY <1>1, <3>1, <4>1, RemoveTailFields
        <4>3. b.head \in b.live
          BY <2>3, <3>1
        <4> HIDE DEF o
        <4>4. QED
          BY <4>2, <4>3
      <3>2. CASE ~(IsFull(b) /\ b.tail \in b.live)
        <4>1. b.tail \in b.live \/ b.tail = NULL
          BY <2>3, <2>4
        <4>2. o = b
          BY <3>2, <4>1 DEF MakeRoom, RemoveTail
        <4>3. QED
          BY <1>1, <2>3, <2>4, <4>2
      <3>3. QED
        BY <3>1, <3>2
    <2>6. l.response \in Response /\ l.key \in Keys
      BY DEF Locals
    <2>7. NewEntry(l.response, 0) \in Entry
      BY <2>6 DEF NewEntry, Entry, Response, Status
    <2> HIDE DEF o, n
    <2>8. /\ m.head = o.head /\ m.live = o.live \union {n}
          /\ m \in CacheValue
      <3> DEFINE nx == [o.next EXCEPT ![n] = NULL]
                 pv == [o.prev EXCEPT ![n] = NULL]
                 ck == [o.cacheKey EXCEPT ![n] = l.key]
                 en == [o.entry EXCEPT ![n] = NewEntry(l.response, 0)]
                 lv == o.live \union {n}
      <3>1. n \in Nodes
        BY <2>1 DEF n
      <3>2. nx \in [Nodes -> Pointer] /\ pv \in [Nodes -> Pointer]
        BY <1>2, <2>5, <3>1 DEF CacheValue
      <3>3. ck \in [Nodes -> Keys] /\ en \in [Nodes -> Entry]
        BY <2>5, <2>6, <2>7, <3>1 DEF CacheValue
      <3>4. lv \in SUBSET Nodes
        BY <2>5, <3>1 DEF CacheValue
      <3>5. m = [o EXCEPT !.live = lv, !.next = nx, !.prev = pv,
                          !.cacheKey = ck, !.entry = en]
        BY <2>2, <2>5 DEF NewCacheNode, n, CacheValue
      <3> HIDE DEF nx, pv, ck, en, lv
      <3>6. m \in CacheValue /\ m.head = o.head /\ m.live = lv
        BY <2>5, <3>2, <3>3, <3>4, <3>5 DEF CacheValue
      <3>7. QED
        BY <3>6 DEF lv
    <2>9. QED
      BY <2>5, <2>8 DEF n
  <1>5. QED
    BY <1>3, <1>4

\* moveToHead and put, once addFromHead is through.
LEMMA LooseOutcome ==
    ASSUME NEW l \in Locals, NEW b, Sound(b), Loose(l, b),
           NEW m, m = Base(l, b)
    PROVE  /\ l.mode = 1 =>
                 AddFromHead(m, l.node, 1) \in Outcomes(b, l.key, l.response)
           /\ l.mode = 0 =>
                 [AddFromHead(m, l.node, 0) EXCEPT !.cacheMap[l.key] = l.node]
                    \in Outcomes(b, l.key, l.response)
  <1> DEFINE n == l.node
             u == Renewed(l, b)
  <1>1. ASSUME l.mode = 1
        PROVE  AddFromHead(m, n, 1) \in Outcomes(b, l.key, l.response)
    <2>1. Found(l, b) /\ n # b.head
      BY <1>1 DEF Loose
    <2>2. u.head = b.head /\ u.tail = b.tail
      BY <2>1, FoundFacts
    <2>3. PutCached(b, l.key, l.response, 0) = MoveToHead(u, n)
      BY <2>1 DEF PutCached, Found, Renewed
    <2>4. MoveToHead(u, n) = AddFromHead(m, n, 1)
      <3>1. CASE n = b.tail
        <4>1. m = UnlinkTail(u, n)
          BY <1>1, <3>1 DEF Base
        <4>2. QED
          BY <2>1, <2>2, <3>1, <4>1 DEF MoveToHead
      <3>2. CASE n # b.tail
        <4>1. m = UnlinkInner(u, n)
          BY <1>1, <3>2 DEF Base
        <4>2. QED
          BY <2>1, <2>2, <3>2, <4>1 DEF MoveToHead
      <3>3. QED
        BY <3>1, <3>2
    <2>5. QED
      BY <2>1, <2>3, <2>4 DEF Outcomes, Found
  <1>2. ASSUME l.mode = 0
        PROVE  [AddFromHead(m, n, 0) EXCEPT !.cacheMap[l.key] = n]
                  \in Outcomes(b, l.key, l.response)
    <2>1. ~IsCached(b, l.key) /\ n \in Nodes \ MakeRoom(b).live
      BY <1>2 DEF Loose
    <2>2. m = NewCacheNode(MakeRoom(b), l.key, l.response, n, 0)
      BY <1>2 DEF Base
    <2>3. [AddFromHead(m, n, 0) EXCEPT !.cacheMap[l.key] = n]
             = PutNew(b, l.key, l.response, n, 0)
      BY <2>2 DEF PutNew, StoreNode
    <2>4. QED
      BY <2>1, <2>3 DEF Outcomes
  <1>3. QED
    BY <1>1, <1>2

\* addFromHead into an empty list.
LEMMA OnlyNodeLines ==
    ASSUME NEW c, NEW l \in Locals, NEW b, Sound(b), NEW e
    PROVE  /\ Along("add4", c, l, b) =>
                 Along(IF c.head = NULL THEN "add6" ELSE "add14", c, l, b)
           /\ /\ Along("add6", c, l, b)
              /\ e = [c EXCEPT !.head = l.node]
              => Along("add7", e, l, b)
           /\ /\ Along("add7", c, l, b)
              /\ e = [c EXCEPT !.tail = l.node]
              => Along(IF l.mode = 0 THEN "inc" ELSE "return", e, l, b)
  <1> DEFINE n == l.node
             m == Base(l, b)
  <1>1. Along("add4", c, l, b) =>
           Along(IF c.head = NULL THEN "add6" ELSE "add14", c, l, b)
    BY DEF Along, Reading, Removing, Moving, Adding
  <1>2. /\ Along("add6", c, l, b)
        /\ e = [c EXCEPT !.head = l.node]
        => Along("add7", e, l, b)
    BY DEF Along, Reading, Removing, Moving, Adding
  <1>3. /\ Along("add7", c, l, b)
        /\ e = [c EXCEPT !.tail = l.node]
        => Along(IF l.mode = 0 THEN "inc" ELSE "return", e, l, b)
    <2> SUFFICES ASSUME Along("add7", c, l, b), e = [c EXCEPT !.tail = l.node]
                 PROVE  Along(IF l.mode = 0 THEN "inc" ELSE "return", e, l, b)
      OBVIOUS
    <2>1. Loose(l, b) /\ m.head = NULL /\ c = [m EXCEPT !.head = n]
      BY DEF Along, Adding
    <2>2. m \in CacheValue
      BY <2>1, BaseFacts
    <2> HIDE DEF m
    <2>3. AddFromHead(m, n, 1) = [m EXCEPT !.head = n, !.tail = n, !.size = m.size]
      BY <2>1 DEF AddFromHead
    <2>4. e = AddFromHead(m, n, 1)
      BY <2>1, <2>2, <2>3 DEF CacheValue
    <2>5. CASE l.mode = 0
      BY <2>1, <2>4, <2>5 DEF Along, Reading, Removing, Moving, Adding, m
    <2>6. CASE l.mode # 0
      <3>1. l.mode = 1
        BY <2>6 DEF Locals
      <3>2. AddFromHead(m, n, 1) \in Outcomes(b, l.key, l.response)
        BY <2>1, <3>1, LooseOutcome DEF m
      <3>3. QED
        BY <2>4, <2>6, <3>2 DEF Along, Reading, Removing, Moving, Adding
    <2>7. QED
      BY <2>5, <2>6
  <1>4. QED
    BY <1>1, <1>2, <1>3

\* addFromHead in front of a head.
LEMMA FrontLines ==
    ASSUME NEW c, NEW l \in Locals, NEW b, Sound(b), NEW e
    PROVE  /\ /\ Along("add14", c, l, b)
              /\ e = SetNext(c, l.node, c.head)
              => Along("add15", e, l, b)
           /\ /\ Along("add15", c, l, b)
              /\ e = SetPrev(c, c.head, l.node)
              => Along("add16", e, l, b)
           /\ /\ Along("add16", c, l, b)
              /\ e = [c EXCEPT !.head = l.node]
              => Along(IF l.mode = 0 THEN "inc" ELSE "return", e, l, b)
  <1> DEFINE n == l.node
             m == Base(l, b)
             x == [m.next EXCEPT ![n] = m.head]
             v == [m.prev EXCEPT ![m.head] = n]
  <1>1. ASSUME Loose(l, b), m.head # NULL
        PROVE  /\ m \in CacheValue /\ n \in m.live /\ m.head \in m.live
               /\ n \in Pointer /\ m.head \in Pointer
               /\ x \in [Nodes -> Pointer] /\ v \in [Nodes -> Pointer]
    <2>1. m \in CacheValue /\ n \in m.live /\ m.head \in m.live
      BY <1>1, BaseFacts
    <2>2. n \in Pointer /\ m.head \in Pointer
      BY <2>1 DEF CacheValue, Pointer
    <2>3. x \in [Nodes -> Pointer] /\ v \in [Nodes -> Pointer]
      BY <2>1, <2>2 DEF CacheValue
    <2>4. QED
      BY <2>1, <2>2, <2>3
  <1>2. /\ Along("add14", c, l, b)
        /\ e = SetNext(c, l.node, c.head)
        => Along("add15", e, l, b)
    <2> SUFFICES ASSUME Along("add14", c, l, b), e = SetNext(c, l.node, c.head)
                 PROVE  Along("add15", e, l, b)
      OBVIOUS
    <2>1. Loose(l, b) /\ m.head # NULL /\ c = m
      BY DEF Along, Adding
    <2>2. e = SetNext(m, n, m.head)
      BY <2>1
    <2> HIDE DEF m
    <2>3. e = [m EXCEPT !.next = x]
      BY <1>1, <2>1, <2>2, SetNextLive
    <2>4. QED
      BY <2>1, <2>3 DEF Along, Reading, Removing, Moving, Adding, m
  <1>3. /\ Along("add15", c, l, b)
        /\ e = SetPrev(c, c.head, l.node)
        => Along("add16", e, l, b)
    <2> SUFFICES ASSUME Along("add15", c, l, b), e = SetPrev(c, c.head, l.node)
                 PROVE  Along("add16", e, l, b)
      OBVIOUS
    <2>1. Loose(l, b) /\ m.head # NULL /\ c = [m EXCEPT !.next = x]
      BY DEF Along, Adding
    <2> HIDE DEF m
    <2>2. /\ c \in CacheValue /\ c.live = m.live /\ c.prev = m.prev
          /\ c.head = m.head
      BY <1>1, <2>1 DEF CacheValue
    <2>3. e = SetPrev(c, m.head, n) /\ m.head \in c.live /\ n \in Pointer
      BY <1>1, <2>1, <2>2
    <2>4. e = [c EXCEPT !.prev = [c.prev EXCEPT ![m.head] = n]]
      BY <2>2, <2>3, SetPrevLive
    <2>5. e = [m EXCEPT !.next = x, !.prev = v]
      BY <1>1, <2>1, <2>2, <2>4 DEF CacheValue
    <2>6. QED
      BY <2>1, <2>5 DEF Along, Reading, Removing, Moving, Adding, m
  <1>4. /\ Along("add16", c, l, b)
        /\ e = [c EXCEPT !.head = l.node]
        => Along(IF l.mode = 0 THEN "inc" ELSE "return", e, l, b)
    <2> SUFFICES ASSUME Along("add16", c, l, b), e = [c EXCEPT !.head = l.node]
                 PROVE  Along(IF l.mode = 0 THEN "inc" ELSE "return", e, l, b)
      OBVIOUS
    <2>1. Loose(l, b) /\ m.head # NULL /\ c = [m EXCEPT !.next = x, !.prev = v]
      BY DEF Along, Adding
    <2> HIDE DEF m
    <2>2. AddFromHead(m, n, 1) = [m EXCEPT !.next = x, !.prev = v, !.head = n,
                                           !.size = m.size]
      <3>1. m \in CacheValue /\ n \in m.live /\ m.head \in m.live
        BY <1>1, <2>1
      <3>2. AddFromHead(m, n, 1) =
              [m EXCEPT !.next = x, !.prev = v, !.head = n,
                        !.size = IF 1 = 0 THEN m.size + 1 ELSE m.size]
        BY <3>1, AddFromHeadFields
      <3>3. QED
        BY <3>2
    <2>3. e = AddFromHead(m, n, 1)
      BY <1>1, <2>1, <2>2 DEF CacheValue
    <2>4. CASE l.mode = 0
      BY <2>1, <2>3, <2>4 DEF Along, Reading, Removing, Moving, Adding, m
    <2>5. CASE l.mode # 0
      <3>1. l.mode = 1
        BY <2>5 DEF Locals
      <3>2. AddFromHead(m, n, 1) \in Outcomes(b, l.key, l.response)
        BY <2>1, <3>1, LooseOutcome DEF m
      <3>3. QED
        BY <2>3, <2>5, <3>2 DEF Along, Reading, Removing, Moving, Adding
    <2>6. QED
      BY <2>4, <2>5
  <1>5. QED
    BY <1>2, <1>3, <1>4

\* The new node, the counter and the entry in cacheMap.
LEMMA NewLines ==
    ASSUME NEW c, NEW l \in Locals, NEW b, Sound(b), NEW d, NEW e
    PROVE  /\ \A a \in Nodes \ c.live :
                 /\ Along("put130", c, l, b)
                 /\ d = [l EXCEPT !.node = a, !.mode = 0]
                 /\ e = NewCacheNode(c, l.key, l.response, a, 0)
                 => d \in Locals /\ Along("add4", e, d, b)
           /\ /\ Along("inc", c, l, b)
              /\ d = [l EXCEPT !.count = c.size]
              => d \in Locals /\ Along("incWrite", c, d, b)
           /\ /\ Along("incWrite", c, l, b)
              /\ e = [c EXCEPT !.size = l.count + 1]
              => Along("put143", e, l, b)
           /\ /\ Along("put143", c, l, b)
              /\ e = [c EXCEPT !.cacheMap[l.key] = l.node]
              => Along("put144", e, l, b)
  <1> DEFINE n == l.node
             m == Base(l, b)
  <1>1. ASSUME NEW a \in Nodes \ c.live, Along("put130", c, l, b),
               d = [l EXCEPT !.node = a, !.mode = 0],
               e = NewCacheNode(c, l.key, l.response, a, 0)
        PROVE  d \in Locals /\ Along("add4", e, d, b)
    <2>1. c = MakeRoom(b) /\ ~IsCached(b, l.key)
      BY <1>1 DEF Along, Reading, Removing
    <2>2. /\ d \in Locals /\ d.node = a /\ d.mode = 0 /\ d.key = l.key
          /\ d.response = l.response
      BY <1>1 DEF Locals, Pointer
    <2>3. Loose(d, b) /\ e = Base(d, b)
      BY <1>1, <2>1, <2>2 DEF Loose, Base
    <2>4. QED
      BY <2>2, <2>3 DEF Along, Reading, Removing, Moving, Adding
  <1>2. Loose(l, b) => /\ m \in CacheValue /\ n \in m.live
                       /\ m.head # NULL => m.head \in m.live
    BY BaseFacts
  <1>3. Loose(l, b) =>
           /\ AddFromHead(m, n, 1).size = m.size
           /\ AddFromHead(m, n, 0) = [AddFromHead(m, n, 1) EXCEPT !.size = m.size + 1]
    <2> SUFFICES ASSUME Loose(l, b)
                 PROVE  /\ AddFromHead(m, n, 1).size = m.size
                        /\ AddFromHead(m, n, 0)
                             = [AddFromHead(m, n, 1) EXCEPT !.size = m.size + 1]
      OBVIOUS
    <2> HIDE DEF m, n
    <2>1. CASE m.head = NULL
      <3>1. AddFromHead(m, n, 1)
              = [m EXCEPT !.head = n, !.tail = n, !.size = m.size]
        BY <2>1 DEF AddFromHead
      <3>2. AddFromHead(m, n, 0)
              = [m EXCEPT !.head = n, !.tail = n, !.size = m.size + 1]
        BY <2>1 DEF AddFromHead
      <3>3. QED
        BY <1>2, <3>1, <3>2 DEF CacheValue
    <2>2. CASE m.head # NULL
      <3> DEFINE x == [m.next EXCEPT ![n] = m.head]
                 v == [m.prev EXCEPT ![m.head] = n]
      <3>1. AddFromHead(m, n, 1) =
              [m EXCEPT !.next = x, !.prev = v, !.head = n,
                        !.size = IF 1 = 0 THEN m.size + 1 ELSE m.size]
        BY <1>2, <2>2, AddFromHeadFields
      <3>2. AddFromHead(m, n, 0) =
              [m EXCEPT !.next = x, !.prev = v, !.head = n,
                        !.size = IF 0 = 0 THEN m.size + 1 ELSE m.size]
        BY <1>2, <2>2, AddFromHeadFields
      <3> HIDE DEF x, v
      <3> DEFINE o == [m EXCEPT !.next = x, !.prev = v, !.head = n]
      <3>3. m \in CacheValue
        BY <1>2
      <3>4. AddFromHead(m, n, 1) = [o EXCEPT !.size = m.size]
        BY <3>1, <3>3 DEF CacheValue
      <3>5. AddFromHead(m, n, 0) = [o EXCEPT !.size = m.size + 1]
        BY <3>2, <3>3 DEF CacheValue
      <3>6. AddFromHead(m, n, 1).size = m.size
        BY <3>3, <3>4 DEF CacheValue
      <3>7. QED
        BY <3>3, <3>4, <3>5, <3>6 DEF CacheValue
    <2>3. QED
      BY <2>1, <2>2
  <1>4. ASSUME Along("inc", c, l, b), d = [l EXCEPT !.count = c.size]
        PROVE  d \in Locals /\ Along("incWrite", c, d, b)
    <2>1. Loose(l, b) /\ l.mode = 0 /\ c = AddFromHead(m, n, 1)
      BY <1>4 DEF Along, Adding
    <2>2. c.size = m.size /\ m.size \in Int
      BY <1>2, <1>3, <2>1 DEF CacheValue
    <2>3. /\ d \in Locals /\ d.node = n /\ d.mode = 0 /\ d.key = l.key
          /\ d.response = l.response /\ d.count = m.size
      BY <1>4, <2>1, <2>2 DEF Locals
    <2>4. Loose(d, b) /\ Base(d, b) = m
      BY <2>1, <2>3 DEF Loose, Base
    <2> HIDE DEF m
    <2>5. QED
      BY <2>1, <2>3, <2>4 DEF Along, Reading, Removing, Moving, Adding
  <1>5. ASSUME Along("incWrite", c, l, b), e = [c EXCEPT !.size = l.count + 1]
        PROVE  Along("put143", e, l, b)
    <2>1. /\ Loose(l, b) /\ l.mode = 0 /\ c = AddFromHead(m, n, 1)
          /\ l.count = m.size
      BY <1>5 DEF Along, Adding
    <2>2. e = AddFromHead(m, n, 0)
      BY <1>2, <1>3, <1>5, <2>1
    <2>3. QED
      BY <2>1, <2>2 DEF Along, Reading, Removing, Moving, Adding
  <1>6. ASSUME Along("put143", c, l, b),
               e = [c EXCEPT !.cacheMap[l.key] = l.node]
        PROVE  Along("put144", e, l, b)
    <2>1. Loose(l, b) /\ l.mode = 0 /\ c = AddFromHead(m, n, 0)
      BY <1>6 DEF Along, Adding
    <2>2. [AddFromHead(m, n, 0) EXCEPT !.cacheMap[l.key] = n]
             \in Outcomes(b, l.key, l.response)
      BY <2>1, LooseOutcome
    <2>3. n \in Nodes /\ n # NULL /\ l.key \in Keys
      BY <2>1, NullAssumption DEF Loose, Locals
    <2>4. m.cacheMap \in [Keys -> Pointer]
      BY <1>2, <2>1 DEF CacheValue
    <2> HIDE DEF m
    <2>5. c.cacheMap = m.cacheMap
      BY <2>1 DEF AddFromHead, Deref
    <2>6. e.cacheMap = [m.cacheMap EXCEPT ![l.key] = n]
      BY <1>6, <2>5
    <2>7. IsCached(e, l.key)
      BY <2>3, <2>4, <2>6 DEF IsCached
    <2>8. QED
      BY <1>6, <2>1, <2>2, <2>7 DEF Along, Reading, Removing, Moving, Adding
  <1>7. QED
    BY <1>1, <1>4, <1>5, <1>6

-----------------------------------------------------------------------------
(* The invariant of a solitary thread.                                      *)

\* What a call of put leaves is the cache of a next call.
LEMMA OutcomesSound ==
    ASSUME NEW b, Sound(b), NEW l \in Locals,
           NEW c \in Outcomes(b, l.key, l.response)
    PROVE  Sound(c)
  <1>1. PICK s \in [Nodes -> Nat], p \in Nat : Order(b, s, p, 0)
    BY DEF Sound
  <1>2. b \in CacheValue /\ Structure(b) /\ b.wild = {}
    BY DEF Sound
  <1>3. l.key \in Keys /\ l.response \in Response /\ p + 1 \in Nat
    BY DEF Locals
  <1>4. ASSUME NEW n \in Nodes
        PROVE  [s EXCEPT ![n] = p + 1] \in [Nodes -> Nat]
    OBVIOUS
  <1>5. CASE IsCached(b, l.key)
    <2>1. c = PutCached(b, l.key, l.response, 0)
      BY <1>5 DEF Outcomes
    <2>2. c \in CacheValue /\ Structure(c) /\ c.wild = {}
      BY <1>2, <1>3, <1>5, <2>1, PutCachedStructure
    <2>3. Order(c, [s EXCEPT ![b.cacheMap[l.key]] = p + 1], p + 1, 0)
      BY <1>1, <1>2, <1>3, <1>5, <2>1, PutCachedOrder
    <2>4. b.cacheMap[l.key] \in Nodes
      BY <1>2, <1>3, <1>5 DEF Structure, MapAgrees, CacheValue
    <2>5. QED
      BY <1>3, <1>4, <2>2, <2>3, <2>4 DEF Sound
  <1>6. CASE ~IsCached(b, l.key)
    <2>1. PICK n \in Nodes \ MakeRoom(b).live :
             c = PutNew(b, l.key, l.response, n, 0)
      BY <1>6 DEF Outcomes
    <2>2. /\ c \in CacheValue /\ c.wild = {} /\ Structure(c)
          /\ Order(c, [s EXCEPT ![n] = p + 1], p + 1, 0)
      BY <1>1, <1>2, <1>3, <1>6, <2>1, PutNewKeeps
    <2>3. QED
      BY <1>3, <1>4, <2>2 DEF Sound
  <1>7. QED
    BY <1>5, <1>6

\* The look-up of the key that has just been entered finds the new node.
LEMMA LogLines ==
    ASSUME NEW c, NEW l \in Locals, NEW b, Sound(b),
           NEW d, d = [l EXCEPT !.node = c.cacheMap[l.key]]
    PROVE  /\ Along("put144", c, l, b) =>
                 d \in Locals /\ Along("startLine", c, d, b)
           /\ Along("startLine", c, l, b) =>
                 /\ Deref(c, {l.node}) = c
                 /\ Along("return", c, l, b)
  <1>1. c \in Outcomes(b, l.key, l.response) => Sound(c)
    BY OutcomesSound
  <1>2. d.key = l.key /\ d.node = c.cacheMap[l.key] /\ d.response = l.response
    BY DEF Locals
  <1>3. Sound(c) => d \in Locals
    BY DEF Locals, Sound, CacheValue
  <1>4. Along("put144", c, l, b) => d \in Locals /\ Along("startLine", c, d, b)
    BY <1>1, <1>2, <1>3 DEF Along, Reading, Removing, Moving, Adding
  <1>5. Along("startLine", c, l, b) => Along("return", c, l, b)
    BY DEF Along, Reading, Removing, Moving, Adding
  <1>6. ASSUME Along("startLine", c, l, b)
        PROVE  Deref(c, {l.node}) = c
    <2>1. Sound(c) /\ IsCached(c, l.key) /\ l.node = c.cacheMap[l.key]
      BY <1>1, <1>6 DEF Along
    <2>2. c \in CacheValue /\ l.node \in c.live
      BY <2>1 DEF Sound, Structure, MapAgrees, Locals
    <2>3. QED
      BY <2>2, DerefLive
  <1>7. QED
    BY <1>4, <1>5, <1>6

LEMMA InitRaceInv == RaceInit => RaceInv
  <1> SUFFICES ASSUME RaceInit
               PROVE  RaceInv
    OBVIOUS
  <1>1. PICK key \in Keys, r \in Response :
           /\ shared = EmptyCache(key, NewEntry(r, 0))
           /\ nulls = {}
           /\ pc = [t \in Threads |-> "idle"]
           /\ local = [t \in Threads |-> [key |-> key, response |-> r, node |-> NULL,
                                          oldKey |-> key, mode |-> 0, count |-> 0]]
           /\ before = [t \in Threads |-> shared]
    BY DEF RaceInit
  <1>3. NewEntry(r, 0) \in Entry
    BY DEF NewEntry, Entry, Response, Status
  <1>4. shared \in CacheValue
    BY <1>1, <1>3 DEF EmptyCache, CacheValue, Pointer
  <1>5. /\ shared.head = NULL /\ shared.tail = NULL /\ shared.size = 0
        /\ shared.live = {} /\ shared.wild = {}
        /\ \A k \in Keys : shared.cacheMap[k] = NULL
    BY <1>1 DEF EmptyCache
  <1>6. Structure(shared)
    <2>1. SizeAgrees(shared)
      BY <1>5, FS_EmptySet, CapacityAssumption DEF SizeAgrees
    <2>2. QED
      BY <1>5, <2>1 DEF Structure, Ends, Links, MapAgrees, IsCached
  <1>7. \E s \in [Nodes -> Nat], p \in Nat : Order(shared, s, p, 0)
    <2>1. Order(shared, [n \in Nodes |-> 0], 0, 0)
      BY <1>5 DEF Order
    <2>2. [n \in Nodes |-> 0] \in [Nodes -> Nat]
      OBVIOUS
    <2>3. QED
      BY <2>1, <2>2
  <1>8. Sound(shared)
    BY <1>4, <1>5, <1>6, <1>7 DEF Sound
  <1>9. /\ pc \in [Threads -> Lines \union {"idle"}]
        /\ local \in [Threads -> Locals]
        /\ before \in [Threads -> CacheValue]
    BY <1>1, <1>4 DEF Locals, Pointer
  <1>10. \A t \in Threads : pc[t] = "idle"
    BY <1>1
  <1>11. QED
    BY <1>1, <1>8, <1>9, <1>10 DEF RaceInv

\* Where a thread has come to when it takes a line.
LEMMA Here ==
    ASSUME RaceInv, NEW t \in Threads, NEW line, line # "idle",
           NEW next, NEW c, NEW l, Step(t, line, next, c, l)
    PROVE  /\ local[t] \in Locals /\ Sound(before[t])
           /\ Along(line, shared, local[t], before[t])
  <1>1. pc[t] = line
    BY DEF Step, MapStep
  <1>2. local[t] \in Locals /\ Along(line, shared, local[t], before[t])
    BY <1>1 DEF RaceInv
  <1>3. QED
    BY <1>2 DEF Along

\* With no NULL in cacheMap a step that leaves no more of them is a plain one.
LEMMA PlainStep ==
    ASSUME RaceInv, NEW t \in Threads, NEW line, NEW next, NEW c, NEW l,
           NEW empty, empty = {}, MapStep(t, line, next, c, l, empty)
    PROVE  Step(t, line, next, c, l)
  <1>1. nulls = empty
    BY DEF RaceInv
  <1>2. QED
    BY <1>1 DEF Step

\* A thread that takes a line has the others idle, before it and after it.
LEMMA OthersIdle ==
    ASSUME OneAtATime, RaceInv, NEW t \in Threads, NEW line, line # "idle",
           NEW next \in Lines \union {"idle"}, NEW c, NEW l \in Locals,
           Step(t, line, next, c, l)
    PROVE  /\ pc' \in [Threads -> Lines \union {"idle"}] /\ pc'[t] = next
           /\ \A u \in Threads \ {t} : pc'[u] = "idle"
           /\ local' \in [Threads -> Locals] /\ local'[t] = l
           /\ before' \in [Threads -> CacheValue] /\ before' = before
           /\ shared' = c /\ nulls' = {}
  <1>1. /\ pc[t] = line /\ pc' = [pc EXCEPT ![t] = next] /\ shared' = c
        /\ local' = [local EXCEPT ![t] = l] /\ before' = before
        /\ nulls' = nulls
    BY DEF Step, MapStep
  <1>2. \A u \in Threads \ {t} : pc[u] = "idle"
    BY <1>1 DEF OneAtATime
  <1>3. QED
    BY <1>1, <1>2 DEF RaceInv

\* and where it is after the line, in the call still or back from it.
LEMMA OneLine ==
    ASSUME OneAtATime, RaceInv, NEW t \in Threads, NEW line, line # "idle",
           NEW next \in Lines, NEW c, NEW l \in Locals,
           Step(t, line, next, c, l), Along(next, c, l, before[t])
    PROVE  RaceInv'
  <1>1. /\ pc' \in [Threads -> Lines \union {"idle"}] /\ pc'[t] = next
        /\ \A u \in Threads \ {t} : pc'[u] = "idle"
        /\ local' \in [Threads -> Locals] /\ local'[t] = l
        /\ before' \in [Threads -> CacheValue] /\ before' = before
        /\ shared' = c /\ nulls' = {}
    BY OthersIdle
  <1>2. next # "idle"
    BY DEF Lines
  <1>3. ASSUME NEW u \in Threads, pc'[u] # "idle"
        PROVE  Along(pc'[u], shared', local'[u], before'[u])
    <2>1. u = t
      BY <1>1, <1>3
    <2>2. QED
      BY <1>1, <2>1
  <1>4. QED
    BY <1>1, <1>2, <1>3 DEF RaceInv

LEMMA LastLine ==
    ASSUME OneAtATime, RaceInv, NEW t \in Threads, NEW line, line # "idle",
           Step(t, line, "idle", shared, local[t]), Sound(shared)
    PROVE  RaceInv'
  <1>1. local[t] \in Locals
    BY DEF RaceInv
  <1>2. /\ pc' \in [Threads -> Lines \union {"idle"}] /\ pc'[t] = "idle"
        /\ \A u \in Threads \ {t} : pc'[u] = "idle"
        /\ local' \in [Threads -> Locals]
        /\ before' \in [Threads -> CacheValue]
        /\ shared' = shared /\ nulls' = {}
    BY <1>1, OthersIdle
  <1>3. \A u \in Threads : pc'[u] = "idle"
    BY <1>2
  <1>4. QED
    BY <1>2, <1>3 DEF RaceInv

-----------------------------------------------------------------------------
(* One lemma for each action.                                               *)

LEMMA TestAlong ==
    ASSUME OneAtATime, RaceInv, NEW t \in Threads, Test(t)
    PROVE  RaceInv'
  <1> USE DEF K, N, Read, Write
  <1> DEFINE l == local[t]
             b == before[t]
  <1>1. {"put84", "put119", "get233", "returnGet"} \subseteq Lines
    BY DEF Lines
  <1>0. Counted(t) <=> IsCached(shared, l.key)
    BY DEF RaceInv, Counted
  <1>2. CASE Read(t, "put80",
                  IF IsCached(shared, l.key) THEN "put84" ELSE "put119", l)
    <2>1. l \in Locals /\ Sound(b) /\ Along("put80", shared, l, b)
      BY <1>2, Here
    <2>2. Along(IF IsCached(shared, l.key) THEN "put84" ELSE "put119", shared, l,
                b)
      BY <2>1, ReadingLines
    <2>3. QED
      BY <1>1, <1>2, <2>1, <2>2, OneLine
  <1>3. CASE Read(t, "ask",
                  IF IsCached(shared, l.key) THEN "get233" ELSE "returnGet", l)
    <2>1. l \in Locals /\ Sound(b) /\ Along("ask", shared, l, b)
      BY <1>3, Here
    <2>2. Along(IF IsCached(shared, l.key) THEN "get233" ELSE "returnGet", shared,
                l, b)
      BY <2>1, ReadingLines
    <2>3. QED
      BY <1>1, <1>3, <2>1, <2>2, OneLine
  <1>4. QED
    BY <1>0, <1>2, <1>3 DEF Test

\* A look-up of a key that has a node.
LEMMA LookupStep ==
    ASSUME RaceInv, NEW t \in Threads, NEW line, line # "idle", NEW next,
           Along(line, shared, local[t], before[t]) =>
              IsCached(shared, local[t].key),
           Lookup(t, line, next)
    PROVE  Step(t, line, next, shared,
                [local[t] EXCEPT !.node = shared.cacheMap[local[t].key]])
  <1>1. pc[t] = line
    BY DEF Lookup, MapStep
  <1>2. Along(line, shared, local[t], before[t])
    BY <1>1 DEF RaceInv
  <1>3. QED
    BY <1>2 DEF Lookup, Step, K

LEMMA FindAlong ==
    ASSUME OneAtATime, RaceInv, NEW t \in Threads, Find(t)
    PROVE  RaceInv'
  <1> DEFINE l == local[t]
             b == before[t]
             d == [l EXCEPT !.node = shared.cacheMap[l.key]]
  <1>1. {"put85", "getFull", "startLine"} \subseteq Lines
    BY DEF Lines
  <1>2. CASE Lookup(t, "put84", "put85")
    <2>1. Along("put84", shared, l, b) => IsCached(shared, l.key)
      BY DEF Along, Reading
    <2>2. Step(t, "put84", "put85", shared, d)
      BY <1>2, <2>1, LookupStep
    <2>3. l \in Locals /\ Sound(b) /\ Along("put84", shared, l, b)
      BY <2>2, Here
    <2>4. d \in Locals /\ Along("put85", shared, d, b)
      BY <2>3, FindLines
    <2> HIDE DEF d
    <2>5. QED
      BY <1>1, <2>2, <2>4, OneLine
  <1>3. CASE Lookup(t, "get233", "getFull")
    <2>1. Along("get233", shared, l, b) => IsCached(shared, l.key)
      BY DEF Along, Reading
    <2>2. Step(t, "get233", "getFull", shared, d)
      BY <1>3, <2>1, LookupStep
    <2>3. l \in Locals /\ Sound(b) /\ Along("get233", shared, l, b)
      BY <2>2, Here
    <2>4. d \in Locals /\ Along("getFull", shared, d, b)
      BY <2>3, FindLines
    <2> HIDE DEF d
    <2>5. QED
      BY <1>1, <2>2, <2>4, OneLine
  <1>4. CASE Lookup(t, "put144", "startLine")
    <2>1. Along("put144", shared, l, b) => IsCached(shared, l.key)
      BY DEF Along
    <2>2. Step(t, "put144", "startLine", shared, d)
      BY <1>4, <2>1, LookupStep
    <2>3. l \in Locals /\ Sound(b) /\ Along("put144", shared, l, b)
      BY <2>2, Here
    <2>4. d \in Locals /\ Along("startLine", shared, d, b)
      BY <2>3, LogLines
    <2> HIDE DEF d
    <2>5. QED
      BY <1>1, <2>2, <2>4, OneLine
  <1>5. QED
    BY <1>2, <1>3, <1>4 DEF Find

LEMMA ReadFoundAlong ==
    ASSUME OneAtATime, RaceInv, NEW t \in Threads, ReadFound(t)
    PROVE  RaceInv'
  <1> USE DEF K, N, Read, Write
  <1> DEFINE l == local[t]
             n == local[t].node
             b == before[t]
  <1>1. {"returnGet", "return"} \subseteq Lines
    BY DEF Lines
  <1>2. CASE Write(t, "getFull", "returnGet", Deref(shared, {n}))
    <2>1. l \in Locals /\ Sound(b) /\ Along("getFull", shared, l, b)
      BY <1>2, Here
    <2>2. Along("returnGet", Deref(shared, {n}), l, b)
      BY <2>1, FindLines
    <2>3. QED
      BY <1>1, <1>2, <2>1, <2>2, OneLine
  <1>3. CASE Write(t, "startLine", "return", Deref(shared, {n}))
    <2>1. l \in Locals /\ Sound(b) /\ Along("startLine", shared, l, b)
      BY <1>3, Here
    <2>2. Along("return", Deref(shared, {n}), l, b)
      BY <2>1, LogLines
    <2>3. QED
      BY <1>1, <1>3, <2>1, <2>2, OneLine
  <1>4. QED
    BY <1>2, <1>3 DEF ReadFound

LEMMA IsHeadAlong ==
    ASSUME OneAtATime, RaceInv, NEW t \in Threads, IsHead(t)
    PROVE  RaceInv'
  <1> USE DEF K, N, Read, Write
  <1> DEFINE l == local[t]
             n == local[t].node
             b == before[t]
  <1>1. {"return", "move29"} \subseteq Lines
    BY DEF Lines
  <1>2. CASE Read(t, "move25", IF n = shared.head THEN "return" ELSE "move29", l)
    <2>1. l \in Locals /\ Sound(b) /\ Along("move25", shared, l, b)
      BY <1>2, Here
    <2>2. Along(IF n = shared.head THEN "return" ELSE "move29", shared, l, b)
      BY <2>1, WhichEnd
    <2>3. QED
      BY <1>1, <1>2, <2>1, <2>2, OneLine
  <1>3. QED
    BY <1>2 DEF IsHead

LEMMA IsTailAlong ==
    ASSUME OneAtATime, RaceInv, NEW t \in Threads, IsTail(t)
    PROVE  RaceInv'
  <1> USE DEF K, N, Read, Write
  <1> DEFINE l == local[t]
             n == local[t].node
             b == before[t]
  <1>1. {"move31", "move38"} \subseteq Lines
    BY DEF Lines
  <1>2. CASE Read(t, "move29", IF n # shared.tail THEN "move31" ELSE "move38",
                  [l EXCEPT !.mode = 1])
    <2>1. l \in Locals /\ Sound(b) /\ Along("move29", shared, l, b)
      BY <1>2, Here
    <2>2. /\ [l EXCEPT !.mode = 1] \in Locals
          /\ Along(IF n # shared.tail THEN "move31" ELSE "move38", shared,
                   [l EXCEPT !.mode = 1], b)
      BY <2>1, WhichEnd
    <2>3. QED
      BY <1>1, <1>2, <2>1, <2>2, OneLine
  <1>3. QED
    BY <1>2 DEF IsTail

LEMMA MoveToHeadStepAlong ==
    ASSUME OneAtATime, RaceInv, NEW t \in Threads, MoveToHeadStep(t)
    PROVE  RaceInv'
  <1> USE DEF K, N, Read, Write
  <1> DEFINE l == local[t]
             n == local[t].node
             b == before[t]
  <1>1. {"move32", "move33", "add4", "move39", "move40"} \subseteq Lines
    BY DEF Lines
  <1>2. CASE Write(t, "move31", "move32",
                   SetPrev(Deref(shared, {n}), At(shared.next, n),
                           At(shared.prev, n)))
    <2>1. l \in Locals /\ Sound(b) /\ Along("move31", shared, l, b)
      BY <1>2, Here
    <2>2. Along("move32",
                SetPrev(Deref(shared, {n}), At(shared.next, n),
                        At(shared.prev, n)), l, b)
      BY <2>1, InnerLines
    <2>3. QED
      BY <1>1, <1>2, <2>1, <2>2, OneLine
  <1>3. CASE Write(t, "move32", "move33",
                   SetNext(Deref(shared, {n}), At(shared.prev, n),
                           At(shared.next, n)))
    <2>1. l \in Locals /\ Sound(b) /\ Along("move32", shared, l, b)
      BY <1>3, Here
    <2>2. Along("move33",
                SetNext(Deref(shared, {n}), At(shared.prev, n),
                        At(shared.next, n)), l, b)
      BY <2>1, InnerLines
    <2>3. QED
      BY <1>1, <1>3, <2>1, <2>2, OneLine
  <1>4. CASE Write(t, "move33", "add4",
                   SetPrev(SetNext(Deref(shared, {n}), n, NULL), n, NULL))
    <2>1. l \in Locals /\ Sound(b) /\ Along("move33", shared, l, b)
      BY <1>4, Here
    <2>2. Along("add4", SetPrev(SetNext(Deref(shared, {n}), n, NULL), n, NULL), l,
                b)
      BY <2>1, InnerLines
    <2>3. QED
      BY <1>1, <1>4, <2>1, <2>2, OneLine
  <1>5. CASE Write(t, "move38", "move39",
                   [Deref(shared, {n}) EXCEPT !.tail = At(shared.prev, n)])
    <2>1. l \in Locals /\ Sound(b) /\ Along("move38", shared, l, b)
      BY <1>5, Here
    <2>2. Along("move39", [Deref(shared, {n}) EXCEPT !.tail = At(shared.prev, n)],
                l, b)
      BY <2>1, TailLines
    <2>3. QED
      BY <1>1, <1>5, <2>1, <2>2, OneLine
  <1>6. CASE Write(t, "move39", "move40",
                   SetNext(Deref(shared, {n}), At(shared.prev, n), NULL))
    <2>1. l \in Locals /\ Sound(b) /\ Along("move39", shared, l, b)
      BY <1>6, Here
    <2>2. Along("move40", SetNext(Deref(shared, {n}), At(shared.prev, n), NULL),
                l, b)
      BY <2>1, TailLines
    <2>3. QED
      BY <1>1, <1>6, <2>1, <2>2, OneLine
  <1>7. CASE Write(t, "move40", "add4", SetPrev(Deref(shared, {n}), n, NULL))
    <2>1. l \in Locals /\ Sound(b) /\ Along("move40", shared, l, b)
      BY <1>7, Here
    <2>2. Along("add4", SetPrev(Deref(shared, {n}), n, NULL), l, b)
      BY <2>1, TailLines
    <2>3. QED
      BY <1>1, <1>7, <2>1, <2>2, OneLine
  <1>8. QED
    BY <1>2, <1>3, <1>4, <1>5, <1>6, <1>7 DEF MoveToHeadStep

LEMMA AddFromHeadStepAlong ==
    ASSUME OneAtATime, RaceInv, NEW t \in Threads, AddFromHeadStep(t)
    PROVE  RaceInv'
  <1> USE DEF K, N, Read, Write
  <1> DEFINE l == local[t]
             n == local[t].node
             b == before[t]
  <1>1. {"add6", "add14", "add7", "inc", "return", "add15",
         "add16"} \subseteq Lines
    BY DEF Lines
  <1>2. CASE Read(t, "add4", IF shared.head = NULL THEN "add6" ELSE "add14", l)
    <2>1. l \in Locals /\ Sound(b) /\ Along("add4", shared, l, b)
      BY <1>2, Here
    <2>2. Along(IF shared.head = NULL THEN "add6" ELSE "add14", shared, l, b)
      BY <2>1, OnlyNodeLines
    <2>3. QED
      BY <1>1, <1>2, <2>1, <2>2, OneLine
  <1>3. CASE Write(t, "add6", "add7", [shared EXCEPT !.head = n])
    <2>1. l \in Locals /\ Sound(b) /\ Along("add6", shared, l, b)
      BY <1>3, Here
    <2>2. Along("add7", [shared EXCEPT !.head = n], l, b)
      BY <2>1, OnlyNodeLines
    <2>3. QED
      BY <1>1, <1>3, <2>1, <2>2, OneLine
  <1>4. CASE Write(t, "add7", IF l.mode = 0 THEN "inc" ELSE "return",
                   [shared EXCEPT !.tail = n])
    <2>1. l \in Locals /\ Sound(b) /\ Along("add7", shared, l, b)
      BY <1>4, Here
    <2>2. Along(IF l.mode = 0 THEN "inc" ELSE "return",
                [shared EXCEPT !.tail = n], l, b)
      BY <2>1, OnlyNodeLines
    <2>3. QED
      BY <1>1, <1>4, <2>1, <2>2, OneLine
  <1>5. CASE Write(t, "add14", "add15", SetNext(shared, n, shared.head))
    <2>1. l \in Locals /\ Sound(b) /\ Along("add14", shared, l, b)
      BY <1>5, Here
    <2>2. Along("add15", SetNext(shared, n, shared.head), l, b)
      BY <2>1, FrontLines
    <2>3. QED
      BY <1>1, <1>5, <2>1, <2>2, OneLine
  <1>6. CASE Write(t, "add15", "add16", SetPrev(shared, shared.head, n))
    <2>1. l \in Locals /\ Sound(b) /\ Along("add15", shared, l, b)
      BY <1>6, Here
    <2>2. Along("add16", SetPrev(shared, shared.head, n), l, b)
      BY <2>1, FrontLines
    <2>3. QED
      BY <1>1, <1>6, <2>1, <2>2, OneLine
  <1>7. CASE Write(t, "add16", IF l.mode = 0 THEN "inc" ELSE "return",
                   [shared EXCEPT !.head = n])
    <2>1. l \in Locals /\ Sound(b) /\ Along("add16", shared, l, b)
      BY <1>7, Here
    <2>2. Along(IF l.mode = 0 THEN "inc" ELSE "return",
                [shared EXCEPT !.head = n], l, b)
      BY <2>1, FrontLines
    <2>3. QED
      BY <1>1, <1>7, <2>1, <2>2, OneLine
  <1>8. QED
    BY <1>2, <1>3, <1>4, <1>5, <1>6, <1>7 DEF AddFromHeadStep

LEMMA CountStepAlong ==
    ASSUME OneAtATime, RaceInv, NEW t \in Threads, CountStep(t)
    PROVE  RaceInv'
  <1> USE DEF K, N, Read, Write
  <1> DEFINE l == local[t]
             b == before[t]
  <1>1. {"incWrite", "put143", "decWrite", "remove66"} \subseteq Lines
    BY DEF Lines
  <1>2. CASE Read(t, "inc", "incWrite", [l EXCEPT !.count = shared.size])
    <2>1. l \in Locals /\ Sound(b) /\ Along("inc", shared, l, b)
      BY <1>2, Here
    <2>2. /\ [l EXCEPT !.count = shared.size] \in Locals
          /\ Along("incWrite", shared, [l EXCEPT !.count = shared.size], b)
      BY <2>1, NewLines
    <2>3. QED
      BY <1>1, <1>2, <2>1, <2>2, OneLine
  <1>3. CASE Write(t, "incWrite", "put143", [shared EXCEPT !.size = l.count + 1])
    <2>1. l \in Locals /\ Sound(b) /\ Along("incWrite", shared, l, b)
      BY <1>3, Here
    <2>2. Along("put143", [shared EXCEPT !.size = l.count + 1], l, b)
      BY <2>1, NewLines
    <2>3. QED
      BY <1>1, <1>3, <2>1, <2>2, OneLine
  <1>4. CASE Read(t, "dec", "decWrite", [l EXCEPT !.count = shared.size])
    <2>1. l \in Locals /\ Sound(b) /\ Along("dec", shared, l, b)
      BY <1>4, Here
    <2>2. /\ [l EXCEPT !.count = shared.size] \in Locals
          /\ Along("decWrite", shared, [l EXCEPT !.count = shared.size], b)
      BY <2>1, RemovingLines
    <2>3. QED
      BY <1>1, <1>4, <2>1, <2>2, OneLine
  <1>5. CASE Write(t, "decWrite", "remove66",
                   [shared EXCEPT !.size = l.count - 1])
    <2>1. l \in Locals /\ Sound(b) /\ Along("decWrite", shared, l, b)
      BY <1>5, Here
    <2>2. Along("remove66", [shared EXCEPT !.size = l.count - 1], l, b)
      BY <2>1, RemovingLines
    <2>3. QED
      BY <1>1, <1>5, <2>1, <2>2, OneLine
  <1>6. QED
    BY <1>2, <1>3, <1>4, <1>5 DEF CountStep

LEMMA RemoveTailStepAlong ==
    ASSUME OneAtATime, RaceInv, NEW t \in Threads, RemoveTailStep(t)
    PROVE  RaceInv'
  <1> USE DEF K, N, Read, Write
  <1> DEFINE l == local[t]
             n == local[t].node
             b == before[t]
  <1>1. {"put130", "remove50", "remove52", "remove56", "remove57",
         "dec"} \subseteq Lines
    BY DEF Lines
  <1>2. CASE Read(t, "remove46",
                  IF shared.tail = NULL THEN "put130" ELSE "remove50", l)
    <2>1. l \in Locals /\ Sound(b) /\ Along("remove46", shared, l, b)
      BY <1>2, Here
    <2>2. Along(IF shared.tail = NULL THEN "put130" ELSE "remove50", shared, l, b)
      BY <2>1, ReadingLines
    <2>3. QED
      BY <1>1, <1>2, <2>1, <2>2, OneLine
  <1>3. CASE Step(t, "remove50", "remove52", Deref(shared, {shared.tail}),
                  [l EXCEPT !.node = shared.tail, !.oldKey =
                     IF shared.tail \in Nodes THEN shared.cacheKey[shared.tail]
                                              ELSE @])
    <2> DEFINE o == [l EXCEPT !.node = shared.tail, !.oldKey =
                       IF shared.tail \in Nodes THEN shared.cacheKey[shared.tail]
                                                ELSE @]
               d == [l EXCEPT !.node = shared.tail,
                              !.oldKey = shared.cacheKey[shared.tail]]
    <2>1. l \in Locals /\ Sound(b) /\ Along("remove50", shared, l, b)
      BY <1>3, Here
    <2>2. /\ shared.tail \in Nodes /\ Deref(shared, {shared.tail}) = shared
          /\ d \in Locals /\ Along("remove52", shared, d, b)
      BY <2>1, CopyLine
    <2>3. o = d
      BY <2>2
    <2>4. Step(t, "remove50", "remove52", shared, d)
      BY <1>3, <2>2, <2>3
    <2> HIDE DEF o, d
    <2>5. QED
      BY <1>1, <2>2, <2>4, OneLine
  <1>4. CASE Write(t, "remove52", "remove56",
                   [shared EXCEPT !.head = IF @ = shared.tail THEN NULL ELSE @])
    <2>1. l \in Locals /\ Sound(b) /\ Along("remove52", shared, l, b)
      BY <1>4, Here
    <2>2. Along("remove56",
                [shared EXCEPT !.head = IF @ = shared.tail THEN NULL ELSE @], l,
                b)
      BY <2>1, RemovingLines
    <2>3. QED
      BY <1>1, <1>4, <2>1, <2>2, OneLine
  <1>5. CASE Write(t, "remove56", "remove57",
                   [Deref(shared, {shared.tail})
                      EXCEPT !.tail = At(shared.prev, @)])
    <2>1. l \in Locals /\ Sound(b) /\ Along("remove56", shared, l, b)
      BY <1>5, Here
    <2>2. Along("remove57",
                [Deref(shared, {shared.tail}) EXCEPT !.tail = At(shared.prev, @)],
                l, b)
      BY <2>1, RemovingLines
    <2>3. QED
      BY <1>1, <1>5, <2>1, <2>2, OneLine
  <1>6. CASE Write(t, "remove57", "dec",
                   [Deref(shared, {n}) EXCEPT !.live = @ \ {n}])
    <2>1. l \in Locals /\ Sound(b) /\ Along("remove57", shared, l, b)
      BY <1>6, Here
    <2>2. Along("dec", [Deref(shared, {n}) EXCEPT !.live = @ \ {n}], l, b)
      BY <2>1, RemovingLines
    <2>3. QED
      BY <1>1, <1>6, <2>1, <2>2, OneLine
  <1>7. CASE MapStep(t, "remove66", "put130",
                     [shared EXCEPT !.cacheMap[l.oldKey] = NULL], l,
                     nulls \ {l.oldKey})
    <2> DEFINE c == [shared EXCEPT !.cacheMap[l.oldKey] = NULL]
    <2>0. nulls \ {l.oldKey} = {}
      BY DEF RaceInv
    <2>1. Step(t, "remove66", "put130", c, l)
      BY <1>7, <2>0, PlainStep
    <2>2. l \in Locals /\ Sound(b) /\ Along("remove66", shared, l, b)
      BY <2>1, Here
    <2>3. Along("put130", c, l, b)
      BY <2>2, RemovingLines
    <2> HIDE DEF c
    <2>4. QED
      BY <1>1, <2>1, <2>2, <2>3, OneLine
  <1>8. QED
    BY <1>2, <1>3, <1>4, <1>5, <1>6, <1>7 DEF RemoveTailStep

LEMMA FullAlong ==
    ASSUME OneAtATime, RaceInv, NEW t \in Threads, Full(t)
    PROVE  RaceInv'
  <1> USE DEF K, N, Read, Write
  <1> DEFINE l == local[t]
             b == before[t]
  <1>1. {"remove46", "put130"} \subseteq Lines
    BY DEF Lines
  <1>2. CASE Read(t, "put119", IF IsFull(shared) THEN "remove46" ELSE "put130", l)
    <2>1. l \in Locals /\ Sound(b) /\ Along("put119", shared, l, b)
      BY <1>2, Here
    <2>2. Along(IF IsFull(shared) THEN "remove46" ELSE "put130", shared, l, b)
      BY <2>1, ReadingLines
    <2>3. QED
      BY <1>1, <1>2, <2>1, <2>2, OneLine
  <1>3. QED
    BY <1>2 DEF Full

LEMMA EnterAlong ==
    ASSUME OneAtATime, RaceInv, NEW t \in Threads, Enter(t)
    PROVE  RaceInv'
  <1> USE DEF K, N, Read, Write
  <1> DEFINE l == local[t]
             n == local[t].node
             b == before[t]
             c == [shared EXCEPT !.cacheMap[l.key] = n]
  <1>1. {"put144"} \subseteq Lines
    BY DEF Lines
  <1>2. MapStep(t, "put143", "put144", c, l, nulls \ {l.key})
    BY DEF Enter
  <1>3. nulls \ {l.key} = {}
    BY DEF RaceInv
  <1>4. Step(t, "put143", "put144", c, l)
    BY <1>2, <1>3, PlainStep
  <1>5. l \in Locals /\ Sound(b) /\ Along("put143", shared, l, b)
    BY <1>4, Here
  <1>6. Along("put144", c, l, b)
    BY <1>5, NewLines
  <1> HIDE DEF c
  <1>7. QED
    BY <1>1, <1>4, <1>5, <1>6, OneLine

LEMMA SetValidatorsAlong ==
    ASSUME OneAtATime, RaceInv, NEW t \in Threads, SetValidators(t)
    PROVE  RaceInv'
  <1> DEFINE n == local[t].node
             f == shared.entry[n]
             g == Updated(f, local[t].response, 0)
             e == [f EXCEPT !.responseTime = g.responseTime, !.ETag = g.ETag,
                            !.LastModified = g.LastModified]
             c == [shared EXCEPT !.entry[n] = e]
  <1>1. PICK d : Step(t, "put85", "put94", d, local[t])
    BY DEF SetValidators, Write
  <1>2. /\ local[t] \in Locals /\ Sound(before[t])
        /\ Along("put85", shared, local[t], before[t])
    BY <1>1, Here
  <1>3. Deref(shared, {n}) = shared /\ n \in Nodes
    BY <1>2, UpdateLines
  <1>4. Step(t, "put85", "put94", c, local[t])
    BY <1>3 DEF SetValidators, Write, Assign, FieldsOf, N
  <1>5. Along("put94", c, local[t], before[t])
    BY <1>2, UpdateLines
  <1>6. "put94" \in Lines
    BY DEF Lines
  <1> HIDE DEF c
  <1>7. QED
    BY <1>2, <1>4, <1>5, <1>6, OneLine

LEMMA SetContentsAlong ==
    ASSUME OneAtATime, RaceInv, NEW t \in Threads, SetContents(t)
    PROVE  RaceInv'
  <1> DEFINE n == local[t].node
             f == shared.entry[n]
             g == Updated(f, local[t].response, 0)
             c == [shared EXCEPT !.entry[n] = g]
  <1>1. PICK d : Step(t, "put94", "move25", d, local[t])
    BY DEF SetContents, Write
  <1>2. /\ local[t] \in Locals /\ Sound(before[t])
        /\ Along("put94", shared, local[t], before[t])
    BY <1>1, Here
  <1>3. Deref(shared, {n}) = shared /\ n \in Nodes
    BY <1>2, UpdateLines
  <1>4. Step(t, "put94", "move25", c, local[t])
    BY <1>3 DEF SetContents, Write, Assign, FieldsOf, N
  <1>5. Along("move25", c, local[t], before[t])
    BY <1>2, UpdateLines
  <1>6. "move25" \in Lines
    BY DEF Lines
  <1> HIDE DEF c
  <1>7. QED
    BY <1>2, <1>4, <1>5, <1>6, OneLine

LEMMA NewAlong ==
    ASSUME OneAtATime, RaceInv, NEW t \in Threads, New(t)
    PROVE  RaceInv'
  <1>1. PICK a \in Nodes \ shared.live :
           Step(t, "put130", "add4",
                NewCacheNode(shared, local[t].key, local[t].response, a, 0),
                [local[t] EXCEPT !.node = a, !.mode = 0])
    BY DEF New, K
  <1> DEFINE c == NewCacheNode(shared, local[t].key, local[t].response, a, 0)
             l == [local[t] EXCEPT !.node = a, !.mode = 0]
  <1>2. /\ local[t] \in Locals /\ Sound(before[t])
        /\ Along("put130", shared, local[t], before[t])
    BY <1>1, Here
  <1>3. l \in Locals /\ Along("add4", c, l, before[t])
    BY <1>2, NewLines
  <1>4. "add4" \in Lines
    BY DEF Lines
  <1> HIDE DEF c, l
  <1>5. QED
    BY <1>1, <1>3, <1>4, OneLine DEF c, l

LEMMA ReturnAlong ==
    ASSUME OneAtATime, RaceInv, NEW t \in Threads, Return(t)
    PROVE  RaceInv'
  <1>1. CASE Read(t, "return", "idle", local[t])
    <2>1. Step(t, "return", "idle", shared, local[t])
      BY <1>1 DEF Read
    <2>2. /\ local[t] \in Locals /\ Sound(before[t])
          /\ Along("return", shared, local[t], before[t])
      BY <2>1, Here
    <2>3. shared \in Outcomes(before[t], local[t].key, local[t].response)
      BY <2>2 DEF Along
    <2>4. Sound(shared)
      BY <2>2, <2>3, OutcomesSound
    <2>5. QED
      BY <2>1, <2>4, LastLine
  <1>2. CASE Read(t, "returnGet", "idle", local[t])
    <2>1. Step(t, "returnGet", "idle", shared, local[t])
      BY <1>2 DEF Read
    <2>2. Sound(before[t]) /\ Along("returnGet", shared, local[t], before[t])
      BY <2>1, Here
    <2>3. Sound(shared)
      BY <2>2 DEF Along, Reading
    <2>4. QED
      BY <2>1, <2>3, LastLine
  <1>3. QED
    BY <1>1, <1>2 DEF Return

LEMMA CallAlong ==
    ASSUME OneAtATime', RaceInv, NEW t \in Threads, Call(t)
    PROVE  RaceInv'
  <1>1. PICK key \in Keys, r \in Response, line \in {"put80", "ask"} :
           /\ pc[t] = "idle"
           /\ pc' = [pc EXCEPT ![t] = line]
           /\ local' = [local EXCEPT ![t].key = key, ![t].response = r]
           /\ before' = [before EXCEPT ![t] = shared]
           /\ shared' = shared /\ nulls' = nulls
    BY DEF Call
  <1>2. /\ pc \in [Threads -> Lines \union {"idle"}]
        /\ local \in [Threads -> Locals]
        /\ before \in [Threads -> CacheValue]
    BY DEF RaceInv
  <1>3. /\ pc' \in [Threads -> Lines \union {"idle"}]
        /\ pc'[t] = line /\ line # "idle"
        /\ \A u \in Threads \ {t} : pc'[u] = pc[u]
    BY <1>1, <1>2 DEF Lines
  <1>4. \A u \in Threads \ {t} : pc'[u] = "idle" /\ pc[u] = "idle"
    BY <1>3 DEF OneAtATime
  <1>5. \A u \in Threads : pc[u] = "idle"
    BY <1>1, <1>4
  <1>6. Sound(shared) /\ shared \in CacheValue
    BY <1>5 DEF RaceInv, Sound
  <1>7. [local[t] EXCEPT !.key = key, !.response = r] \in Locals
    BY <1>2 DEF Locals
  <1>8. local' = [local EXCEPT ![t] = [@ EXCEPT !.key = key, !.response = r]]
    BY <1>1, <1>2 DEF Locals
  <1>9. local' \in [Threads -> Locals]
    BY <1>2, <1>7, <1>8
  <1>10. before' \in [Threads -> CacheValue] /\ before'[t] = shared
    BY <1>1, <1>2, <1>6
  <1>11. \A l : Along(line, shared, l, shared)
    BY <1>6 DEF Along, Reading, Removing, Moving, Adding
  <1>12. ASSUME NEW u \in Threads, pc'[u] # "idle"
         PROVE  Along(pc'[u], shared', local'[u], before'[u])
    <2>1. u = t
      BY <1>4, <1>12
    <2>2. QED
      BY <1>1, <1>3, <1>10, <1>11, <2>1
  <1>13. QED
    BY <1>1, <1>3, <1>9, <1>10, <1>12 DEF RaceInv

LEMMA StepRaceInv ==
    OneAtATime /\ OneAtATime' /\ RaceInv /\ [RaceNext]_raceVars => RaceInv'
  <1> SUFFICES ASSUME OneAtATime, OneAtATime', RaceInv, [RaceNext]_raceVars
               PROVE  RaceInv'
    OBVIOUS
  <1>1. ASSUME NEW t \in Threads,
               \/ Call(t) \/ Test(t) \/ Find(t) \/ ReadFound(t)
               \/ SetValidators(t) \/ SetContents(t)
               \/ IsHead(t) \/ IsTail(t) \/ MoveToHeadStep(t) \/ AddFromHeadStep(t)
               \/ CountStep(t) \/ RemoveTailStep(t)
               \/ Full(t) \/ New(t) \/ Enter(t) \/ Return(t)
        PROVE  RaceInv'
    BY <1>1, CallAlong, TestAlong, FindAlong, ReadFoundAlong,
       SetValidatorsAlong, SetContentsAlong, IsHeadAlong, IsTailAlong,
       MoveToHeadStepAlong, AddFromHeadStepAlong, CountStepAlong,
       RemoveTailStepAlong, FullAlong, NewAlong, EnterAlong, ReturnAlong
  <1>2. CASE UNCHANGED raceVars
    BY <1>2 DEF raceVars, RaceInv
  <1>3. QED
    BY <1>1, <1>2 DEF RaceNext

\* Of the behaviours that run no two calls at once: at each line of put and get
\* the cache is what the call has made so far of the one it found, and between
\* two calls it is well formed and in the order of the puts.
THEOREM LinesInStep == RaceSpec /\ []OneAtATime => []RaceInv
  BY InitRaceInv, StepRaceInv, PTL DEF RaceSpec

\* In such a behaviour a call of put does what CacheOps says of the method,
\* whatever is cached and however full the cache is: its lines, with every
\* pointer they follow, add up to PutCached or PutNew.
THEOREM LinesAddUp == RaceSpec /\ []OneAtATime => []PutAlone
  <1>1. RaceInv => PutAlone
    BY DEF RaceInv, Along, PutAlone, K
  <1>2. QED
    BY <1>1, LinesInStep, PTL

\* The same of a thread that is alone, which needs no lock.
THEOREM LinesAddUpAlone == RaceSpec => [](Alone => PutAlone)
  <1>1. RaceInit => (Alone => RaceInv)
    BY InitRaceInv
  <1>2. (Alone => RaceInv) /\ [RaceNext]_raceVars => (Alone => RaceInv)'
    BY StepRaceInv DEF Alone, OneAtATime
  <1>3. (Alone => RaceInv) => (Alone => PutAlone)
    BY DEF RaceInv, Along, PutAlone, K
  <1>4. QED
    BY <1>1, <1>2, <1>3, PTL DEF RaceSpec

\* What dangerlog.txt says of targets and nodes, and two threads break, holds
\* while no two calls overlap: under one lock held about each whole call of put
\* or get, isCached at line 80 with it, which the lock_guards in the comments
\* of Cache.cpp are not.
THEOREM NodesPerTargetWithLock == RaceSpec /\ []OneAtATime => []NodesPerTarget
  <1>1. RaceInv => NodesPerTarget
    BY DEF RaceInv, NodesPerTarget, Quiet, Sound, Structure, SizeAgrees
  <1>2. QED
    BY <1>1, LinesInStep, PTL
=============================================================================
