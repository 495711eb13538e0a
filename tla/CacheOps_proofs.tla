-------------------------- MODULE CacheOps_proofs ---------------------------
(***************************************************************************)
(* Lemmas about the operators of CacheOps, for every number of keys and     *)
(* addresses and every capacity: what each does to each field of the cache, *)
(* and that put keeps its structure and the order of its list.              *)
(***************************************************************************)
EXTENDS CacheOps, FiniteSetTheorems, TLAPS

-----------------------------------------------------------------------------
(* What the operators do.                                                   *)

\* Following live pointers leaves no trace.
LEMMA DerefLive ==
    ASSUME NEW c \in CacheValue, NEW S \in SUBSET c.live
    PROVE  Deref(c, S) = c
  <1>1. c.wild \union (S \ c.live) = c.wild
    OBVIOUS
  <1>2. QED
    BY <1>1 DEF CacheValue, Deref

\* addFromHead in front of a head that is there.
LEMMA AddFromHeadFields ==
    ASSUME NEW c \in CacheValue, NEW n \in c.live, c.head \in c.live,
           NEW mode \in {0, 1}
    PROVE  AddFromHead(c, n, mode) =
             [c EXCEPT !.next = [c.next EXCEPT ![n] = c.head],
                       !.prev = [c.prev EXCEPT ![c.head] = n],
                       !.head = n,
                       !.size = IF mode = 0 THEN c.size + 1 ELSE c.size]
  <1>1. c.head # NULL
    BY NullAssumption DEF CacheValue
  <1>2. Deref(c, {n, c.head}) = c
    BY DerefLive
  <1>3. QED
    BY <1>1, <1>2 DEF AddFromHead, CacheValue

\* removeTail of a list that has a tail.
LEMMA RemoveTailFields ==
    ASSUME NEW c \in CacheValue, c.tail \in c.live,
           NEW d, d = RemoveTail(c)
    PROVE  /\ d \in CacheValue
           /\ d.head = IF c.head = c.tail THEN NULL ELSE c.head
           /\ d.tail = c.prev[c.tail]
           /\ d.live = c.live \ {c.tail}
           /\ d.size = c.size - 1
           /\ d.cacheMap = [c.cacheMap EXCEPT ![c.cacheKey[c.tail]] = NULL]
           /\ d.next = c.next
           /\ d.prev = c.prev
           /\ d.cacheKey = c.cacheKey
           /\ d.entry = c.entry
           /\ d.wild = c.wild
  <1>1. c.tail \in Nodes /\ c.tail # NULL
    BY NullAssumption DEF CacheValue
  <1>2. Deref(c, {c.tail}) = c
    BY DerefLive
  <1>3. d =
         [c EXCEPT !.head = IF c.head = c.tail THEN NULL ELSE c.head,
            !.tail = c.prev[c.tail],
            !.live = c.live \ {c.tail},
            !.size = c.size - 1,
            !.cacheMap = [c.cacheMap EXCEPT ![c.cacheKey[c.tail]] = NULL]]
    BY <1>1, <1>2 DEF RemoveTail, CacheValue
  <1>4. /\ d.head = IF c.head = c.tail THEN NULL ELSE c.head
        /\ d.tail = c.prev[c.tail]
        /\ d.live = c.live \ {c.tail}
        /\ d.size = c.size - 1
        /\ d.cacheMap = [c.cacheMap EXCEPT ![c.cacheKey[c.tail]] = NULL]
        /\ d.next = c.next
        /\ d.prev = c.prev
        /\ d.cacheKey = c.cacheKey
        /\ d.entry = c.entry
        /\ d.wild = c.wild
    BY <1>3 DEF CacheValue
  <1>5. d \in CacheValue
    <2>1. /\ d.head \in Pointer
          /\ d.tail \in Pointer
          /\ d.live \in SUBSET Nodes
          /\ d.size \in Int
      BY <1>1, <1>4 DEF CacheValue, Pointer
    <2>2. d.cacheMap \in [Keys -> Pointer]
      BY <1>1, <1>4 DEF CacheValue, Pointer
    <2>3. QED
      BY <1>3, <2>1, <2>2 DEF CacheValue
  <1>6. QED
    BY <1>4, <1>5

\* put of a new key into a cache with room, the node going to address n.
LEMMA PutNewFields ==
    ASSUME NEW c \in CacheValue, Ends(c), c.wild = {},
           NEW k \in Keys, NEW r \in Response, NEW t \in Nat,
           NEW n \in Nodes \ c.live,
           NEW d, d = StoreNode(c, k, r, n, t)
    PROVE  /\ d \in CacheValue
           /\ d.head = n
           /\ d.tail = IF c.live = {} THEN n ELSE c.tail
           /\ d.live = c.live \union {n}
           /\ d.size = c.size + 1
           /\ \A j \in Keys : d.cacheMap[j] = IF j = k THEN n ELSE c.cacheMap[j]
           /\ \A m \in Nodes :
                 /\ d.next[m] = IF m # n THEN c.next[m]
                                ELSE IF c.live = {} THEN NULL ELSE c.head
                 /\ d.prev[m] = IF m = n THEN NULL
                                ELSE IF c.live # {} /\ m = c.head THEN n
                                ELSE c.prev[m]
                 /\ d.cacheKey[m] = IF m = n THEN k ELSE c.cacheKey[m]
                 /\ d.entry[m] = IF m = n THEN NewEntry(r, t) ELSE c.entry[m]
           /\ d.wild = {}
  <1> DEFINE b == NewCacheNode(c, k, r, n, t)
  <1>1. NewEntry(r, t) \in Entry
    BY DEF NewEntry, Entry, Response, Status
  <1>2. /\ b \in CacheValue
        /\ b.head = c.head
        /\ b.tail = c.tail
        /\ b.size = c.size
        /\ b.live = c.live \union {n}
        /\ b.cacheMap = c.cacheMap
        /\ b.next = [c.next EXCEPT ![n] = NULL]
        /\ b.prev = [c.prev EXCEPT ![n] = NULL]
        /\ b.cacheKey = [c.cacheKey EXCEPT ![n] = k]
        /\ b.entry = [c.entry EXCEPT ![n] = NewEntry(r, t)]
        /\ b.wild = c.wild
    BY <1>1, NullAssumption DEF CacheValue, NewCacheNode, Pointer
  <1>0. d = [AddFromHead(b, n, 0) EXCEPT !.cacheMap = [b.cacheMap EXCEPT ![k] = n]]
    <2>1. (AddFromHead(b, n, 0)).cacheMap = b.cacheMap
      BY <1>2 DEF AddFromHead, Deref, CacheValue
    <2>2. QED
      BY <2>1 DEF StoreNode
  <1> HIDE DEF b
  <1>3. CASE c.live = {}
    <2>1. d = [b EXCEPT !.head = n, !.tail = n, !.size = b.size + 1,
                        !.cacheMap = [b.cacheMap EXCEPT ![k] = n]]
      BY <1>0, <1>2, <1>3 DEF AddFromHead, Ends, CacheValue
    <2>2. /\ d.head = n /\ d.tail = n /\ d.live = b.live
          /\ d.size = b.size + 1 /\ d.cacheMap = [b.cacheMap EXCEPT ![k] = n]
          /\ d.next = b.next /\ d.prev = b.prev /\ d.cacheKey = b.cacheKey
          /\ d.entry = b.entry /\ d.wild = b.wild
      BY <1>2, <2>1 DEF CacheValue
    <2>3. d \in CacheValue
      <3>0. b.size \in Int /\ b.cacheMap \in [Keys -> Pointer]
        BY <1>2 DEF CacheValue
      <3>1. d.size \in Int /\ d.cacheMap \in [Keys -> Pointer]
        <4>1. d.size = b.size + 1 /\ d.cacheMap = [b.cacheMap EXCEPT ![k] = n]
          BY <2>2
        <4>2. d.size \in Int
          BY <3>0, <4>1
        <4>3. d.cacheMap \in [Keys -> Pointer]
          BY <3>0, <4>1 DEF Pointer
        <4>4. QED
          BY <4>2, <4>3
      <3>2. n \in Pointer
        BY DEF Pointer
      <3>3. QED
        BY <1>2, <2>1, <2>2, <3>1, <3>2 DEF CacheValue
    <2>4. QED
      BY <1>2, <1>3, <2>2, <2>3, NullAssumption DEF CacheValue
  <1>4. CASE c.live # {}
    <2>1. c.head \in c.live /\ c.head \in Nodes /\ n # c.head
      BY <1>4 DEF Ends, CacheValue
    <2>2. AddFromHead(b, n, 0) =
             [b EXCEPT !.next = [b.next EXCEPT ![n] = b.head],
                       !.prev = [b.prev EXCEPT ![b.head] = n],
                       !.head = n,
                       !.size = b.size + 1]
      BY <1>2, <2>1, AddFromHeadFields
    <2>3. d = [b EXCEPT !.next = [b.next EXCEPT ![n] = b.head],
                        !.prev = [b.prev EXCEPT ![b.head] = n],
                        !.head = n,
                        !.size = b.size + 1,
                        !.cacheMap = [b.cacheMap EXCEPT ![k] = n]]
      BY <1>0, <1>2, <2>2 DEF CacheValue
    <2>4. /\ d.head = n /\ d.tail = b.tail /\ d.live = b.live
          /\ d.size = b.size + 1 /\ d.cacheMap = [b.cacheMap EXCEPT ![k] = n]
          /\ d.next = [b.next EXCEPT ![n] = b.head]
          /\ d.prev = [b.prev EXCEPT ![b.head] = n]
          /\ d.cacheKey = b.cacheKey /\ d.entry = b.entry /\ d.wild = b.wild
      BY <1>2, <2>3 DEF CacheValue
    <2>5. /\ d.next = [c.next EXCEPT ![n] = c.head]
          /\ d.prev = [c.prev EXCEPT ![n] = NULL, ![c.head] = n]
      BY <1>2, <2>4 DEF CacheValue
    <2>6. d \in CacheValue
      <3>0. b.size \in Int /\ b.cacheMap \in [Keys -> Pointer]
        BY <1>2 DEF CacheValue
      <3>1. d.size \in Int /\ d.cacheMap \in [Keys -> Pointer]
        <4>1. d.size = b.size + 1 /\ d.cacheMap = [b.cacheMap EXCEPT ![k] = n]
          BY <2>4
        <4>2. d.size \in Int
          BY <3>0, <4>1
        <4>3. d.cacheMap \in [Keys -> Pointer]
          BY <3>0, <4>1 DEF Pointer
        <4>4. QED
          BY <4>2, <4>3
      <3>2. /\ d.head \in Pointer
            /\ d.next \in [Nodes -> Pointer]
            /\ d.prev \in [Nodes -> Pointer]
        BY <1>2, <2>1, <2>4, <2>5 DEF CacheValue, Pointer
      <3>3. QED
        BY <1>2, <2>3, <2>4, <3>1, <3>2 DEF CacheValue
    <2>7. QED
      BY <1>2, <1>4, <2>1, <2>4, <2>5, <2>6, NullAssumption DEF CacheValue
  <1>5. QED
    BY <1>3, <1>4

\* moveToHead of a node with a neighbour on either side.
LEMMA MoveInnerFields ==
    ASSUME NEW c \in CacheValue, NEW n \in c.live, n # c.head, n # c.tail,
           c.head \in c.live, c.prev[n] \in c.live, c.next[n] \in c.live,
           NEW d, d = MoveToHead(c, n)
    PROVE  /\ d \in CacheValue
           /\ d.head = n
           /\ d.tail = c.tail
           /\ \A m \in Nodes :
                 /\ d.next[m] = IF m = n THEN c.head
                                ELSE IF m = c.prev[n] THEN c.next[n]
                                ELSE c.next[m]
                 /\ d.prev[m] = IF m = c.head THEN n
                                ELSE IF m = n THEN NULL
                                ELSE IF m = c.next[n] THEN c.prev[n]
                                ELSE c.prev[m]
           /\ d.live = c.live /\ d.size = c.size /\ d.wild = c.wild
           /\ d.cacheMap = c.cacheMap /\ d.cacheKey = c.cacheKey
           /\ d.entry = c.entry
  <1> DEFINE b == UnlinkInner(c, n)
             nx == [c.next EXCEPT ![c.prev[n]] = c.next[n], ![n] = NULL]
             pv == [c.prev EXCEPT ![c.next[n]] = c.prev[n], ![n] = NULL]
  <1>1. n \in Nodes /\ c.head \in Nodes /\ c.prev[n] \in Nodes
        /\ c.next[n] \in Nodes
    BY DEF CacheValue
  <1>2. nx \in [Nodes -> Pointer] /\ pv \in [Nodes -> Pointer]
    BY <1>1 DEF CacheValue, Pointer
  <1>3. b = [c EXCEPT !.prev = pv, !.next = nx]
    <2>1. Deref(c, {n, c.next[n], c.prev[n]}) = c
      BY DerefLive
    <2>2. QED
      BY <2>1 DEF UnlinkInner, CacheValue
  <1> HIDE DEF nx, pv, b
  <1>4. /\ b \in CacheValue
        /\ b.head = c.head /\ b.tail = c.tail /\ b.next = nx /\ b.prev = pv
        /\ b.live = c.live /\ b.size = c.size /\ b.wild = c.wild
        /\ b.cacheMap = c.cacheMap /\ b.cacheKey = c.cacheKey
        /\ b.entry = c.entry
    BY <1>2, <1>3 DEF CacheValue
  <1>5. d = [b EXCEPT !.next = [b.next EXCEPT ![n] = b.head],
                      !.prev = [b.prev EXCEPT ![b.head] = n],
                      !.head = n,
                      !.size = b.size]
    <2>1. d = AddFromHead(b, n, 1)
      BY DEF MoveToHead, b
    <2>2. n \in b.live /\ b.head \in b.live /\ 1 \in {0, 1}
      BY <1>4
    <2>3. AddFromHead(b, n, 1) =
             [b EXCEPT !.next = [b.next EXCEPT ![n] = b.head],
                       !.prev = [b.prev EXCEPT ![b.head] = n],
                       !.head = n,
                       !.size = IF 1 = 0 THEN b.size + 1 ELSE b.size]
      BY ONLY <1>4, <2>2, AddFromHeadFields
    <2>4. QED
      BY <2>1, <2>3
  <1>6. /\ d.head = n /\ d.tail = b.tail
        /\ d.next = [b.next EXCEPT ![n] = b.head]
        /\ d.prev = [b.prev EXCEPT ![b.head] = n]
        /\ d.live = b.live /\ d.size = b.size /\ d.wild = b.wild
        /\ d.cacheMap = b.cacheMap /\ d.cacheKey = b.cacheKey
        /\ d.entry = b.entry
    BY <1>4, <1>5 DEF CacheValue
  <1>7. /\ d.next = [c.next EXCEPT ![c.prev[n]] = c.next[n], ![n] = c.head]
        /\ d.prev = [c.prev EXCEPT ![c.next[n]] = c.prev[n], ![n] = NULL,
                                   ![c.head] = n]
    BY <1>1, <1>4, <1>6 DEF CacheValue, nx, pv
  <1>8. d \in CacheValue
    <2>1. d.next \in [Nodes -> Pointer] /\ d.prev \in [Nodes -> Pointer]
      BY <1>1, <1>2, <1>4, <1>6 DEF Pointer
    <2>2. d.head \in Pointer /\ d.size \in Int
      BY <1>1, <1>4, <1>6 DEF Pointer, CacheValue
    <2>3. QED
      BY <1>4, <1>5, <1>6, <2>1, <2>2 DEF CacheValue
  <1>9. QED
    BY <1>1, <1>4, <1>6, <1>7, <1>8 DEF CacheValue

\* moveToHead of the tail.
LEMMA MoveTailFields ==
    ASSUME NEW c \in CacheValue, NEW n \in c.live, n # c.head, n = c.tail,
           c.head \in c.live, c.prev[n] \in c.live,
           NEW d, d = MoveToHead(c, n)
    PROVE  /\ d \in CacheValue
           /\ d.head = n
           /\ d.tail = c.prev[n]
           /\ \A m \in Nodes :
                 /\ d.next[m] = IF m = n THEN c.head
                                ELSE IF m = c.prev[n] THEN NULL
                                ELSE c.next[m]
                 /\ d.prev[m] = IF m = c.head THEN n
                                ELSE IF m = n THEN NULL
                                ELSE c.prev[m]
           /\ d.live = c.live /\ d.size = c.size /\ d.wild = c.wild
           /\ d.cacheMap = c.cacheMap /\ d.cacheKey = c.cacheKey
           /\ d.entry = c.entry
  <1> DEFINE b == UnlinkTail(c, n)
             nx == [c.next EXCEPT ![c.prev[n]] = NULL]
             pv == [c.prev EXCEPT ![n] = NULL]
  <1>1. n \in Nodes /\ c.head \in Nodes /\ c.prev[n] \in Nodes
    BY DEF CacheValue
  <1>2. nx \in [Nodes -> Pointer] /\ pv \in [Nodes -> Pointer]
    BY <1>1 DEF CacheValue, Pointer
  <1>3. b = [c EXCEPT !.tail = c.prev[n], !.next = nx, !.prev = pv]
    <2>1. Deref(c, {n, c.prev[n]}) = c
      BY DerefLive
    <2>2. QED
      BY <2>1 DEF UnlinkTail, CacheValue
  <1> HIDE DEF nx, pv, b
  <1>4. /\ b \in CacheValue
        /\ b.head = c.head /\ b.tail = c.prev[n] /\ b.next = nx /\ b.prev = pv
        /\ b.live = c.live /\ b.size = c.size /\ b.wild = c.wild
        /\ b.cacheMap = c.cacheMap /\ b.cacheKey = c.cacheKey
        /\ b.entry = c.entry
    BY <1>1, <1>2, <1>3 DEF CacheValue, Pointer
  <1>5. d = [b EXCEPT !.next = [b.next EXCEPT ![n] = b.head],
                      !.prev = [b.prev EXCEPT ![b.head] = n],
                      !.head = n,
                      !.size = b.size]
    <2>1. d = AddFromHead(b, n, 1)
      BY DEF MoveToHead, b
    <2>2. n \in b.live /\ b.head \in b.live /\ 1 \in {0, 1}
      BY <1>4
    <2>3. AddFromHead(b, n, 1) =
             [b EXCEPT !.next = [b.next EXCEPT ![n] = b.head],
                       !.prev = [b.prev EXCEPT ![b.head] = n],
                       !.head = n,
                       !.size = IF 1 = 0 THEN b.size + 1 ELSE b.size]
      BY ONLY <1>4, <2>2, AddFromHeadFields
    <2>4. QED
      BY <2>1, <2>3
  <1>6. /\ d.head = n /\ d.tail = b.tail
        /\ d.next = [b.next EXCEPT ![n] = b.head]
        /\ d.prev = [b.prev EXCEPT ![b.head] = n]
        /\ d.live = b.live /\ d.size = b.size /\ d.wild = b.wild
        /\ d.cacheMap = b.cacheMap /\ d.cacheKey = b.cacheKey
        /\ d.entry = b.entry
    BY <1>4, <1>5 DEF CacheValue
  <1>7. /\ d.next = [c.next EXCEPT ![c.prev[n]] = NULL, ![n] = c.head]
        /\ d.prev = [c.prev EXCEPT ![n] = NULL, ![c.head] = n]
    BY <1>1, <1>4, <1>6 DEF CacheValue, nx, pv
  <1>8. d \in CacheValue
    <2>1. d.next \in [Nodes -> Pointer] /\ d.prev \in [Nodes -> Pointer]
      BY <1>1, <1>2, <1>4, <1>6 DEF Pointer
    <2>2. d.head \in Pointer /\ d.size \in Int
      BY <1>1, <1>4, <1>6 DEF Pointer, CacheValue
    <2>3. QED
      BY <1>4, <1>5, <1>6, <2>1, <2>2 DEF CacheValue
  <1>9. QED
    BY <1>1, <1>4, <1>6, <1>7, <1>8 DEF CacheValue

-----------------------------------------------------------------------------
(* put keeps the structure.                                                 *)

\* The stamps leave no node off the chain: a list of one end holds one node.
LEMMA OneNode ==
    ASSUME NEW c \in CacheValue, NEW s \in [Nodes -> Nat], NEW p \in Nat,
           NEW time \in Nat, Order(c, s, p, time),
           c.tail \in c.live, c.head = c.tail
    PROVE  c.live = {c.tail}
  <1>1. ASSUME NEW n \in c.live
        PROVE  n = c.tail
    <2>1. s[n] = s[c.tail]
      BY DEF Order, CacheValue
    <2>2. QED
      BY <2>1 DEF Order
  <1>2. QED
    BY <1>1

\* removeTail of a well-formed cache leaves a well-formed one with room.
LEMMA RemoveTailStructure ==
    ASSUME NEW c \in CacheValue, Structure(c), c.live # {},
           NEW s \in [Nodes -> Nat], NEW p \in Nat, NEW time \in Nat,
           Order(c, s, p, time),
           NEW d, d = RemoveTail(c)
    PROVE  /\ Structure(d)
           /\ d.size < Capacity
  <1> DEFINE t == c.tail
  <1>1. t \in c.live /\ c.head \in c.live /\ c.prev[c.head] = NULL
    BY DEF Structure, Ends
  <1>2. /\ d.head = IF c.head = t THEN NULL ELSE c.head
        /\ d.tail = c.prev[t]
        /\ d.live = c.live \ {t}
        /\ d.size = c.size - 1
        /\ d.cacheMap = [c.cacheMap EXCEPT ![c.cacheKey[t]] = NULL]
        /\ d.next = c.next
        /\ d.prev = c.prev
        /\ d.cacheKey = c.cacheKey
    BY <1>1, RemoveTailFields
  <1>3. t \in Nodes /\ c.cacheKey[t] \in Keys
    BY <1>1 DEF CacheValue
  <1> HIDE DEF t
  <1>4. Ends(d)
    <2>1. CASE c.head = t
      <3>1. d.live = {}
        BY <1>1, <1>2, <2>1, OneNode DEF t
      <3>2. QED
        BY <1>1, <1>2, <2>1, <3>1 DEF Ends
    <2>2. CASE c.head # t
      <3>1. c.prev[t] \in c.live \ {t}
        BY <1>1, <2>2 DEF Structure, Links, t
      <3>2. QED
        BY <1>1, <1>2, <2>2, <3>1 DEF Ends
    <2>3. QED
      BY <2>1, <2>2
  <1>5. Links(d)
    <2>1. SUFFICES ASSUME NEW n \in d.live
                   PROVE  /\ n # d.head => /\ d.prev[n] \in d.live \ {d.tail}
                                           /\ d.next[d.prev[n]] = n
                          /\ n # d.tail => /\ d.next[n] \in d.live
                                           /\ d.prev[d.next[n]] = n
      BY DEF Links
    <2>2. n \in c.live /\ n # t
      BY <1>2
    <2>3. CASE c.head = t
      BY <1>1, <1>2, <2>2, <2>3, OneNode DEF t
    <2>4. CASE c.head # t
      <3>1. c.prev[t] \in c.live \ {t} /\ c.next[c.prev[t]] = t
        BY <1>1, <2>4 DEF Structure, Links, t
      <3>2. n # c.head => /\ c.prev[n] \in c.live \ {t}
                          /\ c.next[c.prev[n]] = n
        BY <2>2 DEF Structure, Links, t
      <3>3. c.next[n] \in c.live /\ c.prev[c.next[n]] = n
        BY <2>2 DEF Structure, Links, t
      <3>4. n # c.prev[t] => c.next[n] # t
        BY <3>3
      <3>5. QED
        BY <1>2, <2>2, <2>4, <3>1, <3>2, <3>3, <3>4
    <2>5. QED
      BY <2>3, <2>4
  <1>6. MapAgrees(d)
    BY <1>1, <1>2, <1>3, NullAssumption
       DEF Structure, MapAgrees, IsCached, CacheValue
  <1>7. SizeAgrees(d) /\ d.size < Capacity
    <2>1. IsFiniteSet(c.live) /\ c.size = Cardinality(c.live)
          /\ c.size <= Capacity
      BY DEF Structure, SizeAgrees
    <2>2. /\ IsFiniteSet(c.live \ {t})
          /\ Cardinality(c.live \ {t}) = Cardinality(c.live) - 1
      BY <1>1, <2>1, FS_RemoveElement
    <2>3. QED
      BY <1>2, <2>1, <2>2, CapacityAssumption DEF SizeAgrees, CacheValue
  <1>8. QED
    BY <1>4, <1>5, <1>6, <1>7 DEF Structure


\* removeTail keeps the order: the node before the tail becomes the minimum.
LEMMA RemoveTailOrder ==
    ASSUME NEW c \in CacheValue, Structure(c), c.live # {},
           NEW s \in [Nodes -> Nat], NEW p \in Nat, NEW time \in Nat,
           Order(c, s, p, time),
           NEW d, d = RemoveTail(c)
    PROVE  Order(d, s, p, time)
  <1> DEFINE t == c.tail
  <1>1. t \in c.live /\ c.head \in c.live
    BY DEF Structure, Ends
  <1>2. /\ d.head = IF c.head = t THEN NULL ELSE c.head
        /\ d.tail = c.prev[t]
        /\ d.live = c.live \ {t}
        /\ d.next = c.next
        /\ d.entry = c.entry
    BY <1>1, RemoveTailFields
  <1>3. \A n \in c.live : s[n] \in Nat
    BY DEF CacheValue
  <1>4. CASE c.head = t
    <2>1. d.live = {}
      BY <1>1, <1>2, <1>4, OneNode
    <2>2. QED
      BY <2>1 DEF Order
  <1>5. CASE c.head # t
    <2>1. c.prev[t] \in c.live \ {t} /\ c.next[c.prev[t]] = t
      BY <1>1, <1>5 DEF Structure, Links
    <2>2. \A n \in d.live : s[c.prev[t]] <= s[n]
      <3>1. ASSUME NEW n \in d.live, s[n] < s[c.prev[t]]
            PROVE  FALSE
        <4>1. s[n] <= s[t] /\ s[t] <= s[n]
          BY <1>2, <2>1, <3>1 DEF Order
        <4>2. n = t
          BY <1>1, <1>2, <1>3, <4>1 DEF Order
        <4>3. QED
          BY <1>2, <4>2
      <3>2. QED
        BY <1>2, <1>3, <2>1, <3>1
    <2>3. QED
      BY <1>2, <1>5, <2>1, <2>2 DEF Order
  <1>6. QED
    BY <1>4, <1>5

\* put of a new key into a cache with room keeps the structure.
LEMMA PutNewStructure ==
    ASSUME NEW c \in CacheValue, Structure(c), ~IsFull(c), c.wild = {},
           NEW k \in Keys, NEW r \in Response, NEW time \in Nat,
           NEW n \in Nodes \ c.live, ~IsCached(c, k),
           NEW d, d = StoreNode(c, k, r, n, time)
    PROVE  Structure(d)
  <1>1. /\ d.head = n
        /\ d.tail = IF c.live = {} THEN n ELSE c.tail
        /\ d.live = c.live \union {n}
        /\ d.size = c.size + 1
        /\ \A j \in Keys : d.cacheMap[j] = IF j = k THEN n ELSE c.cacheMap[j]
        /\ \A m \in Nodes :
              /\ d.next[m] = IF m # n THEN c.next[m]
                             ELSE IF c.live = {} THEN NULL ELSE c.head
              /\ d.prev[m] = IF m = n THEN NULL
                             ELSE IF c.live # {} /\ m = c.head THEN n
                             ELSE c.prev[m]
              /\ d.cacheKey[m] = IF m = n THEN k ELSE c.cacheKey[m]
    <2>1. Ends(c) /\ d = StoreNode(c, k, r, n, time) /\ time \in Nat
      BY DEF Structure
    <2>2. /\ d.head = n
          /\ d.tail = IF c.live = {} THEN n ELSE c.tail
          /\ d.live = c.live \union {n}
          /\ d.size = c.size + 1
          /\ \A j \in Keys : d.cacheMap[j] = IF j = k THEN n ELSE c.cacheMap[j]
      BY <2>1, PutNewFields
    <2>3. \A m \in Nodes :
              /\ d.next[m] = IF m # n THEN c.next[m]
                             ELSE IF c.live = {} THEN NULL ELSE c.head
              /\ d.prev[m] = IF m = n THEN NULL
                             ELSE IF c.live # {} /\ m = c.head THEN n
                             ELSE c.prev[m]
              /\ d.cacheKey[m] = IF m = n THEN k ELSE c.cacheKey[m]
      BY <2>1, PutNewFields
    <2>4. QED
      BY <2>2, <2>3
  <1>2. n \in Nodes /\ n \notin c.live /\ n # NULL
    BY NullAssumption
  <1>3. Ends(d)
    BY <1>1, <1>2 DEF Ends, Structure, CacheValue
  <1>4. Links(d)
    <2>1. CASE c.live = {}
      BY <1>1, <2>1 DEF Links
    <2>2. CASE c.live # {}
      <3>1. c.head \in c.live /\ c.tail \in c.live /\ c.head \in Nodes
        BY <2>2 DEF Structure, Ends, CacheValue
      <3>2. ASSUME NEW m \in d.live
            PROVE  /\ m # d.head => /\ d.prev[m] \in d.live \ {d.tail}
                                    /\ d.next[d.prev[m]] = m
                   /\ m # d.tail => /\ d.next[m] \in d.live
                                    /\ d.prev[d.next[m]] = m
        <4>1. CASE m = n
          BY <1>1, <1>2, <2>2, <3>1, <4>1 DEF CacheValue
        <4>2. CASE m # n
          <5>1. m \in c.live /\ m \in Nodes
            BY <1>1, <4>2 DEF CacheValue
          <5>2. /\ m # c.head => /\ c.prev[m] \in c.live \ {c.tail}
                                 /\ c.next[c.prev[m]] = m
                /\ m # c.tail => /\ c.next[m] \in c.live
                                 /\ c.prev[c.next[m]] = m
            BY <5>1 DEF Structure, Links
          <5>3. d.next[m] = c.next[m]
            BY <1>1, <4>2, <5>1 DEF CacheValue
          <5>4. m # c.tail => c.next[m] # c.head
            BY <3>1, <5>2, NullAssumption, <5>1
               DEF Structure, Ends, CacheValue
          <5>5. \A q \in c.live \ {c.head} : d.prev[q] = c.prev[q]
            BY <1>1, <1>2, <2>2 DEF CacheValue
          <5>6. d.prev[c.head] = n
            BY <1>1, <2>2, <3>1 DEF CacheValue
          <5>7. d.next[n] = c.head
            BY <1>1, <1>2, <2>2 DEF CacheValue
          <5>8. \A q \in c.live : d.next[q] = c.next[q]
            BY <1>1, <1>2 DEF CacheValue
          <5>9. QED
            BY <1>1, <1>2, <2>2, <3>1, <4>2, <5>1, <5>2, <5>4, <5>5, <5>6,
               <5>7, <5>8
        <4>3. QED
          BY <4>1, <4>2
      <3>3. QED
        BY <3>2 DEF Links
    <2>3. QED
      BY <2>1, <2>2
  <1>5. MapAgrees(d)
    <2>1. ASSUME NEW m \in d.live
          PROVE  d.cacheMap[d.cacheKey[m]] = m
      <3>1. CASE m = n
        BY <1>1, <1>2, <3>1 DEF CacheValue
      <3>2. CASE m # n
        <4>1. m \in c.live /\ m \in Nodes
          BY <1>1, <3>2 DEF CacheValue
        <4>2. c.cacheMap[c.cacheKey[m]] = m /\ c.cacheKey[m] \in Keys
          BY <4>1 DEF Structure, MapAgrees, CacheValue
        <4>3. c.cacheKey[m] # k
          BY <4>1, <4>2, NullAssumption DEF IsCached
        <4>4. QED
          BY <1>1, <1>2, <3>2, <4>1, <4>2, <4>3 DEF CacheValue
      <3>3. QED
        BY <3>1, <3>2
    <2>2. ASSUME NEW j \in Keys, d.cacheMap[j] # NULL
          PROVE  d.cacheMap[j] \in d.live /\ d.cacheKey[d.cacheMap[j]] = j
      BY <1>1, <1>2, <2>2 DEF Structure, MapAgrees, IsCached, CacheValue
    <2>3. QED
      BY <2>1, <2>2 DEF MapAgrees, IsCached
  <1>6. SizeAgrees(d)
    <2>1. IsFiniteSet(c.live) /\ c.size = Cardinality(c.live)
      BY DEF Structure, SizeAgrees
    <2>2. /\ IsFiniteSet(c.live \union {n})
          /\ Cardinality(c.live \union {n}) = Cardinality(c.live) + 1
      BY <1>2, <2>1, FS_AddElement
    <2>3. c.size + 1 <= Capacity
      BY CapacityAssumption DEF IsFull, CacheValue
    <2>4. QED
      BY <1>1, <2>1, <2>2, <2>3 DEF SizeAgrees
  <1>7. QED
    BY <1>3, <1>4, <1>5, <1>6 DEF Structure

\* and the order, the new node being the latest.
LEMMA PutNewOrder ==
    ASSUME NEW c \in CacheValue, Structure(c), ~IsFull(c), c.wild = {},
           NEW k \in Keys, NEW r \in Response, NEW time \in Nat,
           NEW n \in Nodes \ c.live,
           NEW s \in [Nodes -> Nat], NEW p \in Nat, Order(c, s, p, time),
           NEW d, d = StoreNode(c, k, r, n, time)
    PROVE  Order(d, [s EXCEPT ![n] = p + 1], p + 1, time)
  <1> DEFINE s2 == [s EXCEPT ![n] = p + 1]
  <1>1. /\ d.head = n
        /\ d.tail = IF c.live = {} THEN n ELSE c.tail
        /\ d.live = c.live \union {n}
        /\ \A m \in Nodes :
              /\ d.next[m] = IF m # n THEN c.next[m]
                             ELSE IF c.live = {} THEN NULL ELSE c.head
              /\ d.entry[m] = IF m = n THEN NewEntry(r, time) ELSE c.entry[m]
    <2>1. Ends(c) /\ d = StoreNode(c, k, r, n, time) /\ time \in Nat
      BY DEF Structure
    <2>2. QED
      BY <2>1, PutNewFields
  <1>2. /\ s2[n] = p + 1
        /\ \A m \in c.live : s2[m] = s[m] /\ s[m] \in 1..p /\ m # n /\ m \in Nodes
    BY DEF Order, CacheValue
  <1>3. /\ d.entry[n].responseTime = time
        /\ \A m \in c.live : /\ d.entry[m] = c.entry[m]
                             /\ c.entry[m].responseTime \in Nat
                             /\ c.entry[m].responseTime <= time
    BY <1>1, <1>2 DEF NewEntry, CacheValue, Entry, Order
  <1>4. c.live # {} => c.head \in c.live /\ c.tail \in c.live
    BY DEF Structure, Ends
  <1>5. d.next[n] = IF c.live = {} THEN NULL ELSE c.head
    BY <1>1 DEF CacheValue
  <1>6. \A m \in c.live \ {c.tail} : d.next[m] = c.next[m] /\ c.next[m] \in c.live
    BY <1>1, <1>2 DEF Structure, Links, CacheValue
  <1> HIDE DEF s2
  <1>7. \A m \in d.live : s2[m] \in 1..(p + 1) /\ d.entry[m].responseTime <= time
    BY <1>1, <1>2, <1>3
  <1>8. \A l, m \in d.live :
          /\ s2[l] = s2[m] => l = m
          /\ s2[l] <= s2[m] =>
                d.entry[l].responseTime <= d.entry[m].responseTime
    BY <1>1, <1>2, <1>3 DEF Order
  <1>9. \A m \in d.live : s2[d.tail] <= s2[m] /\ s2[m] <= s2[d.head]
    BY <1>1, <1>2, <1>4 DEF Order
  <1>10. \A m \in d.live \ {d.tail} :
           /\ s2[d.next[m]] < s2[m]
           /\ \A l \in d.live : s2[l] < s2[m] => s2[l] <= s2[d.next[m]]
    BY <1>1, <1>2, <1>4, <1>5, <1>6 DEF Order
  <1>11. QED
    BY <1>7, <1>8, <1>9, <1>10 DEF Order, s2

\* moveToHead of any node keeps the structure.
LEMMA MoveToHeadStructure ==
    ASSUME NEW c \in CacheValue, Structure(c), NEW n \in c.live,
           NEW d, d = MoveToHead(c, n)
    PROVE  d \in CacheValue /\ d.wild = c.wild /\ Structure(d)
  <1>1. c.head \in c.live /\ c.tail \in c.live /\ c.prev[c.head] = NULL
    BY DEF Structure, Ends
  <1>2. \A m \in c.live : m \in Nodes /\ m # NULL
    BY NullAssumption DEF CacheValue
  <1>3. ASSUME NEW m \in c.live
        PROVE  /\ m # c.head => /\ c.prev[m] \in c.live \ {c.tail}
                                /\ c.next[c.prev[m]] = m
               /\ m # c.tail => /\ c.next[m] \in c.live
                                /\ c.prev[c.next[m]] = m
    BY DEF Structure, Links
  <1>4. CASE n = c.head
    BY <1>4 DEF MoveToHead
  <1>5. CASE n # c.head /\ n # c.tail
    <2>1. /\ c.prev[n] \in c.live \ {c.tail} /\ c.next[c.prev[n]] = n
          /\ c.next[n] \in c.live /\ c.prev[c.next[n]] = n
      BY <1>3, <1>5
    <2>2. /\ d \in CacheValue
          /\ d.head = n /\ d.tail = c.tail
          /\ d.live = c.live /\ d.size = c.size /\ d.wild = c.wild
          /\ d.cacheMap = c.cacheMap /\ d.cacheKey = c.cacheKey
          /\ \A m \in Nodes :
                /\ d.next[m] = IF m = n THEN c.head
                               ELSE IF m = c.prev[n] THEN c.next[n]
                               ELSE c.next[m]
                /\ d.prev[m] = IF m = c.head THEN n
                               ELSE IF m = n THEN NULL
                               ELSE IF m = c.next[n] THEN c.prev[n]
                               ELSE c.prev[m]
      BY <1>1, <1>5, <2>1, MoveInnerFields
    <2>3. ASSUME NEW m \in d.live, m # d.head
          PROVE  d.prev[m] \in d.live \ {d.tail} /\ d.next[d.prev[m]] = m
      BY <1>1, <1>2, <1>3, <1>5, <2>1, <2>2, <2>3
    <2>4. ASSUME NEW m \in d.live, m # d.tail
          PROVE  d.next[m] \in d.live /\ d.prev[d.next[m]] = m
      BY <1>1, <1>2, <1>3, <1>5, <2>1, <2>2, <2>4
    <2>5. Links(d)
      BY <2>3, <2>4 DEF Links
    <2>6. Ends(d)
      BY <1>1, <1>2, <1>5, <2>2 DEF Ends
    <2>7. MapAgrees(d) /\ SizeAgrees(d)
      BY <2>2 DEF Structure, MapAgrees, SizeAgrees, IsCached
    <2>8. QED
      BY <2>2, <2>5, <2>6, <2>7 DEF Structure
  <1>6. CASE n # c.head /\ n = c.tail
    <2>1. c.prev[n] \in c.live \ {c.tail} /\ c.next[c.prev[n]] = n
      BY <1>3, <1>6
    <2>2. /\ d \in CacheValue
          /\ d.head = n /\ d.tail = c.prev[n]
          /\ d.live = c.live /\ d.size = c.size /\ d.wild = c.wild
          /\ d.cacheMap = c.cacheMap /\ d.cacheKey = c.cacheKey
          /\ \A m \in Nodes :
                /\ d.next[m] = IF m = n THEN c.head
                               ELSE IF m = c.prev[n] THEN NULL
                               ELSE c.next[m]
                /\ d.prev[m] = IF m = c.head THEN n
                               ELSE IF m = n THEN NULL
                               ELSE c.prev[m]
      BY <1>1, <1>6, <2>1, MoveTailFields
    <2>3. ASSUME NEW m \in d.live, m # d.head
          PROVE  d.prev[m] \in d.live \ {d.tail} /\ d.next[d.prev[m]] = m
      BY <1>1, <1>2, <1>3, <1>6, <2>1, <2>2, <2>3
    <2>4. ASSUME NEW m \in d.live, m # d.tail
          PROVE  d.next[m] \in d.live /\ d.prev[d.next[m]] = m
      BY <1>1, <1>2, <1>3, <1>6, <2>1, <2>2, <2>4
    <2>5. Links(d)
      BY <2>3, <2>4 DEF Links
    <2>6. Ends(d)
      BY <1>1, <1>2, <1>6, <2>1, <2>2 DEF Ends
    <2>7. MapAgrees(d) /\ SizeAgrees(d)
      BY <2>2 DEF Structure, MapAgrees, SizeAgrees, IsCached
    <2>8. QED
      BY <2>2, <2>5, <2>6, <2>7 DEF Structure
  <1>7. QED
    BY <1>4, <1>5, <1>6

\* What put first does to a cached node: only its entry changes.
LEMMA UpdatedFields ==
    ASSUME NEW c \in CacheValue, NEW n \in Nodes, NEW r \in Response,
           NEW time \in Nat,
           NEW b, b = [c EXCEPT !.entry[n] = Updated(@, r, time)]
    PROVE  /\ b \in CacheValue
           /\ b.head = c.head /\ b.tail = c.tail
           /\ b.next = c.next /\ b.prev = c.prev
           /\ b.live = c.live /\ b.size = c.size /\ b.wild = c.wild
           /\ b.cacheMap = c.cacheMap /\ b.cacheKey = c.cacheKey
           /\ \A m \in Nodes \ {n} : b.entry[m] = c.entry[m]
           /\ b.entry[n].responseTime = time
  <1> DEFINE e == Updated(c.entry[n], r, time)
  <1>1. c.entry \in [Nodes -> Entry]
    BY DEF CacheValue
  <1>2. e \in Entry /\ e.responseTime = time
    BY <1>1 DEF Updated, Present, Entry, Response, Status
  <1>3. b = [c EXCEPT !.entry = [c.entry EXCEPT ![n] = e]]
    BY DEF CacheValue
  <1> HIDE DEF e
  <1>4. b.entry = [c.entry EXCEPT ![n] = e]
    BY <1>3 DEF CacheValue
  <1>5. [c.entry EXCEPT ![n] = e] \in [Nodes -> Entry]
    BY <1>1, <1>2
  <1>6. b \in CacheValue
    BY <1>3, <1>5 DEF CacheValue
  <1>7. QED
    BY <1>1, <1>2, <1>3, <1>4, <1>6 DEF CacheValue

\* put of a cached key keeps the structure.
LEMMA PutCachedStructure ==
    ASSUME NEW c \in CacheValue, Structure(c), NEW k \in Keys, IsCached(c, k),
           NEW r \in Response, NEW time \in Nat
    PROVE  /\ PutCached(c, k, r, time) \in CacheValue
           /\ PutCached(c, k, r, time).wild = c.wild
           /\ Structure(PutCached(c, k, r, time))
  <1> DEFINE n == c.cacheMap[k]
             b == [c EXCEPT !.entry[n] = Updated(@, r, time)]
  <1>1. n \in c.live /\ n \in Nodes
    BY DEF Structure, MapAgrees, CacheValue
  <1>2. PutCached(c, k, r, time) = MoveToHead(b, n)
    BY DEF PutCached
  <1> HIDE DEF n
  <1>3. /\ b \in CacheValue
        /\ b.head = c.head /\ b.tail = c.tail
        /\ b.next = c.next /\ b.prev = c.prev
        /\ b.live = c.live /\ b.size = c.size /\ b.wild = c.wild
        /\ b.cacheMap = c.cacheMap /\ b.cacheKey = c.cacheKey
    BY <1>1, UpdatedFields
  <1> HIDE DEF b
  <1>4. Structure(b)
    BY <1>3 DEF Structure, Ends, Links, MapAgrees, SizeAgrees, IsCached
  <1>5. n \in b.live
    BY <1>1, <1>3
  <1>6. QED
    BY <1>2, <1>3, <1>4, <1>5, MoveToHeadStructure

\* and the order, the node being the latest again.
LEMMA PutCachedOrder ==
    ASSUME NEW c \in CacheValue, Structure(c), NEW k \in Keys, IsCached(c, k),
           NEW r \in Response, NEW time \in Nat,
           NEW s \in [Nodes -> Nat], NEW p \in Nat, Order(c, s, p, time),
           NEW d, d = PutCached(c, k, r, time)
    PROVE  Order(d, [s EXCEPT ![c.cacheMap[k]] = p + 1], p + 1, time)
  <1> DEFINE n == c.cacheMap[k]
             b == [c EXCEPT !.entry[n] = Updated(@, r, time)]
             s2 == [s EXCEPT ![n] = p + 1]
  <1>1. n \in c.live /\ n \in Nodes
    BY DEF Structure, MapAgrees, CacheValue
  <1>2. d = MoveToHead(b, n)
    BY DEF PutCached
  <1>3. s2[n] = p + 1 /\ \A m \in c.live : m # n => s2[m] = s[m]
    BY <1>1 DEF CacheValue
  <1> HIDE DEF n
  <1>4. /\ b \in CacheValue
        /\ b.head = c.head /\ b.tail = c.tail
        /\ b.next = c.next /\ b.prev = c.prev
        /\ b.live = c.live
        /\ \A m \in Nodes \ {n} : b.entry[m] = c.entry[m]
        /\ b.entry[n].responseTime = time
    BY <1>1, UpdatedFields
  <1> HIDE DEF b, s2
  <1>5. /\ c.head \in c.live /\ c.tail \in c.live
        /\ \A m \in c.live : m \in Nodes
    BY <1>1 DEF Structure, Ends, CacheValue
  <1>6. \A m \in c.live :
           /\ s[m] \in 1..p
           /\ c.entry[m].responseTime \in Nat
           /\ c.entry[m].responseTime <= time
    BY <1>5 DEF Order, CacheValue, Entry
  <1>7. \A l, m \in c.live :
           /\ s[l] = s[m] => l = m
           /\ s[l] <= s[m] => c.entry[l].responseTime <= c.entry[m].responseTime
    BY DEF Order
  <1>8. \A m \in c.live : s[c.tail] <= s[m] /\ s[m] <= s[c.head]
    BY DEF Order
  <1>9. \A m \in c.live \ {c.tail} :
          /\ s[c.next[m]] < s[m]
          /\ \A l \in c.live : s[l] < s[m] => s[l] <= s[c.next[m]]
          /\ c.next[m] \in c.live
    BY DEF Order, Structure, Links
  <1>10. \A m \in c.live \ {c.head} :
           c.prev[m] \in c.live \ {c.tail} /\ c.next[c.prev[m]] = m
    BY DEF Structure, Links
  <1>11. ASSUME d.live = c.live, d.entry = b.entry
         PROVE  /\ \A m \in d.live :
                      s2[m] \in 1..(p + 1) /\ d.entry[m].responseTime <= time
                /\ \A l, m \in d.live :
                      /\ s2[l] = s2[m] => l = m
                      /\ s2[l] <= s2[m] =>
                           d.entry[l].responseTime <= d.entry[m].responseTime
    <2>1. \A m \in c.live :
             d.entry[m].responseTime =
               IF m = n THEN time ELSE c.entry[m].responseTime
      BY <1>4, <1>5, <1>11
    <2>2. QED
      BY <1>3, <1>6, <1>7, <1>11, <2>1
  <1>12. CASE n = c.head
    <2>1. d = b
      BY <1>2, <1>4, <1>12 DEF MoveToHead
    <2>2. \A m \in d.live : s2[d.tail] <= s2[m] /\ s2[m] <= s2[d.head]
      BY <1>1, <1>3, <1>4, <1>5, <1>6, <1>7, <1>8, <1>12, <2>1
    <2>3. \A m \in d.live \ {d.tail} :
             /\ s2[d.next[m]] < s2[m]
             /\ \A l \in d.live : s2[l] < s2[m] => s2[l] <= s2[d.next[m]]
      <3>1. \A m \in c.live \ {c.tail} : c.next[m] # n
        BY <1>6, <1>8, <1>9, <1>12
      <3>2. ASSUME NEW m \in c.live \ {c.tail}
            PROVE  /\ s2[c.next[m]] < s2[m]
                   /\ \A l \in c.live : s2[l] < s2[m] => s2[l] <= s2[c.next[m]]
        <4>1. s2[c.next[m]] = s[c.next[m]] /\ s[c.next[m]] < s[m]
          BY <1>3, <1>9, <3>1
        <4>2. s2[c.next[m]] < s2[m]
          BY <1>3, <1>6, <1>9, <4>1
        <4>3. ASSUME NEW l \in c.live, s2[l] < s2[m]
              PROVE  s2[l] <= s2[c.next[m]]
          <5>1. l # n /\ s2[l] = s[l]
            BY <1>3, <1>6, <4>3
          <5>2. s[l] < s[m]
            BY <1>3, <1>5, <1>6, <1>7, <1>8, <1>12, <4>3, <5>1
          <5>3. QED
            BY <1>9, <4>1, <5>1, <5>2
        <4>4. QED
          BY <4>2, <4>3
      <3>3. QED
        BY <1>4, <2>1, <3>2
    <2>4. QED
      BY <1>4, <1>11, <2>1, <2>2, <2>3 DEF Order, s2, n
  <1>13. CASE n # c.head /\ n # c.tail
    <2>1. /\ c.prev[n] \in c.live \ {c.tail} /\ c.next[c.prev[n]] = n
          /\ c.next[n] \in c.live
      BY <1>1, <1>9, <1>10, <1>13
    <2>2. /\ d.head = n /\ d.tail = c.tail
          /\ d.live = c.live /\ d.entry = b.entry
          /\ \A m \in Nodes : d.next[m] = IF m = n THEN c.head
                                          ELSE IF m = c.prev[n] THEN c.next[n]
                                          ELSE c.next[m]
      BY <1>1, <1>2, <1>4, <1>5, <1>13, <2>1, MoveInnerFields
    <2>3. \A m \in d.live : s2[d.tail] <= s2[m] /\ s2[m] <= s2[d.head]
      BY <1>3, <1>5, <1>6, <1>8, <1>13, <2>2
    <2>4. ASSUME NEW m \in d.live \ {d.tail}
          PROVE  /\ s2[d.next[m]] < s2[m]
                 /\ \A l \in d.live : s2[l] < s2[m] => s2[l] <= s2[d.next[m]]
      <3>1. CASE m = n
        BY <1>1, <1>3, <1>5, <1>6, <1>8, <1>13, <2>2, <3>1
      <3>2. CASE m = c.prev[n] /\ m # n
        <4>1. d.next[m] = c.next[n] /\ s[c.next[n]] < s[n] /\ s[n] < s[m]
          BY <1>1, <1>5, <1>9, <1>13, <2>1, <2>2, <3>2
        <4>2. c.next[n] # n
          BY <1>1, <1>6, <4>1
        <4>3. ASSUME NEW l \in c.live, s2[l] < s2[m]
              PROVE  s2[l] <= s2[c.next[n]]
          <5>1. l # n /\ s[l] < s[m]
            BY <1>3, <1>6, <2>2, <3>2, <4>3
          <5>2. s[l] <= s[n]
            BY <1>9, <2>1, <3>2, <5>1
          <5>3. s[l] < s[n]
            BY <1>1, <1>6, <1>7, <5>1, <5>2
          <5>4. QED
            BY <1>1, <1>3, <1>9, <1>13, <2>1, <4>2, <5>1, <5>3
        <4>4. QED
          BY <1>1, <1>3, <1>6, <2>1, <2>2, <3>2, <4>1, <4>2, <4>3
      <3>3. CASE m # c.prev[n] /\ m # n
        <4>1. d.next[m] = c.next[m]
          BY <1>5, <2>2, <3>3
        <4>2. c.next[m] # n
          <5>1. s[n] < s[c.prev[n]]
            BY <1>9, <2>1
          <5>2. SUFFICES ASSUME c.next[m] = n
                         PROVE  FALSE
            OBVIOUS
          <5>3. s[m] <= s[c.prev[n]] /\ s[c.prev[n]] <= s[m]
            BY <1>6, <1>9, <2>1, <2>2, <5>1, <5>2
          <5>4. QED
            BY <1>6, <1>7, <2>1, <2>2, <3>3, <5>3
        <4>3. QED
          BY <1>3, <1>6, <1>9, <2>2, <3>3, <4>1, <4>2
      <3>4. QED
        BY <3>1, <3>2, <3>3
    <2>5. QED
      BY <1>11, <2>2, <2>3, <2>4 DEF Order, s2, n
  <1>14. CASE n # c.head /\ n = c.tail
    <2>1. c.prev[n] \in c.live \ {c.tail} /\ c.next[c.prev[n]] = n
      BY <1>1, <1>10, <1>14
    <2>2. /\ d.head = n /\ d.tail = c.prev[n]
          /\ d.live = c.live /\ d.entry = b.entry
          /\ \A m \in Nodes : d.next[m] = IF m = n THEN c.head
                                          ELSE IF m = c.prev[n] THEN NULL
                                          ELSE c.next[m]
      BY <1>1, <1>2, <1>4, <1>5, <1>14, <2>1, MoveTailFields
    <2>3. \A m \in c.live \ {n} : s[c.prev[n]] <= s[m]
      <3>1. ASSUME NEW m \in c.live \ {n}, s[m] < s[c.prev[n]]
            PROVE  FALSE
        <4>1. s[m] <= s[n] /\ s[n] <= s[m]
          BY <1>8, <1>9, <1>14, <2>1, <3>1
        <4>2. QED
          BY <1>1, <1>6, <1>7, <3>1, <4>1
      <3>2. QED
        BY <1>6, <2>1, <3>1
    <2>4. \A m \in d.live : s2[d.tail] <= s2[m] /\ s2[m] <= s2[d.head]
      BY <1>1, <1>3, <1>6, <1>14, <2>1, <2>2, <2>3
    <2>5. ASSUME NEW m \in d.live \ {d.tail}
          PROVE  /\ s2[d.next[m]] < s2[m]
                 /\ \A l \in d.live : s2[l] < s2[m] => s2[l] <= s2[d.next[m]]
      <3>1. CASE m = n
        BY <1>1, <1>3, <1>5, <1>6, <1>8, <1>14, <2>2, <3>1
      <3>2. CASE m # n
        <4>1. d.next[m] = c.next[m] /\ m # c.prev[n]
          BY <1>5, <2>2, <2>5, <3>2
        <4>2. c.next[m] # n
          <5>1. s[n] < s[c.prev[n]]
            BY <1>9, <2>1
          <5>2. SUFFICES ASSUME c.next[m] = n
                         PROVE  FALSE
            OBVIOUS
          <5>3. s[m] <= s[c.prev[n]] /\ s[c.prev[n]] <= s[m]
            BY <1>6, <1>9, <1>14, <2>1, <2>2, <3>2, <5>1, <5>2
          <5>4. QED
            BY <1>6, <1>7, <2>1, <2>2, <4>1, <5>3
        <4>3. QED
          BY <1>3, <1>6, <1>9, <1>14, <2>2, <3>2, <4>1, <4>2
      <3>3. QED
        BY <3>1, <3>2
    <2>6. QED
      BY <1>11, <2>2, <2>4, <2>5 DEF Order, s2, n
  <1>15. QED
    BY <1>12, <1>13, <1>14

\* makeRoom leaves room, and the new node goes in front of what is left.
LEMMA PutNewKeeps ==
    ASSUME NEW c \in CacheValue, Structure(c), c.wild = {},
           NEW k \in Keys, ~IsCached(c, k), NEW r \in Response,
           NEW time \in Nat, NEW n \in Nodes \ MakeRoom(c).live,
           NEW s \in [Nodes -> Nat], NEW p \in Nat, Order(c, s, p, time),
           NEW d, d = PutNew(c, k, r, n, time)
    PROVE  /\ d \in CacheValue /\ d.wild = {}
           /\ Structure(d)
           /\ Order(d, [s EXCEPT ![n] = p + 1], p + 1, time)
  <1> DEFINE b == MakeRoom(c)
  <1>1. /\ b \in CacheValue /\ b.wild = {}
        /\ Structure(b) /\ Order(b, s, p, time)
        /\ ~IsFull(b) /\ ~IsCached(b, k)
    <2>1. CASE IsFull(c)
      <3>1. c.live # {}
        <4>1. SUFFICES ASSUME c.live = {}
                       PROVE  FALSE
          OBVIOUS
        <4>2. c.size = 0
          BY <4>1, FS_EmptySet DEF Structure, SizeAgrees
        <4>3. QED
          BY <2>1, <4>2, CapacityAssumption DEF IsFull
      <3>2. c.tail \in c.live
        BY <3>1 DEF Structure, Ends
      <3>3. b = RemoveTail(c)
        BY <2>1 DEF MakeRoom
      <3> HIDE DEF b
      <3>4. Structure(b) /\ b.size < Capacity
        BY <3>1, <3>3, RemoveTailStructure
      <3>5. Order(b, s, p, time)
        BY <3>1, <3>3, RemoveTailOrder
      <3>6. /\ b \in CacheValue /\ b.wild = c.wild
            /\ b.cacheMap = [c.cacheMap EXCEPT ![c.cacheKey[c.tail]] = NULL]
        BY <3>2, <3>3, RemoveTailFields
      <3>7. ~IsFull(b)
        BY <3>4, <3>6, CapacityAssumption DEF IsFull, CacheValue
      <3>8. ~IsCached(b, k)
        BY <3>6 DEF IsCached, CacheValue
      <3>9. QED
        BY <3>4, <3>5, <3>6, <3>7, <3>8
    <2>2. CASE ~IsFull(c)
      BY <2>2 DEF MakeRoom
    <2>3. QED
      BY <2>1, <2>2
  <1>2. d = StoreNode(b, k, r, n, time) /\ n \in Nodes \ b.live
    BY DEF PutNew
  <1> HIDE DEF b
  <1>3. Ends(b)
    BY <1>1 DEF Structure
  <1>4. d \in CacheValue /\ d.wild = {}
    BY <1>1, <1>2, <1>3, PutNewFields
  <1>5. Structure(d)
    BY <1>1, <1>2, PutNewStructure
  <1>6. Order(d, [s EXCEPT ![n] = p + 1], p + 1, time)
    BY <1>1, <1>2, PutNewOrder
  <1>7. QED
    BY <1>4, <1>5, <1>6

-----------------------------------------------------------------------------
(* What put makes of the entries.                                           *)

\* Moving a node moves no field but the links.
LEMMA MoveToHeadContents ==
    ASSUME NEW c \in CacheValue, Structure(c), NEW n \in c.live,
           NEW d, d = MoveToHead(c, n)
    PROVE  /\ d.live = c.live /\ d.cacheMap = c.cacheMap
           /\ d.cacheKey = c.cacheKey /\ d.entry = c.entry
  <1>1. /\ c.head \in c.live
        /\ n # c.head => c.prev[n] \in c.live
        /\ n # c.tail => c.next[n] \in c.live
    BY DEF Structure, Ends, Links
  <1>2. CASE n = c.head
    BY <1>2 DEF MoveToHead
  <1>3. CASE n # c.head /\ n # c.tail
    BY <1>1, <1>3, MoveInnerFields
  <1>4. CASE n # c.head /\ n = c.tail
    BY <1>1, <1>4, MoveTailFields
  <1>5. QED
    BY <1>2, <1>3, <1>4

\* put of a cached key changes the entry of that key alone.
LEMMA PutCachedContents ==
    ASSUME NEW c \in CacheValue, Structure(c), NEW k \in Keys, IsCached(c, k),
           NEW r \in Response, NEW time \in Nat,
           NEW d, d = PutCached(c, k, r, time)
    PROVE  /\ d.live = c.live /\ d.cacheMap = c.cacheMap
           /\ d.cacheKey = c.cacheKey
           /\ c.cacheMap[k] \in c.live
           /\ c.cacheKey[c.cacheMap[k]] = k
           /\ d.entry[c.cacheMap[k]] = Updated(c.entry[c.cacheMap[k]], r, time)
           /\ \A m \in Nodes \ {c.cacheMap[k]} : d.entry[m] = c.entry[m]
  <1> DEFINE n == c.cacheMap[k]
             b == [c EXCEPT !.entry[n] = Updated(@, r, time)]
  <1>1. n \in c.live /\ n \in Nodes /\ c.cacheKey[n] = k
    BY DEF Structure, MapAgrees, CacheValue
  <1>2. d = MoveToHead(b, n)
    BY DEF PutCached
  <1>3. b.entry[n] = Updated(c.entry[n], r, time)
    <2>1. n \in DOMAIN c.entry
      BY <1>1 DEF CacheValue
    <2>2. b = [c EXCEPT !.entry = [c.entry EXCEPT ![n] = Updated(c.entry[n], r, time)]]
      BY DEF CacheValue
    <2> HIDE DEF n, b
    <2>3. b.entry = [c.entry EXCEPT ![n] = Updated(c.entry[n], r, time)]
      BY <2>2 DEF CacheValue
    <2>4. QED
      BY <2>1, <2>3
  <1> HIDE DEF n
  <1>4. /\ b \in CacheValue
        /\ b.head = c.head /\ b.tail = c.tail
        /\ b.next = c.next /\ b.prev = c.prev
        /\ b.live = c.live /\ b.size = c.size /\ b.wild = c.wild
        /\ b.cacheMap = c.cacheMap /\ b.cacheKey = c.cacheKey
        /\ \A m \in Nodes \ {n} : b.entry[m] = c.entry[m]
    BY <1>1, UpdatedFields
  <1> HIDE DEF b
  <1>5. Structure(b)
    BY <1>4 DEF Structure, Ends, Links, MapAgrees, SizeAgrees, IsCached
  <1>6. n \in b.live
    BY <1>1, <1>4
  <1>7. /\ d.live = b.live /\ d.cacheMap = b.cacheMap
        /\ d.cacheKey = b.cacheKey /\ d.entry = b.entry
    BY <1>2, <1>4, <1>5, <1>6, MoveToHeadContents
  <1>8. QED
    BY <1>1, <1>3, <1>4, <1>7 DEF n

\* put of a new key adds one entry and at most takes one away.
LEMMA PutNewContents ==
    ASSUME NEW c \in CacheValue, Structure(c), c.wild = {},
           NEW k \in Keys, NEW r \in Response, NEW time \in Nat,
           NEW n \in Nodes \ MakeRoom(c).live,
           NEW s \in [Nodes -> Nat], NEW p \in Nat, Order(c, s, p, time),
           NEW d, d = PutNew(c, k, r, n, time), d \in CacheValue
    PROVE  /\ d.cacheKey[n] = k /\ d.entry[n] = NewEntry(r, time)
           /\ d.cacheMap[k] = n
           /\ \A m \in d.live \ {n} :
                 /\ m \in c.live
                 /\ d.cacheKey[m] = c.cacheKey[m] /\ d.entry[m] = c.entry[m]
           /\ ~IsFull(c) => \A j \in Keys \ {k} : d.cacheMap[j] = c.cacheMap[j]
           /\ IsFull(c) => /\ c.tail \in c.live
                           /\ \A j \in Keys \ {k} :
                                 d.cacheMap[j] = IF j = c.cacheKey[c.tail] THEN NULL
                                                 ELSE c.cacheMap[j]
  <1> DEFINE b == MakeRoom(c)
  <1>1. /\ b \in CacheValue /\ b.wild = {} /\ Ends(b)
        /\ b.live \subseteq c.live
        /\ b.cacheKey = c.cacheKey /\ b.entry = c.entry
        /\ ~IsFull(c) => b.cacheMap = c.cacheMap
        /\ IsFull(c) => /\ c.tail \in c.live
                        /\ \A j \in Keys : b.cacheMap[j] = IF j = c.cacheKey[c.tail]
                                                         THEN NULL ELSE c.cacheMap[j]
    <2>1. CASE IsFull(c)
      <3>1. c.live # {}
        <4>1. SUFFICES ASSUME c.live = {}
                       PROVE  FALSE
          OBVIOUS
        <4>2. c.size = 0
          BY <4>1, FS_EmptySet DEF Structure, SizeAgrees
        <4>3. QED
          BY <2>1, <4>2, CapacityAssumption DEF IsFull
      <3>2. c.tail \in c.live
        BY <3>1 DEF Structure, Ends
      <3>3. b = RemoveTail(c)
        BY <2>1 DEF MakeRoom
      <3> HIDE DEF b
      <3>4. /\ b \in CacheValue /\ b.wild = c.wild
            /\ b.live = c.live \ {c.tail}
            /\ b.cacheKey = c.cacheKey /\ b.entry = c.entry
            /\ b.cacheMap = [c.cacheMap EXCEPT ![c.cacheKey[c.tail]] = NULL]
        BY <3>2, <3>3, RemoveTailFields
      <3>5. Structure(b)
        BY <3>1, <3>3, RemoveTailStructure
      <3>6. \A j \in Keys : b.cacheMap[j] = IF j = c.cacheKey[c.tail]
                                             THEN NULL ELSE c.cacheMap[j]
        BY <3>4 DEF CacheValue
      <3>7. QED
        BY <2>1, <3>2, <3>4, <3>5, <3>6 DEF Structure
    <2>2. CASE ~IsFull(c)
      BY <2>2 DEF MakeRoom, Structure
    <2>3. QED
      BY <2>1, <2>2
  <1>2. d = StoreNode(b, k, r, n, time) /\ n \in Nodes \ b.live
    BY DEF PutNew
  <1> HIDE DEF b
  <1>3. /\ d.live = b.live \union {n}
        /\ \A j \in Keys : d.cacheMap[j] = IF j = k THEN n ELSE b.cacheMap[j]
        /\ \A m \in Nodes :
              /\ d.cacheKey[m] = IF m = n THEN k ELSE b.cacheKey[m]
              /\ d.entry[m] = IF m = n THEN NewEntry(r, time) ELSE b.entry[m]
    BY <1>1, <1>2, PutNewFields
  <1>4. d.live \subseteq Nodes
    BY DEF CacheValue
  <1>5. QED
    BY <1>1, <1>3, <1>4
=============================================================================
