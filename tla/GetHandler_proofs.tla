-------------------------- MODULE GetHandler_proofs --------------------------
(***************************************************************************)
(* Proofs about module GetHandler, for any number of threads, targets,      *)
(* addresses and versions, any capacity and any mix of requests, until a    *)
(* put overlaps another call of the cache, where the model ends.  The       *)
(* inductive invariant says of the cache that it is well formed, its list   *)
(* ordered by some history of puts, and of every thread what it may have    *)
(* sent at the line it is at and whose body it holds.                       *)
(***************************************************************************)
EXTENDS GetHandler, CacheOps_proofs

Gots == {"got", "got_miss", "got_bypass"}
Passing == {"chunks", "chunks_miss", "chunks_bypass"}

\* Some history of puts explains the order of the list; Cache keeps it in
\* variables, here it only has to exist.
Ordered(c) == \E s \in [Nodes -> Nat], p \in Nat : Order(c, s, p, 0)

OwnEntries ==
    \A n \in cache.live : cache.entry[n].body \in Own(cache.cacheKey[n])

CacheInv ==
    /\ Running => Structure(cache) /\ Ordered(cache)
    /\ NoForbiddenStored
    /\ OwnEntries

ThreadInv(t) ==
    /\ pc[t] = "idle" => got[t].body = NoBody /\ copy[t] = NoBody
    /\ got[t].body \in Own(key(t)) /\ copy[t] \in Own(key(t))
    /\ \A i \in 1..Len(sent[t]) : sent[t][i].body \in Own(key(t)) \union {Torn}
    /\ pc[t] \notin Gots \union {"closing"} => sent[t] = <<>>
    /\ pc[t] \in Passing => got[t].chunked
    /\ pc[t] \in Gots => Len(sent[t]) <= IF got[t].chunked THEN 1 ELSE 0
    /\ Len(sent[t]) <= IF got[t].chunked /\ got[t].status = "400" THEN 2 ELSE 1

IInv == TypeOK /\ CacheInv /\ \A t \in Threads : ThreadInv(t)

-----------------------------------------------------------------------------
(* What comes from the web server, and what is kept of it.                  *)

LEMMA NoRequestTyped ==
    NoRequest \in HttpRequest /\ NoRequest.key \in Keys
  BY DataAssumption, TagAssumption DEF NoRequest, HttpRequest

LEMMA FormedTyped ==
    ASSUME NEW status \in {"400", "other"}
    PROVE  Formed(status) \in HttpResponse /\ Formed(status).body = NoBody
           /\ Formed(status).chunked = FALSE
  BY DataAssumption, TagAssumption DEF Formed, HttpResponse, AllBodies

\* The validators that may come with version v.
Given(v) == {NoTag, v}

LEMMA TaggedSays ==
    ASSUME NEW b \in HttpResponse, NEW v \in Versions, NEW tags, NEW x \in Tagged(b, v, tags)
    PROVE  /\ x \in HttpResponse
           /\ x.status = b.status /\ x.body = b.body
           /\ x.ETag \in Given(v) /\ x.LastModified \in Given(v)
  <1>1. PICK h \in [ETag : tags, LastModified : tags, head : Heads] :
           x = [b EXCEPT !.ETag = IfTag(h.ETag, v),
                         !.LastModified = IfTag(h.LastModified, v), !.head = h.head]
    BY Zenon DEF Tagged
  <1>2. IfTag(h.ETag, v) \in Given(v) /\ IfTag(h.LastModified, v) \in Given(v)
    BY DEF IfTag, Given
  <1>3. x = [status |-> b.status, chunked |-> b.chunked, ETag |-> IfTag(h.ETag, v),
             LastModified |-> IfTag(h.LastModified, v), head |-> h.head, body |-> b.body]
    BY <1>1 DEF HttpResponse
  <1>4. Given(v) \subseteq Tags
    BY DataAssumption, TagAssumption DEF Given
  <1>5. QED
    BY <1>2, <1>3, <1>4 DEF HttpResponse

LEMMA BodiedTyped ==
    ASSUME NEW k \in Keys, NEW v \in Versions
    PROVE  Bodied(k, v) \subseteq AllBodies /\ Content(k, v) \in Bodied(k, v)
           /\ Part(k, v) \in Bodied(k, v)
  BY DEF AllBodies, Bodied

\* Whatever the origin answers is a response: a full one with the body of the
\* current version, or what recv left of it, a 304 only to a request that
\* names the current version, and either with validators of the current
\* version or none.
LEMMA AnswersSay ==
    ASSUME NEW r \in HttpRequest, NEW v \in Versions, NEW a \in Answers(r, v)
    PROVE  /\ a \in HttpResponse /\ a.body \in Bodied(r.key, v) \union {NoBody}
           /\ a.status = "200" => a.body \in Bodied(r.key, v)
           /\ a.status = "304" => Validates(r, v)
           /\ a.status \in {"200", "304"} =>
                 a.ETag \in Given(v) /\ a.LastModified \in Given(v)
  <1> DEFINE full == [status |-> "200", chunked |-> FALSE, ETag |-> NoTag,
                      LastModified |-> NoTag, head |-> CHOOSE h \in Heads : TRUE,
                      body |-> Content(r.key, v)]
             notModified == [full EXCEPT !.status = "304", !.body = NoBody]
             part == [full EXCEPT !.body = Part(r.key, v)]
  <1>1. /\ Content(r.key, v) \in Bodied(r.key, v) /\ Part(r.key, v) \in Bodied(r.key, v)
        /\ Bodied(r.key, v) \subseteq AllBodies /\ NoBody \in AllBodies
        /\ (CHOOSE h \in Heads : TRUE) \in Heads
        /\ NoTag \in Tags
    BY DataAssumption, TagAssumption, BodiedTyped DEF AllBodies, HttpRequest
  <1>2. /\ notModified \in HttpResponse
        /\ notModified.status = "304" /\ notModified.body = NoBody
    BY <1>1 DEF HttpResponse
  <1>3. ASSUME NEW c \in ChunksSent
        PROVE  /\ [full EXCEPT !.chunked = c] \in HttpResponse
               /\ [full EXCEPT !.chunked = c].body = Content(r.key, v)
               /\ [full EXCEPT !.chunked = c].status = "200"
    BY <1>1, HandlerAssumption DEF HttpResponse
  <1>4. /\ part \in HttpResponse /\ part.body = Part(r.key, v) /\ part.status = "200"
    BY <1>1 DEF HttpResponse
  <1>5. ASSUME NEW o \in [status : OtherStatus, chunked : ChunksSent],
               a = [full EXCEPT !.status = o.status, !.chunked = o.chunked, !.body = NoBody]
        PROVE  a \in HttpResponse /\ a.body = NoBody /\ a.status \notin {"200", "304"}
    BY <1>1, <1>5, HandlerAssumption DEF HttpResponse
  <1>6. \/ Validates(r, v) /\ a \in Tagged(notModified, v, TagsSeen)
        \/ a \in UNION {Tagged([full EXCEPT !.chunked = c], v, TagsSent) : c \in ChunksSent}
        \/ a \in Tagged(part, v, TagsSeen)
        \/ a \in {[full EXCEPT !.status = o.status, !.chunked = o.chunked, !.body = NoBody] :
                     o \in [status : OtherStatus, chunked : ChunksSent]}
    BY Zenon DEF Answers
  <1>7. \/ Validates(r, v) /\ a \in Tagged(notModified, v, TagsSeen)
        \/ \E c \in ChunksSent : a \in Tagged([full EXCEPT !.chunked = c], v, TagsSent)
        \/ a \in Tagged(part, v, TagsSeen)
        \/ \E o \in [status : OtherStatus, chunked : ChunksSent] :
              a = [full EXCEPT !.status = o.status, !.chunked = o.chunked, !.body = NoBody]
    BY <1>6, Zenon
  <1> HIDE DEF full, notModified, part
  <1>8. CASE Validates(r, v) /\ a \in Tagged(notModified, v, TagsSeen)
    <2>1. /\ a \in HttpResponse /\ a.status = "304" /\ a.body = NoBody
          /\ a.ETag \in Given(v) /\ a.LastModified \in Given(v)
      BY <1>2, <1>8, TaggedSays
    <2>2. QED
      BY <1>8, <2>1
  <1>9. ASSUME NEW f \in HttpResponse, f.status = "200", f.body \in Bodied(r.key, v),
               NEW tags, a \in Tagged(f, v, tags)
        PROVE  /\ a \in HttpResponse /\ a.status = "200" /\ a.body \in Bodied(r.key, v)
               /\ a.ETag \in Given(v) /\ a.LastModified \in Given(v)
    <2>1. /\ a \in HttpResponse /\ a.status = f.status /\ a.body = f.body
          /\ a.ETag \in Given(v) /\ a.LastModified \in Given(v)
      BY <1>9, TaggedSays
    <2>2. QED
      BY <1>9, <2>1
  <1>10. ASSUME NEW c \in ChunksSent, a \in Tagged([full EXCEPT !.chunked = c], v, TagsSent)
        PROVE  /\ a \in HttpResponse /\ a.status = "200" /\ a.body \in Bodied(r.key, v)
               /\ a.ETag \in Given(v) /\ a.LastModified \in Given(v)
    <2> DEFINE f == [full EXCEPT !.chunked = c]
    <2>1. /\ f \in HttpResponse /\ f.status = "200" /\ f.body \in Bodied(r.key, v)
          /\ a \in Tagged(f, v, TagsSent)
      BY <1>1, <1>3, <1>10
    <2> HIDE DEF f
    <2>2. QED
      BY <1>9, <2>1
  <1>11. CASE a \in Tagged(part, v, TagsSeen)
    BY <1>1, <1>4, <1>9, <1>11
  <1>12. QED
    BY <1>5, <1>7, <1>8, <1>10, <1>11

\* The fields put uses of a response, as a value of type Response.
Kept(r) ==
    [status |-> r.status, ETag |-> r.ETag, LastModified |-> r.LastModified,
     head |-> r.head, body |-> r.body]

LEMMA PutsKept ==
    ASSUME NEW r, NEW c, NEW k, NEW n
    PROVE  /\ PutCached(c, k, r, 0) = PutCached(c, k, Kept(r), 0)
           /\ PutNew(c, k, r, n, 0) = PutNew(c, k, Kept(r), n, 0)
  BY DEF PutCached, PutNew, StoreNode, NewCacheNode, NewEntry, Updated, Kept

LEMMA KeptTyped ==
    ASSUME NEW r \in HttpResponse, r.status \in Status
    PROVE  Kept(r) \in Response
  BY DataAssumption DEF HttpResponse, Kept, Response

\* Versions only grow.
LEMMA OwnGrows ==
    ASSUME version \in [Keys -> Versions], version' \in [Keys -> Versions],
           \A k \in Keys : version[k] <= version'[k],
           NEW k \in Keys
    PROVE  Own(k) \subseteq Own(k)'
  <1>1. version[k] \in Int /\ version'[k] \in Int /\ version[k] <= version'[k]
    BY DataAssumption DEF Versions
  <1>2. 1..version[k] \subseteq 1..version'[k]
    BY <1>1
  <1>3. QED
    BY <1>2 DEF Own

\* A body of a target stays one while the versions do.
LEMMA OwnStays ==
    ASSUME UNCHANGED version
    PROVE  \A k \in Keys : Own(k) \subseteq Own(k)'
  BY DEF Own

LEMMA OwnBodies ==
    ASSUME TypeOK, NEW t \in Threads
    PROVE  key(t) \in Keys /\ Own(key(t)) \subseteq AllBodies
  <1>1. key(t) \in Keys /\ version[key(t)] \in Versions
    BY DEF TypeOK, HttpRequest, key
  <1>2. 1..version[key(t)] \subseteq Versions
    BY <1>1, DataAssumption DEF Versions
  <1>3. QED
    BY <1>1, <1>2 DEF Own, AllBodies

-----------------------------------------------------------------------------
(* What a step leaves alone.                                                *)

\* A thread is not disturbed by the steps of others.
LEMMA OthersStay ==
    ASSUME TypeOK, NEW u \in Threads, ThreadInv(u),
           \A k \in Keys : Own(k) \subseteq Own(k)',
           pc'[u] = pc[u], request'[u].key = request[u].key,
           got'[u] = got[u], copy'[u] = copy[u], sent'[u] = sent[u]
    PROVE  ThreadInv(u)'
  <1>1. key(u) \in Keys /\ key(u)' = key(u)
    BY DEF TypeOK, HttpRequest, key
  <1>2. Own(key(u)) \subseteq Own(key(u))'
    <2>1. Own(key(u)) \subseteq Own(request[u].key)'
      BY <1>1 DEF key
    <2>2. QED
      BY <1>1, <2>1 DEF key, Own
  <1>3. QED
    BY <1>2 DEF ThreadInv

LEMMA CacheStays ==
    ASSUME TypeOK, CacheInv, UNCHANGED <<cache, raced>>,
           \A k \in Keys : Own(k) \subseteq Own(k)'
    PROVE  CacheInv'
  <1>1. \A n \in cache.live : cache.cacheKey[n] \in Keys
    BY DEF TypeOK, CacheValue
  <1>2. OwnEntries'
    <2> SUFFICES ASSUME NEW n \in cache.live
                 PROVE  cache.entry[n].body \in Own(cache.cacheKey[n])'
      BY DEF OwnEntries
    <2>1. cache.entry[n].body \in Own(cache.cacheKey[n])
      BY DEF CacheInv, OwnEntries
    <2>2. Own(cache.cacheKey[n]) \subseteq Own(cache.cacheKey[n])'
      BY <1>1 DEF Own
    <2>3. QED
      BY <2>1, <2>2
  <1>3. QED
    BY <1>2 DEF CacheInv, Running, NoForbiddenStored

\* A step of one thread that leaves the cache: all that is to show is what it
\* makes of the thread itself.
LEMMA OneThread ==
    ASSUME IInv, NEW t \in Threads, UNCHANGED <<cache, version, raced>>,
           TypeOK', ThreadInv(t)',
           \A u \in Threads \ {t} :
              /\ pc'[u] = pc[u] /\ request'[u].key = request[u].key
              /\ got'[u] = got[u] /\ copy'[u] = copy[u] /\ sent'[u] = sent[u]
    PROVE  IInv'
  <1>1. \A k \in Keys : Own(k) \subseteq Own(k)'
    BY OwnStays
  <1>2. TypeOK /\ CacheInv /\ \A u \in Threads : ThreadInv(u)
    BY DEF IInv
  <1>3. CacheInv'
    BY <1>1, <1>2, CacheStays
  <1>4. ASSUME NEW u \in Threads
        PROVE  ThreadInv(u)'
    <2>1. CASE u = t
      BY <2>1
    <2>2. CASE u # t
      BY <1>1, <1>2, <2>2, OthersStay
    <2>3. QED
      BY <2>1, <2>2
  <1>5. QED
    BY <1>3, <1>4 DEF IInv

\* A step of one thread that goes to a line and changes at most what it asks
\* and what it has read of the node.
LEMMA Quiet ==
    ASSUME IInv, NEW t \in Threads, NEW line \in Lines \ (Gots \union Passing \union {"idle"}),
           Goto(t, line), line = "closing" \/ sent[t] = <<>>,
           UNCHANGED <<cache, version, got, copy, sent, asOf, raced>>,
           held' \in [Threads -> [ETag : Tags, LastModified : Tags]],
           request' \in [Threads -> HttpRequest],
           \A u \in Threads : request'[u].key = request[u].key
    PROVE  IInv'
  <1>1. TypeOK /\ ThreadInv(t)
    BY DEF IInv
  <1>2. pc' = [pc EXCEPT ![t] = line] /\ pc'[t] = line
    BY <1>1 DEF Goto, TypeOK
  <1>3. TypeOK'
    BY <1>1, <1>2 DEF TypeOK
  <1>4. ThreadInv(t)'
    <2>1. key(t)' = key(t) /\ Own(key(t))' = Own(key(t))
      BY DEF key, Own
    <2>2. pc'[t] \notin Gots \union Passing \union {"idle"}
      BY <1>2
    <2>3. QED
      BY <1>1, <1>2, <2>1, <2>2 DEF ThreadInv
  <1>5. \A u \in Threads \ {t} : pc'[u] = pc[u]
    BY <1>1, <1>2 DEF TypeOK
  <1>6. QED
    BY <1>3, <1>4, <1>5, OneThread

\* A step of one thread that answers, or fails to: the answer is typed, of the
\* target, and not one too many.
LEMMA Responds ==
    ASSUME IInv, NEW t \in Threads, NEW status, NEW body,
           Respond(t, status, body),
           [status |-> status, body |-> body] \in Answer,
           body \in Own(key(t)) \union {Torn},
           Len(sent[t]) = 0 \/ (Len(sent[t]) = 1 /\ got[t].chunked /\ got[t].status = "400"),
           UNCHANGED <<cache, version, request, held, got, copy, asOf, raced>>
    PROVE  IInv'
  <1> DEFINE a == [status |-> status, body |-> body]
  <1>1. /\ TypeOK /\ ThreadInv(t) /\ sent[t] \in Seq(Answer)
        /\ sent \in [Threads -> Seq(Answer)]
    BY DEF IInv, TypeOK
  <1>2. pc' = [pc EXCEPT ![t] = "closing"] /\ pc'[t] = "closing"
    BY <1>1 DEF Respond, Goto, TypeOK
  <1>3. a.body = body
    OBVIOUS
  <1> HIDE DEF a
  <1>4. key(t)' = key(t) /\ Own(key(t))' = Own(key(t))
    BY DEF key, Own
  <1>5. \A u \in Threads \ {t} : pc'[u] = pc[u]
    BY <1>1, <1>2 DEF TypeOK
  <1>6. CASE sent' = [sent EXCEPT ![t] = Append(@, a)]
    <2>1. /\ sent' \in [Threads -> Seq(Answer)]
          /\ sent'[t] = Append(sent[t], a)
          /\ \A u \in Threads \ {t} : sent'[u] = sent[u]
      <3>1. Append(sent[t], a) \in Seq(Answer)
        BY <1>1 DEF a
      <3>2. QED
        BY <1>1, <1>6, <3>1
    <2>2. /\ Len(sent'[t]) = Len(sent[t]) + 1
          /\ \A i \in 1..Len(sent[t]) : sent'[t][i] = sent[t][i]
          /\ sent'[t][Len(sent[t]) + 1] = a
          /\ Len(sent[t]) \in Nat
      BY <1>1, <2>1 DEF a
    <2>3. TypeOK'
      BY <1>1, <1>2, <2>1 DEF TypeOK, Lines
    <2>4. \A i \in 1..Len(sent'[t]) : sent'[t][i].body \in Own(key(t)) \union {Torn}
      <3>1. ASSUME NEW i \in 1..Len(sent'[t])
            PROVE  sent'[t][i].body \in Own(key(t)) \union {Torn}
        <4>1. CASE i \in 1..Len(sent[t])
          BY <1>1, <2>2, <4>1 DEF ThreadInv
        <4>2. CASE i = Len(sent[t]) + 1
          BY <1>3, <2>2, <4>2
        <4>3. QED
          BY <2>2, <4>1, <4>2
      <3>2. QED
        BY <3>1
    <2>5. ThreadInv(t)'
      <3>1. Len(sent'[t]) <= IF got'[t].chunked /\ got'[t].status = "400" THEN 2 ELSE 1
        <4>1. CASE Len(sent[t]) = 0
          BY <2>2, <4>1
        <4>2. CASE Len(sent[t]) = 1 /\ got[t].chunked /\ got[t].status = "400"
          <5>1. Len(sent'[t]) = 2
            BY <2>2, <4>2
          <5>2. got'[t].chunked /\ got'[t].status = "400"
            BY <4>2
          <5>3. QED
            BY <5>1, <5>2
        <4>3. QED
          BY <4>1, <4>2
      <3>2. got'[t].body \in Own(key(t))' /\ copy'[t] \in Own(key(t))'
        BY <1>1, <1>4 DEF ThreadInv
      <3>3. QED
        BY <1>2, <1>4, <2>4, <3>1, <3>2 DEF ThreadInv, Gots, Passing
    <2>6. QED
      BY <1>5, <2>1, <2>3, <2>5, OneThread
  <1>7. CASE UNCHANGED sent
    <2>1. TypeOK'
      BY <1>1, <1>2, <1>7 DEF TypeOK, Lines
    <2>2. ThreadInv(t)'
      BY <1>1, <1>2, <1>4, <1>7 DEF ThreadInv, Gots, Passing
    <2>3. QED
      BY <1>5, <1>7, <2>1, <2>2, OneThread
  <1>8. QED
    BY <1>6, <1>7 DEF Respond, a

\* The node a thread finds under its key is live and of its target.
LEMMA Found ==
    ASSUME IInv, NEW t \in Threads, NEW line, Finds(t, line)
    PROVE  /\ Node(t).body \in Own(key(t)) /\ Node(t) \in Entry
           /\ pc[t] = line
  <1>1. /\ cache \in CacheValue /\ key(t) \in Keys /\ Structure(cache)
        /\ IsCached(cache, key(t)) /\ OwnEntries /\ pc[t] = line
    BY DEF IInv, TypeOK, CacheInv, Finds, At, HttpRequest, key
  <1>2. /\ cache.cacheMap[key(t)] \in cache.live
        /\ cache.cacheMap[key(t)] \in Nodes
        /\ cache.cacheKey[cache.cacheMap[key(t)]] = key(t)
    BY <1>1 DEF Structure, MapAgrees, CacheValue
  <1>3. QED
    BY <1>1, <1>2 DEF Node, OwnEntries, CacheValue

\* At the lines before a response is there nothing has been sent.
LEMMA NothingSent ==
    ASSUME IInv, NEW t \in Threads, pc[t] \notin Gots \union {"closing"}
    PROVE  sent[t] = <<>> /\ Len(sent[t]) = 0
  BY DEF IInv, ThreadInv

-----------------------------------------------------------------------------
(* The steps of a thread.                                                   *)

\* The steps that look at the cache and go on.
LEMMA ReadingSteps ==
    ASSUME IInv, NEW t \in Threads,
           \/ IsCachedStep(t) \/ IsFresh(t) \/ ReadETag(t) \/ ReadLastModified(t)
    PROVE  IInv'
  <1>1. TypeOK
    BY DEF IInv
  <1>2. CASE IsCachedStep(t)
    <2>1. pc[t] \notin Gots \union {"closing"}
      BY <1>2 DEF IsCachedStep, At, Gots
    <2>2. \E line \in {"c_isFresh", "fetch_miss", "n_etag", "fetch"} : Goto(t, line)
      BY <1>2 DEF IsCachedStep
    <2>3. UNCHANGED <<cache, version, request, held, got, copy, sent, asOf, raced>>
      BY <1>2 DEF IsCachedStep
    <2>4. QED
      BY <1>1, <2>1, <2>2, <2>3, NothingSent, Quiet DEF TypeOK, Lines, Gots, Passing
  <1>3. CASE IsFresh(t)
    <2>1. pc[t] \notin Gots \union {"closing"}
      BY <1>3 DEF IsFresh, Finds, At, Gots
    <2>2. \E line \in {"c_etag", "c_expired", "get", "n_expired"} : Goto(t, line)
      BY <1>3 DEF IsFresh
    <2>3. UNCHANGED <<cache, version, request, held, got, copy, sent, asOf, raced>>
      BY <1>3 DEF IsFresh
    <2>4. QED
      BY <1>1, <2>1, <2>2, <2>3, NothingSent, Quiet DEF TypeOK, Lines, Gots, Passing
  <1>4. CASE ReadETag(t)
    <2>1. Node(t) \in Entry /\ pc[t] \notin Gots \union {"closing"}
      BY <1>4, Found DEF ReadETag, Finds, At, Gots
    <2>2. \E line \in {"c_lm", "n_lm"} : Goto(t, line)
      BY <1>4 DEF ReadETag
    <2>3. /\ held' = [held EXCEPT ![t].ETag = Node(t).ETag]
          /\ UNCHANGED <<cache, version, request, got, copy, sent, asOf, raced>>
      BY <1>4 DEF ReadETag
    <2>4. held' \in [Threads -> [ETag : Tags, LastModified : Tags]]
      BY <1>1, <2>1, <2>3 DEF TypeOK, Entry
    <2>5. QED
      BY <1>1, <2>1, <2>2, <2>3, <2>4, NothingSent, Quiet DEF TypeOK, Lines, Gots, Passing
  <1>5. CASE ReadLastModified(t)
    <2>1. Node(t) \in Entry /\ pc[t] \notin Gots \union {"closing"}
      BY <1>5, Found DEF ReadLastModified, Finds, At, Gots
    <2>2. \E line \in {"c_head", "c_get", "n_revalid"} : Goto(t, line)
      BY <1>5 DEF ReadLastModified
    <2>3. /\ held' = [held EXCEPT ![t].LastModified = Node(t).LastModified]
          /\ UNCHANGED <<cache, version, request, got, copy, sent, asOf, raced>>
      BY <1>5 DEF ReadLastModified
    <2>4. held' \in [Threads -> [ETag : Tags, LastModified : Tags]]
      BY <1>1, <2>1, <2>3 DEF TypeOK, Entry
    <2>5. QED
      BY <1>1, <2>1, <2>2, <2>3, <2>4, NothingSent, Quiet DEF TypeOK, Lines, Gots, Passing
  <1>6. QED
    BY <1>2, <1>3, <1>4, <1>5

\* The steps that rewrite the request with what was read of the node.
LEMMA RewritingSteps ==
    ASSUME IInv, NEW t \in Threads, CheckRevalid(t) \/ Expired(t)
    PROVE  IInv'
  <1>1. /\ request \in [Threads -> HttpRequest]
        /\ held \in [Threads -> [ETag : Tags, LastModified : Tags]]
    BY DEF IInv, TypeOK
  <1>2. pc[t] \notin Gots \union {"closing"}
    BY DEF CheckRevalid, Expired, Finds, At, Gots
  <1>3. \E line \in {"fetch", "n_isFresh"} : Goto(t, line)
    BY DEF CheckRevalid, Expired
  <1>4. UNCHANGED <<cache, version, held, got, copy, sent, asOf, raced>>
    BY DEF CheckRevalid, Expired
  <1>5. BuildConRequest(t) \/ UNCHANGED request
    BY DEF CheckRevalid, Expired
  <1>6. /\ request' \in [Threads -> HttpRequest]
        /\ \A u \in Threads : request'[u].key = request[u].key
    <2>1. CASE BuildConRequest(t)
      <3> DEFINE q == [request[t] EXCEPT !.inm = held[t].ETag,
                                         !.ims = held[t].LastModified]
      <3>1. request' = [request EXCEPT ![t] = q]
        BY <1>1, <2>1 DEF BuildConRequest
      <3>2. q \in HttpRequest /\ q.key = request[t].key
        BY <1>1 DEF HttpRequest
      <3> HIDE DEF q
      <3>3. QED
        BY <1>1, <3>1, <3>2
    <2>2. QED
      BY <1>1, <1>5, <2>1
  <1>7. QED
    BY <1>1, <1>2, <1>3, <1>4, <1>6, NothingSent, Quiet DEF Lines, Gots, Passing

\* The steps that end in an answer.
LEMMA AnsweringSteps ==
    ASSUME IInv, NEW t \in Threads,
           ReplyNotModified(t) \/ GetSizeAndReply(t) \/ Relay(t) \/ GetAndReply(t)
    PROVE  IInv'
  <1>1. /\ TypeOK /\ ThreadInv(t) /\ got[t] \in HttpResponse /\ copy[t] \in AllBodies
        /\ sent[t] \in Seq(Answer)
    BY DEF IInv, TypeOK
  <1>2. NoBody \in Own(key(t)) /\ NoBody \in AllBodies
    BY DEF Own, AllBodies
  <1>3. \A status \in {"200", "304", "400", "other"}, body \in AllBodies \union {Torn} :
           [status |-> status, body |-> body] \in Answer
    <2>1. ASSUME NEW status \in {"200", "304", "400", "other"},
                 NEW body \in AllBodies \union {Torn}
          PROVE  [status |-> status, body |-> body] \in Answer
      BY DEF Answer
    <2>2. QED
      BY <2>1
  <1>4. CASE ReplyNotModified(t)
    <2>1. pc[t] \notin Gots \union {"closing"}
      BY <1>4 DEF ReplyNotModified, Finds, At, Gots
    <2>2. Len(sent[t]) = 0
      BY <2>1, NothingSent
    <2>3. /\ Respond(t, "304", NoBody)
          /\ UNCHANGED <<cache, version, request, held, got, copy, asOf, raced>>
      BY <1>4 DEF ReplyNotModified
    <2>4. QED
      BY <1>2, <1>3, <2>2, <2>3, Responds
  <1>5. CASE GetSizeAndReply(t)
    <2>1. pc[t] \notin Gots \union {"closing"}
      BY <1>5 DEF GetSizeAndReply, Finds, At, Gots
    <2>2. Len(sent[t]) = 0
      BY <2>1, NothingSent
    <2>3. PICK body \in {copy[t], Torn} :
             /\ Respond(t, "200", body)
             /\ UNCHANGED <<cache, version, request, held, got, copy, asOf, raced>>
      BY <1>5 DEF GetSizeAndReply
    <2>4. body \in Own(key(t)) \union {Torn} /\ body \in AllBodies \union {Torn}
      BY <1>1 DEF ThreadInv
    <2>5. QED
      BY <1>3, <2>2, <2>3, <2>4, Responds
  <1>6. CASE Relay(t)
    <2>1. /\ pc[t] \in Gots
          /\ ~got[t].chunked \/ (got[t].chunked /\ got[t].status = "400")
      BY <1>1, <1>6 DEF Relay, Relays, Gots, HttpResponse
    <2>2. Len(sent[t]) = 0 \/ (Len(sent[t]) = 1 /\ got[t].chunked /\ got[t].status = "400")
      <3>1. Len(sent[t]) \in Nat
        BY <1>1
      <3>2. Len(sent[t]) <= IF got[t].chunked THEN 1 ELSE 0
        BY <1>1, <2>1 DEF ThreadInv
      <3>3. CASE ~got[t].chunked
        <4>1. Len(sent[t]) <= 0
          BY <3>2, <3>3
        <4>2. QED
          BY <3>1, <4>1
      <3>4. CASE got[t].chunked
        <4>1. Len(sent[t]) <= 1
          BY <3>2, <3>4
        <4>2. Len(sent[t]) = 0 \/ Len(sent[t]) = 1
          <5>1. \A n \in Nat : n <= 1 => n = 0 \/ n = 1
            OBVIOUS
          <5>2. QED
            BY <3>1, <4>1, <5>1, Zenon
        <4>3. got[t].status = "400"
          BY <2>1, <3>4
        <4>4. QED
          BY <3>4, <4>2, <4>3, Zenon
      <3>5. QED
        BY <3>3, <3>4
    <2>3. /\ Respond(t, got[t].status, got[t].body)
          /\ UNCHANGED <<cache, version, request, held, got, copy, asOf, raced>>
      BY <1>6 DEF Relay
    <2>4. /\ got[t].status \in {"200", "304", "400", "other"}
          /\ got[t].body \in AllBodies /\ got[t].body \in Own(key(t))
      BY <1>1 DEF HttpResponse, ThreadInv
    <2>5. QED
      BY <1>3, <2>2, <2>3, <2>4, Responds
  <1>7. CASE GetAndReply(t)
    <2>1. /\ pc[t] \notin Gots \union {"closing"} /\ Node(t) \in Entry
          /\ Node(t).body \in Own(key(t))
      BY <1>7, Found DEF GetAndReply, Finds, At, Gots
    <2>2. Len(sent[t]) = 0
      BY <2>1, NothingSent
    <2>3. /\ Respond(t, "200", Node(t).body)
          /\ UNCHANGED <<cache, version, request, held, got, copy, asOf, raced>>
      BY <1>7 DEF GetAndReply
    <2>4. Own(key(t)) \subseteq AllBodies
      BY <1>1, OwnBodies
    <2>5. QED
      BY <1>3, <2>1, <2>2, <2>3, <2>4, Responds
  <1>8. QED
    BY <1>4, <1>5, <1>6, <1>7

\* cache.get gives a body of the target.
LEMMA GetBytesStep ==
    ASSUME IInv, NEW t \in Threads, GetBytes(t)
    PROVE  IInv'
  <1>1. TypeOK /\ ThreadInv(t)
    BY DEF IInv
  <1>2. /\ pc[t] = "c_get" /\ Node(t).body \in Own(key(t))
    BY Found DEF GetBytes
  <1>3. /\ pc' = [pc EXCEPT ![t] = "c_size"]
        /\ copy' = [copy EXCEPT ![t] = Node(t).body]
        /\ UNCHANGED <<cache, version, request, held, got, sent, asOf, raced>>
    BY DEF GetBytes, Goto
  <1>4. Own(key(t)) \subseteq AllBodies
    BY <1>1, OwnBodies
  <1>5. TypeOK'
    BY <1>1, <1>2, <1>3, <1>4 DEF TypeOK, Lines
  <1>6. ThreadInv(t)'
    <2>1. key(t)' = key(t) /\ Own(key(t))' = Own(key(t))
      BY <1>3 DEF key, Own
    <2>2. /\ pc'[t] = "c_size" /\ copy'[t] = Node(t).body
      BY <1>1, <1>3 DEF TypeOK
    <2>3. sent[t] = <<>>
      BY <1>2, NothingSent DEF Gots
    <2>4. QED
      BY <1>1, <1>2, <1>3, <2>1, <2>2, <2>3 DEF ThreadInv, Gots, Passing
  <1>7. \A u \in Threads \ {t} : pc'[u] = pc[u] /\ copy'[u] = copy[u]
    BY <1>1, <1>3 DEF TypeOK
  <1>8. QED
    BY <1>3, <1>5, <1>6, <1>7, OneThread

\* The steps around sendMsgToWebserver.
LEMMA FetchingSteps ==
    ASSUME IInv, NEW t \in Threads,
           FetchFails(t) \/ FetchThrows(t) \/ FetchOk(t)
    PROVE  IInv'
  <1>1. TypeOK /\ ThreadInv(t)
    BY DEF IInv
  <1>2. AtFetch(t) /\ pc[t] \in {"fetch", "fetch_miss", "fetch_bypass"}
    BY DEF FetchFails, FetchThrows, FetchOk, AtFetch, AfterFetch
  <1>3. sent[t] = <<>> /\ Len(sent[t]) = 0
    BY <1>2, NothingSent DEF Gots
  <1>4. /\ AfterFetch[pc[t]] \in Gots
        /\ WhileFetching[pc[t]] \in {"chunks", "chunks_miss", "chunks_bypass"}
    BY <1>2 DEF AfterFetch, WhileFetching, Gots
  <1>5. key(t) \in Keys /\ NoBody \in Own(key(t))
    BY <1>1, OwnBodies DEF Own
  <1>6. ASSUME NEW r \in HttpResponse, r.body \in Own(key(t)),
               NEW line \in Lines \ {"idle"}, Goto(t, line),
               line \in Passing => r.chunked,
               got' = [got EXCEPT ![t] = r], asOf' \in [Threads -> 0..MaxVersion],
               UNCHANGED <<cache, version, request, held, copy, sent, raced>>
        PROVE  IInv'
    <2>1. /\ pc' = [pc EXCEPT ![t] = line] /\ pc'[t] = line /\ got'[t] = r
          /\ \A u \in Threads \ {t} : pc'[u] = pc[u] /\ got'[u] = got[u]
      BY <1>1, <1>6 DEF Goto, TypeOK
    <2>2. TypeOK'
      BY <1>1, <1>6, <2>1 DEF TypeOK
    <2>3. key(t)' = key(t) /\ Own(key(t))' = Own(key(t))
      BY <1>6 DEF key, Own
    <2>4. ThreadInv(t)'
      <3>1. sent'[t] = <<>> /\ Len(sent'[t]) = 0
        BY <1>3, <1>6
      <3>2. copy'[t] \in Own(key(t))' /\ got'[t].body \in Own(key(t))'
        BY <1>1, <1>6, <2>1, <2>3 DEF ThreadInv
      <3>3. pc'[t] # "idle" /\ (pc'[t] \in Passing => got'[t].chunked)
        BY <1>6, <2>1
      <3>4. QED
        BY <3>1, <3>2, <3>3 DEF ThreadInv
    <2>5. QED
      BY <1>6, <2>1, <2>2, <2>4, OneThread
  <1>7. CASE FetchFails(t)
    <2>1. PICK status \in {"400", "other"} : got' = [got EXCEPT ![t] = Formed(status)]
      BY <1>7 DEF FetchFails
    <2>2. Formed(status) \in HttpResponse /\ Formed(status).body \in Own(key(t))
      BY <1>5, FormedTyped
    <2>3. /\ Goto(t, AfterFetch[pc[t]]) /\ asOf' \in [Threads -> 0..MaxVersion]
          /\ UNCHANGED <<cache, version, request, held, copy, sent, raced>>
      BY <1>1, <1>7 DEF FetchFails, TypeOK
    <2>4. AfterFetch[pc[t]] \in Lines \ {"idle"} /\ AfterFetch[pc[t]] \notin Passing
      BY <1>4 DEF Gots, Lines, Passing
    <2>5. QED
      BY <1>6, <2>1, <2>2, <2>3, <2>4
  <1>8. CASE FetchThrows(t)
    <2>1. /\ Goto(t, "closing")
          /\ UNCHANGED <<cache, version, request, held, got, copy, sent, asOf, raced>>
      BY <1>8 DEF FetchThrows
    <2>2. "closing" \in Lines \ (Gots \union Passing \union {"idle"})
      BY DEF Lines, Gots, Passing
    <2>3. QED
      BY <1>1, <2>1, <2>2, Quiet DEF TypeOK
  <1>9. CASE FetchOk(t)
    <2>1. PICK r \in Answers(request[t], version[key(t)]) :
             /\ got' = [got EXCEPT ![t] = r]
             /\ \/ Goto(t, AfterFetch[pc[t]])
                \/ r.chunked /\ Goto(t, WhileFetching[pc[t]])
                \/ Goto(t, "closing")
      BY <1>9 DEF FetchOk
    <2>2. /\ asOf' = [asOf EXCEPT ![t] = version[key(t)]]
          /\ UNCHANGED <<cache, version, request, held, copy, sent, raced>>
      BY <1>9 DEF FetchOk
    <2>3. request[t] \in HttpRequest /\ version[key(t)] \in Versions
      BY <1>1, <1>5 DEF TypeOK
    <2>4. r \in HttpResponse /\ r.body \in Bodied(key(t), version[key(t)]) \union {NoBody}
      BY <2>1, <2>3, AnswersSay DEF key
    <2>5. version[key(t)] \in 1..version[key(t)] /\ version[key(t)] \in 0..MaxVersion
      BY <2>3, DataAssumption DEF Versions
    <2>6. r.body \in Own(key(t))
      BY <2>4, <2>5 DEF Own, Bodied
    <2>7. asOf' \in [Threads -> 0..MaxVersion]
      BY <1>1, <2>2, <2>5 DEF TypeOK
    <2>8. PICK line \in Lines \ {"idle"} :
             Goto(t, line) /\ (line \in Passing => r.chunked)
      BY <1>4, <2>1 DEF Gots, Lines, Passing
    <2>9. QED
      BY <1>6, <2>1, <2>2, <2>4, <2>6, <2>7, <2>8
  <1>10. QED
    BY <1>7, <1>8, <1>9

\* The loop over the chunks passes them on once, whole or cut.
LEMMA PassChunksStep ==
    ASSUME IInv, NEW t \in Threads, PassChunks(t)
    PROVE  IInv'
  <1>1. TypeOK /\ ThreadInv(t)
    BY DEF IInv
  <1>2. pc[t] \in {"chunks", "chunks_miss", "chunks_bypass"}
    BY DEF PassChunks, AfterChunks
  <1>3. sent[t] = <<>> /\ Len(sent[t]) = 0
    BY <1>2, NothingSent DEF Gots
  <1>4. AfterChunks[pc[t]] \in Gots
    BY <1>2 DEF AfterChunks, Gots
  <1>5. /\ UNCHANGED <<cache, version, request, held, got, copy, asOf, raced>>
        /\ got[t].chunked
    BY <1>1, <1>2 DEF PassChunks, ThreadInv, Passing
  <1>6. ASSUME NEW line \in {"closing", "cut"}, Goto(t, line), UNCHANGED sent
        PROVE  IInv'
    <2>1. line \in Lines \ (Gots \union Passing \union {"idle"})
      BY DEF Lines, Gots, Passing
    <2>2. QED
      BY <1>1, <1>3, <1>5, <1>6, <2>1, Quiet DEF TypeOK
  <1>7. CASE /\ sent' = [sent EXCEPT ![t] =
                    Append(@, [status |-> got[t].status, body |-> got[t].body])]
             /\ Goto(t, AfterChunks[pc[t]])
    <2> DEFINE a == [status |-> got[t].status, body |-> got[t].body]
               line == AfterChunks[pc[t]]
    <2>1. a \in Answer /\ a.body \in Own(key(t))
      BY <1>1 DEF Answer, TypeOK, HttpResponse, ThreadInv
    <2>2. line \in Lines /\ line \in Gots
      BY <1>4 DEF Gots, Lines
    <2>3. pc' = [pc EXCEPT ![t] = line] /\ sent' = [sent EXCEPT ![t] = Append(sent[t], a)]
      BY <1>1, <1>7 DEF Goto, TypeOK
    <2> HIDE DEF a, line
    <2>4. Append(sent[t], a) \in Seq(Answer) /\ Append(sent[t], a) = <<a>>
      BY <1>1, <1>3, <2>1 DEF TypeOK
    <2>5. /\ sent'[t] = <<a>> /\ pc'[t] = line
          /\ \A u \in Threads \ {t} : pc'[u] = pc[u] /\ sent'[u] = sent[u]
      BY <1>1, <2>3, <2>4 DEF TypeOK
    <2>6. TypeOK'
      BY <1>1, <1>5, <2>2, <2>3, <2>4 DEF TypeOK
    <2>7. key(t)' = key(t) /\ Own(key(t))' = Own(key(t))
      BY <1>5 DEF key, Own
    <2>8. ThreadInv(t)'
      <3>1. Len(sent'[t]) = 1 /\ \A i \in 1..Len(sent'[t]) : sent'[t][i] = a
        BY <2>5
      <3>2. copy'[t] \in Own(key(t))' /\ got'[t].body \in Own(key(t))'
        BY <1>1, <1>5, <2>7 DEF ThreadInv
      <3>3. pc'[t] \in Gots /\ pc'[t] \notin Passing /\ pc'[t] # "idle"
        BY <2>2, <2>5 DEF Gots, Passing
      <3>4. got'[t].chunked
        BY <1>5
      <3>5. QED
        BY <2>1, <2>7, <3>1, <3>2, <3>3, <3>4 DEF ThreadInv
    <2>9. QED
      BY <1>5, <2>5, <2>6, <2>8, OneThread
  <1>8. QED
    BY <1>6, <1>7 DEF PassChunks

LEMMA ChunkedDoneStep ==
    ASSUME IInv, NEW t \in Threads, ChunkedDone(t)
    PROVE  IInv'
  <1>1. /\ Goto(t, "closing")
        /\ UNCHANGED <<cache, version, request, held, got, copy, sent, asOf, raced>>
    BY DEF ChunkedDone
  <1>2. "closing" \in Lines \ (Gots \union Passing \union {"idle"})
    BY DEF Lines, Gots, Passing
  <1>3. QED
    BY <1>1, <1>2, Quiet DEF IInv, TypeOK

\* A connection comes and goes with nothing left over from the one before.
LEMMA ArriveStep ==
    ASSUME IInv, NEW t \in Threads, Arrive(t)
    PROVE  IInv'
  <1>1. TypeOK /\ ThreadInv(t) /\ pc[t] = "idle"
    BY DEF IInv, Arrive, At
  <1>2. PICK k \in Keys, kind \in Kinds, v \in Versions :
           /\ request' = [request EXCEPT ![t] =
                 [key |-> k, inm |-> IfTag(kind.inm, v), ims |-> IfTag(kind.ims, v),
                  conditional |-> kind.inm \/ kind.ims,
                  forbid |-> kind.forbid, revalid |-> kind.revalid]]
           /\ Goto(t, IF kind.inm \/ kind.ims THEN "c_isCached"
                      ELSE IF kind.forbid THEN "fetch_bypass" ELSE "n_isCached")
    BY DEF Arrive
  <1> DEFINE q == [key |-> k, inm |-> IfTag(kind.inm, v), ims |-> IfTag(kind.ims, v),
                   conditional |-> kind.inm \/ kind.ims,
                   forbid |-> kind.forbid, revalid |-> kind.revalid]
  <1>3. UNCHANGED <<cache, version, held, got, copy, sent, asOf, raced>>
    BY DEF Arrive
  <1>4. q \in HttpRequest
    <2>1. kind.forbid \in BOOLEAN /\ kind.revalid \in BOOLEAN
      BY HandlerAssumption DEF Kind
    <2>2. IfTag(kind.inm, v) \in Tags /\ IfTag(kind.ims, v) \in Tags
      BY DataAssumption, TagAssumption DEF IfTag
    <2>3. (kind.inm \/ kind.ims) \in BOOLEAN
      OBVIOUS
    <2>4. QED
      BY <2>1, <2>2, <2>3 DEF HttpRequest
  <1>5. PICK line \in {"c_isCached", "fetch_bypass", "n_isCached"} : Goto(t, line)
    BY <1>2
  <1>6. request' = [request EXCEPT ![t] = q]
    BY <1>2
  <1> HIDE DEF q
  <1>7. /\ pc' = [pc EXCEPT ![t] = line] /\ pc'[t] = line
        /\ \A u \in Threads \ {t} :
              pc'[u] = pc[u] /\ request'[u].key = request[u].key
    BY <1>1, <1>5, <1>6 DEF Goto, TypeOK
  <1>8. TypeOK'
    BY <1>1, <1>3, <1>4, <1>6, <1>7 DEF TypeOK, Lines
  <1>9. ThreadInv(t)'
    <2>1. NoBody \in Own(key(t))'
      BY DEF Own
    <2>2. sent'[t] = <<>> /\ Len(sent'[t]) = 0
      BY <1>1, <1>3 DEF ThreadInv, Gots
    <2>3. got'[t].body = NoBody /\ copy'[t] = NoBody
      BY <1>1, <1>3 DEF ThreadInv
    <2>4. pc'[t] \notin Gots \union Passing
      BY <1>7 DEF Gots, Passing
    <2>5. QED
      BY <2>1, <2>2, <2>3, <2>4 DEF ThreadInv
  <1>10. QED
    BY <1>3, <1>7, <1>8, <1>9, OneThread

LEMMA CloseStep ==
    ASSUME IInv, NEW t \in Threads, Close(t)
    PROVE  IInv'
  <1>1. TypeOK
    BY DEF IInv
  <1>2. /\ pc' = [pc EXCEPT ![t] = "idle"]
        /\ request' = [request EXCEPT ![t] = NoRequest]
        /\ held' = [held EXCEPT ![t] = NoValidators]
        /\ got' = [got EXCEPT ![t] = Formed("400")]
        /\ copy' = [copy EXCEPT ![t] = NoBody]
        /\ sent' = [sent EXCEPT ![t] = <<>>]
        /\ asOf' = [asOf EXCEPT ![t] = 0]
        /\ UNCHANGED <<cache, version, raced>>
    BY DEF Close, Goto
  <1>3. /\ Formed("400") \in HttpResponse /\ Formed("400").body = NoBody
        /\ NoRequest \in HttpRequest /\ NoBody \in AllBodies
        /\ NoValidators \in [ETag : Tags, LastModified : Tags]
        /\ <<>> \in Seq(Answer) /\ 0 \in 0..MaxVersion
    BY FormedTyped, NoRequestTyped, TagAssumption, DataAssumption
       DEF AllBodies, NoValidators
  <1>4. TypeOK'
    BY <1>1, <1>2, <1>3 DEF TypeOK, Lines
  <1>5. /\ pc'[t] = "idle" /\ got'[t].body = NoBody /\ copy'[t] = NoBody
        /\ sent'[t] = <<>>
        /\ \A u \in Threads \ {t} :
              /\ pc'[u] = pc[u] /\ request'[u].key = request[u].key
              /\ got'[u] = got[u] /\ copy'[u] = copy[u] /\ sent'[u] = sent[u]
    BY <1>1, <1>2, <1>3 DEF TypeOK
  <1>6. ThreadInv(t)'
    <2>1. NoBody \in Own(key(t))'
      BY DEF Own
    <2>2. Len(sent'[t]) = 0
      BY <1>5
    <2>3. QED
      BY <1>5, <2>1, <2>2 DEF ThreadInv, Gots, Passing
  <1>7. QED
    BY <1>2, <1>4, <1>5, <1>6, OneThread

\* A crash leaves everything as it is, but nothing more runs.
LEMMA CrashStep ==
    ASSUME IInv, NEW t \in Threads, Crash(t)
    PROVE  IInv'
  <1>1. TypeOK /\ CacheInv /\ \A u \in Threads : ThreadInv(u)
    BY DEF IInv
  <1>2. /\ cache' = [cache EXCEPT !.wild = @ \union ({NULL} \ cache.live)]
        /\ UNCHANGED <<version, pc, request, held, got, copy, sent, asOf, raced>>
    BY DEF Crash, Deref
  <1>3. /\ cache' \in CacheValue /\ NULL \in cache'.wild
        /\ cache'.live = cache.live /\ cache'.entry = cache.entry
        /\ cache'.cacheKey = cache.cacheKey
    <2>1. NULL \notin cache.live /\ NULL \in Pointer
      BY <1>1, NullAssumption DEF TypeOK, CacheValue, Pointer
    <2>2. QED
      BY <1>1, <1>2, <2>1 DEF TypeOK, CacheValue
  <1>4. ~Running'
    BY <1>3 DEF Running
  <1>5. TypeOK'
    BY <1>1, <1>2, <1>3 DEF TypeOK
  <1>6. CacheInv'
    <2>1. NoForbiddenStored'
      BY <1>1, <1>3 DEF CacheInv, NoForbiddenStored
    <2>2. OwnEntries'
      BY <1>1, <1>2, <1>3 DEF CacheInv, OwnEntries, Own
    <2>3. QED
      BY <1>4, <2>1, <2>2 DEF CacheInv
  <1>7. ASSUME NEW u \in Threads
        PROVE  ThreadInv(u)'
    BY <1>1, <1>2, OwnStays, OthersStay
  <1>8. QED
    BY <1>5, <1>6, <1>7 DEF IInv

\* A put that overlaps another call leaves everything as it is, and nothing
\* more runs.
LEMMA OverlapStep ==
    ASSUME IInv, NEW t \in Threads, NEW u \in Threads, Overlap(t, u)
    PROVE  IInv'
  <1>1. TypeOK /\ CacheInv /\ \A w \in Threads : ThreadInv(w)
    BY DEF IInv
  <1>2. /\ raced' = TRUE
        /\ UNCHANGED <<cache, version, pc, request, held, got, copy, sent, asOf>>
    BY DEF Overlap
  <1>3. TypeOK'
    BY <1>1, <1>2 DEF TypeOK
  <1>4. CacheInv'
    BY <1>1, <1>2 DEF CacheInv, Running, NoForbiddenStored, OwnEntries, Own
  <1>5. ASSUME NEW w \in Threads
        PROVE  ThreadInv(w)'
    BY <1>1, <1>2, OwnStays, OthersStay
  <1>6. QED
    BY <1>3, <1>4, <1>5 DEF IInv

\* The origin changes a target: what was of the target still is.
LEMMA NewVersionStep ==
    ASSUME IInv, NEW k \in Keys, NewVersion(k)
    PROVE  IInv'
  <1>1. TypeOK /\ CacheInv /\ \A u \in Threads : ThreadInv(u)
    BY DEF IInv
  <1>2. /\ version[k] < MaxVersion /\ version' = [version EXCEPT ![k] = @ + 1]
        /\ UNCHANGED <<cache, pc, request, held, got, copy, sent, asOf, raced>>
    BY DEF NewVersion
  <1>3. version' \in [Keys -> Versions]
    BY <1>1, <1>2, DataAssumption DEF TypeOK, Versions
  <1>4. \A j \in Keys : version[j] <= version'[j]
    BY <1>1, <1>2, DataAssumption DEF TypeOK, Versions
  <1>5. \A j \in Keys : Own(j) \subseteq Own(j)'
    BY <1>1, <1>3, <1>4, OwnGrows DEF TypeOK
  <1>6. TypeOK'
    BY <1>1, <1>2, <1>3 DEF TypeOK
  <1>7. CacheInv'
    BY <1>1, <1>2, <1>5, CacheStays
  <1>8. ASSUME NEW u \in Threads
        PROVE  ThreadInv(u)'
    BY <1>1, <1>2, <1>5, OthersStay
  <1>9. QED
    BY <1>6, <1>7, <1>8 DEF IInv

\* put: an entry more, an entry renewed, an entry less.
LEMMA StoreStep ==
    ASSUME IInv, NEW t \in Threads, Store(t)
    PROVE  IInv'
  <1> DEFINE r == Kept(got[t])
  <1>1. /\ TypeOK /\ CacheInv /\ \A u \in Threads : ThreadInv(u)
        /\ cache \in CacheValue /\ Structure(cache) /\ cache.wild = {}
    BY DEF IInv, TypeOK, CacheInv, Store, Running
  <1>2. PICK s \in [Nodes -> Nat], p \in Nat : Order(cache, s, p, 0)
    BY DEF IInv, CacheInv, Ordered, Store
  <1>3. /\ pc[t] \in {"got", "got_miss"} /\ got[t] \in HttpResponse
        /\ ~got[t].chunked /\ ~Relays(t)
    BY <1>1 DEF Store, Puts, TypeOK
  <1>4. got[t].status \in Status /\ got[t].head \notin Forbidden
    BY <1>3 DEF Relays, IsResForbiden, HttpResponse, Status
  <1>5. /\ r \in Response /\ r.head \notin Forbidden /\ r.body \in Own(key(t))
        /\ key(t) \in Keys
    BY <1>1, <1>3, <1>4, KeptTyped, OwnBodies DEF Kept, ThreadInv
  <1>6. /\ pc' = [pc EXCEPT ![t] = "get"]
        /\ UNCHANGED <<version, request, held, got, copy, sent, asOf, raced>>
    BY DEF Store, Goto
  <1>7. /\ cache' \in CacheValue /\ Structure(cache') /\ Ordered(cache')
        /\ \A n \in cache'.live :
              /\ cache'.entry[n].head \notin Forbidden
              /\ cache'.entry[n].body \in Own(cache'.cacheKey[n])
    <2>1. \A n \in cache.live : /\ cache.entry[n].head \notin Forbidden
                                /\ cache.entry[n].body \in Own(cache.cacheKey[n])
      BY <1>1 DEF CacheInv, NoForbiddenStored, OwnEntries
    <2>2. CASE IsCached(cache, key(t))
      <3> DEFINE n == cache.cacheMap[key(t)]
      <3>1. cache' = PutCached(cache, key(t), r, 0)
        BY <2>2, PutsKept DEF Store
      <3> HIDE DEF r
      <3>2. cache' \in CacheValue /\ Structure(cache')
        BY <1>1, <1>5, <2>2, <3>1, PutCachedStructure
      <3>3. Order(cache', [s EXCEPT ![n] = p + 1], p + 1, 0)
        BY <1>1, <1>2, <1>5, <2>2, <3>1, PutCachedOrder
      <3>4. /\ cache'.live = cache.live /\ cache'.cacheKey = cache.cacheKey
            /\ n \in cache.live /\ cache.cacheKey[n] = key(t)
            /\ cache'.entry[n] = Updated(cache.entry[n], r, 0)
            /\ \A m \in Nodes \ {n} : cache'.entry[m] = cache.entry[m]
        BY <1>1, <1>5, <2>2, <3>1, PutCachedContents
      <3> HIDE DEF n
      <3>5. /\ cache'.entry[n].head \notin Forbidden
            /\ cache'.entry[n].body \in Own(cache.cacheKey[n])
        BY <1>5, <2>1, <3>4 DEF Updated
      <3>6. [s EXCEPT ![n] = p + 1] \in [Nodes -> Nat] /\ p + 1 \in Nat
        <4>1. p + 1 \in Nat
          OBVIOUS
        <4>2. QED
          BY <4>1
      <3>7. Ordered(cache')
        BY <3>3, <3>6 DEF Ordered
      <3>8. \A m \in cache.live : m \in Nodes
        BY <1>1 DEF CacheValue
      <3>9. QED
        BY <2>1, <3>2, <3>4, <3>5, <3>7, <3>8
    <2>3. CASE ~IsCached(cache, key(t))
      <3>1. PICK n \in Nodes \ MakeRoom(cache).live :
               cache' = PutNew(cache, key(t), r, n, 0)
        BY <2>3, PutsKept DEF Store
      <3> HIDE DEF r
      <3>2. /\ cache' \in CacheValue /\ Structure(cache')
            /\ Order(cache', [s EXCEPT ![n] = p + 1], p + 1, 0)
        BY <1>1, <1>2, <1>5, <2>3, <3>1, PutNewKeeps
      <3>3. /\ cache'.cacheKey[n] = key(t) /\ cache'.entry[n] = NewEntry(r, 0)
            /\ \A m \in cache'.live \ {n} :
                  /\ m \in cache.live
                  /\ cache'.cacheKey[m] = cache.cacheKey[m]
                  /\ cache'.entry[m] = cache.entry[m]
        BY <1>1, <1>2, <1>5, <3>1, <3>2, PutNewContents
      <3>4. /\ cache'.entry[n].head \notin Forbidden
            /\ cache'.entry[n].body \in Own(cache'.cacheKey[n])
        BY <1>5, <3>3 DEF NewEntry
      <3>5. [s EXCEPT ![n] = p + 1] \in [Nodes -> Nat] /\ p + 1 \in Nat
        BY <1>2
      <3>6. Ordered(cache')
        BY <3>2, <3>5 DEF Ordered
      <3>7. QED
        BY <2>1, <3>2, <3>3, <3>4, <3>6
    <2>4. QED
      BY <2>2, <2>3
  <1>8. TypeOK'
    BY <1>1, <1>6, <1>7 DEF TypeOK, Lines
  <1>9. CacheInv'
    BY <1>6, <1>7 DEF CacheInv, NoForbiddenStored, OwnEntries, Own
  <1>10. ASSUME NEW u \in Threads
         PROVE  ThreadInv(u)'
    <2>1. CASE u # t
      <3>1. pc'[u] = pc[u]
        BY <1>1, <1>6, <2>1 DEF TypeOK
      <3>2. QED
        BY <1>1, <1>6, <3>1, OwnStays, OthersStay
    <2>2. CASE u = t
      <3>1. pc'[t] = "get"
        BY <1>1, <1>6 DEF TypeOK
      <3>2. sent[t] = <<>>
        <4>1. sent[t] \in Seq(Answer) /\ Len(sent[t]) \in Nat
          BY <1>1 DEF TypeOK
        <4>2. Len(sent[t]) <= 0
          BY <1>1, <1>3 DEF ThreadInv, Gots
        <4>3. QED
          BY <4>1, <4>2
      <3>3. key(t)' = key(t) /\ Own(key(t))' = Own(key(t))
        BY <1>6 DEF key, Own
      <3>4. QED
        BY <1>1, <1>6, <2>2, <3>1, <3>2, <3>3 DEF ThreadInv, Gots, Passing
    <2>3. QED
      BY <2>1, <2>2
  <1>11. QED
    BY <1>8, <1>9, <1>10 DEF IInv

-----------------------------------------------------------------------------
(* The inductive invariant.                                                 *)

LEMMA InitIInv == Init => IInv
  <1> SUFFICES ASSUME Init
               PROVE  IInv
    OBVIOUS
  <1> DEFINE e == NewEntry(Formed("400"), 0)
  <1>1. /\ Formed("400") \in HttpResponse /\ Formed("400").body = NoBody
        /\ NoRequest \in HttpRequest /\ NoRequest.key \in Keys /\ NoBody \in AllBodies
        /\ NoValidators \in [ETag : Tags, LastModified : Tags]
        /\ <<>> \in Seq(Answer) /\ 0 \in 0..MaxVersion /\ 1 \in Versions
    BY FormedTyped, NoRequestTyped, TagAssumption, DataAssumption
       DEF AllBodies, NoValidators, Versions
  <1>2. e \in Entry
    BY <1>1, DataAssumption DEF NewEntry, Entry, HttpResponse, Status
  <1>3. cache = EmptyCache(NoRequest.key, e)
    BY DEF Init
  <1> HIDE DEF e
  <1>4. cache \in CacheValue
    BY <1>1, <1>2, <1>3 DEF EmptyCache, CacheValue, Pointer
  <1>5. /\ cache.head = NULL /\ cache.tail = NULL /\ cache.size = 0
        /\ cache.live = {} /\ cache.wild = {}
        /\ \A k \in Keys : cache.cacheMap[k] = NULL
    BY <1>3 DEF EmptyCache
  <1>6. Structure(cache)
    <2>1. SizeAgrees(cache)
      BY <1>5, FS_EmptySet, CapacityAssumption DEF SizeAgrees
    <2>2. QED
      BY <1>5, <2>1 DEF Structure, Ends, Links, MapAgrees, IsCached
  <1>7. Ordered(cache)
    <2>1. [n \in Nodes |-> 0] \in [Nodes -> Nat]
      OBVIOUS
    <2>2. Order(cache, [n \in Nodes |-> 0], 0, 0)
      BY <1>5 DEF Order
    <2>3. QED
      BY <2>1, <2>2 DEF Ordered
  <1>8. CacheInv
    BY <1>5, <1>6, <1>7 DEF CacheInv, NoForbiddenStored, OwnEntries
  <1>9. TypeOK
    BY <1>1, <1>4 DEF Init, TypeOK, Lines
  <1>10. ASSUME NEW t \in Threads
         PROVE  ThreadInv(t)
    <2>1. /\ pc[t] = "idle" /\ got[t].body = NoBody /\ copy[t] = NoBody
          /\ sent[t] = <<>>
      BY <1>1 DEF Init
    <2>2. NoBody \in Own(key(t)) /\ Len(sent[t]) = 0
      BY <2>1 DEF Own
    <2>3. QED
      BY <2>1, <2>2 DEF ThreadInv, Gots, Passing
  <1>11. QED
    BY <1>8, <1>9, <1>10 DEF IInv

LEMMA StepIInv == IInv /\ [Next]_vars => IInv'
  <1> SUFFICES ASSUME IInv, [Next]_vars
               PROVE  IInv'
    OBVIOUS
  <1>1. ASSUME NEW t \in Threads, Handle(t)
        PROVE  IInv'
    <2>1. CASE IsCachedStep(t) \/ IsFresh(t) \/ ReadETag(t) \/ ReadLastModified(t)
      BY <2>1, ReadingSteps
    <2>2. CASE CheckRevalid(t) \/ Expired(t)
      BY <2>2, RewritingSteps
    <2>3. CASE ReplyNotModified(t) \/ GetSizeAndReply(t) \/ Relay(t) \/ GetAndReply(t)
      BY <2>3, AnsweringSteps
    <2>4. CASE GetBytes(t)
      BY <2>4, GetBytesStep
    <2>5. CASE FetchFails(t) \/ FetchThrows(t) \/ FetchOk(t)
      BY <2>5, FetchingSteps
    <2>6. CASE PassChunks(t)
      BY <2>6, PassChunksStep
    <2>7. CASE ChunkedDone(t)
      BY <2>7, ChunkedDoneStep
    <2>8. CASE Store(t)
      BY <2>8, StoreStep
    <2>9. CASE Crash(t)
      BY <2>9, CrashStep
    <2>10. CASE Close(t)
      BY <2>10, CloseStep
    <2>11. QED
      BY <1>1, <2>1, <2>2, <2>3, <2>4, <2>5, <2>6, <2>7, <2>8, <2>9, <2>10 DEF Handle
  <1>2. CASE UNCHANGED vars
    <2>1. TypeOK /\ CacheInv /\ \A u \in Threads : ThreadInv(u)
      BY DEF IInv
    <2>2. UNCHANGED <<cache, version, pc, request, held, got, copy, sent, asOf, raced>>
      BY <1>2 DEF vars
    <2>3. TypeOK'
      BY <2>1, <2>2 DEF TypeOK
    <2>4. CacheInv'
      BY <2>1, <2>2, OwnStays, CacheStays
    <2>5. ASSUME NEW u \in Threads
          PROVE  ThreadInv(u)'
      BY <2>1, <2>2, OwnStays, OthersStay
    <2>6. QED
      BY <2>3, <2>4, <2>5 DEF IInv
  <1>3. QED
    BY <1>1, <1>2, ArriveStep, NewVersionStep, OverlapStep DEF Next

\* The inductive invariant holds of every run of the handlers: as long as no
\* put has overlapped another call, and no NULL was followed, the cache is well
\* formed and in the order of some history of puts.
THEOREM IInvAlways == Spec => []IInv
  BY InitIInv, StepIInv, PTL DEF Spec

-----------------------------------------------------------------------------
(* The theorems.                                                            *)

\* Every variable keeps its type.
THEOREM TypeCorrect == Spec => []TypeOK
  <1>1. IInv => TypeOK
    BY DEF IInv
  <1>2. QED
    BY <1>1, IInvAlways, PTL

\* No path of handleGET puts a private or no-store response into the cache.
THEOREM ForbiddenNeverStored == Spec => []NoForbiddenStored
  <1>1. IInv => NoForbiddenStored
    BY DEF IInv, CacheInv
  <1>2. QED
    BY <1>1, IInvAlways, PTL

\* A browser gets no body of another target, whatever other threads evict,
\* free and reuse between two calls of its own thread, until a put overlaps
\* another call.
THEOREM OwnTargetAlways == Spec => []AnswersOwnTarget
  <1>1. IInv => AnswersOwnTarget
    BY DEF IInv, ThreadInv, AnswersOwnTarget, AnswersTo
  <1>2. QED
    BY <1>1, IInvAlways, PTL

\* A request is answered at most once, but for the 400 that comes chunked.
THEOREM OneAnswer == Spec => []AnsweredOnce
  <1>1. IInv => AnsweredOnce
    BY DEF IInv, ThreadInv, AnsweredOnce
  <1>2. QED
    BY <1>1, IInvAlways, PTL

-----------------------------------------------------------------------------
(* A thread that has the cache for itself.                                  *)

\* One connection at a time.
Alone == \A t, u \in Threads : t = u

\* The lines that Follows names, whatever the request.
Looking == {"c_isFresh", "c_etag", "c_lm", "c_head", "c_get", "c_size", "c_expired",
            "n_etag", "n_lm", "n_revalid", "n_isFresh", "n_expired", "get"}

KeepInv ==
    Alone => /\ Running
             /\ \A t \in Threads : pc[t] \in Looking => IsCached(cache, key(t))

LEMMA Goes ==
    ASSUME TypeOK, NEW t \in Threads, NEW line, Goto(t, line)
    PROVE  pc'[t] = line /\ \A u \in Threads \ {t} : pc'[u] = pc[u]
  BY DEF Goto, TypeOK

\* A step of t goes to a line and leaves the others where they are; it gets to
\* a line that looks into the cache only with its target in there.
LEMMA StepFrame ==
    ASSUME TypeOK, NEW t \in Threads, Handle(t), ~Crash(t)
    PROVE  /\ \E line \in Lines :
                 /\ Goto(t, line)
                 /\ line \in Looking =>
                       Store(t) \/ (IsCached(cache, key(t)) /\ request'[t].key = request[t].key)
           /\ \A u \in Threads \ {t} : request'[u].key = request[u].key
           /\ Store(t) \/ UNCHANGED <<cache, raced>>
  <1>1. CASE IsCachedStep(t) \/ IsFresh(t) \/ ReadETag(t) \/ ReadLastModified(t)
             \/ GetBytes(t)
    BY <1>1 DEF IsCachedStep, IsFresh, ReadETag, ReadLastModified, GetBytes, Finds,
                Lines, Looking
  <1>2. CASE ReplyNotModified(t) \/ GetSizeAndReply(t) \/ Relay(t) \/ GetAndReply(t)
    BY <1>2 DEF ReplyNotModified, GetSizeAndReply, Relay, GetAndReply, Respond,
                Lines, Looking
  <1>3. CASE CheckRevalid(t)
    <2>1. request \in [Threads -> HttpRequest]
      BY DEF TypeOK
    <2>2. \A u \in Threads : request'[u].key = request[u].key
      BY <1>3, <2>1 DEF CheckRevalid, BuildConRequest, HttpRequest
    <2>3. Goto(t, "fetch") \/ (Goto(t, "n_isFresh") /\ IsCached(cache, key(t)))
      BY <1>3 DEF CheckRevalid, Finds
    <2>4. UNCHANGED <<cache, raced>>
      BY <1>3 DEF CheckRevalid
    <2>5. QED
      BY <2>2, <2>3, <2>4 DEF Lines, Looking
  <1>4. CASE Expired(t)
    <2>1. request \in [Threads -> HttpRequest]
      BY DEF TypeOK
    <2>2. \A u \in Threads : request'[u].key = request[u].key
      BY <1>4, <2>1 DEF Expired, BuildConRequest, HttpRequest
    <2>3. Goto(t, "fetch") /\ UNCHANGED <<cache, raced>>
      BY <1>4 DEF Expired
    <2>4. QED
      BY <2>2, <2>3 DEF Lines, Looking
  <1>5. CASE FetchFails(t) \/ FetchOk(t) \/ FetchThrows(t)
    <2>1. pc[t] \in {"fetch", "fetch_miss", "fetch_bypass"}
      BY <1>5 DEF FetchFails, FetchThrows, FetchOk, AtFetch, AfterFetch
    <2>2. /\ AfterFetch[pc[t]] \in Lines \ Looking
          /\ WhileFetching[pc[t]] \in Lines \ Looking
          /\ "closing" \in Lines \ Looking
      BY <2>1 DEF AfterFetch, WhileFetching, Lines, Looking
    <2>3. \/ Goto(t, AfterFetch[pc[t]]) \/ Goto(t, WhileFetching[pc[t]])
          \/ Goto(t, "closing")
      BY <1>5 DEF FetchFails, FetchThrows, FetchOk
    <2>4. UNCHANGED <<cache, request, raced>>
      BY <1>5 DEF FetchFails, FetchThrows, FetchOk
    <2>5. QED
      BY <2>2, <2>3, <2>4
  <1>6. CASE PassChunks(t)
    <2>1. pc[t] \in {"chunks", "chunks_miss", "chunks_bypass"}
      BY <1>6 DEF PassChunks, AfterChunks
    <2>2. AfterChunks[pc[t]] \in Lines \ Looking /\ {"closing", "cut"} \subseteq Lines \ Looking
      BY <2>1 DEF AfterChunks, Lines, Looking
    <2>3. Goto(t, AfterChunks[pc[t]]) \/ Goto(t, "closing") \/ Goto(t, "cut")
      BY <1>6 DEF PassChunks
    <2>4. UNCHANGED <<cache, request, raced>>
      BY <1>6 DEF PassChunks
    <2>5. QED
      BY <2>2, <2>3, <2>4
  <1>7. CASE ChunkedDone(t)
    BY <1>7 DEF ChunkedDone, Lines, Looking
  <1>8. CASE Store(t)
    BY <1>8 DEF Store, Lines
  <1>9. CASE Close(t)
    BY <1>9 DEF Close, TypeOK, Lines, Looking
  <1>10. QED
    BY <1>1, <1>2, <1>3, <1>4, <1>5, <1>6, <1>7, <1>8, <1>9 DEF Handle

\* What put makes of the cache: the node of the target, renewed or new, and no
\* other that was not there before.
LEMMA Stored ==
    ASSUME IInv, NEW t \in Threads, Store(t)
    PROVE  /\ Goto(t, "get")
           /\ UNCHANGED <<version, request, held, got, copy, sent, asOf>>
           /\ pc[t] \in {"got", "got_miss"} /\ ~got[t].chunked
           /\ got[t].status = "200" \/ (got[t].status = "304" /\ pc[t] = "got")
           /\ Running'
           /\ \E n \in cache'.live :
                 /\ cache'.cacheMap[key(t)] = n /\ cache'.cacheKey[n] = key(t)
                 /\ cache'.entry[n] = IF IsCached(cache, key(t))
                                      THEN Updated(Node(t), got[t], 0)
                                      ELSE NewEntry(got[t], 0)
                 /\ \A m \in cache'.live \ {n} :
                       /\ m \in cache.live
                       /\ cache'.cacheKey[m] = cache.cacheKey[m]
                       /\ cache'.entry[m] = cache.entry[m]
  <1> DEFINE r == Kept(got[t])
  <1>1. /\ TypeOK /\ cache \in CacheValue /\ Structure(cache)
        /\ cache.wild = {} /\ ~raced /\ ~raced'
        /\ key(t) \in Keys /\ got[t] \in HttpResponse
    BY OwnBodies DEF IInv, TypeOK, CacheInv, Store, Running
  <1>2. PICK s \in [Nodes -> Nat], p \in Nat : Order(cache, s, p, 0)
    BY DEF IInv, CacheInv, Ordered, Store
  <1>3. /\ Goto(t, "get")
        /\ UNCHANGED <<version, request, held, got, copy, sent, asOf>>
        /\ pc[t] \in {"got", "got_miss"} /\ ~got[t].chunked
        /\ got[t].status = "200" \/ (got[t].status = "304" /\ pc[t] = "got")
    BY <1>1 DEF Store, Puts, Relays, HttpResponse
  <1>4. r \in Response
    BY <1>1, <1>3, KeptTyped DEF Status
  <1>5. /\ \A e : Updated(e, r, 0) = Updated(e, got[t], 0)
        /\ NewEntry(r, 0) = NewEntry(got[t], 0)
    BY DEF Updated, NewEntry, Kept
  <1>6. CASE IsCached(cache, key(t))
    <2>1. cache' = PutCached(cache, key(t), r, 0)
      BY <1>6, PutsKept DEF Store
    <2> HIDE DEF r
    <2> DEFINE n == cache.cacheMap[key(t)]
    <2>2. cache'.wild = cache.wild
      BY <1>1, <1>4, <1>6, <2>1, PutCachedStructure
    <2>3. /\ cache'.live = cache.live /\ cache'.cacheMap = cache.cacheMap
          /\ cache'.cacheKey = cache.cacheKey
          /\ n \in cache.live /\ cache.cacheKey[n] = key(t)
          /\ cache'.entry[n] = Updated(cache.entry[n], r, 0)
          /\ \A m \in Nodes \ {n} : cache'.entry[m] = cache.entry[m]
      BY <1>1, <1>4, <1>6, <2>1, PutCachedContents
    <2>4. cache'.entry[n] = Updated(Node(t), got[t], 0)
      BY <1>5, <2>3 DEF Node
    <2>5. \A m \in cache.live : m \in Nodes
      BY <1>1 DEF CacheValue
    <2> HIDE DEF n
    <2>6. Running'
      BY <1>1, <2>2 DEF Running
    <2>7. cache'.cacheMap[key(t)] = n
      BY <2>3 DEF n
    <2>8. QED
      BY <1>3, <1>6, <2>3, <2>4, <2>5, <2>6, <2>7
  <1>7. CASE ~IsCached(cache, key(t))
    <2>1. PICK n \in Nodes \ MakeRoom(cache).live :
             cache' = PutNew(cache, key(t), r, n, 0)
      BY <1>7, PutsKept DEF Store
    <2> HIDE DEF r
    <2>2. cache' \in CacheValue /\ cache'.wild = {} /\ Structure(cache')
      BY <1>1, <1>2, <1>4, <1>7, <2>1, PutNewKeeps
    <2>3. /\ cache'.cacheMap[key(t)] = n /\ cache'.cacheKey[n] = key(t)
          /\ cache'.entry[n] = NewEntry(r, 0)
          /\ \A m \in cache'.live \ {n} :
                /\ m \in cache.live
                /\ cache'.cacheKey[m] = cache.cacheKey[m]
                /\ cache'.entry[m] = cache.entry[m]
      BY <1>1, <1>2, <1>4, <2>1, <2>2, PutNewContents
    <2>4. n # NULL
      BY NullAssumption
    <2>5. n \in cache'.live
      BY <1>1, <2>2, <2>3, <2>4 DEF Structure, MapAgrees, IsCached
    <2>6. Running'
      BY <1>1, <2>2 DEF Running
    <2>7. QED
      BY <1>3, <1>5, <1>7, <2>3, <2>5, <2>6
  <1>8. QED
    BY <1>6, <1>7

LEMMA InitKeepInv == Init => KeepInv
  <1> SUFFICES ASSUME Init
               PROVE  KeepInv
    OBVIOUS
  <1>1. cache.wild = {} /\ ~raced /\ \A t \in Threads : pc[t] \notin Looking
    BY DEF Init, EmptyCache, Looking
  <1>2. QED
    BY <1>1 DEF KeepInv, Running

LEMMA StepKeepInv == IInv /\ KeepInv /\ [Next]_vars => KeepInv'
  <1> SUFFICES ASSUME IInv, KeepInv, [Next]_vars, Alone
               PROVE  /\ Running'
                      /\ \A t \in Threads :
                            (pc[t] \in Looking)' => IsCached(cache, key(t))'
    BY DEF KeepInv, Alone
  <1>1. /\ Running /\ TypeOK
        /\ \A t \in Threads : pc[t] \in Looking => IsCached(cache, key(t))
    BY DEF KeepInv, IInv
  <1>2. ASSUME NEW t \in Threads, Handle(t)
        PROVE  /\ Running'
               /\ \A u \in Threads : (pc[u] \in Looking)' => IsCached(cache, key(u))'
    <2>1. ~Crash(t)
      BY <1>1 DEF Crash, Follows, Looking
    <2>2. /\ Running'
          /\ IF Store(t) THEN IsCached(cache, key(t))' ELSE UNCHANGED cache
      <3>1. Store(t) \/ UNCHANGED <<cache, raced>>
        BY <1>1, <1>2, <2>1, StepFrame
      <3>2. CASE Store(t)
        <4>1. PICK n \in cache'.live : cache'.cacheMap[key(t)] = n
          BY <3>2, Stored
        <4>2. cache' \in CacheValue
          BY <3>2, StoreStep DEF IInv, TypeOK
        <4>3. n # NULL
          BY <4>1, <4>2, NullAssumption DEF CacheValue
        <4>4. IsCached(cache, key(t))'
          BY <3>2, <4>1, <4>3, Stored DEF IsCached, key
        <4>5. QED
          BY <3>2, <4>4, Stored
      <3>3. CASE UNCHANGED <<cache, raced>> /\ ~Store(t)
        BY <1>1, <3>3 DEF Running
      <3>4. QED
        BY <3>1, <3>2, <3>3
    <2>3. PICK line \in Lines :
             /\ Goto(t, line)
             /\ line \in Looking =>
                   Store(t) \/ (IsCached(cache, key(t)) /\ request'[t].key = request[t].key)
      BY <1>1, <1>2, <2>1, StepFrame
    <2>4. pc'[t] = line
      BY <1>1, <2>3, Goes
    <2>5. ASSUME pc'[t] \in Looking, ~Store(t)
          PROVE  IsCached(cache, key(t))'
      <3>1. IsCached(cache, key(t)) /\ key(t)' = key(t)
        BY <2>3, <2>4, <2>5 DEF key
      <3>2. QED
        BY <2>2, <2>5, <3>1 DEF IsCached
    <2>6. \A u \in Threads : u = t
      BY DEF Alone
    <2>7. QED
      BY <2>2, <2>5, <2>6
  <1>3. ASSUME NEW t \in Threads, Arrive(t)
        PROVE  /\ Running'
               /\ \A u \in Threads : (pc[u] \in Looking)' => IsCached(cache, key(u))'
    <2>1. UNCHANGED <<cache, raced>>
      BY <1>3 DEF Arrive
    <2>2. PICK line \in {"c_isCached", "fetch_bypass", "n_isCached"} : Goto(t, line)
      BY <1>3 DEF Arrive
    <2>3. pc'[t] \notin Looking
      BY <1>1, <2>2, Goes DEF Looking
    <2>4. \A u \in Threads : u = t
      BY DEF Alone
    <2>5. QED
      BY <1>1, <2>1, <2>3, <2>4 DEF Running
  <1>4. CASE UNCHANGED <<cache, pc, request, raced>>
    BY <1>1, <1>4 DEF Running, IsCached, key
  <1>5. \A t, u \in Threads : ~Overlap(t, u)
    BY DEF Alone, Overlap
  <1>6. QED
    BY <1>2, <1>3, <1>4, <1>5 DEF Next, NewVersion, vars

LEMMA KeepInvAlways == Spec => []KeepInv
  BY IInvAlways, InitKeepInv, StepKeepInv, PTL DEF Spec

\* With one connection at a time no thread dies on a key that has gone: only
\* another thread can evict it in between, or overlap a put.
THEOREM AloneKeepsRunning == Spec => [](Alone => Running)
  <1>1. KeepInv => (Alone => Running)
    BY DEF KeepInv
  <1>2. QED
    BY <1>1, KeepInvAlways, PTL

-----------------------------------------------------------------------------
(* Validation, one connection at a time.                                    *)

\* The lines that a thread is at once the origin was to be asked.
Answered == Gots \union Passing \union {"get", "cut", "closing"}

\* A thread that has not asked the origin got to where it is only past the
\* check of the header block of the node that is still there.
Sole(t) ==
    /\ pc[t] \notin Answered => asOf[t] = 0
    /\ pc[t] \in Passing => asOf[t] # 0
    /\ pc[t] \in Gots /\ asOf[t] = 0 =>
          got[t].status \notin {"200", "304"} /\ ~got[t].chunked
    /\ pc[t] = "n_isFresh" => Node(t).head \notin MustRevalid
    /\ pc[t] = "get" /\ asOf[t] = 0 => Node(t).head \notin MustRevalid

SoleInv == Alone => \A t \in Threads : Sole(t)

LEMMA InitSoleInv == Init => SoleInv
  BY DEF Init, SoleInv, Sole, Answered, Gots, Passing

\* No step of a thread alone is a crash.
LEMMA NoStepCrashes ==
    ASSUME KeepInv, Alone, NEW t \in Threads, Handle(t)
    PROVE  ~Crash(t)
  BY DEF KeepInv, Crash, Follows, Looking

LEMMA StepSole ==
    ASSUME IInv, KeepInv, Alone, NEW t \in Threads, Sole(t), Handle(t) \/ Arrive(t)
    PROVE  Sole(t)'
  <1>1. TypeOK
    BY DEF IInv
  <1>2. ASSUME NEW line, Goto(t, line), line \notin Answered \union {"n_isFresh"},
               pc[t] \notin Answered, UNCHANGED asOf
        PROVE  Sole(t)'
    <2>1. pc'[t] = line
      BY <1>1, <1>2, Goes
    <2>2. QED
      BY <1>2, <2>1 DEF Sole, Answered
  <1>3. ASSUME NEW line \in {"closing", "cut"}, Goto(t, line)
        PROVE  Sole(t)'
    <2>1. pc'[t] = line
      BY <1>1, <1>3, Goes
    <2>2. QED
      BY <1>3, <2>1 DEF Sole, Answered, Gots, Passing
  <1>4. CASE IsCachedStep(t) \/ ReadETag(t) \/ ReadLastModified(t) \/ GetBytes(t)
    <2>1. /\ pc[t] \notin Answered /\ UNCHANGED asOf
          /\ \E line \in {"c_isFresh", "fetch_miss", "n_etag", "fetch", "c_lm", "n_lm",
                          "c_head", "c_get", "n_revalid", "c_size"} : Goto(t, line)
      BY <1>4 DEF IsCachedStep, ReadETag, ReadLastModified, GetBytes, Finds, At,
                  Answered, Gots, Passing
    <2>2. QED
      BY <1>2, <2>1 DEF Answered, Gots, Passing
  <1>5. CASE IsFresh(t)
    <2>1. /\ pc[t] \notin Answered /\ UNCHANGED <<cache, request, asOf>>
          /\ \/ \E line \in {"c_etag", "c_expired", "n_expired"} : Goto(t, line)
             \/ pc[t] = "n_isFresh" /\ Goto(t, "get")
      BY <1>5 DEF IsFresh, Finds, At, Answered, Gots, Passing
    <2>2. CASE pc[t] = "n_isFresh" /\ Goto(t, "get")
      <3>1. pc'[t] = "get" /\ Node(t)' = Node(t)
        BY <1>1, <2>1, <2>2, Goes DEF Node, key
      <3>2. QED
        BY <2>1, <2>2, <3>1 DEF Sole, Answered, Gots, Passing
    <2>3. QED
      BY <1>2, <2>1, <2>2 DEF Answered, Gots, Passing
  <1>6. CASE CheckRevalid(t)
    <2>1. /\ pc[t] \notin Answered /\ UNCHANGED <<cache, asOf>>
          /\ \/ Goto(t, "fetch")
             \/ Goto(t, "n_isFresh") /\ UNCHANGED request /\ Node(t).head \notin MustRevalid
      BY <1>6 DEF CheckRevalid, Finds, At, Answered, Gots, Passing
    <2>2. CASE Goto(t, "n_isFresh") /\ UNCHANGED request /\ Node(t).head \notin MustRevalid
      <3>1. pc'[t] = "n_isFresh" /\ Node(t)' = Node(t)
        BY <1>1, <2>1, <2>2, Goes DEF Node, key
      <3>2. QED
        BY <2>1, <2>2, <3>1 DEF Sole, Answered, Gots, Passing
    <2>3. QED
      BY <1>2, <2>1, <2>2 DEF Answered, Gots, Passing
  <1>7. CASE Expired(t)
    <2>1. pc[t] \notin Answered /\ UNCHANGED asOf /\ Goto(t, "fetch")
      BY <1>7 DEF Expired, Finds, At, Answered, Gots, Passing
    <2>2. QED
      BY <1>2, <2>1 DEF Answered, Gots, Passing
  <1>8. CASE \/ ReplyNotModified(t) \/ GetSizeAndReply(t) \/ FetchThrows(t)
             \/ Relay(t) \/ ChunkedDone(t) \/ GetAndReply(t)
    BY <1>3, <1>8 DEF ReplyNotModified, GetSizeAndReply, FetchThrows, Relay, ChunkedDone,
                      GetAndReply, Respond
  <1>9. CASE FetchFails(t)
    <2>1. PICK status \in {"400", "other"} : got' = [got EXCEPT ![t] = Formed(status)]
      BY <1>9 DEF FetchFails
    <2>2. pc[t] \in {"fetch", "fetch_miss", "fetch_bypass"} /\ Goto(t, AfterFetch[pc[t]])
      BY <1>9 DEF FetchFails, AtFetch, AfterFetch
    <2>3. pc'[t] \in Gots
      BY <1>1, <2>2, Goes DEF AfterFetch, Gots
    <2>4. got'[t].status = status /\ ~got'[t].chunked
      BY <1>1, <2>1 DEF Formed, TypeOK
    <2>5. QED
      BY <2>3, <2>4 DEF Sole, Answered, Gots, Passing
  <1>10. CASE FetchOk(t)
    <2>1. /\ pc[t] \in {"fetch", "fetch_miss", "fetch_bypass"}
          /\ asOf' = [asOf EXCEPT ![t] = version[key(t)]]
          /\ \E line \in {AfterFetch[pc[t]], WhileFetching[pc[t]], "closing"} : Goto(t, line)
      BY <1>10 DEF FetchOk, AtFetch, AfterFetch
    <2>2. pc'[t] \in Gots \union Passing \union {"closing"}
      BY <1>1, <2>1, Goes DEF AfterFetch, WhileFetching, Gots, Passing
    <2>3. version[key(t)] \in Versions
      BY <1>1, OwnBodies DEF TypeOK
    <2>4. asOf'[t] # 0
      BY <1>1, <2>1, <2>3 DEF TypeOK, Versions
    <2>5. QED
      BY <2>2, <2>4 DEF Sole, Answered, Gots, Passing
  <1>11. CASE PassChunks(t)
    <2>1. /\ pc[t] \in {"chunks", "chunks_miss", "chunks_bypass"} /\ UNCHANGED asOf
          /\ \E line \in {AfterChunks[pc[t]], "closing", "cut"} : Goto(t, line)
      BY <1>11 DEF PassChunks, AfterChunks
    <2>2. pc'[t] \in Gots \union {"closing", "cut"}
      BY <1>1, <2>1, Goes DEF AfterChunks, Gots
    <2>3. QED
      BY <2>1, <2>2 DEF Sole, Answered, Gots, Passing
  <1>12. CASE Store(t)
    <2>1. /\ Goto(t, "get") /\ asOf' = asOf /\ pc[t] \in Gots
          /\ got[t].status \in {"200", "304"}
      BY <1>12, Stored DEF Gots
    <2>2. pc'[t] = "get" /\ asOf'[t] # 0
      BY <1>1, <2>1, Goes DEF Sole
    <2>3. QED
      BY <2>2 DEF Sole, Answered, Gots, Passing
  <1>13. CASE Close(t)
    <2>1. pc'[t] = "idle" /\ asOf'[t] = 0
      BY <1>1, <1>13, Goes DEF Close, TypeOK
    <2>2. QED
      BY <2>1 DEF Sole, Answered, Gots, Passing
  <1>14. CASE Arrive(t)
    <2>1. /\ pc[t] \notin Answered /\ UNCHANGED asOf
          /\ \E line \in {"c_isCached", "fetch_bypass", "n_isCached"} : Goto(t, line)
      BY <1>14 DEF Arrive, At, Answered, Gots, Passing
    <2>2. QED
      BY <1>2, <2>1 DEF Answered, Gots, Passing
  <1>15. ~(Handle(t) /\ Crash(t))
    BY NoStepCrashes
  <1>16. QED
    BY <1>4, <1>5, <1>6, <1>7, <1>8, <1>9, <1>10, <1>11, <1>12, <1>13, <1>14, <1>15
       DEF Handle

LEMMA StepSoleInv == IInv /\ KeepInv /\ SoleInv /\ [Next]_vars => SoleInv'
  <1> SUFFICES ASSUME IInv, KeepInv, SoleInv, [Next]_vars, Alone, NEW u \in Threads
               PROVE  Sole(u)'
    BY DEF SoleInv, Alone
  <1>1. Sole(u)
    BY DEF SoleInv
  <1>2. ASSUME NEW t \in Threads, Handle(t) \/ Arrive(t)
        PROVE  Sole(u)'
    <2>1. t = u
      BY DEF Alone
    <2>2. QED
      BY <1>1, <1>2, <2>1, StepSole
  <1>3. CASE UNCHANGED <<cache, pc, request, got, asOf>>
    BY <1>1, <1>3 DEF Sole, Node, key
  <1>4. QED
    BY <1>2, <1>3 DEF Next, NewVersion, Overlap, vars

LEMMA SoleInvAlways == Spec => []SoleInv
  BY IInvAlways, KeepInvAlways, InitSoleInv, StepSoleInv, PTL DEF Spec

\* With one connection at a time, a response that must be revalidated never
\* answers an unconditional request unless the origin was asked.
THEOREM ValidatedFirst == Spec => [](Alone => ValidatedBeforeServed)
  <1>1. SoleInv => (Alone => ValidatedBeforeServed)
    BY DEF SoleInv, Sole, ValidatedBeforeServed
  <1>2. QED
    BY <1>1, SoleInvAlways, PTL

-----------------------------------------------------------------------------
(* Validators and bodies, one connection at a time.                         *)

\* No request has validators of its own.
PlainRequests == \A kind \in Kinds : ~kind.inm /\ ~kind.ims

\* The lines only a conditional request gets to.
Conditional == {"c_isCached", "c_isFresh", "c_etag", "c_lm", "c_head", "c_get", "c_size",
                "c_expired", "fetch_miss", "chunks_miss", "got_miss"}

PlainInv == PlainRequests => \A t \in Threads : pc[t] \notin Conditional

\* Does the request ask the origin to validate.
Asks(t) == request[t].inm # NoTag \/ request[t].ims # NoTag

LEMMA InitPlainInv == Init => PlainInv
  BY DEF Init, PlainInv, Conditional

LEMMA StepPlainInv == IInv /\ PlainInv /\ [Next]_vars => PlainInv'
  <1> SUFFICES ASSUME IInv, PlainInv, [Next]_vars, PlainRequests, NEW u \in Threads
               PROVE  pc'[u] \notin Conditional
    BY DEF PlainInv, PlainRequests
  <1>1. TypeOK /\ pc[u] \notin Conditional
    BY DEF IInv, PlainInv
  <1>2. ASSUME NEW t \in Threads, NEW line, Goto(t, line), line \notin Conditional
        PROVE  pc'[u] \notin Conditional
    BY <1>1, <1>2, Goes
  <1>3. ASSUME NEW t \in Threads, Handle(t)
        PROVE  pc'[u] \notin Conditional
    <2>1. pc[t] \notin Conditional
      BY DEF PlainInv
    <2>2. CASE \/ IsCachedStep(t) \/ IsFresh(t) \/ ReadETag(t) \/ ReadLastModified(t)
               \/ ReplyNotModified(t) \/ GetBytes(t) \/ GetSizeAndReply(t)
               \/ CheckRevalid(t) \/ Expired(t)
      <3>1. \/ \E line \in {"n_etag", "fetch", "get", "n_expired", "n_lm", "n_revalid",
                            "n_isFresh", "closing"} : Goto(t, line)
            \/ pc[t] \in Conditional
        BY <2>2 DEF IsCachedStep, IsFresh, ReadETag, ReadLastModified, ReplyNotModified,
                    GetBytes, GetSizeAndReply, CheckRevalid, Expired, Finds, At, Conditional,
                    Respond
      <3>2. QED
        BY <1>2, <2>1, <3>1 DEF Conditional
    <2>3. CASE FetchFails(t) \/ FetchThrows(t) \/ FetchOk(t)
      <3>1. /\ pc[t] \in {"fetch", "fetch_bypass"}
            /\ \E line \in {AfterFetch[pc[t]], WhileFetching[pc[t]], "closing"} :
                  Goto(t, line)
        BY <2>1, <2>3 DEF FetchFails, FetchThrows, FetchOk, AtFetch, AfterFetch, Conditional
      <3>2. /\ AfterFetch[pc[t]] \notin Conditional /\ WhileFetching[pc[t]] \notin Conditional
            /\ "closing" \notin Conditional
        BY <3>1 DEF AfterFetch, WhileFetching, Conditional
      <3>3. QED
        BY <1>2, <3>1, <3>2
    <2>4. CASE PassChunks(t)
      <3>1. /\ pc[t] \in {"chunks", "chunks_bypass"}
            /\ \E line \in {AfterChunks[pc[t]], "cut", "closing"} : Goto(t, line)
        BY <2>1, <2>4 DEF PassChunks, AfterChunks, Conditional
      <3>2. AfterChunks[pc[t]] \notin Conditional /\ {"cut", "closing"} \cap Conditional = {}
        BY <3>1 DEF AfterChunks, Conditional
      <3>3. QED
        BY <1>2, <3>1, <3>2
    <2>5. CASE \/ Relay(t) \/ ChunkedDone(t) \/ Store(t) \/ GetAndReply(t) \/ Close(t)
      <3>1. \E line \in {"get", "closing", "idle"} : Goto(t, line)
        BY <2>5 DEF Relay, ChunkedDone, Store, GetAndReply, Close, Respond
      <3>2. QED
        BY <1>2, <3>1 DEF Conditional
    <2>6. CASE Crash(t)
      BY <1>1, <2>6 DEF Crash
    <2>7. QED
      BY <1>3, <2>2, <2>3, <2>4, <2>5, <2>6 DEF Handle
  <1>4. ASSUME NEW t \in Threads, Arrive(t)
        PROVE  pc'[u] \notin Conditional
    <2>1. \E line \in {"fetch_bypass", "n_isCached"} : Goto(t, line)
      BY <1>4 DEF Arrive, PlainRequests
    <2>2. QED
      BY <1>2, <2>1 DEF Conditional
  <1>5. CASE UNCHANGED pc
    BY <1>1, <1>5
  <1>6. QED
    BY <1>3, <1>4, <1>5 DEF Next, NewVersion, Overlap, vars

\* The node of a cached target is live and carries its key.
LEMMA NodeOf ==
    ASSUME IInv, Running, NEW t \in Threads, IsCached(cache, key(t))
    PROVE  /\ cache.cacheMap[key(t)] \in cache.live
           /\ cache.cacheKey[cache.cacheMap[key(t)]] = key(t)
           /\ Node(t) \in Entry
  <1>1. cache \in CacheValue /\ key(t) \in Keys /\ Structure(cache)
    BY DEF IInv, TypeOK, CacheInv, HttpRequest, key
  <1>2. /\ cache.cacheMap[key(t)] \in cache.live
        /\ cache.cacheKey[cache.cacheMap[key(t)]] = key(t)
    BY <1>1 DEF Structure, MapAgrees
  <1>3. QED
    BY <1>1, <1>2 DEF CacheValue, Node

LEMMA PlainInvAlways == Spec => []PlainInv
  BY IInvAlways, InitPlainInv, StepPlainInv, PTL DEF Spec

\* The validators an entry may hold with the body of version v: those that
\* come with it or, where the origin leaves them out, older ones.
HeldTags(v) == {NoTag} \union 1..v

\* An entry for target k with the body of a version up to v.
Dated(e, k, v) ==
    \E b \in 1..v : /\ e.body \in Bodied(k, b)
                    /\ e.ETag \in HeldTags(b) /\ e.LastModified \in HeldTags(b)

DatedEntries ==
    \A n \in cache.live :
       Dated(cache.entry[n], cache.cacheKey[n], version[cache.cacheKey[n]])

\* What a thread knows of the node stays true while it asks the origin, and
\* what it knows of the origin while it goes back to the cache.
Faith(t) ==
    /\ pc[t] \in {"n_isCached", "n_etag", "n_lm", "n_revalid", "n_isFresh", "n_expired"}
          => ~Asks(t)
    /\ pc[t] \in {"n_lm", "n_revalid", "n_isFresh", "n_expired"}
          => held[t].ETag = Node(t).ETag
    /\ pc[t] \in {"n_revalid", "n_isFresh", "n_expired"}
          => held[t].LastModified = Node(t).LastModified
    /\ pc[t] = "fetch" /\ Asks(t) => /\ IsCached(cache, key(t))
                                     /\ request[t].inm = Node(t).ETag
                                     /\ request[t].ims = Node(t).LastModified
    /\ asOf[t] # 0 => asOf[t] \in 1..version[key(t)]
    /\ asOf[t] # 0 /\ pc[t] \in Gots \union Passing =>
          /\ got[t].status \in {"200", "304"} =>
                got[t].ETag \in Given(asOf[t]) /\ got[t].LastModified \in Given(asOf[t])
          /\ got[t].status = "200" => got[t].body \in Bodied(key(t), asOf[t])
          /\ IsCached(cache, key(t)) => Dated(Node(t), key(t), asOf[t])
    /\ pc[t] \in {"chunks", "got"} /\ got[t].status = "304" =>
          IsCached(cache, key(t)) /\ Node(t).body \in Bodied(key(t), asOf[t])
    /\ pc[t] = "get" /\ asOf[t] # 0 => Node(t).body \in Bodied(key(t), asOf[t])
    /\ asOf[t] # 0 =>
          \A i \in 1..Len(sent[t]) :
             sent[t][i].status = "200" => sent[t][i].body \in Bodied(key(t), asOf[t])

FaithInv ==
    Alone /\ PlainRequests => DatedEntries /\ \A t \in Threads : Faith(t)

LEMMA GivenHeld ==
    ASSUME NEW v \in Versions
    PROVE  Given(v) \subseteq HeldTags(v)
  <1>1. v \in 1..v
    BY DataAssumption DEF Versions
  <1>2. QED
    BY <1>1 DEF Given, HeldTags

\* put over an older body: the new validators, or old ones where none came.
LEMMA PresentHeld ==
    ASSUME NEW v \in Versions, NEW b \in 1..v, NEW new \in Given(v), NEW old \in HeldTags(b)
    PROVE  Present(new, old) \in HeldTags(v)
  <1>1. 1..b \subseteq 1..v /\ v \in 1..v
    BY DataAssumption DEF Versions
  <1>2. QED
    BY <1>1 DEF Given, HeldTags, Present

\* A node that holds the validator of the current version has its body.
LEMMA HeldDates ==
    ASSUME NEW v \in Versions, NEW b \in 1..v, v \in HeldTags(b)
    PROVE  b = v
  <1>1. v # NoTag
    BY DataAssumption
  <1>2. v \in 1..b
    BY <1>1 DEF HeldTags
  <1>3. QED
    BY <1>2, DataAssumption DEF Versions

LEMMA DatedLater ==
    ASSUME NEW e, NEW k, NEW v \in Int, NEW w \in Int, v <= w, Dated(e, k, v)
    PROVE  Dated(e, k, w)
  <1>1. 1..v \subseteq 1..w
    OBVIOUS
  <1>2. QED
    BY <1>1 DEF Dated

LEMMA InitFaithInv == Init => FaithInv
  <1> SUFFICES ASSUME Init
               PROVE  FaithInv
    OBVIOUS
  <1>1. cache.live = {}
    BY DEF Init, EmptyCache
  <1>2. ASSUME NEW t \in Threads
        PROVE  Faith(t)
    <2>1. pc[t] = "idle" /\ asOf[t] = 0
      BY DEF Init
    <2>2. QED
      BY <2>1 DEF Faith, Gots, Passing
  <1>3. QED
    BY <1>1, <1>2 DEF FaithInv, DatedEntries

\* A thread that is done with the cache.
LEMMA FaithGoes ==
    ASSUME IInv, NEW t \in Threads, Faith(t), NEW line \in {"closing", "cut"},
           Goto(t, line), UNCHANGED <<version, request, asOf, sent>>
    PROVE  Faith(t)'
  <1>1. pc'[t] = line
    BY Goes DEF IInv
  <1>2. key(t)' = key(t)
    BY DEF key
  <1>3. QED
    BY <1>1, <1>2 DEF Faith, Gots, Passing

LEMMA FaithResponds ==
    ASSUME IInv, NEW t \in Threads, Faith(t), NEW status, NEW body,
           Respond(t, status, body),
           asOf[t] # 0 /\ status = "200" => body \in Bodied(key(t), asOf[t]),
           UNCHANGED <<version, request, asOf>>
    PROVE  Faith(t)'
  <1> DEFINE a == [status |-> status, body |-> body]
  <1>1. /\ TypeOK /\ sent \in [Threads -> Seq(Answer)] /\ sent[t] \in Seq(Answer)
    BY DEF IInv, TypeOK
  <1>2. pc'[t] = "closing" /\ key(t)' = key(t)
    BY <1>1, Goes DEF Respond, key
  <1>3. a.status = status /\ a.body = body
    OBVIOUS
  <1>4. sent' = [sent EXCEPT ![t] = Append(@, a)] \/ UNCHANGED sent
    BY DEF Respond
  <1> HIDE DEF a
  <1>5. ASSUME asOf[t] # 0, NEW i \in 1..Len(sent'[t]), sent'[t][i].status = "200"
        PROVE  sent'[t][i].body \in Bodied(key(t), asOf[t])
    <2>1. CASE sent' = [sent EXCEPT ![t] = Append(@, a)]
      <3>1. sent'[t] = Append(sent[t], a)
        BY <1>1, <2>1
      <3>2. \/ i \in 1..Len(sent[t]) /\ sent'[t][i] = sent[t][i]
            \/ sent'[t][i] = a
        <4>1. DOMAIN sent[t] = 1..Len(sent[t]) /\ Len(sent[t]) \in Nat
          BY <1>1
        <4>2. Len(sent'[t]) = Len(sent[t]) + 1
          BY <1>1, <3>1
        <4>3. i = Len(sent[t]) + 1 \/ i \in 1..Len(sent[t])
          BY <1>5, <4>1, <4>2
        <4>4. QED
          BY <1>1, <3>1, <4>3
      <3>3. QED
        BY <1>3, <1>5, <3>2 DEF Faith
    <2>2. CASE UNCHANGED sent
      BY <1>5, <2>2 DEF Faith
    <2>3. QED
      BY <1>4, <2>1, <2>2
  <1>6. QED
    BY <1>2, <1>5 DEF Faith, Gots, Passing

LEMMA StepFaithReads ==
    ASSUME IInv, KeepInv, Alone, NEW t \in Threads, Sole(t), Faith(t),
           pc[t] \notin Conditional,
           \/ IsCachedStep(t) \/ IsFresh(t) \/ ReadETag(t) \/ ReadLastModified(t)
           \/ ReplyNotModified(t) \/ GetBytes(t) \/ GetSizeAndReply(t)
           \/ CheckRevalid(t) \/ Expired(t) \/ GetAndReply(t)
    PROVE  Faith(t)'
  <1>1. /\ TypeOK
        /\ pc[t] \in Looking => IsCached(cache, key(t))
    BY DEF IInv, KeepInv
  <1>2. CASE IsCachedStep(t) \/ IsFresh(t) \/ ReadETag(t) \/ ReadLastModified(t)
    <2>1. /\ UNCHANGED <<cache, version, request, asOf, sent>>
          /\ key(t)' = key(t) /\ Node(t)' = Node(t) /\ (Asks(t)' <=> Asks(t))
      BY <1>2 DEF IsCachedStep, IsFresh, ReadETag, ReadLastModified, key, Node, Asks
    <2>2. pc[t] \notin Answered
      BY <1>2 DEF IsCachedStep, IsFresh, ReadETag, ReadLastModified, Finds, At,
                  Answered, Gots, Passing
    <2>3. asOf'[t] = 0
      BY <2>1, <2>2 DEF Sole
    <2>4. ~Asks(t)'
      BY <1>2, <2>1 DEF IsCachedStep, IsFresh, ReadETag, ReadLastModified, Finds, At,
                        Conditional, Faith
    <2>5. CASE IsCachedStep(t) \/ IsFresh(t)
      <3>1. \/ \E line \in {"n_etag", "fetch", "get"} : Goto(t, line)
            \/ pc[t] = "n_isFresh" /\ Goto(t, "n_expired") /\ UNCHANGED held
        BY <2>5 DEF IsCachedStep, IsFresh, Finds, At, Conditional
      <3>2. \/ pc'[t] \in {"n_etag", "fetch", "get"}
            \/ pc[t] = "n_isFresh" /\ pc'[t] = "n_expired" /\ UNCHANGED held
        BY <1>1, <3>1, Goes
      <3>3. QED
        BY <2>1, <2>3, <2>4, <3>2 DEF Faith, Gots, Passing
    <2>6. CASE ReadETag(t)
      <3>1. /\ Goto(t, "n_lm") /\ held' = [held EXCEPT ![t].ETag = Node(t).ETag]
        BY <2>6 DEF ReadETag, Finds, At, Conditional
      <3>2. pc'[t] = "n_lm" /\ held'[t].ETag = Node(t).ETag
        BY <1>1, <3>1, Goes DEF TypeOK
      <3>3. QED
        BY <2>1, <2>3, <2>4, <3>2 DEF Faith, Gots, Passing
    <2>7. CASE ReadLastModified(t)
      <3>1. /\ pc[t] = "n_lm" /\ Goto(t, "n_revalid")
            /\ held' = [held EXCEPT ![t].LastModified = Node(t).LastModified]
        BY <2>7 DEF ReadLastModified, Finds, At, Conditional
      <3>2. /\ pc'[t] = "n_revalid" /\ held'[t].LastModified = Node(t).LastModified
            /\ held'[t].ETag = held[t].ETag
        BY <1>1, <3>1, Goes DEF TypeOK
      <3>3. QED
        BY <2>1, <2>3, <2>4, <3>1, <3>2 DEF Faith, Gots, Passing
    <2>8. QED
      BY <1>2, <2>5, <2>6, <2>7
  <1>3. CASE CheckRevalid(t) \/ Expired(t)
    <2>1. /\ pc[t] \in {"n_revalid", "n_expired"}
          /\ UNCHANGED <<cache, version, held, asOf, sent>>
          /\ \/ BuildConRequest(t) /\ Goto(t, "fetch")
             \/ pc[t] = "n_revalid" /\ UNCHANGED request /\ Goto(t, "n_isFresh")
      BY <1>3 DEF CheckRevalid, Expired, Finds, At, Conditional
    <2>2. IsCached(cache, key(t)) /\ asOf'[t] = 0
      BY <1>1, <2>1 DEF Looking, Sole, Answered, Gots, Passing
    <2>3. CASE BuildConRequest(t) /\ Goto(t, "fetch")
      <3>1. pc'[t] = "fetch"
        BY <1>1, <2>3, Goes
      <3>2. /\ key(t)' = key(t) /\ request'[t].inm = held[t].ETag
            /\ request'[t].ims = held[t].LastModified
        BY <1>1, <2>3 DEF key, BuildConRequest, TypeOK, HttpRequest
      <3>3. Node(t)' = Node(t) /\ IsCached(cache, key(t))'
        BY <2>1, <2>2, <3>2 DEF Node, IsCached
      <3>4. held[t].ETag = Node(t).ETag /\ held[t].LastModified = Node(t).LastModified
        BY <2>1 DEF Faith
      <3>5. QED
        BY <2>2, <3>1, <3>2, <3>3, <3>4 DEF Faith, Gots, Passing
    <2>4. CASE pc[t] = "n_revalid" /\ UNCHANGED request /\ Goto(t, "n_isFresh")
      <3>1. /\ pc'[t] = "n_isFresh" /\ key(t)' = key(t) /\ Node(t)' = Node(t)
            /\ (Asks(t)' <=> Asks(t))
        BY <1>1, <2>1, <2>4, Goes DEF key, Node, Asks
      <3>2. QED
        BY <2>1, <2>2, <2>4, <3>1 DEF Faith, Gots, Passing
    <2>5. QED
      BY <2>1, <2>3, <2>4
  <1>4. CASE GetAndReply(t)
    <2>1. /\ pc[t] = "get" /\ Respond(t, "200", Node(t).body)
          /\ UNCHANGED <<version, request, asOf>>
      BY <1>4 DEF GetAndReply, Finds, At
    <2>2. asOf[t] # 0 => Node(t).body \in Bodied(key(t), asOf[t])
      BY <2>1 DEF Faith
    <2>3. QED
      BY <2>1, <2>2, FaithResponds
  <1>5. CASE ReplyNotModified(t) \/ GetBytes(t) \/ GetSizeAndReply(t)
    BY <1>5 DEF ReplyNotModified, GetBytes, GetSizeAndReply, Finds, At, Conditional
  <1>6. QED
    BY <1>2, <1>3, <1>4, <1>5

LEMMA StepFaithFetches ==
    ASSUME IInv, Running, DatedEntries, NEW t \in Threads, Sole(t), Faith(t),
           pc[t] \notin Conditional,
           FetchFails(t) \/ FetchThrows(t) \/ FetchOk(t) \/ PassChunks(t)
    PROVE  Faith(t)'
  <1>1. /\ TypeOK /\ ThreadInv(t) /\ request[t] \in HttpRequest
        /\ version[key(t)] \in Versions
    BY OwnBodies DEF IInv, TypeOK
  <1>2. UNCHANGED <<cache, version, request>>
    BY DEF FetchFails, FetchThrows, FetchOk, PassChunks
  <1>3. /\ key(t)' = key(t) /\ Node(t)' = Node(t)
        /\ IsCached(cache, key(t))' <=> IsCached(cache, key(t))
    BY <1>2 DEF key, Node, IsCached
  <1>4. CASE FetchThrows(t)
    <2>1. Goto(t, "closing") /\ UNCHANGED <<asOf, sent>>
      BY <1>4 DEF FetchThrows
    <2>2. QED
      BY <1>2, <2>1, FaithGoes
  <1>5. CASE FetchFails(t)
    <2>1. PICK status \in {"400", "other"} : got' = [got EXCEPT ![t] = Formed(status)]
      BY <1>5 DEF FetchFails
    <2>2. /\ pc[t] \in {"fetch", "fetch_bypass"} /\ UNCHANGED asOf
          /\ Goto(t, AfterFetch[pc[t]])
      BY <1>5 DEF FetchFails, AtFetch, AfterFetch, Conditional
    <2>3. pc'[t] \in {"got", "got_bypass"}
      BY <1>1, <2>2, Goes DEF AfterFetch
    <2>4. asOf'[t] = 0 /\ got'[t].status \notin {"200", "304"}
      BY <1>1, <2>1, <2>2 DEF Sole, Answered, Gots, Passing, TypeOK, Formed
    <2>5. QED
      BY <2>3, <2>4 DEF Faith
  <1>6. CASE FetchOk(t)
    <2> DEFINE v == version[key(t)]
    <2>1. PICK r \in Answers(request[t], v) :
             /\ got' = [got EXCEPT ![t] = r]
             /\ \E line \in {AfterFetch[pc[t]], WhileFetching[pc[t]], "closing"} :
                   Goto(t, line)
      BY <1>6 DEF FetchOk
    <2>2. /\ pc[t] \in {"fetch", "fetch_bypass"} /\ UNCHANGED sent
          /\ asOf' = [asOf EXCEPT ![t] = v]
      BY <1>6 DEF FetchOk, AtFetch, AfterFetch, Conditional
    <2>3. /\ r.status = "200" => r.body \in Bodied(key(t), v)
          /\ r.status = "304" => Validates(request[t], v)
          /\ r.status \in {"200", "304"} => r.ETag \in Given(v) /\ r.LastModified \in Given(v)
      BY <1>1, <2>1, AnswersSay DEF key
    <2>4. /\ pc'[t] \in {"got", "got_bypass", "chunks", "chunks_bypass", "closing"}
          /\ pc'[t] \in {"chunks", "got"} => pc[t] = "fetch"
      BY <1>1, <2>1, <2>2, Goes DEF AfterFetch, WhileFetching
    <2>5. /\ got'[t] = r /\ asOf'[t] = v /\ sent'[t] = <<>> /\ Len(sent'[t]) = 0
      BY <1>1, <2>1, <2>2 DEF TypeOK, ThreadInv, Gots
    <2>6. v \in 1..v
      BY <1>1, DataAssumption DEF Versions
    <2>7. IsCached(cache, key(t)) => Dated(Node(t), key(t), v)
      BY NodeOf DEF DatedEntries, Node
    <2>8. ASSUME pc[t] = "fetch", r.status = "304"
          PROVE  IsCached(cache, key(t)) /\ Node(t).body \in Bodied(key(t), v)
      <3>1. Validates(request[t], v) /\ v # NoTag
        BY <1>1, <2>3, <2>8, DataAssumption
      <3>2. Asks(t)
        BY <3>1 DEF Validates, Asks
      <3>3. /\ IsCached(cache, key(t)) /\ request[t].inm = Node(t).ETag
            /\ request[t].ims = Node(t).LastModified
        BY <2>8, <3>2 DEF Faith
      <3>4. v = Node(t).ETag \/ v = Node(t).LastModified
        BY <3>1, <3>3 DEF Validates
      <3>5. PICK b \in 1..v : /\ Node(t).body \in Bodied(key(t), b)
                              /\ Node(t).ETag \in HeldTags(b)
                              /\ Node(t).LastModified \in HeldTags(b)
        BY <2>7, <3>3 DEF Dated
      <3>6. b = v
        BY <1>1, <3>4, <3>5, HeldDates
      <3>7. QED
        BY <3>3, <3>5, <3>6
    <2> HIDE DEF v
    <2>9. version[key(t)]' = v
      BY <1>2, <1>3 DEF v
    <2>10. QED
      BY <1>2, <1>3, <2>3, <2>4, <2>5, <2>6, <2>7, <2>8, <2>9 DEF Faith, Gots, Passing
  <1>7. CASE PassChunks(t)
    <2>1. /\ pc[t] \in {"chunks", "chunks_bypass"} /\ UNCHANGED <<got, asOf>>
      BY <1>7 DEF PassChunks, AfterChunks, Conditional
    <2>2. CASE \E line \in {"closing", "cut"} : Goto(t, line) /\ UNCHANGED sent
      BY <1>2, <2>1, <2>2, FaithGoes
    <2>3. CASE /\ sent' = [sent EXCEPT ![t] =
                      Append(@, [status |-> got[t].status, body |-> got[t].body])]
               /\ Goto(t, AfterChunks[pc[t]])
      <3> DEFINE a == [status |-> got[t].status, body |-> got[t].body]
      <3>1. sent[t] = <<>>
        BY <1>1, <2>1 DEF ThreadInv, Gots
      <3>2. sent'[t] = <<a>>
        BY <1>1, <2>3, <3>1 DEF TypeOK
      <3>3. a.status = got[t].status /\ a.body = got[t].body
        OBVIOUS
      <3> HIDE DEF a
      <3>4. Len(sent'[t]) = 1 /\ \A i \in 1..Len(sent'[t]) : sent'[t][i] = a
        BY <3>2
      <3>5. /\ pc'[t] \in {"got", "got_bypass"}
            /\ pc'[t] = "got" => pc[t] = "chunks"
        BY <1>1, <2>1, <2>3, Goes DEF AfterChunks
      <3>6. asOf[t] # 0 /\ asOf[t] \in 1..version[key(t)]
        BY <2>1 DEF Sole, Faith, Passing
      <3>7. /\ got[t].status \in {"200", "304"} =>
                  got[t].ETag \in Given(asOf[t]) /\ got[t].LastModified \in Given(asOf[t])
            /\ got[t].status = "200" => got[t].body \in Bodied(key(t), asOf[t])
            /\ IsCached(cache, key(t)) => Dated(Node(t), key(t), asOf[t])
        BY <2>1, <3>6 DEF Faith, Passing
      <3>8. version[key(t)]' = version[key(t)]
        BY <1>2, <1>3
      <3>9. QED
        BY <1>3, <2>1, <3>3, <3>4, <3>5, <3>6, <3>7, <3>8 DEF Faith, Gots, Passing
    <2>4. QED
      BY <1>7, <2>2, <2>3 DEF PassChunks
  <1>8. QED
    BY <1>4, <1>5, <1>6, <1>7

LEMMA StepFaithEnds ==
    ASSUME IInv, PlainRequests, NEW t \in Threads, Sole(t), Faith(t),
           pc[t] \notin Conditional,
           Relay(t) \/ ChunkedDone(t) \/ Close(t) \/ Arrive(t)
    PROVE  Faith(t)'
  <1>1. TypeOK /\ ThreadInv(t)
    BY DEF IInv
  <1>2. CASE Relay(t)
    <2>1. /\ pc[t] \in Gots /\ Respond(t, got[t].status, got[t].body)
          /\ UNCHANGED <<version, request, asOf>>
      BY <1>2 DEF Relay, Relays, Gots
    <2>2. asOf[t] # 0 /\ got[t].status = "200" => got[t].body \in Bodied(key(t), asOf[t])
      BY <2>1 DEF Faith
    <2>3. QED
      BY <2>1, <2>2, FaithResponds
  <1>3. CASE ChunkedDone(t)
    BY <1>3, FaithGoes DEF ChunkedDone
  <1>4. CASE Close(t)
    <2>1. pc'[t] = "idle" /\ asOf'[t] = 0
      BY <1>1, <1>4, Goes DEF Close, TypeOK
    <2>2. QED
      BY <2>1 DEF Faith, Gots, Passing
  <1>5. CASE Arrive(t)
    <2>1. PICK k \in Keys, kind \in Kinds, v \in Versions :
            /\ request' = [request EXCEPT ![t] =
                 [key |-> k, inm |-> IfTag(kind.inm, v), ims |-> IfTag(kind.ims, v),
                  conditional |-> kind.inm \/ kind.ims,
                  forbid |-> kind.forbid, revalid |-> kind.revalid]]
            /\ Goto(t, IF kind.inm \/ kind.ims THEN "c_isCached"
                       ELSE IF kind.forbid THEN "fetch_bypass" ELSE "n_isCached")
      BY <1>5 DEF Arrive
    <2>2. /\ request'[t].inm = IfTag(kind.inm, v)
          /\ request'[t].ims = IfTag(kind.ims, v)
      BY <1>1, <2>1 DEF TypeOK
    <2>3. ~kind.inm /\ ~kind.ims
      BY DEF PlainRequests
    <2>4. ~Asks(t)' /\ pc'[t] \in {"fetch_bypass", "n_isCached"}
      BY <1>1, <2>1, <2>2, <2>3, Goes DEF Asks, IfTag
    <2>5. asOf'[t] = 0
      BY <1>5 DEF Arrive, At, Sole, Answered, Gots, Passing
    <2>6. QED
      BY <2>4, <2>5 DEF Faith, Gots, Passing
  <1>6. QED
    BY <1>2, <1>3, <1>4, <1>5

\* put: the entry of the target has the body of the version the origin just
\* spoke for, and validators that fit it.
LEMMA StepFaithStore ==
    ASSUME IInv, DatedEntries, NEW t \in Threads, Sole(t), Faith(t),
           pc[t] \notin Conditional, Store(t)
    PROVE  DatedEntries' /\ Faith(t)'
  <1> DEFINE v == asOf[t]
  <1>1. TypeOK /\ Running /\ ThreadInv(t) /\ version[key(t)] \in Versions
    BY OwnBodies DEF IInv, Store, TypeOK
  <1>2. PICK n \in cache'.live :
           /\ cache'.cacheMap[key(t)] = n /\ cache'.cacheKey[n] = key(t)
           /\ cache'.entry[n] = IF IsCached(cache, key(t))
                                THEN Updated(Node(t), got[t], 0)
                                ELSE NewEntry(got[t], 0)
           /\ \A m \in cache'.live \ {n} :
                 /\ m \in cache.live
                 /\ cache'.cacheKey[m] = cache.cacheKey[m]
                 /\ cache'.entry[m] = cache.entry[m]
    BY Stored
  <1>3. /\ UNCHANGED <<version, request, got, sent, asOf>> /\ pc[t] = "got"
        /\ got[t].status \in {"200", "304"} /\ Goto(t, "get")
    BY Stored DEF Conditional
  <1>4. pc'[t] = "get" /\ key(t)' = key(t) /\ Node(t)' = cache'.entry[n]
    BY <1>1, <1>2, <1>3, Goes DEF key, Node
  <1>5. v # 0 /\ v \in 1..version[key(t)] /\ v \in Versions
    <2>1. v # 0
      BY <1>3 DEF Sole, Gots
    <2>2. v \in 1..version[key(t)]
      BY <2>1 DEF Faith
    <2>3. QED
      BY <1>1, <2>1, <2>2, DataAssumption DEF Versions
  <1>6. /\ got[t].ETag \in Given(v) /\ got[t].LastModified \in Given(v)
        /\ got[t].status = "200" => got[t].body \in Bodied(key(t), v)
        /\ IsCached(cache, key(t)) => Dated(Node(t), key(t), v)
        /\ got[t].status = "304" =>
              IsCached(cache, key(t)) /\ Node(t).body \in Bodied(key(t), v)
    BY <1>3, <1>5 DEF Faith, Gots
  <1> HIDE DEF v
  <1>7. /\ cache'.entry[n].body \in Bodied(key(t), v)
        /\ cache'.entry[n].ETag \in HeldTags(v)
        /\ cache'.entry[n].LastModified \in HeldTags(v)
    <2>1. CASE IsCached(cache, key(t))
      <3>1. PICK b \in 1..v : /\ Node(t).ETag \in HeldTags(b)
                              /\ Node(t).LastModified \in HeldTags(b)
        BY <1>6, <2>1 DEF Dated
      <3>2. /\ Present(got[t].ETag, Node(t).ETag) \in HeldTags(v)
            /\ Present(got[t].LastModified, Node(t).LastModified) \in HeldTags(v)
        BY <1>5, <1>6, <3>1, PresentHeld
      <3>3. /\ cache'.entry[n].ETag = Present(got[t].ETag, Node(t).ETag)
            /\ cache'.entry[n].LastModified =
                  Present(got[t].LastModified, Node(t).LastModified)
            /\ cache'.entry[n].body =
                  IF got[t].status = "304" THEN Node(t).body ELSE got[t].body
        BY <1>2, <2>1 DEF Updated
      <3>4. QED
        BY <1>3, <1>6, <3>2, <3>3
    <2>2. CASE ~IsCached(cache, key(t))
      <3>1. /\ cache'.entry[n].ETag = got[t].ETag
            /\ cache'.entry[n].LastModified = got[t].LastModified
            /\ cache'.entry[n].body = got[t].body
        BY <1>2, <2>2 DEF NewEntry
      <3>2. QED
        BY <1>3, <1>5, <1>6, <2>2, <3>1, GivenHeld
    <2>3. QED
      BY <2>1, <2>2
  <1>8. Dated(cache'.entry[n], key(t), version[key(t)])
    BY <1>5, <1>7 DEF Dated
  <1>9. ASSUME NEW m \in cache'.live
        PROVE  Dated(cache'.entry[m], cache'.cacheKey[m], version[cache'.cacheKey[m]])
    BY <1>2, <1>8 DEF DatedEntries
  <1>10. DatedEntries'
    BY <1>3, <1>9 DEF DatedEntries, Dated
  <1>11. asOf'[t] = v /\ sent'[t] = sent[t] /\ version[key(t)]' = version[key(t)]
    BY <1>3, <1>4 DEF v
  <1>12. Len(sent[t]) = 0
    <2>1. Len(sent[t]) <= 0 /\ Len(sent[t]) \in Nat
      BY <1>1, <1>3 DEF ThreadInv, Gots, Store, Puts, TypeOK
    <2>2. QED
      BY <2>1
  <1>13. Faith(t)'
    BY <1>4, <1>5, <1>7, <1>11, <1>12 DEF Faith, Gots, Passing
  <1>14. QED
    BY <1>10, <1>13

LEMMA StepFaithInv ==
    IInv /\ KeepInv /\ PlainInv /\ SoleInv /\ FaithInv /\ [Next]_vars => FaithInv'
  <1> SUFFICES ASSUME IInv, KeepInv, PlainInv, SoleInv, FaithInv, [Next]_vars,
                      Alone, PlainRequests
               PROVE  DatedEntries' /\ \A u \in Threads : Faith(u)'
    BY DEF FaithInv, Alone, PlainRequests
  <1>1. /\ TypeOK /\ Running /\ DatedEntries
        /\ \A u \in Threads : Faith(u) /\ Sole(u) /\ pc[u] \notin Conditional
    BY DEF IInv, KeepInv, PlainInv, SoleInv, FaithInv
  <1>2. ASSUME NEW t \in Threads, Handle(t) \/ Arrive(t)
        PROVE  DatedEntries' /\ \A u \in Threads : Faith(u)'
    <2>1. ~(Handle(t) /\ Crash(t))
      BY <1>1, NoStepCrashes
    <2>2. Store(t) \/ UNCHANGED <<cache, version>>
      BY <1>2, <2>1
         DEF Handle, Arrive, IsCachedStep, IsFresh, ReadETag, ReadLastModified,
             ReplyNotModified, GetBytes, GetSizeAndReply, CheckRevalid, Expired,
             FetchFails, FetchThrows, FetchOk, PassChunks, Relay, ChunkedDone,
             GetAndReply, Close
    <2>3. DatedEntries'
      <3>1. CASE Store(t)
        BY <1>1, <3>1, StepFaithStore
      <3>2. CASE UNCHANGED <<cache, version>>
        BY <1>1, <3>2 DEF DatedEntries, Dated
      <3>3. QED
        BY <2>2, <3>1, <3>2
    <2>4. Faith(t)'
      BY <1>1, <1>2, <2>1, StepFaithReads, StepFaithFetches, StepFaithStore, StepFaithEnds
         DEF Handle
    <2>5. \A u \in Threads : u = t
      BY DEF Alone
    <2>6. QED
      BY <2>3, <2>4, <2>5
  <1>3. ASSUME NEW k \in Keys, NewVersion(k)
        PROVE  DatedEntries' /\ \A u \in Threads : Faith(u)'
    <2>1. /\ UNCHANGED <<cache, pc, request, held, got, copy, sent, asOf>>
          /\ version' = [version EXCEPT ![k] = @ + 1]
      BY <1>3 DEF NewVersion
    <2>2. \A j \in Keys : version[j] \in Int /\ version'[j] \in Int /\ version[j] <= version'[j]
      BY <1>1, <2>1, DataAssumption DEF TypeOK, Versions
    <2>3. DatedEntries'
      <3>1. ASSUME NEW n \in cache.live
            PROVE  Dated(cache.entry[n], cache.cacheKey[n], version'[cache.cacheKey[n]])
        <4>1. cache.cacheKey[n] \in Keys
          BY <1>1 DEF TypeOK, CacheValue
        <4>2. QED
          BY <1>1, <2>2, <4>1, DatedLater DEF DatedEntries
      <3>2. QED
        BY <2>1, <3>1 DEF DatedEntries, Dated
    <2>4. ASSUME NEW u \in Threads
          PROVE  Faith(u)'
      <3>1. key(u) \in Keys /\ Faith(u)
        BY <1>1, OwnBodies
      <3>2. /\ key(u)' = key(u) /\ Node(u)' = Node(u) /\ (Asks(u)' <=> Asks(u))
            /\ IsCached(cache, key(u))' <=> IsCached(cache, key(u))
        BY <2>1 DEF key, Node, Asks, IsCached
      <3>3. 1..version[key(u)] \subseteq 1..version[key(u)]'
        <4>1. version[key(u)]' = version'[key(u)]
          BY <3>2
        <4>2. QED
          BY <2>2, <3>1, <4>1
      <3>4. QED
        BY <2>1, <3>1, <3>2, <3>3 DEF Faith
    <2>5. QED
      BY <2>3, <2>4
  <1>4. CASE UNCHANGED vars
    <2>1. UNCHANGED <<cache, version, pc, request, held, got, copy, sent, asOf>>
      BY <1>4 DEF vars
    <2>2. DatedEntries'
      BY <1>1, <2>1 DEF DatedEntries, Dated
    <2>3. ASSUME NEW u \in Threads
          PROVE  Faith(u)'
      <3>1. /\ key(u)' = key(u) /\ Node(u)' = Node(u) /\ (Asks(u)' <=> Asks(u))
            /\ IsCached(cache, key(u))' <=> IsCached(cache, key(u))
            /\ version[key(u)]' = version[key(u)]
        BY <2>1 DEF key, Node, Asks, IsCached
      <3>2. QED
        BY <1>1, <2>1, <3>1 DEF Faith
    <2>4. QED
      BY <2>2, <2>3
  <1>5. \A t, u \in Threads : ~Overlap(t, u)
    BY DEF Alone, Overlap
  <1>6. QED
    BY <1>2, <1>3, <1>4, <1>5 DEF Next

LEMMA FaithInvAlways == Spec => []FaithInv
  BY IInvAlways, KeepInvAlways, PlainInvAlways, SoleInvAlways, InitFaithInv, StepFaithInv,
     PTL DEF Spec

\* With one connection at a time and no validators of a browser's own, an
\* answer the origin was asked for carries the version that was current when
\* the origin answered, in full or by a 304, even where validators have been
\* left from older versions.
THEOREM CurrentAnswers == Spec => [](Alone /\ PlainRequests => RevalidatedIsCurrent)
  <1>1. FaithInv => (Alone /\ PlainRequests => RevalidatedIsCurrent)
    BY DEF FaithInv, Faith, RevalidatedIsCurrent, AnswersTo
  <1>2. QED
    BY <1>1, FaithInvAlways, PTL

\* And no validator of an entry is of a later version than its body, however
\* often the origin leaves validators out or changes the target.
THEOREM TagsOfItsBody == Spec => [](Alone /\ PlainRequests => TagsNotAhead)
  <1>1. FaithInv => (Alone /\ PlainRequests => TagsNotAhead)
    <2> SUFFICES ASSUME FaithInv, Alone, PlainRequests, NEW n \in cache.live
                 PROVE  \E v \in 1..version[cache.cacheKey[n]] :
                           /\ cache.entry[n].body \in Bodied(cache.cacheKey[n], v)
                           /\ {cache.entry[n].ETag, cache.entry[n].LastModified}
                                 \subseteq {NoTag} \union 1..v
      BY DEF TagsNotAhead
    <2>1. Dated(cache.entry[n], cache.cacheKey[n], version[cache.cacheKey[n]])
      BY DEF FaithInv, DatedEntries
    <2>2. QED
      BY <2>1 DEF Dated, HeldTags
  <1>2. QED
    BY <1>1, FaithInvAlways, PTL

=============================================================================
