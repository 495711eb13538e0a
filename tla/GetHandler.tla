----------------------------- MODULE GetHandler ------------------------------
(***************************************************************************)
(* The handling of GET requests (Proxy.cpp: handleGET, conditionalReq,      *)
(* nonConditionalReq, sendMsgToWebserver), one thread per connection as     *)
(* pthread_create makes them, over the cache they share.  A thread that is  *)
(* over makes place for another, so requests come without end.              *)
(*                                                                          *)
(* The methods of Cache take no lock, so calls of two threads may overlap.  *)
(* Calls that only read the cache do not disturb each other, and each call  *)
(* here is one step in which no put is under way.  A put that overlaps      *)
(* another call sets raced, and the model ends there: module CacheRace      *)
(* shows what two overlapping puts leave behind, and of what follows        *)
(* nothing is claimed.                                                      *)
(*                                                                          *)
(* The origin server is external.  It keeps a version of each target,       *)
(* names a version by its validators and may change it at any time.  Time   *)
(* is left out: isFresh answers either way, as it does for entries of any   *)
(* age depending on when the request came in (module Freshness), and every  *)
(* responseTime is 0.                                                       *)
(***************************************************************************)
EXTENDS CacheOps, Sequences

CONSTANTS
    Threads,        \* bound: the handler threads there are at the same time
    Kinds,          \* kinds of request, see Kind
    NoBody,         \* the empty body
    Torn,           \* bytes of one version cut or run on at the size of another
    MaxVersion,     \* bound: versions of a target
    Forbidden,      \* header blocks with private or no-store
    MustRevalid,    \* header blocks with no-cache, must-revalidate, max-age=0
    TagsSent,       \* does the origin send ETag and Last-Modified: \subseteq BOOLEAN
    ChunksSent,     \* does it send chunked bodies: \subseteq BOOLEAN
    Cuts,           \* may recv hand over less than was sent: \in BOOLEAN
    OtherStatus     \* statuses besides 200 and 304: \subseteq {"400", "other"}

\* Which headers of the browser's request matter: the two validators, a
\* Cache-Control with private or no-store, and one that asks to revalidate.
Kind == [inm : BOOLEAN, ims : BOOLEAN, forbid : BOOLEAN, revalid : BOOLEAN]

ASSUME HandlerAssumption ==
    /\ Kinds \subseteq Kind
    /\ Forbidden \subseteq Heads /\ MustRevalid \subseteq Heads
    /\ TagsSent \subseteq BOOLEAN /\ ChunksSent \subseteq BOOLEAN
    /\ Cuts \in BOOLEAN
    /\ OtherStatus \subseteq {"400", "other"}

VARIABLES
    cache,      \* Proxy::cache
    version,    \* external: the current version of each target
    pc,         \* where each thread is
    request,    \* its HttpRequest, rewritten by buildConRequest
    held,       \* the ETag and Last-Modified it read from the cached node
    got,        \* the response it has from the web server
    copy,       \* the body cache.get returned to it
    sent,       \* the responses it has sent to the browser
    asOf,       \* history: the version at the time the origin answered it
    raced       \* a put has overlapped another call of the cache

vars == <<cache, version, pc, request, held, got, copy, sent, asOf, raced>>

Versions == 1..MaxVersion

\* The body of a version of a target, and what is taken for it when recv cut
\* the response: its first bytes, none, or the rest of a cut header.  All cuts
\* of a version are one value.
Content(k, v) == <<k, v, "whole">>
Part(k, v) == <<k, v, "part">>

Bodied(k, v) == {Content(k, v), Part(k, v)}

AllBodies ==
    {Content(k, v) : k \in Keys, v \in Versions}
        \union {Part(k, v) : k \in Keys, v \in Versions} \union {NoBody}

ASSUME DataAssumption ==
    /\ Keys # {} /\ Heads # {} /\ MaxVersion \in Nat \ {0}
    /\ Versions \subseteq Tags \ {NoTag} /\ AllBodies \subseteq Bodies

HttpRequest ==
    [key : Keys, inm : Tags, ims : Tags, conditional : BOOLEAN,
     forbid : BOOLEAN, revalid : BOOLEAN]

HttpResponse ==
    [status : {"200", "304", "400", "other"}, chunked : BOOLEAN,
     ETag : Tags, LastModified : Tags, head : Heads, body : AllBodies]

-----------------------------------------------------------------------------
(* The web server.                                                          *)

IfTag(b, v) == IF b THEN v ELSE NoTag

\* If-None-Match is decisive where both validators are there.
Validates(r, v) ==
    IF r.inm # NoTag THEN r.inm = v ELSE r.ims # NoTag /\ r.ims = v

\* The validators that reach the proxy: a cut header may lose what was sent.
TagsSeen == TagsSent \union (IF Cuts THEN {FALSE} ELSE {})

\* The answer a with each choice of headers for version v.
Tagged(a, v, tags) ==
    {[a EXCEPT !.ETag = IfTag(h.ETag, v), !.LastModified = IfTag(h.LastModified, v),
               !.head = h.head] :
        h \in [ETag : tags, LastModified : tags, head : Heads]}

\* Everything the proxy may take for the answer to r while v is the current
\* version.  A response without Content-Length ends for it with the first
\* recv, wherever that cuts header or body.
Answers(r, v) ==
    LET full == [status |-> "200", chunked |-> FALSE, ETag |-> NoTag,
                 LastModified |-> NoTag, head |-> CHOOSE h \in Heads : TRUE,
                 body |-> Content(r.key, v)]
        notModified == Tagged([full EXCEPT !.status = "304", !.body = NoBody], v, TagsSeen)
        whole == UNION {Tagged([full EXCEPT !.chunked = c], v, TagsSent) : c \in ChunksSent}
        part == Tagged([full EXCEPT !.body = Part(r.key, v)], v, TagsSeen)
        others == {[full EXCEPT !.status = o.status, !.chunked = o.chunked, !.body = NoBody] :
                      o \in [status : OtherStatus, chunked : ChunksSent]}
    IN  others \union (IF Validates(r, v) THEN notModified
                       ELSE IF Cuts THEN whole \union part ELSE whole)

\* What getFormedHttpResponse makes: 400 when the web server cannot be
\* reached, 502 (one of the other statuses) when it closes too early.
Formed(status) ==
    [status |-> status, chunked |-> FALSE, ETag |-> NoTag,
     LastModified |-> NoTag, head |-> CHOOSE h \in Heads : TRUE, body |-> NoBody]

\* Locals before a thread sets them: any value would do, no line reads one.
NoRequest ==
    [key |-> CHOOSE k \in Keys : TRUE, inm |-> NoTag, ims |-> NoTag,
     conditional |-> FALSE, forbid |-> FALSE, revalid |-> FALSE]

NoValidators == [ETag |-> NoTag, LastModified |-> NoTag]

NewVersion(k) ==
    /\ version[k] < MaxVersion
    /\ version' = [version EXCEPT ![k] = @ + 1]
    /\ UNCHANGED <<cache, pc, request, held, got, copy, sent, asOf, raced>>

-----------------------------------------------------------------------------
(* Steps of a thread.                                                       *)

key(t) == request[t].key

\* The node cacheMap gives for the key of t, when there is one.
Node(t) == cache.entry[cache.cacheMap[key(t)]]

Running == cache.wild = {} /\ ~raced

At(t, line) == Running /\ pc[t] = line

Goto(t, line) == pc' = [pc EXCEPT ![t] = line]

\* A send of status and body, whole or cut short: when the browser is gone
\* sendMsgFromProxy throws and handleGET catches it.  Either way the handler
\* is over.
Respond(t, status, body) ==
    /\ Goto(t, "closing")
    /\ \/ sent' = [sent EXCEPT ![t] = Append(@, [status |-> status, body |-> body])]
       \/ UNCHANGED sent

\* A connection is accepted, its request parsed and handleGET entered.  A
\* browser that revalidates has a version the target has had.
Arrive(t) ==
    /\ At(t, "idle")
    /\ \E k \in Keys, kind \in Kinds, v \in Versions :
          /\ v <= version[k]
          /\ ~(kind.inm \/ kind.ims) => v = 1
          /\ LET conditional == kind.inm \/ kind.ims IN
             /\ request' = [request EXCEPT ![t] =
                   [key |-> k, inm |-> IfTag(kind.inm, v), ims |-> IfTag(kind.ims, v),
                    conditional |-> conditional,
                    forbid |-> kind.forbid, revalid |-> kind.revalid]]
             /\ Goto(t, IF conditional THEN "c_isCached"
                        ELSE IF kind.forbid THEN "fetch_bypass" ELSE "n_isCached")
    /\ UNCHANGED <<cache, version, held, got, copy, sent, asOf, raced>>

IsCachedStep(t) ==
    /\ \/ At(t, "c_isCached") /\ Goto(t, IF IsCached(cache, key(t))
                                         THEN "c_isFresh" ELSE "fetch_miss")
       \/ At(t, "n_isCached") /\ Goto(t, IF IsCached(cache, key(t))
                                         THEN "n_etag" ELSE "fetch")
    /\ UNCHANGED <<cache, version, request, held, got, copy, sent, asOf, raced>>

\* The lines that look the key up with cacheMap[cacheKey] and follow what
\* they find.  isResMustRevalid is not called when the request settles it.
Follows(t) ==
    \/ pc[t] \in {"c_isFresh", "c_etag", "c_lm", "c_head", "c_get", "c_size",
                  "c_expired", "n_etag", "n_lm", "n_isFresh", "n_expired", "get"}
    \/ pc[t] = "n_revalid" /\ ~request[t].revalid

\* cacheMap[cacheKey] of a key that has gone: a NULL is inserted and
\* followed, and the process dies.
Crash(t) ==
    /\ Running /\ Follows(t)
    /\ ~IsCached(cache, key(t))
    /\ cache' = Deref(cache, {NULL})
    /\ UNCHANGED <<version, pc, request, held, got, copy, sent, asOf, raced>>

\* A step at one of those lines that finds its node.
Finds(t, line) == At(t, line) /\ IsCached(cache, key(t))

IsFresh(t) ==
    /\ \/ Finds(t, "c_isFresh") /\ \E line \in {"c_etag", "c_expired"} : Goto(t, line)
       \/ Finds(t, "n_isFresh") /\ \E line \in {"get", "n_expired"} : Goto(t, line)
    /\ UNCHANGED <<cache, version, request, held, got, copy, sent, asOf, raced>>

ReadETag(t) ==
    /\ \/ Finds(t, "c_etag") /\ Goto(t, "c_lm")
       \/ Finds(t, "n_etag") /\ Goto(t, "n_lm")
    /\ held' = [held EXCEPT ![t].ETag = Node(t).ETag]
    /\ UNCHANGED <<cache, version, request, got, copy, sent, asOf, raced>>

\* The browser's validators match the node's.
Matches(t, lm) ==
    \/ request[t].inm # NoTag /\ request[t].inm = held[t].ETag
    \/ request[t].ims # NoTag /\ request[t].ims = lm

ReadLastModified(t) ==
    /\ \/ Finds(t, "c_lm") /\ Goto(t, IF Matches(t, Node(t).LastModified)
                                      THEN "c_head" ELSE "c_get")
       \/ Finds(t, "n_lm") /\ Goto(t, "n_revalid")
    /\ held' = [held EXCEPT ![t].LastModified = Node(t).LastModified]
    /\ UNCHANGED <<cache, version, request, got, copy, sent, asOf, raced>>

\* The browser's copy is good: 304 with the cached header block.
ReplyNotModified(t) ==
    /\ Finds(t, "c_head")
    /\ Respond(t, "304", NoBody)
    /\ UNCHANGED <<cache, version, request, held, got, copy, asOf, raced>>

\* cache.get(cacheKey).c_str(), then cache.get(cacheKey).size(): two calls,
\* and two versions if the node is updated in between.  Header blocks are
\* taken to be of one length.
GetBytes(t) ==
    /\ Finds(t, "c_get")
    /\ copy' = [copy EXCEPT ![t] = Node(t).body]
    /\ Goto(t, "c_size")
    /\ UNCHANGED <<cache, version, request, held, got, sent, asOf, raced>>

GetSizeAndReply(t) ==
    /\ Finds(t, "c_size")
    /\ Respond(t, "200", IF copy[t] = Node(t).body THEN copy[t] ELSE Torn)
    /\ UNCHANGED <<cache, version, request, held, got, copy, asOf, raced>>

BuildConRequest(t) ==
    request' = [request EXCEPT ![t].inm = held[t].ETag,
                               ![t].ims = held[t].LastModified]

\* Mutant: the cached response is not asked.
CheckRequestOnly(t) ==
    /\ At(t, "n_revalid")
    /\ IF request[t].revalid
       THEN BuildConRequest(t) /\ Goto(t, "fetch")
       ELSE UNCHANGED request /\ Goto(t, "n_isFresh")
    /\ UNCHANGED <<cache, version, held, got, copy, sent, asOf, raced>>

\* The request or the cached response insists on validation.
CheckRevalid(t) ==
    /\ \/ At(t, "n_revalid") /\ request[t].revalid
          /\ BuildConRequest(t) /\ Goto(t, "fetch")
       \/ Finds(t, "n_revalid") /\ ~request[t].revalid
          /\ IF Node(t).head \in MustRevalid
             THEN BuildConRequest(t) /\ Goto(t, "fetch")
             ELSE UNCHANGED request /\ Goto(t, "n_isFresh")
    /\ UNCHANGED <<cache, version, held, got, copy, sent, asOf, raced>>

\* The stale response is read once more for the log line; a conditional
\* request then goes out with the browser's validators, any other with the
\* cached ones.
Expired(t) ==
    /\ \/ Finds(t, "c_expired") /\ UNCHANGED request
       \/ Finds(t, "n_expired") /\ BuildConRequest(t)
    /\ Goto(t, "fetch")
    /\ UNCHANGED <<cache, version, held, got, copy, sent, asOf, raced>>

-----------------------------------------------------------------------------
(* sendMsgToWebserver and what becomes of the response.                     *)

\* The call is made on three kinds of path: with the target in the cache or
\* for a plain miss, for a conditional miss, and past the cache.
AfterFetch == [fetch |-> "got", fetch_miss |-> "got_miss",
               fetch_bypass |-> "got_bypass"]

WhileFetching == [fetch |-> "chunks", fetch_miss |-> "chunks_miss",
                  fetch_bypass |-> "chunks_bypass"]

AfterChunks == [chunks |-> "got", chunks_miss |-> "got_miss",
                chunks_bypass |-> "got_bypass"]

AtFetch(t) == Running /\ pc[t] \in DOMAIN AfterFetch

\* Mutant: after a failure everything is tried again, without end.
FetchRestarts(t) ==
    /\ AtFetch(t)
    /\ Goto(t, "n_isCached")
    /\ UNCHANGED <<cache, version, request, held, got, copy, sent, asOf, raced>>

\* The web server cannot be reached, the request cannot be sent, or the body
\* ends before its Content-Length.
FetchFails(t) ==
    /\ AtFetch(t)
    /\ \E status \in {"400", "other"} : got' = [got EXCEPT ![t] = Formed(status)]
    /\ Goto(t, AfterFetch[pc[t]])
    /\ UNCHANGED <<cache, version, request, held, copy, sent, asOf, raced>>

\* recv fails, or the port is no number: an exception up to handleGET.
FetchThrows(t) ==
    /\ AtFetch(t)
    /\ Goto(t, "closing")
    /\ UNCHANGED <<cache, version, request, held, got, copy, sent, asOf, raced>>

\* A response arrives.  The first piece of a chunked one is passed on to the
\* browser, which may be gone.
FetchOk(t) ==
    /\ AtFetch(t)
    /\ \E r \in Answers(request[t], version[key(t)]) :
          /\ got' = [got EXCEPT ![t] = r]
          /\ \/ ~r.chunked /\ Goto(t, AfterFetch[pc[t]])
             \/ r.chunked /\ Goto(t, WhileFetching[pc[t]])
             \/ r.chunked /\ Goto(t, "closing")
    /\ asOf' = [asOf EXCEPT ![t] = version[key(t)]]
    /\ UNCHANGED <<cache, version, request, held, copy, sent, raced>>

\* The loop over the other pieces ends when one of them holds the last chunk,
\* or recv or send fails.  When the web server closes and the loop has not
\* seen the last chunk (it was cut off, split between two pieces, or in the
\* first one), recvResponse returns an empty string from then on and the loop
\* never ends: line "cut", which no step leaves.
PassChunks(t) ==
    /\ Running /\ pc[t] \in DOMAIN AfterChunks
    /\ \/ /\ sent' = [sent EXCEPT ![t] =
                      Append(@, [status |-> got[t].status, body |-> got[t].body])]
          /\ Goto(t, AfterChunks[pc[t]])
       \/ Goto(t, "closing") /\ UNCHANGED sent
       \/ Goto(t, "cut") /\ UNCHANGED sent
    /\ UNCHANGED <<cache, version, request, held, got, copy, asOf, raced>>

IsResForbiden(r) == r.head \in Forbidden

\* Mutants of Relays: one path does not ask isResForbiden, another sends a
\* chunked response that is already sent.
RelaysMissForbidden(t) ==
    LET r == got[t] IN
    \/ pc[t] = "got_bypass" /\ ~r.chunked
    \/ /\ pc[t] \in {"got", "got_miss"}
       /\ \/ r.status = "400"
          \/ /\ ~r.chunked
             /\ \/ r.status = "other"
                \/ pc[t] = "got" /\ IsResForbiden(r)
                \/ pc[t] = "got_miss" /\ r.status = "304"

RelaysChunked(t) ==
    LET r == got[t] IN
    \/ pc[t] = "got_bypass" /\ ~r.chunked
    \/ /\ pc[t] \in {"got", "got_miss"}
       /\ \/ r.status = "400"
          \/ IsResForbiden(r)
          \/ ~r.chunked /\ r.status = "other"
          \/ ~r.chunked /\ pc[t] = "got_miss" /\ r.status = "304"

\* The response is sent on as it came: a 400 before anything else is asked
\* of it, another status, a forbidden one, or a 304 for a browser whose
\* target the proxy does not have.
Relays(t) ==
    LET r == got[t] IN
    \/ pc[t] = "got_bypass" /\ ~r.chunked
    \/ /\ pc[t] \in {"got", "got_miss"}
       /\ \/ r.status = "400"
          \/ /\ ~r.chunked
             /\ \/ r.status = "other"
                \/ IsResForbiden(r)
                \/ pc[t] = "got_miss" /\ r.status = "304"

Relay(t) ==
    /\ Running /\ Relays(t)
    /\ Respond(t, got[t].status, got[t].body)
    /\ UNCHANGED <<cache, version, request, held, got, copy, asOf, raced>>

\* A chunked response is already with the browser.
ChunkedDone(t) ==
    /\ Running /\ pc[t] \in {"got", "got_miss", "got_bypass"}
    /\ got[t].chunked /\ ~Relays(t)
    /\ Goto(t, "closing")
    /\ UNCHANGED <<cache, version, request, held, got, copy, sent, asOf, raced>>

\* Everything else is put into the cache.
Puts(t) == pc[t] \in {"got", "got_miss"} /\ ~got[t].chunked /\ ~Relays(t)

Store(t) ==
    /\ Running /\ Puts(t)
    /\ IF IsCached(cache, key(t))
       THEN cache' = PutCached(cache, key(t), got[t], 0)
       ELSE \E n \in Nodes \ MakeRoom(cache).live :
               cache' = PutNew(cache, key(t), got[t], n, 0)
    /\ Goto(t, "get")
    /\ UNCHANGED <<version, request, held, got, copy, sent, asOf, raced>>

\* cache.get and the reply, after a put or for a fresh entry.
GetAndReply(t) ==
    /\ Finds(t, "get")
    /\ Respond(t, "200", Node(t).body)
    /\ UNCHANGED <<cache, version, request, held, got, copy, asOf, raced>>

\* The handler returns and its locals are gone.
Close(t) ==
    /\ At(t, "closing")
    /\ Goto(t, "idle")
    /\ request' = [request EXCEPT ![t] = NoRequest]
    /\ held' = [held EXCEPT ![t] = NoValidators]
    /\ got' = [got EXCEPT ![t] = Formed("400")]
    /\ copy' = [copy EXCEPT ![t] = NoBody]
    /\ sent' = [sent EXCEPT ![t] = <<>>]
    /\ asOf' = [asOf EXCEPT ![t] = 0]
    /\ UNCHANGED <<cache, version, raced>>

\* The put of t is under way when u makes a call of its own.
Calls(u) == Puts(u) \/ Follows(u) \/ pc[u] \in {"c_isCached", "n_isCached"}

Overlap(t, u) ==
    /\ Running /\ t # u
    /\ Puts(t) /\ Calls(u)
    /\ raced' = TRUE
    /\ UNCHANGED <<cache, version, pc, request, held, got, copy, sent, asOf>>

-----------------------------------------------------------------------------
Handle(t) ==
    \/ IsCachedStep(t) \/ IsFresh(t) \/ ReadETag(t) \/ ReadLastModified(t)
    \/ ReplyNotModified(t) \/ GetBytes(t) \/ GetSizeAndReply(t)
    \/ CheckRevalid(t) \/ Expired(t)
    \/ FetchFails(t) \/ FetchThrows(t) \/ FetchOk(t) \/ PassChunks(t)
    \/ Relay(t) \/ ChunkedDone(t) \/ Store(t) \/ GetAndReply(t)
    \/ Crash(t) \/ Close(t)

Init ==
    /\ cache = EmptyCache(NoRequest.key, NewEntry(Formed("400"), 0))
    /\ version = [k \in Keys |-> 1]
    /\ pc = [t \in Threads |-> "idle"]
    /\ request = [t \in Threads |-> NoRequest]
    /\ held = [t \in Threads |-> NoValidators]
    /\ got = [t \in Threads |-> Formed("400")]
    /\ copy = [t \in Threads |-> NoBody]
    /\ sent = [t \in Threads |-> <<>>]
    /\ asOf = [t \in Threads |-> 0]
    /\ raced = FALSE

Next ==
    \/ \E t \in Threads : Arrive(t) \/ Handle(t)
    \/ \E t, u \in Threads : Overlap(t, u)
    \/ \E k \in Keys : NewVersion(k)

Spec == Init /\ [][Next]_vars

\* A handler that can move moves: the scheduler is fair to threads, and the
\* web server answers or closes (recv has no time limit of its own).
FairSpec == Spec /\ \A t \in Threads : WF_vars(Handle(t))

-----------------------------------------------------------------------------
(* Properties.                                                              *)

Lines == {"idle", "c_isCached", "c_isFresh", "c_etag", "c_lm", "c_head", "c_get",
          "c_size", "c_expired", "n_isCached", "n_etag", "n_lm", "n_revalid",
          "n_isFresh", "n_expired", "fetch", "fetch_miss", "fetch_bypass",
          "chunks", "chunks_miss", "chunks_bypass", "cut",
          "got", "got_miss", "got_bypass", "get", "closing"}

Answer == [status : {"200", "304", "400", "other"}, body : AllBodies \union {Torn}]

\* Every variable has its type.
TypeOK ==
    /\ cache \in CacheValue
    /\ version \in [Keys -> Versions]
    /\ pc \in [Threads -> Lines]
    /\ request \in [Threads -> HttpRequest]
    /\ held \in [Threads -> [ETag : Tags, LastModified : Tags]]
    /\ got \in [Threads -> HttpResponse]
    /\ copy \in [Threads -> AllBodies]
    /\ sent \in [Threads -> Seq(Answer)]
    /\ asOf \in [Threads -> 0..MaxVersion]
    /\ raced \in BOOLEAN

\* What target k has had for a body, and the empty one.
Own(k) ==
    {Content(k, v) : v \in 1..version[k]}
        \union {Part(k, v) : v \in 1..version[k]} \union {NoBody}

AnswersTo(t) == {sent[t][i] : i \in 1..Len(sent[t])}

\* No way into the cache skips the check for private and no-store: neither a
\* refresh of an entry that is there nor a first response, on any path.  The
\* header block is the one the proxy has; what a cut header lost it cannot see.
NoForbiddenStored ==
    \A n \in cache.live : cache.entry[n].head \notin Forbidden

\* A browser is not sent bytes of another target when nodes are evicted, freed
\* and reused between two calls of its thread, which goes back to the cache by
\* key.  It says nothing of what is sent after a put has overlapped a call.
AnswersOwnTarget ==
    \A t \in Threads : \A a \in AnswersTo(t) :
       a.body \in Own(key(t)) \union {Torn}

\* A request is answered once.  The exception is the code's: a 400 that came
\* chunked is passed on as it arrives and then sent again.
AnsweredOnce ==
    \A t \in Threads :
       Len(sent[t]) <= IF got[t].chunked /\ got[t].status = "400" THEN 2 ELSE 1

\* A 200 that was asked of the origin, in full or by way of a 304, carries the
\* version that was current when the origin answered, or what recv left of it.
RevalidatedIsCurrent ==
    \A t \in Threads : asOf[t] # 0 =>
       \A a \in AnswersTo(t) :
          a.status = "200" => a.body \in Bodied(key(t), asOf[t])

\* No validator of an entry is of a later version than its body.  put writes
\* the two under different conditions, so that a 200 without ETag keeps the old
\* one: an older validator costs a needless 200, but by a later one the origin
\* would vouch for a body the proxy does not have.
TagsNotAhead ==
    \A n \in cache.live :
       LET e == cache.entry[n]  k == cache.cacheKey[n] IN
       \E v \in 1..version[k] :
          /\ e.body \in Bodied(k, v)
          /\ {e.ETag, e.LastModified} \subseteq {NoTag} \union 1..v

\* dangerlog.txt:35-36: a cached response with no-cache, must-revalidate or
\* max-age=0 is validated by the web server before it answers a request that
\* is not conditional.
ValidatedBeforeServed ==
    \A t \in Threads :
       (pc[t] = "get" /\ asOf[t] = 0 /\ IsCached(cache, key(t)))
          => Node(t).head \notin MustRevalid

\* Proxy.cpp:428: a cached response that is not fresh is surely in the cache
\* when it is read once more after isFresh.
StaleIsCached ==
    \A t \in Threads :
       pc[t] \in {"c_expired", "n_expired"} => IsCached(cache, key(t))

\* Every connection is closed in the end, unless the process has crashed, a put
\* has overlapped another call, or the thread is caught in the chunk loop,
\* which a response that breaks off never leaves.
EventuallyClosed ==
    \A t \in Threads : pc[t] # "idle" ~> (pc[t] \in {"idle", "cut"} \/ ~Running)

=============================================================================
