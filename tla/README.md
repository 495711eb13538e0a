# A TLA+ development of the HTTP caching proxy

The program (`src/docker-deploy/src`) is an HTTP proxy: it accepts connections,
starts one thread for each, and answers GET from a cache of at most 100
responses, passes POST on, and tunnels CONNECT. This directory holds TLA+
modules of its parts, the TLC configurations that check them, and proofs for
TLAPS. File names below are relative to `src/docker-deploy/src`; `dangerlog.txt`
(one directory up) is the repository's own account of what the proxy does.

## 1. Inventory

| Part | Code | State | Operations | What makes it correct |
|---|---|---|---|---|
| Cache | `Cache.cpp`, `Cache.hpp` | a `std::map` from request target to node, a doubly linked list of nodes, a counter | `put` (with `addFromHead`, `moveToHead`, `removeTail`), `get`, getters, `isCached`, `isFull` | list, map and counter agree; the entry stored longest ago is evicted; no freed memory is followed; one node per target; at most `CAPACITY` nodes |
| Freshness | `Cache::isFresh`, `Time.cpp`, `HttpResponse::getMaxAge` | none of its own: three clock readings and the entry | `isFresh` | an entry is fresh within its lifetime and not after |
| GET handler | `Proxy.cpp` 212-233, 394-715 | locals of a thread; the shared cache | `conditionalReq`, `nonConditionalReq` | the browser gets one whole answer for its own target, as new as the validation says; nothing private is stored; no thread dies; every connection closes |
| Transport | `Proxy::sendMsgToWebserver`, `recvAllData`, `sendMsgFromProxy`, `client.cpp` | a socket | send, receive, relay of chunks | the whole response arrives, once, or an error is reported |
| POST | `Proxy::handlePOST` | none | one request, one response | as transport |
| Tunnel | `Proxy::handleCONNECT` | two sockets, a timeout | select loop | bytes in order both ways; closed after an idle time |
| Life cycle | `startRun`, `handle`, `Server.cpp`, `Request.hpp` | descriptors, threads | accept, read, dispatch | no connection keeps others out; every descriptor is closed; one bad request does not end the process |
| Parsers | `HttpResponse.cpp`, `httprequest.cpp` | the parsed message | constructor, `buildConRequest` | a broken message is recognised as such |
| Log | `ProxyLog.cpp`, `Time.cpp` | a file, a mutex, libc's static date buffers | one line per event | lines are not mixed, dates are right |
| Daemon, manual tests | `proxy_daemon.cpp`, `test*.cpp` | | | |

How they interact: `startRun` accepts, reads the request and starts a thread in
`handle`; the thread calls `handleGET`, which calls methods of the one static
`Cache` and, through `Client`, the web server. Threads share the cache and
nothing guards it: `cachelock` (`Proxy.cpp:2`) is never taken and every
`lock_guard` of `Cache.cpp` is a comment. (Those guards would not do: the ones
at lines 83 and 116 are taken after the `isCached` of line 80, and the one at
line 61 would wait for the mutex that line 116 has locked.) They also share the
process's descriptors, the log and the static buffers of `gmtime` and
`asctime`. Nothing is persisted, so there is no recovery to speak of; an
exception in most threads or in the accept loop, a NULL that is followed, or
SIGPIPE in a tunnel, is the end of the process.

What is hard here: two handlers in the cache at once; a handler that asks the
cache, then the web server (seconds later), then the cache again; 304s that
speak of a body somebody else may have replaced or evicted; unsigned and
truncated time arithmetic; a receive loop that recognises its end by the
segment boundaries, and a parser that takes a cut header for a whole one; a
tunnel with one buffer and one timeout for two directions; descriptor numbers
that are used again while a handler may still hold them. `PROJECT.json` lists
every hazard at its line.

## 2. Modules

| Module | What it is |
|---|---|
| `CacheOps` | the cache as a value and every method of `Cache` as an operator on it (constants only, no variables); also what a well formed cache is (`Structure`, `Order`) |
| `Cache` | the cache with one call at a time: `Update`, `Insert` (the two branches of `put`), the clock |
| `LruCache` | the abstract specification: a bounded map that gives up the key stored longest ago (`dangerlog.txt:59`) |
| `CacheRace` | `put` and `get` statement by statement, any number of threads, no lock (`RaceSpec`) |
| `Freshness` | `isFresh` with its clock readings and integer widths, one request against an entry that other handlers replace |
| `GetHandler` | the GET handler: one thread per connection, the calls of `Cache` of all threads interleaved, up to the first put that overlaps another call; the web server external |
| `ResponseText` | what `HttpResponse` makes of the first n units of a response (constants only) |
| `Upstream` | one exchange with the web server, piece by piece, and the two handlers that only pass its result on: POST, and a GET that forbids caching |
| `Tunnel` | `handleCONNECT`: select, blocking `recv` and `send`, two peers that finish or leave |
| `Lifecycle` | the accept loop, `recvData`, threads, descriptors as numbers, `Client` and its destructor, the ends of all handlers |
| `ProxyLog` | `writeLogFile` with its mutex and the dates through `gmtime` and `asctime` |
| `CacheOps_proofs` | lemmas about the operators of `CacheOps` |
| `Cache_proofs` | the theorems about `Cache` and `CacheRace` |
| `Freshness_proofs`, `GetHandler_proofs`, `Upstream_proofs`, `Tunnel_proofs`, `Lifecycle_proofs`, `ProxyLog_proofs` | the theorems |
| `MC*` | constants for TLC |

How they compose. `Cache`, `CacheRace` and `GetHandler` extend `CacheOps` and
stack: `CacheRace` shows that the lines of a call that no other overlaps add up
to the operators, `Cache` and its proofs show what the operators keep,
`GetHandler` uses them as steps, and `LruCache` says what they amount to; the
proofs of `Cache` and of `GetHandler` use the same lemmas. `Upstream` extends
`ResponseText`.

Where two calls overlap the operators do not apply, and the code does nothing
to keep calls apart. Calls that only read do not disturb each other. A `put`
that overlaps any other call sets `raced` in `GetHandler` (`Overlap`), and that
model claims nothing of what follows; what does follow is in `CacheRace`, where
`race_unlocked` shows how bad it is. So every statement about several handler
threads holds up to that moment and not beyond.

The others are joined by what one assumes and another shows. `GetHandler` takes
what comes back from the web server as a whole response, a response cut
anywhere (`Part`, and headers that may be missing), a 400, or a 502; `Upstream`
shows when it is whole (`WholeWhenHeaderWhole`: whenever there is a length and
the header is in the first piece) and that a 502 means a response that broke
off (`BadGatewayMeansCut`). `Lifecycle` takes from `GetHandler` that a GET may
follow a NULL (`FollowsNull`), from `Upstream` and `Tunnel` the exceptions and
the SIGPIPE, and that an exchange or a tunnel may stay where it is for ever
(`Waits`; `ExchangeEnds` and `TunnelEnds` say when). `GetHandler` closes the
browser's descriptor once; `Lifecycle` says why that is the right descriptor.
`Freshness` says what `GetHandler` leaves open, which way `isFresh` answers.

### State and actions against the code

* A cache value has the fields of `Cache` and the heap: `live` is the set of
  allocated addresses, `next`, `prev`, `cacheKey`, `entry` the fields of the
  nodes, and `wild` collects every NULL or freed pointer a method follows.
  After the first such pointer nothing further is claimed. `removeTail` leaves
  the `next` field of the new tail as it was, and so does the model.
* A response is its status, its two validators, a header block and a body. An
  ETag that is present but empty counts as absent. `put` is only reached
  with 200 and 304.
* In `CacheRace` the cache is `shared`, a thread's call has the arguments and
  locals in `local` (key `K(t)`, node `N(t)`), and the history variable
  `before` is the cache the call found. The line names are the methods' with
  the number of the statement (`move31` is `Cache.cpp:31`). `size++` and
  `size--` are a read and a write. `nulls` are the keys that `cacheMap[key]`
  has inserted with a NULL, which `isCached` counts from then on. Each access
  to the `std::map` is taken to be whole; two at once are undefined in C++ and
  could do worse.
* In `GetHandler` a thread's `pc` names what it does next: `c_` for
  `conditionalReq`, `n_` for `nonConditionalReq`, `fetch*`, `chunks*` and
  `got*` for `sendMsgToWebserver` and after. The five copies of the code that
  follows a fetch (432-471, 478-524, 550-589, 610-649, 657-698) differ in one
  point, the 304 of a conditional miss; they share `got`, and that one has
  `got_miss`. `isFresh` answers either way, which over-approximates
  `Freshness`. A send may fail at every reply. A key that has been evicted
  between two calls is followed as a NULL (`Crash`). `raced` says that a put
  has overlapped another call; `isFresh`, whose two lookups another put could
  come between, is one of those.
* The web server of `GetHandler` answers for the version of the target that is
  current when it is asked, by If-None-Match first (RFC 9110). It may omit
  validators, use chunks, or answer 400 or another status, as the constants say.
  With `Cuts` the proxy may also get less than was sent: a part of the body, and
  validators lost with the rest of the header, stored as if it were all
  (`Proxy.cpp:265`, 308-310). All cuts of a version are one value.
* In `Freshness` a date is a number of seconds, `% SizeMod` is `size_t`,
  `ToInt` is `int(...)`; a missing Date is 31 December 1899, as `strptime` of
  an empty text leaves it.
* In `ResponseText` and `Upstream` a text is counted in units of a few bytes,
  chosen so that every place where a cut makes a difference to the parser lies
  between two units: the status line has two, a header field three (up to the
  colon, inside the value, its end), the empty line one. A cut header is
  parsed as the code parses it: a field without a value throws and the
  exception is swallowed, the digits received so far are a smaller
  Content-Length, and `headerEnd + 4` is 3 when there is no empty line, so that
  the header counts as body. The web server sends `limit` units of its
  `reply`, all of them or fewer, in pieces of any size, and then closes.
  `sendMsgFromProxy` sends the text from its beginning again after a partial
  send; `out` has the pieces as they went out. The -1 of a failed `recv` is a
  length in `recvAllData` and an exception in all three places.
* In `Tunnel` a peer says numbered units, finishes (half close) or leaves; a
  peer that leaves with data unread resets the connection, and a send to it
  fails, or raises SIGPIPE when the peer's end came first. `tv` is the
  one timeval, which Linux's `select` counts down; `tv_usec` is not
  initialized, so that the time is any, or no valid one (-1). `send` puts units
  into a socket that holds `Room` of them and blocks the thread when it is full.
* In `Lifecycle` descriptors are numbers and `file` says what each stands for.
  `accept` and `socket` take the lowest free one; `send` and `close` act on
  whatever the number stands for by then. A thread's `pc` is a place in its
  handler: what it says to a web server is one step (`exchange`), or none when
  the cache has the answer. A `sockfd` that was never set is any number; when
  it turns out to be an open descriptor and is closed, `strayed` is true and
  nothing further is claimed. `main` of the daemon catches what leaves
  `startRun`, and returns; `alive` is false after that, and after an exception,
  a NULL or a signal that nobody catches.
* In `ProxyLog` a date is a number of seconds. Each of the calls of `gmtime`
  and `asctime` writes its static buffer in a step, another thread may
  write it before the copy is made, and what is read while somebody writes may
  be `Mixed`. `mktime` takes Greenwich's time for local time and `gmtToUTC`
  corrects by the difference of a second conversion. `Cache` takes its
  times from the same functions.

Operators whose comment begins with "Mutant" are faulty variants of the
definition after them. No specification uses them; they are kept to show that
each property can fail.

## 3. What is checked

Runs that pass:

| Run | Shows | Instance |
|---|---|---|
| `cache` | `WellFormed`, `NoFault`, `ListInPutOrder`; `Cache` implements `LruCache` (`ImplementsLru`): eviction order, merging of a 304, ages | 4 keys, 4 addresses, capacity 3, 6 puts of a 200 or a 304 |
| `freshness_arith` | an entry stored since the request began is judged rightly, with and without a Date (`RightWhenStoredSince`); the inductive `IInv` | clock 0..4, 4-bit int, 5-bit size, lifetime 2 |
| `get_sequential` | plain requests one at a time, targets changing at the origin: no validator is ahead of its body (`TagsNotAhead`), validated answers are current (`RevalidatedIsCurrent`), must-revalidate is obeyed (`ValidatedBeforeServed`), every connection closes but for the chunk loop (`EventuallyClosed`) | 2 targets, capacity 1, 2 versions; validators sent or left out one by one, chunks, cut responses, other statuses |
| `get_concurrent` | two handlers, plain and conditional requests, until a put overlaps another call: nothing forbidden is stored, no browser gets another target's bytes, one answer per request | 2 targets, capacity 1, 2 versions, chunks, 400s; threads and targets symmetric |
| `upstream` | a response with a Content-Length is whole when its header came in one piece (`WholeWhenHeaderWhole`), a chunked one is passed on to its end (`ChunkedToTheEnd`), a 502 means a cut (`BadGatewayMeansCut`), what goes out is a prefix of one text (`BrowserGetsPrefix`), and the exchange ends or is in the chunk loop for a stated reason (`ExchangeEnds`) | 8 replies, any of their units sent, pieces of any size, one partial send, GET and POST |
| `tunnel` | bytes in order, once, none missing while the tunnel is up (`RelaysInOrder`); what a side says before it ends gets through (`LastWordsArrive`); the tunnel ends, or waits for ever in a send to a peer that does not read (`TunnelEnds`) | 3 units a side, 2 a `recv`, room for 1, a time of 1, 2 or invalid |
| `lifecycle` | every client's descriptor is in exactly one party's hands or on a known leaking path (`Accounted`); nobody gets an answer to another's request (`NoForeignAnswer`); each connection is accepted unless the process ends, or the proxy starves for ever for a stated reason (`Served`) | 3 connections, 2 descriptors besides the listening one, 2 threads |
| `log` | a date is right when its thread was alone with the buffers (`RightWhenAlone`), lines are whole (`LinesWhole`) and get written (`LineWritten`) | 2 threads, 2 lines, a zone 3 ahead of Greenwich |

Runs that show where the code does not do what a document says:

| Run | Said | Done |
|---|---|---|
| `race_unlocked` | a target corresponds uniquely to a node, and the nodes are at most 100 (`dangerlog.txt:55-56`) | two puts at once make two nodes for a target, lose one of them to an eviction before it is in the map, or both take the last free place |
| `freshness_lifetime` | what is not fresh is validated (`dangerlog.txt:37-39`), after its max-age (16) or ten minutes (24) | the age of an entry stored before the request came in is the time since the *request*, as the wrap of `Cache.cpp:181` takes off what 183 adds; and max-age is looked up under a name that is never stored (`HttpResponse.cpp:66`). The entry of the shortest counterexample is called fresh for each of the two reasons: to repair one is not enough |
| `get_evicted` | what is not fresh is certainly cached (`Proxy.cpp:428`) | another handler evicts it between `isFresh` and the next call, and a NULL is followed; no two calls overlap |
| `lifecycle_survives` | a failed send is caught and the program runs on (`dangerlog.txt:5-7`) | only `handleGET` has a `try`: a client that leaves before its 400 is sent (`Proxy.cpp:50`) ends the process, and so do a failed send of POST and CONNECT, and SIGPIPE in a tunnel |

The models have more places where the code and its comments part. They have no
run of their own; a property leaves each of them out in so many words, or holds
only in the instance named:

* "Only a 200 is stored as new" (`Proxy.cpp:497`): a 304 whose entry has been
  evicted is stored as a response without a body (`Cache.cpp:136`), by two
  handlers whose calls do not overlap (`get_sequential` has one).
* "On a 304 the body need not be updated" (`Cache.cpp:94-98`): after a late put
  of an older version it had to be (`RevalidatedIsCurrent` and `TagsNotAhead`
  need one request at a time).
* A browser's 304 renews the proxy's older body (`Proxy.cpp:431-432`;
  `get_sequential` leaves out conditional requests).
* A full response may be sent with the bytes of one version and the length of
  another, as `cache.get` is called twice (`Proxy.cpp:421`; `Torn`).
* An answer without a Content-Length is over with the first `recv`, and is
  stored and served as it is (`Part`).
* A response with a Content-Length whose header arrives in two pieces may be
  returned short, and its `private` may be missed (`WholeWhenHeaderWhole`).
* The chunk loop does not end when the last chunk came with the first piece,
  in two pieces, or not at all (`ExchangeEnds`, `EventuallyClosed`).
* After a partial send the text starts again, and a chunked response to a POST
  is followed by its own first piece (`BrowserGetsPrefix`).
* The tunnel is closed when a second (and some uninitialized microseconds) of
  idle time has gone by since it was made, all waits together; the message at
  `Proxy.cpp:137` speaks of 10.5 seconds. The end of one direction cuts off the
  other (`LastWordsArrive`), and a peer that does not read holds up both
  (`Stalled`).
* A client that connects and says nothing keeps all others out (`Starved`).
* An empty request, a POST answered with 400 and a refused CONNECT leave the
  browser's descriptor open (`Leaks`).

### Bounds, and why they are enough

* One target more than the capacity makes every eviction happen. Capacity 3
  has a head, a tail and an inner node, which are the cases of
  `moveToHead`; six puts fill it, renew a node in any position, evict, and put
  twice after.
* As many addresses as targets lets a new node take a freed address or another.
* In `Freshness` the widths are cut down so that both wraps (of the `size_t`
  and of the `int`) happen in a clock of four seconds; the theorems hold for
  all widths that the named assumptions admit, the build's among them.
* A handler thread that has finished is used again, so the number of requests
  is not bounded, only how many run at once. With two, every pair of handlers
  interleaves. `MaxVersion` bounds the changes at the origin. With two targets
  and room for one, every put of the other target evicts; the list itself, with
  inner nodes, is the business of `cache`.
* `Upstream` has a reply for each framing (`length`, none, `chunked`), a
  field before and after it, a 304 that names a length, a 400 in chunks, and
  data that look like a last chunk. `MaxRecv` exceeds the longest of them, so
  that one piece may be all or any part; `MaxShort` is 1, since a second
  partial send is like the first.
* In `Tunnel` a `recv` may return more than a socket holds, so that the
  thread blocks half way through a buffer; three units are enough to have some
  in each of inbox, buffer, outbox and peer.
* In `Lifecycle` two descriptors are one client with its web server, or two
  clients: they run out, and each number is used again by the other kind. The
  third connection finds no thread.
* In `ProxyLog` two threads meet in every pair of places; two lines let one
  thread write between the other's pieces.
* `MaxPuts`, `MaxTime` and the like bound history counters and clocks; where
  there is a theorem it holds for every value of them.

Deadlock is not checked: in `Cache`, `Freshness` and `ProxyLog` the bounded
counters run out; in `CacheRace`, `GetHandler` and `Lifecycle` a process that
has followed a wild pointer or has ended stops, and so does `GetHandler` when a
put has overlapped a call; in `GetHandler` and `Upstream` a thread in the
endless chunk loop changes nothing any more; a tunnel may wait in `send` for
ever; an exchange and a tunnel come to their end.

### Fairness

Each is weak fairness of a step that the operating system or the other side of
a blocking call performs; a failure never has to happen.

* `GetHandler`: each thread's `Handle`. The web server answers or closes,
  since `recv` without a time limit waits for one or the other; the chunk loop
  may go on for ever (`cut`). There is none on `Arrive`, on `Overlap` or on the
  origin's changes.
* `Upstream`: the thread (`Runs`), and that a web server that has no more to
  say closes (`Closes`). A request that the server waits for in vain ends the
  same way, by the server's own time limit.
* `Tunnel`: the thread, of which time in `select` is a part. Nothing is assumed
  of the peers, which may never read; `TunnelEnds` names the one wait without
  limit.
* `Lifecycle`: the accept loop with its failure, and each thread with the
  failure of an answer, which is not the program's choice, except at the lines
  where it may stay for ever (`Waits`). Clients and web servers need do
  nothing; `Served` names the two ways in which the proxy then starves.
* `ProxyLog`: each thread once it has begun a line; the mutex promises none its
  turn, so `LineWritten` holds only up to the bound on the log.

## 4. What is proved

Each theorem holds for every value of the constants that the named assumptions
admit: every set of keys, threads or replies, every capacity and bound.

**Cache** (`Cache_proofs`, on the lemmas of `CacheOps_proofs`): `TypeCorrect`,
`CacheWellFormed`, `CacheNoFault`, `CacheListInPutOrder`,
`CacheListInTimeOrder`, and the refinement `CacheImplementsLru`
(`Spec => Lru!Spec`).

The inductive invariant is `Cache!IInv`. `WellFormed` alone is not inductive:
`Links` says that neighbours agree but not that following `prev` from the tail
visits every node once, so `removeTail` could leave a node that is its own
neighbour, or a cycle apart from the list. The history variable `stamp` closes
the gap: `Order` says that stamps differ, that `next` leads to the node with
the next smaller stamp, and that the tail has the smallest. Then the node
before the tail has the smallest stamp of the others, and is a proper new tail.
The proof has one lemma for each method (`AddFromHead`, the two unlinkings,
`RemoveTail`, `StoreNode`), a lemma per action, and `StepIInv` puts them
together. `NoFault` needs it too: the dangling `next` is never followed because
only the tail has one. For the refinement `PutCachedContents` and
`PutNewContents` say what a `put` does to the pairs of key and entry, and
`Order` says that the tail is the key the abstract cache gives up.

**Freshness**: `FreshnessTypeCorrect`, `FreshRightWhenStoredSince`, for all
widths with `MaxTime < IntMod / 2` and `IntMod + MaxTime < SizeMod`. `IInv`
adds to the types the order of the clock readings and that the verdict is the
one the readings give; lemmas on `CalTimeDiff`, `ToInt` and the age do the
modular arithmetic.

**Cache line by line** (`Cache_proofs`, about `CacheRace`): `LinesInStep`,
`LinesAddUp`, `NodesPerTargetWithLock` for any number of threads whose calls do
not overlap (`[]OneAtATime`), and `LinesAddUpAlone` for one thread, of which
that is true. Nothing in the code sees to it, nor would the commented-out
`lock_guard`s; a lock held about each whole call would. So the two statements
that `race_unlocked` is about (unique nodes, no more than the capacity) fail
because calls overlap, and for no other reason. The invariant `RaceInv` says of
each line what the call has made so far of the cache it found: nothing while it
reads (`Reading`), part of `removeTail` (`Removing`), an update and part of
`moveToHead` (`Moving`), part of `addFromHead` (`Adding`), each written with
the operators of `CacheOps`, until at the end it is in `Outcomes`. That the
cache it found is well formed and in the order of some history of puts
(`Sound`) is needed on the way: only then is a node no neighbour of itself and
the head no inner node (`FoundFacts`), so that the writes of `moveToHead` go to
different nodes and their order does not matter. One lemma per method says that
its lines compose (`UpdateLines`, `InnerLines`, `TailLines`, `FrontLines`,
`NewLines`), one per action that a line leads to the next.

**GET handler** (`GetHandler_proofs`). For any number of threads and any
capacity, evictions and NULLs included, up to the first put that overlaps
another call: `TypeCorrect`, `ForbiddenNeverStored`, `OwnTargetAlways`,
`OneAnswer`. `IInv` has four parts: the types; while the model runs, the cache
is well formed in *some* order of its entries (there is a history for which
`Order` holds, so the lemmas of `Cache` apply without a history variable here);
every entry and every response in hand has a body of its own target and is
allowed to be stored where it is about to be; and what a thread can have sent
by each line, which makes one answer per request.

What does not hold of every instance is proved under the condition that it
needs, stated as a formula on the constants. `Alone` is one connection at a time,
`PlainRequests` browsers that send no validators:

| Theorem | Under | Otherwise |
|---|---|---|
| `AloneKeepsRunning` (no NULL is followed, no put overlapped) | `Alone` | another thread evicts what this one found cached (`get_evicted`), or two calls overlap (`race_unlocked`) |
| `ValidatedFirst` (`ValidatedBeforeServed`) | `Alone` | the entry was replaced after it was checked |
| `CurrentAnswers` (`RevalidatedIsCurrent`) | `Alone` and `PlainRequests` | another thread's put comes between this one's put and its get; or a 304 that was meant for the browser's own copy renews an older body |
| `TagsOfItsBody` (`TagsNotAhead`) | `Alone` and `PlainRequests` | a late put leaves an older body beside newer validators; the same 304 |

Each has an invariant on top of `IInv`. `KeepInv`: the process runs, and a
target that a thread is looking up (`Looking`) is cached, since only an
eviction takes it out and only another thread can make one in between.
`SoleInv`: a thread that has not asked the origin went past the check of the
header block of the very node that is still there. `PlainInv`: the lines of
`conditionalReq` are never reached. `FaithInv`: what the request asks the
origin to validate is what the entry holds until the answer is there, and the
entry is of no later version than that answer. A 200 without an ETag that
replaces a body leaves the old ETag beside it (`Cache.cpp:85-98`), so
validators and body need not be of one version; what saves `CurrentAnswers` is
that the validators an entry holds are never younger than its body, and the
origin confirms only its current one, so what it confirms is current. The
origin may send or leave out each validator with each answer. The constants'
assumption says of the validators only that each version has one of its own,
which is not the mark for none (`DataAssumption`).

**Upstream** (`Upstream_proofs`): `WholeResponse`, `ChunksToTheEnd`,
`BadGatewayOnlyWhenCut`, `PrefixSent`, for every set of responses that obeys
`FramingAssumption` (a length or chunks, not both, and nothing after the body),
every cut into pieces and every place to break off. Lemmas on `ResponseText`
say what the parser makes of a whole header (`HeaderWhole`) and of any part of
one (`Lengths`). `IInv` adds what `recvAllData` has counted (`Rest`: the body
it took to be in the first piece, and everything after), and where the browser
is when the next piece goes out (`Sent`). `EarlyEnd` is the argument for the
502: also when a cut header was taken for body, the count is never too small.

**Tunnel** (`Tunnel_proofs`): `StreamsInOrder`, `LastWords`. `RelaysInOrder`
already says where every byte is (read, on its way, in the one buffer, or still
to be received). `IInv` adds what `select` has promised: a side it has named
still has something to receive, if only its end, when its turn comes (`Turn`);
that nothing has happened to the web server's side before the connection
(`Begun`); and that a side that has ended is not open and that only the closing
follows (`Ends`).

**Lifecycle** (`Lifecycle_proofs`): `EveryConnectionAccounted`,
`NoAnswerGoesAstray`. `IInv` has both properties and, while nothing stray was
closed, `Hands`: which kinds of request can be at which line (`Stages`), that
the accept loop holds the connection it accepted last, which has no thread yet
(`Loop`), and that each number a thread is still to close stands for its own
connection (`Owners`). The last is what a reused number could break.

**Log** (`ProxyLog_proofs`): `DatesRightWhenAlone`, `LinesStayWhole`. `IInv`
says what `tm`, `asc` and the locals are at each line of a thread that has been
alone so far (`Reached`), that two threads that use the buffers have met, that
the lock's holder is the one thread between `text` and `unlock`, and that a
text without its end of line is the last piece, and its writer's.

Only model-checked: the liveness properties `ExchangeEnds`, `EventuallyClosed`,
`TunnelEnds`, `Served` and `LineWritten`; every invariant and the refinement
that a passing run checks are proved as well, where a condition is needed under
the one the table gives. Out of the prover's reach, and so for TLC alone:
liveness under fairness and ENABLED; induction over data, whose theorems take
an operator as a parameter; RECURSIVE operators, of which there are none here.
That the lines of `put` add up to the operators (`PutAlone`) is proved and has
no run.

## 5. Not modelled, and what is left

Not modelled, and why:

* `HttpRequest` (`httprequest.cpp`): only its outcomes, malformed or a method
  with the headers the handlers look at. It is pure text processing on the one
  piece that `recvData` returned. That a POST whose body comes in a later piece
  goes out without it is in `Upstream` (the web server then says nothing).
* `verifyBasicFormat`, `checkCachingResponse`, `sendData`, `closeLogFile`:
  never called.
* The set-up of the listening socket, except that it may fail unnoticed; the
  destructor of the static `Cache`, which runs when the process ends.
* The wording of messages and log lines; the manual test programs.
* What several threads see and send after a put has overlapped another call,
  but for the cache they leave behind (`CacheRace`).
* In `GetHandler` the differences in length of header blocks (`GetSizeAndReply`
  compares bodies only), where exactly a response was cut, and that a `private`
  in the part of the header that was cut off is not seen.
* Tearing of single fields, memory ordering, two accesses to a `std::map` or to
  the log's stream at once: undefined in C++, so that nothing could be claimed
  after them.

What is left, in the order of use:

1. `HttpRequest` on a request cut by `recv`, in the units of `ResponseText`.
2. The five copies of the code after a fetch as five places of `GetHandler`, so
   that a check left out of a single copy shows wherever it is.
3. `GetHandler`: `CurrentAnswers` and `TagsOfItsBody` for several threads that
   never have the same target at the same time, with room for all.
