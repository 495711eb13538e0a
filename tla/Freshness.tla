------------------------------ MODULE Freshness ------------------------------
(***************************************************************************)
(* Cache::isFresh and what it is computed from: Time::calTimeDiff, which    *)
(* turns a signed difference of seconds into a size_t, getMaxAge, which     *)
(* looks a header up under a name parseHeaderFields never stores, and the   *)
(* clock readings of three different moments.  One entry is cached; put     *)
(* may replace it at any time (another handler's response), and one request *)
(* is judged, step by step, as handler threads do without a lock.           *)
(***************************************************************************)
EXTENDS Integers

CONSTANTS
    SizeMod,        \* 2^64: a size_t counts modulo SizeMod
    IntMod,         \* 2^32: an int is a 32-bit two's complement number
    DefaultMaxAge,  \* 600 seconds in the build
    MaxAges,        \* values of max-age a response may carry
    NoMaxAge,       \* the response has no max-age
    MissingDate,    \* what gmtToUTC makes of an empty Date: 31 December 1899
    MaxTime         \* bound: the clock

ASSUME ModAssumption ==
    /\ MaxTime \in Nat /\ IntMod \in Nat /\ SizeMod \in Nat
    /\ IntMod > 0 /\ 2 * (IntMod \div 2) = IntMod
    /\ MaxTime < IntMod \div 2
    /\ IntMod + MaxTime < SizeMod

ASSUME MaxAgeAssumption ==
    /\ DefaultMaxAge \in Nat \ {0} /\ DefaultMaxAge < SizeMod
    /\ MaxAges \subseteq Nat /\ NoMaxAge \notin MaxAges

\* Until February 2036 the seconds since MissingDate fit 32 bits, not 31.
ASSUME MissingDateAssumption ==
    /\ MissingDate \in Int
    /\ \A t \in 0..MaxTime : t - MissingDate \in (IntMod \div 2)..(IntMod - 1)

Dates == (0..MaxTime) \union {MissingDate}

\* The Cache-Control of a response as far as its age goes.
Control == MaxAges \union {NoMaxAge}

-----------------------------------------------------------------------------
(* The arithmetic.                                                          *)

\* static_cast<size_t>(time_t1 - time_t2)
CalTimeDiff(t1, t2) == (t1 - t2) % SizeMod

\* int(u) of a size_t u: the low 32 bits, read as a signed number.
ToInt(u) ==
    LET low == u % IntMod IN
    IF low < IntMod \div 2 THEN low ELSE low - IntMod

Larger(a, b) == IF a < b THEN b ELSE a

ApparentAge(responseTime, date) ==
    Larger(0, ToInt(CalTimeDiff(responseTime, date)))

\* Mutant: the time the entry has been in the cache is left out.
InitialAge(requestTime, responseTime, date, time) ==
    Larger(ApparentAge(responseTime, date), CalTimeDiff(responseTime, requestTime))

CurrentAge(requestTime, responseTime, date, time) ==
    ( Larger(ApparentAge(responseTime, date),
             CalTimeDiff(responseTime, requestTime))
      + CalTimeDiff(time, responseTime) ) % SizeMod

\* parseHeaderFields lower-cases every name before it stores the value.
HeaderMap(control) == [name \in {"cache-control"} |-> control]

\* getMaxAge asks for "Cache-Control".
GetMaxAge(control) ==
    IF /\ "Cache-Control" \in DOMAIN HeaderMap(control)
       /\ control # NoMaxAge
    THEN HeaderMap(control)["Cache-Control"]
    ELSE DefaultMaxAge

-----------------------------------------------------------------------------
VARIABLES
    now,    \* what Time::getLocalUTC reads
    entry,  \* the cached response: its Date, Cache-Control and responseTime
    pc,     \* the line of isFresh the request is at
    check   \* the values the request has read so far, and the verdict

vars == <<now, entry, pc, check>>

Entry == [date : Dates, control : Control, responseTime : 0..MaxTime]

Check ==
    [requestTime : 0..MaxTime, date : Dates, control : Control,
     responseTime : 0..MaxTime, at : 0..MaxTime, fresh : BOOLEAN]

\* Mutant: dated ahead.
StoredAhead(e) == e.responseTime >= now

\* The response is stored the moment it is received (CacheNode's constructor,
\* or put's line 85), so responseTime is the time of the put.
Stored(e) == e.responseTime = now

Init ==
    /\ now = 0
    /\ entry \in Entry /\ Stored(entry)
    /\ pc = "idle"
    /\ check = [requestTime |-> 0, date |-> 0, control |-> NoMaxAge,
                responseTime |-> 0, at |-> 0, fresh |-> FALSE]

Tick ==
    /\ now < MaxTime
    /\ now' = now + 1
    /\ UNCHANGED <<entry, pc, check>>

\* put by any handler: the first time, a refetch or a 304.
Put ==
    /\ entry' \in Entry /\ Stored(entry')
    /\ UNCHANGED <<now, pc, check>>

\* HttpRequest's constructor notes the time.
Request ==
    /\ pc \in {"idle", "judged"}
    /\ pc' = "parsed"
    /\ check' = [check EXCEPT !.requestTime = now]
    /\ UNCHANGED <<now, entry>>

\* The cached response is copied; Date and max-age are read from the copy.
ReadResponse ==
    /\ pc = "parsed"
    /\ pc' = "copied"
    /\ check' = [check EXCEPT !.date = entry.date, !.control = entry.control]
    /\ UNCHANGED <<now, entry>>

\* responseTime is read from the node, which may have changed since.
ReadResponseTime ==
    /\ pc = "copied"
    /\ pc' = "timed"
    /\ check' = [check EXCEPT !.responseTime = entry.responseTime]
    /\ UNCHANGED <<now, entry>>

Judge ==
    /\ pc = "timed"
    /\ pc' = "judged"
    /\ check' = [check EXCEPT
                   !.at = now,
                   !.fresh = CurrentAge(check.requestTime, check.responseTime,
                                        check.date, now)
                               < GetMaxAge(check.control)]
    /\ UNCHANGED <<now, entry>>

Next == Tick \/ Put \/ Request \/ ReadResponse \/ ReadResponseTime \/ Judge

Spec == Init /\ [][Next]_vars

-----------------------------------------------------------------------------
(* Properties.                                                              *)

\* Every variable has its type.
TypeOK ==
    /\ now \in 0..MaxTime
    /\ entry \in Entry
    /\ pc \in {"idle", "parsed", "copied", "timed", "judged"}
    /\ check \in Check

\* The clock readings are in the order they are taken.
Timed ==
    /\ entry.responseTime <= now
    /\ check.requestTime <= now
    /\ pc \in {"timed", "judged"} => check.responseTime <= now
    /\ pc = "judged" => /\ check.at <= now
                        /\ check.requestTime <= check.at
                        /\ check.responseTime <= check.at

\* The entry was stored no earlier than the request came in.
StoredSinceRequest == check.requestTime <= check.responseTime

\* The verdict is what the readings give.
Verdict ==
    pc = "judged" =>
       check.fresh = (CurrentAge(check.requestTime, check.responseTime,
                                 check.date, check.at)
                        < GetMaxAge(check.control))

\* Of an entry stored since the request came in, isFresh is right: what it
\* calls fresh is within the ten minutes, counted from the request and, when it
\* has a Date, from that Date as well; and a response without Date, whose age
\* seems to be that of the year 1899, is not called stale for it.
RightWhenStoredSince ==
    (pc = "judged" /\ StoredSinceRequest) =>
       /\ check.fresh =>
             /\ check.at - check.requestTime < DefaultMaxAge
             /\ check.date # MissingDate => check.at - check.date < DefaultMaxAge
       /\ ( /\ check.date = MissingDate
            /\ check.at - check.requestTime < DefaultMaxAge ) => check.fresh

-----------------------------------------------------------------------------
(* What documents of the repository say.                                    *)

\* How long a response stays fresh in the documents: its max-age (dangerlog.txt
\* line 16, "use the cache-control caching policy specified in the
\* cache-control"), or without one ten minutes.
Lifetime(control) == IF control = NoMaxAge THEN DefaultMaxAge ELSE control


IInv == TypeOK /\ Timed /\ Verdict

=============================================================================
