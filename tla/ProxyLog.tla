------------------------------ MODULE ProxyLog -------------------------------
(***************************************************************************)
(* The lines threads write to the log (ProxyLog.cpp) and the dates in them  *)
(* (Time.cpp): a mutex keeps the lines apart, but every date passes through  *)
(* the static buffers of gmtime and asctime, which all threads share and     *)
(* nothing guards.  Cache and HttpRequest take their times from the same     *)
(* functions, so what is said of a date here is true of responseTime too.    *)
(*                                                                          *)
(* A date is a number of seconds, of Greenwich or of the local clock.        *)
(***************************************************************************)
EXTENDS Integers, Sequences

CONSTANTS
    Threads,
    Zone,           \* local time is this much ahead of Greenwich's
    Dates,          \* values of Date and Expires
    Ages,           \* values of max-age
    Mixed,          \* a buffer or date made of parts of two
    MaxTime,        \* bound: of the clock
    MaxLines        \* bound: of the log

ASSUME ProxyLogAssumption ==
    /\ Zone \in Int /\ Dates \subseteq Int /\ Ages \subseteq Int
    /\ Mixed \notin Int
    /\ MaxTime \in Nat /\ MaxLines \in Nat

VARIABLES
    clock,      \* the time
    tm,         \* the static buffer of gmtime
    asc,        \* the static buffer of asctime
    lock,       \* the mutex of writeLogFile: who holds it
    log,        \* the pieces that have been written, with their writers
    pc,         \* where each thread is
    entry,      \* the line it is about to write
    time,       \* its time_t: now or gmt_time
    date,       \* its copy of asctime's result
    now,        \* history: the clock when it began
    met         \* history: the threads that were not alone with the buffers

buffers == <<tm, asc>>
local   == <<entry, time, date>>
vars == <<clock, buffers, lock, log, pc, local, now, met>>

\* The lines that have a date: the time of a request, the Expires of a response,
\* or its Date and max-age; and the others.
Entry ==
    [mode : {"request", "plain"}]
    \union [mode : {"expires"}, date : Dates]
    \union [mode : {"maxage"}, date : Dates, age : Ages]

Instant == Int \union {Mixed}

Piece == {"text", "endl"} \X Threads

\* mktime takes a date for local time.
MkTime(d) == d - Zone

Goto(t, line) == pc' = [pc EXCEPT ![t] = line]

UsesBuffers(t) == pc[t] \in {"utc_time", "offset", "gmtime", "asctime", "copy"}

Init ==
    /\ clock = 0
    /\ tm = 0 /\ asc = 0
    /\ lock = {}
    /\ log = <<>>
    /\ pc = [t \in Threads |-> "idle"]
    /\ entry = [t \in Threads |-> [mode |-> "plain"]]
    /\ time = [t \in Threads |-> 0] /\ date = [t \in Threads |-> 0]
    /\ now = [t \in Threads |-> 0]
    /\ met = {}

Tick ==
    /\ clock < MaxTime
    /\ clock' = clock + 1
    /\ UNCHANGED <<buffers, lock, log, pc, local, now, met>>

-----------------------------------------------------------------------------
(* The date.                                                                *)

\* Mutant: the date of a response is converted as if it were local.
StartUnconverted(e) == IF e.mode = "maxage" THEN e.date ELSE clock

\* time(0) of getLocalUTC; mktime of the Date of a response.
Start(e) == IF e.mode = "maxage" THEN MkTime(e.date) ELSE clock

FirstLine ==
    [request |-> "gmtime", expires |-> "asctime", maxage |-> "utc_time", plain |-> "lock"]

\* A thread begins a line.
Begin(t) ==
    /\ pc[t] = "idle"
    /\ \E e \in Entry :
          /\ entry' = [entry EXCEPT ![t] = e]
          /\ time' = [time EXCEPT ![t] = Start(e)]
          /\ Goto(t, FirstLine[e.mode])
          /\ now' = [now EXCEPT ![t] = clock]
          /\ LET others == {u \in Threads \ {t} : UsesBuffers(u)} IN
             met' = IF e.mode = "plain" THEN met \ {t}
                    ELSE (met \ {t}) \union others
                         \union (IF others = {} THEN {} ELSE {t})
    /\ UNCHANGED <<clock, buffers, lock, log, date>>

\* A buffer while another thread may be writing to it.
Sees(t, buffer, writers) ==
    {buffer} \union {Mixed : u \in {v \in Threads \ {t} : pc[v] \in writers}}

\* gmtime, which both branches call and one of them twice.
GmTime(t) ==
    /\ \/ pc[t] = "utc_time" /\ Goto(t, "offset")
       \/ pc[t] = "gmtime" /\ Goto(t, "asctime")
    /\ tm' \in Sees(t, time[t], {"utc_time", "gmtime"})
    /\ UNCHANGED <<clock, asc, lock, log, local, now, met>>

\* mktime(utc_time) is by how much mktime is off: gmt_time - offset + maxAge.
Offset(t) ==
    /\ pc[t] = "offset"
    /\ \E d \in Sees(t, tm, {"utc_time", "gmtime"}) :
          time' = [time EXCEPT ![t] =
             IF d = Mixed THEN Mixed ELSE @ - (MkTime(d) - @) + entry[t].age]
    /\ Goto(t, "gmtime")
    /\ UNCHANGED <<clock, buffers, lock, log, entry, date, now, met>>

\* asctime of gmtime's buffer, or of gmtToUTC's own struct tm.
AscTime(t) ==
    /\ pc[t] = "asctime"
    /\ \E d \in (IF entry[t].mode = "expires" THEN {entry[t].date}
                 ELSE Sees(t, tm, {"utc_time", "gmtime"})) :
          asc' \in Sees(t, d, {"asctime"})
    /\ Goto(t, "copy")
    /\ UNCHANGED <<clock, tm, lock, log, local, now, met>>

\* The std::string that is made of asctime's result.
Copy(t) ==
    /\ pc[t] = "copy"
    /\ \E d \in Sees(t, asc, {"asctime"}) : date' = [date EXCEPT ![t] = d]
    /\ Goto(t, "lock")
    /\ UNCHANGED <<clock, buffers, lock, log, entry, time, now, met>>

-----------------------------------------------------------------------------
(* writeLogFile.                                                            *)

\* Mutant: the mutex is not waited for.
LockAnyway(t) ==
    /\ pc[t] = "lock" /\ Len(log) + 2 <= 2 * MaxLines
    /\ lock' = lock \union {t}
    /\ Goto(t, "text")
    /\ UNCHANGED <<clock, buffers, log, local, now, met>>

Lock(t) ==
    /\ pc[t] = "lock" /\ lock = {}
    /\ Len(log) + 2 <= 2 * MaxLines
    /\ lock' = {t}
    /\ Goto(t, "text")
    /\ UNCHANGED <<clock, buffers, log, local, now, met>>

\* The line, then std::endl.
Write(t) ==
    /\ \/ pc[t] = "text" /\ Goto(t, "endl")
       \/ pc[t] = "endl" /\ Goto(t, "unlock")
    /\ log' = Append(log, <<pc[t], t>>)
    /\ UNCHANGED <<clock, buffers, lock, local, now, met>>

\* Mutant: the mutex is kept.
UnlockForgotten(t) ==
    /\ pc[t] = "unlock"
    /\ Goto(t, "idle")
    /\ UNCHANGED <<clock, buffers, lock, log, local, now, met>>

Unlock(t) ==
    /\ pc[t] = "unlock"
    /\ lock' = lock \ {t}
    /\ Goto(t, "idle")
    /\ UNCHANGED <<clock, buffers, log, local, now, met>>

Goes(t) ==
    GmTime(t) \/ Offset(t) \/ AscTime(t) \/ Copy(t) \/ Lock(t) \/ Write(t) \/ Unlock(t)

Next == Tick \/ \E t \in Threads : Begin(t) \/ Goes(t)

Spec == Init /\ [][Next]_vars

\* The operating system runs every thread; a mutex promises none its turn.
FairSpec == Spec /\ \A t \in Threads : WF_vars(Goes(t))

-----------------------------------------------------------------------------
(* Properties.                                                              *)

\* Every variable has its type.
TypeOK ==
    /\ clock \in 0..MaxTime
    /\ tm \in Instant /\ asc \in Instant
    /\ lock \in {{}} \union {{t} : t \in Threads}
    /\ log \in Seq(Piece)
    /\ pc \in [Threads -> {"idle", "utc_time", "offset", "gmtime", "asctime", "copy",
                           "lock", "text", "endl", "unlock"}]
    /\ entry \in [Threads -> Entry]
    /\ time \in [Threads -> Instant] /\ date \in [Threads -> Instant]
    /\ now \in [Threads -> 0..MaxTime]
    /\ met \subseteq Threads

\* The date a line is to have.
Right(t) ==
    CASE entry[t].mode = "request" -> now[t]
      [] entry[t].mode = "expires" -> entry[t].date
      [] entry[t].mode = "maxage" -> entry[t].date + entry[t].age

\* A date is the right one, in every time zone, if its thread was alone with
\* the buffers from the beginning to the end of the conversion.  (If it was not, a
\* request may be dated with the Expires of another's response.)
RightWhenAlone ==
    \A t \in Threads :
       (pc[t] \in {"lock", "text", "endl", "unlock"} /\ entry[t].mode # "plain"
          /\ t \notin met) => date[t] = Right(t)

\* A line is followed by its own end of line, however many threads write.
LinesWhole ==
    \A i \in 1..Len(log) :
       /\ (log[i][1] = "text" /\ i < Len(log)) => log[i + 1] = <<"endl", log[i][2]>>
       /\ log[i][1] = "endl" => i > 1 /\ log[i - 1] = <<"text", log[i][2]>>

\* Whoever begins a line gets it written, unless the others go on for ever (up
\* to the bound) and leave it no room.
LineWritten ==
    \A t \in Threads :
       (pc[t] # "idle") ~> (pc[t] = "idle" \/ Len(log) + 2 > 2 * MaxLines)

=============================================================================
