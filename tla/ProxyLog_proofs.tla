--------------------------- MODULE ProxyLog_proofs ---------------------------
(***************************************************************************)
(* Proofs about module ProxyLog, for every set of threads, every time zone  *)
(* and every date: a thread that is alone with the static buffers gets its  *)
(* own date, and the mutex keeps the lines whole.                           *)
(***************************************************************************)
EXTENDS ProxyLog, TLAPS

MaxAgeEntry == [mode : {"maxage"}, date : Dates, age : Ages]

\* Which branch of the code a line belongs to.
Branch(t) ==
    /\ pc[t] \in {"utc_time", "offset"} =>
          entry[t] \in MaxAgeEntry /\ time[t] \in Int
    /\ pc[t] = "gmtime" => entry[t].mode \in {"request", "maxage"}
    /\ UsesBuffers(t) => entry[t].mode # "plain"

\* What a thread that is alone has reached.
Reached(t) ==
    /\ pc[t] \in {"utc_time", "offset"} => time[t] = MkTime(entry[t].date)
    /\ pc[t] = "offset" => tm = time[t]
    /\ pc[t] = "gmtime" => time[t] = Right(t)
    /\ (pc[t] = "asctime" /\ entry[t].mode # "expires") => tm = Right(t)
    /\ pc[t] = "copy" => asc = Right(t)
    /\ (~UsesBuffers(t) /\ pc[t] # "idle" /\ entry[t].mode # "plain") =>
          date[t] = Right(t)

\* Threads that use the buffers at the same time have met.
Meetings ==
    \A t, u \in Threads :
       (t # u /\ UsesBuffers(t) /\ UsesBuffers(u)) => t \in met

Conversion ==
    /\ Meetings
    /\ \A t \in Threads : Branch(t)
    /\ \A t \in Threads \ met : Reached(t)

Writing(t) == pc[t] \in {"text", "endl", "unlock"}

\* A line that is begun is the last piece, and its writer is about to end it.
Mutex ==
    /\ \A t \in Threads : Writing(t) => lock = {t}
    /\ LinesWhole
    /\ \A t \in Threads : pc[t] = "endl" => log # <<>> /\ log[Len(log)] = <<"text", t>>
    /\ (log # <<>> /\ log[Len(log)][1] = "text") =>
          pc[log[Len(log)][2]] = "endl"

IInv == TypeOK /\ Conversion /\ Mutex

-----------------------------------------------------------------------------
\* The fields of an entry.
LEMMA EntryFields ==
    ASSUME NEW e \in Entry
    PROVE  /\ e.mode \in {"request", "plain", "expires", "maxage"}
           /\ e.mode = "maxage" => e \in MaxAgeEntry /\ e.date \in Int /\ e.age \in Int
           /\ e.mode = "expires" => e.date \in Int
  <1>1. CASE e \in [mode : {"request", "plain"}]
    BY <1>1
  <1>2. CASE e \in [mode : {"expires"}, date : Dates]
    BY <1>2, ProxyLogAssumption
  <1>3. CASE e \in [mode : {"maxage"}, date : Dates, age : Ages]
    BY <1>3, ProxyLogAssumption DEF MaxAgeEntry
  <1>4. QED
    BY <1>1, <1>2, <1>3 DEF Entry

\* A thread that has met nobody sees the buffers as they are.
LEMMA SeesAlone ==
    ASSUME NEW t \in Threads, t \notin met, Meetings, UsesBuffers(t),
           NEW b, NEW W,
           W \subseteq {"utc_time", "offset", "gmtime", "asctime", "copy"}
    PROVE  Sees(t, b, W) = {b}
  BY DEF Meetings, UsesBuffers, Sees

LEMMA SeesType ==
    ASSUME NEW t, NEW b \in Instant, NEW W
    PROVE  Sees(t, b, W) \subseteq Instant
  BY DEF Sees, Instant

LEMMA InitIInv == Init => IInv
  <1> SUFFICES ASSUME Init PROVE IInv
    OBVIOUS
  <1> USE ProxyLogAssumption
  <1>1. TypeOK
    BY DEF Init, TypeOK, Entry, Instant, Piece
  <1>2. Conversion
    BY DEF Init, Conversion, Meetings, Branch, Reached, UsesBuffers
  <1>3. Mutex
    BY DEF Init, Mutex, Writing, LinesWhole
  <1>4. QED
    BY <1>1, <1>2, <1>3 DEF IInv

-----------------------------------------------------------------------------
(* Types.                                                                   *)

LEMMA StepType ==
    ASSUME TypeOK, \A t \in Threads : Branch(t), [Next]_vars
    PROVE  TypeOK'
  <1> USE ProxyLogAssumption
  <1>1. CASE Tick
    BY <1>1 DEF Tick, TypeOK, buffers, local
  <1>2. ASSUME NEW t \in Threads, Begin(t)
        PROVE  TypeOK'
    <2>1. PICK e \in Entry :
             /\ entry' = [entry EXCEPT ![t] = e]
             /\ time' = [time EXCEPT ![t] = Start(e)]
             /\ pc' = [pc EXCEPT ![t] = FirstLine[e.mode]]
      BY <1>2 DEF Begin, Goto
    <2>2. Start(e) \in Instant
      BY EntryFields DEF Start, MkTime, Instant, TypeOK
    <2>3. FirstLine[e.mode] \in {"gmtime", "asctime", "utc_time", "lock"}
      BY EntryFields DEF FirstLine
    <2>4. met' \subseteq Threads
      BY <1>2 DEF Begin, TypeOK
    <2>5. QED
      BY <1>2, <2>1, <2>2, <2>3, <2>4 DEF Begin, TypeOK, buffers
  <1>3. ASSUME NEW t \in Threads, GmTime(t)
        PROVE  TypeOK'
    <2>1. tm' \in Instant
      BY <1>3, SeesType DEF GmTime, TypeOK
    <2>2. QED
      BY <1>3, <2>1 DEF GmTime, Goto, TypeOK, local
  <1>4. ASSUME NEW t \in Threads, Offset(t)
        PROVE  TypeOK'
    <2>1. PICK d \in Sees(t, tm, {"utc_time", "gmtime"}) :
             time' = [time EXCEPT ![t] =
                IF d = Mixed THEN Mixed
                ELSE time[t] - (MkTime(d) - time[t]) + entry[t].age]
      BY <1>4 DEF Offset
    <2>2. d \in Instant
      BY <2>1, SeesType DEF TypeOK
    <2>3. time[t] \in Int /\ entry[t].age \in Int
      BY <1>4 DEF Offset, Branch, MaxAgeEntry
    <2>4. (IF d = Mixed THEN Mixed
           ELSE time[t] - (MkTime(d) - time[t]) + entry[t].age) \in Instant
      BY <2>2, <2>3 DEF Instant, MkTime
    <2>5. QED
      BY <1>4, <2>1, <2>4 DEF Offset, Goto, TypeOK, buffers
  <1>5. ASSUME NEW t \in Threads, AscTime(t)
        PROVE  TypeOK'
    <2>1. PICK d \in (IF entry[t].mode = "expires" THEN {entry[t].date}
                      ELSE Sees(t, tm, {"utc_time", "gmtime"})) :
             asc' \in Sees(t, d, {"asctime"})
      BY <1>5 DEF AscTime
    <2>2. entry[t].mode = "expires" => entry[t].date \in Int
      BY EntryFields DEF TypeOK
    <2>3. d \in Instant
      BY <2>1, <2>2, SeesType DEF TypeOK, Instant
    <2>4. asc' \in Instant
      BY <2>1, <2>3, SeesType
    <2>5. QED
      BY <1>5, <2>4 DEF AscTime, Goto, TypeOK, local
  <1>6. ASSUME NEW t \in Threads, Copy(t)
        PROVE  TypeOK'
    <2>1. PICK d \in Sees(t, asc, {"asctime"}) : date' = [date EXCEPT ![t] = d]
      BY <1>6 DEF Copy
    <2>2. d \in Instant
      BY <2>1, SeesType DEF TypeOK
    <2>3. QED
      BY <1>6, <2>1, <2>2 DEF Copy, Goto, TypeOK, buffers
  <1>7. ASSUME NEW t \in Threads, Lock(t)
        PROVE  TypeOK'
    BY <1>7 DEF Lock, Goto, TypeOK, buffers, local
  <1>8. ASSUME NEW t \in Threads, Write(t)
        PROVE  TypeOK'
    <2>1. <<pc[t], t>> \in Piece
      BY <1>8 DEF Write, Piece
    <2>2. log' \in Seq(Piece)
      BY <1>8, <2>1 DEF Write, TypeOK
    <2>3. QED
      BY <1>8, <2>2 DEF Write, Goto, TypeOK, buffers, local
  <1>9. ASSUME NEW t \in Threads, Unlock(t)
        PROVE  TypeOK'
    BY <1>9 DEF Unlock, Goto, TypeOK, buffers, local
  <1>10. CASE UNCHANGED vars
    BY <1>10 DEF vars, buffers, local, TypeOK
  <1>11. QED
    BY <1>1, <1>2, <1>3, <1>4, <1>5, <1>6, <1>7, <1>8, <1>9, <1>10 DEF Next, Goes

-----------------------------------------------------------------------------
(* The conversion of a date.                                                *)

\* The steps that use the buffers: whoever has met nobody does not use them
\* at the time.
LEMMA StepConversion ==
    ASSUME IInv, [Next]_vars
    PROVE  Conversion'
  <1> USE ProxyLogAssumption DEF IInv, TypeOK, Conversion
  <1> DEFINE Same(u) == /\ pc'[u] = pc[u] /\ entry'[u] = entry[u] /\ time'[u] = time[u]
                        /\ date'[u] = date[u] /\ now'[u] = now[u]
  <1>0. ASSUME NEW u \in Threads, Same(u)
        PROVE  /\ UsesBuffers(u)' = UsesBuffers(u)
               /\ Branch(u)' = Branch(u)
               /\ Right(u)' = Right(u)
    BY <1>0 DEF UsesBuffers, Branch, Right
  \* Somebody else uses the buffers.
  <1>u. ASSUME NEW u \in Threads \ met, Same(u), ~UsesBuffers(u)
        PROVE  Reached(u)'
    BY <1>0, <1>u DEF Reached, UsesBuffers
  <1>v. ASSUME NEW t \in Threads, UsesBuffers(t), NEW u \in Threads \ met, u # t
        PROVE  ~UsesBuffers(u)
    BY <1>v DEF Meetings
  <1>1. ASSUME NEW t \in Threads, Begin(t)
        PROVE  Conversion'
    <2>1. PICK e \in Entry :
             /\ entry' = [entry EXCEPT ![t] = e]
             /\ time' = [time EXCEPT ![t] = Start(e)]
             /\ pc' = [pc EXCEPT ![t] = FirstLine[e.mode]]
             /\ LET others == {u \in Threads \ {t} : UsesBuffers(u)} IN
                met' = IF e.mode = "plain" THEN met \ {t}
                       ELSE (met \ {t}) \union others
                            \union (IF others = {} THEN {} ELSE {t})
      BY <1>1 DEF Begin, Goto
    <2>2. /\ pc[t] = "idle" /\ now' = [now EXCEPT ![t] = clock]
          /\ UNCHANGED <<tm, asc, date>>
      BY <1>1 DEF Begin, buffers
    <2>3. \A u \in Threads \ {t} : Same(u)
      BY <2>1, <2>2
    <2>4. /\ pc'[t] = FirstLine[e.mode] /\ entry'[t] = e /\ time'[t] = Start(e)
          /\ now'[t] = clock
      BY <2>1, <2>2
    <2>5. /\ e.mode = "plain" => ~UsesBuffers(t)'
          /\ \A u \in Threads \ {t} : UsesBuffers(u)' = UsesBuffers(u)
      BY <1>0, <2>3, <2>4 DEF FirstLine, UsesBuffers
    <2>6. Meetings'
      BY <2>1, <2>5 DEF Meetings
    <2>7. Branch(t)' /\ Reached(t)'
      <3>1. e.mode \in {"request", "plain", "expires", "maxage"}
        BY EntryFields
      <3>2. CASE e.mode = "request"
        BY <2>4, <3>2 DEF FirstLine, Start, Branch, Reached, UsesBuffers, Right
      <3>3. CASE e.mode = "plain"
        BY <2>4, <3>3 DEF FirstLine, Start, Branch, Reached, UsesBuffers
      <3>4. CASE e.mode = "expires"
        BY <2>4, <3>4 DEF FirstLine, Start, Branch, Reached, UsesBuffers, Right
      <3>5. CASE e.mode = "maxage"
        BY <2>4, <3>5, EntryFields
           DEF FirstLine, Start, MkTime, Branch, Reached, UsesBuffers
      <3>6. QED
        BY <3>1, <3>2, <3>3, <3>4, <3>5
    <2>8. \A u \in Threads \ {t} : Branch(u)'
      BY <1>0, <2>3
    <2>9. \A u \in Threads \ {t} : u \notin met' => Reached(u)'
      <3> TAKE u \in Threads \ {t}
      <3> HAVE u \notin met'
      <3>1. u \notin met /\ Same(u)
        BY <2>1, <2>3
      <3>2. QED
        BY <1>0, <2>2, <3>1 DEF Reached
    <2>10. QED
      BY <2>6, <2>7, <2>8, <2>9
  <1>2. ASSUME NEW t \in Threads, GmTime(t)
        PROVE  Conversion'
    <2>1. /\ UNCHANGED <<asc, entry, time, date, now, met>>
          /\ UsesBuffers(t) /\ UsesBuffers(t)'
          /\ \A u \in Threads \ {t} : Same(u)
      BY <1>2 DEF GmTime, Goto, local, UsesBuffers
    <2>2. Meetings'
      BY <1>0, <2>1 DEF Meetings
    <2>3. Branch(t)'
      BY <1>2, <2>1 DEF GmTime, Goto, Branch, MaxAgeEntry, UsesBuffers
    <2>4. t \notin met => Reached(t)'
      <3> HAVE t \notin met
      <3>1. tm' = time[t]
        BY <1>2, <2>1, SeesAlone DEF GmTime
      <3>2. QED
        BY <1>2, <2>1, <3>1 DEF GmTime, Goto, Reached, Right, UsesBuffers
    <2>5. QED
      BY <1>0, <1>u, <1>v, <2>1, <2>2, <2>3, <2>4
  <1>3. ASSUME NEW t \in Threads, Offset(t)
        PROVE  Conversion'
    <2>1. /\ UNCHANGED <<tm, asc, entry, date, now, met>>
          /\ pc[t] = "offset" /\ pc'[t] = "gmtime"
          /\ UsesBuffers(t) /\ UsesBuffers(t)'
          /\ \A u \in Threads \ {t} : Same(u)
      BY <1>3 DEF Offset, Goto, buffers, UsesBuffers
    <2>2. Meetings'
      BY <1>0, <2>1 DEF Meetings
    <2>3. entry[t] \in MaxAgeEntry /\ entry[t].mode = "maxage" /\ time[t] \in Int
          /\ entry[t].date \in Int /\ entry[t].age \in Int
      BY <2>1 DEF Branch, MaxAgeEntry
    <2>4. Branch(t)'
      BY <2>1, <2>3 DEF Branch
    <2>5. t \notin met => Reached(t)'
      <3> HAVE t \notin met
      <3>1. Sees(t, tm, {"utc_time", "gmtime"}) = {tm}
        BY <2>1, SeesAlone
      <3>2. tm = time[t] /\ time[t] = entry[t].date - Zone
        BY <2>1 DEF Reached, MkTime
      <3>3. time'[t] = time[t] - ((tm - Zone) - time[t]) + entry[t].age
        BY <1>3, <2>3, <3>1, <3>2 DEF Offset, MkTime
      <3>4. time'[t] = entry[t].date + entry[t].age
        BY <2>3, <3>2, <3>3
      <3>5. QED
        BY <2>1, <2>3, <3>4 DEF Reached, Right, UsesBuffers
    <2>6. QED
      BY <1>0, <1>u, <1>v, <2>1, <2>2, <2>4, <2>5
  <1>4. ASSUME NEW t \in Threads, AscTime(t)
        PROVE  Conversion'
    <2>1. /\ UNCHANGED <<tm, entry, time, date, now, met>>
          /\ pc[t] = "asctime" /\ pc'[t] = "copy"
          /\ UsesBuffers(t) /\ UsesBuffers(t)'
          /\ \A u \in Threads \ {t} : Same(u)
      BY <1>4 DEF AscTime, Goto, local, UsesBuffers
    <2>2. Meetings'
      BY <1>0, <2>1 DEF Meetings
    <2>3. Branch(t)'
      BY <2>1 DEF Branch
    <2>4. t \notin met => Reached(t)'
      <3> HAVE t \notin met
      <3>1. \A b : Sees(t, b, {"asctime"}) = {b}
        BY <2>1, SeesAlone
      <3>2. Sees(t, tm, {"utc_time", "gmtime"}) = {tm}
        BY <2>1, SeesAlone
      <3>3. CASE entry[t].mode = "expires"
        BY <1>4, <2>1, <3>1, <3>3 DEF AscTime, Reached, Right, UsesBuffers
      <3>4. CASE entry[t].mode # "expires"
        <4>1. asc' = tm
          BY <1>4, <3>1, <3>2, <3>4 DEF AscTime
        <4>2. tm = Right(t)
          BY <2>1, <3>4 DEF Reached
        <4>3. Right(t)' = Right(t)
          BY <2>1 DEF Right
        <4>4. QED
          BY <2>1, <4>1, <4>2, <4>3 DEF Reached, UsesBuffers
      <3>5. QED
        BY <3>3, <3>4
    <2>5. QED
      BY <1>0, <1>u, <1>v, <2>1, <2>2, <2>3, <2>4
  <1>5. ASSUME NEW t \in Threads, Copy(t)
        PROVE  Conversion'
    <2>1. /\ UNCHANGED <<tm, asc, entry, time, now, met>>
          /\ pc[t] = "copy" /\ pc'[t] = "lock"
          /\ UsesBuffers(t) /\ ~UsesBuffers(t)'
          /\ \A u \in Threads \ {t} : Same(u)
      BY <1>5 DEF Copy, Goto, buffers, UsesBuffers
    <2>2. Meetings'
      BY <1>0, <2>1 DEF Meetings
    <2>3. Branch(t)'
      BY <2>1 DEF Branch
    <2>4. t \notin met => Reached(t)'
      <3> HAVE t \notin met
      <3>1. Sees(t, asc, {"asctime"}) = {asc}
        BY <2>1, SeesAlone
      <3>2. date'[t] = asc
        BY <1>5, <3>1 DEF Copy
      <3>3. QED
        BY <2>1, <3>2 DEF Reached, Right, UsesBuffers
    <2>5. QED
      BY <1>0, <1>u, <1>v, <2>1, <2>2, <2>3, <2>4
  \* The steps that write a line use no buffer.
  <1>6. ASSUME NEW t \in Threads, Lock(t) \/ Write(t) \/ Unlock(t)
        PROVE  Conversion'
    <2>1. /\ UNCHANGED <<tm, asc, entry, time, date, now, met>>
          /\ pc[t] # "idle"
          /\ ~UsesBuffers(t) /\ ~UsesBuffers(t)'
          /\ \A u \in Threads \ {t} : Same(u)
      BY <1>6 DEF Lock, Write, Unlock, Goto, buffers, local, UsesBuffers
    <2>2. Meetings'
      BY <1>0, <2>1 DEF Meetings
    <2>3. Branch(t)'
      BY <2>1 DEF Branch, UsesBuffers
    <2>4. t \notin met => Reached(t)'
      BY <2>1 DEF Reached, Right, UsesBuffers
    <2>5. \A u \in Threads \ {t} : u \notin met' => Reached(u)'
      BY <1>0, <2>1 DEF Reached
    <2>6. QED
      BY <1>0, <2>1, <2>2, <2>3, <2>4, <2>5
  <1>7. CASE Tick \/ UNCHANGED vars
    <2>1. UNCHANGED <<tm, asc, pc, entry, time, date, now, met>>
      BY <1>7 DEF Tick, vars, buffers, local
    <2>2. \A t \in Threads : UsesBuffers(t)' = UsesBuffers(t)
      BY <2>1 DEF UsesBuffers
    <2>3. Meetings'
      BY <1>0, <2>1, <2>2 DEF Meetings
    <2>4. \A t \in Threads : Branch(t)'
      BY <1>0, <2>1, <2>2 DEF Branch
    <2>5. \A t \in Threads : t \notin met' => Reached(t)'
      BY <1>0, <2>1, <2>2 DEF Reached, Right
    <2>6. QED
      BY <2>3, <2>4, <2>5
  <1>8. QED
    BY <1>1, <1>2, <1>3, <1>4, <1>5, <1>6, <1>7 DEF Next, Goes

-----------------------------------------------------------------------------
(* The mutex and the lines.                                                 *)

\* A piece that is appended.
LEMMA AppendPiece ==
    ASSUME NEW s \in Seq(Piece), NEW p \in Piece
    PROVE  LET r == Append(s, p) IN
           /\ r # <<>> /\ Len(r) = Len(s) + 1 /\ r[Len(r)] = p
           /\ \A i \in 1..Len(s) : r[i] = s[i] /\ s[i] \in Piece
  OBVIOUS

LEMMA StepMutex ==
    ASSUME IInv, [Next]_vars
    PROVE  Mutex'
  <1> USE DEF IInv
  <1>1. ASSUME NEW t \in Threads, Lock(t)
        PROVE  Mutex'
    <2>1. /\ lock = {} /\ lock' = {t} /\ log' = log
          /\ pc[t] = "lock" /\ pc' = [pc EXCEPT ![t] = "text"]
      BY <1>1 DEF Lock, Goto
    <2>2. \A u \in Threads : ~Writing(u)
      BY <2>1 DEF Mutex
    <2>3. \A u \in Threads : Writing(u)' => u = t
      BY <2>1, <2>2 DEF Writing, TypeOK
    <2>4. \A u \in Threads : (pc[u] = "endl") = (pc'[u] = "endl")
      BY <2>1 DEF TypeOK
    <2>5. (log # <<>> /\ log[Len(log)][1] = "text") => log[Len(log)][2] \in Threads
      BY DEF TypeOK, Piece
    <2>6. QED
      BY <2>1, <2>3, <2>4, <2>5 DEF Mutex, LinesWhole
  <1>2. ASSUME NEW t \in Threads, Write(t), pc[t] = "text"
        PROVE  Mutex'
    <2> DEFINE p == <<"text", t>>
    <2>1. /\ lock = {t} /\ lock' = lock /\ log' = Append(log, p)
          /\ pc' = [pc EXCEPT ![t] = "endl"]
      BY <1>2 DEF Write, Goto, Mutex, Writing
    <2>2. log \in Seq(Piece) /\ p \in Piece
      BY DEF TypeOK, Piece
    <2>3. \A u \in Threads : Writing(u) => u = t
      BY <2>1 DEF Mutex
    <2>4. ~(log # <<>> /\ log[Len(log)][1] = "text")
      <3> SUFFICES ASSUME log # <<>>, log[Len(log)][1] = "text" PROVE FALSE
        OBVIOUS
      <3>1. log[Len(log)][2] \in Threads
        BY <2>2 DEF Piece
      <3>2. pc[log[Len(log)][2]] = "endl"
        BY DEF Mutex
      <3>3. QED
        BY <1>2, <2>3, <3>1, <3>2 DEF Writing
    <2>5. /\ log' # <<>> /\ Len(log') = Len(log) + 1 /\ log'[Len(log')] = p
          /\ \A i \in 1..Len(log) : log'[i] = log[i]
      BY <2>1, <2>2, AppendPiece
    <2>6. LinesWhole'
      <3> SUFFICES ASSUME NEW i \in 1..Len(log')
                   PROVE  /\ (log'[i][1] = "text" /\ i < Len(log')) =>
                                log'[i + 1] = <<"endl", log'[i][2]>>
                          /\ log'[i][1] = "endl" =>
                                i > 1 /\ log'[i - 1] = <<"text", log'[i][2]>>
        BY DEF LinesWhole
      <3>1. CASE i = Len(log')
        BY <2>5, <3>1
      <3>2. CASE i # Len(log')
        <4>1. i \in 1..Len(log) /\ Len(log) \in Nat
          BY <2>2, <2>5, <3>2
        <4>2. i = Len(log) => log[i][1] # "text"
          BY <2>2, <2>4, <4>1
        <4>3. /\ log'[i] = log[i]
              /\ i < Len(log) => log'[i + 1] = log[i + 1]
              /\ i > 1 => log'[i - 1] = log[i - 1]
          BY <2>5, <4>1
        <4>4. QED
          BY <4>1, <4>2, <4>3 DEF Mutex, LinesWhole
      <3>3. QED
        BY <3>1, <3>2
    <2>7. \A u \in Threads : Writing(u)' => u = t
      BY <2>1, <2>3 DEF Writing, TypeOK
    <2>8. pc'[t] = "endl"
      BY <2>1 DEF TypeOK
    <2>9. \A u \in Threads : pc'[u] = "endl" => u = t
      BY <2>7 DEF Writing
    <2>10. QED
      BY <2>1, <2>5, <2>6, <2>7, <2>8, <2>9 DEF Mutex
  <1>3. ASSUME NEW t \in Threads, Write(t), pc[t] = "endl"
        PROVE  Mutex'
    <2> DEFINE p == <<"endl", t>>
    <2>1. /\ lock = {t} /\ lock' = lock /\ log' = Append(log, p)
          /\ pc' = [pc EXCEPT ![t] = "unlock"]
          /\ log # <<>> /\ log[Len(log)] = <<"text", t>>
      BY <1>3 DEF Write, Goto, Mutex, Writing
    <2>2. log \in Seq(Piece) /\ p \in Piece
      BY DEF TypeOK, Piece
    <2>3. \A u \in Threads : Writing(u) => u = t
      BY <2>1 DEF Mutex
    <2>4. /\ log' # <<>> /\ Len(log') = Len(log) + 1 /\ log'[Len(log')] = p
          /\ \A i \in 1..Len(log) : log'[i] = log[i]
      BY <2>1, <2>2, AppendPiece
    <2>5. Len(log) \in Nat /\ Len(log) > 0
      BY <2>1, <2>2
    <2>6. LinesWhole'
      <3> SUFFICES ASSUME NEW i \in 1..Len(log')
                   PROVE  /\ (log'[i][1] = "text" /\ i < Len(log')) =>
                                log'[i + 1] = <<"endl", log'[i][2]>>
                          /\ log'[i][1] = "endl" =>
                                i > 1 /\ log'[i - 1] = <<"text", log'[i][2]>>
        BY DEF LinesWhole
      <3>1. CASE i = Len(log')
        BY <2>1, <2>4, <2>5, <3>1
      <3>2. CASE i = Len(log)
        <4>1. log'[i] = <<"text", t>> /\ log'[i + 1] = <<"endl", t>>
          BY <2>1, <2>4, <2>5, <3>2
        <4>2. QED
          BY <4>1
      <3>3. CASE i < Len(log)
        <4>1. i \in 1..Len(log)
          BY <2>5, <3>3
        <4>2. /\ log'[i] = log[i] /\ log'[i + 1] = log[i + 1]
              /\ i > 1 => log'[i - 1] = log[i - 1]
          BY <2>4, <2>5, <3>3, <4>1
        <4>3. QED
          BY <3>3, <4>1, <4>2 DEF Mutex, LinesWhole
      <3>4. QED
        BY <2>4, <2>5, <3>1, <3>2, <3>3
    <2>7. \A u \in Threads : Writing(u)' => u = t
      BY <2>1, <2>3 DEF Writing, TypeOK
    <2>8. \A u \in Threads : pc'[u] # "endl"
      BY <2>1, <2>7 DEF Writing, TypeOK
    <2>9. QED
      BY <2>1, <2>4, <2>6, <2>7, <2>8 DEF Mutex
  <1>4. ASSUME NEW t \in Threads, Unlock(t)
        PROVE  Mutex'
    <2>1. /\ lock = {t} /\ lock' = {} /\ log' = log
          /\ pc[t] = "unlock" /\ pc' = [pc EXCEPT ![t] = "idle"]
      BY <1>4 DEF Unlock, Goto, Mutex, Writing
    <2>2. \A u \in Threads : ~Writing(u)'
      BY <2>1 DEF Mutex, Writing, TypeOK
    <2>3. \A u \in Threads : (pc[u] = "endl") = (pc'[u] = "endl")
      BY <2>1 DEF TypeOK
    <2>4. (log # <<>> /\ log[Len(log)][1] = "text") => log[Len(log)][2] \in Threads
      BY DEF TypeOK, Piece
    <2>5. QED
      BY <2>1, <2>2, <2>3, <2>4 DEF Mutex, LinesWhole
  \* The steps before the mutex.
  <1>5. ASSUME NEW t \in Threads,
               Begin(t) \/ GmTime(t) \/ Offset(t) \/ AscTime(t) \/ Copy(t)
        PROVE  Mutex'
    <2>1. UNCHANGED <<lock, log>> /\ ~Writing(t) /\ pc[t] # "endl"
      BY <1>5 DEF Begin, GmTime, Offset, AscTime, Copy, buffers, local, Writing
    <2>2. \E l \in {"utc_time", "offset", "gmtime", "asctime", "copy", "lock"} :
             pc' = [pc EXCEPT ![t] = l]
      <3>1. \A e \in Entry :
               FirstLine[e.mode] \in {"gmtime", "asctime", "utc_time", "lock"}
        BY EntryFields DEF FirstLine
      <3>2. QED
        BY <1>5, <3>1 DEF Begin, GmTime, Offset, AscTime, Copy, Goto
    <2>3. \A u \in Threads : /\ Writing(u)' = Writing(u)
                             /\ (pc[u] = "endl") = (pc'[u] = "endl")
      BY <2>1, <2>2 DEF Writing, TypeOK
    <2>4. (log # <<>> /\ log[Len(log)][1] = "text") => log[Len(log)][2] \in Threads
      BY DEF TypeOK, Piece
    <2>5. QED
      BY <2>1, <2>3, <2>4 DEF Mutex, LinesWhole
  <1>6. CASE Tick \/ UNCHANGED vars
    <2>1. UNCHANGED <<lock, log, pc>>
      BY <1>6 DEF Tick, vars
    <2>2. QED
      BY <2>1 DEF Mutex, LinesWhole, Writing
  <1>7. ASSUME NEW t \in Threads, Write(t)
        PROVE  Mutex'
    BY <1>2, <1>3, <1>7 DEF Write
  <1>8. QED
    BY <1>1, <1>4, <1>5, <1>6, <1>7 DEF Next, Goes

-----------------------------------------------------------------------------
\* In every state threads that use gmtime's and asctime's buffers together are
\* known to have met, whoever met nobody holds the date its line calls for, and a
\* line without its end is that of the thread that holds writeLogFile's mutex.
THEOREM IInvAlways == Spec => []IInv
  <1>1. IInv /\ [Next]_vars => IInv'
    <2> SUFFICES ASSUME IInv, [Next]_vars PROVE IInv'
      OBVIOUS
    <2>1. TypeOK /\ \A t \in Threads : Branch(t)
      BY DEF IInv, Conversion
    <2>2. TypeOK'
      BY <2>1, StepType
    <2>3. Conversion' /\ Mutex'
      BY StepConversion, StepMutex
    <2>4. QED
      BY <2>2, <2>3 DEF IInv
  <1>2. QED
    BY <1>1, InitIInv, PTL DEF Spec

\* The variables of the log keep their types; a buffer holds an instant or a
\* mixture of two, and at most one thread holds writeLogFile's mutex.
THEOREM TypeCorrect == Spec => []TypeOK
  <1>1. IInv => TypeOK
    BY DEF IInv
  <1>2. QED
    BY <1>1, IInvAlways, PTL

\* Whatever the time zone, a date printed by getLocalUTC, gmtToUTC or addMaxAge
\* is the right one, if no other thread converted a date meanwhile.
THEOREM DatesRightWhenAlone == Spec => []RightWhenAlone
  <1>1. IInv => RightWhenAlone
    <2> SUFFICES ASSUME IInv, NEW t \in Threads,
                        pc[t] \in {"lock", "text", "endl", "unlock"},
                        entry[t].mode # "plain", t \notin met
                 PROVE  date[t] = Right(t)
      BY DEF RightWhenAlone
    <2>1. Reached(t)
      BY DEF IInv, Conversion
    <2>2. QED
      BY <2>1 DEF Reached, UsesBuffers
  <1>2. QED
    BY <1>1, IInvAlways, PTL

\* The mutex of writeLogFile keeps every line together with its end of line.
THEOREM LinesStayWhole == Spec => []LinesWhole
  <1>1. IInv => LinesWhole
    BY DEF IInv, Mutex
  <1>2. QED
    BY <1>1, IInvAlways, PTL

=============================================================================
