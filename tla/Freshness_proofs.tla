-------------------------- MODULE Freshness_proofs ---------------------------
(***************************************************************************)
(* Proofs about module Freshness, for every width of int and size_t, every  *)
(* default and every clock that fits: the arithmetic first, then when the   *)
(* verdict of isFresh is right.                                             *)
(***************************************************************************)
EXTENDS Freshness, TLAPS

-----------------------------------------------------------------------------
(* Modular arithmetic.                                                      *)

\* A number in range is its own remainder.
LEMMA ModSmall ==
    ASSUME NEW m \in Nat \ {0}, NEW x \in 0..(m - 1)
    PROVE  x % m = x
  OBVIOUS

-----------------------------------------------------------------------------
(* The ages.                                                                *)

\* calTimeDiff of a later and an earlier time.
LEMMA DiffForward ==
    ASSUME NEW t1 \in 0..MaxTime, NEW t2 \in 0..MaxTime, t2 <= t1
    PROVE  CalTimeDiff(t1, t2) = t1 - t2
  <1>1. SizeMod \in Nat \ {0} /\ t1 - t2 \in 0..(SizeMod - 1)
    BY ModAssumption
  <1>2. QED
    BY <1>1, ModSmall DEF CalTimeDiff

\* The apparent age is never more than an int holds, and it is the time since
\* the Date when that is in the past.  A missing Date is so far in the past
\* that the int is negative.
LEMMA ApparentAgeBound ==
    ASSUME NEW resp \in 0..MaxTime, NEW date \in Dates
    PROVE  /\ ApparentAge(resp, date) \in 0..(IntMod - 1)
           /\ date \in 0..resp => ApparentAge(resp, date) = resp - date
           /\ date = MissingDate => ApparentAge(resp, date) = 0
  <1> DEFINE u == CalTimeDiff(resp, date)
             low == u % IntMod
  <1>1. IntMod \in Nat \ {0} /\ SizeMod \in Nat \ {0} /\ IntMod \div 2 \in Nat
    BY ModAssumption
  <1>2. u \in 0..(SizeMod - 1)
    <2>1. resp - date \in Int
      BY MissingDateAssumption DEF Dates
    <2>2. QED
      BY <1>1, <2>1 DEF CalTimeDiff
  <1>3. date \in 0..resp => u = resp - date
    BY DiffForward, ModAssumption
  <1> HIDE DEF u
  <1>4. low \in 0..(IntMod - 1)
    BY <1>1, <1>2
  <1>5. date \in 0..resp => low = resp - date
    <2>1. SUFFICES ASSUME date \in 0..resp
                   PROVE  low = resp - date
      OBVIOUS
    <2>2. u \in 0..(IntMod - 1)
      BY <1>1, <1>3, <2>1, ModAssumption
    <2>3. QED
      BY <1>1, <1>3, <2>1, <2>2, ModSmall
  <1>a. date = MissingDate => low >= IntMod \div 2
    <2>1. SUFFICES ASSUME date = MissingDate
                   PROVE  low >= IntMod \div 2
      OBVIOUS
    <2>2. resp - date \in (IntMod \div 2)..(IntMod - 1)
      BY <2>1, MissingDateAssumption
    <2>3. resp - date \in 0..(SizeMod - 1)
      BY <1>1, <2>2, ModAssumption
    <2>4. u = resp - date
      BY <1>1, <2>3, ModSmall DEF u, CalTimeDiff
    <2>5. u \in 0..(IntMod - 1) /\ u >= IntMod \div 2
      BY <1>1, <2>2, <2>4
    <2>6. low = u
      BY <1>1, <2>5, ModSmall
    <2>7. QED
      BY <2>5, <2>6
  <1>6. ToInt(u) = IF low < IntMod \div 2 THEN low ELSE low - IntMod
    BY DEF ToInt
  <1> HIDE DEF low
  <1>7. ApparentAge(resp, date) = IF 0 < ToInt(u) THEN ToInt(u) ELSE 0
    BY DEF ApparentAge, Larger, u
  <1>8. date \in 0..resp => resp - date < IntMod \div 2
    BY <1>1, ModAssumption
  <1>9. QED
    BY <1>1, <1>4, <1>5, <1>6, <1>7, <1>8, <1>a

\* The age of an entry stored since the request came in has no wrap in it.
LEMMA AgeStoredSince ==
    ASSUME NEW req \in 0..MaxTime, NEW resp \in 0..MaxTime,
           NEW date \in Dates, NEW t \in 0..MaxTime,
           req <= resp, resp <= t
    PROVE  CurrentAge(req, resp, date, t)
             = Larger(ApparentAge(resp, date), resp - req) + (t - resp)
  <1> DEFINE a == ApparentAge(resp, date)
             age == Larger(a, resp - req)
  <1>1. CalTimeDiff(resp, req) = resp - req /\ CalTimeDiff(t, resp) = t - resp
    BY DiffForward
  <1>2. a \in 0..(IntMod - 1)
    BY ApparentAgeBound
  <1> HIDE DEF a
  <1>3. age \in Nat /\ age + (t - resp) \in 0..(SizeMod - 1)
    BY <1>2, ModAssumption DEF Larger
  <1>4. CurrentAge(req, resp, date, t) = (age + (t - resp)) % SizeMod
    BY <1>1 DEF CurrentAge, a
  <1> HIDE DEF age
  <1>5. (age + (t - resp)) % SizeMod = age + (t - resp)
    BY <1>3, ModSmall, ModAssumption
  <1>6. QED
    BY <1>4, <1>5 DEF a, age

\* getMaxAge is the default whatever the response says: "Cache-Control" is
\* not a name parseHeaderFields stores anything under.
LEMMA MaxAgeIsDefault == \A control : GetMaxAge(control) = DefaultMaxAge
  BY DEF GetMaxAge, HeaderMap

-----------------------------------------------------------------------------
(* The inductive invariant: the types, the order of the clock readings, and *)
(* that the verdict is what they give.                                      *)

LEMMA InitIInv == Init => IInv
  BY ModAssumption DEF Init, Stored, IInv, TypeOK, Timed, Verdict, Entry,
     Check, Dates, Control

LEMMA StepIInv == IInv /\ [Next]_vars => IInv'
  <1> SUFFICES ASSUME IInv, [Next]_vars
               PROVE  IInv'
    OBVIOUS
  <1> USE ModAssumption
  <1>0. now \in 0..MaxTime /\ now \in Nat
    BY DEF IInv, TypeOK
  <1>1. CASE Tick
    BY <1>1 DEF Tick, IInv, TypeOK, Timed, Verdict, Entry, Check
  <1>2. CASE Put
    BY <1>0, <1>2 DEF Put, Stored, IInv, TypeOK, Timed, Verdict, Entry, Check
  <1>3. CASE Request
    BY <1>0, <1>3 DEF Request, IInv, TypeOK, Timed, Verdict, Entry, Check
  <1>4. CASE ReadResponse
    BY <1>0, <1>4 DEF ReadResponse, IInv, TypeOK, Timed, Verdict, Entry, Check
  <1>5. CASE ReadResponseTime
    BY <1>0, <1>5
       DEF ReadResponseTime, IInv, TypeOK, Timed, Verdict, Entry, Check
  <1>6. CASE Judge
    <2>1. /\ check'.at = now /\ check'.requestTime = check.requestTime
          /\ check'.date = check.date /\ check'.control = check.control
          /\ check'.responseTime = check.responseTime
          /\ check'.fresh = (CurrentAge(check.requestTime, check.responseTime,
                                        check.date, now)
                               < GetMaxAge(check.control))
      BY <1>6 DEF Judge, IInv, TypeOK, Check
    <2>2. check'.fresh \in BOOLEAN
      BY <2>1
    <2>3. check' \in Check
      BY <1>0, <1>6, <2>2 DEF Judge, IInv, TypeOK, Check
    <2>4. TypeOK' /\ Timed'
      BY <1>0, <1>6, <2>1, <2>3 DEF Judge, IInv, TypeOK, Timed, Entry, Check
    <2>5. Verdict'
      BY <2>1 DEF Verdict
    <2>6. QED
      BY <2>4, <2>5 DEF IInv
  <1>7. CASE UNCHANGED vars
    BY <1>7 DEF vars, IInv, TypeOK, Timed, Verdict
  <1>8. QED
    BY <1>1, <1>2, <1>3, <1>4, <1>5, <1>6, <1>7 DEF Next

\* The inductive invariant of isFresh: types, the clock readings in the order
\* they are taken in, and a verdict that is the one they give.
THEOREM IInvAlways == Spec => []IInv
  BY InitIInv, StepIInv, PTL DEF Spec

-----------------------------------------------------------------------------
(* The theorems.                                                            *)

\* Every variable of isFresh keeps its type.
THEOREM FreshnessTypeCorrect == Spec => []TypeOK
  <1>1. IInv => TypeOK
    BY DEF IInv
  <1>2. QED
    BY <1>1, IInvAlways, PTL

\* Of an entry stored since the request came in, isFresh calls fresh only
\* what is within the default age of its request and of its Date, and nothing
\* stale for having no Date.
THEOREM FreshRightWhenStoredSince == Spec => []RightWhenStoredSince
  <1>1. IInv => RightWhenStoredSince
    <2> DEFINE req == check.requestTime
               resp == check.responseTime
               date == check.date
               t == check.at
               age == CurrentAge(req, resp, date, t)
               a == ApparentAge(resp, date)
    <2> SUFFICES ASSUME IInv, pc = "judged", StoredSinceRequest
                 PROVE  /\ check.fresh =>
                              /\ t - req < DefaultMaxAge
                              /\ date # MissingDate => t - date < DefaultMaxAge
                        /\ (date = MissingDate /\ t - req < DefaultMaxAge)
                              => check.fresh
      BY DEF RightWhenStoredSince
    <2>1. /\ req \in 0..MaxTime /\ resp \in 0..MaxTime /\ t \in 0..MaxTime
          /\ date \in Dates
          /\ req <= resp /\ resp <= t
      BY DEF IInv, TypeOK, Timed, Check, StoredSinceRequest
    <2>2. check.fresh = (age < DefaultMaxAge)
      BY MaxAgeIsDefault DEF IInv, Verdict
    <2> HIDE DEF req, resp, date, t
    <2>3. age = Larger(a, resp - req) + (t - resp)
      BY <2>1, AgeStoredSince
    <2>4. /\ a \in 0..(IntMod - 1)
          /\ date \in 0..resp => a = resp - date
          /\ date = MissingDate => a = 0
      BY <2>1, ApparentAgeBound
    <2> HIDE DEF age, a
    <2>5. age = IF a < resp - req THEN t - req ELSE a + (t - resp)
      BY <2>1, <2>3, <2>4, ModAssumption DEF Larger
    <2>6. age \in Int /\ age >= t - req /\ (date = MissingDate => age = t - req)
      BY <2>1, <2>4, <2>5, ModAssumption
    <2>7. ASSUME date # MissingDate
          PROVE  t - date \in Int /\ (t - date <= age \/ t - date <= t - req)
      <3>1. date \in 0..MaxTime
        BY <2>1, <2>7 DEF Dates
      <3>2. QED
        BY <2>1, <2>4, <2>5, <2>6, <3>1, ModAssumption
    <2>8. /\ age < DefaultMaxAge => t - req < DefaultMaxAge
          /\ age < DefaultMaxAge /\ date # MissingDate => t - date < DefaultMaxAge
          /\ date = MissingDate /\ t - req < DefaultMaxAge => age < DefaultMaxAge
      BY <2>1, <2>6, <2>7, ModAssumption, MaxAgeAssumption
    <2>9. check.fresh <=> age < DefaultMaxAge
      BY <2>2
    <2>10. QED
      BY <2>8, <2>9, Zenon
  <1>2. QED
    BY <1>1, IInvAlways, PTL

=============================================================================
