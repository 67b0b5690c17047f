-------------------------- MODULE RateLimiterProofs --------------------------
(***************************************************************************)
(* Theorems about RateLimiter, for every number of workers, every set of   *)
(* windows and every rate and limit.                                       *)
(***************************************************************************)
EXTENDS RateLimiter, FiniteSetTheorems, TLAPS

USE WorkerAssumption, RateAssumption

LEMMA RatesAreNat == Burst \in Nat \ {0} /\ Cap \in Nat \ {0}
BY DEF Burst, Cap

LEMMA BackoffIsNat == ASSUME NEW n \in 1..MaxErrors PROVE Backoff(n) \in Nat \ {0}
<1>1. n = 1 \/ n = 2 \/ n = 3 \/ n = 4
  BY DEF MaxErrors
<1>2. <<1, 2, 4, 8>>[n] \in {1, 2, 4, 8}
  BY <1>1
<1> QED BY <1>2 DEF Backoff

LEMMA AttemptTime == ASSUME NEW n \in 0..MaxRetries PROVE n * Second \in Nat
<1>1. n = 0 \/ n = 1 \/ n = 2 \/ n = 3
  BY DEF MaxRetries
<1> QED BY <1>1

LEMMA ResultType ==
  ASSUME TypeOK, NEW w \in Worker, NEW r \in Outcome, Result(w, r)
  PROVE  /\ outcome' \in [Window -> Outcome]
         /\ pc' \in [Worker -> PcValue]
         /\ window' \in [Worker -> Window \cup {None}]
         /\ timer' \in [Worker -> Nat]
         /\ attempt' \in [Worker -> 0..MaxRetries]
<1>1. 0 \in 0..MaxRetries /\ "idle" \in PcValue
  BY DEF MaxRetries, PcValue
<1> QED BY <1>1 DEF TypeOK, Result

----------------------------------------------------------------------------
(* Type correctness of the limiter and its workers: in particular the bucket  *)
(* never holds more than Burst tokens, and every sleep has a length.          *)
THEOREM TypeCorrect == Spec => []TypeOK
<1> USE RatesAreNat
<1>1. Init => TypeOK
  <2> SUFFICES ASSUME Init PROVE TypeOK
    OBVIOUS
  <2>1. /\ pc \in [Worker -> PcValue]
        /\ timer \in [Worker -> Nat]
        /\ window \in [Worker -> Window \cup {None}]
    BY DEF Init, PcValue
  <2>2. /\ attempt \in [Worker -> 0..MaxRetries]
        /\ outcome \in [Window -> Outcome]
    BY DEF Init, MaxRetries, Outcome
  <2>3. /\ tokens \in 0..Burst /\ sinceRefill \in 0..Burst
        /\ sinceHour \in 0..Hour /\ consecutiveErrors \in 0..MaxErrors
    BY DEF Init, MaxErrors
  <2>4. /\ hourlyRequests \in Nat /\ blockedFor \in Nat
        /\ queue \subseteq Window /\ cancelled \in BOOLEAN /\ admitted \in Nat
    BY DEF Init
  <2> QED BY <2>1, <2>2, <2>3, <2>4 DEF TypeOK
<1>2. TypeOK /\ [Next]_vars => TypeOK'
  <2> SUFFICES ASSUME TypeOK, [Next]_vars PROVE TypeOK'
    OBVIOUS
  <2> USE DEF TypeOK, bucket, hour, backoffVars, work, results
  <2>1. CASE Tick
    BY <2>1 DEF Tick, Least
  <2>2. CASE Cancel
    BY <2>2 DEF Cancel
  <2>3. ASSUME NEW w \in Worker, NEW x \in Window, TakeWindow(w, x) PROVE TypeOK'
    BY <2>3 DEF TakeWindow, PcValue
  <2>4. ASSUME NEW w \in Worker, WorkerReturns(w) PROVE TypeOK'
    BY <2>4 DEF WorkerReturns, PcValue
  <2>5. ASSUME NEW w \in Worker, WaitBlocked(w) PROVE TypeOK'
    BY <2>5 DEF WaitBlocked, Sleep, PcValue
  <2>6. ASSUME NEW w \in Worker, WaitHour(w) PROVE TypeOK'
    <3>1. Hour - sinceHour \in Nat
      BY <2>6 DEF WaitHour
    <3> QED BY <2>6, <3>1 DEF WaitHour, Sleep, PcValue
  <2>7. ASSUME NEW w \in Worker, WaitToken(w) PROVE TypeOK'
    BY <2>7 DEF WaitToken, PassHour, RequestsThisHour, Sleep, PcValue
  <2>8. ASSUME NEW w \in Worker, TakeToken(w) PROVE TypeOK'
    <3>1. Refilled - 1 \in 0..Burst
      BY <2>8 DEF TakeToken, Refilled, Least
    <3> QED BY <2>8, <3>1 DEF TakeToken, PassHour, RequestsThisHour, PcValue, MaxRetries
  <2>9. ASSUME NEW w \in Worker, Wake(w) PROVE TypeOK'
    BY <2>9 DEF Wake, PcValue
  <2>10. ASSUME NEW w \in Worker, SleepCancelled(w) PROVE TypeOK'
    <3>1. Result(w, "cancelled") /\ "cancelled" \in Outcome
      BY <2>10 DEF SleepCancelled, Outcome
    <3> QED BY <2>10, <3>1, ResultType DEF SleepCancelled
  <2>11. ASSUME NEW w \in Worker, RequestSucceeds(w) PROVE TypeOK'
    <3>1. Result(w, "fetched") /\ "fetched" \in Outcome
      BY <2>11 DEF RequestSucceeds, Outcome
    <3>2. hourlyRequests' \in Nat /\ consecutiveErrors' \in 0..MaxErrors
      BY <2>11 DEF RequestSucceeds, MaxErrors
    <3> QED BY <2>11, <3>1, <3>2, ResultType DEF RequestSucceeds
  <2>12. ASSUME NEW w \in Worker, RequestRefused(w) PROVE TypeOK'
    <3>1. consecutiveErrors' \in 1..MaxErrors
      BY <2>12 DEF RequestRefused, Least, MaxErrors
    <3>2. Backoff(consecutiveErrors') \in Nat
      BY <3>1, BackoffIsNat
    <3> QED BY <2>12, <3>1, <3>2 DEF RequestRefused, Sleep, Most, PcValue
  <2>13. ASSUME NEW w \in Worker, RequestFails(w) PROVE TypeOK'
    <3>1. attempt[w] * Second \in Nat
      BY AttemptTime
    <3> QED BY <2>13, <3>1 DEF RequestFails, Sleep, Result, PcValue, Outcome, MaxRetries
  <2>14. ASSUME NEW w \in Worker, Retry(w) PROVE TypeOK'
    BY <2>14 DEF Retry, Result, PcValue, Outcome, MaxRetries
  <2>15. CASE UNCHANGED vars
    BY <2>15 DEF vars
  <2> QED BY <2>1, <2>2, <2>3, <2>4, <2>5, <2>6, <2>7, <2>8, <2>9, <2>10, <2>11, <2>12,
             <2>13, <2>14, <2>15 DEF Next, Work
<1> QED BY <1>1, <1>2, PTL DEF Spec

----------------------------------------------------------------------------
(* The workers that have been let through and not yet been counted. *)
InFlight == {w \in Worker : pc[w] \in {"request", "backoff"}}

(* The count and those still to be counted stay below the bound together. *)
HourInv == hourlyRequests + Cardinality(InFlight) < Cap + Cardinality(Worker)

LEMMA FlightSize ==
  ASSUME TypeOK
  PROVE  /\ IsFiniteSet(InFlight)
         /\ Cardinality(InFlight) \in Nat
         /\ Cardinality(InFlight) <= Cardinality(Worker)
         /\ Cardinality(Worker) \in Nat
BY FS_Subset, FS_CardinalityType DEF InFlight

(* A step that lets nobody through and does not raise the count is harmless. *)
LEMMA FlightShrinks ==
  ASSUME TypeOK, TypeOK', HourInv,
         hourlyRequests' <= hourlyRequests, InFlight' \subseteq InFlight
  PROVE  HourInv'
<1>1. Cardinality(InFlight') <= Cardinality(InFlight) /\ Cardinality(InFlight') \in Nat
  BY FlightSize, FS_Subset, FS_CardinalityType
<1> QED BY <1>1, FlightSize, RatesAreNat DEF HourInv, TypeOK

(* The successful requests of an hour stay below the 90 % mark plus the number *)
(* of workers, although each is counted only after it has been made.           *)
THEOREM HourlyBounded == Spec => []HourlyBound
<1> USE RatesAreNat
<1>1. Init => HourInv
  <2> SUFFICES ASSUME Init PROVE HourInv
    OBVIOUS
  <2>1. InFlight = {}
    BY DEF Init, InFlight
  <2> QED BY <2>1, FS_EmptySet, FS_CardinalityType DEF Init, HourInv
<1>2. TypeOK /\ TypeOK' /\ HourInv /\ [Next]_vars => HourInv'
  <2> SUFFICES ASSUME TypeOK, TypeOK', HourInv, [Next]_vars PROVE HourInv'
    OBVIOUS
  <2> USE DEF bucket, hour, backoffVars, work, results
  <2>1. ASSUME NEW w \in Worker, TakeToken(w) PROVE HourInv'
    <3>1. hourlyRequests' < Cap /\ hourlyRequests' \in Nat
      BY <2>1 DEF TakeToken, PassHour, RequestsThisHour, TypeOK
    <3>2. Cardinality(InFlight') <= Cardinality(Worker) /\ Cardinality(InFlight') \in Nat
      BY FS_Subset, FS_CardinalityType DEF InFlight
    <3> QED BY <3>1, <3>2, FlightSize DEF HourInv
  <2>2. ASSUME NEW w \in Worker, RequestSucceeds(w) PROVE HourInv'
    <3>1. w \in InFlight /\ InFlight' = InFlight \ {w}
      BY <2>2 DEF RequestSucceeds, Result, InFlight, TypeOK
    <3>2. Cardinality(InFlight') = Cardinality(InFlight) - 1
      BY <3>1, FlightSize, FS_RemoveElement
    <3> QED BY <2>2, <3>2, FlightSize DEF RequestSucceeds, HourInv, TypeOK
  <2>3. CASE /\ hourlyRequests' <= hourlyRequests
             /\ InFlight' \subseteq InFlight
    BY <2>3, FlightShrinks
  <2> USE DEF TypeOK, InFlight
  <2>4. CASE Tick \/ Cancel \/ UNCHANGED vars
    BY <2>3, <2>4 DEF Tick, Cancel, vars
  <2>5. ASSUME NEW w \in Worker,
               \/ \E x \in Window : TakeWindow(w, x)
               \/ WorkerReturns(w) \/ WaitBlocked(w) \/ WaitHour(w) \/ Wake(w)
        PROVE  HourInv'
    BY <2>3, <2>5 DEF TakeWindow, WorkerReturns, WaitBlocked, WaitHour, Wake, Sleep
  <2>6. ASSUME NEW w \in Worker, WaitToken(w) PROVE HourInv'
    <3>1. hourlyRequests' <= hourlyRequests
      BY <2>6 DEF WaitToken, PassHour, RequestsThisHour
    <3>2. InFlight' \subseteq InFlight
      BY <2>6 DEF WaitToken, Sleep
    <3> QED BY <2>3, <3>1, <3>2
  <2>7. ASSUME NEW w \in Worker, SleepCancelled(w) PROVE HourInv'
    BY <2>3, <2>7 DEF SleepCancelled, Result
  <2>8. ASSUME NEW w \in Worker, RequestRefused(w) PROVE HourInv'
    BY <2>3, <2>8 DEF RequestRefused, Sleep
  <2>9. ASSUME NEW w \in Worker, RequestFails(w) PROVE HourInv'
    BY <2>3, <2>9 DEF RequestFails, Sleep, Result
  <2>10. ASSUME NEW w \in Worker, Retry(w) PROVE HourInv'
    BY <2>3, <2>10 DEF Retry, Result
  <2> QED BY <2>1, <2>2, <2>4, <2>5, <2>6, <2>7, <2>8, <2>9, <2>10 DEF Next, Work
<1>3. TypeOK /\ HourInv => HourlyBound
  BY FlightSize DEF HourInv, HourlyBound, TypeOK
<1> QED BY <1>1, <1>2, <1>3, TypeCorrect, PTL DEF Spec

----------------------------------------------------------------------------
(* The bucket that is refilled only on demand is the bucket into which a token *)
(* drops with every tick: every step of the limiter is a step of TokenBucket   *)
(* or leaves the refilled content as it is.                                    *)
THEOREM LimiterIsBucket == Spec => LimitsRate
<1> USE RatesAreNat
<1>1. Init => Bucket!Init
  BY DEF Init, Bucket!Init, Refilled, Least
<1>2. TypeOK /\ TypeOK' /\ [Next]_vars => [Bucket!Next]_<<Refilled, admitted>>
  <2> SUFFICES ASSUME TypeOK, TypeOK', [Next]_vars PROVE [Bucket!Next]_<<Refilled, admitted>>
    OBVIOUS
  <2> USE DEF TypeOK, Refilled, Least, Bucket!Next, Bucket!Drip, Bucket!Take, bucket, hour,
              backoffVars, work, results
  <2>1. CASE Tick
    BY <2>1 DEF Tick
  <2>2. ASSUME NEW w \in Worker, TakeToken(w) PROVE Bucket!Take
    BY <2>2 DEF TakeToken
  <2>3. ASSUME NEW w \in Worker, WaitToken(w) PROVE UNCHANGED <<Refilled, admitted>>
    BY <2>3 DEF WaitToken
  <2>4. CASE UNCHANGED <<bucket, admitted>>
    BY <2>4
  <2>5. CASE Cancel \/ UNCHANGED vars
    BY <2>4, <2>5 DEF Cancel, vars
  <2>6. ASSUME NEW w \in Worker,
               \/ \E x \in Window : TakeWindow(w, x)
               \/ WorkerReturns(w) \/ WaitBlocked(w) \/ WaitHour(w) \/ Wake(w)
               \/ SleepCancelled(w) \/ RequestSucceeds(w) \/ RequestRefused(w)
               \/ RequestFails(w) \/ Retry(w)
        PROVE  [Bucket!Next]_<<Refilled, admitted>>
    BY <2>4, <2>6 DEF TakeWindow, WorkerReturns, WaitBlocked, WaitHour, Wake, SleepCancelled,
                      RequestSucceeds, RequestRefused, RequestFails, Retry, Sleep, Result
  <2> QED BY <2>1, <2>2, <2>3, <2>5, <2>6 DEF Next, Work
<1> QED BY <1>1, <1>2, TypeCorrect, PTL DEF Spec, LimitsRate, Bucket!Spec, Bucket!vars
============================================================================
