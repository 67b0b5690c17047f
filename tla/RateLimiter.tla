---------------------------- MODULE RateLimiter ----------------------------
(***************************************************************************)
(* The rate limiter of weatherlink-kafka (service/ratelimit.go) and the    *)
(* workers of the historic back-fill that go through it                    *)
(* (service/backfill.go): each takes a 24-hour window, waits for a token,  *)
(* requests the window from the WeatherLink API with up to three attempts  *)
(* and reports the outcome.                                                *)
(*                                                                         *)
(* A tick is the time in which one token comes, a second divided by        *)
(* tokensPerSecond; the float64 count of tokens is its whole part.  The    *)
(* limiter keeps moments of the wall clock (lastRefill, hourStart,         *)
(* blockedUntil); the model keeps how far they are away, which is all the  *)
(* code asks for, and keeps no more of it than the code can tell apart.    *)
(***************************************************************************)
EXTENDS Naturals, FiniteSets

CONSTANTS
  Worker,    \* goroutines of the back-fill, BACKFILL_PARALLEL_WORKERS of them
  Window,    \* the 24-hour windows to fetch, numbered
  None,      \* no window
  Second,    \* ticks in a second: tokensPerSecond
  Hour,      \* ticks in an hour
  Limit      \* hourlyLimit

ASSUME WorkerAssumption == IsFiniteSet(Worker) /\ Window \subseteq Nat /\ None \notin Window
ASSUME RateAssumption ==
  Second \in Nat \ {0} /\ Hour \in Nat \ {0} /\ Limit \in Nat /\ Limit >= 2

VARIABLES
  tokens,            \* whole tokens at the last refill
  sinceRefill,       \* ticks since lastRefill, at most Burst
  hourlyRequests,
  sinceHour,         \* ticks since hourStart, at most Hour
  consecutiveErrors, \* at most MaxErrors, from where on the backoff is the same
  blockedFor,        \* ticks until blockedUntil, 0 when it has passed
  queue,             \* windowChan
  pc,                \* what each worker is doing, see PcValue
  timer,             \* ticks a sleeping worker still sleeps
  window,            \* the window a worker has in hand
  attempt,           \* the attempt of fetchHistoricDataWithRetry it is at
  outcome,           \* what came of each window
  admitted,          \* how often Wait has let a worker through
  cancelled          \* the context is cancelled

bucket == <<tokens, sinceRefill>>
hour == <<hourlyRequests, sinceHour>>
backoffVars == <<consecutiveErrors, blockedFor>>
work == <<pc, timer, window, attempt>>
results == <<outcome, admitted>>
vars == <<bucket, hour, backoffVars, queue, work, results, cancelled>>

(* idle     at the head of the loop over windowChan
   wait     in RateLimiter.Wait, about to take the mutex
   sleep    asleep in Wait
   request  waiting for the API's answer
   backoff  asleep between two attempts
   gone     returned                                                        *)
PcValue == {"idle", "wait", "sleep", "request", "backoff", "gone"}
Outcome == {"none", "fetched", "failed", "cancelled"}

MaxRetries == 3
MaxErrors == 4
Burst == 2 * Second
Cap == (Limit * 9) \div 10

Least(a, b) == IF a < b THEN a ELSE b
Most(a, b) == IF a > b THEN a ELSE b

----------------------------------------------------------------------------
Init ==
  /\ tokens = Burst
  /\ sinceRefill = 0
  /\ hourlyRequests = 0
  /\ sinceHour = 0
  /\ consecutiveErrors = 0
  /\ blockedFor = 0
  /\ queue = Window
  /\ pc = [w \in Worker |-> "idle"]
  /\ timer = [w \in Worker |-> 0]
  /\ window = [w \in Worker |-> None]
  /\ attempt = [w \in Worker |-> 0]
  /\ outcome = [x \in Window |-> "none"]
  /\ admitted = 0
  /\ cancelled = FALSE

(* Time passes, whatever the goroutines do. *)
Tick ==
  /\ sinceRefill' = Least(sinceRefill + 1, Burst)
  /\ sinceHour' = Least(sinceHour + 1, Hour)
  /\ blockedFor' = IF blockedFor > 0 THEN blockedFor - 1 ELSE 0
  /\ timer' = [w \in Worker |-> IF timer[w] > 0 THEN timer[w] - 1 ELSE 0]
  /\ UNCHANGED <<tokens, hourlyRequests, consecutiveErrors, queue, pc, window, attempt,
                 results, cancelled>>

(* SIGTERM. *)
Cancel ==
  /\ ~cancelled
  /\ cancelled' = TRUE
  /\ UNCHANGED <<bucket, hour, backoffVars, queue, work, results>>

----------------------------------------------------------------------------
(* for window := range windowChan, which has them in order.  A worker that    *)
(* finds the context cancelled returns with the window in hand.               *)
TakeWindow(w, x) ==
  /\ pc[w] = "idle"
  /\ x \in queue /\ \A y \in queue : x <= y
  /\ queue' = queue \ {x}
  /\ pc' = [pc EXCEPT ![w] = IF cancelled THEN "gone" ELSE "wait"]
  /\ window' = [window EXCEPT ![w] = IF cancelled THEN None ELSE x]
  /\ UNCHANGED <<bucket, hour, backoffVars, timer, attempt, results, cancelled>>

WorkerReturns(w) ==
  /\ pc[w] = "idle"
  /\ queue = {}
  /\ pc' = [pc EXCEPT ![w] = "gone"]
  /\ UNCHANGED <<bucket, hour, backoffVars, queue, timer, window, attempt, results, cancelled>>

(* The result of a window goes to resultChan. *)
Result(w, r) ==
  /\ outcome' = [outcome EXCEPT ![window[w]] = r]
  /\ pc' = [pc EXCEPT ![w] = "idle"]
  /\ window' = [window EXCEPT ![w] = None]
  /\ timer' = [timer EXCEPT ![w] = 0]
  /\ attempt' = [attempt EXCEPT ![w] = 0]

Sleep(w, where, ticks) ==
  /\ pc' = [pc EXCEPT ![w] = where]
  /\ timer' = [timer EXCEPT ![w] = ticks]

(* One turn of the loop in Wait.  First, a backoff of any worker holds. *)
WaitBlocked(w) ==
  /\ pc[w] = "wait"
  /\ blockedFor > 0
  /\ Sleep(w, "sleep", blockedFor)
  /\ UNCHANGED <<bucket, hour, backoffVars, queue, window, attempt, results, cancelled>>

HourPassed == sinceHour >= Hour

(* The hour is over: a new one starts with a count of zero. *)
RequestsThisHour == IF HourPassed THEN 0 ELSE hourlyRequests

(* The hour's requests are used up: sleep until it is over. *)
WaitHour(w) ==
  /\ pc[w] = "wait"
  /\ blockedFor = 0
  /\ ~HourPassed
  /\ hourlyRequests >= Cap
  /\ Sleep(w, "sleep", Hour - sinceHour)
  /\ UNCHANGED <<bucket, hour, backoffVars, queue, window, attempt, results, cancelled>>

Refilled == Least(tokens + sinceRefill, Burst)

(* Mutant: the limit is compared with > instead of >=. *)
PassHourOffByOne ==
  /\ blockedFor = 0
  /\ RequestsThisHour <= Cap
  /\ hourlyRequests' = RequestsThisHour
  /\ sinceHour' = IF HourPassed THEN 0 ELSE sinceHour
  /\ UNCHANGED backoffVars

PassHour ==
  /\ blockedFor = 0
  /\ RequestsThisHour < Cap
  /\ hourlyRequests' = RequestsThisHour
  /\ sinceHour' = IF HourPassed THEN 0 ELSE sinceHour
  /\ UNCHANGED backoffVars

WaitToken(w) ==
  /\ pc[w] = "wait"
  /\ PassHour
  /\ Refilled = 0
  /\ tokens' = 0
  /\ sinceRefill' = 0
  /\ Sleep(w, "sleep", 1)
  /\ UNCHANGED <<queue, window, attempt, results, cancelled>>

(* Mutant: the moment of the refill is not kept. *)
TakeTokenKeepsRefill(w) ==
  /\ pc[w] = "wait"
  /\ PassHour
  /\ Refilled > 0
  /\ tokens' = Refilled - 1
  /\ pc' = [pc EXCEPT ![w] = "request"]
  /\ attempt' = [attempt EXCEPT ![w] = 1]
  /\ admitted' = admitted + 1
  /\ UNCHANGED <<sinceRefill, queue, timer, window, outcome, cancelled>>

TakeToken(w) ==
  /\ pc[w] = "wait"
  /\ PassHour
  /\ Refilled > 0
  /\ tokens' = Refilled - 1
  /\ sinceRefill' = 0
  /\ pc' = [pc EXCEPT ![w] = "request"]
  /\ attempt' = [attempt EXCEPT ![w] = 1]
  /\ admitted' = admitted + 1
  /\ UNCHANGED <<queue, timer, window, outcome, cancelled>>

(* sleepWithContext ends: Wait starts over. *)
Wake(w) ==
  /\ pc[w] = "sleep"
  /\ timer[w] = 0
  /\ pc' = [pc EXCEPT ![w] = "wait"]
  /\ UNCHANGED <<bucket, hour, backoffVars, queue, timer, window, attempt, results, cancelled>>

(* Either sleep is left when the context is cancelled. *)
SleepCancelled(w) ==
  /\ pc[w] \in {"sleep", "backoff"}
  /\ cancelled
  /\ Result(w, "cancelled")
  /\ UNCHANGED <<bucket, hour, backoffVars, queue, admitted, cancelled>>

----------------------------------------------------------------------------
(* fetchHistoricDataWithRetry.  A request does not look at the context; the   *)
(* client's timeout ends it.  RecordRequest counts it only when it succeeded. *)
RequestSucceeds(w) ==
  /\ pc[w] = "request"
  /\ hourlyRequests' = hourlyRequests + 1
  /\ consecutiveErrors' = 0
  /\ Result(w, "fetched")
  /\ UNCHANGED <<bucket, sinceHour, blockedFor, queue, admitted, cancelled>>

(* 1 << min(consecutiveErrors - 1, 3) seconds *)
Backoff(errors) == <<1, 2, 4, 8>>[errors] * Second

(* RecordError(429): blockedUntil only ever moves to a later moment. *)
RequestRefused(w) ==
  /\ pc[w] = "request"
  /\ consecutiveErrors' = Least(consecutiveErrors + 1, MaxErrors)
  /\ LET backoff == Backoff(consecutiveErrors')
     IN /\ blockedFor' = Most(blockedFor, backoff)
        /\ Sleep(w, "backoff", backoff)
  /\ UNCHANGED <<bucket, hour, queue, window, attempt, results, cancelled>>

(* Any other error: the third ends it, the others are not told to the limiter. *)
RequestFails(w) ==
  /\ pc[w] = "request"
  /\ IF attempt[w] < MaxRetries
       THEN /\ Sleep(w, "backoff", attempt[w] * Second)
            /\ UNCHANGED <<window, attempt, outcome>>
       ELSE Result(w, "failed")
  /\ UNCHANGED <<bucket, hour, backoffVars, queue, admitted, cancelled>>

(* Mutant: the attempts are not counted. *)
RetryForever(w) ==
  /\ pc[w] = "backoff"
  /\ timer[w] = 0
  /\ pc' = [pc EXCEPT ![w] = "request"]
  /\ UNCHANGED <<bucket, hour, backoffVars, queue, timer, window, attempt, results, cancelled>>

(* The next attempt goes to the API without a token, and even while other     *)
(* workers are held by a longer backoff.  A third 429 is slept out first.     *)
Retry(w) ==
  /\ pc[w] = "backoff"
  /\ timer[w] = 0
  /\ IF attempt[w] < MaxRetries
       THEN /\ attempt' = [attempt EXCEPT ![w] = @ + 1]
            /\ pc' = [pc EXCEPT ![w] = "request"]
            /\ UNCHANGED <<timer, window, outcome>>
       ELSE Result(w, "failed")
  /\ UNCHANGED <<bucket, hour, backoffVars, queue, admitted, cancelled>>

----------------------------------------------------------------------------
Work(w) ==
  \/ \E x \in Window : TakeWindow(w, x)
  \/ WorkerReturns(w)
  \/ WaitBlocked(w)
  \/ WaitHour(w)
  \/ WaitToken(w)
  \/ TakeToken(w)
  \/ Wake(w)
  \/ SleepCancelled(w)
  \/ RequestSucceeds(w)
  \/ RequestRefused(w)
  \/ RequestFails(w)
  \/ Retry(w)

Next ==
  \/ Tick
  \/ Cancel
  \/ \E w \in Worker : Work(w)

Spec == Init /\ [][Next]_vars

(* Time passes, goroutines run and requests end. *)
FairSpec == Spec /\ WF_vars(Tick) /\ \A w \in Worker : WF_vars(Work(w))

----------------------------------------------------------------------------
TypeOK ==
  /\ tokens \in 0..Burst
  /\ sinceRefill \in 0..Burst
  /\ hourlyRequests \in Nat
  /\ sinceHour \in 0..Hour
  /\ consecutiveErrors \in 0..MaxErrors
  /\ blockedFor \in Nat
  /\ queue \subseteq Window
  /\ pc \in [Worker -> PcValue]
  /\ timer \in [Worker -> Nat]
  /\ window \in [Worker -> Window \cup {None}]
  /\ attempt \in [Worker -> 0..MaxRetries]
  /\ outcome \in [Window -> Outcome]
  /\ admitted \in Nat
  /\ cancelled \in BOOLEAN

(* A request is counted when it has succeeded, after its worker was let       *)
(* through: several workers may pass the 90 % check together.  All the same   *)
(* the requests of an hour exceed the cap by less than the number of workers. *)
HourlyBound == hourlyRequests < Cap + Cardinality(Worker)

(* The bucket is refilled only when somebody asks.  What the workers see of   *)
(* it is nevertheless the bucket in which a token drops with every tick: in   *)
(* no stretch of time are more let through than Burst and one per tick.       *)
Bucket == INSTANCE TokenBucket WITH available <- Refilled
LimitsRate == Bucket!Spec

(* Every window is fetched or reported as failed, unless the process is told  *)
(* to stop, and then every worker ends: no mixture of sleeps, retries and     *)
(* full hours keeps one for ever.                                             *)
Treated(x) == outcome[x] # "none"
Ended == cancelled /\ \A w \in Worker : pc[w] = "gone"
WindowsTreated == \A x \in Window : <>(Treated(x) \/ Ended)
============================================================================
