------------------------- MODULE DataCollectorProofs -------------------------
(***************************************************************************)
(* Theorems about DataCollector, for every set of topics, points and       *)
(* windows, every number of back-fill workers, and any number of runs and  *)
(* faults.                                                                 *)
(***************************************************************************)
EXTENDS DataCollector, FiniteSetTheorems, TLAPS

USE CollectorAssumption, GoroutineAssumption

(* A goroutine that publishes has a point to publish. *)
InHand == \A g \in Goroutine : pc[g] \in {"wait", "produce"} => point[g] \in Point
TypeInv == TypeOK /\ InHand

(* The goroutines are told apart, and PcValue spelled out. *)
LEMMA Names ==
  /\ main \in Goroutine /\ meta \in Goroutine /\ Worker \subseteq Goroutine
  /\ main \notin Worker /\ meta \notin Worker /\ main # meta
  /\ {"idle", "next", "wait", "produce", "gone"} = PcValue
BY DEF Goroutine, Poller, PcValue, main, meta

(* A process that is down, or has just been started. *)
LEMMA EmptyTypes ==
  /\ [t \in Topic |-> <<>>] \in [Topic -> Seq(Point)]
  /\ NoMessages \in [Point -> Nat]
  /\ [t \in Topic |-> 0] \in [Topic -> Nat]
  /\ NotStarted \in [Goroutine -> PcValue]
  /\ \A g \in Goroutine : NotStarted[g] = "gone"
  /\ [g \in Goroutine |-> {}] \in [Goroutine -> SUBSET Point]
  /\ [g \in Goroutine |-> None] \in [Goroutine -> Point \cup {None}]
BY Names DEF NoMessages, NotStarted

(* A query of the offsets sets up the scan. *)
LEMMA QueryType ==
  ASSUME TypeOK, NEW T \in SUBSET Topic, Query(T)
  PROVE  /\ queried' \in SUBSET Topic /\ seen' \in [Topic -> Nat]
         /\ spoiled' \in BOOLEAN
         /\ UNCHANGED faults \/ faults' \in 0..MaxFaults
<1>1. seen' \in [Topic -> Nat] /\ queried' \in SUBSET Topic
  BY EmptyTypes DEF Query
<1>2. spoiled' \in BOOLEAN
  BY DEF Query
<1>3. UNCHANGED faults \/ faults' \in 0..MaxFaults
  BY DEF Query, Fault, TypeOK
<1> QED BY <1>1, <1>2, <1>3

(* A message is added to the end of its topic, and those before it stay. *)
LEMMA AppendKeeps ==
  ASSUME TypeOK, NEW p \in Point, Append1(p)
  PROVE  /\ log' \in [Topic -> Seq(Point)]
         /\ InLog(p)'
         /\ \A q \in Point : InLog(q) => InLog(q)'
<1>1. TopicOf[p] \in Topic
  OBVIOUS
<1> DEFINE s == log[TopicOf[p]]
<1>2. s \in Seq(Point) /\ Append(s, p) \in Seq(Point)
  BY <1>1 DEF TypeOK
<1>3. log' = [log EXCEPT ![TopicOf[p]] = Append(s, p)]
  BY DEF Append1
<1>4. log' \in [Topic -> Seq(Point)]
  BY <1>1, <1>2, <1>3 DEF TypeOK
<1>5. /\ Len(s) \in Nat /\ Len(Append(s, p)) = Len(s) + 1
      /\ Append(s, p)[Len(s) + 1] = p
      /\ \A i \in 1..Len(s) : Append(s, p)[i] = s[i]
      /\ DOMAIN s = 1..Len(s) /\ DOMAIN Append(s, p) = 1..(Len(s) + 1)
  BY <1>2
<1>6. log'[TopicOf[p]] = Append(s, p)
  BY <1>1, <1>3 DEF TypeOK
<1>7. InLog(p)'
  <2>1. Len(s) + 1 \in DOMAIN log'[TopicOf[p]] /\ log'[TopicOf[p]][Len(s) + 1] = p
    BY <1>5, <1>6
  <2> QED BY <2>1 DEF InLog
<1>8. ASSUME NEW q \in Point, InLog(q) PROVE InLog(q)'
  <2>1. PICK i \in DOMAIN log[TopicOf[q]] : log[TopicOf[q]][i] = q
    BY <1>8 DEF InLog
  <2>2. CASE TopicOf[q] = TopicOf[p]
    <3>1. i \in DOMAIN log'[TopicOf[q]] /\ log'[TopicOf[q]][i] = q
      BY <2>1, <2>2, <1>5, <1>6
    <3> QED BY <3>1 DEF InLog
  <2>3. CASE TopicOf[q] # TopicOf[p]
    <3>1. log'[TopicOf[q]] = log[TopicOf[q]]
      BY <2>3, <1>3 DEF TypeOK
    <3> QED BY <2>1, <3>1 DEF InLog
  <2> QED BY <2>2, <2>3
<1> QED BY <1>4, <1>7, <1>8

----------------------------------------------------------------------------
(* Type correctness of Kafka and the process; and a goroutine in a publish has  *)
(* a point in hand.                                                            *)
THEOREM TypeCorrect == Spec => []TypeInv
<1> USE Names
<1>1. Init => TypeInv
  <2> SUFFICES ASSUME Init PROVE TypeInv
    OBVIOUS
  <2>1. runs \in 0..MaxRuns /\ faults \in 0..MaxFaults /\ phase \in PhaseValue
    BY DEF Init, PhaseValue
  <2>2. InHand
    BY EmptyTypes DEF Init, InHand
  <2> QED BY <2>1, <2>2, EmptyTypes DEF Init, TypeInv, TypeOK
<1>2. TypeInv /\ [Next]_vars => TypeInv'
  <2> SUFFICES ASSUME TypeInv, [Next]_vars PROVE TypeInv'
    OBVIOUS
  <2> USE DEF TypeInv, TypeOK, InHand, PhaseValue, Fault, kafkaVars, scanVars, startVars,
              windowVars, workVars, runHistory, history
  <2>1. CASE Start
    <3>1. /\ queried' \subseteq Topic /\ seen' \in [Topic -> Nat]
          /\ spoiled' \in BOOLEAN /\ faults' \in 0..MaxFaults
      BY <2>1, QueryType DEF Start
    <3>2. pc' \in [Goroutine -> PcValue] /\ \A g \in Goroutine : pc'[g] \in {"idle", "gone"}
      BY <2>1, EmptyTypes DEF Start
    <3>3. runs' \in 0..MaxRuns
      BY <2>1 DEF Start
    <3> QED BY <2>1, <3>1, <3>2, <3>3 DEF Start
  <2>2. ASSUME NEW t \in Topic, Read(t) PROVE TypeInv'
    <3>1. log[t][seen[t] + 1] \in Point
      BY <2>2 DEF Read
    <3>2. keys' \subseteq Point /\ seen' \in [Topic -> Nat]
      BY <2>2, <3>1 DEF Read
    <3>3. UNCHANGED <<log, queued, phase, cancelled, queried, spoiled, known, windows, aborted,
                      pc, todo, point, unknown, failed, refused, badWindows, unsure, missed,
                      runs, faults>>
      BY <2>2 DEF Read
    <3> QED BY <3>2, <3>3
  <2>3. CASE ScanEnds
    <3>1. /\ queried' \subseteq Topic /\ seen' \in [Topic -> Nat]
          /\ spoiled' \in BOOLEAN /\ faults' \in 0..MaxFaults /\ phase' \in PhaseValue
      BY <2>3, QueryType DEF ScanEnds, NextPhase
    <3>2. missed' \subseteq Point
      BY <2>3 DEF ScanEnds, ScanReturns
    <3> QED BY <2>3, <3>1, <3>2 DEF ScanEnds, ScanReturns
  <2>4. CASE ScanFails
    <3>1. /\ queried' \subseteq Topic /\ seen' \in [Topic -> Nat]
          /\ spoiled' \in BOOLEAN /\ faults' \in 0..MaxFaults /\ phase' \in PhaseValue
      <4>1. phase' \in PhaseValue /\ faults' \in 0..MaxFaults
        BY <2>4 DEF ScanFails
      <4>2. queried' \subseteq Topic /\ seen' \in [Topic -> Nat]
        BY <2>4, EmptyTypes DEF ScanFails
      <4>3. spoiled' \in BOOLEAN
        BY <2>4 DEF ScanFails
      <4> QED BY <4>1, <4>2, <4>3
    <3>2. missed' \subseteq Point
      BY <2>4 DEF ScanFails, ScanReturns
    <3> QED BY <2>4, <3>1, <3>2 DEF ScanFails, ScanReturns
  <2>5. ASSUME NEW g \in Goroutine, FetchMetadata(g) PROVE TypeInv'
    <3>1. known' \subseteq Sensor /\ faults' \in 0..MaxFaults
      BY <2>5 DEF FetchMetadata
    <3>2. PICK S \in SUBSET MetaPoint : Loop(g, S)
      BY <2>5 DEF FetchMetadata
    <3>3. S \subseteq Point
      BY DEF MetaPoint
    <3> QED BY <2>5, <3>1, <3>2, <3>3 DEF FetchMetadata, Loop
  <2>6. CASE FetchConditions
    BY <2>6 DEF FetchConditions, Loop, DataPoint
  <2>7. ASSUME NEW g \in Goroutine, PassOver(g) PROVE TypeInv'
    BY <2>7 DEF PassOver
  <2>8. ASSUME NEW g \in Goroutine, NEW where \in {"wait", "produce"}, Check(g, where) PROVE TypeInv'
    BY <2>8 DEF Check
  <2>9. ASSUME NEW g \in Goroutine, Delivered(g) PROVE TypeInv'
    <3>1. point[g] \in Point
      BY <2>9 DEF Delivered
    <3>2. log' \in [Topic -> Seq(Point)]
      BY <2>9, <3>1, AppendKeeps DEF Delivered
    <3>3. keys' \subseteq Point
      BY <2>9, <3>1 DEF Delivered
    <3>4. /\ pc' \in [Goroutine -> PcValue] /\ point' \in [Goroutine -> Point \cup {None}]
          /\ InHand'
      BY <2>9 DEF Delivered, Back
    <3> QED BY <2>9, <3>2, <3>3, <3>4 DEF Delivered
  <2>10. ASSUME NEW g \in Goroutine, DeliveryFails(g) PROVE TypeInv'
    BY <2>10 DEF DeliveryFails, Back
  <2>11. ASSUME NEW g \in Goroutine, GivesUp(g) PROVE TypeInv'
    BY <2>11 DEF GivesUp, Back
  <2>12. ASSUME NEW g \in Goroutine, Produce(g) PROVE TypeInv'
    BY <2>12 DEF Produce, Back
  <2>13. ASSUME NEW g \in Goroutine, ProduceFails(g) PROVE TypeInv'
    BY <2>13 DEF ProduceFails, Back
  <2>14. ASSUME NEW g \in Goroutine, EndOfLoop(g) PROVE TypeInv'
    BY <2>14 DEF EndOfLoop
  <2>15. ASSUME NEW p \in Point, Deliver(p) PROVE TypeInv'
    <3>1. log' \in [Topic -> Seq(Point)]
      BY <2>15, AppendKeeps DEF Deliver
    <3> QED BY <2>15, <3>1 DEF Deliver
  <2>16. ASSUME NEW p \in Point, Drop(p) PROVE TypeInv'
    BY <2>16 DEF Drop
  <2>17. CASE StartWorkers
    BY <2>17 DEF StartWorkers
  <2>18. ASSUME NEW w \in Worker, TakeWindow(w) PROVE TypeInv'
    <3>1. PICK v \in windows : Received(v) /\ (Loop(w, PointsOf[v]) \/ UNCHANGED <<pc, todo>>)
      BY <2>18 DEF TakeWindow
    <3>2. PointsOf[v] \subseteq Point /\ windows' \subseteq Window
      BY <3>1 DEF Received, DataPoint
    <3>3. /\ pc' \in [Goroutine -> PcValue] /\ todo' \in [Goroutine -> SUBSET Point]
          /\ InHand'
      BY <2>18, <3>1, <3>2 DEF TakeWindow, Loop
    <3>4. aborted' \in BOOLEAN /\ badWindows' \subseteq Window /\ faults' \in 0..MaxFaults
      <4>1. aborted' \in BOOLEAN
        BY <2>18 DEF TakeWindow
      <4>2. badWindows' \subseteq Window
        BY <2>18 DEF TakeWindow
      <4>3. faults' \in 0..MaxFaults
        BY <2>18 DEF TakeWindow
      <4> QED BY <4>1, <4>2, <4>3
    <3> QED BY <2>18, <3>2, <3>3, <3>4 DEF TakeWindow
  <2>19. ASSUME NEW w \in Worker, WorkerReturns(w) PROVE TypeInv'
    BY <2>19 DEF WorkerReturns, Received
  <2>20. CASE CollectResults
    BY <2>20 DEF CollectResults
  <2>21. CASE Flush
    BY <2>21 DEF Flush
  <2>22. CASE MetaReturns
    BY <2>22 DEF MetaReturns
  <2>23. CASE LoopReturns
    BY <2>23 DEF LoopReturns
  <2>24. CASE Close
    <3>1. faults' \in 0..MaxFaults
      BY <2>24 DEF Close
    <3>2. InHand'
      BY <2>24, EmptyTypes DEF Close, Die
    <3> QED BY <2>24, <3>1, <3>2, EmptyTypes DEF Close, Die
  <2>25. CASE Crash
    <3>1. faults' \in 0..MaxFaults
      BY <2>25 DEF Crash
    <3>2. InHand'
      BY <2>25, EmptyTypes DEF Crash, Die
    <3> QED BY <2>25, <3>1, <3>2, EmptyTypes DEF Crash, Die
  <2>26. CASE Signal
    BY <2>26 DEF Signal
  <2>27. CASE Idle
    BY <2>27 DEF Idle, vars
  <2>28. CASE UNCHANGED vars
    BY <2>28 DEF vars
  <2> QED BY <2>1, <2>2, <2>3, <2>4, <2>5, <2>6, <2>7, <2>8, <2>9, <2>10, <2>11, <2>12, <2>13,
             <2>14, <2>15, <2>16, <2>17, <2>18, <2>19, <2>20, <2>21, <2>22, <2>23, <2>24, <2>25,
             <2>26, <2>27, <2>28
         DEF Next, Main, Work, Publishing
<1> QED BY <1>1, <1>2, PTL DEF Spec
----------------------------------------------------------------------------
(* Messages are only ever added to the topics. *)
LEMMA LogStep ==
  ASSUME TypeInv, [Next]_vars
  PROVE  UNCHANGED log \/ \E p \in Point : Append1(p)
<1> USE DEF kafkaVars
<1>1. ASSUME NEW g \in Goroutine, Delivered(g) PROVE \E p \in Point : Append1(p)
  BY <1>1 DEF Delivered, TypeInv, InHand
<1>2. ASSUME NEW p \in Point, Deliver(p) PROVE Append1(p)
  BY <1>2 DEF Deliver
<1>3. ASSUME NEW g \in Goroutine,
             \/ FetchMetadata(g) \/ PassOver(g) \/ DeliveryFails(g) \/ ProduceFails(g)
             \/ EndOfLoop(g) \/ GivesUp(g) \/ Produce(g)
             \/ \E where \in {"wait", "produce"} : Check(g, where)
      PROVE  UNCHANGED log
  BY <1>3 DEF FetchMetadata, PassOver, DeliveryFails, ProduceFails, EndOfLoop, GivesUp,
              Produce, Check
<1>4. ASSUME NEW w \in Worker, TakeWindow(w) \/ WorkerReturns(w) PROVE UNCHANGED log
  BY <1>4 DEF TakeWindow, WorkerReturns
<1>5. CASE \/ Start \/ ScanEnds \/ ScanFails \/ FetchConditions \/ StartWorkers
           \/ CollectResults \/ Flush \/ MetaReturns \/ LoopReturns \/ Close \/ Crash
           \/ Signal \/ Idle \/ (\E t \in Topic : Read(t)) \/ (\E p \in Point : Drop(p))
           \/ UNCHANGED vars
  BY <1>5 DEF Start, ScanEnds, ScanFails, ScanReturns, FetchConditions, StartWorkers,
     CollectResults, Flush, MetaReturns, LoopReturns, Close, Crash, Die, Signal, Idle,
     Read, Drop, vars
<1> QED BY <1>1, <1>2, <1>3, <1>4, <1>5, Names DEF Next, Main, Work, Publishing

(* A process goes down when it closes or crashes. *)
LEMMA EndsDown ==
  ASSUME phase # "down", [Next]_vars, ~(Close \/ Crash)
  PROVE  phase' # "down"
<1> USE DEF startVars
<1>1. ASSUME NEW g \in Goroutine,
             \/ FetchMetadata(g) \/ PassOver(g) \/ Delivered(g) \/ DeliveryFails(g)
             \/ GivesUp(g) \/ Produce(g) \/ ProduceFails(g) \/ EndOfLoop(g)
             \/ \E where \in {"wait", "produce"} : Check(g, where)
      PROVE  phase' # "down"
  BY <1>1 DEF FetchMetadata, PassOver, Delivered, DeliveryFails, GivesUp, Produce, ProduceFails,
     EndOfLoop, Check
<1>2. ASSUME NEW w \in Worker, TakeWindow(w) \/ WorkerReturns(w) PROVE phase' # "down"
  BY <1>2 DEF TakeWindow, WorkerReturns
<1>3. CASE \/ Start \/ ScanEnds \/ ScanFails \/ FetchConditions \/ StartWorkers
           \/ CollectResults \/ Flush \/ MetaReturns \/ LoopReturns \/ Signal \/ Idle
           \/ (\E t \in Topic : Read(t)) \/ (\E p \in Point : Deliver(p) \/ Drop(p))
           \/ UNCHANGED vars
  BY <1>3 DEF Start, ScanEnds, ScanFails, NextPhase, FetchConditions, StartWorkers,
     CollectResults, Flush, MetaReturns, LoopReturns, Signal, Idle, Read, Deliver, Drop, vars
<1> QED BY <1>1, <1>2, <1>3, Names DEF Next, Main, Work, Publishing

(* A process that is down has neither keys nor goroutines. *)
DownInv == phase = "down" => keys = {} /\ pc = NotStarted

(* Start finds an empty set of keys, and nothing runs before it. *)
LEMMA DownIsEmpty == Spec => []DownInv
<1> USE Names
<1>1. Init => DownInv
  BY DEF Init, DownInv
<1>2. TypeInv /\ DownInv /\ [Next]_vars => DownInv'
  <2> SUFFICES ASSUME TypeInv, DownInv, [Next]_vars PROVE DownInv'
    OBVIOUS
  <2> USE DEF DownInv, kafkaVars, startVars, scanVars, workVars
  <2>1. CASE phase = "down"
    <3>1. \A g \in Goroutine : pc[g] = "gone"
      BY <2>1, EmptyTypes
    <3>2. ASSUME NEW g \in Goroutine
          PROVE  ~(FetchMetadata(g) \/ Publishing(g) \/ Produce(g) \/ ProduceFails(g))
      BY <3>1 DEF FetchMetadata, Publishing, PassOver, Check, ToPublish, Delivered,
         DeliveryFails, GivesUp, EndOfLoop, Produce, ProduceFails
    <3>3. ASSUME NEW w \in Worker PROVE ~Work(w)
      <4>1. ~(TakeWindow(w) \/ WorkerReturns(w) \/ PassOver(w) \/ EndOfLoop(w))
        BY <3>1 DEF TakeWindow, WorkerReturns, PassOver, EndOfLoop
      <4>2. ~(Check(w, "produce") \/ Produce(w) \/ ProduceFails(w))
        BY <3>1 DEF Check, ToPublish, Produce, ProduceFails
      <4> QED BY <4>1, <4>2 DEF Work
    <3>4. ~Main
      BY <2>1, <3>1, <3>2 DEF Main, Read, ScanEnds, ScanFails, Scanning, FetchConditions,
         StartWorkers, CollectResults, Flush, LoopReturns, Close
    <3>5. phase' # "down" \/ UNCHANGED <<phase, keys, pc>>
      BY <2>1, <3>1, <3>2, <3>3, <3>4
         DEF Next, Start, Deliver, Drop, MetaReturns, Crash, Signal, Idle, vars
    <3> QED BY <2>1, <3>5
  <2>2. CASE phase # "down"
    <3>1. CASE Close \/ Crash
      BY <3>1 DEF Close, Crash, Die
    <3>2. CASE ~(Close \/ Crash)
      BY <2>2, <3>2, EndsDown
    <3> QED BY <3>1, <3>2
  <2> QED BY <2>1, <2>2
<1> QED BY <1>1, <1>2, TypeCorrect, PTL DEF Spec

(* A topic holds its own points only. *)
LogInv == \A t \in Topic : \A i \in DOMAIN log[t] : TopicOf[log[t][i]] = t

(* The broker keeps the topics apart. *)
LEMMA AppendKeepsLog ==
  ASSUME TypeOK, LogInv, NEW p \in Point, Append1(p)
  PROVE  LogInv'
<1> DEFINE s == log[TopicOf[p]]
<1>1. TopicOf[p] \in Topic /\ s \in Seq(Point)
  BY DEF TypeOK
<1>2. /\ log'[TopicOf[p]] = Append(s, p)
      /\ \A t \in Topic : t # TopicOf[p] => log'[t] = log[t]
  BY <1>1 DEF Append1, TypeOK
<1>3. /\ DOMAIN Append(s, p) = 1..(Len(s) + 1) /\ DOMAIN s = 1..Len(s) /\ Len(s) \in Nat
      /\ Append(s, p)[Len(s) + 1] = p
      /\ \A i \in 1..Len(s) : Append(s, p)[i] = s[i]
  BY <1>1
<1>4. ASSUME NEW i \in DOMAIN Append(s, p) PROVE TopicOf[Append(s, p)[i]] = TopicOf[p]
  <2>1. CASE i = Len(s) + 1
    BY <1>3, <2>1
  <2>2. CASE i \in 1..Len(s)
    BY <1>1, <1>3, <2>2 DEF LogInv
  <2> QED BY <1>3, <2>1, <2>2
<1>5. ASSUME NEW t \in Topic, NEW i \in DOMAIN log'[t] PROVE TopicOf[log'[t][i]] = t
  <2>1. CASE t = TopicOf[p]
    BY <1>2, <1>4, <2>1
  <2>2. CASE t # TopicOf[p]
    BY <1>2, <2>2 DEF LogInv
  <2> QED BY <2>1, <2>2
<1> QED BY <1>5 DEF LogInv

(* So it does from the start, whatever publishes. *)
LEMMA LogsApart == Spec => []LogInv
<1>1. Init => LogInv
  BY DEF Init, LogInv
<1>2. TypeInv /\ LogInv /\ [Next]_vars => LogInv'
  <2> SUFFICES ASSUME TypeInv, LogInv, [Next]_vars PROVE LogInv'
    OBVIOUS
  <2>1. CASE UNCHANGED log
    BY <2>1 DEF LogInv
  <2> QED BY <2>1, LogStep, AppendKeepsLog DEF TypeInv
<1> QED BY <1>1, <1>2, TypeCorrect, PTL DEF Spec

(* What a key stands for outlives every step that does not end the run. *)
LEMMA KeysGrow ==
  ASSUME TypeInv, KeysAreSent, keys' \subseteq keys,
         \A p \in Point : InLog(p) => InLog(p)',
         \A p \in Point : queued[p] > 0 => queued'[p] > 0 \/ InLog(p)' \/ p \in failed',
         failed \subseteq failed'
  PROVE  KeysAreSent'
BY DEF KeysAreSent, TypeInv, TypeOK

(* The set of keys never runs ahead of the topics: poller, back-fill workers,  *)
(* scan and producer may interleave as they like, a key in it has a message in *)
(* its topic or on its way, or the message failed after PublishAsync had       *)
(* returned.                                                                   *)
THEOREM KeysAlwaysSent == Spec => []KeysAreSent
<1> USE Names
<1>1. Init => KeysAreSent
  BY DEF Init, KeysAreSent
<1>2. TypeInv /\ DownInv /\ LogInv /\ KeysAreSent /\ [Next]_vars => KeysAreSent'
  <2> SUFFICES ASSUME TypeInv, DownInv, LogInv, KeysAreSent, [Next]_vars PROVE KeysAreSent'
    OBVIOUS
  <2> USE DEF TypeInv, TypeOK, kafkaVars, startVars, scanVars, workVars, runHistory
  <2>1. CASE Start
    BY <2>1 DEF Start, DownInv, KeysAreSent
  <2>2. ASSUME NEW t \in Topic, Read(t) PROVE KeysAreSent'
    <3> DEFINE q == log[t][seen[t] + 1]
    <3>1. q \in Point /\ InLog(q)
      <4>1. seen[t] + 1 \in DOMAIN log[t] /\ q \in Point
        BY <2>2 DEF Read
      <4>2. TopicOf[q] = t
        BY <4>1 DEF LogInv
      <4> QED BY <4>1, <4>2 DEF InLog
    <3> QED BY <2>2, <3>1 DEF Read, KeysAreSent, InLog
  <2>3. ASSUME NEW g \in Goroutine, Delivered(g) PROVE KeysAreSent'
    <3>1. point[g] \in Point /\ Append1(point[g]) /\ UNCHANGED <<queued, failed>>
      BY <2>3 DEF Delivered, InHand
    <3>2. keys' = keys \cup {point[g]}
      BY <2>3 DEF Delivered
    <3> QED BY <3>1, <3>2, AppendKeeps DEF KeysAreSent
  <2>4. ASSUME NEW p \in Point, Deliver(p) PROVE KeysAreSent'
    <3>1. /\ keys' = keys /\ failed' = failed /\ Append1(p)
          /\ \A r \in Point \ {p} : queued'[r] = queued[r]
      BY <2>4 DEF Deliver
    <3> QED BY <3>1, AppendKeeps, KeysGrow
  <2>5. ASSUME NEW p \in Point, Drop(p) PROVE KeysAreSent'
    BY <2>5, KeysGrow DEF Drop, InLog
  <2>6. ASSUME NEW g \in Goroutine, GivesUp(g) PROVE KeysAreSent'
    BY <2>6, KeysGrow DEF GivesUp, InLog
  <2>7. ASSUME NEW g \in Goroutine, Produce(g) PROVE KeysAreSent'
    <3>1. /\ point[g] \in Point /\ keys' = keys \cup {point[g]}
          /\ queued' = [queued EXCEPT ![point[g]] = @ + 1] /\ UNCHANGED <<log, failed>>
      BY <2>7 DEF Produce, InHand
    <3> QED BY <3>1 DEF KeysAreSent, InLog
  <2>8. CASE Close \/ Crash
    BY <2>8 DEF Close, Crash, Die, KeysAreSent
  <2>9. CASE UNCHANGED <<log, queued, keys, failed>>
    BY <2>9 DEF KeysAreSent, InLog
  <2>10. ASSUME NEW g \in Goroutine,
                \/ FetchMetadata(g) \/ PassOver(g) \/ DeliveryFails(g) \/ ProduceFails(g)
                \/ EndOfLoop(g)
                \/ \E where \in {"wait", "produce"} : Check(g, where)
         PROVE  UNCHANGED <<log, queued, keys, failed>>
    BY <2>10 DEF FetchMetadata, PassOver, DeliveryFails, ProduceFails, EndOfLoop, Check
  <2>11. ASSUME NEW w \in Worker, TakeWindow(w) \/ WorkerReturns(w)
         PROVE  UNCHANGED <<log, queued, keys, failed>>
    BY <2>11 DEF TakeWindow, WorkerReturns
  <2>12. CASE \/ ScanEnds \/ ScanFails \/ FetchConditions \/ StartWorkers
              \/ CollectResults \/ Flush \/ MetaReturns \/ LoopReturns \/ Signal \/ Idle
              \/ UNCHANGED vars
    <3>1. UNCHANGED <<log, queued, keys, failed>>
      BY <2>12 DEF ScanEnds, ScanFails, ScanReturns, FetchConditions, StartWorkers,
         CollectResults, Flush, MetaReturns, LoopReturns, Signal, Idle, vars
    <3> QED BY <2>9, <3>1
  <2> QED BY <2>1, <2>2, <2>3, <2>4, <2>5, <2>6, <2>7, <2>8, <2>9, <2>10, <2>11, <2>12
          DEF Next, Main, Work, Publishing
<1> QED BY <1>1, <1>2, TypeCorrect, DownIsEmpty, LogsApart, PTL DEF Spec
----------------------------------------------------------------------------
(* A worker without a window has no point left to look at. *)
RestInv == \A w \in Worker : pc[w] \in {"idle", "gone"} => todo[w] = {}

Settled(p) == InLog(p) \/ queued[p] > 0 \/ p \in unknown \cup failed \cup refused
BusyWith(w, p) == p \in todo[w] \/ (pc[w] = "produce" /\ point[w] = p)
Filling == phase \in {"backfill", "flush", "loop", "close"}

(* From the start of the back-fill on, the points of a window that was received *)
(* and fetched are settled, or its worker has still to come to them.           *)
FillInv ==
  Filling => \A v \in Window \ (badWindows \cup windows) : \A p \in PointsOf[v] :
               Settled(p) \/ \E w \in Worker : BusyWith(w, p)

(* A step that neither adds a window to those received nor forgets a point.    *)
LEMMA FillKept ==
  ASSUME FillInv, Filling' => Filling,
         (Window \ (badWindows \cup windows))' \subseteq Window \ (badWindows \cup windows),
         \A p \in Point : Settled(p) => Settled(p)',
         \A p \in Point, w \in Worker : BusyWith(w, p) => BusyWith(w, p)' \/ Settled(p)'
  PROVE  FillInv'
BY DEF FillInv, DataPoint

(* A message in the producer stays, arrives or is logged as failed. *)
LEMMA SettledGrows ==
  ASSUME TypeInv, NEW p \in Point,
         InLog(p) => InLog(p)',
         queued[p] > 0 => queued'[p] > 0 \/ InLog(p)' \/ p \in failed',
         unknown \cup failed \cup refused \subseteq unknown' \cup failed' \cup refused'
  PROVE  Settled(p) => Settled(p)'
BY DEF Settled

(* Every step of a run keeps what is settled. *)
LEMMA StepSettles ==
  ASSUME TypeInv, [Next]_vars, ~Start, ~Close, ~Crash, NEW p \in Point
  PROVE  Settled(p) => Settled(p)'
<1> USE Names DEF TypeInv, TypeOK, kafkaVars, runHistory
<1>1. InLog(p) => InLog(p)'
  <2>1. CASE UNCHANGED log
    BY <2>1 DEF InLog
  <2> QED BY <2>1, LogStep, AppendKeeps
<1>2. ASSUME NEW g \in Goroutine,
             \/ FetchMetadata(g) \/ PassOver(g) \/ DeliveryFails(g) \/ ProduceFails(g)
             \/ EndOfLoop(g) \/ Delivered(g) \/ \E where \in {"wait", "produce"} : Check(g, where)
      PROVE  UNCHANGED queued /\ unknown \cup failed \cup refused
                                   \subseteq unknown' \cup failed' \cup refused'
  BY <1>2 DEF FetchMetadata, PassOver, DeliveryFails, ProduceFails, EndOfLoop, Delivered,
              Check
<1>3. ASSUME NEW g \in Goroutine, GivesUp(g) \/ Produce(g)
      PROVE  (queued[p] > 0 => queued'[p] > 0) /\ UNCHANGED <<unknown, failed, refused>>
  <2>1. queued' = [queued EXCEPT ![point[g]] = @ + 1] /\ point[g] \in Point
    BY <1>3 DEF GivesUp, Produce, InHand
  <2>2. UNCHANGED <<unknown, failed, refused>>
    BY <1>3 DEF GivesUp, Produce
  <2> QED BY <2>1, <2>2
<1>4. ASSUME NEW q \in Point, Drop(q)
      PROVE  /\ queued[p] > 0 => queued'[p] > 0 \/ p \in failed'
             /\ UNCHANGED <<unknown, refused>> /\ failed \subseteq failed'
  BY <1>4 DEF Drop
<1>5. ASSUME NEW q \in Point, Deliver(q)
      PROVE  /\ queued[p] > 0 => queued'[p] > 0 \/ InLog(p)'
             /\ UNCHANGED <<unknown, failed, refused>>
  <2>1. InLog(q)'
    BY <1>5, AppendKeeps DEF Deliver
  <2> QED BY <1>5, <2>1 DEF Deliver
<1>6. ASSUME NEW w \in Worker, TakeWindow(w) \/ WorkerReturns(w)
      PROVE  UNCHANGED <<queued, unknown, failed, refused>>
  BY <1>6 DEF TakeWindow, WorkerReturns
<1>7. CASE \/ ScanEnds \/ ScanFails \/ FetchConditions \/ StartWorkers \/ CollectResults
           \/ Flush \/ MetaReturns \/ LoopReturns \/ Signal \/ Idle
           \/ (\E t \in Topic : Read(t)) \/ UNCHANGED vars
  <2>1. UNCHANGED <<queued, unknown, failed, refused>>
    BY <1>7 DEF ScanEnds, ScanFails, ScanReturns, FetchConditions, StartWorkers,
       CollectResults, Flush, MetaReturns, LoopReturns, Signal, Idle, Read, vars
  <2> QED BY <1>1, <2>1, SettledGrows
<1> QED BY <1>1, <1>2, <1>3, <1>4, <1>5, <1>6, <1>7, SettledGrows
        DEF Next, Main, Work, Publishing

(* A back-fill whose workers have returned has dealt with every point of every *)
(* window it could fetch: it is in its topic or on its way, or it was logged   *)
(* why not.                                                                    *)
THEOREM BackfillIsComplete == Spec => []BackfillComplete
<1> USE Names
<1>1. Init => RestInv /\ FillInv
  BY EmptyTypes DEF Init, RestInv, FillInv, Filling
<1>2. TypeInv /\ DownInv /\ RestInv /\ [Next]_vars => RestInv'
  <2> SUFFICES ASSUME TypeInv, DownInv, RestInv, [Next]_vars PROVE RestInv'
    OBVIOUS
  <2> USE DEF TypeInv, TypeOK, RestInv, workVars
  <2>1. ASSUME NEW g \in Goroutine, NEW S, Loop(g, S) PROVE RestInv'
    BY <2>1 DEF Loop
  <2>2. ASSUME NEW g \in Goroutine, FetchMetadata(g) PROVE RestInv'
    BY <2>1, <2>2 DEF FetchMetadata
  <2>3. ASSUME NEW g \in Goroutine, PassOver(g) \/ EndOfLoop(g) PROVE RestInv'
    BY <2>3 DEF PassOver, EndOfLoop
  <2>4. ASSUME NEW g \in Goroutine, NEW where \in {"wait", "produce"}, Check(g, where)
        PROVE  RestInv'
    BY <2>4 DEF Check
  <2>5. ASSUME NEW g \in Goroutine,
               \/ Delivered(g) \/ DeliveryFails(g) \/ GivesUp(g)
               \/ Produce(g) \/ ProduceFails(g)
        PROVE  RestInv'
    BY <2>5 DEF Delivered, DeliveryFails, GivesUp, Produce, ProduceFails, Back
  <2>6. ASSUME NEW w \in Worker, TakeWindow(w) \/ WorkerReturns(w) PROVE RestInv'
    BY <2>1, <2>6 DEF TakeWindow, WorkerReturns
  <2>7. CASE FetchConditions
    BY <2>1, <2>7 DEF FetchConditions
  <2>8. CASE Start
    BY <2>8, EmptyTypes DEF Start, DownInv
  <2>9. CASE Close \/ Crash
    BY <2>9 DEF Close, Crash, Die
  <2>10. CASE StartWorkers \/ CollectResults \/ Flush \/ MetaReturns
    <3>1. /\ UNCHANGED todo
          /\ \A w \in Worker : pc'[w] \in {"idle", "gone"} => pc[w] \in {"idle", "gone"}
      <4>1. CASE StartWorkers
        BY <4>1 DEF StartWorkers
      <4>2. CASE CollectResults
        BY <4>2 DEF CollectResults
      <4>3. CASE Flush
        BY <4>3 DEF Flush
      <4>4. CASE MetaReturns
        BY <4>4 DEF MetaReturns
      <4> QED BY <2>10, <4>1, <4>2, <4>3, <4>4
    <3> QED BY <3>1
  <2>11. CASE \/ ScanEnds \/ ScanFails \/ LoopReturns \/ Signal \/ Idle
              \/ (\E t \in Topic : Read(t)) \/ (\E p \in Point : Deliver(p) \/ Drop(p))
              \/ UNCHANGED vars
    BY <2>11 DEF ScanEnds, ScanFails, ScanReturns, LoopReturns, Signal, Idle, Read, Deliver,
                 Drop, vars
  <2> QED BY <2>2, <2>3, <2>4, <2>5, <2>6, <2>7, <2>8, <2>9, <2>10, <2>11
          DEF Next, Main, Work, Publishing
<1>3. TypeInv /\ RestInv /\ KeysAreSent /\ FillInv /\ [Next]_vars => FillInv'
  <2> SUFFICES ASSUME TypeInv, RestInv, KeysAreSent, FillInv, [Next]_vars PROVE FillInv'
    OBVIOUS
  <2> USE DEF TypeInv, TypeOK, kafkaVars, startVars, scanVars, windowVars, workVars,
              runHistory
  <2>1. CASE Start
    BY <2>1 DEF Start, FillInv, Filling
  <2>2. CASE Close \/ Crash
    BY <2>2 DEF Close, Crash, Die, FillInv, Filling
  <2>3. CASE ~(Start \/ Close \/ Crash)
    <3>1. \A p \in Point : Settled(p) => Settled(p)'
      BY <2>3, StepSettles
    <3>2. CASE /\ UNCHANGED <<windows, badWindows>> /\ (Filling' => Filling)
               /\ \A p \in Point, w \in Worker :
                    BusyWith(w, p) => BusyWith(w, p)' \/ Settled(p)'
      BY <3>1, <3>2, FillKept
    <3>3. ASSUME NEW g \in Goroutine, FetchMetadata(g), g \notin Worker PROVE FillInv'
      <4>1. UNCHANGED <<windows, badWindows, phase, point>>
        BY <3>3 DEF FetchMetadata
      <4>2. \A w \in Worker : pc'[w] = pc[w] /\ todo'[w] = todo[w]
        BY <3>3 DEF FetchMetadata, Loop
      <4> QED BY <3>2, <4>1, <4>2 DEF BusyWith, Filling
    <3>4. ASSUME NEW g \in Goroutine, PassOver(g) PROVE FillInv'
      <4>1. PICK p \in todo[g] :
              /\ p \in keys \/ p \in unknown'
              /\ todo' = [todo EXCEPT ![g] = @ \ {p}]
        BY <3>4 DEF PassOver
      <4>2. UNCHANGED <<windows, badWindows, phase, point, pc>>
        BY <3>4 DEF PassOver
      <4>3. Settled(p)'
        <5>1. CASE p \in unknown'
          BY <5>1 DEF Settled
        <5>2. CASE p \in keys
          BY <3>1, <5>2 DEF KeysAreSent, Settled
        <5> QED BY <4>1, <5>1, <5>2
      <4>4. \A q \in Point, w \in Worker : BusyWith(w, q) => BusyWith(w, q)' \/ q = p
        BY <4>1, <4>2 DEF BusyWith
      <4> QED BY <3>2, <4>2, <4>3, <4>4 DEF Filling
    <3>5. ASSUME NEW g \in Goroutine, NEW where \in {"wait", "produce"}, Check(g, where),
                 g \in Worker => where = "produce"
          PROVE  FillInv'
      <4>1. PICK p \in todo[g] :
              /\ todo' = [todo EXCEPT ![g] = @ \ {p}]
              /\ point' = [point EXCEPT ![g] = p]
              /\ pc[g] = "next"
        BY <3>5 DEF Check, ToPublish
      <4>2. pc' = [pc EXCEPT ![g] = where] /\ UNCHANGED <<windows, badWindows, phase>>
        BY <3>5 DEF Check
      <4>3. \A q \in Point, w \in Worker : BusyWith(w, q) => BusyWith(w, q)'
        BY <3>5, <4>1, <4>2 DEF BusyWith
      <4> QED BY <3>2, <4>2, <4>3 DEF Filling
    <3>6. ASSUME NEW g \in Goroutine \ Worker, Delivered(g) \/ DeliveryFails(g) \/ GivesUp(g)
          PROVE  FillInv'
      <4>1. UNCHANGED <<windows, badWindows, phase, todo>>
        BY <3>6 DEF Delivered, DeliveryFails, GivesUp
      <4>2. \A w \in Worker : pc'[w] = pc[w] /\ point'[w] = point[w]
        BY <3>6 DEF Delivered, DeliveryFails, GivesUp, Back
      <4> QED BY <3>2, <4>1, <4>2 DEF BusyWith, Filling
    <3>7. ASSUME NEW v \in Worker, Produce(v) \/ ProduceFails(v) PROVE FillInv'
      <4>1. PICK p \in Point : p = point[v]
        BY <3>7 DEF Produce, ProduceFails, InHand
      <4>2. UNCHANGED <<windows, badWindows, phase, todo>>
        BY <3>7 DEF Produce, ProduceFails
      <4>3. \A w \in Worker \ {v} : pc'[w] = pc[w] /\ point'[w] = point[w]
        BY <3>7 DEF Produce, ProduceFails, Back
      <4>4. Settled(p)'
        <5>1. CASE Produce(v)
          BY <4>1, <5>1 DEF Produce, Settled
        <5>2. CASE ProduceFails(v)
          BY <4>1, <5>2 DEF ProduceFails, Settled
        <5> QED BY <3>7, <5>1, <5>2
      <4>5. \A q \in Point, w \in Worker : BusyWith(w, q) => BusyWith(w, q)' \/ q = p
        BY <4>1, <4>2, <4>3 DEF BusyWith
      <4> QED BY <3>2, <4>2, <4>4, <4>5 DEF Filling
    <3>8. ASSUME NEW g \in Goroutine, EndOfLoop(g) PROVE FillInv'
      <4>1. UNCHANGED <<badWindows, todo, point>> /\ pc[g] = "next"
        BY <3>8 DEF EndOfLoop
      <4>2. \A q \in Point, w \in Worker : BusyWith(w, q) => BusyWith(w, q)'
        BY <3>8, <4>1 DEF EndOfLoop, BusyWith
      <4>3. CASE phase = "conditions" /\ g = main
        <5>1. windows' = Window
          BY <3>8, <4>3 DEF EndOfLoop
        <5> QED BY <5>1 DEF FillInv
      <4>4. CASE ~(phase = "conditions" /\ g = main)
        <5>1. UNCHANGED windows /\ (Filling' => Filling)
          BY <3>8, <4>4 DEF EndOfLoop, Filling
        <5> QED BY <3>2, <4>1, <4>2, <5>1
      <4> QED BY <4>3, <4>4
    <3>9. ASSUME NEW v \in Worker, TakeWindow(v) PROVE FillInv'
      <4>1. PICK x \in windows :
              /\ windows' = windows \ {x}
              /\ \/ Loop(v, PointsOf[x]) /\ UNCHANGED badWindows
                 \/ badWindows' = badWindows \cup {x} /\ UNCHANGED <<pc, todo>>
        BY <3>9 DEF TakeWindow, Received
      <4>2. UNCHANGED <<phase, point>> /\ pc[v] = "idle" /\ todo[v] = {}
        BY <3>9 DEF TakeWindow, RestInv
      <4>3. \A q \in Point, w \in Worker : BusyWith(w, q) => BusyWith(w, q)'
        BY <4>1, <4>2 DEF BusyWith, Loop
      <4>4. CASE badWindows' = badWindows \cup {x}
        BY <3>1, <4>1, <4>2, <4>3, <4>4, FillKept DEF Filling
      <4>5. CASE Loop(v, PointsOf[x]) /\ UNCHANGED badWindows
        <5>1. \A p \in PointsOf[x] : BusyWith(v, p)'
          BY <4>5 DEF Loop, BusyWith
        <5>2. SUFFICES ASSUME Filling', NEW y \in Window \ (badWindows \cup windows)',
                              NEW p \in PointsOf[y]
                       PROVE  Settled(p)' \/ \E w \in Worker : BusyWith(w, p)'
          BY DEF FillInv
        <5>3. CASE y = x
          BY <5>1, <5>3
        <5>4. CASE y # x
          <6>1. y \in Window \ (badWindows \cup windows) /\ Filling /\ p \in Point
            BY <4>1, <4>2, <4>5, <5>2, <5>4 DEF Filling, DataPoint
          <6>2. Settled(p) \/ \E w \in Worker : BusyWith(w, p)
            BY <6>1 DEF FillInv
          <6> QED BY <3>1, <4>3, <6>1, <6>2
        <5> QED BY <5>3, <5>4
      <4> QED BY <4>1, <4>4, <4>5
    <3>10. ASSUME NEW v \in Worker, WorkerReturns(v) PROVE FillInv'
      <4>1. UNCHANGED <<phase, todo, point>> /\ pc[v] = "idle"
        BY <3>10 DEF WorkerReturns
      <4>2. \A q \in Point, w \in Worker : BusyWith(w, q) => BusyWith(w, q)'
        BY <3>10, <4>1 DEF WorkerReturns, BusyWith
      <4>3. (Window \ (badWindows \cup windows))' \subseteq Window \ (badWindows \cup windows)
        BY <3>10 DEF WorkerReturns, Received
      <4> QED BY <3>1, <4>1, <4>2, <4>3, FillKept DEF Filling
    <3>11. CASE FetchConditions
      <4>1. UNCHANGED <<windows, badWindows, phase, point>>
        BY <3>11 DEF FetchConditions
      <4>2. \A w \in Worker : pc'[w] = pc[w] /\ todo'[w] = todo[w]
        BY <3>11 DEF FetchConditions, Loop
      <4> QED BY <3>2, <4>1, <4>2 DEF BusyWith, Filling
    <3>12. CASE StartWorkers \/ CollectResults \/ Flush \/ MetaReturns
      <4>1. UNCHANGED <<windows, badWindows, todo, point>> /\ (Filling' => Filling)
        BY <3>12 DEF StartWorkers, CollectResults, Flush, MetaReturns, Filling
      <4>2. \A w \in Worker : pc[w] = "produce" => pc'[w] = pc[w]
        BY <3>12 DEF StartWorkers, CollectResults, Flush, MetaReturns
      <4> QED BY <3>2, <4>1, <4>2 DEF BusyWith
    <3>13. CASE \/ ScanEnds \/ ScanFails \/ LoopReturns \/ Signal \/ Idle
                \/ (\E t \in Topic : Read(t)) \/ (\E p \in Point : Deliver(p) \/ Drop(p))
                \/ UNCHANGED vars
      <4>1. UNCHANGED <<windows, badWindows, pc, todo, point>> /\ (Filling' => Filling)
        BY <3>13 DEF ScanEnds, ScanFails, ScanReturns, NextPhase, LoopReturns, Signal, Idle,
           Read, Deliver, Drop, vars, Filling
      <4> QED BY <3>2, <4>1 DEF BusyWith
    <3> QED BY <2>3, <3>3, <3>4, <3>5, <3>6, <3>7, <3>8, <3>9, <3>10, <3>11, <3>12, <3>13,
               GoroutineAssumption DEF Next, Main, Work, Publishing, Poller, Goroutine
  <2> QED BY <2>1, <2>2, <2>3
<1>4. RestInv /\ FillInv => BackfillComplete
  BY DEF RestInv, FillInv, BackfillComplete, Settled, BusyWith, Filling, Goroutine
<1> QED BY <1>1, <1>2, <1>3, <1>4, TypeCorrect, DownIsEmpty, KeysAlwaysSent, PTL DEF Spec

----------------------------------------------------------------------------
(* The copies of a point in its topic can be counted, and a message adds one.   *)
LEMMA CopiesCounted ==
  ASSUME TypeOK, NEW p \in Point
  PROVE  Copies(p) \in Nat /\ (~InLog(p) => Copies(p) = 0)
<1> DEFINE s == log[TopicOf[p]]
           C == {i \in DOMAIN s : s[i] = p}
<1>1. TopicOf[p] \in Topic /\ s \in Seq(Point)
  BY DEF TypeOK
<1>2. DOMAIN s = 1 .. Len(s) /\ Len(s) \in Nat
  BY <1>1
<1>3. IsFiniteSet(C)
  <2>1. IsFiniteSet(1 .. Len(s))
    BY <1>2, FS_Interval
  <2>2. C \in SUBSET (1 .. Len(s))
    BY <1>2
  <2> QED BY <2>1, <2>2, FS_Subset
<1>4. ~InLog(p) => C = {}
  BY DEF InLog
<1> QED BY <1>3, <1>4, FS_CardinalityType, FS_EmptySet DEF Copies

LEMMA AppendCounts ==
  ASSUME TypeOK, NEW p \in Point, Append1(p)
  PROVE  /\ Copies(p)' = Copies(p) + 1
         /\ \A q \in Point \ {p} : Copies(q)' = Copies(q) /\ (InLog(q)' => InLog(q))
<1> DEFINE t == TopicOf[p]
           s == log[t]
           n == Len(s)
<1>1. t \in Topic /\ s \in Seq(Point)
  BY DEF TypeOK
<1>2. log' = [log EXCEPT ![t] = Append(s, p)] /\ log \in [Topic -> Seq(Point)]
  BY DEF Append1, TypeOK
<1>3. /\ n \in Nat /\ DOMAIN s = 1 .. n /\ DOMAIN Append(s, p) = 1 .. (n + 1)
      /\ Append(s, p)[n + 1] = p /\ \A i \in 1 .. n : Append(s, p)[i] = s[i]
  BY <1>1
<1>4. log'[t] = Append(s, p) /\ \A u \in Topic \ {t} : log'[u] = log[u]
  BY <1>1, <1>2
<1> DEFINE C(q) == {i \in DOMAIN log[TopicOf[q]] : log[TopicOf[q]][i] = q}
           D(q) == {i \in DOMAIN log'[TopicOf[q]] : log'[TopicOf[q]][i] = q}
<1>5. D(p) = C(p) \cup {n + 1} /\ n + 1 \notin C(p)
  BY <1>3, <1>4
<1>6. ASSUME NEW q \in Point \ {p} PROVE D(q) = C(q)
  <2>1. TopicOf[q] \in Topic
    OBVIOUS
  <2>2. CASE TopicOf[q] = t
    BY <1>3, <1>4, <1>6, <2>2
  <2>3. CASE TopicOf[q] # t
    BY <1>4, <2>1, <2>3
  <2> QED BY <2>2, <2>3
<1>7. IsFiniteSet(C(p))
  <2>1. IsFiniteSet(1 .. n)
    BY <1>3, FS_Interval
  <2>2. C(p) \in SUBSET (1 .. n)
    BY <1>3
  <2> QED BY <2>1, <2>2, FS_Subset
<1>8. Cardinality(D(p)) = Cardinality(C(p)) + 1
  BY <1>5, <1>7, FS_AddElement
<1>9. ASSUME NEW q \in Point
      PROVE  /\ Copies(q) = Cardinality(C(q)) /\ Copies(q)' = Cardinality(D(q))
             /\ InLog(q) <=> C(q) # {}
             /\ InLog(q)' <=> D(q) # {}
  <2>1. Copies(q) = Cardinality(C(q)) /\ Copies(q)' = Cardinality(D(q))
    BY DEF Copies
  <2>2. InLog(q) <=> C(q) # {}
    BY DEF InLog
  <2>3. InLog(q)' <=> D(q) # {}
    BY DEF InLog
  <2> QED BY <2>1, <2>2, <2>3
<1> QED BY <1>6, <1>8, <1>9

(* A scan that has counted as many messages as its topics had has read them all. *)
Messages(len) == UNION {{t} \X (1 .. len[t]) : t \in Topic}

LEMMA MessagesFinite ==
  ASSUME NEW len \in [Topic -> Nat]
  PROVE  IsFiniteSet(Messages(len))
<1> DEFINE f == [t \in Topic |-> {t} \X (1 .. len[t])]
           S == {f[t] : t \in Topic}
<1>1. f \in Surjection(Topic, S)
  BY DEF Surjection
<1>2. IsFiniteSet(S)
  BY <1>1, FS_Surjection
<1>3. \A T \in S : IsFiniteSet(T)
  <2> SUFFICES ASSUME NEW t \in Topic PROVE IsFiniteSet({t} \X (1 .. len[t]))
    OBVIOUS
  <2>1. IsFiniteSet(1 .. len[t])
    <3>1. len[t] \in Int
      OBVIOUS
    <3> QED BY <3>1, FS_Interval
  <2>2. IsFiniteSet({t})
    BY FS_Singleton
  <2> QED BY <2>1, <2>2, FS_Product
<1>4. IsFiniteSet(UNION S)
  BY <1>2, <1>3, FS_UNION
<1>5. UNION S = Messages(len)
  BY DEF Messages
<1> QED BY <1>4, <1>5

LEMMA EnoughIsAll ==
  ASSUME TypeOK, NEW T \in SUBSET Topic, Enough, queried = T,
         \A t \in T : seen[t] <= Len(log[t]), \A t \in Topic \ T : seen[t] = 0
  PROVE  \A t \in T : seen[t] = Len(log[t])
<1> DEFINE len == [t \in Topic |-> IF t \in T THEN Len(log[t]) ELSE 0]
<1>1. len \in [Topic -> Nat] /\ seen \in [Topic -> Nat]
  BY DEF TypeOK
<1>2. \A t \in T : DOMAIN log[t] = 1 .. len[t] /\ log[t] \in Seq(Point)
  BY DEF TypeOK
<1>3. UNION {{t} \X DOMAIN log[t] : t \in T} = Messages(len)
  <2>1. UNION {{t} \X DOMAIN log[t] : t \in T} \subseteq Messages(len)
    BY <1>2 DEF Messages
  <2>2. Messages(len) \subseteq UNION {{t} \X DOMAIN log[t] : t \in T}
    BY <1>2 DEF Messages
  <2> QED BY <2>1, <2>2
<1>4. Messages(seen) \subseteq Messages(len)
  <2>1. \A t \in Topic : seen[t] <= len[t] /\ seen[t] \in Nat /\ len[t] \in Nat
    BY <1>1
  <2> HIDE DEF len
  <2> QED BY <2>1 DEF Messages
<1>5. Cardinality(Messages(seen)) >= Cardinality(Messages(len))
  BY <1>3 DEF Enough, messagesScanned, total, Messages
<1> HIDE DEF len
<1>6. Messages(seen) = Messages(len)
  <2>1. IsFiniteSet(Messages(len)) /\ IsFiniteSet(Messages(seen))
    BY <1>1, MessagesFinite
  <2>2. /\ Cardinality(Messages(len)) \in Nat /\ Cardinality(Messages(seen)) \in Nat
        /\ Cardinality(Messages(seen)) <= Cardinality(Messages(len))
        /\ Cardinality(Messages(seen)) = Cardinality(Messages(len)) => Messages(seen) = Messages(len)
    BY <1>4, <2>1, FS_Subset, FS_CardinalityType
  <2> QED BY <1>5, <2>2
<1> SUFFICES ASSUME NEW t \in T, seen[t] # Len(log[t]) PROVE FALSE
  OBVIOUS
<1>7. seen[t] < len[t] /\ len[t] \in Nat
  BY <1>1 DEF len
<1>8. <<t, len[t]>> \in Messages(len)
  BY <1>7, <1>1 DEF Messages
<1>9. <<t, len[t]>> \notin Messages(seen)
  BY <1>7, <1>1 DEF Messages
<1> QED BY <1>6, <1>8, <1>9

----------------------------------------------------------------------------
(* Who publishes when: the start of the process is main's alone, the workers run  *)
(* while main waits for them, and outlive that wait only when ctx is cancelled;   *)
(* metadata is published by main before, and by its own loop after.              *)
Early == phase \in {"down", "scanRecords", "scanMetadata"}

Holds(g, p) == pc[g] \in {"wait", "produce"} /\ point[g] = p
Busy(g, p) == pc[g] \notin {"idle", "gone"} /\ (p \in todo[g] \/ Holds(g, p))

TurnInv ==
  /\ Early => pc[main] \in {"idle", "gone"}
  /\ phase \in {"backfill", "flush", "close"} => pc[main] = "idle"
  /\ \A w \in Worker : pc[w] # "gone" =>
       /\ pc[main] = "idle"
       /\ phase = "backfill" \/ (phase \in {"loop", "close"} /\ cancelled)
  /\ pc[meta] # "gone" => phase \in {"loop", "close"}
  /\ aborted => cancelled

LEMMA TurnsTaken == Spec => []TurnInv
<1> USE Names
<1>1. Init => TurnInv
  BY EmptyTypes DEF Init, TurnInv
<1>2. TypeInv /\ DownInv /\ TurnInv /\ [Next]_vars => TurnInv'
  <2> SUFFICES ASSUME TypeInv, DownInv, TurnInv, [Next]_vars PROVE TurnInv'
    OBVIOUS
  <2> USE DEF TypeInv, TypeOK, TurnInv, Early, startVars, scanVars, workVars, windowVars
  <2>1. ASSUME UNCHANGED <<phase, cancelled, aborted, pc>> PROVE TurnInv'
    BY <2>1
  <2>2. ASSUME NEW g \in Goroutine, NEW where \in PcValue \ {"gone"}, pc[g] \notin {"idle", "gone"},
               pc' = [pc EXCEPT ![g] = where], UNCHANGED <<phase, cancelled, aborted>>
        PROVE  TurnInv'
    BY <2>2
  <2>3. CASE Start
    <3>1. phase' = "scanRecords" /\ UNCHANGED <<cancelled, aborted>>
      BY <2>3 DEF Start
    <3>2. pc'[main] = "idle" /\ \A g \in Goroutine \ {main} : pc'[g] = "gone"
      BY <2>3, EmptyTypes DEF Start
    <3> QED BY <3>1, <3>2
  <2>4. CASE \/ Idle \/ UNCHANGED vars
             \/ (\E t \in Topic : Read(t)) \/ (\E p \in Point : Deliver(p) \/ Drop(p))
    BY <2>1, <2>4 DEF Read, Idle, vars, Deliver, Drop
  <2>5. CASE ScanEnds \/ ScanFails
    <3>1. /\ phase \in {"scanRecords", "scanMetadata"} /\ phase' \in {"scanMetadata", "metadata"}
          /\ UNCHANGED <<pc, cancelled, aborted>>
      BY <2>5 DEF ScanEnds, ScanFails, ScanReturns, NextPhase, Scanning
    <3> QED BY <3>1
  <2>6. CASE FetchMetadata(main)
    <3>1. phase = "metadata" /\ pc' = [pc EXCEPT ![main] = "next"]
          /\ UNCHANGED <<phase, cancelled, aborted>>
      BY <2>6 DEF FetchMetadata, Loop
    <3> QED BY <3>1
  <2>7. CASE FetchMetadata(meta)
    <3>1. pc[meta] = "idle" /\ pc' = [pc EXCEPT ![meta] = "next"]
          /\ UNCHANGED <<phase, cancelled, aborted>>
      BY <2>7 DEF FetchMetadata, Loop
    <3> QED BY <3>1
  <2>8. CASE FetchConditions
    <3>1. /\ phase = "conditions" \/ (phase = "loop" /\ ~cancelled)
          /\ pc' = [pc EXCEPT ![main] = "next"]
          /\ UNCHANGED <<phase, cancelled, aborted>>
      BY <2>8 DEF FetchConditions, Loop
    <3> QED BY <3>1
  <2>9. ASSUME NEW g \in Goroutine,
               \/ PassOver(g) \/ Delivered(g) \/ DeliveryFails(g) \/ GivesUp(g)
               \/ Produce(g) \/ ProduceFails(g)
               \/ \E where \in {"wait", "produce"} : Check(g, where)
        PROVE  TurnInv'
    <3>1. CASE PassOver(g)
      BY <2>1, <3>1 DEF PassOver
    <3>2. CASE ~PassOver(g)
      <4>1. pc[g] \in {"next", "wait", "produce"} /\ UNCHANGED <<phase, cancelled, aborted>>
        BY <2>9, <3>2 DEF Delivered, DeliveryFails, GivesUp, Produce, ProduceFails, Check, ToPublish
      <4>2. \E where \in PcValue \ {"gone"} : pc' = [pc EXCEPT ![g] = where]
        BY <2>9, <3>2 DEF Delivered, DeliveryFails, GivesUp, Produce, ProduceFails, Check, Back
      <4> QED BY <2>2, <4>1, <4>2
    <3> QED BY <3>1, <3>2
  <2>10. ASSUME NEW g \in Goroutine, EndOfLoop(g) PROVE TurnInv'
    <3>1. /\ pc[g] = "next" /\ pc' = [pc EXCEPT ![g] = "idle"] /\ UNCHANGED <<cancelled, aborted>>
          /\ UNCHANGED phase \/ (g = main /\ phase \in {"metadata", "conditions"}
                                 /\ phase' \in {"conditions", "backfill"})
      BY <2>10 DEF EndOfLoop
    <3>2. CASE UNCHANGED phase
      BY <2>2, <3>1, <3>2
    <3>3. CASE g = main /\ phase \in {"metadata", "conditions"} /\ phase' \in {"conditions", "backfill"}
      BY <3>1, <3>3
    <3> QED BY <3>1, <3>2, <3>3
  <2>11. CASE StartWorkers
    BY <2>11 DEF StartWorkers
  <2>12. ASSUME NEW w \in Worker, TakeWindow(w) PROVE TurnInv'
    <3>1. /\ pc[w] = "idle" /\ UNCHANGED <<phase, cancelled>>
          /\ aborted' => aborted \/ cancelled
          /\ UNCHANGED pc \/ pc' = [pc EXCEPT ![w] = "next"]
      BY <2>12 DEF TakeWindow, Loop
    <3> QED BY <3>1
  <2>13. ASSUME NEW w \in Worker, WorkerReturns(w) PROVE TurnInv'
    BY <2>13 DEF WorkerReturns
  <2>14. CASE CollectResults
    <3>1. CASE WorkersReturned /\ phase' = "flush" /\ UNCHANGED pc
      BY <2>14, <3>1 DEF CollectResults, WorkersReturned
    <3>2. CASE aborted /\ phase' = "loop" /\ pc' = [pc EXCEPT ![meta] = "idle"]
      BY <2>14, <3>2 DEF CollectResults
    <3> QED BY <2>14, <3>1, <3>2 DEF CollectResults
  <2>15. CASE Flush
    BY <2>15 DEF Flush
  <2>16. CASE MetaReturns
    BY <2>16 DEF MetaReturns
  <2>17. CASE LoopReturns
    BY <2>17 DEF LoopReturns
  <2>18. CASE Close \/ Crash
    <3>1. phase' = "down" /\ aborted' = FALSE /\ \A g \in Goroutine : pc'[g] = "gone"
      BY <2>18, EmptyTypes DEF Close, Crash, Die
    <3> QED BY <3>1
  <2>19. CASE Signal
    BY <2>19 DEF Signal
  <2> QED BY <2>3, <2>4, <2>5, <2>6, <2>7, <2>8, <2>9, <2>10, <2>11, <2>12, <2>13, <2>14,
             <2>15, <2>16, <2>17, <2>18, <2>19 DEF Next, Main, Work, Publishing
<1> QED BY <1>1, <1>2, TypeCorrect, DownIsEmpty, PTL DEF Spec

(* Only the handlers that begin a loop give a goroutine points. *)
LEMMA BusyShrinks ==
  ASSUME TypeInv, [Next]_vars, NEW g \in Goroutine, NEW p \in Point, Busy(g, p)',
         ~FetchMetadata(main), ~FetchMetadata(meta), ~FetchConditions,
         \A w \in Worker : ~TakeWindow(w)
  PROVE  Busy(g, p) /\ (Holds(g, p)' => Holds(g, p) \/ p \notin keys)
<1> USE Names DEF TypeInv, TypeOK, workVars
<1>1. ASSUME UNCHANGED point, pc'[g] = pc[g], todo'[g] = todo[g]
      PROVE  Busy(g, p) /\ (Holds(g, p)' => Holds(g, p))
  BY <1>1 DEF Busy, Holds
<1>2. ASSUME NEW h \in Goroutine, PassOver(h) PROVE Busy(g, p) /\ (Holds(g, p)' => Holds(g, p))
  <2>1. UNCHANGED <<pc, point>> /\ \A q \in todo'[g] : q \in todo[g]
    BY <1>2 DEF PassOver
  <2> QED BY <2>1 DEF Busy, Holds
<1>3. ASSUME NEW h \in Goroutine, NEW where \in {"wait", "produce"}, Check(h, where)
      PROVE  Busy(g, p) /\ (Holds(g, p)' => Holds(g, p) \/ p \notin keys)
  <2>1. PICK q \in todo[h] : /\ pc[h] = "next" /\ q \notin keys
                             /\ todo' = [todo EXCEPT ![h] = @ \ {q}]
                             /\ point' = [point EXCEPT ![h] = q]
    BY <1>3 DEF Check, ToPublish
  <2>2. pc' = [pc EXCEPT ![h] = where]
    BY <1>3 DEF Check
  <2>3. CASE h = g
    BY <2>1, <2>2, <2>3 DEF Busy, Holds
  <2>4. CASE h # g
    BY <2>1, <2>2, <2>4 DEF Busy, Holds
  <2> QED BY <2>3, <2>4
<1>4. ASSUME NEW h \in Goroutine,
             \/ Delivered(h) \/ DeliveryFails(h) \/ GivesUp(h) \/ Produce(h) \/ ProduceFails(h)
      PROVE  Busy(g, p) /\ (Holds(g, p)' => Holds(g, p))
  <2>1. pc[h] \in {"wait", "produce"} /\ Back(h) /\ UNCHANGED todo
    BY <1>4 DEF Delivered, DeliveryFails, GivesUp, Produce, ProduceFails
  <2>2. CASE h = g
    BY <2>1, <2>2 DEF Back, Busy, Holds
  <2>3. CASE h # g
    BY <2>1, <2>3 DEF Back, Busy, Holds
  <2> QED BY <2>2, <2>3
<1>5. ASSUME NEW h \in Goroutine, EndOfLoop(h)
      PROVE  Busy(g, p) /\ (Holds(g, p)' => Holds(g, p))
  <2>1. pc' = [pc EXCEPT ![h] = "idle"] /\ UNCHANGED <<todo, point>>
    BY <1>5 DEF EndOfLoop
  <2> QED BY <2>1 DEF Busy, Holds
<1>6. CASE \/ StartWorkers \/ CollectResults \/ Flush \/ MetaReturns
           \/ \E w \in Worker : WorkerReturns(w)
  <2>1. UNCHANGED <<todo, point>>
    BY <1>6 DEF StartWorkers, CollectResults, Flush, MetaReturns, WorkerReturns
  <2>2. pc'[g] \in {"idle", "gone"} \/ pc'[g] = pc[g]
    BY <1>6 DEF StartWorkers, CollectResults, Flush, MetaReturns, WorkerReturns
  <2> QED BY <2>1, <2>2 DEF Busy, Holds
<1>7. CASE Start \/ Close \/ Crash
  <2>1. pc'[g] \in {"idle", "gone"}
    BY <1>7, EmptyTypes DEF Start, Close, Crash, Die
  <2> QED BY <2>1 DEF Busy
<1>8. CASE \/ ScanEnds \/ ScanFails \/ LoopReturns \/ Signal \/ Idle
           \/ (\E t \in Topic : Read(t)) \/ (\E q \in Point : Deliver(q) \/ Drop(q))
           \/ UNCHANGED vars
  <2>1. UNCHANGED <<pc, todo, point>>
    BY <1>8 DEF ScanEnds, ScanFails, ScanReturns, LoopReturns, Signal, Idle, Read, Deliver,
       Drop, vars
  <2> QED BY <1>1, <2>1
<1> QED BY <1>2, <1>3, <1>4, <1>5, <1>6, <1>7, <1>8 DEF Next, Main, Work, Publishing

(* What a goroutine has to do with once it begins a loop. *)
LEMMA LoopBusy ==
  ASSUME TypeOK, NEW g \in Goroutine, NEW S \in SUBSET Point, Loop(g, S), UNCHANGED point
  PROVE  /\ \A p \in Point : Busy(g, p)' => p \in S /\ ~Holds(g, p)'
         /\ \A h \in Goroutine \ {g}, p \in Point : /\ Busy(h, p)' <=> Busy(h, p)
                                                    /\ Holds(h, p)' <=> Holds(h, p)
BY DEF TypeOK, Loop, Busy, Holds

(* Metadata is published by main at the start and by the loop it has then started, *)
(* data points by main and the workers.                                            *)
KindInv ==
  \A p \in Point : /\ Busy(main, p) => (p \in MetaPoint <=> phase = "metadata")
                   /\ Busy(meta, p) => p \in MetaPoint
                   /\ \A w \in Worker : Busy(w, p) => p \in DataPoint

LEMMA KindsKept == Spec => []KindInv
<1> USE Names
<1>1. Init => KindInv
  BY EmptyTypes DEF Init, KindInv, Busy
<1>2. TypeInv /\ TurnInv /\ TurnInv' /\ KindInv /\ [Next]_vars => KindInv'
  <2> SUFFICES ASSUME TypeInv, TurnInv, TurnInv', KindInv, [Next]_vars PROVE KindInv'
    OBVIOUS
  <2>0. TypeOK /\ MetaPoint \in SUBSET Point /\ DataPoint \in SUBSET Point
    BY DEF TypeInv, MetaPoint, DataPoint
  <2>1. CASE FetchMetadata(main) \/ FetchMetadata(meta)
    <3>1. PICK g \in {main, meta} : FetchMetadata(g)
      BY <2>1
    <3>2. PICK S \in SUBSET MetaPoint : Loop(g, S)
      BY <3>1 DEF FetchMetadata
    <3>3. UNCHANGED <<phase, point>> /\ (g = main => phase = "metadata")
      BY <3>1 DEF FetchMetadata, startVars
    <3> HIDE DEF MetaPoint
    <3> QED BY <2>0, <3>2, <3>3, LoopBusy DEF KindInv
  <2>2. CASE FetchConditions
    <3>1. PICK S \in SUBSET DataPoint : Loop(main, S)
      BY <2>2 DEF FetchConditions
    <3>2. UNCHANGED <<phase, point>> /\ phase # "metadata"
      BY <2>2 DEF FetchConditions, startVars
    <3> QED BY <2>0, <3>1, <3>2, LoopBusy DEF KindInv, DataPoint
  <2>3. ASSUME NEW w \in Worker, TakeWindow(w) PROVE KindInv'
    <3>1. UNCHANGED <<phase, point>>
      BY <2>3 DEF TakeWindow, startVars
    <3>2. CASE UNCHANGED <<pc, todo>>
      BY <3>1, <3>2 DEF KindInv, Busy, Holds
    <3>3. CASE \E v \in windows : Loop(w, PointsOf[v])
      <4>1. PICK S \in SUBSET DataPoint : Loop(w, S)
        BY <3>3 DEF TypeInv, TypeOK
      <4> QED BY <2>0, <3>1, <4>1, LoopBusy DEF KindInv, DataPoint
    <3> QED BY <2>3, <3>2, <3>3 DEF TakeWindow
  <2>4. CASE ~(FetchMetadata(main) \/ FetchMetadata(meta) \/ FetchConditions
               \/ \E w \in Worker : TakeWindow(w))
    <3>1. \A g \in Goroutine, p \in Point : Busy(g, p)' => Busy(g, p)
      BY <2>4, BusyShrinks
    <3>2. ASSUME NEW p \in Point, Busy(main, p)' PROVE phase' = "metadata" <=> phase = "metadata"
      <4>1. pc'[main] \notin {"idle", "gone"} /\ pc[main] \notin {"idle", "gone"}
        BY <3>1, <3>2 DEF Busy
      <4>2. phase \notin {"down", "scanRecords", "scanMetadata", "backfill", "flush", "close"}
        BY <4>1 DEF TurnInv, Early
      <4>3. ~EndOfLoop(main)
        BY <4>1 DEF EndOfLoop, TypeInv, TypeOK
      <4>4. CASE Close \/ Crash
        BY <4>1, <4>4, EmptyTypes DEF Close, Crash, Die
      <4>5. CASE ~(Close \/ Crash)
        <5>1. ASSUME NEW g \in Goroutine \ {main}, EndOfLoop(g) PROVE UNCHANGED phase
          BY <5>1 DEF EndOfLoop
        <5>2. ASSUME NEW g \in Goroutine,
                     \/ PassOver(g) \/ Delivered(g) \/ DeliveryFails(g) \/ GivesUp(g)
                     \/ Produce(g) \/ ProduceFails(g)
                     \/ \E where \in {"wait", "produce"} : Check(g, where)
              PROVE  UNCHANGED phase
          BY <5>2 DEF PassOver, Delivered, DeliveryFails, GivesUp, Produce, ProduceFails, Check,
             startVars
        <5>3. CASE \/ StartWorkers \/ MetaReturns \/ Signal \/ Idle \/ UNCHANGED vars
                   \/ (\E t \in Topic : Read(t)) \/ (\E q \in Point : Deliver(q) \/ Drop(q))
                   \/ (\E w \in Worker : WorkerReturns(w))
          BY <5>3 DEF StartWorkers, MetaReturns, Signal, Idle, vars, Read, Deliver, Drop,
             WorkerReturns, startVars
        <5>4. CASE Start \/ ScanEnds \/ ScanFails \/ CollectResults \/ Flush \/ LoopReturns
          BY <4>2, <5>4 DEF Start, ScanEnds, ScanFails, Scanning, CollectResults, Flush, LoopReturns
        <5> QED BY <2>4, <4>3, <4>5, <5>1, <5>2, <5>3, <5>4 DEF Next, Main, Work, Publishing
      <4> QED BY <4>4, <4>5
    <3> QED BY <3>1, <3>2 DEF KindInv
  <2> QED BY <2>1, <2>2, <2>3, <2>4
<1> QED BY <1>1, <1>2, TypeCorrect, TurnsTaken, PTL DEF Spec

(* Two workers come to the same point only when two windows share it: a window is *)
(* received once, and its points are in no window that is still to be received.   *)
AloneInv ==
  \A p \in Point : \A v, w \in Worker : v # w /\ Busy(v, p) /\ Busy(w, p) => Shared(p)
TakenInv ==
  \A p \in Point, w \in Worker :
    Busy(w, p) => Shared(p) \/ \A v \in windows : p \notin PointsOf[v]

LEMMA OnlyWorkersMeet ==
  ASSUME TurnInv, KindInv, AloneInv, NEW p \in Point, NEW g \in Goroutine,
         NEW h \in Goroutine \ {g}, Busy(g, p), Busy(h, p)
  PROVE  Shared(p)
<1> USE Names
<1>1. CASE g \in Worker /\ h \in Worker
  BY <1>1 DEF AloneInv
<1>2. ASSUME Busy(main, p), Busy(meta, p) PROVE FALSE
  BY <1>2 DEF TurnInv, KindInv, Busy
<1>3. ASSUME NEW w \in Worker, Busy(w, p), Busy(main, p) PROVE FALSE
  BY <1>3 DEF TurnInv, Busy
<1>4. ASSUME NEW w \in Worker, Busy(w, p), Busy(meta, p) PROVE FALSE
  BY <1>4 DEF KindInv, DataPoint
<1>5. g \in {main, meta} \cup Worker /\ h \in {main, meta} \cup Worker
  BY DEF Goroutine, Poller
<1> QED BY <1>1, <1>2, <1>3, <1>4, <1>5

LEMMA WindowsApart == Spec => [](AloneInv /\ TakenInv)
<1> USE Names
<1>1. Init => AloneInv /\ TakenInv
  BY EmptyTypes DEF Init, AloneInv, TakenInv, Busy
<1>2. TypeInv /\ TurnInv /\ AloneInv /\ TakenInv /\ [Next]_vars => AloneInv' /\ TakenInv'
  <2> SUFFICES ASSUME TypeInv, TurnInv, AloneInv, TakenInv, [Next]_vars
               PROVE  AloneInv' /\ TakenInv'
    OBVIOUS
  <2>0. TypeOK
    BY DEF TypeInv
  <2>1. ASSUME \A w \in Worker, p \in Point : Busy(w, p)' => Busy(w, p), windows' \subseteq windows
        PROVE  AloneInv' /\ TakenInv'
    BY <2>1 DEF AloneInv, TakenInv, Shared
  <2>2. ASSUME NEW g \in {main, meta}, FetchMetadata(g) \/ (g = main /\ FetchConditions)
        PROVE  AloneInv' /\ TakenInv'
    <3>1. UNCHANGED <<point, windows>> /\ \E S \in SUBSET Point : Loop(g, S)
      BY <2>2 DEF FetchMetadata, FetchConditions, windowVars, MetaPoint, DataPoint
    <3>2. \A h \in Goroutine \ {g}, p \in Point : Busy(h, p)' => Busy(h, p)
      BY <2>0, <3>1, LoopBusy
    <3> QED BY <2>1, <3>1, <3>2
  <2>3. ASSUME NEW w \in Worker, TakeWindow(w) PROVE AloneInv' /\ TakenInv'
    <3>1. PICK v \in windows :
            /\ Received(v) /\ UNCHANGED point
            /\ Loop(w, PointsOf[v]) \/ UNCHANGED <<pc, todo>>
      BY <2>3 DEF TakeWindow
    <3>2. windows' = windows \ {v} /\ v \in Window /\ windows \subseteq Window
      BY <2>0, <3>1 DEF Received, TypeOK
    <3>3. CASE UNCHANGED <<pc, todo>>
      BY <2>1, <3>1, <3>2, <3>3 DEF Busy, Holds
    <3>4. CASE Loop(w, PointsOf[v])
      <4>1. PointsOf[v] \in SUBSET Point
        BY <3>2 DEF DataPoint
      <4>2. /\ \A p \in Point : Busy(w, p)' => p \in PointsOf[v]
            /\ \A h \in Worker \ {w}, p \in Point : Busy(h, p)' => Busy(h, p)
        BY <2>0, <3>1, <3>4, <4>1, LoopBusy
      <4>3. AloneInv'
        <5> SUFFICES ASSUME NEW p \in Point, NEW h \in Worker \ {w}, Busy(h, p), p \in PointsOf[v]
                     PROVE  Shared(p)
          BY <4>2 DEF AloneInv, Shared
        <5> QED BY <3>1 DEF TakenInv
      <4>4. TakenInv'
        <5>1. ASSUME NEW p \in PointsOf[v], NEW x \in windows', p \in PointsOf[x]
              PROVE  Shared(p)
          <6>1. x \in Window /\ v \in Window /\ x # v /\ p \in PointsOf[x] \cap PointsOf[v]
            BY <3>2, <5>1
          <6> QED BY <6>1 DEF Shared
        <5>2. \A h \in Worker \ {w}, p \in Point :
                Busy(h, p)' => Shared(p) \/ \A x \in windows' : p \notin PointsOf[x]
          BY <3>2, <4>2 DEF TakenInv
        <5> QED BY <4>2, <5>1, <5>2 DEF TakenInv, Shared
      <4> QED BY <4>3, <4>4
    <3> QED BY <3>1, <3>3, <3>4
  <2>4. CASE ~(FetchMetadata(main) \/ FetchMetadata(meta) \/ FetchConditions
               \/ \E w \in Worker : TakeWindow(w))
    <3>1. \A w \in Worker, p \in Point : Busy(w, p)' => Busy(w, p)
      BY <2>4, BusyShrinks
    <3>2. CASE EndOfLoop(main)
      <4>1. \A w \in Worker, p \in Point : ~Busy(w, p)
        BY <3>2 DEF EndOfLoop, TurnInv, Busy
      <4> QED BY <3>1, <4>1 DEF AloneInv, TakenInv
    <3>3. CASE ~EndOfLoop(main)
      <4>1. ASSUME NEW g \in Goroutine,
                   \/ PassOver(g) \/ Delivered(g) \/ DeliveryFails(g) \/ GivesUp(g)
                   \/ Produce(g) \/ ProduceFails(g)
                   \/ \E where \in {"wait", "produce"} : Check(g, where)
            PROVE  UNCHANGED windows
        BY <4>1 DEF PassOver, Delivered, DeliveryFails, GivesUp, Produce, ProduceFails, Check,
           windowVars
      <4>2. ASSUME NEW g \in Goroutine, EndOfLoop(g) PROVE UNCHANGED windows
        BY <3>3, <4>2 DEF EndOfLoop
      <4>3. ASSUME NEW w \in Worker, WorkerReturns(w) PROVE windows' \subseteq windows
        BY <4>3 DEF WorkerReturns, Received
      <4>4. ASSUME Close \/ Crash PROVE windows' \subseteq windows
        BY <4>4 DEF Close, Crash, Die
      <4>5. ASSUME \/ StartWorkers \/ MetaReturns \/ Signal \/ Idle \/ UNCHANGED vars
                   \/ (\E t \in Topic : Read(t)) \/ (\E q \in Point : Deliver(q) \/ Drop(q))
                   \/ Start \/ ScanEnds \/ ScanFails \/ CollectResults \/ Flush \/ LoopReturns
            PROVE  UNCHANGED windows
        BY <4>5 DEF StartWorkers, MetaReturns, Signal, Idle, vars, Read, Deliver, Drop,
           Start, ScanEnds, ScanFails, ScanReturns, CollectResults, Flush, LoopReturns, windowVars
      <4>6. windows' \subseteq windows
        BY <2>4, <4>1, <4>2, <4>3, <4>4, <4>5 DEF Next, Main, Work, Publishing
      <4> QED BY <2>1, <3>1, <4>6
    <3> QED BY <3>2, <3>3
  <2> QED BY <2>2, <2>3, <2>4
<1> QED BY <1>1, <1>2, TypeCorrect, TurnsTaken, PTL DEF Spec

(* What a goroutine is publishing, nobody has put into the set of keys since it was *)
(* looked up, unless it is another window's too.                                    *)
HandInv ==
  \A g \in Goroutine, p \in Point : Holds(g, p) => Shared(p) \/ p \notin keys

LEMMA KeysFrom ==
  ASSUME TypeInv, [Next]_vars, NEW p \in keys' \ keys
  PROVE  (\E t \in Topic : Read(t)) \/ \E g \in Goroutine : Holds(g, p) /\ Back(g)
<1> USE Names
<1>1. ASSUME NEW g \in Goroutine, Delivered(g) \/ Produce(g)
      PROVE  Holds(g, p) /\ Back(g)
  BY <1>1 DEF Delivered, Produce, Holds
<1>2. ASSUME NEW g \in Goroutine,
             \/ FetchMetadata(g) \/ PassOver(g) \/ DeliveryFails(g) \/ GivesUp(g)
             \/ ProduceFails(g) \/ EndOfLoop(g)
             \/ \E where \in {"wait", "produce"} : Check(g, where)
      PROVE  UNCHANGED keys
  BY <1>2 DEF FetchMetadata, PassOver, DeliveryFails, GivesUp, ProduceFails, EndOfLoop, Check
<1>3. ASSUME NEW w \in Worker, TakeWindow(w) \/ WorkerReturns(w) PROVE UNCHANGED keys
  BY <1>3 DEF TakeWindow, WorkerReturns
<1>4. CASE \/ Start \/ ScanEnds \/ ScanFails \/ FetchConditions \/ StartWorkers
           \/ CollectResults \/ Flush \/ MetaReturns \/ LoopReturns \/ Close \/ Crash
           \/ Signal \/ Idle \/ (\E q \in Point : Deliver(q) \/ Drop(q)) \/ UNCHANGED vars
  BY <1>4 DEF Start, ScanEnds, ScanFails, ScanReturns, FetchConditions, StartWorkers,
     CollectResults, Flush, MetaReturns, LoopReturns, Close, Crash, Die, Signal, Idle,
     Deliver, Drop, vars
<1> QED BY <1>1, <1>2, <1>3, <1>4 DEF Next, Main, Work, Publishing

LEMMA HandsNew == Spec => []HandInv
<1> USE Names
<1>1. Init => HandInv
  BY EmptyTypes DEF Init, HandInv, Holds
<1>2. TypeInv /\ TurnInv /\ KindInv /\ AloneInv /\ HandInv /\ [Next]_vars => HandInv'
  <2> SUFFICES ASSUME TypeInv, TurnInv, KindInv, AloneInv, HandInv, [Next]_vars,
                      NEW g \in Goroutine, NEW p \in Point, Holds(g, p)', p \in keys'
               PROVE  Shared(p)
    BY DEF HandInv, Shared
  <2>0. TypeOK
    BY DEF TypeInv
  <2>1. Busy(g, p) /\ (Holds(g, p) \/ p \notin keys)
    <3>1. CASE \/ FetchMetadata(main) \/ FetchMetadata(meta) \/ FetchConditions
               \/ \E w \in Worker : TakeWindow(w)
      <4>1. UNCHANGED <<point, keys>>
        BY <3>1 DEF FetchMetadata, FetchConditions, TakeWindow
      <4>2. UNCHANGED <<pc, todo>> \/ \E h \in Goroutine, S \in SUBSET Point : Loop(h, S)
        BY <2>0, <3>1 DEF FetchMetadata, FetchConditions, TakeWindow, MetaPoint, DataPoint, TypeOK
      <4>3. Holds(g, p)
        <5>1. CASE UNCHANGED <<pc, todo>>
          BY <4>1, <5>1 DEF Holds
        <5>2. CASE \E h \in Goroutine, S \in SUBSET Point : Loop(h, S)
          <6>1. Busy(g, p)'
            BY DEF Busy, Holds
          <6> QED BY <2>0, <4>1, <5>2, <6>1, LoopBusy
        <5> QED BY <4>2, <5>1, <5>2
      <4> QED BY <4>3 DEF Busy, Holds
    <3>2. CASE ~(\/ FetchMetadata(main) \/ FetchMetadata(meta) \/ FetchConditions
                 \/ \E w \in Worker : TakeWindow(w))
      <4>1. Busy(g, p)'
        BY DEF Busy, Holds
      <4> QED BY <3>2, <4>1, BusyShrinks
    <3> QED BY <3>1, <3>2
  <2>2. CASE p \in keys
    BY <2>1, <2>2 DEF HandInv
  <2>3. CASE p \notin keys
    <3>1. (\E t \in Topic : Read(t)) \/ \E h \in Goroutine : Holds(h, p) /\ Back(h)
      BY <2>3, KeysFrom
    <3>2. CASE \E t \in Topic : Read(t)
      <4>1. Early
        BY <3>2 DEF Read, Scanning, Early
      <4> QED BY <2>1, <4>1 DEF TurnInv, Early, Busy, Goroutine, Poller
    <3>3. ASSUME NEW h \in Goroutine, Holds(h, p), Back(h) PROVE Shared(p)
      <4>1. h # g
        BY <2>0, <3>3 DEF Back, Holds, TypeOK
      <4>2. Busy(h, p)
        BY <3>3 DEF Busy, Holds
      <4> QED BY <2>1, <4>1, <4>2, OnlyWorkersMeet
    <3> QED BY <3>1, <3>2, <3>3
  <2> QED BY <2>2, <2>3
<1> QED BY <1>1, <1>2, TypeCorrect, TurnsTaken, KindsKept, WindowsApart, PTL DEF Spec

----------------------------------------------------------------------------
(* Messages come to the topics and to the queue only by the publishing goroutines  *)
(* and the producer; the queue goes with the process.                              *)
LEMMA MessageStep ==
  ASSUME [Next]_vars
  PROVE  \/ UNCHANGED kafkaVars
         \/ Close \/ Crash
         \/ \E g \in Goroutine : Delivered(g) \/ GivesUp(g)
         \/ \E w \in Worker : Produce(w)
         \/ \E p \in Point : Deliver(p) \/ Drop(p)
<1> USE Names
<1>1. ASSUME NEW g \in Goroutine,
             \/ FetchMetadata(g) \/ PassOver(g) \/ DeliveryFails(g) \/ ProduceFails(g)
             \/ EndOfLoop(g) \/ \E where \in {"wait", "produce"} : Check(g, where)
      PROVE  UNCHANGED kafkaVars
  BY <1>1 DEF FetchMetadata, PassOver, DeliveryFails, ProduceFails, EndOfLoop, Check
<1>2. ASSUME NEW w \in Worker, TakeWindow(w) \/ WorkerReturns(w) PROVE UNCHANGED kafkaVars
  BY <1>2 DEF TakeWindow, WorkerReturns
<1>3. CASE \/ Start \/ ScanEnds \/ ScanFails \/ FetchConditions \/ StartWorkers
           \/ CollectResults \/ Flush \/ MetaReturns \/ LoopReturns \/ Signal \/ Idle
           \/ (\E t \in Topic : Read(t)) \/ UNCHANGED vars
  <2>1. UNCHANGED kafkaVars
    BY <1>3 DEF Start, ScanEnds, ScanFails, ScanReturns, FetchConditions, StartWorkers,
       CollectResults, Flush, MetaReturns, LoopReturns, Signal, Idle, Read, vars
  <2> QED BY <2>1
<1> QED BY <1>1, <1>2, <1>3 DEF Next, Main, Work, Publishing

(* While the process is down or scans, no goroutine publishes ... *)
LEMMA EarlyIsQuiet ==
  ASSUME TypeInv, TurnInv, Early, NEW g \in Goroutine
  PROVE  pc[g] \in {"idle", "gone"} /\ (g # main => pc[g] = "gone")
BY Names DEF TurnInv, Early, Goroutine, Poller

(* ... and what it does is one of these steps. *)
LEMMA EarlyStep ==
  ASSUME TypeInv, TurnInv, Early, [Next]_vars
  PROVE  \/ Start \/ (\E t \in Topic : Read(t)) \/ ScanEnds \/ ScanFails
         \/ Close \/ Crash \/ (\E p \in Point : Deliver(p) \/ Drop(p))
         \/ UNCHANGED <<kafkaVars, phase, scanVars, keys, history>>
<1> USE Names
<1>1. ASSUME NEW g \in Goroutine
      PROVE  ~(\/ PassOver(g) \/ Delivered(g) \/ DeliveryFails(g) \/ GivesUp(g)
               \/ Produce(g) \/ ProduceFails(g) \/ EndOfLoop(g)
               \/ \E where \in {"wait", "produce"} : Check(g, where))
  BY EarlyIsQuiet DEF PassOver, Delivered, DeliveryFails, GivesUp, Produce, ProduceFails,
     EndOfLoop, Check, ToPublish
<1>2. ASSUME NEW w \in Worker PROVE ~(TakeWindow(w) \/ WorkerReturns(w))
  BY EarlyIsQuiet DEF TakeWindow, WorkerReturns
<1>3. ~(FetchMetadata(main) \/ FetchMetadata(meta) \/ FetchConditions \/ StartWorkers
        \/ CollectResults \/ Flush \/ LoopReturns \/ MetaReturns)
  BY EarlyIsQuiet DEF Early, FetchMetadata, FetchConditions, StartWorkers, CollectResults,
     Flush, LoopReturns, MetaReturns
<1>4. ASSUME Signal \/ Idle \/ UNCHANGED vars
      PROVE  UNCHANGED <<kafkaVars, phase, scanVars, keys, history>>
  BY <1>4 DEF Signal, Idle, vars, startVars, scanVars
<1> QED BY <1>1, <1>2, <1>3, <1>4 DEF Next, Main, Work, Publishing

(* Once the scan is over, the process goes back to it only by way of its end.  What *)
(* the process knows, and what is held against it, only grows until then.           *)
LEMMA LaterStep ==
  ASSUME ~Early, [Next]_vars
  PROVE  phase' = "down" \/ ~Early'
<1> USE DEF Early, startVars
<1>1. ASSUME NEW g \in Goroutine,
             \/ FetchMetadata(g) \/ PassOver(g) \/ Delivered(g) \/ DeliveryFails(g)
             \/ GivesUp(g) \/ Produce(g) \/ ProduceFails(g)
             \/ \E where \in {"wait", "produce"} : Check(g, where)
      PROVE  UNCHANGED phase
  BY <1>1 DEF FetchMetadata, PassOver, Delivered, DeliveryFails, GivesUp, Produce, ProduceFails,
     Check
<1>2. ASSUME NEW g \in Goroutine, EndOfLoop(g) PROVE ~Early'
  BY <1>2 DEF EndOfLoop
<1>3. ASSUME NEW w \in Worker, TakeWindow(w) \/ WorkerReturns(w) PROVE UNCHANGED phase
  BY <1>3 DEF TakeWindow, WorkerReturns
<1>4. CASE \/ FetchConditions \/ StartWorkers \/ MetaReturns \/ Signal \/ Idle \/ UNCHANGED vars
           \/ (\E t \in Topic : Read(t)) \/ (\E p \in Point : Deliver(p) \/ Drop(p))
  BY <1>4 DEF FetchConditions, StartWorkers, MetaReturns, Signal, Idle, vars, Read, Deliver, Drop
<1>5. CASE \/ Start \/ ScanEnds \/ ScanFails \/ CollectResults \/ Flush \/ LoopReturns
           \/ Close \/ Crash
  BY <1>5 DEF Start, ScanEnds, ScanFails, Scanning, CollectResults, Flush, LoopReturns,
     Close, Crash, Die
<1> QED BY <1>1, <1>2, <1>3, <1>4, <1>5, Names DEF Next, Main, Work, Publishing

LEMMA HistoryGrows ==
  ASSUME [Next]_vars
  PROVE  /\ missed \subseteq missed' /\ unsure \subseteq unsure'
         /\ phase' # "down" => keys \subseteq keys'
<1> USE Names DEF history
<1>1. ASSUME NEW g \in Goroutine,
             \/ FetchMetadata(g) \/ PassOver(g) \/ Delivered(g) \/ DeliveryFails(g)
             \/ GivesUp(g) \/ Produce(g) \/ ProduceFails(g) \/ EndOfLoop(g)
             \/ \E where \in {"wait", "produce"} : Check(g, where)
      PROVE  missed \subseteq missed' /\ unsure \subseteq unsure' /\ keys \subseteq keys'
  BY <1>1 DEF FetchMetadata, PassOver, Delivered, DeliveryFails, GivesUp, Produce, ProduceFails,
     EndOfLoop, Check
<1>2. ASSUME NEW w \in Worker, TakeWindow(w) \/ WorkerReturns(w) PROVE UNCHANGED <<history, keys>>
  BY <1>2 DEF TakeWindow, WorkerReturns
<1>3. ASSUME \/ Start \/ ScanEnds \/ ScanFails \/ FetchConditions \/ StartWorkers
             \/ CollectResults \/ Flush \/ MetaReturns \/ LoopReturns \/ Signal \/ Idle
             \/ (\E p \in Point : Deliver(p) \/ Drop(p)) \/ UNCHANGED vars
      PROVE  missed \subseteq missed' /\ unsure \subseteq unsure' /\ keys \subseteq keys'
  BY <1>3 DEF Start, ScanEnds, ScanFails, ScanReturns, FetchConditions, StartWorkers,
     CollectResults, Flush, MetaReturns, LoopReturns, Signal, Idle, Deliver, Drop, vars
<1>4. ASSUME NEW t \in Topic, Read(t)
      PROVE  UNCHANGED history /\ keys \subseteq keys'
  BY <1>4 DEF Read
<1>5. ASSUME Close \/ Crash PROVE UNCHANGED history /\ phase' = "down"
  BY <1>5 DEF Close, Crash, Die
<1> QED BY <1>1, <1>2, <1>3, <1>4, <1>5 DEF Next, Main, Work, Publishing

(* Nothing is on its way when the process starts and while it scans. *)
QuietInv == Early => queued = NoMessages

LEMMA ScansAreQuiet == Spec => []QuietInv
<1>1. Init => QuietInv
  BY DEF Init, QuietInv
<1>2. TypeInv /\ TurnInv /\ QuietInv /\ [Next]_vars => QuietInv'
  <2> SUFFICES ASSUME TypeInv, TurnInv, QuietInv, [Next]_vars, Early' PROVE queued' = NoMessages
    BY DEF QuietInv, NoMessages
  <2>1. CASE Early
    <3>1. queued = NoMessages /\ \A p \in Point : ~(queued[p] > 0)
      BY <2>1 DEF QuietInv, NoMessages
    <3>2. ~\E p \in Point : Deliver(p) \/ Drop(p)
      BY <3>1 DEF Deliver, Drop
    <3>3. \A g \in Goroutine : ~(Delivered(g) \/ GivesUp(g) \/ Produce(g))
      BY <2>1, EarlyIsQuiet DEF Delivered, GivesUp, Produce
    <3>4. UNCHANGED kafkaVars \/ Close \/ Crash
      BY <3>2, <3>3, MessageStep, Names
    <3> QED BY <3>1, <3>4 DEF kafkaVars, Close, Crash, Die
  <2>2. CASE ~Early
    <3>1. phase' = "down" /\ phase # "down"
      BY <2>2, LaterStep DEF Early
    <3>2. Close \/ Crash
      <4>1. ~(Close \/ Crash) => phase' # "down"
        BY <3>1, EndsDown
      <4> QED BY <3>1, <4>1
    <3> QED BY <3>2 DEF Close, Crash, Die
  <2> QED BY <2>1, <2>2
<1> QED BY <1>1, <1>2, TypeCorrect, TurnsTaken, PTL DEF Spec

(* What a scan has read of a topic, it knows; and unless a call of it has failed, it *)
(* has queried every topic there is something to read of.                            *)
ScanInv == Scanning =>
  /\ \A t \in ScanTopics : /\ seen[t] <= Len(log[t])
                           /\ \A i \in 1 .. seen[t] : log[t][i] \in keys
  /\ \A t \in Topic \ ScanTopics : seen[t] = 0
  /\ ~spoiled => queried = {t \in ScanTopics : log[t] # <<>>}

(* A scan begins with no message read. *)
LEMMA ScanBegins ==
  ASSUME TypeOK, NEW T \in SUBSET Topic, log' = log, seen' = [t \in Topic |-> 0],
         ScanTopics' = T, ~spoiled' => queried' = {t \in T : log[t] # <<>>}
  PROVE  ScanInv'
<1>1. \A t \in Topic : seen'[t] = 0 /\ Len(log'[t]) \in Nat /\ 1 .. seen'[t] = {}
  BY DEF TypeOK
<1> QED BY <1>1 DEF ScanInv

LEMMA ScansRead == Spec => []ScanInv
<1>1. Init => ScanInv
  BY DEF Init, ScanInv, Scanning
<1>2. TypeInv /\ TurnInv /\ QuietInv /\ ScanInv /\ [Next]_vars => ScanInv'
  <2> SUFFICES ASSUME TypeInv, TurnInv, QuietInv, ScanInv, [Next]_vars, Scanning' PROVE ScanInv'
    BY DEF ScanInv
  <2>0. TypeOK /\ phase' # "down" /\ Early'
    BY DEF TypeInv, Scanning, Early
  <2>1. Early
    BY <2>0, LaterStep
  <2>2. CASE Start
    <3>1. log' = log /\ Query(RecordTopic) /\ ScanTopics' = RecordTopic
      BY <2>2 DEF Start, kafkaVars, ScanTopics
    <3>2. seen' = [t \in Topic |-> 0] /\ (~spoiled' => queried' = {t \in RecordTopic : log[t] # <<>>})
      BY <3>1 DEF Query
    <3> QED BY <2>0, <3>1, <3>2, ScanBegins
  <2>3. CASE ScanEnds \/ ScanFails
    <3>1. phase = "scanRecords" /\ phase' = "scanMetadata" /\ log' = log
      BY <2>3 DEF ScanEnds, ScanFails, NextPhase, ScanReturns, Scanning, kafkaVars
    <3>2. ScanTopics' = MetaTopic
      BY <3>1 DEF ScanTopics
    <3>3. seen' = [t \in Topic |-> 0] /\ (~spoiled' => queried' = {t \in MetaTopic : log[t] # <<>>})
      BY <2>3, <3>1 DEF ScanEnds, ScanFails, NextPhase, Query
    <3> QED BY <2>0, <3>1, <3>2, <3>3, ScanBegins
  <2>4. ASSUME NEW u \in Topic, Read(u) PROVE ScanInv'
    <3>1. /\ Scanning /\ u \in ScanTopics /\ seen[u] < Len(log[u])
          /\ seen' = [seen EXCEPT ![u] = @ + 1]
          /\ keys' = keys \cup {log[u][seen[u] + 1]}
          /\ UNCHANGED <<log, phase, queried, spoiled>>
      BY <2>4 DEF Read, kafkaVars
    <3>2. seen \in [Topic -> Nat] /\ Len(log[u]) \in Nat
      BY <2>0 DEF TypeOK
    <3>3. ScanTopics' = ScanTopics /\ ScanTopics \subseteq Topic
      BY <3>1 DEF ScanTopics
    <3>4. ASSUME NEW t \in ScanTopics
          PROVE  seen'[t] <= Len(log[t]) /\ \A i \in 1 .. seen'[t] : log[t][i] \in keys'
      <4>1. CASE t = u
        <5>1. seen'[u] = seen[u] + 1 /\ seen[u] + 1 <= Len(log[u])
          BY <3>1, <3>2
        <5>2. ASSUME NEW i \in 1 .. seen[u] + 1 PROVE log[u][i] \in keys'
          <6>1. i = seen[u] + 1 \/ i \in 1 .. seen[u]
            BY <3>2
          <6> QED BY <3>1, <6>1 DEF ScanInv
        <5> QED BY <4>1, <5>1, <5>2
      <4>2. CASE t # u
        BY <3>1, <3>2, <3>3, <4>2 DEF ScanInv
      <4> QED BY <4>1, <4>2
    <3>5. \A t \in Topic \ ScanTopics : seen'[t] = 0
      BY <3>1, <3>2 DEF ScanInv
    <3>6. ~spoiled' => queried' = {t \in ScanTopics : log[t] # <<>>}
      BY <3>1 DEF ScanInv
    <3> QED BY <3>1, <3>3, <3>4, <3>5, <3>6 DEF ScanInv
  <2>5. ~(Close \/ Crash \/ \E p \in Point : Deliver(p) \/ Drop(p))
    <3>1. \A p \in Point : ~(queued[p] > 0)
      BY <2>1 DEF QuietInv, NoMessages
    <3> QED BY <2>0, <3>1 DEF Close, Crash, Die, Deliver, Drop
  <2>6. CASE UNCHANGED <<kafkaVars, phase, scanVars, keys, history>>
    <3>1. UNCHANGED <<log, phase, queried, seen, spoiled, keys>>
      BY <2>6 DEF kafkaVars, scanVars
    <3> QED BY <3>1 DEF ScanInv, Scanning, ScanTopics
  <2> QED BY <2>1, <2>2, <2>3, <2>4, <2>5, <2>6, EarlyStep
<1> QED BY <1>1, <1>2, TypeCorrect, TurnsTaken, ScansAreQuiet, PTL DEF Spec

(* So a scan that ends, and has not failed, knows every point of its topics. *)
LEMMA ScanDone ==
  ASSUME TypeInv, LogInv, ScanInv, ScanEnds, ~spoiled, NEW p \in Point,
         TopicOf[p] \in ScanTopics, InLog(p)
  PROVE  p \in keys
<1> DEFINE t == TopicOf[p]
<1>1. Scanning /\ (Enough \/ \A u \in queried : seen[u] = Len(log[u]))
  BY DEF ScanEnds
<1>2. PICK i \in DOMAIN log[t] : log[t][i] = p
  BY DEF InLog
<1>3. t \in Topic /\ log[t] \in Seq(Point) /\ DOMAIN log[t] = 1 .. Len(log[t])
  BY DEF TypeInv, TypeOK
<1>4. t \in queried
  BY <1>1, <1>2, <1>3 DEF ScanInv
<1>5. seen[t] = Len(log[t])
  <2>1. CASE Enough
    <3>1. queried \in SUBSET Topic /\ queried \subseteq ScanTopics
      BY <1>1 DEF ScanInv, TypeInv, TypeOK
    <3>2. \A u \in queried : seen[u] <= Len(log[u])
      BY <1>1, <3>1 DEF ScanInv
    <3>3. ASSUME NEW u \in Topic \ queried PROVE seen[u] = 0
      <4>1. CASE u \in ScanTopics
        <5>1. log[u] = <<>> /\ seen[u] <= Len(log[u]) /\ seen[u] \in Nat
          BY <1>1, <3>3, <4>1 DEF ScanInv, TypeInv, TypeOK
        <5> QED BY <5>1
      <4>2. CASE u \notin ScanTopics
        BY <1>1, <4>2 DEF ScanInv
      <4> QED BY <4>1, <4>2
    <3> QED BY <1>4, <2>1, <3>1, <3>2, <3>3, EnoughIsAll DEF TypeInv
  <2> QED BY <1>1, <1>4, <2>1
<1>6. i \in 1 .. seen[t]
  BY <1>2, <1>3, <1>5
<1> QED BY <1>1, <1>2, <1>6 DEF ScanInv

(* The topics whose scan is over: what is in them, or on its way to them, the process *)
(* knows, except what a scan missed or a Publish was unsure of.                       *)
Scanned == CASE phase \in {"down", "scanRecords"} -> {}
             [] phase = "scanMetadata" -> RecordTopic
             [] OTHER -> RecordTopic \cup MetaTopic

KnownInv ==
  \A p \in Point :
    TopicOf[p] \in Scanned /\ p \notin missed \cup unsure /\ (InLog(p) \/ queued[p] > 0) => p \in keys

(* At its end, a scan has put the points of its topics into the set, or counts them as *)
(* missed.                                                                             *)
LEMMA ScanLeaves ==
  ASSUME TypeInv, LogInv, ScanInv, QuietInv, KnownInv, ScanEnds \/ ScanFails
  PROVE  KnownInv'
<1>1. /\ Scanning /\ UNCHANGED <<log, queued, keys, unsure>>
      /\ phase = "scanRecords" => phase' = "scanMetadata"
      /\ phase = "scanMetadata" => phase' = "metadata"
  BY DEF ScanEnds, ScanFails, ScanReturns, NextPhase, kafkaVars, Scanning
<1>2. missed \subseteq missed'
  BY DEF ScanEnds, ScanFails, ScanReturns
<1>3. \A p \in Point : ~(queued[p] > 0)
  BY <1>1 DEF QuietInv, Early, Scanning, NoMessages
<1>4. ASSUME NEW p \in Point, TopicOf[p] \in ScanTopics, p \notin missed', InLog(p)
      PROVE  p \in keys
  <2>1. CASE ScanEnds /\ ~spoiled
    BY <1>4, <2>1, ScanDone
  <2>2. CASE ScanFails \/ spoiled
    BY <1>4, <2>2 DEF ScanEnds, ScanFails, ScanReturns
  <2> QED BY <2>1, <2>2
<1>5. Scanned' = Scanned \cup ScanTopics
  BY <1>1 DEF Scanned, ScanTopics, Scanning
<1> SUFFICES ASSUME NEW p \in Point, TopicOf[p] \in Scanned', p \notin missed' \cup unsure',
                    InLog(p)' \/ queued'[p] > 0
             PROVE  p \in keys'
  BY DEF KnownInv
<1>6. InLog(p)
  BY <1>1, <1>3 DEF InLog
<1>7. CASE TopicOf[p] \in ScanTopics
  BY <1>1, <1>4, <1>6, <1>7
<1>8. CASE TopicOf[p] \in Scanned
  BY <1>1, <1>2, <1>6, <1>8 DEF KnownInv
<1> QED BY <1>5, <1>7, <1>8

(* A message that is new to the topic and the queue is one of a point the process *)
(* has put into its set, or was unsure of.                                        *)
LEMMA MessageKnown ==
  ASSUME TypeInv, [Next]_vars, phase' # "down", NEW p \in Point,
         InLog(p)' \/ queued'[p] > 0
  PROVE  InLog(p) \/ queued[p] > 0 \/ p \in keys' \/ p \in unsure'
<1> USE Names DEF kafkaVars
<1>0. TypeOK /\ queued \in [Point -> Nat]
  BY DEF TypeInv, TypeOK
<1>1. CASE UNCHANGED kafkaVars
  BY <1>1 DEF InLog
<1>2. ASSUME NEW g \in Goroutine, Delivered(g)
      PROVE  InLog(p) \/ queued[p] > 0 \/ p \in keys'
  <2>1. point[g] \in Point /\ Append1(point[g]) /\ point[g] \in keys' /\ queued' = queued
    BY <1>2 DEF Delivered, TypeInv, InHand
  <2>2. p # point[g] => (InLog(p)' => InLog(p))
    BY <1>0, <2>1, AppendCounts
  <2> QED BY <2>1, <2>2
<1>3. ASSUME NEW g \in Goroutine, GivesUp(g) \/ Produce(g)
      PROVE  InLog(p) \/ queued[p] > 0 \/ p \in keys' \/ p \in unsure'
  <2>1. /\ point[g] \in Point /\ log' = log
        /\ queued' = [queued EXCEPT ![point[g]] = @ + 1]
        /\ point[g] \in keys' \cup unsure'
    BY <1>3 DEF GivesUp, Produce, TypeInv, InHand
  <2>2. InLog(p)' => InLog(p)
    BY <2>1 DEF InLog
  <2>3. p # point[g] => queued'[p] = queued[p]
    BY <1>0, <2>1
  <2> QED BY <2>1, <2>2, <2>3
<1>4. ASSUME NEW q \in Point, Deliver(q) PROVE InLog(p) \/ queued[p] > 0
  <2>1. queued[q] > 0 /\ Append1(q) /\ queued' = [queued EXCEPT ![q] = @ - 1]
    BY <1>4 DEF Deliver
  <2>2. p # q => queued'[p] = queued[p] /\ (InLog(p)' => InLog(p))
    BY <1>0, <2>1, AppendCounts
  <2> QED BY <2>1, <2>2
<1>5. ASSUME NEW q \in Point, Drop(q) PROVE InLog(p) \/ queued[p] > 0
  <2>1. queued[q] > 0 /\ log' = log /\ queued' = [queued EXCEPT ![q] = @ - 1]
    BY <1>5 DEF Drop
  <2>2. InLog(p)' => InLog(p)
    BY <2>1 DEF InLog
  <2>3. p # q => queued'[p] = queued[p]
    BY <1>0, <2>1
  <2> QED BY <2>1, <2>2, <2>3
<1>6. ~(Close \/ Crash)
  BY DEF Close, Crash, Die
<1> QED BY <1>1, <1>2, <1>3, <1>4, <1>5, <1>6, MessageStep

LEMMA ScannedKnown == Spec => []KnownInv
<1>1. Init => KnownInv
  BY DEF Init, KnownInv, Scanned
<1>2. TypeInv /\ LogInv /\ TurnInv /\ QuietInv /\ ScanInv /\ KnownInv /\ [Next]_vars => KnownInv'
  <2> SUFFICES ASSUME TypeInv, LogInv, TurnInv, QuietInv, ScanInv, KnownInv, [Next]_vars
               PROVE  KnownInv'
    OBVIOUS
  <2>1. CASE phase' \in {"down", "scanRecords"}
    BY <2>1 DEF KnownInv, Scanned
  <2>2. CASE ScanEnds \/ ScanFails
    BY <2>2, ScanLeaves
  <2>3. CASE phase' \notin {"down", "scanRecords"} /\ ~(ScanEnds \/ ScanFails)
    <3>1. Scanned' = Scanned
      <4>1. CASE Early
        <5>1. phase' = phase
          <6>1. ASSUME \/ \E t \in Topic : Read(t)
                       \/ \E p \in Point : Deliver(p) \/ Drop(p)
                PROVE  phase' = phase
            BY <6>1 DEF Read, Deliver, Drop, startVars
          <6>2. ~(Start \/ Close \/ Crash)
            BY <2>3 DEF Start, Close, Crash, Die
          <6> QED BY <2>3, <4>1, <6>1, <6>2, EarlyStep
        <5> QED BY <5>1 DEF Scanned
      <4>2. CASE ~Early
        <5>1. ~Early'
          BY <2>3, <4>2, LaterStep
        <5> QED BY <4>2, <5>1 DEF Early, Scanned
      <4> QED BY <4>1, <4>2
    <3> SUFFICES ASSUME NEW p \in Point, TopicOf[p] \in Scanned', p \notin missed' \cup unsure',
                        InLog(p)' \/ queued'[p] > 0
                 PROVE  p \in keys'
      BY DEF KnownInv
    <3>2. missed \subseteq missed' /\ unsure \subseteq unsure' /\ keys \subseteq keys'
      BY <2>3, HistoryGrows
    <3>3. InLog(p) \/ queued[p] > 0 \/ p \in keys'
      BY <2>3, MessageKnown
    <3> QED BY <3>1, <3>2, <3>3 DEF KnownInv
  <2> QED BY <2>1, <2>2, <2>3
<1> QED BY <1>1, <1>2, TypeCorrect, LogsApart, TurnsTaken, ScansAreQuiet, ScansRead, PTL DEF Spec

(* A goroutine that has a point in hand publishes the first message of it. *)
LEMMA FirstMessage ==
  ASSUME TypeInv, TurnInv, KnownInv, HandInv, NEW g \in Goroutine, NEW p \in Point, Holds(g, p),
         TopicOf[p] \in RecordTopic \cup MetaTopic, p \notin missed \cup unsure, ~Shared(p)
  PROVE  Copies(p) = 0 /\ queued[p] = 0
<1>1. ~Early
  BY EarlyIsQuiet DEF Holds
<1>2. TopicOf[p] \in Scanned
  BY <1>1 DEF Early, Scanned
<1>3. ~InLog(p) /\ ~(queued[p] > 0)
  BY <1>2 DEF HandInv, KnownInv
<1>4. queued[p] \in Nat
  BY DEF TypeInv, TypeOK
<1> QED BY <1>3, <1>4, CopiesCounted DEF TypeInv

(* No point is published twice but for these reasons, whatever poller, workers,   *)
(* metadata loop, producer and scan do, and however often the process dies: the   *)
(* topic is not scanned, a spoiled scan missed the point, a Publish gave up on a  *)
(* message on its way, or two windows share the point.                            *)
THEOREM DuplicatesAlwaysExplained == Spec => []DuplicatesExplained
<1> USE Names
<1>1. Init => DuplicatesExplained
  <2> SUFFICES ASSUME Init, NEW p \in Point PROVE Copies(p) + queued[p] = 0
    BY DEF DuplicatesExplained
  <2>1. log[TopicOf[p]] = <<>> /\ queued[p] = 0
    BY DEF Init, NoMessages
  <2>2. {i \in DOMAIN log[TopicOf[p]] : log[TopicOf[p]][i] = p} = {}
    BY <2>1
  <2> QED BY <2>1, <2>2, FS_EmptySet DEF Copies
<1>2. /\ TypeInv /\ TurnInv /\ KnownInv /\ HandInv /\ DuplicatesExplained /\ [Next]_vars
      => DuplicatesExplained'
  <2> SUFFICES ASSUME TypeInv, TurnInv, KnownInv, HandInv, DuplicatesExplained, [Next]_vars,
                      NEW p \in Point, TopicOf[p] \in RecordTopic \cup MetaTopic,
                      p \notin missed' \cup unsure', ~Shared(p)
               PROVE  ~(Copies(p)' + queued'[p] > 1)
    BY DEF DuplicatesExplained, Shared
  <2>1. p \notin missed \cup unsure
    BY HistoryGrows
  <2>2. ~(Copies(p) + queued[p] > 1)
    BY <2>1 DEF DuplicatesExplained
  <2>3. /\ TypeOK /\ queued \in [Point -> Nat] /\ queued[p] \in Nat /\ Copies(p) \in Nat
        /\ log' = log => Copies(p)' = Copies(p)
    BY CopiesCounted DEF TypeInv, TypeOK, Copies
  <2>4. CASE UNCHANGED kafkaVars
    BY <2>2, <2>3, <2>4 DEF kafkaVars
  <2>5. CASE Close \/ Crash
    <3>1. log' = log /\ queued'[p] = 0
      BY <2>5 DEF Close, Crash, Die, NoMessages
    <3> QED BY <2>2, <2>3, <3>1
  <2>6. ASSUME NEW g \in Goroutine, Delivered(g) PROVE ~(Copies(p)' + queued'[p] > 1)
    <3>1. /\ point[g] \in Point /\ Append1(point[g]) /\ queued' = queued
          /\ Holds(g, point[g])
      BY <2>6 DEF Delivered, TypeInv, InHand, Holds
    <3>2. CASE p = point[g]
      <4>1. Copies(p) = 0 /\ queued[p] = 0
        BY <2>1, <3>1, <3>2, FirstMessage
      <4>2. Copies(p)' = Copies(p) + 1
        BY <2>3, <3>1, <3>2, AppendCounts
      <4> QED BY <3>1, <4>1, <4>2
    <3>3. CASE p # point[g]
      <4>1. Copies(p)' = Copies(p)
        BY <2>3, <3>1, <3>3, AppendCounts
      <4> QED BY <2>2, <3>1, <4>1
    <3> QED BY <3>2, <3>3
  <2>7. ASSUME NEW g \in Goroutine, GivesUp(g) \/ Produce(g) PROVE ~(Copies(p)' + queued'[p] > 1)
    <3>1. /\ point[g] \in Point /\ log' = log /\ Holds(g, point[g])
          /\ queued' = [queued EXCEPT ![point[g]] = @ + 1]
      BY <2>7 DEF GivesUp, Produce, TypeInv, InHand, Holds, kafkaVars
    <3>2. CASE p = point[g]
      <4>1. Copies(p) = 0 /\ queued[p] = 0
        BY <2>1, <3>1, <3>2, FirstMessage
      <4>2. queued'[p] = 1
        BY <2>3, <3>1, <3>2, <4>1
      <4> QED BY <2>3, <3>1, <4>1, <4>2
    <3>3. CASE p # point[g]
      <4>1. queued'[p] = queued[p]
        BY <2>3, <3>1, <3>3
      <4> QED BY <2>2, <2>3, <3>1, <4>1
    <3> QED BY <3>2, <3>3
  <2>8. ASSUME NEW q \in Point, Deliver(q) PROVE ~(Copies(p)' + queued'[p] > 1)
    <3>1. queued[q] > 0 /\ Append1(q) /\ queued' = [queued EXCEPT ![q] = @ - 1]
      BY <2>8 DEF Deliver
    <3>2. CASE p = q
      <4>1. Copies(p)' = Copies(p) + 1
        BY <2>3, <3>1, <3>2, AppendCounts
      <4>2. queued'[p] = queued[p] - 1
        BY <2>3, <3>1, <3>2
      <4> QED BY <2>2, <2>3, <4>1, <4>2
    <3>3. CASE p # q
      <4>1. Copies(p)' = Copies(p)
        BY <2>3, <3>1, <3>3, AppendCounts
      <4>2. queued'[p] = queued[p]
        BY <2>3, <3>1, <3>3
      <4> QED BY <2>2, <4>1, <4>2
    <3> QED BY <3>2, <3>3
  <2>9. ASSUME NEW q \in Point, Drop(q) PROVE ~(Copies(p)' + queued'[p] > 1)
    <3>1. log' = log /\ queued[q] > 0 /\ queued' = [queued EXCEPT ![q] = @ - 1]
      BY <2>9 DEF Drop
    <3>2. queued'[p] = queued[p] \/ (p = q /\ queued'[p] = queued[p] - 1)
      BY <2>3, <3>1
    <3> QED BY <2>2, <2>3, <3>1, <3>2
  <2> QED BY <2>4, <2>5, <2>6, <2>7, <2>8, <2>9, MessageStep
<1> QED BY <1>1, <1>2, TypeCorrect, TurnsTaken, ScannedKnown, HandsNew, PTL DEF Spec
=============================================================================
