--------------------------- MODULE DataCollector ---------------------------
(***************************************************************************)
(* The data points of weatherlink-kafka (service/service.go, scanner.go,   *)
(* metadata.go, conditions.go, backfill.go and kafka/producer.go): at the  *)
(* start the topics are scanned for the keys they hold, then metadata and  *)
(* current conditions are fetched, the history is back-filled by worker    *)
(* goroutines, and a loop polls on.  A point is published unless its key   *)
(* is known.  The process may be stopped or die, and start again.          *)
(*                                                                         *)
(* When the back-fill may send its requests is the subject of RateLimiter. *)
(***************************************************************************)
EXTENDS Naturals, Sequences, FiniteSets

CONSTANTS
  Topic,
  RecordTopic,   \* the data topics that are scanned at the start
  MetaTopic,     \* the topics with metadata, which are scanned too
  Point,         \* data points and pieces of metadata, one per key
  TopicOf,       \* where each is published
  Sensor,
  SensorOf,      \* the sensor of a data point, None for metadata
  Window,        \* the 24 hours' windows of the history, in order
  PointsOf,      \* the points of each; a window ends where the next one starts
  Worker,        \* back-fill goroutines
  None,          \* no point, no sensor
  MaxRuns,       \* bound: starts of the process
  MaxFaults      \* bound: failed calls, timeouts and crashes

MetaPoint == {p \in Point : TopicOf[p] \in MetaTopic}
DataPoint == Point \ MetaPoint

ASSUME CollectorAssumption ==
  /\ RecordTopic \cup MetaTopic \subseteq Topic /\ RecordTopic \cap MetaTopic = {}
  /\ IsFiniteSet(Topic) /\ Window \subseteq Nat /\ Window # {}
  /\ TopicOf \in [Point -> Topic]
  /\ SensorOf \in [Point -> Sensor \cup {None}]
  /\ \A p \in DataPoint : SensorOf[p] \in Sensor
  /\ PointsOf \in [Window -> SUBSET DataPoint]
  /\ None \notin Point \cup Sensor
  /\ MaxRuns \in Nat /\ MaxFaults \in Nat

main == "main"
meta == "meta"     \* metadataUpdateLoop
Poller == {main, meta}
Goroutine == Poller \cup Worker

ASSUME GoroutineAssumption == Poller \cap Worker = {}

VARIABLES
  log,        \* the messages of each topic
  queued,     \* messages in the producer's queue that no Publish waits for
  phase,      \* how far Start is, see PhaseValue
  cancelled,  \* SIGTERM has cancelled ctx
  queried,    \* scan: topics whose end offset is known
  seen,       \* scan: messages read from each topic
  spoiled,    \* scan: a call of it has failed
  keys,       \* existingRecordKeys and existingMetadataKeys
  known,      \* sensorMap
  windows,    \* windowChan
  aborted,    \* resultChan has the error of a cancelled ctx
  pc, todo, point,  \* of each goroutine: where it is, the points its loop has
                    \* not come to, the one it is at
  \* history of this run
  unknown,    \* points passed over for want of their sensor's metadata
  failed,     \* messages whose delivery failed after PublishAsync had returned
  refused,    \* messages the producer did not take
  badWindows, \* windows that could not be fetched
  \* history of all runs
  unsure,     \* points whose Publish gave up on a message that was on its way
  missed,     \* points a spoiled scan did not find
  runs, faults

kafkaVars == <<log, queued>>
scanVars == <<queried, seen, spoiled>>
startVars == <<phase, cancelled, queried, seen, spoiled>>
windowVars == <<windows, aborted>>
workVars == <<pc, todo, point>>
runHistory == <<unknown, failed, refused, badWindows>>
history == <<unsure, missed>>
vars == <<kafkaVars, startVars, keys, known, windowVars, workVars, runHistory, history,
          runs, faults>>

PhaseValue == {"down", "scanRecords", "scanMetadata", "metadata", "conditions", "backfill",
               "flush", "loop", "close"}

(* idle     not in a loop over points      next  at the head of that loop
   wait     in Publish                     produce  in PublishAsync
   gone     not started, or returned                                            *)
PcValue == {"idle", "next", "wait", "produce", "gone"}

InLog(p) == \E i \in DOMAIN log[TopicOf[p]] : log[TopicOf[p]][i] = p
Copies(p) == Cardinality({i \in DOMAIN log[TopicOf[p]] : log[TopicOf[p]][i] = p})

Fault == faults < MaxFaults /\ faults' = faults + 1

NoMessages == [p \in Point |-> 0]
NotStarted == [g \in Goroutine |-> "gone"]

Init ==
  /\ log = [t \in Topic |-> <<>>]
  /\ queued = NoMessages
  /\ phase = "down" /\ cancelled = FALSE
  /\ queried = {} /\ seen = [t \in Topic |-> 0] /\ spoiled = FALSE
  /\ keys = {} /\ known = {} /\ windows = {} /\ aborted = FALSE
  /\ pc = NotStarted
  /\ todo = [g \in Goroutine |-> {}]
  /\ point = [g \in Goroutine |-> None]
  /\ unknown = {} /\ failed = {} /\ refused = {} /\ badWindows = {}
  /\ unsure = {} /\ missed = {}
  /\ runs = 0 /\ faults = 0

----------------------------------------------------------------------------
(* scanExistingKeys *)
ScanTopics == IF phase = "scanRecords" THEN RecordTopic ELSE MetaTopic
Scanning == phase \in {"scanRecords", "scanMetadata"}

(* Topics that do not exist yet are left out; so is one whose offsets cannot *)
(* be queried, but it stays subscribed.                                      *)
Query(T) ==
  LET existing == {t \in T : log[t] # <<>>}
  IN /\ seen' = [t \in Topic |-> 0]
     /\ \/ queried' = existing /\ spoiled' = FALSE /\ UNCHANGED faults
        \/ \E t \in existing : queried' = existing \ {t} /\ spoiled' = TRUE /\ Fault

Start ==
  /\ phase = "down" /\ runs < MaxRuns
  /\ runs' = runs + 1
  /\ phase' = "scanRecords"
  /\ Query(RecordTopic)
  /\ pc' = [NotStarted EXCEPT ![main] = "idle"]
  /\ unknown' = {} /\ failed' = {} /\ refused' = {} /\ badWindows' = {}
  /\ UNCHANGED <<kafkaVars, cancelled, keys, known, windowVars, todo, point,
                 history>>

total(T) == Cardinality(UNION {{t} \X DOMAIN log[t] : t \in T})
messagesScanned == Cardinality(UNION {{t} \X (1 .. seen[t]) : t \in Topic})

(* Mutant: one message less is enough. *)
EnoughButOne == messagesScanned + 1 >= total(queried)

Enough == messagesScanned >= total(queried)

Read(t) ==
  /\ Scanning /\ ~Enough /\ ~cancelled
  /\ t \in ScanTopics /\ seen[t] < Len(log[t])
  /\ seen' = [seen EXCEPT ![t] = @ + 1]
  /\ keys' = keys \cup {log[t][seen[t] + 1]}
  /\ UNCHANGED <<kafkaVars, phase, cancelled, queried, spoiled, known,
                 windowVars, workVars, runHistory, history, runs, faults>>

(* The scan is over; whatever its result, Start goes on. *)
ScanReturns(cut) ==
  /\ missed' = IF cut THEN missed \cup {p \in Point \ keys :
                                           TopicOf[p] \in ScanTopics /\ InLog(p)}
                      ELSE missed
  /\ UNCHANGED <<kafkaVars, cancelled, keys, known, windowVars, runHistory,
                 unsure, runs, workVars>>

NextPhase ==
  IF phase = "scanRecords"
    THEN phase' = "scanMetadata" /\ Query(MetaTopic)
    ELSE phase' = "metadata" /\ UNCHANGED <<scanVars, faults>>

(* Enough messages, or a second without one and no partition left to read. *)
ScanEnds ==
  /\ Scanning
  /\ Enough \/ \A t \in queried : seen[t] = Len(log[t])
  /\ ScanReturns(spoiled)
  /\ NextPhase

(* ctx is cancelled, or a read fails. *)
ScanFails ==
  /\ Scanning
  /\ phase' = IF phase = "scanRecords" THEN "scanMetadata" ELSE "metadata"
  /\ \/ cancelled /\ UNCHANGED faults
     \/ Fault
  /\ ScanReturns(TRUE)
  /\ IF phase = "scanRecords"
       THEN /\ queried' = {t \in MetaTopic : log[t] # <<>>}
            /\ seen' = [t \in Topic |-> 0]
            /\ spoiled' = FALSE
       ELSE UNCHANGED scanVars

----------------------------------------------------------------------------
(* The loops over the points of an answer *)
Loop(g, S) ==
  /\ pc' = [pc EXCEPT ![g] = "next"]
  /\ todo' = [todo EXCEPT ![g] = S]

(* fetchAllMetadata: three calls, each of which may fail.  Only the first one *)
(* makes sensors known.                                                       *)
FetchMetadata(g) ==
  /\ pc[g] = "idle"
  /\ g = main => phase = "metadata"
  /\ g = meta => ~cancelled
  /\ \/ known' = Sensor /\ Loop(g, MetaPoint) /\ UNCHANGED faults
     \/ /\ Fault
        /\ known' \in {known, Sensor}
        /\ \E S \in SUBSET MetaPoint : Loop(g, S)
  /\ UNCHANGED <<kafkaVars, startVars, keys, windowVars, point, runHistory,
                 history, runs>>

(* Mutant: a tick is always taken before the cancellation. *)
FetchOnEveryTick ==
  /\ pc[main] = "idle"
  /\ phase \in {"conditions", "loop"}
  /\ \E S \in SUBSET DataPoint : Loop(main, S)
  /\ UNCHANGED <<kafkaVars, startVars, keys, known, windowVars, point,
                 runHistory, history, runs, faults>>

(* fetchAllCurrentConditions: the answer has any of the points. *)
FetchConditions ==
  /\ pc[main] = "idle"
  /\ phase = "conditions" \/ (phase = "loop" /\ ~cancelled)
  /\ \E S \in SUBSET DataPoint : Loop(main, S)
  /\ UNCHANGED <<kafkaVars, startVars, keys, known, windowVars, point,
                 runHistory, history, runs, faults>>

(* A point that is not to be published. *)
PassOver(g) ==
  /\ pc[g] = "next"
  /\ \E p \in todo[g] :
       /\ \/ p \in keys /\ UNCHANGED unknown
          \/ p \in DataPoint /\ SensorOf[p] \notin known /\ unknown' = unknown \cup {p}
       /\ todo' = [todo EXCEPT ![g] = @ \ {p}]
  /\ UNCHANGED <<kafkaVars, startVars, keys, known, windowVars, pc, point,
                 failed, refused, badWindows, history, runs, faults>>

ToPublish(g, p) ==
  /\ pc[g] = "next" /\ p \in todo[g]
  /\ p \notin keys
  /\ p \in DataPoint => SensorOf[p] \in known

(* Mutant: the key is put into the set with the check. *)
CheckAndAdd(g, where) ==
  /\ \E p \in todo[g] :
       /\ ToPublish(g, p)
       /\ todo' = [todo EXCEPT ![g] = @ \ {p}]
       /\ point' = [point EXCEPT ![g] = p]
       /\ keys' = keys \cup {p}
  /\ pc' = [pc EXCEPT ![g] = where]
  /\ UNCHANGED <<kafkaVars, startVars, known, windowVars, runHistory,
                 history, runs, faults>>

(* The key is not known: the point is to be published. *)
Check(g, where) ==
  /\ \E p \in todo[g] :
       /\ ToPublish(g, p)
       /\ todo' = [todo EXCEPT ![g] = @ \ {p}]
       /\ point' = [point EXCEPT ![g] = p]
  /\ pc' = [pc EXCEPT ![g] = where]
  /\ UNCHANGED <<kafkaVars, startVars, keys, known, windowVars, runHistory,
                 history, runs, faults>>

Back(g) ==
  /\ pc' = [pc EXCEPT ![g] = "next"]
  /\ point' = [point EXCEPT ![g] = None]

Append1(p) == log' = [log EXCEPT ![TopicOf[p]] = Append(@, p)]

(* Publish: the delivery report comes, and the key is put into the set. *)
Delivered(g) ==
  /\ pc[g] = "wait"
  /\ Append1(point[g])
  /\ keys' = keys \cup {point[g]}
  /\ Back(g)
  /\ UNCHANGED <<queued, startVars, known, windowVars, todo, runHistory,
                 history, runs, faults>>

(* ... or it is an error, or the producer did not take the message; *)
DeliveryFails(g) ==
  /\ pc[g] = "wait"
  /\ Fault
  /\ Back(g)
  /\ UNCHANGED <<kafkaVars, startVars, keys, known, windowVars, todo,
                 runHistory, history, runs>>

(* ... or ctx is cancelled or 30 seconds are over, and the message is still on *)
(* its way.                                                                    *)
GivesUp(g) ==
  /\ pc[g] = "wait"
  /\ \/ cancelled /\ UNCHANGED faults
     \/ Fault
  /\ queued' = [queued EXCEPT ![point[g]] = @ + 1]
  /\ unsure' = unsure \cup {point[g]}
  /\ Back(g)
  /\ UNCHANGED <<log, startVars, keys, known, windowVars, todo, runHistory,
                 missed, runs>>

(* PublishAsync takes the message, and the key is put into the set at once; no *)
(* other goroutine can tell the two steps apart.                               *)
Produce(w) ==
  /\ pc[w] = "produce"
  /\ queued' = [queued EXCEPT ![point[w]] = @ + 1]
  /\ keys' = keys \cup {point[w]}
  /\ Back(w)
  /\ UNCHANGED <<log, startVars, known, windowVars, todo, runHistory,
                 history, runs, faults>>

ProduceFails(w) ==
  /\ pc[w] = "produce"
  /\ Fault
  /\ refused' = refused \cup {point[w]}
  /\ Back(w)
  /\ UNCHANGED <<kafkaVars, startVars, keys, known, windowVars, todo,
                 unknown, failed, badWindows, history, runs>>

EndOfLoop(g) ==
  /\ pc[g] = "next"
  /\ todo[g] = {}
  /\ pc' = [pc EXCEPT ![g] = "idle"]
  /\ phase' = IF g # main THEN phase
              ELSE CASE phase = "metadata" -> "conditions"
                     [] phase = "conditions" -> "backfill"
                     [] OTHER -> phase
  /\ IF g = main /\ phase = "conditions" THEN windows' = Window ELSE UNCHANGED windows
  /\ UNCHANGED <<aborted, kafkaVars, cancelled, scanVars, keys, known, todo,
                 point, runHistory, history, runs, faults>>

(* The producer delivers a message, or gives it up after two minutes. *)
Deliver(p) ==
  /\ queued[p] > 0
  /\ queued' = [queued EXCEPT ![p] = @ - 1]
  /\ Append1(p)
  /\ UNCHANGED <<startVars, keys, known, windowVars, workVars, runHistory,
                 history, runs, faults>>

Drop(p) ==
  /\ queued[p] > 0
  /\ Fault
  /\ queued' = [queued EXCEPT ![p] = @ - 1]
  /\ failed' = failed \cup {p}
  /\ UNCHANGED <<log, startVars, keys, known, windowVars, workVars, unknown,
                 refused, badWindows, history, runs>>

----------------------------------------------------------------------------
(* StartBackfill *)
StartWorkers ==
  /\ phase = "backfill" /\ windows = Window
  /\ \A w \in Worker : pc[w] = "gone"
  /\ pc' = [g \in Goroutine |-> IF g \in Worker THEN "idle" ELSE pc[g]]
  /\ UNCHANGED <<kafkaVars, startVars, keys, known, windowVars, todo, point,
                 runHistory, history, runs, faults>>

(* windowChan is filled in order. *)
Received(v) ==
  /\ \A u \in windows : v <= u
  /\ windows' = windows \ {v}

(* Mutant: the points of a window that could not be read are gone over, too. *)
TakeWindowUnread(w) ==
  /\ pc[w] = "idle"
  /\ \E v \in windows :
       /\ Received(v)
       /\ \/ /\ Loop(w, PointsOf[v])
             /\ UNCHANGED faults
          \/ /\ ~cancelled /\ Fault
             /\ \E S \in SUBSET PointsOf[v] : Loop(w, S)
  /\ UNCHANGED <<kafkaVars, startVars, keys, known, aborted, point,
                 runHistory, history, runs>>

(* The window is fetched, or the limiter or the call returns an error. *)
TakeWindow(w) ==
  /\ pc[w] = "idle"
  /\ \E v \in windows :
       /\ Received(v)
       /\ \/ /\ Loop(w, PointsOf[v])
             /\ UNCHANGED <<aborted, badWindows, faults>>
          \/ /\ badWindows' = badWindows \cup {v}
             /\ \/ cancelled /\ aborted' = TRUE /\ UNCHANGED faults
                \/ Fault /\ UNCHANGED aborted
             /\ UNCHANGED <<pc, todo>>
  /\ UNCHANGED <<kafkaVars, startVars, keys, known, point, unknown, failed,
                 refused, history, runs>>

(* No window is left, or ctx is cancelled when one was taken. *)
WorkerReturns(w) ==
  /\ pc[w] = "idle"
  /\ \/ windows = {} /\ UNCHANGED <<windows, badWindows>>
     \/ /\ cancelled
        /\ \E v \in windows : Received(v) /\ badWindows' = badWindows \cup {v}
  /\ pc' = [pc EXCEPT ![w] = "gone"]
  /\ UNCHANGED <<kafkaVars, startVars, keys, known, aborted, todo, point,
                 unknown, failed, refused, history, runs, faults>>

(* resultChan is closed when the workers have returned. *)
WorkersReturned ==
  /\ phase = "backfill" /\ windows # Window
  /\ \A w \in Worker : pc[w] = "gone"

(* The result of a cancelled call is enough to return without the flush. *)
CollectResults ==
  /\ phase = "backfill"
  /\ \/ WorkersReturned /\ phase' = "flush" /\ UNCHANGED pc
     \/ /\ aborted
        /\ phase' = "loop"
        /\ pc' = [pc EXCEPT ![meta] = "idle"]
  /\ UNCHANGED <<kafkaVars, cancelled, scanVars, keys, known, windowVars,
                 todo, point, runHistory, history, runs, faults>>

(* Flush returns when the queue is empty, or after its 30 seconds; the loop of *)
(* the metadata is started.                                                    *)
Flush ==
  /\ phase = "flush"
  /\ \/ queued = NoMessages /\ UNCHANGED faults
     \/ Fault
  /\ phase' = "loop"
  /\ pc' = [pc EXCEPT ![meta] = "idle"]
  /\ UNCHANGED <<kafkaVars, cancelled, scanVars, keys, known, windowVars,
                 todo, point, runHistory, history, runs>>

----------------------------------------------------------------------------
(* The loops end when ctx is cancelled; a tick due in the same moment is left out. *)
MetaReturns ==
  /\ cancelled /\ pc[meta] = "idle"
  /\ pc' = [pc EXCEPT ![meta] = "gone"]
  /\ UNCHANGED <<kafkaVars, startVars, keys, known, windowVars, todo, point,
                 runHistory, history, runs, faults>>

(* Start has returned; main closes the producer. *)
LoopReturns ==
  /\ phase = "loop" /\ cancelled /\ pc[main] = "idle"
  /\ phase' = "close"
  /\ UNCHANGED <<kafkaVars, cancelled, scanVars, keys, known, windowVars,
                 workVars, runHistory, history, runs, faults>>

(* The process is gone, and with it its queue. *)
Die ==
  /\ phase' = "down" /\ cancelled' = FALSE
  /\ queued' = NoMessages
  /\ queried' = {} /\ seen' = [t \in Topic |-> 0] /\ spoiled' = FALSE
  /\ keys' = {} /\ known' = {} /\ windows' = {} /\ aborted' = FALSE
  /\ pc' = NotStarted
  /\ todo' = [g \in Goroutine |-> {}]
  /\ point' = [g \in Goroutine |-> None]
  /\ UNCHANGED <<log, runHistory, history, runs>>

(* Close flushes for ten seconds. *)
Close ==
  /\ phase = "close"
  /\ \/ queued = NoMessages /\ UNCHANGED faults
     \/ Fault
  /\ Die

Crash ==
  /\ phase # "down"
  /\ Fault
  /\ Die

Signal ==
  /\ phase # "down" /\ ~cancelled
  /\ cancelled' = TRUE
  /\ UNCHANGED <<kafkaVars, phase, scanVars, keys, known, windowVars,
                 workVars, runHistory, history, runs, faults>>

Idle ==
  /\ phase = "down" /\ runs = MaxRuns
  /\ UNCHANGED vars

----------------------------------------------------------------------------
Publishing(g) ==
  \/ PassOver(g)
  \/ Check(g, "wait")
  \/ Delivered(g)
  \/ DeliveryFails(g)
  \/ GivesUp(g)
  \/ EndOfLoop(g)

Main ==
  \/ \E t \in Topic : Read(t)
  \/ ScanEnds
  \/ ScanFails
  \/ FetchMetadata(main)
  \/ FetchConditions
  \/ Publishing(main)
  \/ StartWorkers
  \/ CollectResults
  \/ Flush
  \/ LoopReturns
  \/ Close

Work(w) ==
  \/ TakeWindow(w)
  \/ PassOver(w)
  \/ Check(w, "produce")
  \/ Produce(w)
  \/ ProduceFails(w)
  \/ EndOfLoop(w)
  \/ WorkerReturns(w)

Next ==
  \/ Start
  \/ Main
  \/ FetchMetadata(meta)
  \/ Publishing(meta)
  \/ MetaReturns
  \/ \E w \in Worker : Work(w)
  \/ \E p \in Point : Deliver(p) \/ Drop(p)
  \/ Signal
  \/ Crash
  \/ Idle

(* The goroutines keep running, calls of the API and the broker end, and the  *)
(* producer works on its queue.                                               *)
Spec ==
  /\ Init /\ [][Next]_vars
  /\ WF_vars(Main)
  /\ \A w \in Worker : WF_vars(Work(w))
  /\ \A p \in Point : WF_vars(Deliver(p))

----------------------------------------------------------------------------
TypeOK ==
  /\ log \in [Topic -> Seq(Point)]
  /\ queued \in [Point -> Nat]
  /\ phase \in PhaseValue /\ cancelled \in BOOLEAN
  /\ queried \subseteq Topic /\ seen \in [Topic -> Nat] /\ spoiled \in BOOLEAN
  /\ keys \subseteq Point /\ known \subseteq Sensor /\ windows \subseteq Window
  /\ aborted \in BOOLEAN
  /\ pc \in [Goroutine -> PcValue]
  /\ todo \in [Goroutine -> SUBSET Point]
  /\ point \in [Goroutine -> Point \cup {None}]
  /\ unknown \subseteq Point /\ failed \subseteq Point /\ refused \subseteq Point
  /\ badWindows \subseteq Window
  /\ unsure \subseteq Point /\ missed \subseteq Point
  /\ runs \in 0..MaxRuns /\ faults \in 0..MaxFaults

(* What the process takes for published is: its message is in the topic or on *)
(* its way, or its delivery failed after the back-fill had counted it.        *)
KeysAreSent == \A p \in keys : InLog(p) \/ queued[p] > 0 \/ p \in failed

(* A point two windows share: their workers may check its key together.       *)
Shared(p) == \E v, w \in Window : v # w /\ p \in PointsOf[v] \cap PointsOf[w]

(* service.go, "Scan Kafka for existing keys to prevent duplicates across     *)
(* restarts": a point is in its topic twice only if that topic is not         *)
(* scanned, a scan was cut off or could not query it, a Publish gave up on a  *)
(* message that was on its way, or two windows share the point.               *)
DuplicatesExplained ==
  \A p \in Point : Copies(p) + queued[p] > 1 =>
    \/ TopicOf[p] \notin RecordTopic \cup MetaTopic
    \/ p \in missed \cup unsure
    \/ Shared(p)

(* When the back-fill is over, every point of a window that could be fetched  *)
(* is in its topic or on its way, or it was logged why not.                   *)
BackfillComplete ==
  phase = "loop" /\ (\A w \in Worker : pc[w] = "gone") =>
    \A v \in Window \ (badWindows \cup windows) : \A p \in PointsOf[v] :
      InLog(p) \/ queued[p] > 0 \/ p \in unknown \cup failed \cup refused

(* A process that runs gets through scan and back-fill to its polling, and a  *)
(* signal ends it.                                                            *)
PollsOrEnds == []<>(phase = "down" \/ (phase = "loop" /\ ~cancelled))
============================================================================
