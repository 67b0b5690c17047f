---------------------------- MODULE Materializer ----------------------------
(***************************************************************************)
(* The path of a weather data message through weatherlink-sql: from a      *)
(* topic's log, through the listener (service/data.go,                     *)
(* ListenWithWorkerPool), the worker pool and the batch writer, to a row   *)
(* or an orphan in PostgreSQL, with the offset commits beside it, and the  *)
(* life of the process: start, SIGTERM and Close, a crash at any moment,   *)
(* and the restart.                                                        *)
(*                                                                         *)
(* A message is a pair <<topic, offset>> and stands for one record of it:  *)
(* what becomes of its fields is the subject of WorkerPool.  The batch     *)
(* writer is the abstract store of RecordStore, which BatchWriter is shown *)
(* to implement: a set of pending messages of which any group is committed *)
(* or given up.                                                            *)
(***************************************************************************)
EXTENDS Naturals, Sequences, FiniteSets

CONSTANTS
  Topic,       \* the topics named weather.* that may come to exist
  Worker,      \* worker goroutines, WORKER_POOL_SIZE of them
  None,        \* no message
  NoOffset,    \* no committed offset, no position
  MaxMessages, \* bound: messages produced to a topic
  MaxRuns,     \* bound: starts of the process
  MaxRejoins   \* bound: generations of the consumer group that end

Message == Topic \X (0 .. MaxMessages - 1)
Offset == 0 .. MaxMessages

ASSUME ConstantAssumption ==
  /\ IsFiniteSet(Worker) /\ Worker # {}
  /\ None \notin Message
  /\ NoOffset \notin Nat
ASSUME BoundAssumption ==
  /\ MaxMessages \in Nat /\ MaxRuns \in Nat /\ MaxRejoins \in Nat

VARIABLES
  \* Kafka
  end,        \* messages in each topic's log; a topic exists when it has one
  committed,  \* offset committed by the group weatherlink-sql-data, or NoOffset
  position,   \* offset each topic's reader fetches next, NoOffset before it knows
  \* the process
  state,      \* what the main goroutine is doing, see StateValue
  cancelled,  \* ctx is cancelled
  readers,    \* topics a reader was made for
  round,      \* readers the listener has not come to in this pass
  inHand,     \* msg: the message the listener has fetched
  channel,    \* WorkerPool.messageChan
  closed,     \* messageChan is closed
  busy,       \* the message each worker is processing
  pending,    \* messages with the batch writer
  \* the database
  stored,     \* messages with a row
  orphans,    \* messages in orphaned_messages
  \* history
  givenUp,    \* messages whose processing or flush ended in a logged error
  skipped,    \* messages a reader without a committed offset started behind
  vanished,   \* committed messages that were in the process when it crashed
  runs, rejoins

kafkaVars == <<end, committed, position>>
listenVars == <<readers, round, inHand>>
poolVars == <<channel, closed, busy>>
database == <<stored, orphans>>
history == <<givenUp, skipped, vanished, runs, rejoins>>
vars == <<kafkaVars, state, cancelled, listenVars, poolVars, pending, database, history>>

(* down     no process
   loop     the listener at the head of its loop
   round    going through the readers
   submit   in SubmitMessage with inHand
   commit   in CommitMessages with inHand
   close    Start has returned, Materializer.Close is next
   drain    in WorkerPool.Shutdown: the channel is closed, wg.Wait
   flush    in BatchWriter.Close
   stopped  Close has returned                                              *)
StateValue == {"down", "loop", "round", "submit", "commit", "close", "drain", "flush",
               "stopped"}

Alive == state \notin {"down", "stopped"}
ChannelSize == 2 * Cardinality(Worker)

InChannel == {channel[i] : i \in DOMAIN channel}
InWorkers == {busy[w] : w \in Worker} \ {None}
Custody == InChannel \cup InWorkers \cup pending
Finished == stored \cup orphans \cup givenUp
Kept == Custody \cup Finished \cup skipped \cup vanished
Covered(m) == committed[m[1]] # NoOffset /\ m[2] < committed[m[1]]

----------------------------------------------------------------------------
Init ==
  /\ end = [t \in Topic |-> 0]
  /\ committed = [t \in Topic |-> NoOffset]
  /\ position = [t \in Topic |-> NoOffset]
  /\ state = "down"
  /\ cancelled = FALSE
  /\ readers = {} /\ round = {} /\ inHand = None
  /\ channel = <<>> /\ closed = FALSE /\ busy = [w \in Worker |-> None]
  /\ pending = {}
  /\ stored = {} /\ orphans = {}
  /\ givenUp = {} /\ skipped = {} /\ vanished = {}
  /\ runs = 0 /\ rejoins = 0

(* A producer service publishes to a topic; the first message creates it. *)
Produce(t) ==
  /\ end[t] < MaxMessages
  /\ end' = [end EXCEPT ![t] = @ + 1]
  /\ UNCHANGED <<committed, position, state, cancelled, listenVars, poolVars, pending,
                 database, history>>

----------------------------------------------------------------------------
(* main and Materializer.Start up to the listener's loop: the topics that     *)
(* exist now get readers, others not before the next start.                   *)
Start ==
  /\ ~Alive
  /\ runs < MaxRuns
  /\ runs' = runs + 1
  /\ state' = "loop"
  /\ cancelled' = FALSE
  /\ readers' = {t \in Topic : end[t] > 0}
  /\ position' = [t \in Topic |-> NoOffset]
  /\ closed' = FALSE
  /\ UNCHANGED <<end, committed, round, inHand, channel, busy, pending, database, givenUp,
                 skipped, vanished, rejoins>>

(* A reader joins its group: it starts at the committed offset, without one   *)
(* at the end of the log (StartOffset: LastOffset).                           *)
OpenReader(t) ==
  /\ Alive
  /\ t \in readers
  /\ position[t] = NoOffset
  /\ position' = [position EXCEPT ![t] = IF committed[t] = NoOffset THEN end[t]
                                                                     ELSE committed[t]]
  /\ skipped' = IF committed[t] = NoOffset
                  THEN skipped \cup {<<t, i>> : i \in 0 .. end[t] - 1}
                  ELSE skipped
  /\ UNCHANGED <<end, committed, state, cancelled, listenVars, poolVars, pending, database,
                 givenUp, vanished, runs, rejoins>>

(* The group's generation ends (a missed heartbeat, another coordinator): the *)
(* reader forgets its position and joins again.                               *)
Rejoin(t) ==
  /\ Alive
  /\ t \in readers
  /\ position[t] # NoOffset
  /\ rejoins < MaxRejoins
  /\ rejoins' = rejoins + 1
  /\ position' = [position EXCEPT ![t] = NoOffset]
  /\ UNCHANGED <<end, committed, state, cancelled, listenVars, poolVars, pending, database,
                 givenUp, skipped, vanished, runs>>

----------------------------------------------------------------------------
(* The head of the loop: ctx is looked at only here. *)
NextRound ==
  /\ state = "loop"
  /\ IF cancelled
       THEN state' = "close" /\ UNCHANGED round
       ELSE state' = "round" /\ round' = readers
  /\ UNCHANGED <<kafkaVars, cancelled, readers, inHand, poolVars, pending, database, history>>

EndOfRound ==
  /\ state = "round"
  /\ round = {}
  /\ state' = "loop"
  /\ UNCHANGED <<kafkaVars, cancelled, listenVars, poolVars, pending, database, history>>

(* FetchMessage returns a message.  It may do so although ctx is cancelled:   *)
(* it selects among a message and the context's end.                          *)
Fetch(t) ==
  /\ state = "round"
  /\ t \in round
  /\ position[t] # NoOffset
  /\ position[t] < end[t]
  /\ inHand' = <<t, position[t]>>
  /\ position' = [position EXCEPT ![t] = @ + 1]
  /\ round' = round \ {t}
  /\ state' = "submit"
  /\ UNCHANGED <<end, committed, cancelled, readers, poolVars, pending, database, history>>

(* Mutant: a reader that timed out is not asked again. *)
FetchFailsForGood(t) ==
  /\ state = "round"
  /\ t \in round
  /\ round' = round \ {t}
  /\ readers' = readers \ {t}
  /\ UNCHANGED <<kafkaVars, state, cancelled, inHand, poolVars, pending, database, history>>

(* FetchMessage returns an error: its 100 ms are over, ctx is cancelled, or   *)
(* the broker cannot be reached.                                              *)
FetchFails(t) ==
  /\ state = "round"
  /\ t \in round
  /\ round' = round \ {t}
  /\ UNCHANGED <<kafkaVars, state, cancelled, readers, inHand, poolVars, pending, database,
                 history>>

(* Mutant: a full channel drops the message. *)
SubmitOrDrop ==
  /\ state = "submit"
  /\ channel' = IF Len(channel) < ChannelSize THEN Append(channel, inHand) ELSE channel
  /\ state' = "commit"
  /\ UNCHANGED <<kafkaVars, cancelled, listenVars, closed, busy, pending, database, history>>

(* SubmitMessage: blocks while the channel is full, whether or not ctx is     *)
(* cancelled; the pool's own context never is.                                *)
Submit ==
  /\ state = "submit"
  /\ Len(channel) < ChannelSize
  /\ channel' = Append(channel, inHand)
  /\ state' = "commit"
  /\ UNCHANGED <<kafkaVars, cancelled, listenVars, closed, busy, pending, database, history>>

(* CommitMessages, right after the submission.  Its error is only logged; it  *)
(* uses context.Background(), so a cancelled ctx does not stop it.            *)
Commit ==
  /\ state = "commit"
  /\ \/ committed' = [committed EXCEPT ![inHand[1]] = inHand[2] + 1]
     \/ UNCHANGED committed
  /\ inHand' = None
  /\ state' = "round"
  /\ UNCHANGED <<end, position, cancelled, readers, round, poolVars, pending, database,
                 history>>

----------------------------------------------------------------------------
(* Mutant: the workers take nothing more once ctx is cancelled. *)
ReceiveUntilCancelled(w) ==
  /\ Alive
  /\ ~cancelled
  /\ busy[w] = None
  /\ channel # <<>>
  /\ busy' = [busy EXCEPT ![w] = Head(channel)]
  /\ channel' = Tail(channel)
  /\ UNCHANGED <<kafkaVars, state, cancelled, listenVars, closed, pending, database, history>>

Receive(w) ==
  /\ Alive
  /\ busy[w] = None
  /\ channel # <<>>
  /\ busy' = [busy EXCEPT ![w] = Head(channel)]
  /\ channel' = Tail(channel)
  /\ UNCHANGED <<kafkaVars, state, cancelled, listenVars, closed, pending, database, history>>

(* processMessage, by its outcome: a record for the batch writer, an orphan,  *)
(* or a logged error (no lsid, a body that cannot be parsed, a value its tag  *)
(* does not take, an orphan that could not be saved).                         *)
Process(w) ==
  /\ Alive
  /\ busy[w] # None
  /\ busy' = [busy EXCEPT ![w] = None]
  /\ \/ pending' = pending \cup {busy[w]} /\ UNCHANGED <<orphans, givenUp>>
     \/ orphans' = orphans \cup {busy[w]} /\ UNCHANGED <<pending, givenUp>>
     \/ givenUp' = givenUp \cup {busy[w]} /\ UNCHANGED <<pending, orphans>>
  /\ UNCHANGED <<kafkaVars, state, cancelled, listenVars, channel, closed, stored, skipped,
                 vanished, runs, rejoins>>

(* RecordStore!Commit and RecordStore!Reject: a flush of a group of records.  *)
Flush(S) ==
  /\ Alive
  /\ S # {} /\ S \subseteq pending
  /\ pending' = pending \ S
  /\ \/ stored' = stored \cup S /\ UNCHANGED givenUp
     \/ givenUp' = givenUp \cup S /\ stored' \in {stored, stored \cup S}
  /\ UNCHANGED <<kafkaVars, state, cancelled, listenVars, poolVars, orphans, skipped, vanished,
                 runs, rejoins>>

----------------------------------------------------------------------------
(* SIGTERM or SIGINT: the signal goroutine cancels ctx. *)
Signal ==
  /\ Alive
  /\ ~cancelled
  /\ cancelled' = TRUE
  /\ UNCHANGED <<kafkaVars, state, listenVars, poolVars, pending, database, history>>

(* Materializer.Close: WorkerPool.Shutdown closes the channel. *)
CloseChannel ==
  /\ state = "close"
  /\ closed' = TRUE
  /\ state' = "drain"
  /\ UNCHANGED <<kafkaVars, cancelled, listenVars, channel, busy, pending, database, history>>

(* Mutant: Shutdown waits for the channel but not for the workers. *)
DrainedChannel ==
  /\ state = "drain"
  /\ channel = <<>>
  /\ state' = "flush"
  /\ UNCHANGED <<kafkaVars, cancelled, listenVars, poolVars, pending, database, history>>

(* wg.Wait returns: a worker ends when the closed channel is empty and it has *)
(* no message in hand.                                                        *)
Drained ==
  /\ state = "drain"
  /\ closed
  /\ channel = <<>>
  /\ \A w \in Worker : busy[w] = None
  /\ state' = "flush"
  /\ UNCHANGED <<kafkaVars, cancelled, listenVars, poolVars, pending, database, history>>

(* BatchWriter.Close returns when its last FlushAll has left nothing pending; *)
(* the pool of connections is closed and main returns.                        *)
Stop ==
  /\ state = "flush"
  /\ pending = {}
  /\ state' = "stopped"
  /\ UNCHANGED <<kafkaVars, cancelled, listenVars, poolVars, pending, database, history>>

(* The process dies: a kill, a panic, the machine.  Only Kafka and PostgreSQL *)
(* remember anything.                                                         *)
Crash ==
  /\ Alive
  /\ state' = "down"
  /\ vanished' = vanished \cup ({m \in Custody : Covered(m)} \ Finished)
  /\ cancelled' = FALSE
  /\ readers' = {} /\ round' = {} /\ inHand' = None
  /\ channel' = <<>> /\ closed' = FALSE /\ busy' = [w \in Worker |-> None]
  /\ pending' = {}
  /\ position' = [t \in Topic |-> NoOffset]
  /\ UNCHANGED <<end, committed, database, givenUp, skipped, runs, rejoins>>

(* Nothing more happens within the bounds. *)
Idle ==
  /\ ~Alive
  /\ runs = MaxRuns
  /\ UNCHANGED vars

Listen ==
  \/ NextRound
  \/ EndOfRound
  \/ \E t \in Topic : Fetch(t) \/ FetchFails(t)
  \/ Submit
  \/ Commit

Close ==
  \/ CloseChannel
  \/ Drained
  \/ Stop

Next ==
  \/ \E t \in Topic : Produce(t) \/ OpenReader(t) \/ Rejoin(t)
  \/ Start
  \/ Listen
  \/ \E w \in Worker : Receive(w) \/ Process(w)
  \/ \E S \in SUBSET pending : Flush(S)
  \/ Signal
  \/ Close
  \/ Crash
  \/ Idle

Spec == Init /\ [][Next]_vars

(* What runs keeps running: the broker delivers and the database answers.     *)
(* A reader whose fetches time out for ever while messages wait is excluded   *)
(* by strong fairness: the reader fetches in the background between polls.    *)
(* Docker restarts the service when it dies ("restart: unless-stopped"), not  *)
(* when it was stopped.  No signal, crash or message is forced to come.       *)
Fairness ==
  /\ WF_vars(Listen)
  /\ \A t \in Topic : WF_vars(OpenReader(t)) /\ SF_vars(Fetch(t))
  /\ \A w \in Worker : WF_vars(Receive(w) \/ Process(w))
  /\ WF_vars(\E S \in SUBSET pending : Flush(S))
  /\ WF_vars(Close)
  /\ WF_vars(state = "down" /\ Start)

FairSpec == Spec /\ Fairness

----------------------------------------------------------------------------
TypeOK ==
  /\ end \in [Topic -> Offset]
  /\ committed \in [Topic -> Offset \cup {NoOffset}]
  /\ position \in [Topic -> Offset \cup {NoOffset}]
  /\ state \in StateValue
  /\ cancelled \in BOOLEAN
  /\ readers \subseteq Topic /\ round \subseteq Topic
  /\ inHand \in Message \cup {None}
  /\ channel \in Seq(Message) /\ Len(channel) <= ChannelSize
  /\ closed \in BOOLEAN
  /\ busy \in [Worker -> Message \cup {None}]
  /\ pending \subseteq Message
  /\ stored \subseteq Message /\ orphans \subseteq Message
  /\ givenUp \subseteq Message /\ skipped \subseteq Message /\ vanished \subseteq Message
  /\ runs \in 0 .. MaxRuns /\ rejoins \in 0 .. MaxRejoins

(* A committed offset is never ahead of the process: every message below it   *)
(* is with a worker, in the channel or the batch writer, has ended in a row,  *)
(* an orphan or a logged error, or is one that no reader was to read.  Only a *)
(* crash makes an exception, of the messages that were in the process.        *)
CommittedIsKept == \A m \in Message : Covered(m) => m \in Kept

(* SIGTERM loses nothing: once Close has returned, every message the listener *)
(* ever fetched in this run has ended in PostgreSQL or in a logged error.     *)
StopLosesNothing ==
  state = "stopped" =>
    \A m \in Message :
      \/ m \in Finished \cup skipped \cup vanished
      \/ ~Covered(m) /\ (position[m[1]] = NoOffset \/ m[2] >= position[m[1]])

(* A message published to a topic the group has read before ends up somewhere *)
(* in spite of crashes, failing commits and rejoins, unless the service is    *)
(* stopped for good: again and again none of them is under way.               *)
MessagesEnd ==
  []<> \/ state = "stopped" \/ (~Alive /\ runs = MaxRuns)
       \/ \A m \in Message :
            (m[2] < end[m[1]] /\ committed[m[1]] # NoOffset) =>
              m \in Finished \cup skipped \cup vanished

(* A signal is followed by the end of the process, whatever the listener, the *)
(* workers and the channel were at.                                           *)
SignalStops == cancelled ~> ~Alive

(* docs/kafka-standards.md: "Commit only after successful process".           *)
CommitAfterProcess == \A m \in Message : Covered(m) => m \in Finished \cup skipped
============================================================================
