-------------------------- MODULE BackfillProcess --------------------------
(***************************************************************************)
(* One run of weatherlink-sql-backfill (main.go, service/backfill.go),     *)
(* once devices, tags and catalog have been loaded.  The metadata topics   *)
(* are read one after the other into the device table and the cache; then  *)
(* every data topic is read by a goroutine of its own into the worker pool *)
(* of WorkerPool until END_OFFSET or five seconds without a message; the   *)
(* pool is drained, the batch writer is flushed and closed.  SIGTERM may   *)
(* come at any moment.                                                     *)
(*                                                                         *)
(* The batches of the writer are the records the workers handed on that no *)
(* COPY has taken yet.  Batches filled up to BATCH_SIZE are the subject of *)
(* BatchWriter; here they are smaller than that.                           *)
(***************************************************************************)
EXTENDS WorkerPool

CONSTANTS
  Topic,        \* the data topics
  Log,          \* partition 0 of each from START_OFFSET on: messages
  EndOffset,    \* END_OFFSET as a position in these logs
  MetadataLog,  \* the metadata topics in the order they are read, <<>> without --metadata
  Other,        \* a message of them that can be parsed and describes no device
  MaxFaults     \* bound: fetches that fail for another reason than a timeout

ASSUME LogAssumption ==
  /\ Log \in [Topic -> Seq(Message)]
  /\ EndOffset \in Nat /\ MaxFaults \in Nat
  /\ MetadataLog \in Seq(Seq(Device \cup {Malformed, Other}))
  /\ \A t, u \in Topic : \A i \in 1..Len(Log[t]), j \in 1..Len(Log[u]) :
       Log[t][i] = Log[u][j] => t = u /\ i = j

(* The pool is the back-fill's, and None is no error.  An assumption of the      *)
(* theorems about the process, not of those about the pool, which serves both    *)
(* services.                                                                     *)
ServiceAssumption == Backfill /\ None \notin {"canceled", "error"}

flusher == "flusher"
main == "main"

VARIABLES
  phase,      \* what the main goroutine is doing, see PhaseValue
  metaTopic,  \* the metadata topic it is at
  metaOffset, \* messages of that topic that are dealt with
  rows,       \* table devices
  reader,     \* what the goroutine of each topic is doing
  offset,     \* messages it has fetched
  early,      \* topics taken for finished because the broker was slow
  firstErr,   \* the error processTopics will return
  copying,    \* the batch each goroutine has in a COPY
  written,    \* records in the database
  lost,       \* records whose COPY failed
  cancelled,  \* SIGTERM has cancelled ctx
  faults

poolVars == <<channel, closed, submitted, cacheVars, stored, orphans, workVars, metrics, outcome>>
metaVars == <<metaTopic, metaOffset, rows>>
readVars == <<reader, offset, early, firstErr, faults>>
flushVars == <<copying, written, lost>>
processVars == <<poolVars, phase, metaVars, readVars, flushVars, cancelled>>

(* metadata in processMetadataPhase        reload  in the LoadAll after it
   topics   waiting for the topics         drain   in workerPool.Shutdown
   flush    in FlushAll(ctx)               close   in Close, at wg.Wait
   exited, fatal  the process is gone                                        *)
PhaseValue == {"metadata", "reload", "topics", "drain", "flush", "close", "exited",
               "fatal"}

(* loop at the select, fetch in FetchMessage, submit in SubmitMessage *)
ReaderValue == {"loop", "fetch", "submit", "done"}

ProcessInit ==
  /\ Init
  /\ phase = IF MetadataLog = <<>> THEN "topics" ELSE "metadata"
  /\ metaTopic = 1 /\ metaOffset = 0
  /\ rows = KnownDevice
  /\ reader = [t \in Topic |-> "loop"]
  /\ offset = [t \in Topic |-> 0]
  /\ early = {}
  /\ firstErr = None
  /\ copying = [a \in {flusher, main} |-> {}]
  /\ written = {} /\ lost = {}
  /\ cancelled = FALSE
  /\ faults = 0

Gone == phase \in {"exited", "fatal"}

----------------------------------------------------------------------------
(* log.Fatalf: no deferred Close; the COPY of the flusher may have committed. *)
Die ==
  /\ phase' = "fatal"
  /\ written' \in {written, written \cup copying[flusher]}
  /\ UNCHANGED <<copying, lost>>

metaLog == MetadataLog[metaTopic]

(* A failed fetch, also one that SIGTERM ended, ends the process: the error is *)
(* wrapped.  So does the check of ctx before a fetch.                          *)
MetadataFails ==
  /\ phase = "metadata"
  /\ \/ cancelled /\ UNCHANGED faults
     \/ faults < MaxFaults /\ faults' = faults + 1
  /\ Die
  /\ UNCHANGED <<poolVars, metaVars, reader, offset, early, firstErr, cancelled>>

(* ProcessMessage of the two processors.  The device is upserted and put into  *)
(* the cache; when that fails, or nothing can be made of the message, it is    *)
(* saved as an orphan and passed over.                                         *)
MetadataMessage ==
  /\ phase = "metadata"
  /\ metaOffset < Len(metaLog) /\ metaOffset < EndOffset
  /\ metaOffset' = metaOffset + 1
  /\ LET entry == metaLog[metaOffset + 1]
     IN \/ /\ entry \in Device
           /\ rows' = rows \cup {entry}
           /\ devices' = devices \cup {entry}
        \/ UNCHANGED <<rows, devices>>
  /\ UNCHANGED <<channel, closed, submitted, cached, stored, orphans, workVars, metrics,
                 outcome, phase, metaTopic, readVars, flushVars, cancelled>>

(* END_OFFSET, or five seconds without a message, which a slow broker may need *)
(* for one that is there.  The next topic, or LoadAll.                         *)
MetadataTopicEnds ==
  /\ phase = "metadata"
  /\ metaOffset' = 0
  /\ IF metaTopic = Len(MetadataLog)
       THEN phase' = "reload" /\ UNCHANGED metaTopic
       ELSE metaTopic' = metaTopic + 1 /\ UNCHANGED phase
  /\ UNCHANGED <<poolVars, rows, readVars, flushVars, cancelled>>

(* Mutant: the devices that were there before are loaded again. *)
ReloadKnown ==
  /\ phase = "reload"
  /\ devices' = KnownDevice
  /\ phase' = "topics"
  /\ UNCHANGED <<channel, closed, submitted, cached, stored, orphans, workVars, metrics,
                 outcome, metaVars, readVars, flushVars, cancelled>>

(* LoadAll puts every row into the cache: a device the metadata phase cached    *)
(* has no id until then.                                                        *)
Reload ==
  /\ phase = "reload"
  /\ devices' = devices \cup rows
  /\ phase' = "topics"
  /\ UNCHANGED <<channel, closed, submitted, cached, stored, orphans, workVars, metrics,
                 outcome, metaVars, readVars, flushVars, cancelled>>

ReloadFails ==
  /\ phase = "reload"
  /\ Die
  /\ UNCHANGED <<poolVars, metaVars, readVars, cancelled>>

----------------------------------------------------------------------------
(* processTopic *)
Return(t, err) ==
  /\ reader' = [reader EXCEPT ![t] = "done"]
  /\ firstErr' = IF firstErr = None THEN err ELSE firstErr

CheckContext(t) ==
  /\ phase = "topics" /\ reader[t] = "loop"
  /\ IF cancelled
       THEN Return(t, "canceled")
       ELSE reader' = [reader EXCEPT ![t] = "fetch"] /\ UNCHANGED firstErr
  /\ UNCHANGED <<poolVars, phase, metaVars, offset, early, faults, flushVars, cancelled>>

(* Mutant: the message at END_OFFSET is still taken. *)
FetchPastEnd(t) ==
  /\ reader[t] = "fetch" /\ offset[t] < Len(Log[t])
  /\ offset' = [offset EXCEPT ![t] = @ + 1]
  /\ IF offset[t] > EndOffset
       THEN Return(t, None)
       ELSE reader' = [reader EXCEPT ![t] = "submit"] /\ UNCHANGED firstErr
  /\ UNCHANGED <<poolVars, phase, metaVars, early, faults, flushVars, cancelled>>

(* A message comes, perhaps together with SIGTERM; at END_OFFSET it is the end. *)
Fetch(t) ==
  /\ reader[t] = "fetch" /\ offset[t] < Len(Log[t])
  /\ offset' = [offset EXCEPT ![t] = @ + 1]
  /\ IF offset[t] >= EndOffset
       THEN Return(t, None)
       ELSE reader' = [reader EXCEPT ![t] = "submit"] /\ UNCHANGED firstErr
  /\ UNCHANGED <<poolVars, phase, metaVars, early, faults, flushVars, cancelled>>

(* Mutant: a timeout is tried again. *)
FetchRetriesTimeout(t) ==
  /\ reader[t] = "fetch"
  /\ reader' = [reader EXCEPT ![t] = "loop"]
  /\ UNCHANGED <<poolVars, phase, metaVars, offset, early, firstErr, faults, flushVars,
                 cancelled>>

(* Five seconds without a message. *)
FetchTimesOut(t) ==
  /\ reader[t] = "fetch"
  /\ Return(t, None)
  /\ early' = IF offset[t] < Len(Log[t]) /\ offset[t] < EndOffset
                THEN early \cup {t} ELSE early
  /\ UNCHANGED <<poolVars, phase, metaVars, offset, faults, flushVars, cancelled>>

(* The error of a fetch is wrapped, also if it is that of the cancelled ctx. *)
FetchFails(t) ==
  /\ reader[t] = "fetch"
  /\ \/ cancelled /\ UNCHANGED faults
     \/ faults < MaxFaults /\ faults' = faults + 1
  /\ Return(t, "error")
  /\ UNCHANGED <<poolVars, phase, metaVars, offset, early, flushVars, cancelled>>

(* SubmitMessage waits for the pool, whatever becomes of ctx. *)
Submit(t) ==
  /\ reader[t] = "submit"
  /\ SubmitMessage(Log[t][offset[t]])
  /\ reader' = [reader EXCEPT ![t] = "loop"]
  /\ UNCHANGED <<phase, metaVars, offset, early, firstErr, faults, flushVars, cancelled>>

----------------------------------------------------------------------------
(* Batches and COPYs *)

(* Mutant: a batch stays in memory until its COPY is over, for anyone to take. *)
BatchUntilCopied(table) == {r \in records : r[3] = table} \ (written \cup lost)

Batch(table) ==
  {r \in records : r[3] = table} \ (written \cup lost \cup copying[flusher] \cup copying[main])

Batched == UNION {Batch(table) : table \in Table}

TakeBatch(a) ==
  /\ copying[a] = {}
  /\ \E table \in Table :
       /\ Batch(table) # {}
       /\ copying' = [copying EXCEPT ![a] = Batch(table)]
  /\ UNCHANGED <<poolVars, phase, metaVars, readVars, written, lost, cancelled>>

(* A COPY fails as a whole, and its batch is gone; it fails when its context is *)
(* cancelled.                                                                   *)
EndCopy(a) ==
  /\ copying[a] # {}
  /\ copying' = [copying EXCEPT ![a] = {}]
  /\ \/ /\ written' = written \cup copying[a]
        /\ UNCHANGED lost
     \/ /\ lost' = lost \cup copying[a]
        /\ UNCHANGED written
  /\ UNCHANGED <<poolVars, phase, metaVars, readVars, cancelled>>

(* backgroundFlusher: a FlushAll comes over all the tables at every tick. *)
Flusher ==
  \/ ~Gone /\ TakeBatch(flusher)
  \/ ~Gone /\ EndCopy(flusher)

(* The FlushAll of processTopics.  With a ctx that is already cancelled no COPY *)
(* begins, and the batches are gone.                                            *)
FinalFlush ==
  /\ phase = "flush"
  /\ \/ ~cancelled /\ TakeBatch(main)
     \/ EndCopy(main)
     \/ /\ cancelled /\ copying[main] = {} /\ Batched # {}
        /\ lost' = lost \cup Batched
        /\ UNCHANGED <<poolVars, phase, metaVars, readVars, copying, written, cancelled>>

----------------------------------------------------------------------------
TopicsEnd ==
  /\ phase = "topics"
  /\ \A t \in Topic : reader[t] = "done"
  /\ Shutdown
  /\ phase' = "drain"
  /\ UNCHANGED <<metaVars, readVars, flushVars, cancelled>>

PoolDrained ==
  /\ phase = "drain"
  /\ Drained
  /\ phase' = "flush"
  /\ UNCHANGED <<poolVars, metaVars, readVars, flushVars, cancelled>>

(* Start returns.  Only the bare context.Canceled is taken for a normal end. *)
StartReturns ==
  /\ phase = "flush"
  /\ copying[main] = {} /\ Batched = {}
  /\ IF firstErr = "error"
       THEN Die
       ELSE phase' = "close" /\ UNCHANGED flushVars
  /\ UNCHANGED <<poolVars, metaVars, readVars, cancelled>>

(* Mutant: Close does not wait for the flusher. *)
FlusherLeft ==
  /\ phase = "close"
  /\ phase' = "exited"
  /\ UNCHANGED <<poolVars, metaVars, readVars, flushVars, cancelled>>

(* Close returns when the flusher has: its own FlushAll finds no batch, as Start *)
(* has left none.                                                               *)
FlusherStopped ==
  /\ phase = "close"
  /\ copying[flusher] = {}
  /\ phase' = "exited"
  /\ UNCHANGED <<poolVars, metaVars, readVars, flushVars, cancelled>>

Signal ==
  /\ ~cancelled /\ ~Gone
  /\ cancelled' = TRUE
  /\ UNCHANGED <<poolVars, phase, metaVars, readVars, flushVars>>

Over ==
  /\ Gone
  /\ UNCHANGED processVars

----------------------------------------------------------------------------
Read(t) ==
  \/ CheckContext(t)
  \/ Fetch(t)
  \/ FetchTimesOut(t)
  \/ FetchFails(t)
  \/ Submit(t)

Main ==
  \/ MetadataMessage
  \/ MetadataTopicEnds
  \/ MetadataFails
  \/ Reload
  \/ ReloadFails
  \/ TopicsEnd
  \/ PoolDrained
  \/ FinalFlush
  \/ StartReturns
  \/ FlusherStopped

WorkerStep(w) ==
  /\ phase \in {"topics", "drain"}
  /\ Work(w)
  /\ UNCHANGED <<phase, metaVars, readVars, flushVars, cancelled>>

ProcessNext ==
  \/ Main
  \/ \E t \in Topic : Read(t)
  \/ \E w \in Worker : WorkerStep(w)
  \/ Flusher
  \/ Signal
  \/ Over

ProcessSpec == ProcessInit /\ [][ProcessNext]_processVars

(* The goroutines keep running; a fetch, an insert and a COPY end. *)
FairProcessSpec ==
  /\ ProcessSpec
  /\ WF_processVars(Main)
  /\ \A t \in Topic : WF_processVars(Read(t))
  /\ \A w \in Worker : WF_processVars(WorkerStep(w))
  /\ WF_processVars(Flusher)

----------------------------------------------------------------------------
ProcessTypeOK ==
  /\ TypeOK
  /\ phase \in PhaseValue
  /\ metaTopic \in Nat /\ metaOffset \in Nat
  /\ rows \subseteq Device
  /\ reader \in [Topic -> ReaderValue]
  /\ offset \in [Topic -> Nat] /\ \A t \in Topic : offset[t] <= Len(Log[t])
  /\ early \subseteq Topic
  /\ firstErr \in {None, "canceled", "error"}
  /\ copying[flusher] \cup copying[main] \cup written \cup lost \subseteq records
  /\ copying[flusher] \cap copying[main] = {} /\ written \cap lost = {}
  /\ cancelled \in BOOLEAN /\ faults \in 0..MaxFaults

(* The messages of a topic the run is to replay. *)
Due(t) == {Log[t][i] : i \in {j \in 1..Len(Log[t]) : j <= EndOffset}}

(* A run that ends without a signal and without a fatal error has replayed its *)
(* topics: every message below END_OFFSET has been through the pool, unless    *)
(* the broker was slow, and none from there on has.                            *)
ExitedIsComplete ==
  phase = "exited" /\ ~cancelled =>
    \A t \in Topic :
      /\ t \notin early => \A m \in Due(t) : Finished(m)
      /\ \A i \in 1..Len(Log[t]) : i > EndOffset => Log[t][i] \notin submitted

(* Close leaves no record behind: when the process ends in order, also after   *)
(* a signal, each record the workers handed to the batch writer is in the      *)
(* database or its COPY has failed, whichever goroutine that was to do it.     *)
NothingLeftInBatches ==
  phase = "exited" => records \subseteq written \cup lost

(* The metadata phase is over before the data: a message is kept as an orphan  *)
(* without a device only if the device table knows no such device.             *)
OrphansLackDevice ==
  \A m \in Message : orphans[m] = "missing_device" => DeviceOf[m] \notin rows

(* The store of BatchWriter, as this process uses it: what the workers hand on *)
(* is accepted, and pending until its COPY has ended.  Each record has a row of *)
(* its own; two with one primary key are the subject of BatchWriter.            *)
Handed == Message \X Field \X Table

Store == INSTANCE RecordStore WITH
  Record <- Handed, Row <- Handed, RowOf <- [r \in Handed |-> r],
  accepted <- records, pending <- records \ (written \cup lost),
  rejected <- lost, table <- written

(* Flusher, main goroutine, SIGTERM and fatal errors together still give every *)
(* record one end, with the group it was taken in: it is written once or given *)
(* up once, never both, and is not brought back.                               *)
BackfillImplementsStore == Store!Spec

(* A run ends, with or without a signal, whatever fails in it. *)
ProcessEnds == <>Gone
============================================================================
