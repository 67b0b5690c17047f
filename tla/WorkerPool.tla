----------------------------- MODULE WorkerPool -----------------------------
(***************************************************************************)
(* The worker pools of weatherlink-sql and weatherlink-sql-backfill        *)
(* (service/worker_pool.go of each): a listener goroutine submits messages *)
(* to a bounded channel, worker goroutines take them out and process them, *)
(* and Shutdown closes the channel and waits for the workers.              *)
(*                                                                         *)
(* Processing a message looks its device up in the cache, parses its body  *)
(* and, for each field, looks the tag up in the cache, creates it in the   *)
(* database and the cache when it is new, and hands a record to the batch  *)
(* writer if the value fits the data type the tag has.  Messages that      *)
(* cannot be processed are to be kept in orphaned_messages.  The two       *)
(* services differ in what they do with a body they cannot parse, in how   *)
(* they count an orphan, and in what may go on beside the pool (Backfill). *)
(***************************************************************************)
EXTENDS Naturals, Sequences, FiniteSets

CONSTANTS
  Worker,              \* worker goroutines, WORKER_POOL_SIZE of them
  Message,             \* the data messages the listener reads
  Device,              \* lsids a message may name
  Field,               \* names of the fields of a body, other than "ts"
  None,                \* no device, no tag, no message, no reason
  DeviceOf,            \* lsid header of a message, None if missing or not a number
  Malformed,           \* a body that is no JSON object
  Body,                \* a message's body: the type of the value of each of its
                       \* fields, or Malformed
  KnownDevice,         \* devices in the cache when the pool starts
  LateDevice,          \* devices the metadata listener may add to it afterwards
  KnownType,           \* data_type of the tags in the database when the pool starts
  Backfill             \* TRUE for weatherlink-sql-backfill, FALSE for weatherlink-sql

ValueType == {"number", "string", "bool", "null", "object"}
DataType == {"numeric", "text", "null"}
Table == {"records_numeric", "records_text", "records_null"}
Reason == {"missing_device", "failed_to_parse", "failed_to_create_tag"}
Tag == Device \X Field

ASSUME MessageAssumption ==
  /\ IsFiniteSet(Worker) /\ Worker # {}
  /\ DeviceOf \in [Message -> Device \cup {None}]
  /\ \A m \in Message :
       Body[m] # Malformed => /\ DOMAIN Body[m] \subseteq Field
                              /\ Body[m] \in [DOMAIN Body[m] -> ValueType]
  /\ None \notin Device \cup Message \cup DataType \cup Field \cup Table \cup Reason
ASSUME KnownAssumption ==
  /\ KnownDevice \subseteq Device /\ LateDevice \subseteq Device
  /\ Backfill \in BOOLEAN /\ (Backfill => LateDevice = {})
  /\ KnownType \in [Tag -> DataType \cup {None}]

VARIABLES
  channel,    \* messageChan
  closed,     \* messageChan is closed
  submitted,  \* messages SubmitMessage has returned for
  devices,    \* Cache.devices
  cached,     \* Cache.tags: the data type of each cached tag
  stored,     \* table tags: data_type of each tag
  orphans,    \* table orphaned_messages: reason kept for a message
  pc,         \* what each worker is doing, see PcValue
  msg,        \* the message a worker has in hand
  todo,       \* fields of it the worker's loop has not come to
  field,      \* the field the worker is at
  dataType,   \* the DataType of the tag the worker has in hand for it
  processed,  \* messagesProcessed
  errors,     \* processingErrors
  records,    \* records handed to the batch writer: message, field and table
  dropped,    \* fields refused by addRecordToBatch, which are only logged
  tagFailures,\* fields whose tag could not be created
  unsaved     \* messages for which an orphaned_messages insert failed

cacheVars == <<devices, cached>>
workVars == <<pc, msg, todo, field, dataType>>
metrics == <<processed, errors>>
outcome == <<records, dropped, tagFailures, unsaved>>
vars == <<channel, closed, submitted, cacheVars, stored, orphans, workVars, metrics, outcome>>

(* receive  in the select of worker()
   lookup   has a message, at the cache lookup of its device
   orphan   about to save the message as an orphan without a device
   fields   at the head of the loop over the fields
   create   about to upsert the tag of `field'
   tagFail  about to save an orphan for a tag that could not be created
   cache    about to put the new tag into the cache
   add      about to hand the record to the batch writer
   gone     returned                                                        *)
PcValue == {"receive", "lookup", "orphan", "fields", "create", "tagFail",
            "cache", "add", "gone"}

ChannelSize == 2 * Cardinality(Worker)

tagOf(w) == <<DeviceOf[msg[w]], field[w]>>
valueOf(w) == Body[msg[w]][field[w]]

----------------------------------------------------------------------------
(* Mutant: a string is taken for a number. *)
determineNumeric(value) == IF value = "null" THEN "null" ELSE "numeric"

determineDataType(value) ==
  CASE value = "null" -> "null"
    [] value \in {"number", "bool"} -> "numeric"
    [] OTHER -> "text"

(* The table addRecordToBatch puts a value into under a tag's data type; None *)
(* when it returns an error.                                                  *)
TableFor(type, value) ==
  CASE value = "null" -> "records_null"
    [] type = "numeric" /\ value = "number" -> "records_numeric"
    [] type = "text" /\ value = "string" -> "records_text"
    [] OTHER -> None

----------------------------------------------------------------------------
(* The tags the cache starts with: LoadAll takes the rows it could read for   *)
(* all of them, and weatherlink-sql only warns when it fails.                 *)
Init ==
  /\ channel = <<>>
  /\ closed = FALSE
  /\ submitted = {}
  /\ devices = KnownDevice
  /\ stored = KnownType
  /\ cached \in {[t \in Tag |-> IF t \in T THEN KnownType[t] ELSE None] : T \in SUBSET Tag}
  /\ orphans = [m \in Message |-> None]
  /\ pc = [w \in Worker |-> "receive"]
  /\ msg = [w \in Worker |-> None]
  /\ todo = [w \in Worker |-> {}]
  /\ field = [w \in Worker |-> None]
  /\ dataType = [w \in Worker |-> None]
  /\ processed = 0
  /\ errors = 0
  /\ records = {}
  /\ dropped = {}
  /\ tagFailures = {}
  /\ unsaved = {}

(* SubmitMessage: blocks while the channel is full.  ctx is never cancelled. *)
SubmitMessage(m) ==
  /\ ~closed
  /\ m \notin submitted
  /\ Len(channel) < ChannelSize
  /\ channel' = Append(channel, m)
  /\ submitted' = submitted \cup {m}
  /\ UNCHANGED <<closed, cacheVars, stored, orphans, workVars, metrics, outcome>>

(* Shutdown: close(messageChan), by the goroutine that ran the listener, after *)
(* its last SubmitMessage.  wg.Wait then waits for Drained.                    *)
Shutdown ==
  /\ ~closed
  /\ closed' = TRUE
  /\ UNCHANGED <<channel, submitted, cacheVars, stored, orphans, workVars, metrics, outcome>>

Drained == closed /\ \A w \in Worker : pc[w] = "gone"

(* The metadata listener upserted a device and put it into the cache.  The    *)
(* backfill service has no listener beside its pool: its LateDevice is empty. *)
DeviceLoaded(d) ==
  /\ d \in LateDevice \ devices
  /\ devices' = devices \cup {d}
  /\ UNCHANGED <<channel, closed, submitted, cached, stored, orphans, workVars, metrics,
                 outcome>>

----------------------------------------------------------------------------
Receive(w) ==
  /\ pc[w] = "receive"
  /\ channel # <<>>
  /\ channel' = Tail(channel)
  /\ msg' = [msg EXCEPT ![w] = Head(channel)]
  /\ pc' = [pc EXCEPT ![w] = "lookup"]
  /\ UNCHANGED <<closed, submitted, cacheVars, stored, orphans, todo, field, dataType,
                 metrics, outcome>>

(* Mutant: a failed receive is tried again. *)
ReceivesAgain(w) ==
  /\ pc[w] = "receive"
  /\ closed
  /\ channel = <<>>
  /\ UNCHANGED vars

(* A receive from a closed channel fails only when nothing is left in it. *)
WorkerReturns(w) ==
  /\ pc[w] = "receive"
  /\ closed
  /\ channel = <<>>
  /\ pc' = [pc EXCEPT ![w] = "gone"]
  /\ UNCHANGED <<channel, closed, submitted, cacheVars, stored, orphans, msg, todo, field,
                 dataType, metrics, outcome>>

(* processMessage returns to worker(), which counts the message. *)
Finish(w, failed) ==
  /\ pc' = [pc EXCEPT ![w] = "receive"]
  /\ msg' = [msg EXCEPT ![w] = None]
  /\ IF failed
       THEN errors' = errors + 1 /\ UNCHANGED processed
       ELSE processed' = processed + 1 /\ UNCHANGED errors

(* processMessage up to the loop: headers, device lookup, parsing. *)
Unparsable(w) == DeviceOf[msg[w]] \in devices /\ Body[msg[w]] = Malformed

Lookup(w) ==
  /\ pc[w] = "lookup"
  /\ DeviceOf[msg[w]] # None /\ ~Unparsable(w)
  /\ LET known == DeviceOf[msg[w]] \in devices
     IN /\ pc' = [pc EXCEPT ![w] = IF known THEN "fields" ELSE "orphan"]
        /\ todo' = [todo EXCEPT ![w] = IF known THEN DOMAIN Body[msg[w]] ELSE {}]
  /\ UNCHANGED <<channel, closed, submitted, cacheVars, stored, orphans, msg, field,
                 dataType, metrics, outcome>>

(* OrphanRepository.Save upserts on (topic, partition, offset): the message's *)
(* last reason stays.  The insert may fail.                                   *)
Save(m, reason) ==
  \/ /\ orphans' = [orphans EXCEPT ![m] = reason]
     /\ UNCHANGED unsaved
  \/ /\ unsaved' = unsaved \cup {m}
     /\ UNCHANGED orphans

SaveMissingDevice(w) ==
  /\ pc[w] = "orphan"
  /\ Save(msg[w], "missing_device")
  /\ Finish(w, Backfill \/ unsaved' # unsaved)
  /\ UNCHANGED <<channel, closed, submitted, cacheVars, stored, todo, field, dataType,
                 records, dropped, tagFailures>>

(* Mutant: a body that cannot be parsed is logged instead of saved. *)
LogParseError(w) ==
  /\ pc[w] = "lookup"
  /\ DeviceOf[msg[w]] = None \/ Unparsable(w)
  /\ Finish(w, TRUE)
  /\ UNCHANGED <<channel, closed, submitted, cacheVars, stored, orphans, todo, field,
                 dataType, outcome>>

(* An error without lsid, or without a body that can be parsed; only          *)
(* weatherlink-sql-backfill saves the latter.  No other goroutine looks at    *)
(* that row, so the insert is part of the step.                               *)
ReturnError(w) ==
  /\ pc[w] = "lookup"
  /\ DeviceOf[msg[w]] = None \/ Unparsable(w)
  /\ IF Backfill /\ Unparsable(w)
       THEN Save(msg[w], "failed_to_parse")
       ELSE UNCHANGED <<orphans, unsaved>>
  /\ Finish(w, TRUE)
  /\ UNCHANGED <<channel, closed, submitted, cacheVars, stored, todo, field, dataType,
                 records, dropped, tagFailures>>

----------------------------------------------------------------------------
(* The loop over the fields; Go iterates over the map in any order. *)
NextField(w, f) ==
  /\ pc[w] = "fields"
  /\ f \in todo[w]
  /\ todo' = [todo EXCEPT ![w] = @ \ {f}]
  /\ field' = [field EXCEPT ![w] = f]
  /\ LET type == cached[<<DeviceOf[msg[w]], f>>]
     IN IF type = None
          THEN /\ dataType' = [dataType EXCEPT ![w] = determineDataType(Body[msg[w]][f])]
               /\ pc' = [pc EXCEPT ![w] = "create"]
          ELSE /\ dataType' = [dataType EXCEPT ![w] = type]
               /\ pc' = [pc EXCEPT ![w] = "add"]
  /\ UNCHANGED <<channel, closed, submitted, cacheVars, stored, orphans, msg, metrics,
                 outcome>>

EndOfFields(w) ==
  /\ pc[w] = "fields"
  /\ todo[w] = {}
  /\ Finish(w, FALSE)
  /\ UNCHANGED <<channel, closed, submitted, cacheVars, stored, orphans, todo, field,
                 dataType, outcome>>

(* Back to the head of the loop: the variables of its body are gone. *)
EndOfBody(w) ==
  /\ pc' = [pc EXCEPT ![w] = "fields"]
  /\ field' = [field EXCEPT ![w] = None]
  /\ dataType' = [dataType EXCEPT ![w] = None]

(* TagRepository.Create: an upsert that overwrites data_type. *)
CreateTag(w) ==
  /\ pc[w] = "create"
  /\ stored' = [stored EXCEPT ![tagOf(w)] = dataType[w]]
  /\ pc' = [pc EXCEPT ![w] = "cache"]
  /\ UNCHANGED <<channel, closed, submitted, cacheVars, orphans, msg, todo, field, dataType,
                 metrics, outcome>>

(* Mutant: the error is logged and the loop body goes on. *)
CreateTagFailsOn(w) ==
  /\ pc[w] = "create"
  /\ tagFailures' = tagFailures \cup {<<msg[w], field[w]>>}
  /\ pc' = [pc EXCEPT ![w] = "cache"]
  /\ UNCHANGED <<channel, closed, submitted, cacheVars, stored, orphans, msg, todo, field,
                 dataType, metrics, records, dropped, unsaved>>

(* The upsert fails, or its answer is lost. *)
CreateTagFails(w) ==
  /\ pc[w] = "create"
  /\ stored' \in {stored, [stored EXCEPT ![tagOf(w)] = dataType[w]]}
  /\ tagFailures' = tagFailures \cup {<<msg[w], field[w]>>}
  /\ pc' = [pc EXCEPT ![w] = "tagFail"]
  /\ UNCHANGED <<channel, closed, submitted, cacheVars, orphans, msg, todo, field, dataType,
                 metrics, records, dropped, unsaved>>

(* Mutant: the message is given up at the first tag that cannot be created. *)
ReturnTagFailure(w) ==
  /\ pc[w] = "tagFail"
  /\ Save(msg[w], "failed_to_create_tag")
  /\ Finish(w, TRUE)
  /\ todo' = [todo EXCEPT ![w] = {}]
  /\ UNCHANGED <<channel, closed, submitted, cacheVars, stored, field, dataType,
                 records, dropped, tagFailures>>

(* The result of this Save is not looked at; the loop goes on. *)
SaveTagFailure(w) ==
  /\ pc[w] = "tagFail"
  /\ Save(msg[w], "failed_to_create_tag")
  /\ EndOfBody(w)
  /\ UNCHANGED <<channel, closed, submitted, cacheVars, stored, msg, todo, metrics, records,
                 dropped, tagFailures>>

CacheTag(w) ==
  /\ pc[w] = "cache"
  /\ cached' = [cached EXCEPT ![tagOf(w)] = dataType[w]]
  /\ pc' = [pc EXCEPT ![w] = "add"]
  /\ UNCHANGED <<channel, closed, submitted, devices, stored, orphans, msg, todo, field,
                 dataType, metrics, outcome>>

(* addRecordToBatch with the tag in hand, which is not looked up again.  Its  *)
(* error is only logged.                                                      *)
AddRecord(w) ==
  /\ pc[w] = "add"
  /\ LET to == TableFor(dataType[w], valueOf(w))
     IN IF to = None
          THEN /\ dropped' = dropped \cup {<<msg[w], field[w]>>}
               /\ UNCHANGED records
          ELSE /\ records' = records \cup {<<msg[w], field[w], to>>}
               /\ UNCHANGED dropped
  /\ EndOfBody(w)
  /\ UNCHANGED <<channel, closed, submitted, cacheVars, stored, orphans, msg, todo, metrics,
                 tagFailures, unsaved>>

----------------------------------------------------------------------------
(* Shutdown has returned; nothing is left to run. *)
Stopped ==
  /\ Drained
  /\ UNCHANGED vars

Work(w) ==
  \/ Receive(w)
  \/ WorkerReturns(w)
  \/ Lookup(w)
  \/ ReturnError(w)
  \/ SaveMissingDevice(w)
  \/ \E f \in Field : NextField(w, f)
  \/ EndOfFields(w)
  \/ CreateTag(w)
  \/ CreateTagFails(w)
  \/ SaveTagFailure(w)
  \/ CacheTag(w)
  \/ AddRecord(w)

Next ==
  \/ \E m \in Message : SubmitMessage(m)
  \/ Shutdown
  \/ \E d \in Device : DeviceLoaded(d)
  \/ \E w \in Worker : Work(w)
  \/ Stopped

Spec == Init /\ [][Next]_vars

(* Worker goroutines keep running and the database answers. *)
FairSpec == Spec /\ \A w \in Worker : WF_vars(Work(w))

----------------------------------------------------------------------------
TypeOK ==
  /\ channel \in Seq(Message) /\ Len(channel) <= ChannelSize
  /\ closed \in BOOLEAN
  /\ submitted \subseteq Message
  /\ devices \subseteq Device
  /\ cached \in [Tag -> DataType \cup {None}]
  /\ stored \in [Tag -> DataType \cup {None}]
  /\ orphans \in [Message -> Reason \cup {None}]
  /\ pc \in [Worker -> PcValue]
  /\ msg \in [Worker -> Message \cup {None}]
  /\ todo \in [Worker -> SUBSET Field]
  /\ field \in [Worker -> Field \cup {None}]
  /\ dataType \in [Worker -> DataType \cup {None}]
  /\ processed \in Nat /\ errors \in Nat
  /\ records \subseteq Message \X Field \X Table
  /\ dropped \subseteq Message \X Field
  /\ tagFailures \subseteq Message \X Field
  /\ unsaved \subseteq Message

(* The pool is through with a message. *)
Finished(m) ==
  /\ m \in submitted
  /\ \A i \in DOMAIN channel : channel[i] # m
  /\ \A w \in Worker : msg[w] # m

(* No message disappears between the listener and the workers, and none is    *)
(* processed twice: the two counters, the channel and the workers' hands add  *)
(* up to what was submitted, and once Shutdown has returned the counters      *)
(* alone do.                                                                  *)
MessagesConserved ==
  /\ processed + errors + Len(channel) + Cardinality({w \in Worker : msg[w] # None})
       = Cardinality(submitted)
  /\ Drained => processed + errors = Cardinality(submitted)

Recorded(m, f) == \E t \in Table : <<m, f, t>> \in records

(* The message is in orphaned_messages, unless that insert failed. *)
Kept(m) == orphans[m] # None \/ m \in unsaved

(* A field that goes wrong does not take others with it, and nothing that is  *)
(* left out for want of a device or a tag is forgotten: of a message that was *)
(* taken up every field was handed to the batch writer or refused for its     *)
(* type, or its tag could not be created and the message is kept; or there    *)
(* was no device, and the message is kept.                                    *)
EveryFieldTreated ==
  \A m \in Message : Finished(m) /\ DeviceOf[m] # None /\ Body[m] # Malformed =>
    \/ orphans[m] = "missing_device" \/ m \in unsaved
    \/ \A f \in DOMAIN Body[m] :
         \/ Recorded(m, f) \/ <<m, f>> \in dropped
         \/ <<m, f>> \in tagFailures /\ Kept(m)

(* A message whose body cannot be parsed is kept too.  True of the backfill   *)
(* service, not of weatherlink-sql, whose documentation promises it.          *)
ParseErrorsKept ==
  \A m \in Message : Finished(m) /\ DeviceOf[m] # None /\ Body[m] = Malformed => Kept(m)

(* The foreign key of the records_* tables: whatever two workers do about a   *)
(* tag at once, one that is in the cache, or that a record was built with, is *)
(* a row of tags.                                                             *)
TagsExist ==
  /\ \A t \in Tag : cached[t] # None => stored[t] # None
  /\ \A r \in records : stored[<<DeviceOf[r[1]], r[2]>>] # None

(* A value that fits one of the tables is dropped only because its tag has    *)
(* another data type, and it has that from the database's state at the start  *)
(* or from another message, never from the order in which the workers looked  *)
(* up, created and cached the tag.                                            *)
TypeElsewhere(m, f) ==
  LET own == determineDataType(Body[m][f])
  IN \/ KnownType[<<DeviceOf[m], f>>] \notin {None, own}
     \/ \E n \in submitted \ {m} :
          /\ DeviceOf[n] = DeviceOf[m]
          /\ Body[n] # Malformed
          /\ f \in DOMAIN Body[n]
          /\ determineDataType(Body[n][f]) # own

DropsOnlyOnTypeConflict ==
  \A d \in dropped :
    Body[d[1]][d[2]] \in {"number", "string"} => TypeElsewhere(d[1], d[2])

(* Shutdown returns. *)
ShutdownReturns == closed ~> Drained
============================================================================
