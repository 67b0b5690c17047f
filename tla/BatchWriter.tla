---------------------------- MODULE BatchWriter ----------------------------
(***************************************************************************)
(* services/weatherlink-sql/repository/batch_writer.go (and its identical  *)
(* copy in weatherlink-sql-backfill): records of three kinds collect in    *)
(* three in-memory batches guarded by `mutex'; a batch is written to       *)
(* PostgreSQL in one transaction when it reaches flushSize, on a timer,    *)
(* and when the writer is closed.  A flush takes the batch out under       *)
(* `mutex', releases `mutex' for the I/O, which `flushMutex' serialises,   *)
(* and takes `mutex' back to count the records and to go on.               *)
(*                                                                         *)
(* The processes are the worker goroutines that call Add*, the background  *)
(* flusher goroutine, and the goroutine that calls Close.                  *)
(***************************************************************************)
EXTENDS Naturals, FiniteSets

CONSTANTS Worker,     \* goroutines that call AddNumeric, AddText and AddNull
          Flusher,    \* the backgroundFlusher goroutine
          Closer,     \* the goroutine that calls Close
          Free,       \* no holder of a mutex
          Record,     \* the records, each handed to Add* at most once
          Row, RowOf, \* the primary key a record is stored under
          KindOf,     \* which Add* a record is for: the table of its row
          FlushSize   \* BatchWriter.flushSize

(* The order in which FlushAll goes through the batches. *)
Numeric == 1
Text == 2
Null == 3
Kind == {Numeric, Text, Null}

Proc == Worker \cup {Flusher, Closer}

ASSUME ProcAssumption ==
  /\ Flusher \notin Worker /\ Closer \notin Worker /\ Flusher # Closer
  /\ Free \notin Proc
ASSUME RecordAssumption ==
  /\ IsFiniteSet(Record)
  /\ KindOf \in [Record -> Kind]
  /\ RowOf \in [Record -> Row]
  /\ \A r, s \in Record : RowOf[r] = RowOf[s] => KindOf[r] = KindOf[s]
ASSUME FlushSizeAssumption == FlushSize \in Nat \ {0}

VARIABLES
  mutex,      \* holder of bw.mutex, or Free
  flushMutex, \* holder of bw.flushMutex, or Free
  batch,      \* numericBatch, textBatch, nullBatch
  inserts,    \* totalNumericInserts, totalTextInserts, totalNullInserts
  flushes,    \* totalFlushes
  stopped,    \* stopChan is closed
  pc,         \* where each goroutine is, see PcValue
  stage,      \* the batch whose flush*Locked the goroutine is in
  taken,      \* local variable `batch' of flush*Locked: the batch taken out
  failed,     \* local variable `err' of flush*Locked is not nil
  table,      \* the records whose values are rows of the database
  accepted,   \* history: records handed to Add*
  rejected    \* history: records of batches whose flush returned an error

vars == <<mutex, flushMutex, batch, inserts, flushes, stopped, pc, stage, taken,
          failed, table, accepted, rejected>>

(* idle      worker: between two calls; flusher: in its select; Closer: not yet called
   locked    holds mutex, at the top of flush*Locked for stage
   swapped   batch taken out and mutex released, waits for flushMutex
   copying   holds flushMutex, the transaction is running
   copied    flushMutex released, waits for mutex
   joining   Close: stopChan closed, in wg.Wait
   done      goroutine returned, or Close returned                              *)
PcValue == {"idle", "locked", "swapped", "copying", "copied", "joining", "done"}

(* A flush has taken its batch out and its transaction has not ended. *)
InFlight(p) == pc[p] \in {"swapped", "copying"}

Pending == {r \in Record : \/ \E k \in Kind : r \in batch[k]
                           \/ \E p \in Proc : InFlight(p) /\ r \in taken[p]}

Store == INSTANCE RecordStore WITH pending <- Pending

----------------------------------------------------------------------------
Init ==
  /\ mutex = Free
  /\ flushMutex = Free
  /\ batch = [k \in Kind |-> {}]
  /\ inserts = [k \in Kind |-> 0]
  /\ flushes = 0
  /\ stopped = FALSE
  /\ pc = [p \in Proc |-> "idle"]
  /\ stage = [p \in Proc |-> Numeric]
  /\ taken = [p \in Proc |-> {}]
  /\ failed = [p \in Proc |-> FALSE]
  /\ table = {}
  /\ accepted = {}
  /\ rejected = {}

(* Mutant: the batch is flushed when it exceeds flushSize. *)
FullOffByOne(b) == Cardinality(b) > FlushSize

Full(b) == Cardinality(b) >= FlushSize

(* AddNumeric, AddText, AddNull: append under mutex; a full batch is flushed *)
(* by the caller, who still holds mutex when it enters flush*Locked.         *)
Add(w, r) ==
  /\ pc[w] = "idle"
  /\ mutex = Free
  /\ r \notin accepted
  /\ accepted' = accepted \cup {r}
  /\ batch' = [batch EXCEPT ![KindOf[r]] = @ \cup {r}]
  /\ IF Full(batch'[KindOf[r]])
       THEN /\ mutex' = w
            /\ pc' = [pc EXCEPT ![w] = "locked"]
            /\ stage' = [stage EXCEPT ![w] = KindOf[r]]
       ELSE UNCHANGED <<mutex, pc, stage>>
  /\ UNCHANGED <<flushMutex, inserts, flushes, stopped, taken, failed, table, rejected>>

(* The goroutine p, in FlushAll or Add*, is through with flush*Locked for    *)
(* stage[p] and has mutex: FlushAll goes on to the next batch, Add* and a    *)
(* FlushAll at its last batch unlock mutex and return.                       *)
Return(p) ==
  IF p \in Worker \/ stage[p] = Null
    THEN /\ mutex' = Free
         /\ pc' = [pc EXCEPT ![p] = IF p = Closer THEN "done" ELSE "idle"]
         /\ UNCHANGED stage
    ELSE /\ mutex' = p
         /\ pc' = [pc EXCEPT ![p] = "locked"]
         /\ stage' = [stage EXCEPT ![p] = @ + 1]

(* flush*Locked on an empty batch returns at once. *)
Skip(p) ==
  /\ pc[p] = "locked"
  /\ batch[stage[p]] = {}
  /\ Return(p)
  /\ UNCHANGED <<flushMutex, batch, inserts, flushes, stopped, taken, failed, table,
                 accepted, rejected>>

(* flush*Locked: take the batch out, leave an empty one, release mutex. *)
Swap(p) ==
  /\ pc[p] = "locked"
  /\ batch[stage[p]] # {}
  /\ taken' = [taken EXCEPT ![p] = batch[stage[p]]]
  /\ batch' = [batch EXCEPT ![stage[p]] = {}]
  /\ mutex' = Free
  /\ pc' = [pc EXCEPT ![p] = "swapped"]
  /\ UNCHANGED <<flushMutex, inserts, flushes, stopped, stage, failed, table, accepted,
                 rejected>>

LockFlush(p) ==
  /\ pc[p] = "swapped"
  /\ flushMutex = Free
  /\ flushMutex' = p
  /\ pc' = [pc EXCEPT ![p] = "copying"]
  /\ UNCHANGED <<mutex, batch, inserts, flushes, stopped, stage, taken, failed, table,
                 accepted, rejected>>

(* copy*Records committed; flushMutex.Unlock. *)
Copy(p) ==
  /\ pc[p] = "copying"
  /\ table' \in Store!Inserts(table, taken[p])
  /\ failed' = [failed EXCEPT ![p] = FALSE]
  /\ flushMutex' = Free
  /\ pc' = [pc EXCEPT ![p] = "copied"]
  /\ UNCHANGED <<mutex, batch, inserts, flushes, stopped, stage, taken, accepted, rejected>>

(* Mutant: the rows are inserted outside a transaction, some of them before  *)
(* the error.                                                                *)
RowsAfterPartialCopy(S) == UNION {Store!Inserts(table, T) : T \in SUBSET S}

RowsAfterError(S) == {table} \cup Store!Inserts(table, S)

(* copy*Records returned an error: the transaction was rolled back, or its   *)
(* COMMIT was applied and the answer lost.  flushMutex.Unlock.               *)
CopyFails(p) ==
  /\ pc[p] = "copying"
  /\ table' \in RowsAfterError(taken[p])
  /\ failed' = [failed EXCEPT ![p] = TRUE]
  /\ rejected' = rejected \cup taken[p]
  /\ flushMutex' = Free
  /\ pc' = [pc EXCEPT ![p] = "copied"]
  /\ UNCHANGED <<mutex, batch, inserts, flushes, stopped, stage, taken, accepted>>

Count(p) ==
  IF failed[p]
    THEN UNCHANGED <<inserts, flushes>>
    ELSE /\ inserts' = [inserts EXCEPT ![stage[p]] = @ + Cardinality(taken[p])]
         /\ flushes' = flushes + 1

(* Mutant: the batch is emptied after the I/O, with what was added meanwhile. *)
RelockEmptiesBatch(p) ==
  /\ pc[p] = "copied"
  /\ mutex = Free
  /\ Count(p)
  /\ taken' = [taken EXCEPT ![p] = {}]
  /\ batch' = [batch EXCEPT ![stage[p]] = {}]
  /\ Return(p)
  /\ UNCHANGED <<flushMutex, stopped, failed, table, accepted, rejected>>

(* Back under mutex: count a batch that was written, forget it either way.   *)
(* FlushAll goes on with its next batch after an error.                      *)
Relock(p) ==
  /\ pc[p] = "copied"
  /\ mutex = Free
  /\ Count(p)
  /\ taken' = [taken EXCEPT ![p] = {}]
  /\ Return(p)
  /\ UNCHANGED <<flushMutex, batch, stopped, failed, table, accepted, rejected>>

(* Mutant: FlushAll forgets the numeric batch. *)
FlushAllFromText(p) ==
  /\ mutex = Free
  /\ mutex' = p
  /\ pc' = [pc EXCEPT ![p] = "locked"]
  /\ stage' = [stage EXCEPT ![p] = Text]

(* FlushAll: mutex.Lock, then flushNumericLocked. *)
FlushAll(p) ==
  /\ mutex = Free
  /\ mutex' = p
  /\ pc' = [pc EXCEPT ![p] = "locked"]
  /\ stage' = [stage EXCEPT ![p] = Numeric]

(* backgroundFlusher: the ticker fires. *)
Tick ==
  /\ pc[Flusher] = "idle"
  /\ FlushAll(Flusher)
  /\ UNCHANGED <<flushMutex, batch, inserts, flushes, stopped, taken, failed, table,
                 accepted, rejected>>

(* backgroundFlusher: stopChan is closed.  With the ticker also ready Go's   *)
(* select takes either branch.                                               *)
StopFlusher ==
  /\ pc[Flusher] = "idle"
  /\ stopped
  /\ pc' = [pc EXCEPT ![Flusher] = "done"]
  /\ UNCHANGED <<mutex, flushMutex, batch, inserts, flushes, stopped, stage, taken, failed,
                 table, accepted, rejected>>

(* A worker goroutine ends: its channel was closed and is drained. *)
WorkerExit(w) ==
  /\ pc[w] = "idle"
  /\ pc' = [pc EXCEPT ![w] = "done"]
  /\ UNCHANGED <<mutex, flushMutex, batch, inserts, flushes, stopped, stage, taken, failed,
                 table, accepted, rejected>>

(* Mutant: Close waits for the flusher without closing stopChan. *)
CloseWithoutStop ==
  /\ pc[Closer] = "idle"
  /\ \A w \in Worker : pc[w] = "done"
  /\ pc' = [pc EXCEPT ![Closer] = "joining"]
  /\ UNCHANGED <<mutex, flushMutex, batch, inserts, flushes, stopped, stage, taken, failed,
                 table, accepted, rejected>>

(* Close is called after WorkerPool.Shutdown has returned, which waits for   *)
(* every worker; it closes stopChan.                                         *)
Close ==
  /\ pc[Closer] = "idle"
  /\ \A w \in Worker : pc[w] = "done"
  /\ stopped' = TRUE
  /\ pc' = [pc EXCEPT ![Closer] = "joining"]
  /\ UNCHANGED <<mutex, flushMutex, batch, inserts, flushes, stage, taken, failed, table,
                 accepted, rejected>>

(* Mutant: Close does not wait for the flusher, which may have a batch in hand. *)
CloseFlushAtOnce ==
  /\ pc[Closer] = "joining"
  /\ FlushAll(Closer)
  /\ UNCHANGED <<flushMutex, batch, inserts, flushes, stopped, taken, failed, table,
                 accepted, rejected>>

(* Close: wg.Wait is over, FlushAll for what is left. *)
CloseFlush ==
  /\ pc[Closer] = "joining"
  /\ pc[Flusher] = "done"
  /\ FlushAll(Closer)
  /\ UNCHANGED <<flushMutex, batch, inserts, flushes, stopped, taken, failed, table,
                 accepted, rejected>>

(* The process has ended: no goroutine is left to take a step. *)
Terminated ==
  /\ \A p \in Proc : pc[p] = "done"
  /\ UNCHANGED vars

Flush(p) ==
  \/ Skip(p)
  \/ Swap(p)
  \/ LockFlush(p)
  \/ Copy(p)
  \/ CopyFails(p)
  \/ Relock(p)

Next ==
  \/ \E w \in Worker, r \in Record : Add(w, r)
  \/ \E w \in Worker : WorkerExit(w)
  \/ \E p \in Proc : Flush(p)
  \/ Tick
  \/ StopFlusher
  \/ Close
  \/ CloseFlush
  \/ Terminated

Spec == Init /\ [][Next]_vars
----------------------------------------------------------------------------
(* Every goroutine that can go on does, and the database answers every      *)
(* transaction.  Go's mutexes are starvation free and its select chooses    *)
(* among the ready branches at random: the flusher, which locks mutex on    *)
(* every tick, cannot keep a worker from it for ever, nor can its ticker    *)
(* hide the closed stopChan for ever.  No fairness is assumed of callers:   *)
(* they may stop adding, and may never exit.                                *)
Fairness ==
  /\ \A p \in Proc : WF_vars(Flush(p))
  /\ \A w \in Worker : SF_vars(Relock(w))
  /\ WF_vars(Tick)
  /\ SF_vars(StopFlusher)
  /\ WF_vars(CloseFlush)

FairSpec == Spec /\ Fairness

----------------------------------------------------------------------------
TypeOK ==
  /\ mutex \in Proc \cup {Free}
  /\ flushMutex \in Proc \cup {Free}
  /\ batch \in [Kind -> SUBSET Record]
  /\ inserts \in [Kind -> Nat]
  /\ flushes \in Nat
  /\ stopped \in BOOLEAN
  /\ pc \in [Proc -> PcValue]
  /\ stage \in [Proc -> Kind]
  /\ taken \in [Proc -> SUBSET Record]
  /\ failed \in [Proc -> BOOLEAN]
  /\ table \subseteq Record
  /\ accepted \subseteq Record
  /\ rejected \subseteq Record

(* No record vanishes between the goroutines: one that was handed to Add* is *)
(* in a batch, in a batch some goroutine has taken out, in the database, or  *)
(* was in a batch whose flush returned an error.  (That error is all that is *)
(* left of it: the batch is not put back.)                                   *)
LossIsReported == \A r \in accepted : r \in Pending \cup rejected \/ Store!Stored(r)

(* A goroutine in the database, or waiting to get there, does not hold the   *)
(* mutex every Add* needs, and transactions run one at a time.               *)
NoIOUnderMutex ==
  \A p \in Proc : pc[p] \in {"swapped", "copying", "copied"} =>
    /\ mutex # p
    /\ pc[p] = "copying" <=> flushMutex = p

(* A batch reaches flushSize only while the goroutine that filled it is on   *)
(* its way to take it out.                                                   *)
BatchesBounded ==
  \A k \in Kind :
    /\ Cardinality(batch[k]) <= FlushSize
    /\ mutex = Free => Cardinality(batch[k]) < FlushSize

(* When Close has returned no record is left in a batch or with a goroutine    *)
(* that has taken one out: the flusher's last flush is over, and the FlushAll  *)
(* of Close has been through every batch after the last Add*.  The services    *)
(* close the connection pool next.                                             *)
CloseLeavesNothing == pc[Closer] = "done" => Pending = {}

(* Every step of the writer is a step of the atomic store. *)
ImplementsStore == Store!Spec

(* An accepted record does not stay in memory: the flush interval or Close   *)
(* brings it to a transaction, even if no further record arrives.            *)
RecordsSettle == \A r \in Record : r \in accepted ~> r \notin Pending

(* Close, once called, returns. *)
CloseReturns == pc[Closer] = "joining" ~> pc[Closer] = "done"
============================================================================
