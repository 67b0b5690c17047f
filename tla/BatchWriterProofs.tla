------------------------- MODULE BatchWriterProofs -------------------------
(***************************************************************************)
(* Theorems about BatchWriter, for every number of workers, every set of   *)
(* records and every flushSize.                                            *)
(***************************************************************************)
EXTENDS BatchWriter, FiniteSetTheorems, TLAPS

USE ProcAssumption, RecordAssumption, FlushSizeAssumption DEF Kind, Numeric, Text, Null

(* What the INSERT ... ON CONFLICT DO NOTHING of a batch does to the table: *)
(* no row is lost, only rows of the batch appear, all of them are there.    *)
LEMMA InsertsCover ==
  ASSUME NEW tbl, NEW S, NEW new \in Store!Inserts(tbl, S)
  PROVE  /\ tbl \subseteq new
         /\ new \subseteq tbl \cup S
         /\ \A r \in S : Store!Covers(new, r)
BY DEF Store!Inserts, Store!Covers

----------------------------------------------------------------------------
(* Every variable keeps its type under every operation of the writer. *)
THEOREM TypeCorrect == Spec => []TypeOK
<1>1. Init => TypeOK
  <2> SUFFICES ASSUME Init PROVE TypeOK
    OBVIOUS
  <2>1. /\ batch \in [Kind -> SUBSET Record]
        /\ inserts \in [Kind -> Nat]
        /\ stage \in [Proc -> Kind]
    BY DEF Init
  <2>2. /\ pc \in [Proc -> PcValue]
        /\ taken \in [Proc -> SUBSET Record]
        /\ failed \in [Proc -> BOOLEAN]
    BY DEF Init, PcValue
  <2> QED BY <2>1, <2>2 DEF Init, TypeOK
<1>2. TypeOK /\ [Next]_vars => TypeOK'
  <2> SUFFICES ASSUME TypeOK, [Next]_vars PROVE TypeOK'
    OBVIOUS
  <2> USE DEF TypeOK, PcValue
  <2>i. ASSUME NEW p \in Proc, NEW new \in Store!Inserts(table, taken[p])
        PROVE  new \subseteq Record
    <3>1. new \subseteq table \cup taken[p]
      BY InsertsCover
    <3> QED BY <3>1
  <2>r. ASSUME NEW p \in Proc, Return(p) 
        PROVE /\ mutex' \in Proc \cup {Free}
              /\ pc' \in [Proc -> PcValue]
              /\ stage' \in [Proc -> Kind]
    BY <2>r DEF Return
  <2>1. ASSUME NEW w \in Worker, NEW r \in Record, Add(w, r) PROVE TypeOK'
    BY <2>1 DEF Add, Proc
  <2>2. ASSUME NEW w \in Worker, WorkerExit(w) PROVE TypeOK'
    BY <2>2 DEF WorkerExit, Proc
  <2>3. ASSUME NEW p \in Proc, Skip(p) PROVE TypeOK'
    BY <2>3, <2>r DEF Skip
  <2>4. ASSUME NEW p \in Proc, Swap(p) PROVE TypeOK'
    BY <2>4 DEF Swap
  <2>5. ASSUME NEW p \in Proc, LockFlush(p) PROVE TypeOK'
    BY <2>5 DEF LockFlush
  <2>6. ASSUME NEW p \in Proc, Copy(p) PROVE TypeOK'
    <3>1. table' \subseteq Record
      BY <2>6, <2>i DEF Copy
    <3> QED BY <2>6, <3>1 DEF Copy
  <2>7. ASSUME NEW p \in Proc, CopyFails(p) PROVE TypeOK'
    <3>1. table' \subseteq Record
      BY <2>7, <2>i DEF CopyFails, RowsAfterError
    <3> QED BY <2>7, <3>1 DEF CopyFails
  <2>8. ASSUME NEW p \in Proc, Relock(p) PROVE TypeOK'
    <3>1. Cardinality(taken[p]) \in Nat
      BY FS_Subset, FS_CardinalityType
    <3>2. inserts' \in [Kind -> Nat] /\ flushes' \in Nat
      BY <2>8, <3>1 DEF Relock, Count
    <3> QED BY <2>8, <2>r, <3>2 DEF Relock
  <2>9. CASE Tick
    BY <2>9 DEF Tick, FlushAll, Proc
  <2>10. CASE StopFlusher
    BY <2>10 DEF StopFlusher, Proc
  <2>11. CASE Close
    BY <2>11 DEF Close, Proc
  <2>12. CASE CloseFlush
    BY <2>12 DEF CloseFlush, FlushAll, Proc
  <2>13. CASE UNCHANGED vars
    BY <2>13 DEF vars
  <2> QED
    BY <2>1, <2>2, <2>3, <2>4, <2>5, <2>6, <2>7, <2>8, <2>9, <2>10, <2>11, <2>12, <2>13
       DEF Next, Flush, Terminated
<1> QED BY <1>1, <1>2, PTL DEF Spec
----------------------------------------------------------------------------
(* No record handed to Add* vanishes without an error.  Together with the    *)
(* types the invariant is inductive: a batch that is taken out of the writer *)
(* goes into the hands of one goroutine, which keeps it until its            *)
(* transaction has ended one way or the other.                               *)
THEOREM LossAlwaysReported == Spec => []LossIsReported
<1>1. Init => LossIsReported
  BY DEF Init, LossIsReported
<1>2. TypeOK /\ LossIsReported /\ [Next]_vars => LossIsReported'
  <2> SUFFICES ASSUME TypeOK, LossIsReported, [Next]_vars,
                      NEW r \in accepted'
               PROVE  r \in Pending' \cup rejected' \/ Store!Stored(r)'
    BY DEF LossIsReported
  <2> DEFINE Safe == r \in Pending \cup rejected \/ Store!Stored(r)
  <2> USE DEF TypeOK
  <2>0. r \in accepted => Safe
    BY DEF LossIsReported
  <2>1. ASSUME NEW w \in Worker, NEW new \in Record, Add(w, new) PROVE Safe'
    <3>1. /\ KindOf[new] \in Kind
          /\ batch' = [batch EXCEPT ![KindOf[new]] = @ \cup {new}]
      BY <2>1 DEF Add
    <3>2. Pending \cup {new} \subseteq Pending'
      BY <2>1, <3>1 DEF Add, Pending, InFlight, Proc
    <3>3. accepted' = accepted \cup {new} /\ table' = table /\ rejected' = rejected
      BY <2>1 DEF Add
    <3> QED BY <2>0, <3>2, <3>3 DEF Store!Stored, Store!Covers
  <2>2. ASSUME NEW w \in Worker, WorkerExit(w) PROVE Safe'
    <3>1. Pending \subseteq Pending'
      BY <2>2 DEF WorkerExit, Pending, InFlight, Proc
    <3> QED BY <2>0, <2>2, <3>1 DEF WorkerExit, Store!Stored, Store!Covers
  <2>3. ASSUME NEW p \in Proc, Skip(p) PROVE Safe'
    <3>1. Pending \subseteq Pending'
      BY <2>3 DEF Skip, Return, Pending, InFlight
    <3> QED BY <2>0, <2>3, <3>1 DEF Skip, Store!Stored, Store!Covers
  <2>4. ASSUME NEW p \in Proc, Swap(p) PROVE Safe'
    <3>1. Pending \subseteq Pending'
      BY <2>4 DEF Swap, Pending, InFlight
    <3> QED BY <2>0, <2>4, <3>1 DEF Swap, Store!Stored, Store!Covers
  <2>5. ASSUME NEW p \in Proc, LockFlush(p) PROVE Safe'
    <3>1. Pending \subseteq Pending'
      BY <2>5 DEF LockFlush, Pending, InFlight
    <3> QED BY <2>0, <2>5, <3>1 DEF LockFlush, Store!Stored, Store!Covers
  <2>6. ASSUME NEW p \in Proc, Copy(p) PROVE Safe'
    <3>1. Pending \subseteq Pending' \cup taken[p]
      BY <2>6 DEF Copy, Pending, InFlight
    <3>2. table \subseteq table' /\ \A s \in taken[p] : Store!Covers(table', s)
      BY <2>6, InsertsCover DEF Copy
    <3>3. accepted' = accepted /\ rejected' = rejected
      BY <2>6 DEF Copy
    <3> QED BY <2>0, <3>1, <3>2, <3>3 DEF Store!Stored, Store!Covers
  <2>7. ASSUME NEW p \in Proc, CopyFails(p) PROVE Safe'
    <3>1. Pending \subseteq Pending' \cup taken[p]
      BY <2>7 DEF CopyFails, Pending, InFlight
    <3>2. table \subseteq table'
      BY <2>7, InsertsCover DEF CopyFails, RowsAfterError
    <3>3. accepted' = accepted /\ rejected' = rejected \cup taken[p]
      BY <2>7 DEF CopyFails
    <3> QED BY <2>0, <3>1, <3>2, <3>3 DEF Store!Stored, Store!Covers
  <2>8. ASSUME NEW p \in Proc, Relock(p) PROVE Safe'
    <3>1. Pending \subseteq Pending'
      BY <2>8 DEF Relock, Return, Pending, InFlight
    <3> QED BY <2>0, <2>8, <3>1 DEF Relock, Store!Stored, Store!Covers
  <2>9. CASE Tick
    <3>1. Pending \subseteq Pending'
      BY <2>9 DEF Tick, FlushAll, Pending, InFlight, Proc
    <3> QED BY <2>0, <2>9, <3>1 DEF Tick, Store!Stored, Store!Covers
  <2>10. CASE StopFlusher
    <3>1. Pending \subseteq Pending'
      BY <2>10 DEF StopFlusher, Pending, InFlight, Proc
    <3> QED BY <2>0, <2>10, <3>1 DEF StopFlusher, Store!Stored, Store!Covers
  <2>11. CASE Close
    <3>1. Pending \subseteq Pending'
      BY <2>11 DEF Close, Pending, InFlight, Proc
    <3> QED BY <2>0, <2>11, <3>1 DEF Close, Store!Stored, Store!Covers
  <2>12. CASE CloseFlush
    <3>1. Pending \subseteq Pending'
      BY <2>12 DEF CloseFlush, FlushAll, Pending, InFlight, Proc
    <3> QED BY <2>0, <2>12, <3>1 DEF CloseFlush, Store!Stored, Store!Covers
  <2>13. CASE UNCHANGED vars
    BY <2>0, <2>13 DEF vars, Pending, InFlight, Store!Stored, Store!Covers
  <2> QED
    BY <2>1, <2>2, <2>3, <2>4, <2>5, <2>6, <2>7, <2>8, <2>9, <2>10, <2>11, <2>12, <2>13
       DEF Next, Flush, Terminated
<1> QED BY <1>1, <1>2, TypeCorrect, PTL DEF Spec
----------------------------------------------------------------------------
(* Who holds the two mutexes: exactly the goroutine at the top of a          *)
(* flush*Locked, and exactly the one whose transaction runs.                 *)
LockInv ==
  /\ \A p \in Proc : pc[p] = "locked" <=> mutex = p
  /\ \A p \in Proc : pc[p] = "copying" <=> flushMutex = p

LEMMA LocksHeld == Spec => []LockInv
<1>1. Init => LockInv
  BY DEF Init, LockInv
<1>2. TypeOK /\ LockInv /\ [Next]_vars => LockInv'
  <2> SUFFICES ASSUME TypeOK, LockInv, [Next]_vars PROVE LockInv'
    OBVIOUS
  <2> USE DEF TypeOK, LockInv
  <2>1. ASSUME NEW w \in Worker, NEW r \in Record, Add(w, r) PROVE LockInv'
    BY <2>1 DEF Add, Proc
  <2>2. ASSUME NEW w \in Worker, WorkerExit(w) PROVE LockInv'
    BY <2>2 DEF WorkerExit, Proc
  <2>3. ASSUME NEW p \in Proc, Skip(p) PROVE LockInv'
    BY <2>3 DEF Skip, Return
  <2>4. ASSUME NEW p \in Proc, Swap(p) PROVE LockInv'
    BY <2>4 DEF Swap
  <2>5. ASSUME NEW p \in Proc, LockFlush(p) PROVE LockInv'
    BY <2>5 DEF LockFlush
  <2>6. ASSUME NEW p \in Proc, Copy(p) PROVE LockInv'
    BY <2>6 DEF Copy
  <2>7. ASSUME NEW p \in Proc, CopyFails(p) PROVE LockInv'
    BY <2>7 DEF CopyFails
  <2>8. ASSUME NEW p \in Proc, Relock(p) PROVE LockInv'
    BY <2>8 DEF Relock, Return
  <2>9. CASE Tick
    BY <2>9 DEF Tick, FlushAll, Proc
  <2>10. CASE StopFlusher
    BY <2>10 DEF StopFlusher, Proc
  <2>11. CASE Close
    BY <2>11 DEF Close, Proc
  <2>12. CASE CloseFlush
    BY <2>12 DEF CloseFlush, FlushAll, Proc
  <2>13. CASE UNCHANGED vars
    BY <2>13 DEF vars
  <2> QED
    BY <2>1, <2>2, <2>3, <2>4, <2>5, <2>6, <2>7, <2>8, <2>9, <2>10, <2>11, <2>12, <2>13
       DEF Next, Flush, Terminated
<1> QED BY <1>1, <1>2, TypeCorrect, PTL DEF Spec

(* No goroutine keeps the mutex of Add* while it waits for the database, and *)
(* transactions do not overlap.                                              *)
THEOREM IOOutsideMutex == Spec => []NoIOUnderMutex
<1>1. LockInv => NoIOUnderMutex
  BY DEF LockInv, NoIOUnderMutex
<1> QED BY <1>1, LocksHeld, PTL

----------------------------------------------------------------------------
(* A batch is below flushSize, or just reached it and its filler has mutex.  *)
BoundInv ==
  \A k \in Kind :
    \/ Cardinality(batch[k]) < FlushSize
    \/ /\ Cardinality(batch[k]) = FlushSize
       /\ \E w \in Worker : pc[w] = "locked" /\ stage[w] = k

(* A batch never outgrows flushSize, and is below it when no one is about to *)
(* take it out.                                                              *)
THEOREM BatchesStayBounded == Spec => []BatchesBounded
<1>1. Init => BoundInv
  BY FS_EmptySet DEF Init, BoundInv
<1>2. TypeOK /\ LockInv /\ BoundInv /\ [Next]_vars => BoundInv'
  <2> SUFFICES ASSUME TypeOK, LockInv, BoundInv, [Next]_vars PROVE BoundInv'
    OBVIOUS
  <2> USE DEF TypeOK, LockInv
  <2>0. \A k \in Kind : IsFiniteSet(batch[k]) /\ Cardinality(batch[k]) \in Nat
    BY FS_Subset, FS_CardinalityType
  <2>1. ASSUME NEW w \in Worker, NEW r \in Record, Add(w, r) PROVE BoundInv'
    <3> DEFINE n == KindOf[r]
    <3>1. n \in Kind /\ mutex = Free
      BY <2>1 DEF Add
    <3>2. \A p \in Proc : pc[p] # "locked"
      BY <3>1
    <3>3. \A k \in Kind : Cardinality(batch[k]) < FlushSize
      BY <3>2 DEF BoundInv, Proc
    <3>4. \/ Cardinality(batch[n] \cup {r}) = Cardinality(batch[n])
          \/ Cardinality(batch[n] \cup {r}) = Cardinality(batch[n]) + 1
      BY <2>0, <3>1, FS_AddElement
    <3>5. /\ batch'[n] = batch[n] \cup {r}
          /\ \A k \in Kind \ {n} : batch'[k] = batch[k]
      BY <2>1, <3>1 DEF Add
    <3>6. CASE Full(batch'[n])
      <4>1. pc'[w] = "locked" /\ stage'[w] = n
        BY <2>1, <3>6 DEF Add, Proc
      <4>2. Cardinality(batch'[n]) = FlushSize
        BY <2>0, <3>1, <3>3, <3>4, <3>5, <3>6 DEF Full
      <4> QED BY <3>3, <3>5, <4>1, <4>2 DEF BoundInv
    <3>7. CASE ~Full(batch'[n])
      <4>1. Cardinality(batch'[n]) < FlushSize
        BY <2>0, <3>1, <3>4, <3>5, <3>7 DEF Full
      <4> QED BY <3>3, <3>5, <4>1 DEF BoundInv
    <3> QED BY <3>6, <3>7
  <2>2. ASSUME NEW w \in Worker, WorkerExit(w) PROVE BoundInv'
    BY <2>2 DEF WorkerExit, BoundInv, Proc
  <2>3. ASSUME NEW p \in Proc, Skip(p) PROVE BoundInv'
    <3>1. Cardinality(batch[stage[p]]) = 0
      BY <2>3, FS_EmptySet DEF Skip
    <3>2. \A q \in Proc \ {p} : pc'[q] = pc[q] /\ stage'[q] = stage[q]
      BY <2>3 DEF Skip, Return
    <3>3. \A k \in Kind \ {stage[p]} : Cardinality(batch[k]) < FlushSize
      BY <2>3 DEF Skip, BoundInv, Proc
    <3> QED BY <2>3, <3>1, <3>3 DEF Skip, BoundInv
  <2>4. ASSUME NEW p \in Proc, Swap(p) PROVE BoundInv'
    <3>1. \A k \in Kind \ {stage[p]} : Cardinality(batch[k]) < FlushSize
      BY <2>4 DEF Swap, BoundInv, Proc
    <3>2. Cardinality(batch'[stage[p]]) = 0
      BY <2>4, FS_EmptySet DEF Swap
    <3>3. \A k \in Kind \ {stage[p]} : batch'[k] = batch[k]
      BY <2>4 DEF Swap
    <3> QED BY <3>1, <3>2, <3>3 DEF BoundInv
  <2>5. ASSUME NEW p \in Proc, LockFlush(p) PROVE BoundInv'
    BY <2>5 DEF LockFlush, BoundInv, Proc
  <2>6. ASSUME NEW p \in Proc, Copy(p) PROVE BoundInv'
    BY <2>6 DEF Copy, BoundInv, Proc
  <2>7. ASSUME NEW p \in Proc, CopyFails(p) PROVE BoundInv'
    BY <2>7 DEF CopyFails, BoundInv, Proc
  <2>8. ASSUME NEW p \in Proc, Relock(p) PROVE BoundInv'
    <3>1. \A k \in Kind : Cardinality(batch[k]) < FlushSize
      BY <2>8 DEF Relock, BoundInv, Proc
    <3> QED BY <2>8, <3>1 DEF Relock, BoundInv
  <2>9. CASE Tick
    BY <2>9 DEF Tick, FlushAll, BoundInv, Proc
  <2>10. CASE StopFlusher
    BY <2>10 DEF StopFlusher, BoundInv, Proc
  <2>11. CASE Close
    BY <2>11 DEF Close, BoundInv, Proc
  <2>12. CASE CloseFlush
    BY <2>12 DEF CloseFlush, FlushAll, BoundInv, Proc
  <2>13. CASE UNCHANGED vars
    BY <2>13 DEF vars, BoundInv
  <2> QED
    BY <2>1, <2>2, <2>3, <2>4, <2>5, <2>6, <2>7, <2>8, <2>9, <2>10, <2>11, <2>12, <2>13
       DEF Next, Flush, Terminated
<1>3. TypeOK /\ LockInv /\ BoundInv => BatchesBounded
  <2> SUFFICES ASSUME TypeOK, LockInv, BoundInv, NEW k \in Kind
               PROVE  /\ Cardinality(batch[k]) <= FlushSize
                      /\ mutex = Free => Cardinality(batch[k]) < FlushSize
    BY DEF BatchesBounded
  <2>1. Cardinality(batch[k]) \in Nat
    BY FS_Subset, FS_CardinalityType DEF TypeOK
  <2>2. mutex = Free => \A w \in Worker : pc[w] # "locked"
    BY DEF LockInv, Proc
  <2> QED BY <2>1, <2>2 DEF BoundInv
<1> QED BY <1>1, <1>2, <1>3, TypeCorrect, LocksHeld, PTL DEF Spec
----------------------------------------------------------------------------
(* Once Close is called the workers have returned, once it flushes the flusher   *)
(* has too, and the batches it has been through are empty: no one adds to them.  *)
CloseInv ==
  /\ pc[Closer] # "idle" => \A w \in Worker : pc[w] = "done"
  /\ pc[Closer] \notin {"idle", "joining"} => pc[Flusher] = "done"
  /\ \A k \in Kind :
       \/ pc[Closer] = "locked" /\ k < stage[Closer]
       \/ pc[Closer] \in {"swapped", "copying", "copied"} /\ k <= stage[Closer]
       \/ pc[Closer] = "done"
       => batch[k] = {}

(* When Close has returned every record has been in a transaction: nothing is   *)
(* left in a batch, and no goroutine has one in hand.                           *)
THEOREM CloseAlwaysEmpties == Spec => []CloseLeavesNothing
<1>1. Init => CloseInv
  BY DEF Init, CloseInv, Proc
<1>2. TypeOK /\ CloseInv /\ [Next]_vars => CloseInv'
  <2> SUFFICES ASSUME TypeOK, CloseInv, [Next]_vars PROVE CloseInv'
    OBVIOUS
  <2> USE DEF TypeOK, CloseInv, Proc
  <2>1. ASSUME NEW w \in Worker, NEW r \in Record, Add(w, r) PROVE CloseInv'
    <3>1. pc[Closer] = "idle"
      BY <2>1 DEF Add
    <3> QED BY <2>1, <3>1 DEF Add
  <2>2. ASSUME NEW w \in Worker, WorkerExit(w) PROVE CloseInv'
    BY <2>2 DEF WorkerExit
  <2>3. ASSUME NEW p \in Proc, Skip(p) PROVE CloseInv'
    BY <2>3 DEF Skip, Return
  <2>4. ASSUME NEW p \in Proc, Swap(p) PROVE CloseInv'
    BY <2>4 DEF Swap
  <2>5. ASSUME NEW p \in Proc, LockFlush(p) PROVE CloseInv'
    BY <2>5 DEF LockFlush
  <2>6. ASSUME NEW p \in Proc, Copy(p) PROVE CloseInv'
    BY <2>6 DEF Copy
  <2>7. ASSUME NEW p \in Proc, CopyFails(p) PROVE CloseInv'
    BY <2>7 DEF CopyFails
  <2>8. ASSUME NEW p \in Proc, Relock(p) PROVE CloseInv'
    BY <2>8 DEF Relock, Return
  <2>9. CASE Tick
    BY <2>9 DEF Tick, FlushAll
  <2>10. CASE StopFlusher
    BY <2>10 DEF StopFlusher
  <2>11. CASE Close
    BY <2>11 DEF Close
  <2>12. CASE CloseFlush
    BY <2>12 DEF CloseFlush, FlushAll
  <2>13. CASE UNCHANGED vars
    BY <2>13 DEF vars
  <2> QED
    BY <2>1, <2>2, <2>3, <2>4, <2>5, <2>6, <2>7, <2>8, <2>9, <2>10, <2>11, <2>12, <2>13
       DEF Next, Flush, Terminated
<1>3. CloseInv => CloseLeavesNothing
  BY DEF CloseInv, CloseLeavesNothing, Pending, InFlight, Proc
<1> QED BY <1>1, <1>2, <1>3, TypeCorrect, PTL DEF Spec

----------------------------------------------------------------------------
(* A record is in one place: the batch of its kind, or the hands of the one  *)
(* goroutine that took it out and has not finished with it.                  *)
PlaceInv ==
  /\ \A k \in Kind : \A r \in batch[k] : r \in accepted /\ KindOf[r] = k
  /\ \A p \in Proc : taken[p] \subseteq accepted
  /\ \A p \in Proc : InFlight(p) => \A k \in Kind : taken[p] \cap batch[k] = {}
  /\ \A p, q \in Proc : p # q /\ InFlight(p) /\ InFlight(q) => taken[p] \cap taken[q] = {}

LEMMA PlacesKept == Spec => []PlaceInv
<1>1. Init => PlaceInv
  BY DEF Init, PlaceInv, InFlight
<1>2. TypeOK /\ PlaceInv /\ [Next]_vars => PlaceInv'
  <2> SUFFICES ASSUME TypeOK, PlaceInv, [Next]_vars PROVE PlaceInv'
    OBVIOUS
  <2> USE DEF TypeOK, PlaceInv, InFlight
  <2>1. ASSUME NEW w \in Worker, NEW r \in Record, Add(w, r) PROVE PlaceInv'
    <3>1. /\ KindOf[r] \in Kind /\ r \notin accepted /\ accepted' = accepted \cup {r}
          /\ batch' = [batch EXCEPT ![KindOf[r]] = @ \cup {r}] /\ taken' = taken
          /\ \A p \in Proc : InFlight(p)' => InFlight(p)
      BY <2>1 DEF Add, Proc
    <3> QED BY <3>1
  <2>2. ASSUME NEW w \in Worker, WorkerExit(w) PROVE PlaceInv'
    BY <2>2 DEF WorkerExit, Proc
  <2>3. ASSUME NEW p \in Proc, Skip(p) PROVE PlaceInv'
    BY <2>3 DEF Skip, Return
  <2>4. ASSUME NEW p \in Proc, Swap(p) PROVE PlaceInv'
    BY <2>4 DEF Swap
  <2>5. ASSUME NEW p \in Proc, LockFlush(p) PROVE PlaceInv'
    BY <2>5 DEF LockFlush
  <2>6. ASSUME NEW p \in Proc, Copy(p) PROVE PlaceInv'
    BY <2>6 DEF Copy
  <2>7. ASSUME NEW p \in Proc, CopyFails(p) PROVE PlaceInv'
    BY <2>7 DEF CopyFails
  <2>8. ASSUME NEW p \in Proc, Relock(p) PROVE PlaceInv'
    BY <2>8 DEF Relock, Return
  <2>9. CASE Tick
    BY <2>9 DEF Tick, FlushAll, Proc
  <2>10. CASE StopFlusher
    BY <2>10 DEF StopFlusher, Proc
  <2>11. CASE Close
    BY <2>11 DEF Close, Proc
  <2>12. CASE CloseFlush
    BY <2>12 DEF CloseFlush, FlushAll, Proc
  <2>13. CASE UNCHANGED vars
    BY <2>13 DEF vars
  <2> QED
    BY <2>1, <2>2, <2>3, <2>4, <2>5, <2>6, <2>7, <2>8, <2>9, <2>10, <2>11, <2>12, <2>13
       DEF Next, Flush, Terminated
<1> QED BY <1>1, <1>2, TypeCorrect, PTL DEF Spec

(* The writer implements the atomic store: Add* accepts a record, the end of *)
(* a transaction commits or rejects the whole batch, all else is invisible.  *)
THEOREM WriterImplementsStore == Spec => ImplementsStore
<1>1. Init => Store!Init
  BY DEF Init, Store!Init, Pending, InFlight
<1>2. TypeOK /\ PlaceInv /\ [Next]_vars => [Store!Next]_(Store!vars)
  <2> SUFFICES ASSUME TypeOK, PlaceInv, [Next]_vars PROVE [Store!Next]_(Store!vars)
    OBVIOUS
  <2> USE DEF TypeOK, PlaceInv
  <2>s. ASSUME Pending' = Pending, UNCHANGED <<accepted, rejected, table>>
        PROVE  UNCHANGED Store!vars
    BY <2>s DEF Store!vars
  <2>1. ASSUME NEW w \in Worker, NEW r \in Record, Add(w, r) PROVE Store!Accept(r)
    <3>1. /\ KindOf[r] \in Kind /\ r \notin accepted
          /\ batch' = [batch EXCEPT ![KindOf[r]] = @ \cup {r}] /\ taken' = taken
          /\ \A p \in Proc : InFlight(p)' <=> InFlight(p)
      BY <2>1 DEF Add, Proc, InFlight
    <3>2. Pending' = Pending \cup {r}
      BY <3>1 DEF Pending
    <3> QED BY <2>1, <3>2 DEF Add, Store!Accept
  <2>2. ASSUME NEW w \in Worker, WorkerExit(w) PROVE UNCHANGED Store!vars
    <3>1. Pending' = Pending
      BY <2>2 DEF WorkerExit, Pending, InFlight, Proc
    <3> QED BY <2>2, <2>s, <3>1 DEF WorkerExit
  <2>3. ASSUME NEW p \in Proc, Skip(p) PROVE UNCHANGED Store!vars
    <3>1. Pending' = Pending
      BY <2>3 DEF Skip, Return, Pending, InFlight
    <3> QED BY <2>3, <2>s, <3>1 DEF Skip
  <2>4. ASSUME NEW p \in Proc, Swap(p) PROVE UNCHANGED Store!vars
    <3>1. Pending' = Pending
      BY <2>4 DEF Swap, Pending, InFlight
    <3> QED BY <2>4, <2>s, <3>1 DEF Swap
  <2>5. ASSUME NEW p \in Proc, LockFlush(p) PROVE UNCHANGED Store!vars
    <3>1. Pending' = Pending
      BY <2>5 DEF LockFlush, Pending, InFlight
    <3> QED BY <2>5, <2>s, <3>1 DEF LockFlush
  <2>t. ASSUME NEW p \in Proc, pc[p] = "copying" PROVE taken[p] \in SUBSET Pending
    BY <2>t DEF Pending, InFlight
  <2>u. ASSUME NEW p \in Proc, pc[p] = "copying", pc' = [pc EXCEPT ![p] = "copied"],
               UNCHANGED <<batch, taken>>
        PROVE  Pending' = Pending \ taken[p]
    BY <2>u DEF Pending, InFlight
  <2>6. ASSUME NEW p \in Proc, Copy(p) PROVE Store!Commit(taken[p])
    BY <2>6, <2>u DEF Copy, Store!Commit
  <2>7. ASSUME NEW p \in Proc, CopyFails(p) PROVE Store!Reject(taken[p])
    BY <2>7, <2>u DEF CopyFails, RowsAfterError, Store!Reject
  <2>8. ASSUME NEW p \in Proc, Relock(p) PROVE UNCHANGED Store!vars
    <3>1. Pending' = Pending
      BY <2>8 DEF Relock, Return, Pending, InFlight
    <3> QED BY <2>8, <2>s, <3>1 DEF Relock
  <2>9. CASE Tick
    <3>1. Pending' = Pending
      BY <2>9 DEF Tick, FlushAll, Pending, InFlight, Proc
    <3> QED BY <2>9, <2>s, <3>1 DEF Tick
  <2>10. CASE StopFlusher
    <3>1. Pending' = Pending
      BY <2>10 DEF StopFlusher, Pending, InFlight, Proc
    <3> QED BY <2>10, <2>s, <3>1 DEF StopFlusher
  <2>11. CASE Close
    <3>1. Pending' = Pending
      BY <2>11 DEF Close, Pending, InFlight, Proc
    <3> QED BY <2>11, <2>s, <3>1 DEF Close
  <2>12. CASE CloseFlush
    <3>1. Pending' = Pending
      BY <2>12 DEF CloseFlush, FlushAll, Pending, InFlight, Proc
    <3> QED BY <2>12, <2>s, <3>1 DEF CloseFlush
  <2>13. CASE UNCHANGED vars
    BY <2>13 DEF vars, Store!vars, Pending, InFlight
  <2> QED
    BY <2>1, <2>2, <2>3, <2>4, <2>5, <2>t, <2>6, <2>7, <2>8, <2>9, <2>10, <2>11, <2>12, <2>13
       DEF Next, Flush, Terminated, Store!Next, Copy, CopyFails
<1> QED BY <1>1, <1>2, TypeCorrect, PlacesKept, PTL DEF Spec, ImplementsStore, Store!Spec

============================================================================
