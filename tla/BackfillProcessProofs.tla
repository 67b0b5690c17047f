------------------------ MODULE BackfillProcessProofs ------------------------
(***************************************************************************)
(* Theorems about WorkerPool, for every number of workers, every set of    *)
(* messages with whatever bodies, and both services; and after them about  *)
(* BackfillProcess, for every number of topics, whatever their logs and    *)
(* the metadata hold, wherever END_OFFSET lies.  What is shown of a step   *)
(* of the pool is used there for the pool inside the process.              *)
(***************************************************************************)
EXTENDS BackfillProcess, FiniteSetTheorems, TLAPS

USE MessageAssumption, KnownAssumption

(* What a worker has in hand at each place of processMessage. *)
InHand(w) ==
  /\ pc[w] \in {"receive", "gone"} => msg[w] = None
  /\ pc[w] \notin {"receive", "gone"} => msg[w] \in Message
  /\ pc[w] = "orphan" => DeviceOf[msg[w]] # None
  /\ pc[w] \in {"fields", "create", "tagFail", "cache", "add"} =>
       /\ DeviceOf[msg[w]] \in Device /\ Body[msg[w]] # Malformed
       /\ todo[w] \subseteq DOMAIN Body[msg[w]]
  /\ pc[w] \in {"create", "tagFail", "cache", "add"} =>
       field[w] \in DOMAIN Body[msg[w]] /\ dataType[w] \in DataType
TypeInv == TypeOK /\ \A w \in Worker : InHand(w)

(* What is in the channel after a send, and after a receive. *)
Holds(s, m) == \E i \in DOMAIN s : s[i] = m

LEMMA SendStep ==
  ASSUME NEW s \in Seq(Message), NEW m \in Message
  PROVE  /\ Append(s, m) \in Seq(Message)
         /\ Len(Append(s, m)) = Len(s) + 1
         /\ \A n : Holds(Append(s, m), n) <=> n = m \/ Holds(s, n)
<1> DEFINE t == Append(s, m)
<1>1. /\ t \in Seq(Message) /\ Len(t) = Len(s) + 1 /\ Len(s) \in Nat
      /\ DOMAIN t = 1..(Len(s) + 1) /\ DOMAIN s = 1..Len(s)
      /\ t[Len(s) + 1] = m
      /\ \A i \in 1..Len(s) : t[i] = s[i]
  OBVIOUS
<1>2. Len(s) + 1 \in DOMAIN t
  BY <1>1
<1>3. \A i \in DOMAIN t : i = Len(s) + 1 \/ i \in DOMAIN s
  BY <1>1
<1>4. \A j \in DOMAIN s : j \in DOMAIN t
  BY <1>1
<1> HIDE DEF t
<1>5. \A n : Holds(t, n) <=> n = m \/ Holds(s, n)
  BY <1>1, <1>2, <1>3, <1>4 DEF Holds
<1> QED BY <1>1, <1>5 DEF t

LEMMA ReceiveStep ==
  ASSUME NEW s \in Seq(Message), s # <<>>
  PROVE  /\ Tail(s) \in Seq(Message) /\ Head(s) \in Message
         /\ Len(Tail(s)) = Len(s) - 1
         /\ \A n : Holds(s, n) <=> n = Head(s) \/ Holds(Tail(s), n)
<1> DEFINE t == Tail(s)
<1>1. /\ t \in Seq(Message) /\ Head(s) \in Message /\ Head(s) = s[1]
      /\ Len(t) = Len(s) - 1 /\ Len(s) \in Nat \ {0}
      /\ DOMAIN t = 1..(Len(s) - 1) /\ DOMAIN s = 1..Len(s)
      /\ \A i \in 1..(Len(s) - 1) : t[i] = s[i + 1]
  OBVIOUS
<1>2. 1 \in DOMAIN s /\ \A i \in DOMAIN t : i + 1 \in DOMAIN s
  BY <1>1
<1>3. ASSUME NEW j \in DOMAIN s, j # 1 PROVE j - 1 \in DOMAIN t /\ t[j - 1] = s[j]
  BY <1>1, <1>3
<1> HIDE DEF t
<1>4. \A n : Holds(s, n) <=> n = Head(s) \/ Holds(t, n)
  BY <1>1, <1>2, <1>3 DEF Holds
<1> QED BY <1>1, <1>4 DEF t

(* The data type of a value is one. *)
LEMMA ValueTypes ==
  /\ \A v : determineDataType(v) \in DataType
  /\ \A v, type : TableFor(type, v) \in Table \cup {None}
  /\ \A t \in DataType : t # None
  /\ \A r \in Reason \cup Table : r # None
BY DEF determineDataType, DataType, TableFor, Table, Reason

----------------------------------------------------------------------------
(* Before the first message the workers have nothing in hand. *)
LEMMA TypeInit == Init => TypeInv
<1> SUFFICES ASSUME Init PROVE TypeInv
  OBVIOUS
<1>1. cached \in [Tag -> DataType \cup {None}]
  BY DEF Init
<1>2. Len(channel) <= ChannelSize
  <2>1. Cardinality(Worker) \in Nat
    BY FS_CardinalityType
  <2> QED BY <2>1 DEF Init, ChannelSize
<1>3. /\ pc \in [Worker -> PcValue] /\ orphans \in [Message -> Reason \cup {None}]
      /\ msg \in [Worker -> Message \cup {None}] /\ todo \in [Worker -> SUBSET Field]
      /\ field \in [Worker -> Field \cup {None}]
      /\ dataType \in [Worker -> DataType \cup {None}]
  BY DEF Init, PcValue
<1>4. channel \in Seq(Message) /\ closed \in BOOLEAN /\ processed \in Nat /\ errors \in Nat
  <2>1. closed \in BOOLEAN
    BY Zenon DEF Init
  <2>2. channel = <<>> /\ processed = 0 /\ errors = 0
    BY DEF Init
  <2> QED BY <2>1, <2>2
<1>5. TypeOK
  <2>1. devices \subseteq Device /\ stored \in [Tag -> DataType \cup {None}]
    BY DEF Init
  <2>2. /\ submitted \subseteq Message /\ unsaved \subseteq Message
        /\ dropped \subseteq Message \X Field /\ tagFailures \subseteq Message \X Field
        /\ records \subseteq Message \X Field \X Table
    BY DEF Init
  <2> QED BY <1>1, <1>2, <1>3, <1>4, <2>1, <2>2, Zenon DEF TypeOK
<1>6. \A w \in Worker : InHand(w)
  BY DEF Init, InHand
<1> QED BY <1>5, <1>6 DEF TypeInv

(* No step of listener, workers or loader leaves the types, or a worker without *)
(* what its place needs.                                                        *)
LEMMA TypeStep == TypeInv /\ [Next]_vars => TypeInv'
<1> SUFFICES ASSUME TypeInv, [Next]_vars PROVE TypeInv'
  OBVIOUS
<1> USE DEF TypeInv, TypeOK, InHand, PcValue, cacheVars, workVars, metrics, outcome
<1>1. ASSUME NEW m \in Message, SubmitMessage(m) PROVE TypeInv'
  <2>1. Len(channel') <= ChannelSize /\ channel' \in Seq(Message)
    <3>1. Cardinality(Worker) \in Nat
      BY FS_CardinalityType
    <3> QED BY <1>1, <3>1, SendStep DEF SubmitMessage, ChannelSize
  <2> QED BY <1>1, <2>1 DEF SubmitMessage
<1>2. ASSUME NEW d \in Device, DeviceLoaded(d) PROVE TypeInv'
  BY <1>2 DEF DeviceLoaded
<1>3. ASSUME NEW w \in Worker, Receive(w) PROVE TypeInv'
  <2>1. Len(channel') <= ChannelSize /\ channel' \in Seq(Message) /\ Head(channel) \in Message
    <3>1. Cardinality(Worker) \in Nat /\ Len(channel) \in Nat
      BY FS_CardinalityType
    <3> QED BY <1>3, <3>1, ReceiveStep DEF Receive, ChannelSize
  <2> QED BY <1>3, <2>1 DEF Receive
<1>4. ASSUME NEW w \in Worker, WorkerReturns(w) PROVE TypeInv'
  BY <1>4 DEF WorkerReturns
<1>f. ASSUME NEW w \in Worker, NEW b \in BOOLEAN, Finish(w, b)
      PROVE  /\ pc' \in [Worker -> PcValue] /\ msg' \in [Worker -> Message \cup {None}]
             /\ pc'[w] = "receive" /\ msg'[w] = None
             /\ \A k \in Worker \ {w} : pc'[k] = pc[k] /\ msg'[k] = msg[k]
             /\ processed' \in Nat /\ errors' \in Nat
  BY <1>f DEF Finish
<1>g. ASSUME NEW w \in Worker, NEW b \in BOOLEAN, Finish(w, b),
             orphans' \in [Message -> Reason \cup {None}], unsaved' \subseteq Message,
             UNCHANGED <<channel, closed, submitted, cacheVars, stored, todo, field, dataType,
                         records, dropped, tagFailures>>
      PROVE  TypeInv'
  BY <1>f, <1>g
<1>s. ASSUME NEW m \in Message, NEW reason \in Reason, Save(m, reason)
      PROVE  orphans' \in [Message -> Reason \cup {None}] /\ unsaved' \subseteq Message
  BY <1>s DEF Save
<1>5. ASSUME NEW w \in Worker, Lookup(w) PROVE TypeInv'
  BY <1>5 DEF Lookup, Unparsable
<1>6. ASSUME NEW w \in Worker, ReturnError(w) PROVE TypeInv'
  <2>1. orphans' \in [Message -> Reason \cup {None}] /\ unsaved' \subseteq Message
    BY <1>6, <1>s DEF ReturnError, Reason
  <2>2. Finish(w, TRUE)
    BY <1>6 DEF ReturnError
  <2> QED BY <1>6, <1>g, <2>1, <2>2 DEF ReturnError
<1>7. ASSUME NEW w \in Worker, SaveMissingDevice(w) PROVE TypeInv'
  <2>1. orphans' \in [Message -> Reason \cup {None}] /\ unsaved' \subseteq Message
    BY <1>7, <1>s DEF SaveMissingDevice, Reason
  <2>2. Finish(w, Backfill \/ unsaved' # unsaved)
    BY <1>7 DEF SaveMissingDevice
  <2> QED BY <1>7, <1>g, <2>1, <2>2 DEF SaveMissingDevice
<1>8. ASSUME NEW w \in Worker, NEW f \in Field, NextField(w, f) PROVE TypeInv'
  <2>1. /\ pc' \in [Worker -> PcValue] /\ todo' \in [Worker -> SUBSET Field]
        /\ field' \in [Worker -> Field \cup {None}] /\ field'[w] = f
        /\ pc'[w] \in {"create", "add"} /\ todo'[w] \subseteq todo[w]
    BY <1>8 DEF NextField
  <2>2. dataType' \in [Worker -> DataType \cup {None}] /\ dataType'[w] \in DataType
    <3>1. <<DeviceOf[msg[w]], f>> \in Tag
      BY <1>8 DEF NextField, Tag
    <3> QED BY <1>8, <3>1, ValueTypes DEF NextField
  <2>3. \A k \in Worker \ {w} : /\ pc'[k] = pc[k] /\ todo'[k] = todo[k]
                                /\ field'[k] = field[k] /\ dataType'[k] = dataType[k]
    BY <1>8 DEF NextField
  <2> QED BY <1>8, <2>1, <2>2, <2>3 DEF NextField
<1>9. ASSUME NEW w \in Worker, EndOfFields(w) PROVE TypeInv'
  <2>1. Finish(w, FALSE)
    BY <1>9 DEF EndOfFields
  <2> QED BY <1>9, <1>g, <2>1 DEF EndOfFields
<1>t. ASSUME NEW w \in Worker, pc[w] \in {"create", "cache"}
      PROVE  tagOf(w) \in Tag /\ <<msg[w], field[w]>> \in Message \X Field
  BY <1>t DEF tagOf, Tag
<1>10. ASSUME NEW w \in Worker, CreateTag(w) PROVE TypeInv'
  <2>1. stored' \in [Tag -> DataType \cup {None}] /\ pc' = [pc EXCEPT ![w] = "cache"]
    BY <1>10, <1>t DEF CreateTag
  <2>2. pc' \in [Worker -> PcValue] /\ pc'[w] = "cache" /\ pc[w] = "create"
        /\ \A k \in Worker \ {w} : pc'[k] = pc[k]
    BY <1>10, <2>1 DEF CreateTag
  <2> QED BY <1>10, <2>1, <2>2 DEF CreateTag
<1>11. ASSUME NEW w \in Worker, CreateTagFails(w) PROVE TypeInv'
  <2>1. stored' \in [Tag -> DataType \cup {None}] /\ tagFailures' \subseteq Message \X Field
    BY <1>11, <1>t DEF CreateTagFails
  <2> QED BY <1>11, <2>1 DEF CreateTagFails
<1>e. ASSUME NEW w \in Worker, EndOfBody(w)
      PROVE  /\ pc' \in [Worker -> PcValue] /\ field' \in [Worker -> Field \cup {None}]
             /\ dataType' \in [Worker -> DataType \cup {None}]
             /\ pc'[w] = "fields"
             /\ \A k \in Worker \ {w} : /\ pc'[k] = pc[k] /\ field'[k] = field[k]
                                        /\ dataType'[k] = dataType[k]
  BY <1>e DEF EndOfBody
<1>12. ASSUME NEW w \in Worker, SaveTagFailure(w) PROVE TypeInv'
  <2>1. orphans' \in [Message -> Reason \cup {None}] /\ unsaved' \subseteq Message
    BY <1>12, <1>s DEF SaveTagFailure, Reason
  <2>2. EndOfBody(w) /\ pc[w] = "tagFail"
    BY <1>12 DEF SaveTagFailure
  <2> QED BY <1>12, <1>e, <2>1, <2>2 DEF SaveTagFailure
<1>13. ASSUME NEW w \in Worker, CacheTag(w) PROVE TypeInv'
  <2>1. cached' \in [Tag -> DataType \cup {None}] /\ pc' = [pc EXCEPT ![w] = "add"]
    BY <1>13, <1>t DEF CacheTag
  <2>2. pc' \in [Worker -> PcValue] /\ pc'[w] = "add" /\ pc[w] = "cache"
        /\ \A k \in Worker \ {w} : pc'[k] = pc[k]
    BY <1>13, <2>1 DEF CacheTag
  <2> QED BY <1>13, <2>1, <2>2 DEF CacheTag
<1>14. ASSUME NEW w \in Worker, AddRecord(w) PROVE TypeInv'
  <2>1. EndOfBody(w) /\ pc[w] = "add"
    BY <1>14 DEF AddRecord
  <2>2. /\ dropped' \subseteq Message \X Field
        /\ records' \subseteq Message \X Field \X Table
    BY <1>14, ValueTypes DEF AddRecord
  <2> QED BY <1>14, <1>e, <2>1, <2>2 DEF AddRecord
<1>15. CASE Shutdown \/ Stopped \/ UNCHANGED vars
  BY <1>15 DEF Shutdown, Stopped, vars
<1> QED BY <1>1, <1>2, <1>3, <1>4, <1>5, <1>6, <1>7, <1>8, <1>9, <1>10, <1>11, <1>12,
           <1>13, <1>14, <1>15 DEF Next, Work

(* Type correctness, and a worker has in hand what its place needs: its        *)
(* message, a device, and in the body of the loop a field of the message and a *)
(* data type.                                                                  *)
THEOREM TypeCorrect == Spec => []TypeInv
BY TypeInit, TypeStep, PTL DEF Spec

----------------------------------------------------------------------------
(* TagsExist, with the workers between the table and the cache or the batch. *)
TagsInv ==
  /\ TagsExist
  /\ \A r \in records : <<DeviceOf[r[1]], r[2]>> \in Tag
  /\ \A w \in Worker : pc[w] \in {"cache", "add"} => stored[tagOf(w)] # None

(* A worker in the body of the loop has a tag in hand. *)
LEMMA TagInHand ==
  ASSUME TypeInv, NEW w \in Worker, pc[w] \in {"create", "tagFail", "cache", "add"}
  PROVE  tagOf(w) \in Tag
BY DEF TypeInv, InHand, tagOf, Tag

(* Rows of tags are never deleted; a step that builds no record and caches no  *)
(* tag keeps what is known of the others.                                      *)
LEMMA TagsKept ==
  ASSUME TypeInv, TagsInv, UNCHANGED <<cached, records>>,
         \A t \in Tag : stored[t] # None => stored'[t] # None,
         \A w \in Worker : pc'[w] \in {"cache", "add"} =>
           \/ pc[w] \in {"cache", "add"} /\ tagOf(w)' = tagOf(w)
           \/ stored'[tagOf(w)'] # None
  PROVE  TagsInv'
<1>1. ASSUME NEW w \in Worker, pc'[w] \in {"cache", "add"} PROVE stored'[tagOf(w)'] # None
  BY <1>1, TagInHand DEF TagsInv
<1> QED BY <1>1 DEF TagsInv, TagsExist

(* The foreign key of the records holds however workers interleave: two that   *)
(* look up one unknown tag, create it both and cache it both never let a       *)
(* record get ahead of its tag.                                                *)
THEOREM TagsAlwaysExist == Spec => []TagsExist
<1>1. Init => TagsInv
  BY DEF Init, TagsInv, TagsExist
<1>2. TypeInv /\ TagsInv /\ [Next]_vars => TagsInv'
  <2> SUFFICES ASSUME TypeInv, TagsInv, [Next]_vars PROVE TagsInv'
    OBVIOUS
  <2> USE DEF cacheVars, workVars, metrics, outcome
  <2>1. ASSUME UNCHANGED <<cached, records, stored, pc, msg, field>> PROVE TagsInv'
    BY <2>1, TagsKept DEF tagOf
  <2>2. ASSUME NEW w \in Worker,
               /\ UNCHANGED <<cached, records, stored>>
               /\ pc'[w] \notin {"cache", "add"}
               /\ \A k \in Worker \ {w} : pc'[k] = pc[k] /\ msg'[k] = msg[k] /\ field'[k] = field[k]
        PROVE  TagsInv'
    BY <2>2, TagsKept DEF tagOf
  <2>3. ASSUME NEW w \in Worker, Receive(w) \/ WorkerReturns(w) \/ Lookup(w) PROVE TagsInv'
    <3>1. UNCHANGED <<cached, records, stored, field>>
      BY <2>3 DEF Receive, WorkerReturns, Lookup
    <3>2. /\ pc'[w] \notin {"cache", "add"}
          /\ \A k \in Worker \ {w} : pc'[k] = pc[k] /\ msg'[k] = msg[k]
      BY <2>3 DEF Receive, WorkerReturns, Lookup, TypeInv, TypeOK
    <3> QED BY <2>2, <3>1, <3>2
  <2>4. ASSUME NEW w \in Worker,
               ReturnError(w) \/ SaveMissingDevice(w) \/ EndOfFields(w)
        PROVE  TagsInv'
    <3>1. UNCHANGED <<cached, records, stored, field>>
      BY <2>4 DEF ReturnError, SaveMissingDevice, EndOfFields
    <3>2. /\ pc'[w] \notin {"cache", "add"}
          /\ \A k \in Worker \ {w} : pc'[k] = pc[k] /\ msg'[k] = msg[k]
      BY <2>4 DEF ReturnError, SaveMissingDevice, EndOfFields, Finish, TypeInv, TypeOK
    <3> QED BY <2>2, <3>1, <3>2
  <2>5. ASSUME NEW w \in Worker, NEW f \in Field, NextField(w, f) PROVE TagsInv'
    <3>1. UNCHANGED <<cached, records, stored, msg>>
      BY <2>5 DEF NextField
    <3>2. \A k \in Worker \ {w} : pc'[k] = pc[k] /\ field'[k] = field[k]
      BY <2>5 DEF NextField, TypeInv, TypeOK
    <3>3. tagOf(w)' = <<DeviceOf[msg[w]], f>> /\ tagOf(w)' \in Tag
      BY <2>5 DEF NextField, TypeInv, TypeOK, InHand, tagOf, Tag
    <3>4. pc'[w] \in {"cache", "add"} => cached[tagOf(w)'] # None
      BY <2>5, <3>3 DEF NextField, TypeInv, TypeOK
    <3>5. pc'[w] \in {"cache", "add"} => stored'[tagOf(w)'] # None
      BY <3>1, <3>3, <3>4 DEF TagsInv, TagsExist
    <3> QED BY <3>1, <3>2, <3>5, TagsKept DEF tagOf
  <2>6. ASSUME NEW w \in Worker, CreateTag(w) \/ CreateTagFails(w) PROVE TagsInv'
    <3>1. UNCHANGED <<cached, records, msg, field>> /\ pc[w] = "create"
      BY <2>6 DEF CreateTag, CreateTagFails
    <3>2. tagOf(w) \in Tag /\ dataType[w] # None
      BY <3>1, TagInHand, ValueTypes DEF TypeInv, InHand
    <3>3. \A k \in Worker \ {w} : pc'[k] = pc[k]
      BY <2>6 DEF CreateTag, CreateTagFails, TypeInv, TypeOK
    <3>4. \A t \in Tag : stored[t] # None => stored'[t] # None
      BY <2>6, <3>2 DEF CreateTag, CreateTagFails, TypeInv, TypeOK
    <3>5. pc'[w] \in {"cache", "add"} => stored'[tagOf(w)] # None
      BY <2>6, <3>2 DEF CreateTag, CreateTagFails, TypeInv, TypeOK
    <3> QED BY <3>1, <3>3, <3>4, <3>5, TagsKept DEF tagOf
  <2>7. ASSUME NEW w \in Worker, CacheTag(w) PROVE TagsInv'
    <3>1. tagOf(w) \in Tag /\ stored[tagOf(w)] # None /\ UNCHANGED <<stored, records, msg, field>>
      BY <2>7, TagInHand DEF CacheTag, TagsInv
    <3>2. \A t \in Tag : cached'[t] # None => stored'[t] # None
      BY <2>7, <3>1 DEF CacheTag, TagsInv, TagsExist, TypeInv, TypeOK
    <3>3. \A k \in Worker : pc'[k] \in {"cache", "add"} => pc[k] \in {"cache", "add"}
      BY <2>7 DEF CacheTag, TypeInv, TypeOK
    <3>4. \A k \in Worker : tagOf(k)' = tagOf(k)
      BY <3>1 DEF tagOf
    <3> QED BY <3>1, <3>2, <3>3, <3>4 DEF TagsInv, TagsExist
  <2>8. ASSUME NEW w \in Worker, AddRecord(w) \/ SaveTagFailure(w) PROVE TagsInv'
    <3>1. UNCHANGED <<cached, stored, msg>>
      BY <2>8 DEF AddRecord, SaveTagFailure
    <3>2. /\ pc'[w] = "fields"
          /\ \A k \in Worker \ {w} : pc'[k] = pc[k] /\ field'[k] = field[k]
      BY <2>8 DEF AddRecord, SaveTagFailure, EndOfBody, TypeInv, TypeOK
    <3>3. CASE UNCHANGED records
      BY <2>2, <3>1, <3>2, <3>3
    <3>4. CASE records' # records
      <4>1. PICK to : records' = records \cup {<<msg[w], field[w], to>>}
        BY <2>8, <3>4 DEF AddRecord, SaveTagFailure
      <4>2. pc[w] = "add"
        BY <2>8, <3>4 DEF AddRecord, SaveTagFailure
      <4>3. tagOf(w) \in Tag /\ stored[tagOf(w)] # None
        BY <4>2, TagInHand DEF TagsInv
      <4>4. \A r \in records' : /\ <<DeviceOf[r[1]], r[2]>> \in Tag
                                /\ stored[<<DeviceOf[r[1]], r[2]>>] # None
        BY <4>1, <4>3 DEF TagsInv, TagsExist, tagOf
      <4>5. \A k \in Worker : pc'[k] \in {"cache", "add"} =>
              pc[k] \in {"cache", "add"} /\ tagOf(k)' = tagOf(k)
        BY <3>1, <3>2 DEF tagOf
      <4> QED BY <3>1, <4>4, <4>5 DEF TagsInv, TagsExist
    <3> QED BY <3>3, <3>4
  <2>9. CASE \/ (\E m \in Message : SubmitMessage(m)) \/ (\E d \in Device : DeviceLoaded(d))
             \/ Shutdown \/ Stopped \/ UNCHANGED vars
    BY <2>1, <2>9 DEF SubmitMessage, DeviceLoaded, Shutdown, Stopped, vars
  <2> QED BY <2>3, <2>4, <2>5, <2>6, <2>7, <2>8, <2>9 DEF Next, Work
<1> QED BY <1>1, <1>2, TypeCorrect, PTL DEF Spec, TagsInv

----------------------------------------------------------------------------
FieldDone(m, f) ==
  Recorded(m, f) \/ <<m, f>> \in dropped \/ (<<m, f>> \in tagFailures /\ Kept(m))

(* The fields a worker's loop has come to are done, but for the one in hand. *)
LoopInv ==
  \A w \in Worker :
    /\ pc[w] \in {"fields", "create", "tagFail", "cache", "add"} =>
         \A f \in DOMAIN Body[msg[w]] \ todo[w] :
           FieldDone(msg[w], f) \/ (pc[w] # "fields" /\ f = field[w])
    /\ pc[w] = "tagFail" => <<msg[w], field[w]>> \in tagFailures

(* What a Save does: the message is kept, and so are the others. *)
LEMMA SaveKeeps ==
  ASSUME TypeOK, NEW m \in Message, NEW reason \in Reason, Save(m, reason)
  PROVE  /\ Kept(m)'
         /\ \A n \in Message : Kept(n) => Kept(n)'
         /\ \A n \in Message \ {m} : orphans'[n] = orphans[n]
         /\ unsaved \subseteq unsaved'
         /\ orphans'[m] = reason \/ m \in unsaved'
BY ValueTypes DEF Save, Kept, TypeOK

(* What a message has come to is not forgotten, and the orphan row of a message *)
(* that is in no worker's hands stays as it is.                                 *)
LEMMA OutcomeGrows ==
  ASSUME TypeInv, [Next]_vars
  PROVE  /\ records \subseteq records' /\ dropped \subseteq dropped'
         /\ tagFailures \subseteq tagFailures' /\ unsaved \subseteq unsaved'
         /\ \A m \in Message : Kept(m) => Kept(m)'
         /\ \A m \in Message : (\A w \in Worker : msg[w] # m) => orphans'[m] = orphans[m]
<1> USE DEF cacheVars, workVars, metrics, outcome
<1> DEFINE Grown ==
      /\ records \subseteq records' /\ dropped \subseteq dropped'
      /\ tagFailures \subseteq tagFailures' /\ unsaved \subseteq unsaved'
      /\ \A m \in Message : Kept(m) => Kept(m)'
      /\ \A m \in Message : (\A w \in Worker : msg[w] # m) => orphans'[m] = orphans[m]
<1>1. CASE /\ records \subseteq records' /\ dropped \subseteq dropped'
           /\ tagFailures \subseteq tagFailures' /\ UNCHANGED <<unsaved, orphans>>
  BY <1>1 DEF Kept
<1>2. ASSUME NEW w \in Worker, NEW reason \in Reason, msg[w] \in Message, Save(msg[w], reason),
             UNCHANGED <<records, dropped, tagFailures>>
      PROVE  Grown
  BY <1>2, SaveKeeps DEF TypeInv
<1>3. ASSUME NEW w \in Worker, SaveMissingDevice(w) PROVE Grown
  BY <1>2, <1>3 DEF SaveMissingDevice, TypeInv, InHand, Reason
<1>4. ASSUME NEW w \in Worker, SaveTagFailure(w) PROVE Grown
  BY <1>2, <1>4 DEF SaveTagFailure, TypeInv, InHand, Reason
<1>5. ASSUME NEW w \in Worker, ReturnError(w) PROVE Grown
  BY <1>1, <1>2, <1>5 DEF ReturnError, TypeInv, InHand, Reason
<1>6. ASSUME NEW w \in Worker,
             \/ Receive(w) \/ WorkerReturns(w) \/ Lookup(w) \/ EndOfFields(w) \/ CreateTag(w)
             \/ CreateTagFails(w) \/ CacheTag(w) \/ AddRecord(w)
             \/ \E f \in Field : NextField(w, f)
      PROVE  Grown
  <2>1. /\ records \subseteq records' /\ dropped \subseteq dropped'
        /\ tagFailures \subseteq tagFailures' /\ UNCHANGED <<unsaved, orphans>>
    BY <1>6 DEF Receive, WorkerReturns, Lookup, EndOfFields, CreateTag, CreateTagFails,
                CacheTag, AddRecord, NextField
  <2> QED BY <1>1, <2>1
<1>7. CASE \/ (\E m \in Message : SubmitMessage(m)) \/ (\E d \in Device : DeviceLoaded(d))
           \/ Shutdown \/ Stopped \/ UNCHANGED vars
  BY <1>1, <1>7 DEF SubmitMessage, DeviceLoaded, Shutdown, Stopped, vars
<1> QED BY <1>3, <1>4, <1>5, <1>6, <1>7 DEF Next, Work

(* A message is finished by the worker that has it in hand, in one of three    *)
(* places.                                                                     *)
LEMMA FinishingStep ==
  ASSUME TypeInv, [Next]_vars, NEW m \in Message, ~Finished(m), Finished(m)'
  PROVE  \E w \in Worker : /\ msg[w] = m
                           /\ ReturnError(w) \/ SaveMissingDevice(w) \/ EndOfFields(w)
<1> USE DEF cacheVars, workVars, metrics, outcome
<1>1. ASSUME NEW n \in Message, SubmitMessage(n) PROVE FALSE
  <2>1. m \in submitted' /\ ~Holds(channel', m) /\ UNCHANGED msg
    BY <1>1 DEF Finished, SubmitMessage, Holds
  <2>2. \A k : Holds(channel', k) <=> k = n \/ Holds(channel, k)
    <3>1. channel \in Seq(Message) /\ channel' = Append(channel, n)
      BY <1>1 DEF SubmitMessage, TypeInv, TypeOK
    <3> QED BY <3>1, SendStep
  <2>3. m \in submitted /\ ~Holds(channel, m)
    BY <1>1, <2>1, <2>2 DEF SubmitMessage
  <2> QED BY <2>1, <2>3 DEF Finished, Holds
<1>2. ASSUME NEW w \in Worker, Receive(w) PROVE FALSE
  <2>1. m \in submitted' /\ ~Holds(channel', m) /\ \A k \in Worker : msg'[k] # m
    BY DEF Finished, Holds
  <2>2. \A k : Holds(channel, k) => k = Head(channel) \/ Holds(channel', k)
    <3>1. channel \in Seq(Message) /\ channel # <<>> /\ channel' = Tail(channel)
      BY <1>2 DEF Receive, TypeInv, TypeOK
    <3> QED BY <3>1, ReceiveStep
  <2>3. msg'[w] = Head(channel) /\ pc[w] = "receive" /\ UNCHANGED submitted
        /\ \A k \in Worker \ {w} : msg'[k] = msg[k]
    BY <1>2 DEF Receive, TypeInv, TypeOK
  <2>4. msg[w] # m
    BY <2>3 DEF TypeInv, InHand
  <2> QED BY <2>1, <2>2, <2>3, <2>4 DEF Finished, Holds
<1>3. ASSUME UNCHANGED <<channel, submitted, msg>> PROVE FALSE
  BY <1>3 DEF Finished
<1>4. ASSUME NEW w \in Worker, ReturnError(w) \/ SaveMissingDevice(w) \/ EndOfFields(w)
      PROVE  msg[w] = m
  BY <1>4 DEF ReturnError, SaveMissingDevice, EndOfFields, Finish, Finished, TypeInv, TypeOK
<1>5. ASSUME NEW w \in Worker,
             \/ WorkerReturns(w) \/ Lookup(w) \/ CreateTag(w) \/ CreateTagFails(w)
             \/ SaveTagFailure(w) \/ CacheTag(w) \/ AddRecord(w)
             \/ \E f \in Field : NextField(w, f)
      PROVE  FALSE
  BY <1>3, <1>5 DEF WorkerReturns, Lookup, CreateTag, CreateTagFails, SaveTagFailure,
     CacheTag, AddRecord, NextField
<1>6. CASE \/ (\E d \in Device : DeviceLoaded(d)) \/ Shutdown \/ Stopped \/ UNCHANGED vars
  BY <1>3, <1>6 DEF DeviceLoaded, Shutdown, Stopped, vars
<1> QED BY <1>1, <1>2, <1>4, <1>5, <1>6 DEF Next, Work

(* One field that goes wrong does not take others with it, whatever order the  *)
(* fields come in and whatever fails for other workers meanwhile.              *)
THEOREM FieldsAlwaysTreated == Spec => []EveryFieldTreated
<1>1. Init => LoopInv /\ EveryFieldTreated
  BY DEF Init, LoopInv, EveryFieldTreated, Finished
<1>2. TypeInv /\ LoopInv /\ [Next]_vars => LoopInv'
  <2> SUFFICES ASSUME TypeInv, LoopInv, [Next]_vars PROVE LoopInv'
    OBVIOUS
  <2> USE DEF cacheVars, workVars, metrics, outcome
  <2>1. \A m \in Message : \A f : FieldDone(m, f) => FieldDone(m, f)'
    BY OutcomeGrows DEF FieldDone, Recorded
  <2>2. ASSUME NEW w \in Worker, pc[w] \notin {"receive", "lookup", "orphan", "gone"},
               msg'[w] = msg[w], pc'[w] = pc[w], todo'[w] = todo[w], field'[w] = field[w]
        PROVE  /\ \A f \in DOMAIN Body[msg'[w]] \ todo'[w] :
                    FieldDone(msg[w], f)' \/ (pc'[w] # "fields" /\ f = field'[w])
               /\ pc'[w] = "tagFail" => <<msg'[w], field'[w]>> \in tagFailures'
    <3>1. msg[w] \in Message /\ pc[w] \in {"fields", "create", "tagFail", "cache", "add"}
      BY <2>2 DEF TypeInv, TypeOK, InHand, PcValue
    <3> QED BY <2>1, <2>2, <3>1, OutcomeGrows DEF LoopInv
  <2>3. ASSUME NEW w \in Worker,
               \A k \in Worker \ {w} : /\ msg'[k] = msg[k] /\ pc'[k] = pc[k]
                                       /\ todo'[k] = todo[k] /\ field'[k] = field[k],
               pc'[w] \in {"fields", "create", "tagFail", "cache", "add"} =>
                 \A f \in DOMAIN Body[msg'[w]] \ todo'[w] :
                   FieldDone(msg[w], f)' \/ (pc'[w] # "fields" /\ f = field'[w]),
               pc'[w] \in {"fields", "create", "tagFail", "cache", "add"} => msg'[w] = msg[w],
               pc'[w] = "tagFail" => <<msg'[w], field'[w]>> \in tagFailures'
        PROVE  LoopInv'
    BY <2>2, <2>3 DEF LoopInv, FieldDone, Recorded, Kept
  <2>4. ASSUME NEW w \in Worker,
               Receive(w) \/ WorkerReturns(w) \/ ReturnError(w) \/ SaveMissingDevice(w)
                 \/ EndOfFields(w)
        PROVE  LoopInv'
    <3>1. /\ UNCHANGED <<todo, field>> /\ pc'[w] \in {"receive", "lookup", "gone"}
          /\ \A k \in Worker \ {w} : msg'[k] = msg[k] /\ pc'[k] = pc[k]
      BY <2>4 DEF Receive, WorkerReturns, ReturnError, SaveMissingDevice, EndOfFields, Finish,
                  TypeInv, TypeOK
    <3> QED BY <2>3, <3>1
  <2>5. ASSUME NEW w \in Worker, Lookup(w) PROVE LoopInv'
    <3>1. /\ UNCHANGED <<msg, field>> /\ pc'[w] \in {"fields", "orphan"}
          /\ pc'[w] = "fields" => todo'[w] = DOMAIN Body[msg[w]]
          /\ \A k \in Worker \ {w} : todo'[k] = todo[k] /\ pc'[k] = pc[k]
      BY <2>5 DEF Lookup, TypeInv, TypeOK
    <3> QED BY <2>3, <3>1
  <2>6. ASSUME NEW w \in Worker, NEW f \in Field, NextField(w, f) PROVE LoopInv'
    <3>1. /\ UNCHANGED msg /\ pc[w] = "fields" /\ pc'[w] \in {"create", "add"}
          /\ todo'[w] = todo[w] \ {f} /\ field'[w] = f
          /\ \A k \in Worker \ {w} : todo'[k] = todo[k] /\ pc'[k] = pc[k] /\ field'[k] = field[k]
      BY <2>6 DEF NextField, TypeInv, TypeOK
    <3>2. \A g \in DOMAIN Body[msg[w]] \ todo'[w] : FieldDone(msg[w], g)' \/ g = f
      BY <2>1, <3>1 DEF LoopInv, TypeInv, TypeOK, InHand
    <3> QED BY <2>3, <3>1, <3>2
  <2>7. ASSUME NEW w \in Worker, CreateTag(w) \/ CreateTagFails(w) \/ CacheTag(w)
        PROVE  LoopInv'
    <3>1. /\ UNCHANGED <<msg, field, todo>> /\ pc[w] \in {"create", "cache"}
          /\ pc'[w] \in {"cache", "tagFail", "add"}
          /\ \A k \in Worker \ {w} : pc'[k] = pc[k]
      BY <2>7 DEF CreateTag, CreateTagFails, CacheTag, TypeInv, TypeOK
    <3>2. pc'[w] = "tagFail" => <<msg'[w], field'[w]>> \in tagFailures'
      BY <2>7 DEF CreateTag, CreateTagFails, CacheTag, TypeInv, TypeOK
    <3>3. \A f \in DOMAIN Body[msg[w]] \ todo[w] : FieldDone(msg[w], f)' \/ f = field[w]
      BY <2>1, <3>1 DEF LoopInv, TypeInv, InHand
    <3> QED BY <2>3, <3>1, <3>2, <3>3
  <2>8. ASSUME NEW w \in Worker, AddRecord(w) \/ SaveTagFailure(w) PROVE LoopInv'
    <3>1. /\ UNCHANGED <<msg, todo>> /\ pc[w] \in {"add", "tagFail"} /\ pc'[w] = "fields"
          /\ \A k \in Worker \ {w} : pc'[k] = pc[k] /\ field'[k] = field[k]
      BY <2>8 DEF AddRecord, SaveTagFailure, EndOfBody, TypeInv, TypeOK
    <3>2. ASSUME NEW f, f = field[w] PROVE FieldDone(msg[w], f)'
      <4>1. CASE AddRecord(w)
        <5>1. \/ <<msg[w], f>> \in dropped'
              \/ \E t \in Table :
                   <<msg[w], f, t>> \in records'
          BY <3>2, <4>1, ValueTypes DEF AddRecord
        <5> QED BY <3>1, <5>1 DEF FieldDone, Recorded
      <4>2. CASE SaveTagFailure(w)
        <5>1. <<msg[w], f>> \in tagFailures' /\ msg[w] \in Message
          BY <3>2, <4>2 DEF SaveTagFailure, LoopInv, TypeInv, InHand
        <5>2. orphans'[msg[w]] # None \/ msg[w] \in unsaved'
          BY <4>2, <5>1, ValueTypes DEF SaveTagFailure, TypeInv, TypeOK, Reason, Save
        <5> QED BY <3>1, <5>1, <5>2 DEF FieldDone, Kept
      <4> QED BY <2>8, <4>1, <4>2
    <3>3. \A f \in DOMAIN Body[msg[w]] \ todo[w] : FieldDone(msg[w], f)'
      BY <2>1, <3>1, <3>2 DEF LoopInv, TypeInv, InHand
    <3> QED BY <2>3, <3>1, <3>3
  <2>9. CASE \/ (\E m \in Message : SubmitMessage(m)) \/ (\E d \in Device : DeviceLoaded(d))
             \/ Shutdown \/ Stopped \/ UNCHANGED vars
    <3>1. UNCHANGED <<msg, pc, todo, field>>
      BY <2>9 DEF SubmitMessage, DeviceLoaded, Shutdown, Stopped, vars
    <3> QED BY <2>2, <3>1 DEF LoopInv, FieldDone, Recorded, Kept
  <2> QED BY <2>4, <2>5, <2>6, <2>7, <2>8, <2>9 DEF Next, Work
<1>3. TypeInv /\ LoopInv /\ EveryFieldTreated /\ [Next]_vars => EveryFieldTreated'
  <2> SUFFICES ASSUME TypeInv, LoopInv, EveryFieldTreated, [Next]_vars,
                      NEW m \in Message, Finished(m)', DeviceOf[m] # None, Body[m] # Malformed
               PROVE  \/ orphans'[m] = "missing_device" \/ m \in unsaved'
                      \/ \A f \in DOMAIN Body[m] : FieldDone(m, f)'
    BY DEF EveryFieldTreated, FieldDone
  <2>1. \A f : FieldDone(m, f) => FieldDone(m, f)'
    BY OutcomeGrows DEF FieldDone, Recorded
  <2>2. CASE Finished(m)
    <3>1. \/ orphans[m] = "missing_device" \/ m \in unsaved
          \/ \A f \in DOMAIN Body[m] : FieldDone(m, f)
      BY <2>2 DEF EveryFieldTreated, FieldDone
    <3>2. \A w \in Worker : msg[w] # m
      BY <2>2 DEF Finished
    <3> QED BY <2>1, <3>1, <3>2, OutcomeGrows
  <2>3. CASE ~Finished(m)
    <3>1. PICK w \in Worker : /\ msg[w] = m
                              /\ ReturnError(w) \/ SaveMissingDevice(w) \/ EndOfFields(w)
      BY <2>3, FinishingStep
    <3>2. ~ReturnError(w)
      BY <3>1 DEF ReturnError, Unparsable
    <3>3. CASE SaveMissingDevice(w)
      BY <3>1, <3>3, SaveKeeps DEF SaveMissingDevice, Reason, TypeInv
    <3>4. CASE EndOfFields(w)
      BY <2>1, <3>1, <3>4 DEF EndOfFields, LoopInv
    <3> QED BY <3>1, <3>2, <3>3, <3>4
  <2> QED BY <2>2, <2>3
<1> QED BY <1>1, <1>2, <1>3, TypeCorrect, PTL DEF Spec

----------------------------------------------------------------------------
(* A data type comes from the table the pool started with, or from a message. *)
Sourced(t, type) ==
  \/ type = None \/ KnownType[t] = type
  \/ \E n \in submitted : /\ DeviceOf[n] = t[1] /\ Body[n] # Malformed
                          /\ t[2] \in DOMAIN Body[n]
                          /\ determineDataType(Body[n][t[2]]) = type

SourceInv ==
  /\ \A m : Holds(channel, m) => m \in submitted
  /\ \A w \in Worker : msg[w] # None => msg[w] \in submitted
  /\ \A t \in Tag : Sourced(t, cached[t])
  /\ \A w \in Worker : pc[w] \in {"create", "tagFail", "cache", "add"} =>
       Sourced(tagOf(w), dataType[w])

(* A tag's type that came from somewhere still did. *)
LEMMA SourcesGrow ==
  ASSUME submitted \subseteq submitted', NEW t, NEW type, Sourced(t, type)
  PROVE  Sourced(t, type)'
BY DEF Sourced

(* A step of a worker that leaves the cache and the channel alone. *)
LEMMA SourceKept ==
  ASSUME TypeInv, SourceInv, NEW w \in Worker, UNCHANGED <<channel, submitted, cached>>,
         msg'[w] \in {msg[w], None},
         \A k \in Worker \ {w} : /\ pc'[k] = pc[k] /\ msg'[k] = msg[k]
                                 /\ field'[k] = field[k] /\ dataType'[k] = dataType[k],
         \/ pc'[w] \notin {"create", "tagFail", "cache", "add"}
         \/ /\ pc[w] \in {"create", "tagFail", "cache", "add"}
            /\ msg'[w] = msg[w] /\ field'[w] = field[w] /\ dataType'[w] = dataType[w]
  PROVE  SourceInv'
<1>1. ASSUME NEW k \in Worker, pc'[k] \in {"create", "tagFail", "cache", "add"}
      PROVE  /\ pc[k] \in {"create", "tagFail", "cache", "add"}
             /\ msg'[k] = msg[k] /\ field'[k] = field[k] /\ dataType'[k] = dataType[k]
  BY <1>1
<1>2. ASSUME NEW k \in Worker, pc'[k] \in {"create", "tagFail", "cache", "add"}
      PROVE  Sourced(tagOf(k), dataType[k])'
  <2>1. Sourced(tagOf(k), dataType[k])
    BY <1>1, <1>2 DEF SourceInv
  <2> QED BY <1>1, <1>2, <2>1 DEF Sourced, tagOf
<1>3. \A t \in Tag : Sourced(t, cached[t])'
  BY DEF SourceInv, Sourced
<1>4. \A k \in Worker : msg'[k] # None => msg'[k] \in submitted'
  BY DEF SourceInv
<1>5. \A m : Holds(channel, m)' => m \in submitted'
  BY DEF SourceInv
<1> QED BY <1>2, <1>3, <1>4, <1>5 DEF SourceInv

(* However workers race for a new tag, it gets its data type from one of the   *)
(* messages, and a value is dropped only where another message, or the         *)
(* database, gave the tag another type.                                        *)
THEOREM DropsAlwaysOnTypeConflict == Spec => []DropsOnlyOnTypeConflict
<1> USE DEF cacheVars, workVars, metrics, outcome
<1>1. Init => SourceInv /\ DropsOnlyOnTypeConflict
  <2> SUFFICES ASSUME Init PROVE SourceInv /\ DropsOnlyOnTypeConflict
    OBVIOUS
  <2>1. \A t \in Tag : cached[t] \in {None, KnownType[t]}
    BY DEF Init
  <2>2. \A m : ~Holds(channel, m)
    BY DEF Init, Holds
  <2> QED BY <2>1, <2>2 DEF Init, SourceInv, Sourced, DropsOnlyOnTypeConflict
<1>2. TypeInv /\ SourceInv /\ [Next]_vars => SourceInv' /\ submitted \subseteq submitted'
  <2> SUFFICES ASSUME TypeInv, SourceInv, [Next]_vars
               PROVE  SourceInv' /\ submitted \subseteq submitted'
    OBVIOUS
  <2>1. ASSUME NEW m \in Message, SubmitMessage(m) PROVE SourceInv' /\ submitted \subseteq submitted'
    <3>1. \A n : Holds(channel', n) <=> n = m \/ Holds(channel, n)
      <4>1. channel \in Seq(Message) /\ channel' = Append(channel, m)
        BY <2>1 DEF SubmitMessage, TypeInv, TypeOK
      <4> QED BY <4>1, SendStep
    <3>2. submitted' = submitted \cup {m} /\ UNCHANGED <<cached, pc, msg, field, dataType>>
      BY <2>1 DEF SubmitMessage
    <3> QED BY <3>1, <3>2, SourcesGrow DEF SourceInv, tagOf, Sourced
  <2>2. ASSUME NEW w \in Worker, Receive(w) PROVE SourceInv' /\ UNCHANGED submitted
    <3>1. \A n : Holds(channel, n) <=> n = Head(channel) \/ Holds(channel', n)
      <4>1. channel \in Seq(Message) /\ channel # <<>> /\ channel' = Tail(channel)
        BY <2>2 DEF Receive, TypeInv, TypeOK
      <4> QED BY <4>1, ReceiveStep
    <3>2. /\ UNCHANGED <<submitted, cached, field, dataType>>
          /\ pc'[w] = "lookup" /\ msg'[w] = Head(channel)
          /\ \A k \in Worker \ {w} : pc'[k] = pc[k] /\ msg'[k] = msg[k]
      BY <2>2 DEF Receive, TypeInv, TypeOK
    <3> QED BY <3>1, <3>2 DEF SourceInv, Sourced, tagOf
  <2>3. ASSUME NEW w \in Worker,
               \/ ReturnError(w) \/ SaveMissingDevice(w) \/ EndOfFields(w)
        PROVE  SourceInv' /\ UNCHANGED submitted
    <3>1. /\ UNCHANGED <<channel, submitted, cached, field, dataType>>
          /\ pc'[w] = "receive" /\ msg'[w] = None
          /\ \A k \in Worker \ {w} : pc'[k] = pc[k] /\ msg'[k] = msg[k]
      BY <2>3 DEF ReturnError, SaveMissingDevice, EndOfFields, Finish, TypeInv, TypeOK
    <3> QED BY <3>1, SourceKept
  <2>4. ASSUME NEW w \in Worker, WorkerReturns(w) \/ Lookup(w)
        PROVE  SourceInv' /\ UNCHANGED submitted
    <3>1. /\ UNCHANGED <<channel, submitted, cached, field, dataType, msg>>
          /\ pc'[w] \in {"gone", "fields", "orphan"}
          /\ \A k \in Worker \ {w} : pc'[k] = pc[k]
      BY <2>4 DEF WorkerReturns, Lookup, TypeInv, TypeOK
    <3> QED BY <3>1, SourceKept
  <2>5. ASSUME NEW w \in Worker, AddRecord(w) \/ SaveTagFailure(w)
        PROVE  SourceInv' /\ UNCHANGED submitted
    <3>1. /\ UNCHANGED <<channel, submitted, cached, msg>> /\ pc'[w] = "fields"
          /\ \A k \in Worker \ {w} : /\ pc'[k] = pc[k] /\ field'[k] = field[k]
                                     /\ dataType'[k] = dataType[k]
      BY <2>5 DEF AddRecord, SaveTagFailure, EndOfBody, TypeInv, TypeOK
    <3> QED BY <3>1, SourceKept
  <2>6. ASSUME NEW w \in Worker, CreateTag(w) \/ CreateTagFails(w)
        PROVE  SourceInv' /\ UNCHANGED submitted
    <3>1. /\ UNCHANGED <<channel, submitted, cached, msg, field, dataType>> /\ pc[w] = "create"
          /\ \A k \in Worker \ {w} : pc'[k] = pc[k]
      BY <2>6 DEF CreateTag, CreateTagFails, TypeInv, TypeOK
    <3> QED BY <3>1, SourceKept
  <2>7. ASSUME NEW w \in Worker, CacheTag(w) PROVE SourceInv' /\ UNCHANGED submitted
    <3>1. /\ UNCHANGED <<channel, submitted, msg, field, dataType>> /\ pc[w] = "cache"
          /\ \A k \in Worker \ {w} : pc'[k] = pc[k]
          /\ \A t \in Tag : cached'[t] = cached[t] \/ (t = tagOf(w) /\ cached'[t] = dataType[w])
      BY <2>7 DEF CacheTag, TypeInv, TypeOK
    <3>2. \A k \in Worker : pc'[k] \in {"create", "tagFail", "cache", "add"} =>
                            pc[k] \in {"create", "tagFail", "cache", "add"}
      BY <3>1
    <3> QED BY <3>1, <3>2 DEF SourceInv, Sourced, tagOf
  <2>8. ASSUME NEW w \in Worker, NEW f \in Field, NextField(w, f)
        PROVE  SourceInv' /\ UNCHANGED submitted
    <3>1. /\ UNCHANGED <<channel, submitted, cached, msg>> /\ field'[w] = f /\ pc[w] = "fields"
          /\ f \in todo[w]
          /\ \A k \in Worker \ {w} : /\ pc'[k] = pc[k] /\ field'[k] = field[k]
                                     /\ dataType'[k] = dataType[k]
      BY <2>8 DEF NextField, TypeInv, TypeOK
    <3>2. /\ msg[w] \in submitted /\ DeviceOf[msg[w]] \in Device /\ Body[msg[w]] # Malformed
          /\ f \in DOMAIN Body[msg[w]]
      BY <3>1 DEF SourceInv, TypeInv, InHand
    <3>3. \/ dataType'[w] = cached[<<DeviceOf[msg[w]], f>>]
          \/ dataType'[w] = determineDataType(Body[msg[w]][f])
      BY <2>8 DEF NextField, TypeInv, TypeOK
    <3>4. <<DeviceOf[msg[w]], f>> \in Tag
      BY <3>2 DEF Tag
    <3>5. Sourced(<<DeviceOf[msg[w]], f>>, dataType'[w])
      BY <3>2, <3>3, <3>4 DEF Sourced, SourceInv
    <3>6. Sourced(tagOf(w), dataType[w])'
      BY <3>1, <3>5 DEF Sourced, tagOf
    <3>7. ASSUME NEW k \in Worker \ {w}, pc'[k] \in {"create", "tagFail", "cache", "add"}
          PROVE  Sourced(tagOf(k), dataType[k])'
      <4>1. Sourced(tagOf(k), dataType[k])
        BY <3>1, <3>7 DEF SourceInv
      <4> QED BY <3>1, <4>1 DEF Sourced, tagOf
    <3>8. \A t \in Tag : Sourced(t, cached[t])'
      BY <3>1 DEF SourceInv, Sourced
    <3> QED BY <3>1, <3>6, <3>7, <3>8 DEF SourceInv
  <2>9. CASE \/ (\E d \in Device : DeviceLoaded(d)) \/ Shutdown \/ Stopped \/ UNCHANGED vars
    <3>1. UNCHANGED <<channel, submitted, cached, pc, msg, field, dataType>>
      BY <2>9 DEF DeviceLoaded, Shutdown, Stopped, vars
    <3> QED BY <3>1 DEF SourceInv, Sourced, tagOf
  <2> QED BY <2>1, <2>2, <2>3, <2>4, <2>5, <2>6, <2>7, <2>8, <2>9 DEF Next, Work
<1>3. TypeInv /\ SourceInv /\ DropsOnlyOnTypeConflict /\ [Next]_vars
        => DropsOnlyOnTypeConflict'
  <2> SUFFICES ASSUME TypeInv, SourceInv, DropsOnlyOnTypeConflict, [Next]_vars
               PROVE  DropsOnlyOnTypeConflict'
    OBVIOUS
  <2>1. submitted \subseteq submitted'
    BY <1>2
  <2>2. \A m, f : TypeElsewhere(m, f) => TypeElsewhere(m, f)'
    BY <2>1 DEF TypeElsewhere
  <2>3. CASE UNCHANGED dropped
    BY <2>2, <2>3 DEF DropsOnlyOnTypeConflict
  <2>4. ASSUME NEW w \in Worker, AddRecord(w), dropped' # dropped
        PROVE  DropsOnlyOnTypeConflict'
    <3>1. /\ dropped' = dropped \cup {<<msg[w], field[w]>>} /\ pc[w] = "add"
          /\ TableFor(dataType[w], valueOf(w)) = None /\ UNCHANGED submitted
      BY <2>4 DEF AddRecord
    <3>2. ASSUME valueOf(w) \in {"number", "string"} PROVE TypeElsewhere(msg[w], field[w])
      <4>1. dataType[w] # determineDataType(valueOf(w))
        BY <3>1, <3>2, ValueTypes DEF TableFor, determineDataType, Table
      <4>2. Sourced(<<DeviceOf[msg[w]], field[w]>>, dataType[w]) /\ dataType[w] # None
        BY <3>1, ValueTypes DEF SourceInv, tagOf, TypeInv, InHand
      <4> QED BY <4>1, <4>2 DEF Sourced, TypeElsewhere, valueOf
    <3>3. \A d \in dropped' : Body[d[1]][d[2]] \in {"number", "string"} => TypeElsewhere(d[1], d[2])
      BY <3>1, <3>2 DEF DropsOnlyOnTypeConflict, valueOf
    <3> QED BY <2>2, <3>3 DEF DropsOnlyOnTypeConflict
  <2>5. ASSUME NEW w \in Worker, Work(w), ~AddRecord(w) PROVE UNCHANGED dropped
    BY <2>5 DEF Work, Receive, WorkerReturns, Lookup, ReturnError, SaveMissingDevice, NextField,
       EndOfFields, CreateTag, CreateTagFails, SaveTagFailure, CacheTag
  <2>6. CASE \/ (\E m \in Message : SubmitMessage(m)) \/ (\E d \in Device : DeviceLoaded(d))
             \/ Shutdown \/ Stopped \/ UNCHANGED vars
    BY <2>3, <2>6 DEF SubmitMessage, DeviceLoaded, Shutdown, Stopped, vars
  <2> QED BY <2>3, <2>4, <2>5, <2>6 DEF Next
<1> QED BY <1>1, <1>2, <1>3, TypeCorrect, PTL DEF Spec

----------------------------------------------------------------------------
Hands == {w \in Worker : msg[w] # None}

(* The balance of the messages; and no worker has returned before the channel *)
(* was closed and empty, as it then stays.                                     *)
CountInv ==
  /\ IsFiniteSet(submitted)
  /\ processed + errors + Len(channel) + Cardinality(Hands) = Cardinality(submitted)
  /\ (\E w \in Worker : pc[w] = "gone") => closed /\ channel = <<>>

(* One worker takes a message into its hand, or has done with it. *)
LEMMA HandStep ==
  ASSUME TypeOK, NEW w \in Worker, \A k \in Worker \ {w} : msg'[k] = msg[k]
  PROVE  /\ Cardinality(Hands) \in Nat /\ Cardinality(Hands') \in Nat
         /\ msg[w] = None /\ msg'[w] # None => Cardinality(Hands') = Cardinality(Hands) + 1
         /\ msg[w] # None /\ msg'[w] = None => Cardinality(Hands') = Cardinality(Hands) - 1
<1>1. IsFiniteSet(Hands) /\ IsFiniteSet(Hands')
  BY FS_Subset DEF Hands
<1>2. msg[w] = None /\ msg'[w] # None => Hands' = Hands \cup {w} /\ w \notin Hands
  BY DEF Hands
<1>3. msg[w] # None /\ msg'[w] = None => Hands' = Hands \ {w} /\ w \in Hands
  BY DEF Hands
<1> QED BY <1>1, <1>2, <1>3, FS_CardinalityType, FS_AddElement, FS_RemoveElement

(* The balance of an empty pool. *)
LEMMA CountInit == Init => CountInv
<1> SUFFICES ASSUME Init PROVE CountInv
  OBVIOUS
<1>1. Hands = {} /\ submitted = {}
  BY DEF Init, Hands
<1>2. Cardinality(Hands) = 0 /\ Cardinality(submitted) = 0 /\ IsFiniteSet(submitted)
  BY <1>1, FS_EmptySet
<1>3. processed = 0 /\ errors = 0 /\ Len(channel) = 0 /\ \A w \in Worker : pc[w] # "gone"
  BY DEF Init
<1> QED BY <1>2, <1>3 DEF CountInv

(* SubmitMessage, Receive and Finish move a message from one term of the balance *)
(* to another.                                                                   *)
LEMMA CountStep == TypeInv /\ CountInv /\ [Next]_vars => CountInv'
<1> USE DEF cacheVars, workVars, metrics, outcome
<1> SUFFICES ASSUME TypeInv, CountInv, [Next]_vars PROVE CountInv'
  OBVIOUS
<1>1. /\ Len(channel) \in Nat /\ Cardinality(Hands) \in Nat /\ Cardinality(submitted) \in Nat
      /\ processed \in Nat /\ errors \in Nat
  <2>1. IsFiniteSet(Hands)
    BY FS_Subset DEF Hands
  <2> QED BY <2>1, FS_CardinalityType DEF CountInv, TypeInv, TypeOK
<1>2. ASSUME NEW m \in Message, SubmitMessage(m) PROVE CountInv'
  <2>1. Len(channel') = Len(channel) + 1
    <3>1. channel \in Seq(Message) /\ channel' = Append(channel, m)
      BY <1>2 DEF SubmitMessage, TypeInv, TypeOK
    <3> QED BY <3>1, SendStep
  <2>2. IsFiniteSet(submitted') /\ Cardinality(submitted') = Cardinality(submitted) + 1
    BY <1>2, FS_AddElement DEF SubmitMessage, CountInv
  <2>3. Hands' = Hands
    BY <1>2 DEF SubmitMessage, Hands
  <2>4. UNCHANGED <<processed, errors, pc, closed>> /\ ~closed
    BY <1>2 DEF SubmitMessage
  <2> QED BY <1>1, <2>1, <2>2, <2>3, <2>4 DEF CountInv
<1>3. ASSUME NEW w \in Worker, Receive(w) PROVE CountInv'
  <2>1. /\ channel \in Seq(Message) /\ channel # <<>> /\ channel' = Tail(channel)
        /\ pc[w] = "receive" /\ pc'[w] = "lookup" /\ msg'[w] = Head(channel)
        /\ \A k \in Worker \ {w} : msg'[k] = msg[k] /\ pc'[k] = pc[k]
        /\ UNCHANGED <<processed, errors, submitted, closed>>
    BY <1>3 DEF Receive, TypeInv, TypeOK
  <2>2. Len(channel') = Len(channel) - 1 /\ Head(channel) \in Message
    BY <2>1, ReceiveStep
  <2>3. Cardinality(Hands') = Cardinality(Hands) + 1
    BY <2>1, <2>2, HandStep DEF TypeInv, InHand
  <2>4. \A k \in Worker : pc'[k] # "gone"
    BY <2>1 DEF CountInv
  <2> QED BY <1>1, <2>1, <2>2, <2>3, <2>4 DEF CountInv
<1>4. ASSUME NEW w \in Worker, ReturnError(w) \/ SaveMissingDevice(w) \/ EndOfFields(w)
      PROVE  CountInv'
  <2>1. /\ UNCHANGED <<channel, submitted, closed>> /\ msg[w] # None /\ msg'[w] = None
        /\ pc'[w] = "receive"
        /\ \A k \in Worker \ {w} : msg'[k] = msg[k] /\ pc'[k] = pc[k]
    BY <1>4 DEF ReturnError, SaveMissingDevice, EndOfFields, Finish, TypeInv, TypeOK, InHand
  <2>2. \/ processed' = processed + 1 /\ errors' = errors
        \/ processed' = processed /\ errors' = errors + 1
    BY <1>4 DEF ReturnError, SaveMissingDevice, EndOfFields, Finish
  <2>3. Cardinality(Hands') = Cardinality(Hands) - 1
    BY <2>1, HandStep DEF TypeInv
  <2>4. processed' + errors' + Cardinality(Hands') = processed + errors + Cardinality(Hands)
    BY <1>1, <2>2, <2>3
  <2>5. /\ processed' + errors' + Len(channel') + Cardinality(Hands') = Cardinality(submitted')
        /\ IsFiniteSet(submitted')
    BY <1>1, <2>1, <2>2, <2>3 DEF CountInv
  <2>6. (\E k \in Worker : pc'[k] = "gone") => closed' /\ channel' = <<>>
    BY <2>1 DEF CountInv
  <2> QED BY <2>5, <2>6 DEF CountInv
<1>5. ASSUME NEW w \in Worker, WorkerReturns(w) PROVE CountInv'
  <2>1. UNCHANGED <<channel, submitted, closed, processed, errors, msg>> /\ closed /\ channel = <<>>
    BY <1>5 DEF WorkerReturns
  <2>2. Hands' = Hands
    BY <2>1 DEF Hands
  <2> QED BY <2>1, <2>2 DEF CountInv
<1>6. ASSUME NEW w \in Worker,
             \/ Lookup(w) \/ CreateTag(w) \/ CreateTagFails(w) \/ SaveTagFailure(w)
             \/ CacheTag(w) \/ AddRecord(w) \/ \E f \in Field : NextField(w, f)
      PROVE  CountInv'
  <2>1. /\ UNCHANGED <<channel, submitted, closed, processed, errors, msg>>
        /\ \E where \in PcValue \ {"gone"} : pc' = [pc EXCEPT ![w] = where]
    <3>1. CASE Lookup(w) \/ CreateTag(w) \/ CreateTagFails(w) \/ CacheTag(w)
      BY <3>1 DEF Lookup, CreateTag, CreateTagFails, CacheTag, PcValue
    <3>2. CASE SaveTagFailure(w) \/ AddRecord(w)
      BY <3>2 DEF SaveTagFailure, AddRecord, EndOfBody, PcValue
    <3>3. CASE \E f \in Field : NextField(w, f)
      BY <3>3 DEF NextField, PcValue
    <3> QED BY <1>6, <3>1, <3>2, <3>3
  <2>2. pc'[w] # "gone" /\ \A k \in Worker \ {w} : pc'[k] = pc[k]
    BY <2>1 DEF TypeInv, TypeOK
  <2>3. Hands' = Hands
    BY <2>1 DEF Hands
  <2> QED BY <2>1, <2>2, <2>3 DEF CountInv
<1>7. CASE \/ (\E d \in Device : DeviceLoaded(d)) \/ Shutdown \/ Stopped \/ UNCHANGED vars
  <2>1. UNCHANGED <<channel, submitted, processed, errors, msg, pc>> /\ (closed => closed')
    BY <1>7 DEF DeviceLoaded, Shutdown, Stopped, vars
  <2>2. Hands' = Hands
    BY <2>1 DEF Hands
  <2> QED BY <2>1, <2>2 DEF CountInv
<1> QED BY <1>2, <1>3, <1>4, <1>5, <1>6, <1>7 DEF Next, Work

(* The metrics never lose a message or count one twice, in whatever order the  *)
(* workers take and finish them, and Shutdown leaves none behind.              *)
THEOREM MessagesAlwaysConserved == Spec => []MessagesConserved
<1>1. TypeInv /\ CountInv => MessagesConserved
  <2> SUFFICES ASSUME TypeInv, CountInv PROVE MessagesConserved
    OBVIOUS
  <2>1. processed + errors + Len(channel) + Cardinality(Hands) = Cardinality(submitted)
    BY DEF CountInv
  <2>2. ASSUME Drained PROVE processed + errors = Cardinality(submitted)
    <3>1. channel = <<>>
      BY <2>2 DEF Drained, CountInv
    <3>2. Hands = {}
      BY <2>2 DEF Drained, Hands, TypeInv, InHand
    <3>3. Cardinality(Hands) = 0 /\ Len(channel) = 0
      BY <3>1, <3>2, FS_EmptySet
    <3> QED BY <2>1, <3>3 DEF TypeInv, TypeOK
  <2> QED BY <2>1, <2>2 DEF MessagesConserved, Hands
<1> QED BY <1>1, CountInit, CountStep, TypeCorrect, PTL DEF Spec

----------------------------------------------------------------------------
(* The process around the pool. *)
USE DEF flusher, main

(* The types of the logs, without what tells the messages apart. *)
LEMMA LogTypes ==
  /\ EndOffset \in Nat
  /\ \A t \in Topic : /\ Len(Log[t]) \in Nat
                      /\ \A i \in 1..Len(Log[t]) : Log[t][i] \in Message
<1>1. EndOffset \in Nat /\ \A t \in Topic : Log[t] \in Seq(Message)
  BY LogAssumption
<1> QED BY <1>1

(* What holds of the pool alone. *)
PoolInv == TypeInv /\ CountInv /\ ParseErrorsKept

(* The readers: what each has fetched has been submitted, but for the message in *)
(* hand; one that has returned has come to END_OFFSET or to the end of its       *)
(* topic, or it is known why not.                                                *)
Replayed(t, k) == \A i \in 1..k : Log[t][i] \in submitted

ReaderInv(t) ==
  /\ offset[t] \in 0..Len(Log[t])
  /\ reader[t] \in {"loop", "fetch"} => offset[t] <= EndOffset /\ Replayed(t, offset[t])
  /\ reader[t] = "submit" => offset[t] \in 1..EndOffset /\ Replayed(t, offset[t] - 1)
  /\ reader[t] = "done" =>
       \/ t \in early \/ firstErr # None
       \/ \A i \in 1..Len(Log[t]) : i <= EndOffset => Log[t][i] \in submitted
  /\ \A i \in 1..Len(Log[t]) : i > EndOffset => Log[t][i] \notin submitted

ReadInv ==
  /\ reader \in [Topic -> ReaderValue] /\ offset \in [Topic -> Nat]
  /\ firstErr \in {None, "canceled", "error"}
  /\ firstErr = "canceled" => cancelled
  /\ \A t \in Topic : ReaderInv(t)

(* The main goroutine: what each of its phases can rely on. *)
PhaseInv ==
  /\ copying \in [{flusher, main} -> SUBSET (Message \X Field \X Table)]
  /\ phase \in {"metadata", "reload"} =>
       /\ \A w \in Worker : pc[w] = "receive"
       /\ \A m \in Message : orphans[m] = None
  /\ phase \in {"drain", "flush", "close", "exited"} => \A t \in Topic : reader[t] = "done"
  /\ phase \in {"flush", "close", "exited"} => Drained
  /\ phase \in {"close", "exited"} => firstErr # "error"
  /\ phase = "close" => records \subseteq written \cup lost \cup copying[flusher]
  /\ phase = "exited" => records \subseteq written \cup lost

(* The cache is never behind the table, and a worker that found no device saves *)
(* an orphan of one that is not there.                                          *)
DeviceInv ==
  /\ rows \subseteq devices
  /\ \A w \in Worker : pc[w] = "orphan" => DeviceOf[msg[w]] \notin rows
  /\ OrphansLackDevice

ProcessInv == PoolInv /\ ReadInv /\ PhaseInv /\ DeviceInv

----------------------------------------------------------------------------
(* What the metadata phase does to the pool, which has nothing to do yet. *)
Load ==
  /\ devices \subseteq devices' /\ devices' \subseteq Device
  /\ phase \in {"metadata", "reload"}
  /\ UNCHANGED <<channel, closed, submitted, cached, stored, orphans, workVars, metrics, outcome>>

(* Every step of the process is one of the pool, or loads devices. *)
LEMMA PoolStep ==
  ASSUME PoolInv, ReadInv, DeviceInv, [ProcessNext]_processVars
  PROVE  [Next]_vars \/ Load
<1>1. CASE UNCHANGED poolVars
  BY <1>1 DEF poolVars, vars
<1>2. CASE MetadataMessage
  BY <1>2 DEF MetadataMessage, Load, PoolInv, TypeInv, TypeOK
<1>3. CASE Reload
  BY <1>3 DEF Reload, Load, DeviceInv, PoolInv, TypeInv, TypeOK
<1>4. ASSUME NEW t \in Topic, Submit(t) PROVE [Next]_vars
  <2>1. offset[t] \in 1..Len(Log[t])
    BY <1>4, LogTypes DEF Submit, ReadInv, ReaderInv
  <2> QED BY <1>4, <2>1, LogTypes DEF Submit, Next
<1>5. ASSUME NEW w \in Worker, WorkerStep(w) PROVE [Next]_vars
  BY <1>5 DEF WorkerStep, Next
<1>6. CASE TopicsEnd
  BY <1>6 DEF TopicsEnd, Next
<1>7. CASE \/ MetadataTopicEnds \/ MetadataFails \/ ReloadFails \/ PoolDrained \/ FinalFlush
           \/ StartReturns \/ FlusherStopped \/ Flusher \/ Signal \/ Over
  BY <1>1, <1>7 DEF MetadataTopicEnds, MetadataFails, ReloadFails, PoolDrained, FinalFlush,
     StartReturns, FlusherStopped, Flusher, Signal, Over, TakeBatch, EndCopy, processVars
<1>8. ASSUME NEW t \in Topic, CheckContext(t) \/ Fetch(t) \/ FetchTimesOut(t) \/ FetchFails(t)
      PROVE  UNCHANGED poolVars
  BY <1>8 DEF CheckContext, Fetch, FetchTimesOut, FetchFails
<1>9. CASE UNCHANGED processVars
  BY <1>1, <1>9 DEF processVars
<1> QED BY <1>1, <1>2, <1>3, <1>4, <1>5, <1>6, <1>7, <1>8, <1>9 DEF ProcessNext, Main, Read

(* The backfill service's pool keeps a message whose body cannot be parsed. *)
LEMMA ParseErrorsStep ==
  ASSUME ServiceAssumption, TypeInv, ParseErrorsKept, [Next]_vars
  PROVE  ParseErrorsKept'
<1> SUFFICES ASSUME NEW m \in Message, Finished(m)', DeviceOf[m] # None, Body[m] = Malformed
             PROVE  Kept(m)'
  BY DEF ParseErrorsKept
<1>1. CASE Finished(m)
  BY <1>1, OutcomeGrows DEF ParseErrorsKept
<1>2. CASE ~Finished(m)
  <2>1. PICK w \in Worker : /\ msg[w] = m
                            /\ ReturnError(w) \/ SaveMissingDevice(w) \/ EndOfFields(w)
    BY <1>2, FinishingStep
  <2>2. CASE ReturnError(w)
    <3>1. Save(m, "failed_to_parse")
      BY <2>1, <2>2 DEF ServiceAssumption, ReturnError
    <3> QED BY <3>1, SaveKeeps DEF TypeInv, Reason
  <2>3. CASE SaveMissingDevice(w)
    BY <2>1, <2>3, SaveKeeps DEF SaveMissingDevice, TypeInv, Reason
  <2>4. CASE EndOfFields(w)
    BY <2>1, <2>4 DEF EndOfFields, TypeInv, InHand
  <2> QED BY <2>1, <2>2, <2>3, <2>4
<1> QED BY <1>1, <1>2

(* What holds of the pool alone also holds of it beside readers and main. *)
LEMMA PoolInvStep ==
  ASSUME ServiceAssumption, ProcessInv, [ProcessNext]_processVars
  PROVE  PoolInv'
<1>1. CASE [Next]_vars
  BY <1>1, TypeStep, CountStep, ParseErrorsStep DEF ProcessInv, PoolInv
<1>2. CASE Load
  <2>1. TypeInv'
    BY <1>2 DEF Load, ProcessInv, PoolInv, TypeInv, TypeOK, InHand, workVars, metrics, outcome
  <2>2. CountInv'
    BY <1>2 DEF Load, ProcessInv, PoolInv, CountInv, Hands, workVars, metrics
  <2>3. ParseErrorsKept'
    BY <1>2 DEF Load, ProcessInv, PoolInv, ParseErrorsKept, Finished, Kept, workVars, outcome
  <2> QED BY <2>1, <2>2, <2>3 DEF PoolInv
<1> QED BY <1>1, <1>2, PoolStep DEF ProcessInv

----------------------------------------------------------------------------
(* A step in which no reader takes part and nothing is submitted. *)
LEMMA ReadKept ==
  ASSUME ReadInv, UNCHANGED <<reader, offset, early, firstErr, submitted>>,
         cancelled => cancelled'
  PROVE  ReadInv'
BY DEF ReadInv, ReaderInv, Replayed

(* A step of one reader: the others have nothing to lose. *)
LEMMA OneReader ==
  ASSUME ReadInv, NEW t \in Topic, ReaderInv(t)', UNCHANGED cancelled,
         reader' \in [Topic -> ReaderValue], offset' \in [Topic -> Nat],
         firstErr' \in {None, "canceled", "error"}, firstErr' = "canceled" => cancelled,
         firstErr # None => firstErr' # None,
         submitted \subseteq submitted', early \subseteq early',
         \A u \in Topic \ {t} :
           /\ reader'[u] = reader[u] /\ offset'[u] = offset[u]
           /\ \A i \in 1..Len(Log[u]) : i > EndOffset /\ Log[u][i] \in submitted'
                                        => Log[u][i] \in submitted
  PROVE  ReadInv'
<1>1. ASSUME NEW u \in Topic \ {t} PROVE ReaderInv(u)'
  BY <1>1 DEF ReadInv, ReaderInv, Replayed
<1> QED BY <1>1 DEF ReadInv

(* What a reader leaves behind when it returns. *)
LEMMA ReturnStep ==
  ASSUME ServiceAssumption, ReadInv, NEW t \in Topic, NEW err \in {None, "canceled", "error"}, Return(t, err)
  PROVE  /\ reader' \in [Topic -> ReaderValue] /\ reader'[t] = "done"
         /\ \A u \in Topic \ {t} : reader'[u] = reader[u]
         /\ firstErr' \in {None, "canceled", "error"} /\ firstErr' \in {firstErr, err}
         /\ firstErr # None => firstErr' # None
         /\ err # None => firstErr' # None
BY DEF ServiceAssumption, Return, ReadInv, ReaderValue

(* processTopic, whatever the rest of the process does meanwhile. *)
LEMMA ReadInvStep ==
  ASSUME ServiceAssumption, ProcessInv, [ProcessNext]_processVars
  PROVE  ReadInv'
<1> USE DEF readVars
<1>1. ReadInv
  BY DEF ProcessInv
<1>2. ASSUME NEW t \in Topic, CheckContext(t) PROVE ReadInv'
  <2>1. /\ reader[t] = "loop" /\ UNCHANGED <<offset, early, submitted, cancelled>>
    BY <1>2 DEF CheckContext, poolVars
  <2>2. CASE cancelled
    <3>1. Return(t, "canceled")
      BY <1>2, <2>2 DEF CheckContext
    <3>2. ReaderInv(t)'
      BY <1>1, <2>1, <3>1, ReturnStep DEF ServiceAssumption, ReadInv, ReaderInv
    <3> QED BY <1>1, <2>1, <2>2, <3>1, <3>2, ReturnStep, OneReader DEF ReadInv
  <2>3. CASE ~cancelled
    <3>1. reader' = [reader EXCEPT ![t] = "fetch"] /\ UNCHANGED firstErr
      BY <1>2, <2>3 DEF CheckContext
    <3>2. ReaderInv(t)'
      BY <1>1, <2>1, <3>1 DEF ReadInv, ReaderInv, Replayed
    <3> QED BY <1>1, <2>1, <3>1, <3>2, OneReader DEF ReadInv, ReaderValue
  <2> QED BY <2>2, <2>3
<1>3. ASSUME NEW t \in Topic, Fetch(t) PROVE ReadInv'
  <2>1. /\ reader[t] = "fetch" /\ offset[t] \in 0..(Len(Log[t]) - 1)
        /\ offset[t] <= EndOffset /\ Replayed(t, offset[t])
        /\ offset' = [offset EXCEPT ![t] = @ + 1]
        /\ UNCHANGED <<early, submitted, cancelled>>
    BY <1>1, <1>3, LogTypes DEF Fetch, ReadInv, ReaderInv, poolVars
  <2>2. offset' \in [Topic -> Nat] /\ offset'[t] = offset[t] + 1
        /\ \A u \in Topic \ {t} : offset'[u] = offset[u]
    BY <1>1, <2>1 DEF ReadInv
  <2>3. CASE offset[t] >= EndOffset
    <3>1. Return(t, None)
      BY <1>3, <2>3 DEF Fetch
    <3>2. \A i \in 1..Len(Log[t]) : i <= EndOffset => Log[t][i] \in submitted
      BY <2>1, <2>3, LogTypes DEF Replayed
    <3>3. ReaderInv(t)'
      BY <1>1, <2>1, <2>2, <3>1, <3>2, ReturnStep, LogTypes DEF ReadInv, ReaderInv
    <3> QED BY <1>1, <2>1, <2>2, <3>1, <3>3, ReturnStep, OneReader DEF ServiceAssumption, ReadInv
  <2>4. CASE ~(offset[t] >= EndOffset)
    <3>1. reader' = [reader EXCEPT ![t] = "submit"] /\ UNCHANGED firstErr
      BY <1>3, <2>4 DEF Fetch
    <3>2. ReaderInv(t)'
      BY <1>1, <2>1, <2>2, <2>4, <3>1, LogTypes DEF ReadInv, ReaderInv, Replayed
    <3> QED BY <1>1, <2>1, <2>2, <3>1, <3>2, OneReader DEF ReadInv, ReaderValue
  <2> QED BY <2>3, <2>4
<1>4. ASSUME NEW t \in Topic, FetchTimesOut(t) PROVE ReadInv'
  <2>1. /\ Return(t, None) /\ reader[t] = "fetch" /\ early \subseteq early'
        /\ t \in early' \/ offset[t] >= Len(Log[t]) \/ offset[t] >= EndOffset
        /\ UNCHANGED <<offset, submitted, cancelled>>
    BY <1>1, <1>4, LogTypes DEF FetchTimesOut, poolVars, ReadInv
  <2>2. t \in early' \/ \A i \in 1..Len(Log[t]) : i <= EndOffset => Log[t][i] \in submitted
    BY <1>1, <2>1, LogTypes DEF ReadInv, ReaderInv, Replayed
  <2>3. ReaderInv(t)'
    BY <1>1, <2>1, <2>2, ReturnStep DEF ReadInv, ReaderInv
  <2> QED BY <1>1, <2>1, <2>3, ReturnStep, OneReader DEF ServiceAssumption, ReadInv
<1>5. ASSUME NEW t \in Topic, FetchFails(t) PROVE ReadInv'
  <2>1. Return(t, "error") /\ reader[t] = "fetch" /\ UNCHANGED <<offset, early, submitted, cancelled>>
    BY <1>5 DEF FetchFails, poolVars
  <2>2. ReaderInv(t)'
    BY <1>1, <2>1, ReturnStep DEF ServiceAssumption, ReadInv, ReaderInv
  <2> QED BY <1>1, <2>1, <2>2, ReturnStep, OneReader DEF ReadInv
<1>6. ASSUME NEW t \in Topic, Submit(t) PROVE ReadInv'
  <2>1. /\ offset[t] \in 1..Len(Log[t]) /\ offset[t] <= EndOffset /\ Replayed(t, offset[t] - 1)
        /\ reader' = [reader EXCEPT ![t] = "loop"]
        /\ submitted' = submitted \cup {Log[t][offset[t]]}
        /\ UNCHANGED <<offset, early, firstErr, cancelled>>
    BY <1>1, <1>6, LogTypes DEF Submit, SubmitMessage, ReadInv, ReaderInv
  <2>2. \A u \in Topic : \A i \in 1..Len(Log[u]) :
          i > EndOffset /\ Log[u][i] \in submitted' => Log[u][i] \in submitted
    <3> SUFFICES ASSUME NEW u \in Topic, NEW i \in 1..Len(Log[u]), i > EndOffset
                 PROVE  Log[u][i] # Log[t][offset[t]]
      BY <2>1
    <3>1. Log[u][i] = Log[t][offset[t]] => i = offset[t]
      BY <2>1, LogAssumption
    <3> QED BY <2>1, <3>1, LogTypes
  <2>3. ReaderInv(t)'
    <3>1. Replayed(t, offset[t])'
      BY <2>1, LogTypes DEF Replayed
    <3> QED BY <1>1, <2>1, <2>2, <3>1 DEF ReadInv, ReaderInv
  <2> QED BY <1>1, <2>1, <2>2, <2>3, OneReader DEF ReadInv, ReaderValue
<1>7. ASSUME NEW w \in Worker, WorkerStep(w) PROVE ReadInv'
  <2>1. UNCHANGED submitted
    BY <1>7 DEF WorkerStep, Work, Receive, WorkerReturns, Lookup, ReturnError, SaveMissingDevice,
       NextField, EndOfFields, CreateTag, CreateTagFails, SaveTagFailure, CacheTag, AddRecord
  <2> QED BY <1>1, <1>7, <2>1, ReadKept DEF WorkerStep
<1>8. CASE Main \/ Flusher \/ Signal \/ Over \/ UNCHANGED processVars
  <2>1. UNCHANGED <<reader, offset, early, firstErr, submitted>> /\ (cancelled => cancelled')
    BY <1>8 DEF Main, MetadataMessage, MetadataTopicEnds, MetadataFails, Reload, ReloadFails,
       TopicsEnd, Shutdown, PoolDrained, FinalFlush, StartReturns, FlusherStopped, Flusher,
       TakeBatch, EndCopy, Signal, Over, processVars, poolVars
  <2> QED BY <1>1, <2>1, ReadKept
<1> QED BY <1>2, <1>3, <1>4, <1>5, <1>6, <1>7, <1>8 DEF ProcessNext, Read

----------------------------------------------------------------------------
(* A step that changes the batches or the database leaves no record out, as long *)
(* as no new one comes in.                                                       *)
LEMMA CopyStep ==
  ASSUME PoolInv, PhaseInv, NEW a \in {flusher, main}, TakeBatch(a) \/ EndCopy(a)
  PROVE  /\ copying' \in [{flusher, main} -> SUBSET (Message \X Field \X Table)]
         /\ written \subseteq written' /\ lost \subseteq lost'
         /\ \A b \in {flusher, main} : copying[b] \subseteq written' \cup lost' \cup copying'[b]
         /\ UNCHANGED <<poolVars, phase, metaVars, readVars, cancelled>>
<1>1. CASE TakeBatch(a)
  <2>1. PICK table \in Table : /\ copying' = [copying EXCEPT ![a] = Batch(table)]
                               /\ copying[a] = {} /\ UNCHANGED <<written, lost>>
    BY <1>1 DEF TakeBatch
  <2>2. Batch(table) \subseteq Message \X Field \X Table
    BY DEF Batch, PoolInv, TypeInv, TypeOK
  <2> QED BY <1>1, <2>1, <2>2 DEF PhaseInv, TakeBatch
<1>2. CASE EndCopy(a)
  BY <1>2 DEF PhaseInv, EndCopy
<1> QED BY <1>1, <1>2

(* The records of the workers are in the batches, in a COPY, written or lost. *)
LEMMA AllBatched ==
  ASSUME PoolInv, Batched = {}, copying[main] = {}
  PROVE  records \subseteq written \cup lost \cup copying[flusher]
<1> SUFFICES ASSUME NEW r \in records PROVE r \in written \cup lost \cup copying[flusher]
  OBVIOUS
<1>1. r[3] \in Table
  BY DEF PoolInv, TypeInv, TypeOK
<1>2. r \notin Batch(r[3])
  BY <1>1 DEF Batched
<1> QED BY <1>2 DEF Batch

(* processTopics and Close hand each phase what it relies on. *)
LEMMA PhaseInvStep ==
  ASSUME ProcessInv, [ProcessNext]_processVars
  PROVE  PhaseInv'
<1> USE DEF poolVars, readVars, flushVars, workVars, outcome
<1>1. PoolInv /\ ReadInv /\ PhaseInv
  BY DEF ProcessInv
<1>2. CASE MetadataMessage \/ MetadataTopicEnds \/ Reload
  BY <1>1, <1>2 DEF MetadataMessage, MetadataTopicEnds, Reload, PhaseInv
<1>3. CASE MetadataFails \/ ReloadFails
  BY <1>1, <1>3 DEF MetadataFails, ReloadFails, Die, PhaseInv
<1>4. CASE TopicsEnd
  BY <1>1, <1>4 DEF TopicsEnd, PhaseInv
<1>5. CASE PoolDrained
  BY <1>1, <1>5 DEF PoolDrained, PhaseInv, Drained
<1>6. CASE StartReturns
  <2>1. phase = "flush" /\ Drained /\ UNCHANGED <<reader, firstErr, records>> /\ Drained'
    BY <1>1, <1>6 DEF StartReturns, PhaseInv, Drained
  <2>2. \A t \in Topic : reader[t] = "done"
    BY <1>1, <2>1 DEF PhaseInv
  <2>3. CASE firstErr = "error"
    <3>1. phase' = "fatal" /\ UNCHANGED copying
      BY <1>6, <2>3 DEF StartReturns, Die
    <3> QED BY <1>1, <3>1 DEF PhaseInv
  <2>4. CASE firstErr # "error"
    <3>1. phase' = "close" /\ UNCHANGED flushVars
      BY <1>6, <2>4 DEF StartReturns
    <3>2. records \subseteq written \cup lost \cup copying[flusher]
      BY <1>1, <1>6, AllBatched DEF StartReturns
    <3> QED BY <1>1, <2>1, <2>2, <2>4, <3>1, <3>2 DEF PhaseInv
  <2> QED BY <2>3, <2>4
<1>7. CASE FlusherStopped
  BY <1>1, <1>7 DEF FlusherStopped, PhaseInv, Drained
<1>8. ASSUME NEW a \in {flusher, main}, TakeBatch(a) \/ EndCopy(a),
             a = main => phase = "flush", a = flusher => ~Gone
      PROVE  PhaseInv'
  <2>1. /\ copying' \in [{flusher, main} -> SUBSET (Message \X Field \X Table)]
        /\ written \subseteq written' /\ lost \subseteq lost'
        /\ copying[flusher] \subseteq written' \cup lost' \cup copying'[flusher]
        /\ UNCHANGED <<poolVars, phase, readVars>>
    BY <1>1, <1>8, CopyStep
  <2> QED BY <1>1, <1>8, <2>1 DEF PhaseInv, Gone, Drained
<1>9. CASE FinalFlush \/ Flusher
  <2>1. CASE /\ phase = "flush"
             /\ UNCHANGED <<poolVars, phase, readVars, copying>>
    BY <1>1, <2>1 DEF PhaseInv, Drained
  <2> QED BY <1>8, <1>9, <2>1 DEF FinalFlush, Flusher
<1>10. ASSUME NEW t \in Topic, Read(t) PROVE PhaseInv'
  <2>1. UNCHANGED <<phase, flushVars, closed, pc, records, orphans>> /\ reader[t] # "done"
    BY <1>10 DEF Read, CheckContext, Fetch, FetchTimesOut, FetchFails, Submit, SubmitMessage
  <2>2. phase \notin {"drain", "flush", "close", "exited"}
    BY <1>1, <2>1 DEF PhaseInv
  <2> QED BY <1>1, <2>1, <2>2 DEF PhaseInv
<1>11. ASSUME NEW w \in Worker, WorkerStep(w) PROVE PhaseInv'
  BY <1>1, <1>11 DEF WorkerStep, PhaseInv
<1>12. CASE Signal \/ Over \/ UNCHANGED processVars
  BY <1>1, <1>12 DEF Signal, Over, processVars, PhaseInv, Drained
<1> QED BY <1>2, <1>3, <1>4, <1>5, <1>6, <1>7, <1>9, <1>10, <1>11, <1>12
        DEF ProcessNext, Main

(* Devices come in only while no worker looks one up. *)
LEMMA DeviceInvStep ==
  ASSUME ProcessInv, [ProcessNext]_processVars
  PROVE  DeviceInv'
<1> USE DEF poolVars, metaVars, cacheVars, workVars
<1>1. PoolInv /\ PhaseInv /\ DeviceInv
  BY DEF ProcessInv
<1>2. CASE MetadataMessage \/ Reload
  <2>1. rows' \subseteq devices' /\ UNCHANGED <<pc, msg, orphans>>
    BY <1>1, <1>2 DEF MetadataMessage, Reload, DeviceInv
  <2>2. (\A w \in Worker : pc[w] = "receive") /\ \A m \in Message : orphans[m] = None
    BY <1>1, <1>2 DEF MetadataMessage, Reload, PhaseInv
  <2> QED BY <2>1, <2>2, ValueTypes DEF DeviceInv, OrphansLackDevice, Reason
<1>3. ASSUME UNCHANGED <<rows, devices, pc, msg, orphans>> PROVE DeviceInv'
  BY <1>1, <1>3 DEF DeviceInv, OrphansLackDevice
<1>4. ASSUME NEW w \in Worker, WorkerStep(w) PROVE DeviceInv'
  <2>1. UNCHANGED rows /\ Work(w)
    BY <1>4 DEF WorkerStep
  <2>2. UNCHANGED devices
    BY <1>4 DEF WorkerStep, Work, Receive, WorkerReturns, Lookup, ReturnError,
       SaveMissingDevice, NextField, EndOfFields, CreateTag, CreateTagFails, SaveTagFailure,
       CacheTag, AddRecord
  <2>3. /\ pc'[w] = "orphan" => DeviceOf[msg'[w]] \notin devices
        /\ \A k \in Worker \ {w} : pc'[k] = pc[k] /\ msg'[k] = msg[k]
    <3> USE DEF PoolInv, TypeInv, TypeOK
    <3>1. CASE Receive(w) \/ WorkerReturns(w) \/ Lookup(w)
      BY <1>1, <3>1 DEF Receive, WorkerReturns, Lookup
    <3>2. CASE ReturnError(w) \/ SaveMissingDevice(w) \/ EndOfFields(w)
      BY <1>1, <3>2 DEF ReturnError, SaveMissingDevice, EndOfFields, Finish
    <3>3. CASE CreateTag(w) \/ CreateTagFails(w) \/ CacheTag(w)
      BY <1>1, <3>3 DEF CreateTag, CreateTagFails, CacheTag
    <3>5. ASSUME NEW f \in Field, NextField(w, f)
          PROVE  /\ pc'[w] # "orphan"
                 /\ \A k \in Worker \ {w} : pc'[k] = pc[k] /\ msg'[k] = msg[k]
      BY <1>1, <3>5 DEF NextField
    <3>4. CASE SaveTagFailure(w) \/ AddRecord(w)
      BY <1>1, <3>4 DEF SaveTagFailure, AddRecord, EndOfBody
    <3> QED BY <2>1, <3>1, <3>2, <3>3, <3>4, <3>5 DEF Work
  <2>4. \A m \in Message : orphans'[m] = "missing_device" =>
          orphans[m] = "missing_device" \/ (pc[w] = "orphan" /\ m = msg[w])
    <3> USE DEF PoolInv, TypeInv, TypeOK
    <3>1. CASE UNCHANGED orphans
      BY <3>1
    <3>2. CASE SaveMissingDevice(w)
      BY <1>1, <3>2 DEF SaveMissingDevice, Save
    <3>3. CASE ReturnError(w) \/ SaveTagFailure(w)
      BY <1>1, <3>3 DEF ReturnError, SaveTagFailure, Save
    <3> QED BY <2>1, <3>1, <3>2, <3>3 DEF Work, Receive, WorkerReturns, Lookup, NextField,
               EndOfFields, CreateTag, CreateTagFails, CacheTag, AddRecord
  <2> QED BY <1>1, <2>1, <2>2, <2>3, <2>4 DEF DeviceInv, OrphansLackDevice
<1>5. CASE \/ MetadataTopicEnds \/ MetadataFails \/ ReloadFails \/ PoolDrained \/ FinalFlush
           \/ StartReturns \/ FlusherStopped \/ Flusher \/ Signal \/ Over \/ TopicsEnd
           \/ UNCHANGED processVars
  BY <1>3, <1>5 DEF MetadataTopicEnds, MetadataFails, ReloadFails, PoolDrained, FinalFlush,
     StartReturns, FlusherStopped, Flusher, Signal, Over, TakeBatch, EndCopy, TopicsEnd,
     Shutdown, processVars
<1>6. ASSUME NEW t \in Topic, Read(t) PROVE DeviceInv'
  BY <1>3, <1>6 DEF Read, CheckContext, Fetch, FetchTimesOut, FetchFails, Submit, SubmitMessage
<1> QED BY <1>2, <1>4, <1>5, <1>6 DEF ProcessNext, Main

----------------------------------------------------------------------------
(* The process starts with an idle pool and readers at their first message. *)
LEMMA ProcessInitially ==
  ASSUME ServiceAssumption
  PROVE  ProcessInit => ProcessInv
<1> SUFFICES ASSUME ProcessInit PROVE ProcessInv
  OBVIOUS
<1>1. PoolInv
  <2>1. ParseErrorsKept
    BY DEF ProcessInit, Init, ParseErrorsKept, Finished
  <2> QED BY <2>1, TypeInit, CountInit DEF ProcessInit, PoolInv
<1>2. ReadInv
  BY LogTypes
     DEF ServiceAssumption, ProcessInit, Init, ReadInv, ReaderInv, ReaderValue, Replayed
<1>3. PhaseInv
  BY DEF ProcessInit, Init, PhaseInv
<1>4. DeviceInv
  BY ValueTypes DEF ProcessInit, Init, DeviceInv, OrphansLackDevice, Reason
<1> QED BY <1>1, <1>2, <1>3, <1>4 DEF ProcessInv

(* The invariant of the whole process: pool, readers, main goroutine, devices. *)
THEOREM ProcessCorrect ==
  ASSUME ServiceAssumption
  PROVE  ProcessSpec => []ProcessInv
<1>1. ProcessInv /\ [ProcessNext]_processVars => ProcessInv'
  BY PoolInvStep, ReadInvStep, PhaseInvStep, DeviceInvStep DEF ProcessInv
<1> QED BY <1>1, ProcessInitially, PTL DEF ProcessSpec

(* What the types add to the invariant of the process. *)
MainTypes ==
  /\ phase \in PhaseValue /\ metaTopic \in Nat /\ metaOffset \in Nat
  /\ early \subseteq Topic /\ cancelled \in BOOLEAN /\ faults \in 0..MaxFaults

(* A record is in one COPY at most, and in none once it is written or lost: a    *)
(* COPY of the flusher and one of the last FlushAll never share one.             *)
CopyInv ==
  /\ copying \in [{flusher, main} -> SUBSET records]
  /\ written \subseteq records /\ lost \subseteq records /\ written \cap lost = {}
  /\ copying[flusher] \cap copying[main] = {}
  /\ ~Gone => \A a \in {flusher, main} : copying[a] \cap (written \cup lost) = {}

(* The types of what only main and the readers touch. *)
LEMMA MainTypesStep ==
  ASSUME MainTypes, [ProcessNext]_processVars
  PROVE  MainTypes'
<1> USE DEF MainTypes, metaVars, readVars
<1>1. ASSUME NEW t \in Topic, Read(t) PROVE MainTypes'
  <2>1. UNCHANGED <<phase, metaTopic, metaOffset, cancelled>>
    BY <1>1 DEF Read, CheckContext, Fetch, FetchTimesOut, FetchFails, Submit
  <2>2. early' \in {early, early \cup {t}}
    BY <1>1 DEF Read, CheckContext, Fetch, FetchTimesOut, FetchFails, Submit
  <2>3. faults' = faults \/ (faults < MaxFaults /\ faults' = faults + 1)
    BY <1>1 DEF Read, CheckContext, Fetch, FetchTimesOut, FetchFails, Submit
  <2> QED BY <2>1, <2>2, <2>3, LogAssumption
<1>2. CASE MetadataMessage \/ MetadataTopicEnds
  BY <1>2 DEF MetadataMessage, MetadataTopicEnds, PhaseValue
<1>3. CASE MetadataFails
  <2>1. faults' = faults \/ (faults < MaxFaults /\ faults' = faults + 1)
    BY <1>3 DEF MetadataFails
  <2>2. phase' = "fatal" /\ UNCHANGED <<metaTopic, metaOffset, early, cancelled>>
    BY <1>3 DEF MetadataFails, Die
  <2> QED BY <2>1, <2>2, LogAssumption DEF PhaseValue
<1>4. CASE Reload \/ ReloadFails \/ TopicsEnd \/ PoolDrained \/ StartReturns \/ FlusherStopped
  BY <1>4 DEF Reload, ReloadFails, TopicsEnd, PoolDrained, StartReturns, FlusherStopped, Die,
     PhaseValue
<1>5. CASE FinalFlush \/ Flusher \/ Over \/ UNCHANGED processVars
  BY <1>5 DEF FinalFlush, Flusher, TakeBatch, EndCopy, Over, processVars
<1>6. CASE Signal
  BY <1>6 DEF Signal
<1>7. ASSUME NEW w \in Worker, WorkerStep(w) PROVE MainTypes'
  BY <1>7 DEF WorkerStep
<1> QED BY <1>1, <1>2, <1>3, <1>4, <1>5, <1>6, <1>7 DEF ProcessNext, Main

(* Taking a batch, ending its COPY and losing it keep the records apart. *)
LEMMA CopyInvStep ==
  ASSUME PoolInv, CopyInv, [ProcessNext]_processVars
  PROVE  CopyInv'
<1> USE DEF flushVars, poolVars, outcome
<1>1. ASSUME UNCHANGED flushVars, records \subseteq records', Gone => Gone' PROVE CopyInv'
  BY <1>1 DEF CopyInv
<1>2. ASSUME NEW w \in Worker, WorkerStep(w) PROVE CopyInv'
  <2>1. records \subseteq records' /\ UNCHANGED <<flushVars, phase>>
    BY <1>2 DEF WorkerStep, Work, Receive, WorkerReturns, Lookup, ReturnError,
       SaveMissingDevice, NextField, EndOfFields, CreateTag, CreateTagFails, SaveTagFailure,
       CacheTag, AddRecord
  <2> QED BY <1>1, <2>1 DEF Gone
<1>3. ASSUME NEW t \in Topic, Read(t) PROVE CopyInv'
  <2>1. UNCHANGED <<flushVars, records, phase>>
    BY <1>3 DEF Read, CheckContext, Fetch, FetchTimesOut, FetchFails, Submit, SubmitMessage
  <2> QED BY <1>1, <2>1 DEF Gone
<1>4. CASE MetadataFails \/ ReloadFails \/ (StartReturns /\ firstErr = "error")
  <2>1. Die /\ UNCHANGED records /\ phase \in {"metadata", "reload", "flush"}
    BY <1>4 DEF MetadataFails, ReloadFails, StartReturns
  <2> QED BY <2>1 DEF Die, CopyInv, Gone
<1>5. CASE \/ MetadataMessage \/ MetadataTopicEnds \/ Reload \/ TopicsEnd \/ PoolDrained
           \/ (StartReturns /\ firstErr # "error") \/ FlusherStopped \/ Signal \/ Over
           \/ UNCHANGED processVars
  <2>1. UNCHANGED flushVars /\ UNCHANGED records /\ (Gone => Gone')
    BY <1>5 DEF MetadataMessage, MetadataTopicEnds, Reload, TopicsEnd, Shutdown, PoolDrained,
       StartReturns, FlusherStopped, Signal, Over, processVars, Gone
  <2> QED BY <1>1, <2>1
<1>6. ASSUME NEW a \in {flusher, main}, TakeBatch(a) PROVE CopyInv'
  <2>1. PICK table \in Table : copying' = [copying EXCEPT ![a] = Batch(table)]
    BY <1>6 DEF TakeBatch
  <2>2. UNCHANGED <<records, written, lost, phase>>
    BY <1>6 DEF TakeBatch
  <2>3. /\ Batch(table) \subseteq records
        /\ Batch(table) \cap (written \cup lost \cup copying[flusher] \cup copying[main]) = {}
    BY DEF Batch
  <2> QED BY <2>1, <2>2, <2>3 DEF CopyInv, Gone
<1>7. ASSUME NEW a \in {flusher, main}, EndCopy(a), ~Gone PROVE CopyInv'
  <2>1. copying' = [copying EXCEPT ![a] = {}] /\ UNCHANGED <<records, phase>>
    BY <1>7 DEF EndCopy
  <2>2. \/ written' = written \cup copying[a] /\ lost' = lost
        \/ lost' = lost \cup copying[a] /\ written' = written
    BY <1>7 DEF EndCopy
  <2> QED BY <1>7, <2>1, <2>2 DEF CopyInv, Gone
<1>8. CASE FinalFlush
  <2>1. CASE UNCHANGED copying /\ lost' = lost \cup Batched /\ UNCHANGED <<records, written, phase>>
    <3>1. /\ Batched \subseteq records
          /\ Batched \cap (written \cup lost \cup copying[flusher] \cup copying[main]) = {}
      BY DEF Batched, Batch
    <3> QED BY <2>1, <3>1 DEF CopyInv, Gone
  <2> QED BY <1>6, <1>7, <1>8, <2>1 DEF FinalFlush, Gone
<1>9. CASE Flusher
  BY <1>6, <1>7, <1>9 DEF Flusher
<1> QED BY <1>2, <1>3, <1>4, <1>5, <1>8, <1>9 DEF ProcessNext, Main

(* Types of the process, and no record in two places: not in both COPYs, nor    *)
(* written and lost.                                                            *)
THEOREM ProcessTypeCorrect ==
  ASSUME ServiceAssumption
  PROVE  ProcessSpec => []ProcessTypeOK
<1>1. ProcessInit => MainTypes /\ CopyInv
  <2> SUFFICES ASSUME ProcessInit PROVE MainTypes /\ CopyInv
    OBVIOUS
  <2>1. phase \in PhaseValue
    BY DEF ProcessInit, PhaseValue
  <2>2. metaTopic \in Nat /\ metaOffset \in Nat /\ faults \in 0..MaxFaults
    BY LogAssumption DEF ProcessInit
  <2>3. early \subseteq Topic /\ CopyInv
    BY DEF ProcessInit, CopyInv
  <2>4. cancelled \in BOOLEAN
    BY Zenon DEF ProcessInit
  <2> QED BY <2>1, <2>2, <2>3, <2>4 DEF MainTypes
<1>2. ProcessInv /\ MainTypes /\ CopyInv /\ [ProcessNext]_processVars => (MainTypes /\ CopyInv)'
  BY MainTypesStep, CopyInvStep DEF ProcessInv
<1>3. ProcessInv /\ MainTypes /\ CopyInv => ProcessTypeOK
  <2> SUFFICES ASSUME ProcessInv, MainTypes, CopyInv PROVE ProcessTypeOK
    OBVIOUS
  <2>1. TypeOK /\ rows \subseteq Device
    BY DEF ProcessInv, PoolInv, TypeInv, TypeOK, DeviceInv
  <2>2. /\ reader \in [Topic -> ReaderValue] /\ offset \in [Topic -> Nat]
        /\ \A t \in Topic : offset[t] <= Len(Log[t])
        /\ firstErr \in {None, "canceled", "error"}
    BY LogTypes DEF ProcessInv, ReadInv, ReaderInv
  <2>3. /\ copying[flusher] \cup copying[main] \cup written \cup lost \subseteq records
        /\ copying[flusher] \cap copying[main] = {} /\ written \cap lost = {}
    BY DEF CopyInv
  <2> QED BY <2>1, <2>2, <2>3 DEF MainTypes, ProcessTypeOK
<1> QED BY <1>1, <1>2, <1>3, ProcessCorrect, PTL DEF ProcessSpec

(* The back-fill loses no message it cannot parse: each is in                  *)
(* orphaned_messages, unless that insert itself failed.                        *)
THEOREM ParseErrorsAlwaysKept ==
  ASSUME ServiceAssumption
  PROVE  ProcessSpec => []ParseErrorsKept
<1>1. ProcessInv => ParseErrorsKept
  BY DEF ProcessInv, PoolInv
<1> QED BY <1>1, ProcessCorrect, PTL

(* A metadata phase that is over before the data: no message is kept as one    *)
(* without a device while the table has the device.                            *)
THEOREM OrphansAlwaysLackDevice ==
  ASSUME ServiceAssumption
  PROVE  ProcessSpec => []OrphansLackDevice
<1>1. ProcessInv => OrphansLackDevice
  BY DEF ProcessInv, DeviceInv
<1> QED BY <1>1, ProcessCorrect, PTL

(* Whenever the process ends in order, also after SIGTERM, no record is left   *)
(* in a batch: it was written, or its COPY failed.                             *)
THEOREM NothingEverLeft ==
  ASSUME ServiceAssumption
  PROVE  ProcessSpec => []NothingLeftInBatches
<1>1. ProcessInv => NothingLeftInBatches
  BY DEF ProcessInv, PhaseInv, NothingLeftInBatches
<1> QED BY <1>1, ProcessCorrect, PTL

(* A run without a signal and without a fatal error has replayed each topic up *)
(* to END_OFFSET and not beyond, unless the broker was slow.                   *)
THEOREM ExitedAlwaysComplete ==
  ASSUME ServiceAssumption
  PROVE  ProcessSpec => []ExitedIsComplete
<1>1. ProcessInv => ExitedIsComplete
  <2> SUFFICES ASSUME ProcessInv, phase = "exited", ~cancelled, NEW t \in Topic
               PROVE  /\ t \notin early => \A m \in Due(t) : Finished(m)
                      /\ \A i \in 1..Len(Log[t]) : i > EndOffset => Log[t][i] \notin submitted
    BY DEF ExitedIsComplete
  <2>1. Drained /\ firstErr = None /\ reader[t] = "done" /\ ReaderInv(t)
    BY DEF ProcessInv, PhaseInv, ReadInv
  <2>2. channel = <<>> /\ \A w \in Worker : msg[w] = None
    BY <2>1, MessageAssumption DEF Drained, ProcessInv, PoolInv, CountInv, TypeInv, InHand
  <2>3. ASSUME t \notin early, NEW m \in Due(t) PROVE Finished(m)
    <3>1. PICK i \in 1..Len(Log[t]) : i <= EndOffset /\ m = Log[t][i]
      BY <2>3 DEF Due
    <3>2. m \in submitted /\ m \in Message
      BY <2>1, <2>3, <3>1, LogTypes DEF ReaderInv
    <3> QED BY <2>2, <3>2, MessageAssumption DEF Finished
  <2> QED BY <2>1, <2>3 DEF ReaderInv
<1> QED BY <1>1, ProcessCorrect, PTL
----------------------------------------------------------------------------
(* With a row for each record, an INSERT of new records adds them all. *)
LEMMA OwnRows ==
  ASSUME NEW tbl \in SUBSET Handed, NEW S \in SUBSET Handed, S \cap tbl = {}
  PROVE  tbl \cup S \in Store!Inserts(tbl, S)
<1> DEFINE row == [r \in Handed |-> r]
<1>1. \A r \in S : \E s \in tbl \cup S : row[s] = row[r]
  OBVIOUS
<1>2. \A u \in S : ~\E s \in tbl : row[s] = row[u]
  OBVIOUS
<1>3. \A u, v \in S : row[u] = row[v] => u = v
  OBVIOUS
<1> HIDE DEF row
<1> QED BY <1>1, <1>2, <1>3 DEF Store!Inserts, Store!Covers, row

(* A COPY that ends takes its batch out of pending, into the table or not. *)
LEMMA CopyEnds ==
  ASSUME PoolInv, CopyInv, NEW a \in {flusher, main}, EndCopy(a), ~Gone
  PROVE  Store!Commit(copying[a]) \/ Store!Reject(copying[a])
<1> DEFINE S == copying[a]
<1>1. /\ S \subseteq records \ (written \cup lost) /\ written \subseteq records
      /\ lost \subseteq records /\ records \subseteq Handed /\ records' = records
  BY DEF EndCopy, CopyInv, PoolInv, TypeInv, TypeOK, Handed, poolVars, outcome
<1>2. written \cup S \in Store!Inserts(written, S)
  BY <1>1, OwnRows
<1>3. \/ written' = written \cup S /\ lost' = lost
      \/ lost' = lost \cup S /\ written' = written
  BY DEF EndCopy
<1> HIDE DEF S
<1>4. records' \ (written' \cup lost') = (records \ (written \cup lost)) \ S
  BY <1>1, <1>3
<1> QED BY <1>1, <1>2, <1>3, <1>4 DEF Store!Commit, Store!Reject, S

(* log.Fatalf beside a COPY of the flusher, which commits or stays pending. *)
LEMMA DieBesideCopy ==
  ASSUME PoolInv, CopyInv, Die, UNCHANGED records, ~Gone
  PROVE  Store!Commit(copying[flusher]) \/ UNCHANGED Store!vars
<1> DEFINE S == copying[flusher]
<1>1. /\ S \subseteq records \ (written \cup lost) /\ written \subseteq records
      /\ records \subseteq Handed
  BY DEF CopyInv, PoolInv, TypeInv, TypeOK, Handed
<1>2. written \cup S \in Store!Inserts(written, S)
  BY <1>1, OwnRows
<1>3. lost' = lost /\ (written' = written \/ written' = written \cup S)
  BY DEF Die
<1> HIDE DEF S
<1>4. CASE written' = written \cup S
  <2>1. records' \ (written' \cup lost') = (records \ (written \cup lost)) \ S
    BY <1>1, <1>3, <1>4
  <2> QED BY <1>2, <1>3, <1>4, <2>1 DEF Store!Commit, S
<1> QED BY <1>3, <1>4 DEF Store!vars

(* A worker hands on one record of its own message, or none. *)
LEMMA WorkerAccepts ==
  ASSUME PoolInv, CopyInv, NEW w \in Worker, WorkerStep(w)
  PROVE  (\E r \in Handed : Store!Accept(r)) \/ UNCHANGED Store!vars
<1> USE DEF flushVars, outcome
<1>1. UNCHANGED <<written, lost>>
  BY DEF WorkerStep
<1>2. CASE UNCHANGED records
  BY <1>1, <1>2 DEF Store!vars
<1>3. ASSUME ~UNCHANGED records PROVE \E r \in Handed : Store!Accept(r)
  <2>1. AddRecord(w)
    BY <1>3 DEF WorkerStep, Work, Receive, WorkerReturns, Lookup, ReturnError,
       SaveMissingDevice, NextField, EndOfFields, CreateTag, CreateTagFails, SaveTagFailure,
       CacheTag
  <2>2. PICK r : records' = records \cup {r}
    BY <1>3, <2>1 DEF AddRecord
  <2>3. r \notin records
    BY <1>3, <2>2
  <2>4. TypeInv'
    BY <2>1, TypeStep DEF PoolInv, Next, Work
  <2>5. r \in Handed
    BY <2>2, <2>4 DEF TypeInv, TypeOK, Handed
  <2>6. written \subseteq records /\ lost \subseteq records
    BY DEF CopyInv
  <2>7. records' \ (written' \cup lost') = (records \ (written \cup lost)) \cup {r}
    BY <1>1, <2>2, <2>3, <2>6
  <2> QED BY <1>1, <2>2, <2>3, <2>5, <2>7 DEF Store!Accept
<1> QED BY <1>2, <1>3

(* The whole process implements the store that BatchWriter implements: a worker *)
(* accepts, the end of a COPY commits or gives up its batch, the last FlushAll  *)
(* after SIGTERM gives up what is left, a fatal error may commit the flusher's  *)
(* COPY, and nothing else is visible.                                           *)
THEOREM ProcessImplementsStore ==
  ASSUME ServiceAssumption
  PROVE  ProcessSpec => BackfillImplementsStore
<1>1. ProcessInit => Store!Init
  BY DEF ProcessInit, Init, Store!Init
<1>2. ProcessInit => CopyInv
  BY DEF ProcessInit, CopyInv
<1>3. ProcessInv /\ CopyInv /\ [ProcessNext]_processVars => CopyInv'
  BY CopyInvStep DEF ProcessInv
<1>4. ProcessInv /\ CopyInv /\ [ProcessNext]_processVars => [Store!Next]_(Store!vars)
  <2> SUFFICES ASSUME PoolInv, CopyInv, [ProcessNext]_processVars
               PROVE  [Store!Next]_(Store!vars)
    BY DEF ProcessInv
  <2> USE DEF flushVars, poolVars, outcome
  <2>1. ASSUME UNCHANGED <<records, written, lost>> PROVE UNCHANGED Store!vars
    BY <2>1 DEF Store!vars
  <2>2. ASSUME NEW w \in Worker, WorkerStep(w) PROVE [Store!Next]_(Store!vars)
    BY <2>2, WorkerAccepts DEF Store!Next
  <2>3. ASSUME NEW t \in Topic, Read(t) PROVE UNCHANGED Store!vars
    BY <2>1, <2>3 DEF Read, CheckContext, Fetch, FetchTimesOut, FetchFails, Submit,
       SubmitMessage
  <2>p. ~Gone => \A a \in {flusher, main} :
          copying[a] \in SUBSET (records \ (written \cup lost))
    BY DEF CopyInv
  <2>4. CASE MetadataFails \/ ReloadFails \/ (StartReturns /\ firstErr = "error")
    <3>1. Die /\ UNCHANGED records /\ ~Gone
      BY <2>4 DEF MetadataFails, ReloadFails, StartReturns, Gone
    <3> QED BY <2>p, <3>1, DieBesideCopy DEF Store!Next
  <2>5. CASE \/ MetadataMessage \/ MetadataTopicEnds \/ Reload \/ TopicsEnd \/ PoolDrained
             \/ (StartReturns /\ firstErr # "error") \/ FlusherStopped \/ Signal \/ Over
             \/ UNCHANGED processVars
    BY <2>1, <2>5 DEF MetadataMessage, MetadataTopicEnds, Reload, TopicsEnd, Shutdown,
       PoolDrained, StartReturns, FlusherStopped, Signal, Over, processVars
  <2>6. ASSUME NEW a \in {flusher, main}, TakeBatch(a) PROVE UNCHANGED Store!vars
    BY <2>1, <2>6 DEF TakeBatch
  <2>7. ASSUME NEW a \in {flusher, main}, EndCopy(a), ~Gone PROVE [Store!Next]_(Store!vars)
    BY <2>7, <2>p, CopyEnds DEF Store!Next
  <2>8. ASSUME lost' = lost \cup Batched, UNCHANGED <<records, written>>
        PROVE  [Store!Next]_(Store!vars)
    <3>1. Batched \in SUBSET (records \ (written \cup lost))
      BY DEF Batched, Batch
    <3>2. records' \ (written' \cup lost') = (records \ (written \cup lost)) \ Batched
      BY <2>8
    <3>3. Store!Reject(Batched)
      BY <2>8, <3>2 DEF Store!Reject
    <3> QED BY <3>1, <3>3 DEF Store!Next
  <2>9. CASE FinalFlush
    BY <2>6, <2>7, <2>8, <2>9 DEF FinalFlush, Gone
  <2>10. CASE Flusher
    BY <2>6, <2>7, <2>10 DEF Flusher
  <2> QED BY <2>2, <2>3, <2>4, <2>5, <2>9, <2>10 DEF ProcessNext, Main
<1> QED BY <1>1, <1>2, <1>3, <1>4, ProcessCorrect, PTL DEF ProcessSpec, BackfillImplementsStore, Store!Spec
=============================================================================
